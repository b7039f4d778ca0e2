-------------------------- MODULE ConversionProofs --------------------------
(***************************************************************************)
(* What the conversion webhook does to every resource, whatever its        *)
(* clients edit and in whatever order: for every value of Edited and for   *)
(* the field lists of the two versions as the API types declare them.      *)
(*                                                                         *)
(* The properties are about paths of fields, and the field lists are large *)
(* unions of Leaves and Under. The proofs go by the shape of a path: its   *)
(* first name, and the path that is left below it (Name, Rest). One lemma  *)
(* per struct of the API then says that the two conversions of that struct *)
(* keep the same fields (Agree); the lemma of a struct uses those of the   *)
(* structs in it, up to ResourceAgrees for a whole resource. Two structs   *)
(* do not agree, the spec itself and ServerSpec: what their conversions    *)
(* lose is DroppedFields, and no more than that.                           *)
(***************************************************************************)
EXTENDS Conversion, SequenceTheorems, TLAPS

-----------------------------------------------------------------------------
(* Paths.                                                                  *)
\* A path is a non-empty sequence of names; a leaf has one, an inner path more.
IsPath(p) == \E S : p \in Seq(S) \ {<<>>}
Paths(P) == \A p \in P : IsPath(p)
Name(p) == Head(p)
Rest(p) == Tail(p)
Leaf(p) == IsPath(p) /\ Len(p) = 1
Inner(p) == IsPath(p) /\ Len(p) # 1

\* Head and tail of a path.
LEMMA LenPath ==
  ASSUME NEW S, NEW p \in Seq(S), p # <<>>
  PROVE  /\ Len(p) \in Nat /\ Len(p) >= 1
         /\ Head(p) = p[1] /\ Head(p) \in S
         /\ Tail(p) \in Seq(S)
         /\ Len(Tail(p)) = Len(p) - 1
         /\ \A i \in 1..Len(Tail(p)) : Tail(p)[i] = p[i + 1]
<1>2. Len(p) \in Nat /\ Len(p) >= 1
  BY EmptySeq
<1>3. Head(p) = p[1]
  OBVIOUS
<1> QED BY <1>2, <1>3, HeadTailProperties

\* A path of one name.
LEMMA OneName ==
  ASSUME NEW S, NEW n \in S
  PROVE  /\ <<n>> \in Seq(S) /\ <<n>> # <<>>
         /\ Len(<<n>>) = 1 /\ Head(<<n>>) = n /\ <<n>>[1] = n
<1>1. <<n>> \in Seq(S)
  OBVIOUS
<1>2. Len(<<n>>) = 1
  OBVIOUS
<1>3. <<n>> # <<>>
  BY <1>2
<1> QED BY <1>1, <1>2, <1>3

\* The members of Leaves: the paths of one of these names.
LEMMA InLeaves ==
  ASSUME NEW names, NEW p
  PROVE  p \in Leaves(names) <=> Leaf(p) /\ Name(p) \in names
<1>1. ASSUME NEW n \in names PROVE IsPath(<<n>>) /\ Head(<<n>>) = n /\ Len(<<n>>) = 1
  BY OneName DEF IsPath
<1>2. ASSUME Leaf(p) PROVE p = <<Name(p)>>
  <2>1. PICK S : p \in Seq(S) /\ p # <<>>
    BY <1>2 DEF Leaf, IsPath
  <2>2. Len(p) = 1 /\ Name(p) = p[1] /\ p[1] \in S
    BY <1>2, <2>1, LenPath DEF Leaf, Name
  <2>3. <<p[1]>> \in Seq(S) /\ Len(<<p[1]>>) = 1 /\ <<p[1]>>[1] = p[1]
    BY <2>2, OneName
  <2>4. \A i \in 1..Len(p) : p[i] = <<p[1]>>[i]
    BY <2>2, <2>3
  <2>5. p = <<p[1]>>
    BY <2>1, <2>2, <2>3, <2>4, SeqEqual
  <2> QED BY <2>2, <2>5
<1>3. ASSUME p \in Leaves(names) PROVE Leaf(p) /\ Name(p) \in names
  BY <1>1, <1>3 DEF Leaves, Leaf, Name
<1>4. ASSUME Leaf(p), Name(p) \in names PROVE p \in Leaves(names)
  BY <1>2, <1>4 DEF Leaves
<1> QED BY <1>3, <1>4

\* Putting a name before a path.
LEMMA Cons ==
  ASSUME NEW n, NEW q, IsPath(q)
  PROVE  /\ IsPath(<<n>> \o q)
         /\ Len(<<n>> \o q) # 1
         /\ Head(<<n>> \o q) = n
         /\ Tail(<<n>> \o q) = q
<1>0. PICK T : q \in Seq(T) /\ q # <<>>
  BY DEF IsPath
<1> DEFINE p == <<n>> \o q
           S == T \cup {n}
<1>1. n \in S /\ T \subseteq S
  OBVIOUS
<1> HIDE DEF S
<1>2. q \in Seq(S) /\ Len(q) \in Nat /\ Len(q) >= 1
  BY <1>0, <1>1, SeqMonotonic, LenPath
<1>3. <<n>> \in Seq(S) /\ Len(<<n>>) = 1 /\ <<n>>[1] = n
  BY <1>1, OneName
<1>4. /\ p \in Seq(S)
      /\ Len(p) = Len(<<n>>) + Len(q)
      /\ \A i \in 1..(Len(<<n>>) + Len(q)) :
            p[i] = IF i <= Len(<<n>>) THEN <<n>>[i] ELSE q[i - Len(<<n>>)]
  BY <1>2, <1>3, ConcatProperties
<1> HIDE DEF p
<1>5. Len(p) = Len(q) + 1 /\ p[1] = n
  BY <1>2, <1>3, <1>4
<1>6. ASSUME NEW i \in 1..Len(q) PROVE p[i + 1] = q[i]
  <2>1. i + 1 \in 1..(1 + Len(q)) /\ ~(i + 1 <= 1) /\ (i + 1) - 1 = i
    BY <1>2
  <2> QED BY <1>3, <1>4, <2>1
<1>7. p # <<>> /\ Len(p) # 1
  BY <1>2, <1>5
<1>8. Head(p) = n /\ Tail(p) \in Seq(S) /\ Len(Tail(p)) = Len(q)
  BY <1>2, <1>4, <1>5, <1>7, LenPath
<1>9. \A i \in 1..Len(q) : Tail(p)[i] = q[i]
  BY <1>4, <1>6, <1>7, <1>8, LenPath
<1>10. Tail(p) = q
  BY <1>2, <1>8, <1>9, SeqEqual
<1> QED BY <1>4, <1>7, <1>8, <1>10 DEF p, IsPath

\* An inner path is its name before its rest.
LEMMA Uncons ==
  ASSUME NEW p, Inner(p)
  PROVE  IsPath(Rest(p)) /\ p = <<Name(p)>> \o Rest(p)
<1>0. PICK S : p \in Seq(S) /\ p # <<>> /\ Len(p) # 1
  BY DEF IsPath, Inner
<1> DEFINE t == Tail(p)
           h == <<Head(p)>>
<1>1. /\ Len(p) \in Nat /\ Len(p) >= 1
      /\ Head(p) = p[1] /\ Head(p) \in S
      /\ t \in Seq(S) /\ Len(t) = Len(p) - 1
      /\ \A i \in 1..Len(t) : t[i] = p[i + 1]
  BY <1>0, LenPath, Zenon
<1>2. h \in Seq(S) /\ Len(h) = 1 /\ h[1] = p[1]
  BY <1>1, OneName
<1> HIDE DEF t, h
<1>3. t # <<>>
  <2>1. Len(t) # 0
    BY <1>0, <1>1
  <2> QED BY <2>1
<1>4. p = h \o t
  <2> DEFINE q == h \o t
  <2>1. /\ q \in Seq(S) /\ Len(q) = Len(h) + Len(t)
        /\ \A i \in 1..(Len(h) + Len(t)) :
              q[i] = IF i <= Len(h) THEN h[i] ELSE t[i - Len(h)]
    <3>1. h \in Seq(S) /\ t \in Seq(S)
      BY <1>1, <1>2
    <3> QED BY <3>1, ConcatProperties
  <2> HIDE DEF q
  <2>2. \A i \in 1..Len(p) : p[i] = q[i]
    <3> SUFFICES ASSUME NEW i \in 1..Len(p) PROVE q[i] = p[i]
      OBVIOUS
    <3>1. i \in 1..(Len(h) + Len(t))
      BY <1>1, <1>2
    <3>2. CASE i = 1
      BY <1>1, <1>2, <2>1, <3>1, <3>2
    <3>3. CASE i # 1
      <4>1. i - 1 \in 1..Len(t) /\ (i - 1) + 1 = i /\ ~(i <= 1)
        BY <1>1, <3>3
      <4>2. t[i - 1] = p[i]
        BY <1>1, <4>1
      <4> QED BY <1>2, <2>1, <3>1, <4>1, <4>2
    <3> QED BY <3>2, <3>3
  <2>3. Len(p) = Len(q)
    BY <1>1, <1>2, <2>1
  <2> QED BY <1>0, <2>1, <2>2, <2>3, SeqEqual DEF q
<1> QED BY <1>1, <1>3, <1>4 DEF Name, Rest, IsPath, t, h

\* The members of Under: the inner paths of this name and such a rest.
LEMMA InUnder ==
  ASSUME NEW n, NEW P, Paths(P), NEW p
  PROVE  p \in Under(n, P) <=> Inner(p) /\ Name(p) = n /\ Rest(p) \in P
<1>1. ASSUME NEW q \in P
      PROVE  /\ IsPath(<<n>> \o q) /\ Len(<<n>> \o q) # 1
             /\ Head(<<n>> \o q) = n /\ Tail(<<n>> \o q) = q
  BY Cons DEF Paths
<1>2. ASSUME p \in Under(n, P) PROVE Inner(p) /\ Name(p) = n /\ Rest(p) \in P
  BY <1>1, <1>2 DEF Under, Inner, Name, Rest
<1>3. ASSUME Inner(p), Name(p) = n, Rest(p) \in P PROVE p \in Under(n, P)
  BY Uncons, <1>3 DEF Under
<1> QED BY <1>2, <1>3

\* A path is a leaf or inner, and not both.
LEMMA LeafOrInner ==
  /\ \A p : ~(Leaf(p) /\ Inner(p))
  /\ \A P : Paths(P) <=> \A p \in P : Leaf(p) \/ Inner(p)
BY DEF Leaf, Inner, Paths

\* The two versions of the API write their paths alike.
LEMMA SameForms ==
  /\ \A names : Alpha!Leaves(names) = Leaves(names) /\ Beta!Leaves(names) = Leaves(names)
  /\ \A n, P : Alpha!Under(n, P) = Under(n, P) /\ Beta!Under(n, P) = Under(n, P)
BY DEF Alpha!Leaves, Beta!Leaves, Leaves, Alpha!Under, Beta!Under, Under

\* The path of one name, by its shape.
LEMMA OneLeaf == \A n, p : p = <<n>> <=> Leaf(p) /\ Name(p) = n
<1> TAKE n, p
<1>1. p \in Leaves({n}) <=> p = <<n>>
  BY DEF Leaves
<1> QED BY <1>1, InLeaves

-----------------------------------------------------------------------------
(* a and b are the fields of a struct in v1alpha1 and in v1beta1, to and   *)
(* from what its conversions keep. A conversion keeps only fields that     *)
(* both versions have, and all of them but the dropped ones.               *)
AgreeExcept(a, b, to, from, dropped) ==
  /\ Paths(a) /\ Paths(b)
  /\ to \cup from \subseteq a \cap b
  /\ (a \cap b) \ dropped \subseteq to \cap from

Agree(a, b, to, from) == AgreeExcept(a, b, to, from, {})

\* A struct of the same names in both versions, converted whole.
LEMMA SameLeaves ==
  \A names : Agree(Leaves(names), Leaves(names), Leaves(names), Leaves(names))
BY InLeaves, LeafOrInner DEF Agree, AgreeExcept

\* A struct that is assigned, or converted by a Go type conversion.
Copied(a, b) == Agree(a, b, b, a)

LEMMA ArgoCDIngressSpecCopied ==
  Copied(Alpha!ArgoCDIngressSpec, Beta!ArgoCDIngressSpec)
BY SameLeaves, SameForms
DEF Copied, Alpha!ArgoCDIngressSpec, Beta!ArgoCDIngressSpec

LEMMA ArgoCDRouteSpecCopied ==
  Copied(Alpha!ArgoCDRouteSpec, Beta!ArgoCDRouteSpec)
BY SameLeaves, SameForms
DEF Copied, Alpha!ArgoCDRouteSpec, Beta!ArgoCDRouteSpec

LEMMA ArgoCDApplicationControllerProcessorsSpecCopied ==
  Copied(Alpha!ArgoCDApplicationControllerProcessorsSpec,
         Beta!ArgoCDApplicationControllerProcessorsSpec)
BY SameLeaves, SameForms
DEF Copied, Alpha!ArgoCDApplicationControllerProcessorsSpec,
    Beta!ArgoCDApplicationControllerProcessorsSpec

LEMMA ArgoCDApplicationControllerShardSpecCopied ==
  Copied(Alpha!ArgoCDApplicationControllerShardSpec,
         Beta!ArgoCDApplicationControllerShardSpec)
BY SameLeaves, SameForms
DEF Copied, Alpha!ArgoCDApplicationControllerShardSpec,
    Beta!ArgoCDApplicationControllerShardSpec

LEMMA ArgoCDMetricsSpecCopied ==
  Copied(Alpha!ArgoCDMetricsSpec, Beta!ArgoCDMetricsSpec)
BY SameLeaves, SameForms
DEF Copied, Alpha!ArgoCDMetricsSpec, Beta!ArgoCDMetricsSpec

LEMMA ArgoCDImportSpecCopied ==
  Copied(Alpha!ArgoCDImportSpec, Beta!ArgoCDImportSpec)
BY SameLeaves, SameForms
DEF Copied, Alpha!ArgoCDImportSpec, Beta!ArgoCDImportSpec

LEMMA SSHHostsSpecCopied == Copied(Alpha!SSHHostsSpec, Beta!SSHHostsSpec)
BY SameLeaves, SameForms
DEF Copied, Alpha!SSHHostsSpec, Beta!SSHHostsSpec

LEMMA ArgoCDMonitoringSpecCopied ==
  Copied(Alpha!ArgoCDMonitoringSpec, Beta!ArgoCDMonitoringSpec)
BY SameLeaves, SameForms
DEF Copied, Alpha!ArgoCDMonitoringSpec, Beta!ArgoCDMonitoringSpec

LEMMA ArgoCDNetworkPolicySpecCopied ==
  Copied(Alpha!ArgoCDNetworkPolicySpec, Beta!ArgoCDNetworkPolicySpec)
BY SameLeaves, SameForms
DEF Copied, Alpha!ArgoCDNetworkPolicySpec, Beta!ArgoCDNetworkPolicySpec

LEMMA ArgoCDNodePlacementSpecCopied ==
  Copied(Alpha!ArgoCDNodePlacementSpec, Beta!ArgoCDNodePlacementSpec)
BY SameLeaves, SameForms
DEF Copied, Alpha!ArgoCDNodePlacementSpec, Beta!ArgoCDNodePlacementSpec

LEMMA ArgoCDRBACSpecCopied == Copied(Alpha!ArgoCDRBACSpec, Beta!ArgoCDRBACSpec)
BY SameLeaves, SameForms
DEF Copied, Alpha!ArgoCDRBACSpec, Beta!ArgoCDRBACSpec

LEMMA IgnoreDifferenceCustomizationCopied ==
  Copied(Alpha!IgnoreDifferenceCustomization,
         Beta!IgnoreDifferenceCustomization)
BY SameLeaves, SameForms
DEF Copied, Alpha!IgnoreDifferenceCustomization,
    Beta!IgnoreDifferenceCustomization

LEMMA ArgoCDServerAutoscaleSpecCopied ==
  Copied(Alpha!ArgoCDServerAutoscaleSpec, Beta!ArgoCDServerAutoscaleSpec)
BY SameLeaves, SameForms
DEF Copied, Alpha!ArgoCDServerAutoscaleSpec, Beta!ArgoCDServerAutoscaleSpec

LEMMA ArgoCDServerServiceSpecCopied ==
  Copied(Alpha!ArgoCDServerServiceSpec, Beta!ArgoCDServerServiceSpec)
BY SameLeaves, SameForms
DEF Copied, Alpha!ArgoCDServerServiceSpec, Beta!ArgoCDServerServiceSpec

LEMMA ArgoCDKeycloakSpecCopied ==
  Copied(Alpha!ArgoCDKeycloakSpec, Beta!ArgoCDKeycloakSpec)
BY SameLeaves, SameForms
DEF Copied, Alpha!ArgoCDKeycloakSpec, Beta!ArgoCDKeycloakSpec

LEMMA ArgoCDCASpecCopied == Copied(Alpha!ArgoCDCASpec, Beta!ArgoCDCASpec)
BY SameLeaves, SameForms
DEF Copied, Alpha!ArgoCDCASpec, Beta!ArgoCDCASpec

LEMMA BannerCopied == Copied(Alpha!Banner, Beta!Banner)
BY SameLeaves, SameForms
DEF Copied, Alpha!Banner, Beta!Banner

LEMMA ArgoCDAgentPrincipalServiceSpecCopied ==
  Copied(Alpha!ArgoCDAgentPrincipalServiceSpec,
         Beta!ArgoCDAgentPrincipalServiceSpec)
BY SameLeaves, SameForms
DEF Copied, Alpha!ArgoCDAgentPrincipalServiceSpec,
    Beta!ArgoCDAgentPrincipalServiceSpec

LEMMA ArgoCDAgentPrincipalRouteSpecCopied ==
  Copied(Alpha!ArgoCDAgentPrincipalRouteSpec,
         Beta!ArgoCDAgentPrincipalRouteSpec)
BY SameLeaves, SameForms
DEF Copied, Alpha!ArgoCDAgentPrincipalRouteSpec,
    Beta!ArgoCDAgentPrincipalRouteSpec

LEMMA ArgoCDStatusCopied == Copied(Alpha!ArgoCDStatus, Beta!ArgoCDStatus)
BY SameLeaves, SameForms
DEF Copied, Alpha!ArgoCDStatus, Beta!ArgoCDStatus

\* Structs with conversion functions of their own, the inner ones first.
LEMMA HAAgrees ==
  Agree(Alpha!ArgoCDHASpec, Beta!ArgoCDHASpec,
        ConvertAlphaToBetaHA, ConvertBetaToAlphaHA)
BY SameForms, InLeaves, InUnder, LeafOrInner
DEF Agree, AgreeExcept, Copied, Alpha!ArgoCDHASpec, Beta!ArgoCDHASpec,
    ConvertAlphaToBetaHA, ConvertBetaToAlphaHA

LEMMA KustomizeVersionsAgrees ==
  Agree(Alpha!KustomizeVersionSpec, Beta!KustomizeVersionSpec,
        ConvertAlphaToBetaKustomizeVersions, ConvertBetaToAlphaKustomizeVersions)
BY SameForms, InLeaves, InUnder, LeafOrInner
DEF Agree, AgreeExcept, Copied, Alpha!KustomizeVersionSpec,
    Beta!KustomizeVersionSpec, ConvertAlphaToBetaKustomizeVersions,
    ConvertBetaToAlphaKustomizeVersions

LEMMA ResourceHealthChecksAgrees ==
  Agree(Alpha!ResourceHealthCheck, Beta!ResourceHealthCheck,
        ConvertAlphaToBetaResourceHealthChecks, ConvertBetaToAlphaResourceHealthChecks)
BY SameForms, InLeaves, InUnder, LeafOrInner
DEF Agree, AgreeExcept, Copied, Alpha!ResourceHealthCheck,
    Beta!ResourceHealthCheck, ConvertAlphaToBetaResourceHealthChecks,
    ConvertBetaToAlphaResourceHealthChecks

LEMMA ResourceActionsAgrees ==
  Agree(Alpha!ResourceAction, Beta!ResourceAction,
        ConvertAlphaToBetaResourceActions, ConvertBetaToAlphaResourceActions)
BY SameForms, InLeaves, InUnder, LeafOrInner
DEF Agree, AgreeExcept, Copied, Alpha!ResourceAction, Beta!ResourceAction,
    ConvertAlphaToBetaResourceActions, ConvertBetaToAlphaResourceActions

LEMMA RedisAgrees ==
  Agree(Alpha!ArgoCDRedisSpec, Beta!ArgoCDRedisSpec,
        ConvertAlphaToBetaRedis, ConvertBetaToAlphaRedis)
BY SameForms, InLeaves, InUnder, LeafOrInner
DEF Agree, AgreeExcept, Copied, Alpha!ArgoCDRedisSpec, Beta!ArgoCDRedisSpec,
    ConvertAlphaToBetaRedis, ConvertBetaToAlphaRedis

LEMMA DexAgrees ==
  Agree(Alpha!ArgoCDDexSpec, Beta!ArgoCDDexSpec,
        ConvertAlphaToBetaDex, ConvertBetaToAlphaDex)
BY SameForms, InLeaves, InUnder, LeafOrInner
DEF Agree, AgreeExcept, Copied, Alpha!ArgoCDDexSpec, Beta!ArgoCDDexSpec,
    ConvertAlphaToBetaDex, ConvertBetaToAlphaDex

LEMMA PrincipalRedisAgrees ==
  Agree(Alpha!PrincipalRedisSpec, Beta!PrincipalRedisSpec,
        ConvertAlphaToBetaPrincipalRedis, ConvertBetaToAlphaPrincipalRedis)
BY SameForms, InLeaves, InUnder, LeafOrInner
DEF Agree, AgreeExcept, Copied, Alpha!PrincipalRedisSpec,
    Beta!PrincipalRedisSpec, ConvertAlphaToBetaPrincipalRedis,
    ConvertBetaToAlphaPrincipalRedis

LEMMA PrincipalNamespaceAgrees ==
  Agree(Alpha!PrincipalNamespaceSpec, Beta!PrincipalNamespaceSpec,
        ConvertAlphaToBetaPrincipalNamespace, ConvertBetaToAlphaPrincipalNamespace)
BY SameForms, InLeaves, InUnder, LeafOrInner
DEF Agree, AgreeExcept, Copied, Alpha!PrincipalNamespaceSpec,
    Beta!PrincipalNamespaceSpec, ConvertAlphaToBetaPrincipalNamespace,
    ConvertBetaToAlphaPrincipalNamespace

LEMMA PrincipalTLSAgrees ==
  Agree(Alpha!PrincipalTLSSpec, Beta!PrincipalTLSSpec,
        ConvertAlphaToBetaPrincipalTLS, ConvertBetaToAlphaPrincipalTLS)
BY SameForms, InLeaves, InUnder, LeafOrInner
DEF Agree, AgreeExcept, Copied, Alpha!PrincipalTLSSpec,
    Beta!PrincipalTLSSpec, ConvertAlphaToBetaPrincipalTLS,
    ConvertBetaToAlphaPrincipalTLS

LEMMA PrincipalResourceProxyAgrees ==
  Agree(Alpha!PrincipalResourceProxySpec, Beta!PrincipalResourceProxySpec,
        ConvertAlphaToBetaPrincipalResourceProxy,
        ConvertBetaToAlphaPrincipalResourceProxy)
BY SameForms, InLeaves, InUnder, LeafOrInner
DEF Agree, AgreeExcept, Copied, Alpha!PrincipalResourceProxySpec,
    Beta!PrincipalResourceProxySpec, ConvertAlphaToBetaPrincipalResourceProxy,
    ConvertBetaToAlphaPrincipalResourceProxy

LEMMA PrincipalJWTAgrees ==
  Agree(Alpha!PrincipalJWTSpec, Beta!PrincipalJWTSpec,
        ConvertAlphaToBetaPrincipalJWT, ConvertBetaToAlphaPrincipalJWT)
BY SameForms, InLeaves, InUnder, LeafOrInner
DEF Agree, AgreeExcept, Copied, Alpha!PrincipalJWTSpec,
    Beta!PrincipalJWTSpec, ConvertAlphaToBetaPrincipalJWT,
    ConvertBetaToAlphaPrincipalJWT

LEMMA AgentClientAgrees ==
  Agree(Alpha!AgentClientSpec, Beta!AgentClientSpec,
        ConvertAlphaToBetaAgentClient, ConvertBetaToAlphaAgentClient)
BY SameForms, InLeaves, InUnder, LeafOrInner
DEF Agree, AgreeExcept, Copied, Alpha!AgentClientSpec, Beta!AgentClientSpec,
    ConvertAlphaToBetaAgentClient, ConvertBetaToAlphaAgentClient

LEMMA AgentRedisAgrees ==
  Agree(Alpha!AgentRedisSpec, Beta!AgentRedisSpec,
        ConvertAlphaToBetaAgentRedis, ConvertBetaToAlphaAgentRedis)
BY SameForms, InLeaves, InUnder, LeafOrInner
DEF Agree, AgreeExcept, Copied, Alpha!AgentRedisSpec, Beta!AgentRedisSpec,
    ConvertAlphaToBetaAgentRedis, ConvertBetaToAlphaAgentRedis

LEMMA AgentTLSAgrees ==
  Agree(Alpha!AgentTLSSpec, Beta!AgentTLSSpec,
        ConvertAlphaToBetaAgentTLS, ConvertBetaToAlphaAgentTLS)
BY SameForms, InLeaves, InUnder, LeafOrInner
DEF Agree, AgreeExcept, Copied, Alpha!AgentTLSSpec, Beta!AgentTLSSpec,
    ConvertAlphaToBetaAgentTLS, ConvertBetaToAlphaAgentTLS

LEMMA NamespaceManagementAgrees ==
  Agree(Alpha!ManagedNamespaces, Beta!ManagedNamespaces,
        ConvertAlphaToBetaNamespaceManagement, ConvertBetaToAlphaNamespaceManagement)
BY SameForms, InLeaves, InUnder, LeafOrInner
DEF Agree, AgreeExcept, Copied, Alpha!ManagedNamespaces,
    Beta!ManagedNamespaces, ConvertAlphaToBetaNamespaceManagement,
    ConvertBetaToAlphaNamespaceManagement

LEMMA MetricsAgrees ==
  Agree(Alpha!ArgoCDMetricsSpec, Beta!ArgoCDMetricsSpec,
        ConvertAlphaToBetaMetrics, ConvertBetaToAlphaMetrics)
BY SameForms, InLeaves, InUnder, LeafOrInner, ArgoCDMetricsSpecCopied
DEF Agree, AgreeExcept, Copied, Alpha!ArgoCDMetricsSpec,
    Beta!ArgoCDMetricsSpec, ConvertAlphaToBetaMetrics, ConvertBetaToAlphaMetrics

LEMMA WebhookServerAgrees ==
  Agree(Alpha!WebhookServerSpec, Beta!WebhookServerSpec,
        ConvertAlphaToBetaWebhookServer, ConvertBetaToAlphaWebhookServer)
BY SameForms, InLeaves, InUnder, LeafOrInner, ArgoCDIngressSpecCopied,
    ArgoCDRouteSpecCopied
DEF Agree, AgreeExcept, Copied, Alpha!WebhookServerSpec,
    Beta!WebhookServerSpec, ConvertAlphaToBetaWebhookServer,
    ConvertBetaToAlphaWebhookServer

LEMMA ApplicationSetAgrees ==
  Agree(Alpha!ArgoCDApplicationSet, Beta!ArgoCDApplicationSet,
        ConvertAlphaToBetaApplicationSet, ConvertBetaToAlphaApplicationSet)
BY SameForms, InLeaves, InUnder, LeafOrInner, WebhookServerAgrees
DEF Agree, AgreeExcept, Copied, Alpha!ArgoCDApplicationSet,
    Beta!ArgoCDApplicationSet, ConvertAlphaToBetaApplicationSet,
    ConvertBetaToAlphaApplicationSet

LEMMA ControllerAgrees ==
  Agree(Alpha!ArgoCDApplicationControllerSpec, Beta!ArgoCDApplicationControllerSpec,
        ConvertAlphaToBetaController, ConvertBetaToAlphaController)
BY SameForms, InLeaves, InUnder, LeafOrInner,
    ArgoCDApplicationControllerProcessorsSpecCopied,
    ArgoCDApplicationControllerShardSpecCopied, MetricsAgrees
DEF Agree, AgreeExcept, Copied, Alpha!ArgoCDApplicationControllerSpec,
    Beta!ArgoCDApplicationControllerSpec, ConvertAlphaToBetaController,
    ConvertBetaToAlphaController

LEMMA GrafanaAgrees ==
  Agree(Alpha!ArgoCDGrafanaSpec, Beta!ArgoCDGrafanaSpec,
        ConvertAlphaToBetaGrafana, ConvertBetaToAlphaGrafana)
BY SameForms, InLeaves, InUnder, LeafOrInner, ArgoCDIngressSpecCopied,
    ArgoCDRouteSpecCopied
DEF Agree, AgreeExcept, Copied, Alpha!ArgoCDGrafanaSpec,
    Beta!ArgoCDGrafanaSpec, ConvertAlphaToBetaGrafana, ConvertBetaToAlphaGrafana

LEMMA PrometheusAgrees ==
  Agree(Alpha!ArgoCDPrometheusSpec, Beta!ArgoCDPrometheusSpec,
        ConvertAlphaToBetaPrometheus, ConvertBetaToAlphaPrometheus)
BY SameForms, InLeaves, InUnder, LeafOrInner, ArgoCDIngressSpecCopied,
    ArgoCDRouteSpecCopied
DEF Agree, AgreeExcept, Copied, Alpha!ArgoCDPrometheusSpec,
    Beta!ArgoCDPrometheusSpec, ConvertAlphaToBetaPrometheus,
    ConvertBetaToAlphaPrometheus

LEMMA NotificationsAgrees ==
  Agree(Alpha!ArgoCDNotifications, Beta!ArgoCDNotifications,
        ConvertAlphaToBetaNotifications, ConvertBetaToAlphaNotifications)
BY SameForms, InLeaves, InUnder, LeafOrInner, MetricsAgrees
DEF Agree, AgreeExcept, Copied, Alpha!ArgoCDNotifications,
    Beta!ArgoCDNotifications, ConvertAlphaToBetaNotifications,
    ConvertBetaToAlphaNotifications

LEMMA RepoAgrees ==
  Agree(Alpha!ArgoCDRepoSpec, Beta!ArgoCDRepoSpec,
        ConvertAlphaToBetaRepo, ConvertBetaToAlphaRepo)
BY SameForms, InLeaves, InUnder, LeafOrInner, MetricsAgrees
DEF Agree, AgreeExcept, Copied, Alpha!ArgoCDRepoSpec, Beta!ArgoCDRepoSpec,
    ConvertAlphaToBetaRepo, ConvertBetaToAlphaRepo, Beta!ArgoCDSystemCATrustSpec

LEMMA ResourceIdentifiersAgrees ==
  Agree(Alpha!ResourceIdentifiers, Beta!ResourceIdentifiers,
        ConvertAlphaToBetaResourceIdentifiers, ConvertBetaToAlphaResourceIdentifiers)
BY SameForms, InLeaves, InUnder, LeafOrInner,
    IgnoreDifferenceCustomizationCopied
DEF Agree, AgreeExcept, Copied, Alpha!ResourceIdentifiers,
    Beta!ResourceIdentifiers, ConvertAlphaToBetaResourceIdentifiers,
    ConvertBetaToAlphaResourceIdentifiers

LEMMA ResourceIgnoreDifferencesAgrees ==
  Agree(Alpha!ResourceIgnoreDifference, Beta!ResourceIgnoreDifference,
        ConvertAlphaToBetaResourceIgnoreDifferences,
        ConvertBetaToAlphaResourceIgnoreDifferences)
BY SameForms, InLeaves, InUnder, LeafOrInner,
    IgnoreDifferenceCustomizationCopied, ResourceIdentifiersAgrees
DEF Agree, AgreeExcept, Copied, Alpha!ResourceIgnoreDifference,
    Beta!ResourceIgnoreDifference, ConvertAlphaToBetaResourceIgnoreDifferences,
    ConvertBetaToAlphaResourceIgnoreDifferences

LEMMA GRPCAgrees ==
  Agree(Alpha!ArgoCDServerGRPCSpec, Beta!ArgoCDServerGRPCSpec,
        ConvertAlphaToBetaGRPC, ConvertBetaToAlphaGRPC)
BY SameForms, InLeaves, InUnder, LeafOrInner, ArgoCDIngressSpecCopied
DEF Agree, AgreeExcept, Copied, Alpha!ArgoCDServerGRPCSpec,
    Beta!ArgoCDServerGRPCSpec, ConvertAlphaToBetaGRPC, ConvertBetaToAlphaGRPC

LEMMA SSOAgrees ==
  Agree(Alpha!ArgoCDSSOSpec, Beta!ArgoCDSSOSpec,
        ConvertAlphaToBetaSSO, ConvertBetaToAlphaSSO)
BY SameForms, InLeaves, InUnder, LeafOrInner, DexAgrees,
    ArgoCDKeycloakSpecCopied
DEF Agree, AgreeExcept, Copied, Alpha!ArgoCDSSOSpec, Beta!ArgoCDSSOSpec,
    ConvertAlphaToBetaSSO, ConvertBetaToAlphaSSO

LEMMA TLSAgrees ==
  Agree(Alpha!ArgoCDTLSSpec, Beta!ArgoCDTLSSpec,
        ConvertAlphaToBetaTLS, ConvertBetaToAlphaTLS)
BY SameForms, InLeaves, InUnder, LeafOrInner, ArgoCDCASpecCopied
DEF Agree, AgreeExcept, Copied, Alpha!ArgoCDTLSSpec, Beta!ArgoCDTLSSpec,
    ConvertAlphaToBetaTLS, ConvertBetaToAlphaTLS

LEMMA PrincipalServerAgrees ==
  Agree(Alpha!PrincipalServerSpec, Beta!PrincipalServerSpec,
        ConvertAlphaToBetaPrincipalServer, ConvertBetaToAlphaPrincipalServer)
BY SameForms, InLeaves, InUnder, LeafOrInner,
    ArgoCDAgentPrincipalServiceSpecCopied, ArgoCDAgentPrincipalRouteSpecCopied
DEF Agree, AgreeExcept, Copied, Alpha!PrincipalServerSpec,
    Beta!PrincipalServerSpec, ConvertAlphaToBetaPrincipalServer,
    ConvertBetaToAlphaPrincipalServer

LEMMA PrincipalAgrees ==
  Agree(Alpha!PrincipalSpec, Beta!PrincipalSpec,
        ConvertAlphaToBetaPrincipal, ConvertBetaToAlphaPrincipal)
BY SameForms, InLeaves, InUnder, LeafOrInner, PrincipalServerAgrees,
    PrincipalRedisAgrees, PrincipalNamespaceAgrees, PrincipalTLSAgrees,
    PrincipalResourceProxyAgrees, PrincipalJWTAgrees, MetricsAgrees
DEF Agree, AgreeExcept, Copied, Alpha!PrincipalSpec, Beta!PrincipalSpec,
    ConvertAlphaToBetaPrincipal, ConvertBetaToAlphaPrincipal

LEMMA AgentAgrees ==
  Agree(Alpha!AgentSpec, Beta!AgentSpec,
        ConvertAlphaToBetaAgent, ConvertBetaToAlphaAgent)
BY SameForms, InLeaves, InUnder, LeafOrInner, AgentClientAgrees,
    AgentRedisAgrees, AgentTLSAgrees, MetricsAgrees
DEF Agree, AgreeExcept, Copied, Alpha!AgentSpec, Beta!AgentSpec,
    ConvertAlphaToBetaAgent, ConvertBetaToAlphaAgent,
    Beta!DestinationBasedMappingSpec

LEMMA ArgoCDAgentAgrees ==
  Agree(Alpha!ArgoCDAgentSpec, Beta!ArgoCDAgentSpec,
        ConvertAlphaToBetaArgoCDAgent, ConvertBetaToAlphaArgoCDAgent)
BY SameForms, InLeaves, InUnder, LeafOrInner, PrincipalAgrees, AgentAgrees
DEF Agree, AgreeExcept, Copied, Alpha!ArgoCDAgentSpec, Beta!ArgoCDAgentSpec,
    ConvertAlphaToBetaArgoCDAgent, ConvertBetaToAlphaArgoCDAgent

LEMMA ServerAgrees ==
  AgreeExcept(Alpha!ArgoCDServerSpec, Beta!ArgoCDServerSpec,
              ConvertAlphaToBetaServer, ConvertBetaToAlphaServer,
              Leaves({"EnableRolloutsUI"}))
BY SameForms, InLeaves, InUnder, LeafOrInner,
    ArgoCDServerAutoscaleSpecCopied, GRPCAgrees, ArgoCDIngressSpecCopied,
    ArgoCDRouteSpecCopied, ArgoCDServerServiceSpecCopied, MetricsAgrees
DEF Agree, AgreeExcept, Copied, Alpha!ArgoCDServerSpec,
    Beta!ArgoCDServerSpec, ConvertAlphaToBetaServer, ConvertBetaToAlphaServer

LEMMA WebhookRefAgrees ==
  Agree(Alpha!WebhookSecretKeySelector, Beta!WebhookSecretKeySelector,
        copyAlphaToBetaWebhookRef, copyBetaToAlphaWebhookRef)
BY SameForms, SameLeaves
DEF Alpha!WebhookSecretKeySelector, Beta!WebhookSecretKeySelector,
    copyAlphaToBetaWebhookRef, copyBetaToAlphaWebhookRef

LEMMA WebhookSecretsAgrees ==
  Agree(Alpha!ArgoCDWebhookSecretsSpec, Beta!ArgoCDWebhookSecretsSpec,
        ConvertAlphaToBetaWebhookSecrets, ConvertBetaToAlphaWebhookSecrets)
<1>1. \A r, X : Paths(X) => Paths(Under(r, X))
  BY InUnder, LeafOrInner
<1>2. \A X, Y : Paths(X) /\ Paths(Y) => Paths(X \cup Y)
  BY DEF Paths
<1> QED BY <1>1, <1>2, WebhookRefAgrees, SameForms, InUnder, LeafOrInner
    DEF Agree, AgreeExcept, Alpha!ArgoCDWebhookSecretsGitHub,
        Alpha!ArgoCDWebhookSecretsGitLab, Alpha!ArgoCDWebhookSecretsBitbucket,
        Alpha!ArgoCDWebhookSecretsBitbucketServer,
        Alpha!ArgoCDWebhookSecretsGogs, Alpha!ArgoCDWebhookSecretsAzureDevOps,
        Alpha!ArgoCDWebhookSecretsSpec, Beta!ArgoCDWebhookSecretsGitHub,
        Beta!ArgoCDWebhookSecretsGitLab, Beta!ArgoCDWebhookSecretsBitbucket,
        Beta!ArgoCDWebhookSecretsBitbucketServer,
        Beta!ArgoCDWebhookSecretsGogs, Beta!ArgoCDWebhookSecretsAzureDevOps,
        Beta!ArgoCDWebhookSecretsSpec, ConvertAlphaToBetaWebhookSecrets,
        ConvertBetaToAlphaWebhookSecrets

\* What the conversions of the spec lose of the fields both versions have.
DroppedOfSpec ==
  Under("NetworkPolicy", Beta!ArgoCDNetworkPolicySpec)
    \cup Leaves({"InstallationID", "ImagePullPolicy"})
    \cup Under("Server", Leaves({"EnableRolloutsUI"}))

\* Everything AgreeExcept speaks of is a set of paths.
LEMMA AgreePaths ==
  \A a, b, to, from, dropped :
    AgreeExcept(a, b, to, from, dropped)
      => Paths(a) /\ Paths(b) /\ Paths(to) /\ Paths(from)
BY DEF AgreeExcept, Paths

LEMMA LeavesArePaths == \A n : Paths(Leaves(n))
BY InLeaves, LeafOrInner

LEMMA SpecFieldPaths ==
  /\ Paths(Beta!ArgoCDImageUpdaterSpec) /\ Paths(Beta!LocalUserSpec)
  /\ Paths(Alpha!ArgoCDDexSpec)
BY SameForms, LeavesArePaths, AgreePaths, DexAgrees
DEF Agree, Beta!ArgoCDImageUpdaterSpec, Beta!LocalUserSpec

\* The struct an inner path of the spec of v1alpha1 leads into.
LEMMA InnerOfAlpha ==
  ASSUME NEW p \in Alpha!ArgoCDSpec, Inner(p)
  PROVE   \/ Name(p) = "ApplicationSet" /\ Rest(p) \in Alpha!ArgoCDApplicationSet
          \/ Name(p) = "Controller" /\ Rest(p) \in Alpha!ArgoCDApplicationControllerSpec
          \/ Name(p) = "Grafana" /\ Rest(p) \in Alpha!ArgoCDGrafanaSpec
          \/ Name(p) = "HA" /\ Rest(p) \in Alpha!ArgoCDHASpec
          \/ Name(p) = "KustomizeVersions" /\ Rest(p) \in Alpha!KustomizeVersionSpec
          \/ Name(p) = "Notifications" /\ Rest(p) \in Alpha!ArgoCDNotifications
          \/ Name(p) = "Prometheus" /\ Rest(p) \in Alpha!ArgoCDPrometheusSpec
          \/ Name(p) = "Redis" /\ Rest(p) \in Alpha!ArgoCDRedisSpec
          \/ Name(p) = "Repo" /\ Rest(p) \in Alpha!ArgoCDRepoSpec
          \/ Name(p) = "ResourceHealthChecks" /\ Rest(p) \in Alpha!ResourceHealthCheck
          \/ Name(p) = "ResourceIgnoreDifferences" /\ Rest(p) \in Alpha!ResourceIgnoreDifference
          \/ Name(p) = "ResourceActions" /\ Rest(p) \in Alpha!ResourceAction
          \/ Name(p) = "TLS" /\ Rest(p) \in Alpha!ArgoCDTLSSpec
          \/ Name(p) = "ArgoCDAgent" /\ Rest(p) \in Alpha!ArgoCDAgentSpec
          \/ Name(p) = "NamespaceManagement" /\ Rest(p) \in Alpha!ManagedNamespaces
          \/ Name(p) = "WebhookSecrets" /\ Rest(p) \in Alpha!ArgoCDWebhookSecretsSpec
          \/ Name(p) = "SSO" /\ Rest(p) \in Alpha!ArgoCDSSOSpec
          \/ Name(p) = "Server" /\ Rest(p) \in Alpha!ArgoCDServerSpec
          \/ Name(p) = "Import" /\ Rest(p) \in Alpha!ArgoCDImportSpec
          \/ Name(p) = "InitialSSHKnownHosts" /\ Rest(p) \in Alpha!SSHHostsSpec
          \/ Name(p) = "Monitoring" /\ Rest(p) \in Alpha!ArgoCDMonitoringSpec
          \/ Name(p) = "NodePlacement" /\ Rest(p) \in Alpha!ArgoCDNodePlacementSpec
          \/ Name(p) = "RBAC" /\ Rest(p) \in Alpha!ArgoCDRBACSpec
          \/ Name(p) = "Banner" /\ Rest(p) \in Alpha!Banner
          \/ Name(p) = "NetworkPolicy" /\ Rest(p) \in Alpha!ArgoCDNetworkPolicySpec
          \/ Name(p) = "Dex" /\ Rest(p) \in Alpha!ArgoCDDexSpec
<1>1. /\ \A names : p \notin Leaves(names)
      /\ \A m, P : Paths(P) => (p \in Under(m, P) <=> m = Name(p) /\ Rest(p) \in P)
  BY InLeaves, InUnder, LeafOrInner
<1> QED BY <1>1, SpecFieldPaths, AgreePaths, SameForms, ApplicationSetAgrees,
      ControllerAgrees, GrafanaAgrees, HAAgrees, KustomizeVersionsAgrees,
      NotificationsAgrees, PrometheusAgrees, RedisAgrees, RepoAgrees,
      ResourceHealthChecksAgrees, ResourceIgnoreDifferencesAgrees,
      ResourceActionsAgrees, TLSAgrees, ArgoCDAgentAgrees,
      NamespaceManagementAgrees, WebhookSecretsAgrees, SSOAgrees, ServerAgrees,
      ArgoCDImportSpecCopied, SSHHostsSpecCopied, ArgoCDMonitoringSpecCopied,
      ArgoCDNodePlacementSpecCopied, ArgoCDRBACSpecCopied, BannerCopied,
      ArgoCDNetworkPolicySpecCopied
  DEF Agree, Copied, Alpha!ArgoCDSpec, Alpha!ArgoCDSpecHead

\* The struct an inner path of the spec of v1beta1 leads into.
LEMMA InnerOfBeta ==
  ASSUME NEW p \in Beta!ArgoCDSpec, Inner(p)
  PROVE   \/ Name(p) = "ApplicationSet" /\ Rest(p) \in Beta!ArgoCDApplicationSet
          \/ Name(p) = "Controller" /\ Rest(p) \in Beta!ArgoCDApplicationControllerSpec
          \/ Name(p) = "Grafana" /\ Rest(p) \in Beta!ArgoCDGrafanaSpec
          \/ Name(p) = "HA" /\ Rest(p) \in Beta!ArgoCDHASpec
          \/ Name(p) = "KustomizeVersions" /\ Rest(p) \in Beta!KustomizeVersionSpec
          \/ Name(p) = "Notifications" /\ Rest(p) \in Beta!ArgoCDNotifications
          \/ Name(p) = "Prometheus" /\ Rest(p) \in Beta!ArgoCDPrometheusSpec
          \/ Name(p) = "Redis" /\ Rest(p) \in Beta!ArgoCDRedisSpec
          \/ Name(p) = "Repo" /\ Rest(p) \in Beta!ArgoCDRepoSpec
          \/ Name(p) = "ResourceHealthChecks" /\ Rest(p) \in Beta!ResourceHealthCheck
          \/ Name(p) = "ResourceIgnoreDifferences" /\ Rest(p) \in Beta!ResourceIgnoreDifference
          \/ Name(p) = "ResourceActions" /\ Rest(p) \in Beta!ResourceAction
          \/ Name(p) = "TLS" /\ Rest(p) \in Beta!ArgoCDTLSSpec
          \/ Name(p) = "ArgoCDAgent" /\ Rest(p) \in Beta!ArgoCDAgentSpec
          \/ Name(p) = "NamespaceManagement" /\ Rest(p) \in Beta!ManagedNamespaces
          \/ Name(p) = "WebhookSecrets" /\ Rest(p) \in Beta!ArgoCDWebhookSecretsSpec
          \/ Name(p) = "SSO" /\ Rest(p) \in Beta!ArgoCDSSOSpec
          \/ Name(p) = "Server" /\ Rest(p) \in Beta!ArgoCDServerSpec
          \/ Name(p) = "Import" /\ Rest(p) \in Beta!ArgoCDImportSpec
          \/ Name(p) = "InitialSSHKnownHosts" /\ Rest(p) \in Beta!SSHHostsSpec
          \/ Name(p) = "Monitoring" /\ Rest(p) \in Beta!ArgoCDMonitoringSpec
          \/ Name(p) = "NodePlacement" /\ Rest(p) \in Beta!ArgoCDNodePlacementSpec
          \/ Name(p) = "RBAC" /\ Rest(p) \in Beta!ArgoCDRBACSpec
          \/ Name(p) = "Banner" /\ Rest(p) \in Beta!Banner
          \/ Name(p) = "NetworkPolicy" /\ Rest(p) \in Beta!ArgoCDNetworkPolicySpec
          \/ Name(p) = "ImageUpdater" /\ Rest(p) \in Beta!ArgoCDImageUpdaterSpec
          \/ Name(p) = "LocalUsers" /\ Rest(p) \in Beta!LocalUserSpec
<1>1. /\ \A names : p \notin Leaves(names)
      /\ \A m, P : Paths(P) => (p \in Under(m, P) <=> m = Name(p) /\ Rest(p) \in P)
  BY InLeaves, InUnder, LeafOrInner
<1> QED BY <1>1, SpecFieldPaths, AgreePaths, SameForms, ApplicationSetAgrees,
      ControllerAgrees, GrafanaAgrees, HAAgrees, KustomizeVersionsAgrees,
      NotificationsAgrees, PrometheusAgrees, RedisAgrees, RepoAgrees,
      ResourceHealthChecksAgrees, ResourceIgnoreDifferencesAgrees,
      ResourceActionsAgrees, TLSAgrees, ArgoCDAgentAgrees,
      NamespaceManagementAgrees, WebhookSecretsAgrees, SSOAgrees, ServerAgrees,
      ArgoCDImportSpecCopied, SSHHostsSpecCopied, ArgoCDMonitoringSpecCopied,
      ArgoCDNodePlacementSpecCopied, ArgoCDRBACSpecCopied, BannerCopied,
      ArgoCDNetworkPolicySpecCopied
  DEF Agree, Copied, Beta!ArgoCDSpec, Beta!ArgoCDSpecHead

\* The two conversions of the spec keep the same fields, but for the dropped.
LEMMA SpecAgrees ==
  AgreeExcept(Alpha!ArgoCDSpec, Beta!ArgoCDSpec,
              ConvertToRest \cup Under("SSO", ConvertAlphaToBetaSSO),
              ConvertFromRest \cup Under("SSO", ConvertBetaToAlphaSSO),
              DroppedOfSpec)
<1> USE SpecFieldPaths, ApplicationSetAgrees, ControllerAgrees, GrafanaAgrees,
      HAAgrees, KustomizeVersionsAgrees, NotificationsAgrees, PrometheusAgrees,
      RedisAgrees, RepoAgrees, ResourceHealthChecksAgrees,
      ResourceIgnoreDifferencesAgrees, ResourceActionsAgrees, TLSAgrees,
      ArgoCDAgentAgrees, NamespaceManagementAgrees, WebhookSecretsAgrees,
      SSOAgrees, ServerAgrees, ArgoCDImportSpecCopied, SSHHostsSpecCopied,
      ArgoCDMonitoringSpecCopied, ArgoCDNodePlacementSpecCopied,
      ArgoCDRBACSpecCopied, BannerCopied, ArgoCDNetworkPolicySpecCopied
    DEF Agree, Copied
<1>1. /\ \A n, P, p : Paths(P) /\ p \in Under(n, P) => IsPath(p)
      /\ \A names, p : p \in Leaves(names) => IsPath(p)
  BY InUnder, InLeaves DEF Leaf, Inner
<1>3. Paths(Alpha!ArgoCDSpec)
  BY <1>1, AgreePaths, SameForms
      DEF Paths, Alpha!ArgoCDSpec, Alpha!ArgoCDSpecHead
<1>4. Paths(Beta!ArgoCDSpec)
  BY <1>1, AgreePaths, SameForms
      DEF Paths, Beta!ArgoCDSpec, Beta!ArgoCDSpecHead
<1>5. ConvertToRest \cup Under("SSO", ConvertAlphaToBetaSSO)
        \subseteq Alpha!ArgoCDSpec \cap Beta!ArgoCDSpec
  <2>1. ConvertToRest \cup Under("SSO", ConvertAlphaToBetaSSO) \subseteq Alpha!ArgoCDSpec
    BY SameForms, InLeaves, InUnder, LeafOrInner, LeavesArePaths
    DEF AgreeExcept, Alpha!ArgoCDSpec, Alpha!ArgoCDSpecHead, ConvertToRest
  <2>2. ConvertToRest \cup Under("SSO", ConvertAlphaToBetaSSO) \subseteq Beta!ArgoCDSpec
    BY SameForms, InLeaves, InUnder, LeafOrInner, LeavesArePaths
    DEF AgreeExcept, Beta!ArgoCDSpec, Beta!ArgoCDSpecHead, ConvertToRest
  <2> QED BY <2>1, <2>2
<1>6. ConvertFromRest \cup Under("SSO", ConvertBetaToAlphaSSO)
        \subseteq Alpha!ArgoCDSpec \cap Beta!ArgoCDSpec
  <2>1. ConvertFromRest \cup Under("SSO", ConvertBetaToAlphaSSO) \subseteq Alpha!ArgoCDSpec
    BY SameForms, InLeaves, InUnder, LeafOrInner, LeavesArePaths
    DEF AgreeExcept, Alpha!ArgoCDSpec, Alpha!ArgoCDSpecHead, ConvertFromRest
  <2>2. ConvertFromRest \cup Under("SSO", ConvertBetaToAlphaSSO) \subseteq Beta!ArgoCDSpec
    BY SameForms, InLeaves, InUnder, LeafOrInner, LeavesArePaths
    DEF AgreeExcept, Beta!ArgoCDSpec, Beta!ArgoCDSpecHead, ConvertFromRest
  <2> QED BY <2>1, <2>2
<1>7. ASSUME NEW p \in Alpha!ArgoCDSpec, p \in Beta!ArgoCDSpec, p \notin DroppedOfSpec
      PROVE  /\ p \in ConvertToRest \cup Under("SSO", ConvertAlphaToBetaSSO)
             /\ p \in ConvertFromRest \cup Under("SSO", ConvertBetaToAlphaSSO)
  <2>1. CASE Leaf(p)
    <3>1. /\ \A names : p \in Leaves(names) <=> Name(p) \in names
          /\ \A m, P : Paths(P) => p \notin Under(m, P)
      BY <2>1, InLeaves, InUnder, LeafOrInner
    <3> QED BY <1>7, <3>1, AgreePaths, SameForms, LeavesArePaths
            DEF Alpha!ArgoCDSpec, Alpha!ArgoCDSpecHead, Beta!ArgoCDSpec,
        Beta!ArgoCDSpecHead, ConvertToRest, ConvertFromRest, DroppedOfSpec
  <2>2. CASE Inner(p)
    <3> DEFINE q == Rest(p)
    <3>1. /\ \A names : p \notin Leaves(names)
          /\ \A m, P : Paths(P) => (p \in Under(m, P) <=> m = Name(p) /\ q \in P)
      BY <2>2, InLeaves, InUnder, LeafOrInner
    <3>5. ~(Name(p) = "NetworkPolicy" /\ q \in Beta!ArgoCDNetworkPolicySpec)
          /\ ~(Name(p) = "Server" /\ q \in Leaves({"EnableRolloutsUI"}))
      BY <1>7, <3>1, AgreePaths, LeavesArePaths DEF DroppedOfSpec
    <3>6. \/ Name(p) = "ApplicationSet" /\ q \in ConvertAlphaToBetaApplicationSet
             /\ q \in ConvertBetaToAlphaApplicationSet
          \/ Name(p) = "Controller" /\ q \in ConvertAlphaToBetaController
             /\ q \in ConvertBetaToAlphaController
          \/ Name(p) = "Grafana" /\ q \in ConvertAlphaToBetaGrafana
             /\ q \in ConvertBetaToAlphaGrafana
          \/ Name(p) = "HA" /\ q \in ConvertAlphaToBetaHA
             /\ q \in ConvertBetaToAlphaHA
          \/ Name(p) = "KustomizeVersions" /\ q \in ConvertAlphaToBetaKustomizeVersions
             /\ q \in ConvertBetaToAlphaKustomizeVersions
          \/ Name(p) = "Notifications" /\ q \in ConvertAlphaToBetaNotifications
             /\ q \in ConvertBetaToAlphaNotifications
          \/ Name(p) = "Prometheus" /\ q \in ConvertAlphaToBetaPrometheus
             /\ q \in ConvertBetaToAlphaPrometheus
          \/ Name(p) = "Redis" /\ q \in ConvertAlphaToBetaRedis
             /\ q \in ConvertBetaToAlphaRedis
          \/ Name(p) = "Repo" /\ q \in ConvertAlphaToBetaRepo
             /\ q \in ConvertBetaToAlphaRepo
          \/ Name(p) = "ResourceHealthChecks" /\ q \in ConvertAlphaToBetaResourceHealthChecks
             /\ q \in ConvertBetaToAlphaResourceHealthChecks
          \/ Name(p) = "ResourceIgnoreDifferences" /\ q \in ConvertAlphaToBetaResourceIgnoreDifferences
             /\ q \in ConvertBetaToAlphaResourceIgnoreDifferences
          \/ Name(p) = "ResourceActions" /\ q \in ConvertAlphaToBetaResourceActions
             /\ q \in ConvertBetaToAlphaResourceActions
          \/ Name(p) = "TLS" /\ q \in ConvertAlphaToBetaTLS
             /\ q \in ConvertBetaToAlphaTLS
          \/ Name(p) = "ArgoCDAgent" /\ q \in ConvertAlphaToBetaArgoCDAgent
             /\ q \in ConvertBetaToAlphaArgoCDAgent
          \/ Name(p) = "NamespaceManagement" /\ q \in ConvertAlphaToBetaNamespaceManagement
             /\ q \in ConvertBetaToAlphaNamespaceManagement
          \/ Name(p) = "WebhookSecrets" /\ q \in ConvertAlphaToBetaWebhookSecrets
             /\ q \in ConvertBetaToAlphaWebhookSecrets
          \/ Name(p) = "SSO" /\ q \in ConvertAlphaToBetaSSO
             /\ q \in ConvertBetaToAlphaSSO
          \/ Name(p) = "Server" /\ q \in ConvertAlphaToBetaServer
             /\ q \in ConvertBetaToAlphaServer
          \/ Name(p) = "Import" /\ q \in Beta!ArgoCDImportSpec
             /\ q \in Alpha!ArgoCDImportSpec
          \/ Name(p) = "InitialSSHKnownHosts" /\ q \in Beta!SSHHostsSpec
             /\ q \in Alpha!SSHHostsSpec
          \/ Name(p) = "Monitoring" /\ q \in Beta!ArgoCDMonitoringSpec
             /\ q \in Alpha!ArgoCDMonitoringSpec
          \/ Name(p) = "NodePlacement" /\ q \in Beta!ArgoCDNodePlacementSpec
             /\ q \in Alpha!ArgoCDNodePlacementSpec
          \/ Name(p) = "RBAC" /\ q \in Beta!ArgoCDRBACSpec
             /\ q \in Alpha!ArgoCDRBACSpec
          \/ Name(p) = "Banner" /\ q \in Beta!Banner /\ q \in Alpha!Banner
      BY <1>7, <2>2, <3>5, InnerOfAlpha, InnerOfBeta DEF AgreeExcept
    <3> QED BY <3>1, <3>6, AgreePaths DEF ConvertToRest, ConvertFromRest
  <2> QED BY <1>3, <1>7, <2>1, <2>2, LeafOrInner
<1> QED BY <1>3, <1>4, <1>5, <1>6, <1>7 DEF AgreeExcept

\* An inner path is determined by its name and its rest.
LEMMA SameParts ==
  ASSUME NEW p, NEW q, Inner(p), Inner(q), Name(p) = Name(q), Rest(p) = Rest(q)
  PROVE  p = q
<1>1. p = <<Name(p)>> \o Rest(p) /\ q = <<Name(q)>> \o Rest(q)
  BY Uncons
<1> QED BY <1>1, Zenon

LEMMA LongIsInner ==
  ASSUME NEW S, NEW p \in Seq(S), p # <<>>, Len(p) # 1
  PROVE  Inner(p)
BY DEF Inner, IsPath

\* Paths written out as tuples, by their shape.
LEMMA Two ==
  \A a, b, p : p = <<a, b>> <=> Inner(p) /\ Name(p) = a /\ Rest(p) = <<b>>
<1> TAKE a, b, p
<1>1. <<a, b>> \in Seq({a, b}) /\ Len(<<a, b>>) = 2 /\ <<a, b>> # <<>>
  OBVIOUS
<1>2. Head(<<a, b>>) = a /\ Tail(<<a, b>>) = <<b>>
  OBVIOUS
<1>3. Inner(<<a, b>>)
  <2>1. Len(<<a, b>>) # 1
    BY <1>1
  <2> QED BY <1>1, <2>1, LongIsInner, Zenon
<1>4. Name(<<a, b>>) = a /\ Rest(<<a, b>>) = <<b>>
  BY <1>2, Zenon DEF Name, Rest
<1> QED BY <1>3, <1>4, SameParts, Zenon

LEMMA Three ==
  \A a, b, c, p :
    p = <<a, b, c>> <=> Inner(p) /\ Name(p) = a /\ Rest(p) = <<b, c>>
<1> TAKE a, b, c, p
<1>1. /\ <<a, b, c>> \in Seq({a, b, c}) /\ Len(<<a, b, c>>) = 3
      /\ <<a, b, c>> # <<>>
  OBVIOUS
<1>2. Head(<<a, b, c>>) = a /\ Tail(<<a, b, c>>) = <<b, c>>
  OBVIOUS
<1>3. Inner(<<a, b, c>>)
  <2>1. Len(<<a, b, c>>) # 1
    BY <1>1
  <2> QED BY <1>1, <2>1, LongIsInner, Zenon
<1>4. Name(<<a, b, c>>) = a /\ Rest(<<a, b, c>>) = <<b, c>>
  BY <1>2, Zenon DEF Name, Rest
<1> QED BY <1>3, <1>4, SameParts, Zenon

LEMMA Four ==
  \A a, b, c, d, p :
    p = <<a, b, c, d>> <=> Inner(p) /\ Name(p) = a /\ Rest(p) = <<b, c, d>>
<1> TAKE a, b, c, d, p
<1>1. /\ <<a, b, c, d>> \in Seq({a, b, c, d}) /\ Len(<<a, b, c, d>>) = 4
      /\ <<a, b, c, d>> # <<>>
  OBVIOUS
<1>2. Head(<<a, b, c, d>>) = a /\ Tail(<<a, b, c, d>>) = <<b, c, d>>
  OBVIOUS
<1>3. Inner(<<a, b, c, d>>)
  <2>1. Len(<<a, b, c, d>>) # 1
    BY <1>1
  <2> QED BY <1>1, <2>1, LongIsInner, Zenon
<1>4. Name(<<a, b, c, d>>) = a /\ Rest(<<a, b, c, d>>) = <<b, c, d>>
  BY <1>2, Zenon DEF Name, Rest
<1> QED BY <1>3, <1>4, SameParts, Zenon

\* DroppedFields of the model is DroppedOfSpec under the name Spec.
LEMMA DroppedPaths ==
  /\ Paths(DroppedOfSpec)
  /\ DroppedFields = Under("Spec", DroppedOfSpec)
<1>1. Paths(DroppedOfSpec)
    BY SameForms, InLeaves, InUnder, LeafOrInner, LeavesArePaths,
        ArgoCDNetworkPolicySpecCopied
      DEF DroppedOfSpec, Copied, Agree, AgreeExcept
<1>3. ASSUME NEW p \in DroppedFields PROVE p \in Under("Spec", DroppedOfSpec)
  <2>1. CASE p \in SpecPath("NetworkPolicy", Beta!ArgoCDNetworkPolicySpec)
    BY <2>1 DEF SpecPath, Under, DroppedOfSpec
  <2>2. CASE p \in {<<"Spec", "InstallationID">>, <<"Spec", "ImagePullPolicy">>}
    <3>1. /\ Inner(p) /\ Name(p) = "Spec"
          /\ Rest(p) \in {<<"InstallationID">>, <<"ImagePullPolicy">>}
      BY <2>2, Two
    <3>2. Rest(p) \in DroppedOfSpec
      BY <3>1 DEF DroppedOfSpec, Leaves
    <3> QED BY <1>1, <3>1, <3>2, InUnder
  <2>3. CASE p = <<"Spec", "Server", "EnableRolloutsUI">>
    <3>1. Inner(p) /\ Name(p) = "Spec" /\ Rest(p) = <<"Server", "EnableRolloutsUI">>
      BY <2>3, Three
    <3>2. Inner(Rest(p)) /\ Name(Rest(p)) = "Server" /\ Rest(Rest(p)) = <<"EnableRolloutsUI">>
      BY <3>1, Two
    <3>3. Rest(Rest(p)) \in Leaves({"EnableRolloutsUI"})
      BY <3>2 DEF Leaves
    <3>4. Rest(p) \in DroppedOfSpec
      BY <3>2, <3>3, InUnder, LeavesArePaths DEF DroppedOfSpec
    <3> QED BY <1>1, <3>1, <3>4, InUnder
  <2> QED BY <1>3, <2>1, <2>2, <2>3 DEF DroppedFields
<1>4. ASSUME NEW p \in Under("Spec", DroppedOfSpec) PROVE p \in DroppedFields
  <2>1. Inner(p) /\ Name(p) = "Spec" /\ Rest(p) \in DroppedOfSpec
    BY <1>1, <1>4, InUnder
  <2>2. CASE Rest(p) \in Under("NetworkPolicy", Beta!ArgoCDNetworkPolicySpec)
    <3>1. Paths(Under("NetworkPolicy", Beta!ArgoCDNetworkPolicySpec))
      BY <1>1 DEF Paths, DroppedOfSpec
    <3> QED BY <2>1, <2>2, <3>1, InUnder DEF DroppedFields, SpecPath
  <2>3. CASE Rest(p) \in Leaves({"InstallationID", "ImagePullPolicy"})
    <3>1. PICK n \in {"InstallationID", "ImagePullPolicy"} : Rest(p) = <<n>>
      BY <2>3 DEF Leaves
    <3>2. p = <<"Spec", n>>
      BY <2>1, <3>1, Two
    <3> QED BY <3>2 DEF DroppedFields
  <2>4. CASE Rest(p) \in Under("Server", Leaves({"EnableRolloutsUI"}))
    <3>1. /\ Inner(Rest(p)) /\ Name(Rest(p)) = "Server"
          /\ Rest(Rest(p)) \in Leaves({"EnableRolloutsUI"})
      BY <2>4, InUnder, LeavesArePaths
    <3>2. Rest(Rest(p)) = <<"EnableRolloutsUI">>
      BY <3>1 DEF Leaves
    <3>3. Rest(p) = <<"Server", "EnableRolloutsUI">>
      BY <3>1, <3>2, Two
    <3>4. p = <<"Spec", "Server", "EnableRolloutsUI">>
      BY <2>1, <3>3, Three
    <3> QED BY <3>4 DEF DroppedFields
  <2> QED BY <2>1, <2>2, <2>3, <2>4 DEF DroppedOfSpec
<1> QED BY <1>1, <1>3, <1>4

LEMMA UnderUnion ==
  \A n, P, Q : Under(n, P \cup Q) = Under(n, P) \cup Under(n, Q)
BY DEF Under

\* The two conversions of a resource keep the same fields, but for the dropped.
LEMMA ResourceAgrees ==
  AgreeExcept(Alpha!ArgoCD, Beta!ArgoCD,
              KeptByConvertTo, KeptByConvertFrom, DroppedFields)
BY SameForms, InLeaves, InUnder, LeafOrInner, UnderUnion, DroppedPaths,
      SpecAgrees, ArgoCDStatusCopied
DEF AgreeExcept, Agree, Copied, Alpha!ArgoCD, Beta!ArgoCD, KeptByConvertTo,
      KeptByConvertFrom, SpecPath

-----------------------------------------------------------------------------
(* Where the deprecated fields and their successors lie.                   *)
LEMMA InSpecPath ==
  ASSUME NEW field, NEW P, Paths(P), NEW p
  PROVE  p \in SpecPath(field, P)
           <=> /\ Inner(p) /\ Name(p) = "Spec"
               /\ Inner(Rest(p)) /\ Name(Rest(p)) = field
               /\ Rest(Rest(p)) \in P
<1>1. Paths(Under(field, P))
  BY InUnder, LeafOrInner
<1> QED BY <1>1, InUnder DEF SpecPath

LEMMA SSOPaths ==
  /\ Paths(Alpha!ArgoCDSSOSpec) /\ Paths(Beta!ArgoCDSSOSpec)
  /\ Paths(Alpha!ArgoCDDexSpec) /\ Paths(Beta!ArgoCDDexSpec)
  /\ Paths(Beta!ArgoCDSpec) /\ Paths(Beta!ArgoCDKeycloakSpec)
  /\ Paths(ConvertAlphaToBetaDex)
  /\ Paths(Under("Dex", Beta!ArgoCDDexSpec))
  /\ Paths(Under("Keycloak", Beta!ArgoCDKeycloakSpec))
<1>1. /\ Paths(Alpha!ArgoCDSSOSpec) /\ Paths(Beta!ArgoCDSSOSpec)
      /\ Paths(Alpha!ArgoCDDexSpec) /\ Paths(Beta!ArgoCDDexSpec)
      /\ Paths(Beta!ArgoCDSpec) /\ Paths(Beta!ArgoCDKeycloakSpec)
      /\ Paths(ConvertAlphaToBetaDex)
  BY SSOAgrees, DexAgrees, SpecAgrees, ArgoCDKeycloakSpecCopied, AgreePaths
  DEF Agree, Copied
<1> QED BY <1>1, InUnder, LeafOrInner

\* The paths of v1beta1 under .spec are those of ArgoCDSpec.
LEMMA SpecOfBeta ==
  ASSUME NEW p, Inner(p), Name(p) = "Spec"
  PROVE  p \in Beta!ArgoCD <=> Rest(p) \in Beta!ArgoCDSpec
<1>1. Paths(Beta!ArgoCDStatus)
  BY ArgoCDStatusCopied, AgreePaths DEF Copied, Agree
<1> QED BY <1>1, SSOPaths, SameForms, InLeaves, InUnder, LeafOrInner
    DEF Beta!ArgoCD

\* The paths of v1beta1 under .spec.sso are those of ArgoCDSSOSpec.
LEMMA SSOOfBeta ==
  ASSUME NEW p, Inner(p), Name(p) = "Spec", Inner(Rest(p)), Name(Rest(p)) = "SSO"
  PROVE  p \in Beta!ArgoCD <=> Rest(Rest(p)) \in Beta!ArgoCDSSOSpec
<1>1. ASSUME Rest(p) \in Beta!ArgoCDSpec PROVE Rest(Rest(p)) \in Beta!ArgoCDSSOSpec
  BY <1>1, InnerOfBeta
<1>2. ASSUME Rest(Rest(p)) \in Beta!ArgoCDSSOSpec PROVE Rest(p) \in Beta!ArgoCDSpec
  <2>1. Rest(p) \in Under("SSO", Beta!ArgoCDSSOSpec)
    BY <1>2, SSOPaths, InUnder
  <2> QED BY <2>1, SameForms DEF Beta!ArgoCDSpec
<1> QED BY <1>1, <1>2, SpecOfBeta

\* .spec.dex is not a field of v1beta1.
LEMMA DexNotInBeta ==
  ASSUME NEW p \in Beta!ArgoCD
  PROVE  ~(Inner(p) /\ Name(p) = "Spec" /\ Inner(Rest(p)) /\ Name(Rest(p)) = "Dex")
<1> SUFFICES ASSUME Inner(p), Name(p) = "Spec", Inner(Rest(p)), Name(Rest(p)) = "Dex"
             PROVE  FALSE
  OBVIOUS
<1>1. Rest(p) \in Beta!ArgoCDSpec
  BY SpecOfBeta
<1> QED BY <1>1, InnerOfBeta

\* What a deprecated field and its successor look like.
LEMMA KeycloakParts ==
  ASSUME NEW f \in KeycloakFields
  PROVE  LET d == DeprecatedKeycloak(f)
             k == Keycloak(f)
         IN /\ Inner(d) /\ Name(d) = "Spec" /\ Inner(Rest(d))
            /\ Name(Rest(d)) = "SSO" /\ Rest(Rest(d)) = <<f>>
            /\ Inner(k) /\ Name(k) = "Spec" /\ Inner(Rest(k))
            /\ Name(Rest(k)) = "SSO" /\ Rest(Rest(k)) = <<"Keycloak", f>>
            /\ d[3] = f /\ k[4] = f
<1> DEFINE d == DeprecatedKeycloak(f)
           k == Keycloak(f)
<1>1. d[3] = f /\ k[4] = f
  BY DEF DeprecatedKeycloak, Keycloak
<1>2. d = <<"Spec", "SSO", f>> /\ k = <<"Spec", "SSO", "Keycloak", f>>
  BY DEF DeprecatedKeycloak, Keycloak
<1> HIDE DEF d, k
<1>3. /\ Inner(d) /\ Name(d) = "Spec" /\ Rest(d) = <<"SSO", f>>
      /\ Inner(k) /\ Name(k) = "Spec" /\ Rest(k) = <<"SSO", "Keycloak", f>>
  BY <1>2, Three, Four
<1>4. /\ Inner(Rest(d)) /\ Name(Rest(d)) = "SSO" /\ Rest(Rest(d)) = <<f>>
      /\ Inner(Rest(k)) /\ Name(Rest(k)) = "SSO"
      /\ Rest(Rest(k)) = <<"Keycloak", f>>
  BY <1>3, Two, Three
<1> QED BY <1>1, <1>3, <1>4 DEF d, k

\* The deprecated fields of .spec.sso are not fields of v1beta1.
LEMMA DeprecatedNotInBeta ==
  ASSUME NEW f \in KeycloakFields
  PROVE  DeprecatedKeycloak(f) \notin Beta!ArgoCD
<1>1. <<f>> \notin Beta!ArgoCDSSOSpec
  <2>1. Leaf(<<f>>) /\ Name(<<f>>) = f
    BY OneLeaf
  <2> QED BY <2>1, SSOPaths, SameForms, InLeaves, InUnder, LeafOrInner
          DEF Beta!ArgoCDSSOSpec, KeycloakFields
<1> QED BY <1>1, KeycloakParts, SSOOfBeta

\* Their successors are.
LEMMA KeycloakInBeta ==
  ASSUME NEW f \in KeycloakFields
  PROVE  Keycloak(f) \in Beta!ArgoCD
<1>1. <<f>> \in Beta!ArgoCDKeycloakSpec
  BY SameForms DEF Beta!ArgoCDKeycloakSpec, KeycloakFields, Leaves
<1>2. /\ Inner(<<"Keycloak", f>>) /\ Name(<<"Keycloak", f>>) = "Keycloak"
      /\ Rest(<<"Keycloak", f>>) = <<f>>
  BY Two
<1>3. <<"Keycloak", f>> \in Under("Keycloak", Beta!ArgoCDKeycloakSpec)
  BY <1>1, <1>2, SSOPaths, InUnder
<1>4. <<"Keycloak", f>> \in Beta!ArgoCDSSOSpec
  BY <1>3, SameForms DEF Beta!ArgoCDSSOSpec
<1> QED BY <1>4, KeycloakParts, SSOOfBeta

\* .spec.sso.dex and .spec.sso.provider.
SSODex == SpecPath("SSO", Under("Dex", Beta!ArgoCDDexSpec))
Provider == <<"Spec", "SSO", "Provider">>

\* The paths of .spec.sso.dex, by their shape.
LEMMA InSSODex ==
  ASSUME NEW p
  PROVE  p \in SSODex
           <=> /\ Inner(p) /\ Name(p) = "Spec" /\ Inner(Rest(p))
               /\ Name(Rest(p)) = "SSO" /\ Inner(Rest(Rest(p)))
               /\ Name(Rest(Rest(p))) = "Dex"
               /\ Rest(Rest(Rest(p))) \in Beta!ArgoCDDexSpec
BY SSOPaths, InSpecPath, InUnder DEF SSODex

\* The path of .spec.sso.provider, by its shape.
LEMMA ProviderParts ==
  /\ Inner(Provider) /\ Name(Provider) = "Spec" /\ Inner(Rest(Provider))
  /\ Name(Rest(Provider)) = "SSO" /\ Rest(Rest(Provider)) = <<"Provider">>
  /\ Leaf(Rest(Rest(Provider)))
  /\ Provider \notin SSODex
<1> PICK p : p = Provider
  OBVIOUS
<1>1. Inner(p) /\ Name(p) = "Spec" /\ Rest(p) = <<"SSO", "Provider">>
  BY Three DEF Provider
<1>2. Inner(Rest(p)) /\ Name(Rest(p)) = "SSO" /\ Rest(Rest(p)) = <<"Provider">>
  BY <1>1, Two
<1>3. Leaf(Rest(Rest(p)))
  BY <1>2, OneLeaf
<1> QED BY <1>1, <1>2, <1>3, InSSODex, LeafOrInner

\* What takes the place of .spec.dex are fields of v1beta1.
LEMMA DexInBeta ==
  /\ SSODex \subseteq Beta!ArgoCD
  /\ Provider \in Beta!ArgoCD
  /\ SpecPath("SSO", Under("Dex", ConvertAlphaToBetaDex)) \subseteq SSODex
<1>1. Under("Dex", Beta!ArgoCDDexSpec) \subseteq Beta!ArgoCDSSOSpec
  BY SameForms DEF Beta!ArgoCDSSOSpec
<1>2. SSODex \subseteq Beta!ArgoCD
  BY <1>1, SSOPaths, InSpecPath, SSOOfBeta DEF SSODex
<1>3. <<"Provider">> \in Beta!ArgoCDSSOSpec
  BY SameForms DEF Beta!ArgoCDSSOSpec, Leaves
<1>4. Provider \in Beta!ArgoCD
  BY <1>3, ProviderParts, SSOOfBeta
<1>5. ConvertAlphaToBetaDex \subseteq Beta!ArgoCDDexSpec
  BY DexAgrees DEF Agree, AgreeExcept
<1> QED BY <1>2, <1>4, <1>5 DEF SSODex, SpecPath, Under
-----------------------------------------------------------------------------
\* A path that OverrideKeycloak and OverrideDex leave alone.
LEMMA KeycloakElsewhere ==
  ASSUME NEW src, NEW dst, NEW p,
         (\E f \in KeycloakFields : DeprecatedKeycloak(f) \in DOMAIN src)
           => p \notin {Keycloak(f) : f \in KeycloakFields}
  PROVE  /\ p \in DOMAIN OverrideKeycloak(src, dst) <=> p \in DOMAIN dst
         /\ p \in DOMAIN dst => OverrideKeycloak(src, dst)[p] = dst[p]
<1>1. CASE \E f \in KeycloakFields : DeprecatedKeycloak(f) \in DOMAIN src
  <2> DEFINE given == {f \in KeycloakFields : DeprecatedKeycloak(f) \in DOMAIN src}
             kept == DOMAIN dst \ {Keycloak(f) : f \in KeycloakFields}
             dom == kept \cup {Keycloak(f) : f \in given}
  <2>1. OverrideKeycloak(src, dst)
          = [q \in dom |-> IF q \in kept THEN dst[q] ELSE src[DeprecatedKeycloak(q[4])]]
    BY <1>1 DEF OverrideKeycloak
  <2>2. p \in dom <=> p \in kept
    BY <1>1
  <2>3. p \in kept <=> p \in DOMAIN dst
    BY <1>1
  <2> HIDE DEF kept, dom
  <2> QED BY <2>1, <2>2, <2>3
<1>2. CASE ~\E f \in KeycloakFields : DeprecatedKeycloak(f) \in DOMAIN src
  BY <1>2 DEF OverrideKeycloak
<1> QED BY <1>1, <1>2

\* A path outside .spec.sso.dex and .spec.sso.provider, in OverrideDex.
LEMMA DexElsewhere ==
  ASSUME NEW src, NEW dst, NEW p,
         DexConfigured(src) => p \notin SSODex /\ p # Provider
  PROVE  /\ p \in DOMAIN OverrideDex(src, dst) <=> p \in DOMAIN dst
         /\ p \in DOMAIN dst => OverrideDex(src, dst)[p] = dst[p]
<1>1. CASE DexConfigured(src)
  <2> DEFINE kept == DOMAIN dst \ SSODex
             dex == {f \in ConvertAlphaToBetaDex : <<"Spec", "Dex">> \o f \in DOMAIN src}
             new == SpecPath("SSO", Under("Dex", dex))
             dom == kept \cup {Provider} \cup new
  <2>1. OverrideDex(src, dst)
          = [q \in dom |-> CASE q = Provider -> SSOProviderTypeDex
                             [] q \in kept \ {Provider} -> dst[q]
                             [] OTHER -> src[<<"Spec", "Dex", q[4]>>]]
    BY <1>1 DEF OverrideDex, SSODex, Provider
  <2>2. new \subseteq SSODex
    <3>1. new \subseteq SpecPath("SSO", Under("Dex", ConvertAlphaToBetaDex))
      BY DEF SpecPath, Under
    <3> QED BY <3>1, DexInBeta
  <2>3. p \in dom <=> p \in kept
    BY <1>1, <2>2
  <2>4. p \in kept <=> p \in DOMAIN dst
    BY <1>1
  <2>5. p # Provider
    BY <1>1
  <2> HIDE DEF kept, new, dom
  <2>6. p \in DOMAIN OverrideDex(src, dst) <=> p \in DOMAIN dst
    BY <2>1, <2>3, <2>4
  <2>7. ASSUME p \in DOMAIN dst PROVE OverrideDex(src, dst)[p] = dst[p]
    BY <2>1, <2>3, <2>4, <2>5, <2>7
  <2> QED BY <2>6, <2>7
<1>2. CASE ~DexConfigured(src)
  BY <1>2 DEF OverrideDex
<1> QED BY <1>1, <1>2

\* What ConvertTo writes at a path that no deprecated field takes the place of.
LEMMA ConvertToElsewhere ==
  ASSUME NEW src, NEW p \in KeptByConvertTo, p \notin Overridden(src)
  PROVE  Value(ConvertTo(src), p) = Value(src, p)
<1> DEFINE r == Restrict(src, DOMAIN src \cap KeptByConvertTo)
           k == OverrideKeycloak(src, r)
           d == OverrideDex(src, k)
<1>1. /\ p \in DOMAIN r <=> p \in DOMAIN src
      /\ p \in DOMAIN src => r[p] = src[p]
  BY DEF Restrict
<1>2. (\E f \in KeycloakFields : DeprecatedKeycloak(f) \in DOMAIN src)
        => p \notin {Keycloak(f) : f \in KeycloakFields}
  BY DEF Overridden
<1>3. DexConfigured(src) => p \notin SSODex /\ p # Provider
  <2> SUFFICES ASSUME DexConfigured(src) PROVE p \notin SSODex /\ p # Provider
    OBVIOUS
  <2>1. p \notin
          SpecPath("SSO", Under("Dex", Beta!ArgoCDDexSpec) \cup Leaves({"Provider"}))
    BY DEF Overridden
  <2>2. SSODex \subseteq
          SpecPath("SSO", Under("Dex", Beta!ArgoCDDexSpec) \cup Leaves({"Provider"}))
    BY DEF SSODex, SpecPath, Under
  <2>3. Provider \in
          SpecPath("SSO", Under("Dex", Beta!ArgoCDDexSpec) \cup Leaves({"Provider"}))
    <3>1. Paths(Under("Dex", Beta!ArgoCDDexSpec) \cup Leaves({"Provider"}))
      BY SSOPaths, LeavesArePaths DEF Paths
    <3>2. <<"Provider">> \in Leaves({"Provider"})
      BY DEF Leaves
    <3> QED BY <3>1, <3>2, ProviderParts, InSpecPath
  <2> QED BY <2>1, <2>2, <2>3
<1> HIDE DEF r
<1>4. /\ p \in DOMAIN k <=> p \in DOMAIN r
      /\ p \in DOMAIN r => k[p] = r[p]
  BY <1>2, KeycloakElsewhere
<1> HIDE DEF k
<1>5. /\ p \in DOMAIN d <=> p \in DOMAIN k
      /\ p \in DOMAIN k => d[p] = k[p]
  BY <1>3, DexElsewhere
<1>6. d = ConvertTo(src)
  BY DEF d, k, r, ConvertTo
<1> HIDE DEF d
<1>7. Value(d, p) = Value(src, p)
  BY <1>1, <1>4, <1>5 DEF Value
<1> QED BY <1>6, <1>7

\* What ConvertTo and ConvertFrom do to a resource without deprecated fields.
LEMMA RoundTrip ==
  ASSUME NEW obj
  PROVE  ConvertTo(ConvertFrom(obj))
           = [p \in DOMAIN obj \cap KeptByConvertFrom \cap KeptByConvertTo |-> obj[p]]
<1> DEFINE r == ConvertFrom(obj)
<1>1. r = [p \in DOMAIN obj \cap KeptByConvertFrom |-> obj[p]]
  BY DEF ConvertFrom, Restrict
<1>2. DOMAIN r \subseteq Beta!ArgoCD
  BY <1>1, ResourceAgrees DEF AgreeExcept
<1> HIDE DEF r
<1>3. \A f \in KeycloakFields : DeprecatedKeycloak(f) \notin DOMAIN r
  BY <1>2, DeprecatedNotInBeta
<1>4. ~DexConfigured(r)
  <2>1. ASSUME NEW x PROVE <<"Spec", "Dex", x>> \notin Beta!ArgoCD
    <3>1. PICK p : p = <<"Spec", "Dex", x>>
      OBVIOUS
    <3>2. Inner(p) /\ Name(p) = "Spec" /\ Rest(p) = <<"Dex", x>>
      BY <3>1, Three
    <3>3. Inner(Rest(p)) /\ Name(Rest(p)) = "Dex"
      BY <3>2, Two
    <3> QED BY <3>1, <3>2, <3>3, DexNotInBeta
  <2> QED BY <1>2, <2>1 DEF DexConfigured
<1>5. ConvertTo(r) = Restrict(r, DOMAIN r \cap KeptByConvertTo)
  BY <1>3, <1>4 DEF ConvertTo, OverrideKeycloak, OverrideDex
<1>6. ConvertTo(r) = [p \in DOMAIN obj \cap KeptByConvertFrom \cap KeptByConvertTo |-> obj[p]]
  BY <1>1, <1>5 DEF Restrict
<1> QED BY <1>6 DEF r

\* A second round trip through v1alpha1 keeps what the first one kept.
LEMMA RoundTripTwice ==
  ASSUME NEW obj
  PROVE  LET once == ConvertTo(ConvertFrom(obj))
         IN ConvertTo(ConvertFrom(once)) = once
<1> DEFINE dom == DOMAIN obj \cap KeptByConvertFrom \cap KeptByConvertTo
           once == [p \in dom |-> obj[p]]
<1>1. ConvertTo(ConvertFrom(obj)) = once
  BY RoundTrip
<1>2. ConvertTo(ConvertFrom(once))
        = [p \in DOMAIN once \cap KeptByConvertFrom \cap KeptByConvertTo |-> once[p]]
  BY RoundTrip
<1>3. DOMAIN once \cap KeptByConvertFrom \cap KeptByConvertTo = dom
  OBVIOUS
<1>4. [p \in dom |-> once[p]] = once
  OBVIOUS
<1> QED BY <1>1, <1>2, <1>3, <1>4

(* RoundTripStable for every stored resource: the deprecated fields, which *)
(* ConvertTo gives precedence, are no fields of v1beta1, so a copy that    *)
(* ConvertFrom made holds none of them, and a round trip restricts the     *)
(* resource to the fields that both ConvertFrom and ConvertTo copy. Doing  *)
(* it again restricts it to the same fields.                               *)
THEOREM RoundTripsSettle == Spec => []RoundTripStable
<1>1. RoundTripStable
  BY RoundTripTwice DEF RoundTripStable
<1> QED BY <1>1, PTL

(* UneditedFieldsSurvive: a client of v1alpha1 that writes its copy back   *)
(* changes no field that it did not edit. It rests on ResourceAgrees (no   *)
(* field of the two versions is forgotten in one of the some fifty         *)
(* conversion functions, but for DroppedFields) and on ConvertToElsewhere  *)
(* (ConvertTo's overrides touch their targets only).                       *)
THEOREM UneditedSurvive == Spec => UneditedFieldsSurvive
<1>1. ASSUME WriteAlpha,
             NEW p \in SharedPaths \ (DroppedFields \cup Overridden(copy)),
             Value(copy, p) = Value(ConvertFrom(stored), p)
      PROVE  Value(stored', p) = Value(stored, p)
  <2>1. p \in KeptByConvertTo /\ p \in KeptByConvertFrom /\ p \notin Overridden(copy)
    BY ResourceAgrees DEF AgreeExcept, SharedPaths
  <2>2. Value(ConvertTo(copy), p) = Value(copy, p)
    BY <2>1, ConvertToElsewhere
  <2>3. Value(ConvertFrom(stored), p) = Value(stored, p)
    BY <2>1 DEF ConvertFrom, Restrict, Value
  <2> QED BY <1>1, <2>2, <2>3 DEF WriteAlpha
<1>2. [WriteAlpha =>
         LET read == ConvertFrom(stored)
         IN \A p \in SharedPaths \ (DroppedFields \cup Overridden(copy)) :
              Value(copy, p) = Value(read, p)
                => Value(stored', p) = Value(stored, p)]_vars
  BY <1>1
<1> QED BY <1>2, PTL DEF UneditedFieldsSurvive
-----------------------------------------------------------------------------
\* ConvertTo writes fields of v1beta1 only.
LEMMA ConvertToInBeta ==
  ASSUME NEW src
  PROVE  DOMAIN ConvertTo(src) \subseteq Beta!ArgoCD
<1> DEFINE r == Restrict(src, DOMAIN src \cap KeptByConvertTo)
           k == OverrideKeycloak(src, r)
<1>1. DOMAIN r \subseteq Beta!ArgoCD
  BY ResourceAgrees DEF Restrict, AgreeExcept
<1> HIDE DEF r
<1>2. DOMAIN k \subseteq Beta!ArgoCD
  <2>1. CASE \E f \in KeycloakFields : DeprecatedKeycloak(f) \in DOMAIN src
    <3> DEFINE given == {f \in KeycloakFields : DeprecatedKeycloak(f) \in DOMAIN src}
               kept == DOMAIN r \ {Keycloak(f) : f \in KeycloakFields}
    <3>1. DOMAIN k = kept \cup {Keycloak(f) : f \in given}
      BY <2>1 DEF OverrideKeycloak
    <3> QED BY <1>1, <3>1, KeycloakInBeta
  <2>2. CASE ~\E f \in KeycloakFields : DeprecatedKeycloak(f) \in DOMAIN src
    BY <1>1, <2>2 DEF OverrideKeycloak
  <2> QED BY <2>1, <2>2
<1> HIDE DEF k
<1>3. DOMAIN OverrideDex(src, k) \subseteq Beta!ArgoCD
  <2>1. CASE DexConfigured(src)
    <3> DEFINE dex == {f \in ConvertAlphaToBetaDex : <<"Spec", "Dex">> \o f \in DOMAIN src}
               new == SpecPath("SSO", Under("Dex", dex))
    <3>1. DOMAIN OverrideDex(src, k) = (DOMAIN k \ SSODex) \cup {Provider} \cup new
      BY <2>1 DEF OverrideDex, SSODex, Provider
    <3>2. new \subseteq SpecPath("SSO", Under("Dex", ConvertAlphaToBetaDex))
      BY DEF SpecPath, Under
    <3> QED BY <1>2, <3>1, <3>2, DexInBeta
  <2>2. CASE ~DexConfigured(src)
    BY <1>2, <2>2 DEF OverrideDex
  <2> QED BY <2>1, <2>2
<1> QED BY <1>3 DEF ConvertTo, k, r

\* ConvertFrom writes fields of v1alpha1 only.
LEMMA ConvertFromInAlpha ==
  ASSUME NEW src
  PROVE  DOMAIN ConvertFrom(src) \subseteq Alpha!ArgoCD
BY ResourceAgrees DEF ConvertFrom, Restrict, AgreeExcept

(* TypeOK: what is stored after any sequence of edits and conversions has  *)
(* fields of v1beta1 only, and what a client of v1alpha1 holds has fields  *)
(* of v1alpha1 only: ConvertTo and ConvertFrom land in the other version.  *)
THEOREM ConversionTypeCorrect == Spec => []TypeOK
<1>0. Len(Edited) \in Nat
  BY EditedAssumption
<1>1. Init => TypeOK
  <2> SUFFICES ASSUME Init PROVE TypeOK
    OBVIOUS
  <2>1. DOMAIN Empty = {}
    BY DEF Empty
  <2>2. DOMAIN stored \subseteq Beta!ArgoCD
    <3>1. CASE stored = Empty
      BY <2>1, <3>1
    <3>2. CASE stored = [p \in Beta!ArgoCD |-> BetaValue]
      BY <3>2
    <3> QED BY <3>1, <3>2 DEF Init
  <2>3. edits \in 0..Len(Edited)
    BY <1>0 DEF Init
  <2> QED BY <2>1, <2>2, <2>3 DEF Init, TypeOK
<1>2. TypeOK /\ [Next]_vars => TypeOK'
  <2> SUFFICES ASSUME TypeOK, [Next]_vars PROVE TypeOK'
    OBVIOUS
  <2>1. ASSUME NEW p \in Beta!ArgoCD, EditBeta(p) PROVE TypeOK'
    <3>1. DOMAIN stored' \subseteq Beta!ArgoCD
      BY <2>1 DEF TypeOK, EditBeta, Put, Clear, Restrict
    <3>2. edits' \in 0..Len(Edited)
      BY <1>0, <2>1 DEF TypeOK, EditBeta
    <3>3. fresh' \in BOOLEAN /\ UNCHANGED <<copy, phase>>
      BY <2>1 DEF EditBeta
    <3> QED BY <3>1, <3>2, <3>3 DEF TypeOK
  <2>2. CASE ReadAlpha
    BY <2>2, ConvertFromInAlpha DEF TypeOK, ReadAlpha
  <2>3. ASSUME NEW p \in Alpha!ArgoCD, EditAlpha(p) PROVE TypeOK'
    <3>1. DOMAIN copy' \subseteq Alpha!ArgoCD
      BY <2>3 DEF TypeOK, EditAlpha, Put, Clear, Restrict
    <3> QED BY <1>0, <2>3, <3>1 DEF TypeOK, EditAlpha
  <2>4. CASE WriteAlpha
    BY <2>4, ConvertToInBeta DEF TypeOK, WriteAlpha, Empty
  <2>5. CASE ConflictAlpha
    BY <2>5 DEF TypeOK, ConflictAlpha, Empty
  <2>6. CASE UNCHANGED vars
    BY <2>6 DEF TypeOK, vars
  <2> QED BY <2>1, <2>2, <2>3, <2>4, <2>5, <2>6 DEF Next
<1> QED BY <1>1, <1>2, PTL DEF Spec

\* A deprecated field of .spec.sso takes effect in .spec.sso.keycloak.
LEMMA KeycloakTakesEffect ==
  ASSUME NEW src, NEW f \in KeycloakFields, DeprecatedKeycloak(f) \in DOMAIN src
  PROVE  Value(ConvertTo(src), Keycloak(f)) = src[DeprecatedKeycloak(f)]
<1> DEFINE r == Restrict(src, DOMAIN src \cap KeptByConvertTo)
           given == {g \in KeycloakFields : DeprecatedKeycloak(g) \in DOMAIN src}
           kept == DOMAIN r \ {Keycloak(g) : g \in KeycloakFields}
           dom == kept \cup {Keycloak(g) : g \in given}
           k == OverrideKeycloak(src, r)
<1>1. k = [q \in dom |-> IF q \in kept THEN r[q] ELSE src[DeprecatedKeycloak(q[4])]]
  BY DEF OverrideKeycloak
<1>2. Keycloak(f) \in dom /\ Keycloak(f) \notin kept
  OBVIOUS
<1>3. Keycloak(f)[4] = f
  BY KeycloakParts
<1> HIDE DEF r, kept, dom
<1>4. Keycloak(f) \in DOMAIN k /\ k[Keycloak(f)] = src[DeprecatedKeycloak(f)]
  BY <1>1, <1>2, <1>3
<1> HIDE DEF k
<1>5. Keycloak(f) \notin SSODex /\ Keycloak(f) # Provider
  <2> PICK q : q = Keycloak(f)
    OBVIOUS
  <2>1. Rest(Rest(q)) = <<"Keycloak", f>>
    BY KeycloakParts
  <2>2. Inner(Rest(Rest(q))) /\ Name(Rest(Rest(q))) = "Keycloak"
    BY <2>1, Two
  <2> QED BY <2>2, InSSODex, ProviderParts, LeafOrInner
<1>6. Value(OverrideDex(src, k), Keycloak(f)) = src[DeprecatedKeycloak(f)]
  BY <1>4, <1>5, DexElsewhere DEF Value
<1> QED BY <1>6 DEF ConvertTo, k, r

\* A pair followed by one more name.
LEMMA PairAndOne ==
  ASSUME NEW a, NEW b, NEW c
  PROVE  <<a, b>> \o <<c>> = <<a, b, c>>
<1>1. PICK S : S = {a, b, c}
  OBVIOUS
<1>2. a \in S /\ b \in S /\ c \in S
  BY <1>1
<1>3. <<a, b>> \in Seq(S) /\ <<c>> \in Seq(S)
  BY <1>2
<1>4. /\ Len(<<a, b>> \o <<c>>) = 3
      /\ <<a, b>> \o <<c>> \in Seq(S)
      /\ \A i \in 1..3 : (<<a, b>> \o <<c>>)[i] =
           IF i <= 2 THEN <<a, b>>[i] ELSE <<c>>[i - 2]
  BY <1>3, ConcatProperties
<1>5. <<a, b, c>> \in Seq(S) /\ Len(<<a, b, c>>) = 3
  BY <1>2
<1>6. \A i \in 1..3 : (<<a, b>> \o <<c>>)[i] = <<a, b, c>>[i]
  BY <1>4
<1> QED BY <1>4, <1>5, <1>6, SeqEqual

\* A field of .spec.dex takes effect in .spec.sso.dex.
LEMMA DexTakesEffect ==
  ASSUME NEW src, NEW x, <<x>> \in Alpha!ArgoCDDexSpec,
         <<"Spec", "Dex", x>> \in DOMAIN src, DexConfigured(src)
  PROVE  /\ Value(ConvertTo(src), <<"Spec", "SSO", "Dex", x>>) = src[<<"Spec", "Dex", x>>]
         /\ Value(ConvertTo(src), Provider) = SSOProviderTypeDex
<1> DEFINE k == OverrideKeycloak(src, Restrict(src, DOMAIN src \cap KeptByConvertTo))
           kept == DOMAIN k \ SSODex
           dex == {f \in ConvertAlphaToBetaDex : <<"Spec", "Dex">> \o f \in DOMAIN src}
           new == SpecPath("SSO", Under("Dex", dex))
           dom == kept \cup {Provider} \cup new
           d == OverrideDex(src, k)
<1> HIDE DEF k
<1>1. d = [q \in dom |-> CASE q = Provider -> SSOProviderTypeDex
                           [] q \in kept \ {Provider} -> k[q]
                           [] OTHER -> src[<<"Spec", "Dex", q[4]>>]]
  BY DEF OverrideDex, SSODex, Provider
<1>2. PICK q : q = <<"Spec", "SSO", "Dex", x>>
  OBVIOUS
<1>3. q[4] = x
  BY <1>2
<1>4. /\ Inner(q) /\ Name(q) = "Spec" /\ Inner(Rest(q)) /\ Name(Rest(q)) = "SSO"
      /\ Inner(Rest(Rest(q))) /\ Name(Rest(Rest(q))) = "Dex"
      /\ Rest(Rest(Rest(q))) = <<x>>
  <2>1. Inner(q) /\ Name(q) = "Spec" /\ Rest(q) = <<"SSO", "Dex", x>>
    BY <1>2, Four
  <2>2. Inner(Rest(q)) /\ Name(Rest(q)) = "SSO" /\ Rest(Rest(q)) = <<"Dex", x>>
    BY <2>1, Three
  <2> QED BY <2>1, <2>2, Two
<1>5. <<x>> \in ConvertAlphaToBetaDex
  BY SameForms DEF Alpha!ArgoCDDexSpec, ConvertAlphaToBetaDex, Leaves
<1>6. <<"Spec", "Dex">> \o <<x>> = <<"Spec", "Dex", x>>
  BY PairAndOne, Zenon
<1>7. <<x>> \in dex
  BY <1>5, <1>6
<1>8. q \in new
  <2>1. Paths(dex) /\ Paths(Under("Dex", dex))
    <3>1. Paths(dex)
      BY SSOPaths DEF Paths
    <3> QED BY <3>1, InUnder, LeafOrInner
  <2> QED BY <1>4, <1>7, <2>1, InSpecPath, InUnder
<1>9. q \in SSODex
  <2>1. new \subseteq SpecPath("SSO", Under("Dex", ConvertAlphaToBetaDex))
    BY DEF SpecPath, Under
  <2> QED BY <1>8, <2>1, DexInBeta
<1>10. q \in dom /\ q \notin kept /\ q # Provider /\ Provider \in dom
  BY <1>8, <1>9, ProviderParts
<1> HIDE DEF kept, dom, d
<1>11. q \in DOMAIN d /\ d[q] = src[<<"Spec", "Dex", x>>]
  BY <1>1, <1>3, <1>10
<1>12. Provider \in DOMAIN d /\ d[Provider] = SSOProviderTypeDex
  BY <1>1, <1>10
<1>13. d = ConvertTo(src)
  BY DEF d, k, ConvertTo
<1> QED BY <1>2, <1>11, <1>12, <1>13 DEF Value

(* EditsTakeEffect: ConvertTo stores what the client of v1alpha1 has set,  *)
(* a deprecated .spec.sso field in .spec.sso.keycloak and a field of a     *)
(* configured .spec.dex in .spec.sso.dex, whatever the resource held       *)
(* there, and any other shared field under its own name.                   *)
THEOREM EditsEffective == Spec => EditsTakeEffect
<1> DEFINE Deprecated == {DeprecatedKeycloak(f) : f \in KeycloakFields}
           OldDex == SpecPath("Dex", Alpha!ArgoCDDexSpec)
           Shared == SharedPaths \ (DroppedFields \cup Overridden(copy))
<1>1. ASSUME WriteAlpha, NEW p \in DOMAIN copy, copy[p] = AlphaValue
      PROVE  CASE p \in {DeprecatedKeycloak(f) : f \in KeycloakFields} ->
                  Value(stored', Keycloak(p[3])) = AlphaValue
             [] p \in SpecPath("Dex", Alpha!ArgoCDDexSpec) /\ DexConfigured(copy) ->
                  /\ Value(stored', <<"Spec", "SSO", "Dex", p[3]>>) = AlphaValue
                  /\ Value(stored', <<"Spec", "SSO", "Provider">>)
                       = SSOProviderTypeDex
             [] p \in SharedPaths \ (DroppedFields \cup Overridden(copy)) ->
                  Value(stored', p) = AlphaValue
             [] OTHER -> TRUE
  <2>0. stored' = ConvertTo(copy)
    BY <1>1 DEF WriteAlpha
  <2>1. ASSUME p \in Deprecated
        PROVE  /\ Value(stored', Keycloak(p[3])) = AlphaValue
               /\ p \notin OldDex /\ p \notin SharedPaths
    <3>1. PICK f \in KeycloakFields : p = DeprecatedKeycloak(f)
      BY <2>1
    <3>2. p[3] = f /\ Name(Rest(p)) = "SSO"
      BY <3>1, KeycloakParts
    <3>3. Value(stored', Keycloak(f)) = AlphaValue
      BY <1>1, <2>0, <3>1, KeycloakTakesEffect
    <3>4. p \notin SharedPaths
      BY <3>1, DeprecatedNotInBeta DEF SharedPaths
    <3>5. p \notin OldDex
      BY <3>2, SSOPaths, InSpecPath
    <3> QED BY <3>2, <3>3, <3>4, <3>5
  <2>2. ASSUME p \in OldDex, DexConfigured(copy)
        PROVE  /\ Value(stored', <<"Spec", "SSO", "Dex", p[3]>>) = AlphaValue
               /\ Value(stored', <<"Spec", "SSO", "Provider">>) = SSOProviderTypeDex
               /\ p \notin SharedPaths
    <3>1. /\ Inner(p) /\ Name(p) = "Spec" /\ Inner(Rest(p)) /\ Name(Rest(p)) = "Dex"
          /\ Rest(Rest(p)) \in Alpha!ArgoCDDexSpec
      BY <2>2, SSOPaths, InSpecPath
    <3>2. PICK x : Rest(Rest(p)) = <<x>>
      BY <3>1, SameForms DEF Alpha!ArgoCDDexSpec, Leaves
    <3>3. p = <<"Spec", "Dex", x>>
      <4>1. Rest(p) = <<"Dex", x>>
        BY <3>1, <3>2, Two
      <4> QED BY <3>1, <4>1, Three
    <3>4. p[3] = x
      BY <3>3
    <3>5. p \notin SharedPaths
      BY <3>1, DexNotInBeta DEF SharedPaths
    <3>6. <<x>> \in Alpha!ArgoCDDexSpec
      BY <3>1, <3>2
    <3>7. /\ Value(stored', <<"Spec", "SSO", "Dex", x>>) = AlphaValue
          /\ Value(stored', Provider) = SSOProviderTypeDex
      BY <1>1, <2>0, <2>2, <3>3, <3>6, DexTakesEffect
    <3> QED BY <3>4, <3>5, <3>7 DEF Provider
  <2>3. ASSUME p \in Shared PROVE Value(stored', p) = AlphaValue
    <3>1. p \in KeptByConvertTo /\ p \notin Overridden(copy)
      BY <2>3, ResourceAgrees DEF AgreeExcept, SharedPaths
    <3>2. Value(ConvertTo(copy), p) = Value(copy, p)
      BY <3>1, ConvertToElsewhere
    <3> QED BY <1>1, <2>0, <3>2 DEF Value
  <2> QED BY <2>1, <2>2, <2>3
<1>2. [WriteAlpha =>
         \A p \in DOMAIN copy :
           copy[p] = AlphaValue =>
             CASE p \in {DeprecatedKeycloak(f) : f \in KeycloakFields} ->
                    Value(stored', Keycloak(p[3])) = AlphaValue
               [] p \in SpecPath("Dex", Alpha!ArgoCDDexSpec) /\ DexConfigured(copy) ->
                    /\ Value(stored', <<"Spec", "SSO", "Dex", p[3]>>) = AlphaValue
                    /\ Value(stored', <<"Spec", "SSO", "Provider">>)
                         = SSOProviderTypeDex
               [] p \in SharedPaths \ (DroppedFields \cup Overridden(copy)) ->
                    Value(stored', p) = AlphaValue
               [] OTHER -> TRUE]_vars
  BY <1>1
<1> QED BY <1>2, PTL DEF EditsTakeEffect
=============================================================================
