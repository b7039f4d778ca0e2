---------------------------- MODULE CachedClient ----------------------------
(***************************************************************************)
(* How the controllers read objects: from the cache that informers fill,   *)
(* through pkg/clientwrapper. The cache holds Secrets without their data   *)
(* unless a label says that the operator tracks them (pkg/cacheutils); the *)
(* wrapper then reads from the API server instead, and adds the label.     *)
(***************************************************************************)
EXTENDS Sequences, Naturals

CONSTANT
  None  \* there is no such object

VARIABLE
  history  \* the versions of each object, from the one that the cache holds
           \* to the one that the API server holds

Live(o) == history[o][Len(history[o])]

(* Data: absent altogether, or without a backup key, or with one. *)
Nil == "nil"
NoKey == "no key"

IsTrackedByOperator(secret) == secret.tracked

(* The transformation that is applied to what enters the cache. *)
StripDataFromSecretOrConfigMapTransform(secret) ==
  IF secret = None \/ IsTrackedByOperator(secret) THEN secret
  ELSE [secret EXCEPT !.data = Nil]

Cached(o) ==
  IF o = "secret" THEN StripDataFromSecretOrConfigMapTransform(Head(history[o]))
  ELSE Head(history[o])

secretNeedsLiveRefresh(secret) == secret.data = Nil

(* What is read from the cache has to be read from the API server. *)
ReadsLive(secret) ==
  secret # None /\ ~IsTrackedByOperator(secret) /\ secretNeedsLiveRefresh(secret)

Get(o) == IF o = "secret" /\ ReadsLive(Cached(o)) THEN Live(o) ELSE Cached(o)

(* The label that the wrapper adds to a Secret it has read from the API    *)
(* server: a patch, which leaves alone what others have written meanwhile. *)
NeedsLabel(secret) == secret # None /\ ~IsTrackedByOperator(secret)
ensureTrackedLabel(secret) == [secret EXCEPT !.tracked = TRUE]
-----------------------------------------------------------------------------
Written(o, v) == history' = [history EXCEPT ![o] = Append(@, v)]

(* The API server refuses an update that is based on an old version, and   *)
(* to create what exists. Versions that are alike are not told apart.      *)
MayUpdate(o, base) == base # None /\ Live(o) = base
MayCreate(o) == Live(o) = None

(* The informer delivers the next version. *)
Lags(o) == Len(history[o]) > 1
Advance(o) == history' = [history EXCEPT ![o] = Tail(@)]
Relist == history' = [o \in DOMAIN history |-> <<Live(o)>>]
=============================================================================
