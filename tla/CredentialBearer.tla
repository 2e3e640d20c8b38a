-------------------------- MODULE CredentialBearer --------------------------
(***************************************************************************)
(* What the credential store promises the holder of a bearer token, with   *)
(* no request, lock or transaction in sight.  A credential accepts one     *)
(* bearer at a time.  It may be offered a replacement for the bearer it    *)
(* accepts now, and it may only ever switch to a replacement that was      *)
(* offered for exactly that bearer: its holder is never left with a bearer *)
(* it was not given, and no replacement overwrites a later one.            *)
(***************************************************************************)
CONSTANTS Credentials,  \* identifiers of credential rows; none is used twice
          Bearers,      \* the bearers a credential may accept
          Unborn, Dead  \* not issued yet; revoked or deleted for good

VARIABLES accepts,      \* the bearer each credential accepts
          offers        \* <<credential, bearer replaced, replacement>>

bearerVars == <<accepts, offers>>

\* A replacement was offered for one bearer and ends with it.
Forget(C) == {o \in offers : o[1] \notin C}

Issue(c) ==
  /\ accepts[c] = Unborn
  /\ \E b \in Bearers : accepts' = [accepts EXCEPT ![c] = b]
  /\ UNCHANGED offers

\* A replacement reaches the holder; what the credential accepts is unchanged.
Offer(c) ==
  /\ accepts[c] \in Bearers
  /\ \E b \in Bearers : offers' = offers \cup {<<c, accepts[c], b>>}
  /\ UNCHANGED accepts

Switch(c) ==
  /\ \E b \in Bearers : /\ <<c, accepts[c], b>> \in offers
                        /\ accepts' = [accepts EXCEPT ![c] = b]
  /\ offers' = Forget({c})

\* A deletion may take several credentials with it.
Retire(C) ==
  /\ \A c \in C : accepts[c] \in Bearers
  /\ accepts' = [c \in Credentials |-> IF c \in C THEN Dead ELSE accepts[c]]
  /\ offers' = Forget(C)

BearerInit ==
  /\ accepts \in [Credentials -> Bearers \cup {Unborn}]
  /\ offers = {}

BearerNext ==
  \/ \E c \in Credentials : Issue(c) \/ Offer(c) \/ Switch(c)
  \/ \E C \in SUBSET Credentials : Retire(C)

BearerSpec == BearerInit /\ [][BearerNext]_bearerVars
=============================================================================
