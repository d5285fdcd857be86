------------------------- MODULE AccessControlProofs -------------------------
(***************************************************************************)
(* Proofs about AccessControl, for any keys, users, procedures, lifetime   *)
(* of tokens and length of a run.  AccessInvariant is inductive on its     *)
(* own; what an answer promises follows when the request is served, and    *)
(* nothing moves until the answer is done with.                            *)
(***************************************************************************)
EXTENDS AccessControl, FiniteSetTheorems, TLAPS

(* The numbers among the constants.                                        *)
LEMMA Numbers ==
    /\ Horizon \in Nat /\ Lifetime \in Nat /\ Never \in Nat
    /\ MaxMisses \in Nat /\ MaxCredentials \in Nat
<1>1. Horizon \in Nat /\ Lifetime \in Nat /\ MaxMisses \in Nat /\ MaxCredentials \in Nat
  BY AccessControlAssumption
<1> QED
  BY <1>1 DEF Never

(* The service has no key of the provider's.                               *)
LEMMA KeysApart == IdpKey \cap OwnKey = {}
BY AccessControlAssumption

USE Numbers

(* What is said of an answer, and what is known of every state.            *)
Promises ==
    RunsAsGranted /\ WithdrawnKeysExpire /\ RotationLocksNobodyOut /\ OwnCredentialsLast

Inv == TypeOK /\ AccessInvariant

(* Before there is an answer there is nothing to promise.                  *)
LEMMA NothingPromised == ASSUME answer = NoAnswer PROVE Promises
<1>1. ~Ran
  BY DEF Ran, NoAnswer
<1> QED
  BY <1>1 DEF Promises, RunsAsGranted, WithdrawnKeysExpire, RotationLocksNobodyOut,
              OwnCredentialsLast, WithToken

(* An answer is told apart from none by its status.                        *)
LEMMA Answers ==
    ASSUME NEW status, NEW r, NEW who
    PROVE  /\ Answer(status, r, who).status = status
           /\ Answer(status, r, who).request = r
           /\ Answer(status, r, who).who = who
           /\ status # "none" => Answer(status, r, who) # NoAnswer
BY DEF Answer, NoAnswer

(* The keys of the provider are not what a cache has that never fetched.   *)
LEMMA Fetched == ASSUME NEW S \in SUBSET IdpKey PROVE S # NotFetched
BY AccessControlAssumption DEF NotFetched

(* The parts of a credential.                                              *)
LEMMA Credentials ==
    ASSUME NEW c \in Credential
    PROVE  /\ c.kind \in {"token", "api key"} /\ c.sub \in User
           /\ c.kind = "api key" => c.key \in OwnKey
           /\ c.kind = "token" => /\ c.key \in IdpKey \cup OwnKey /\ c.iss \in Issuer
                                  /\ c.aud \in Audience /\ c.exp \in 0 .. Never
BY DEF Credential
-----------------------------------------------------------------------------
(* At first nothing has been fetched or signed.                            *)
LEMMA InitInv == Init => Inv /\ answer = NoAnswer
<1> SUFFICES ASSUME Init PROVE Inv /\ answer = NoAnswer
  OBVIOUS
<1>1. TypeOK
  <2>1. Cardinality({}) = 0
    BY FS_EmptySet
  <2>2. own.set \subseteq OwnKey /\ own.id \in own.set
    BY DEF Init
  <2>3. answer.status = "none"
    BY DEF Init, NoAnswer
  <2>4. since \in [IdpKey -> 0 .. Horizon + 1] /\ until \in [IdpKey -> 0 .. Horizon + 1]
    BY DEF Init
  <2>5. /\ published \subseteq IdpKey /\ signer \in published
        /\ clock \in 0 .. Horizon /\ misses \in 0 .. MaxMisses
        /\ issued \subseteq Credential /\ Cardinality(issued) <= MaxCredentials
    BY <2>1 DEF Init
  <2> QED
    BY <2>2, <2>3, <2>4, <2>5 DEF Init, TypeOK
<1>2. IsFiniteSet(issued)
  BY FS_EmptySet DEF Init
<1>3. ProviderInvariant
  BY DEF Init, ProviderInvariant
<1>4. CacheInvariant
  BY DEF Init, CacheInvariant
<1> QED
  BY <1>1, <1>2, <1>3, <1>4 DEF Init, Inv, AccessInvariant

(* A step of the provider: a key that is published now has signed nothing, *)
(* one it signs with has been published for longer than a cache can be     *)
(* behind, and one it withdraws it has stopped signing with.               *)
LEMMA ProviderPreserves == ASSUME Inv, Provider PROVE Inv'
<1>1. PICK k \in IdpKey : Publish(k) \/ SignWith(k) \/ Withdraw(k)
  BY DEF Provider
<1>2. UNCHANGED <<scheme, own, up, jwks, due, issued, answer, clock, misses>>
  BY DEF Provider, servicevars
<1>3. clock \in Nat /\ Horizon \in Nat /\ clock <= Horizon /\ k \in IdpKey
      /\ since \in [IdpKey -> 0 .. Horizon + 1] /\ until \in [IdpKey -> 0 .. Horizon + 1]
      /\ published \subseteq IdpKey /\ signer \in published
  BY DEF Inv, TypeOK
<1>4. /\ \A j \in IdpKey : /\ since'[j] = since[j] \/ since'[j] = clock
                           /\ until'[j] = until[j] \/ until'[j] = clock
      /\ \A j \in published' :
            /\ until'[j] = until[j]
            /\ \/ j \in published /\ since'[j] = since[j]
               \/ until[j] = Horizon + 1 /\ since'[j] = clock
      /\ \A j \in published : j \in published' \/ until'[j] = clock
      /\ \A j \in IdpKey \ published : j \in published' \/ until'[j] = until[j]
      /\ signer' \in published
      /\ signer' = signer \/ clock > since[signer'] + 1
  <2>1. CASE Publish(k)
    BY <1>3, <2>1 DEF Publish
  <2>2. CASE SignWith(k)
    BY <1>3, <2>2 DEF SignWith
  <2>3. CASE Withdraw(k)
    BY <1>3, <2>3 DEF Withdraw
  <2> QED
    BY <1>1, <2>1, <2>2, <2>3
<1>5. clock \in Nat /\ Horizon \in Nat /\ clock < Horizon + 1 /\ published \subseteq IdpKey
      /\ \A j \in IdpKey : since[j] \in Nat /\ until[j] \in Nat
  BY <1>3
<1>6. \A j \in IdpKey : /\ since[j] <= clock
                        /\ until[j] <= clock \/ until[j] = Horizon + 1
                        /\ j \in published => until[j] = Horizon + 1
  BY <1>3 DEF Inv, AccessInvariant, ProviderInvariant
<1>7. TypeOK'
  <2>1. /\ published' \subseteq IdpKey /\ signer' \in published'
        /\ since' \in [IdpKey -> 0 .. Horizon + 1] /\ until' \in [IdpKey -> 0 .. Horizon + 1]
    BY <1>1, <1>3 DEF Publish, SignWith, Withdraw
  <2> QED
    BY <2>1, <1>2 DEF Inv, TypeOK
<1>8. ProviderInvariant'
  <2>1. published' \subseteq IdpKey
    BY <1>7 DEF TypeOK
  <2>2. ASSUME NEW j \in IdpKey
        PROVE  /\ since'[j] <= clock
               /\ until'[j] <= clock \/ until'[j] = Horizon + 1
               /\ j \in published' => until'[j] = Horizon + 1
    BY <1>5, <1>4, <1>6, <2>2
  <2> QED
    BY <1>2, <2>2 DEF ProviderInvariant
<1>9. ASSUME NEW c \in issued
      PROVE  Genuine(c)' /\ (c.kind = "token" /\ c.key \in published' => c.key \in published)
  <2>1. Genuine(c) /\ c \in Credential
    BY <1>9 DEF Inv, TypeOK, AccessInvariant
  <2>2. published' \subseteq IdpKey
    BY <1>7 DEF TypeOK
  <2> QED
    <3>1. CASE c.kind = "token" /\ c.key \in IdpKey
      <4>1. c.iss = "provider" /\ (c.key \in published \/ until[c.key] <= clock)
        BY <2>1, <3>1 DEF Genuine
      <4>2. c.key \in published' \/ until'[c.key] <= clock
        BY <1>3, <1>4, <3>1, <4>1
      <4>3. c.key \in published' => c.key \in published
        BY <1>5, <1>4, <1>6, <2>2, <3>1, <4>1
      <4> QED
        BY <1>2, <3>1, <4>1, <4>2, <4>3 DEF Genuine
    <3>2. CASE ~(c.kind = "token" /\ c.key \in IdpKey)
      <4>1. published' \subseteq IdpKey
        BY <1>7 DEF TypeOK
      <4> QED
        BY <1>2, <2>1, <3>2, <4>1 DEF Genuine, Never
    <3> QED
      BY <3>1, <3>2
<1>10. CacheInvariant'
  <2>1. CacheRefreshes' = CacheRefreshes /\ FetchesAtStart' = FetchesAtStart /\ Behind' = Behind
        /\ Behind \in {0, 1}
    BY <1>2 DEF CacheRefreshes, FetchesAtStart, Behind
  <2>2. ASSUME misses = 0, jwks # NotFetched
        PROVE  /\ \A j \in jwks : clock <= until'[j] + Behind
               /\ \A j \in published' \ jwks : clock <= since'[j] + Behind
               /\ signer' \in jwks
               /\ \A c \in issued : c.key \in published' => c.key \in jwks
    <3>1. /\ \A j \in jwks : clock <= until[j] + Behind
          /\ \A j \in published \ jwks : clock <= since[j] + Behind
          /\ signer \in jwks
          /\ \A c \in issued : c.key \in published => c.key \in jwks
      BY <2>2 DEF Inv, AccessInvariant, CacheInvariant
    <3>6. jwks \subseteq IdpKey /\ published' \subseteq IdpKey
      BY <1>7, <2>2 DEF Inv, TypeOK
    <3>2. \A j \in jwks : clock <= until'[j] + Behind
      BY <1>5, <1>4, <2>1, <3>1, <3>6
    <3>3. \A j \in published' \ jwks : clock <= since'[j] + Behind
      BY <1>5, <1>4, <2>1, <3>1, <3>6
    <3>4. signer' \in jwks
      BY <1>5, <1>4, <2>1, <3>1, <3>6
    <3>5. ASSUME NEW c \in issued, c.key \in published' PROVE c.key \in jwks
      <4>1. c \in Credential
        BY <3>5 DEF Inv, TypeOK
      <4>2. c.kind = "token"
        BY <3>5, <3>6, <4>1, Credentials, KeysApart
      <4> QED
        BY <1>9, <3>1, <3>5, <4>2
    <3> QED
      BY <3>2, <3>3, <3>4, <3>5
  <2> QED
    BY <1>2, <2>1, <2>2 DEF Inv, AccessInvariant, CacheInvariant
<1> QED
  BY <1>2, <1>7, <1>8, <1>9, <1>10 DEF Inv, AccessInvariant

(* A genuine credential comes into circulation; if the provider signed it, *)
(* it did so with a key that every cache has that could be refreshed.      *)
LEMMA CirculatesPreserves ==
    ASSUME Inv, NEW c \in Credential, Circulates(c), Genuine(c),
           c.key \notin OwnKey => c.key = signer
    PROVE  Inv'
<1>1. UNCHANGED <<scheme, published, signer, since, until, own, up, jwks, due, answer,
                  clock, misses>>
      /\ issued' = issued \cup {c} /\ Cardinality(issued') <= MaxCredentials
  BY DEF Circulates, idpvars, servicevars
<1>2. TypeOK'
  BY <1>1 DEF Inv, TypeOK
<1>3. IsFiniteSet(issued')
  BY <1>1, FS_AddElement DEF Inv, AccessInvariant
<1>4. ProviderInvariant'
  BY <1>1 DEF Inv, AccessInvariant, ProviderInvariant
<1>5. \A d \in issued' : Genuine(d)'
  BY <1>1 DEF Inv, AccessInvariant, Genuine
<1>6. CacheInvariant'
  <2>1. published \subseteq IdpKey
    BY DEF Inv, TypeOK
  <2>2. c.key \in published => c.key = signer
    BY <2>1, KeysApart
  <2> QED
    BY <1>1, <2>2 DEF Inv, AccessInvariant, CacheInvariant, CacheRefreshes, FetchesAtStart, Behind
<1> QED
  BY <1>2, <1>3, <1>4, <1>5, <1>6 DEF Inv, AccessInvariant

(* All that is ever signed is.                                             *)
LEMMA SigningPreserves ==
    ASSUME Inv, NEW u \in User,
           Issue(u) \/ SignAccessToken(u) \/ SignedElsewhere(u) \/ BuildAndSignAPIKey(u)
    PROVE  Inv'
<1>1. /\ clock \in 0 .. Horizon
      /\ published \subseteq IdpKey /\ signer \in published
      /\ own.set \subseteq OwnKey /\ own.id \in own.set
  BY DEF Inv, TypeOK
<1>2. /\ Never \in 0 .. Never /\ clock + Lifetime \in 0 .. Never
      /\ IdpKey \cap OwnKey = {}
  BY <1>1, KeysApart DEF Never
<1>3. ASSUME NEW a \in Audience, NEW k \in OwnKey
      PROVE  /\ Token(k, "service", a, Never, u) \in Credential
             /\ (a = "us" => scheme = "crpcaccess") => Genuine(Token(k, "service", a, Never, u))
             /\ Token(k, "service", a, Never, u).key \in OwnKey
  <2> DEFINE c == Token(k, "service", a, Never, u)
  <2>1. c \in [kind : {"token"}, key : IdpKey \cup OwnKey, iss : Issuer, aud : Audience,
               exp : 0 .. Never, sub : User]
    BY <1>2, <1>3 DEF Token, Issuer
  <2>2. c.kind = "token" /\ c.key = k /\ c.iss = "service" /\ c.exp = Never /\ c.aud = a
    BY DEF Token
  <2> QED
    BY <2>1, <2>2, KeysApart DEF Credential, Genuine
<1>4. CASE Issue(u)
  <2>1. PICK a \in Audience : Circulates(Token(signer, "provider", a, clock + Lifetime, u))
    BY <1>4 DEF Issue
  <2> DEFINE c == Token(signer, "provider", a, clock + Lifetime, u)
  <2>2. c \in Credential /\ Genuine(c) /\ c.key = signer
    <3>1. c \in [kind : {"token"}, key : IdpKey \cup OwnKey, iss : Issuer, aud : Audience,
                 exp : 0 .. Never, sub : User]
      BY <1>1, <1>2 DEF Token, Issuer
    <3>2. c.kind = "token" /\ c.key = signer /\ c.iss = "provider"
      BY DEF Token
    <3> QED
      BY <1>1, <3>1, <3>2 DEF Credential, Genuine
  <2> QED
    BY <2>1, <2>2, CirculatesPreserves
<1>5. CASE SignAccessToken(u)
  BY <1>1, <1>3, <1>5, CirculatesPreserves DEF SignAccessToken, Audience
<1>6. CASE SignedElsewhere(u)
  <2>1. PICK k \in OwnKey : Circulates(Token(k, "service", "others", Never, u))
    BY <1>6 DEF SignedElsewhere
  <2> QED
    BY <1>3, <2>1, CirculatesPreserves DEF Audience
<1>7. CASE BuildAndSignAPIKey(u)
  <2> DEFINE c == [kind |-> "api key", key |-> own.id, sub |-> u]
  <2>1. c \in Credential /\ Genuine(c) /\ c.key \in OwnKey /\ Circulates(c)
    BY <1>1, <1>7 DEF Credential, Genuine, BuildAndSignAPIKey
  <2> QED
    BY <2>1, CirculatesPreserves
<1> QED
  BY <1>4, <1>5, <1>6, <1>7

(* ... and may be lost.                                                    *)
LEMMA ForgetPreserves == ASSUME Inv, NEW c \in issued, Forget(c) PROVE Inv'
<1>1. UNCHANGED <<scheme, published, signer, since, until, own, up, jwks, due, answer,
                  clock, misses>>
      /\ issued' = issued \ {c}
  BY DEF Forget, idpvars, servicevars
<1>2. IsFiniteSet(issued') /\ Cardinality(issued') <= Cardinality(issued)
  BY <1>1, FS_Subset DEF Inv, AccessInvariant
<1>3. Cardinality(issued) \in Nat /\ Cardinality(issued') \in Nat
  <2>1. IsFiniteSet(issued)
    BY DEF Inv, AccessInvariant
  <2> QED
    BY <1>2, <2>1, FS_CardinalityType
<1>4. TypeOK'
  BY <1>1, <1>2, <1>3 DEF Inv, TypeOK
<1>5. ProviderInvariant' /\ (\A d \in issued' : Genuine(d)')
  BY <1>1 DEF Inv, AccessInvariant, ProviderInvariant, Genuine
<1>6. CacheInvariant'
  BY <1>1 DEF Inv, AccessInvariant, CacheInvariant, CacheRefreshes, FetchesAtStart, Behind
<1> QED
  BY <1>2, <1>4, <1>5, <1>6 DEF Inv, AccessInvariant

(* The service starts, stops, or lets its cache refresh itself; time goes  *)
(* on only when the cache has.                                             *)
LEMMA ServicePreserves == ASSUME Inv, Start \/ Stop \/ Refresh \/ Tick PROVE Inv'
<1>1. UNCHANGED <<scheme, published, signer, since, until, issued, answer>>
  BY DEF Start, Stop, Refresh, Tick, idpvars
<1>2. /\ clock \in 0 .. Horizon /\ misses \in 0 .. MaxMisses
      /\ published \subseteq IdpKey /\ signer \in published /\ published # NotFetched
      /\ since \in [IdpKey -> 0 .. Horizon + 1] /\ until \in [IdpKey -> 0 .. Horizon + 1]
  BY Fetched DEF Inv, TypeOK
<1>3. clock' \in 0 .. Horizon /\ clock' >= clock /\ misses' \in 0 .. MaxMisses
  BY <1>2 DEF Start, Stop, Refresh, Tick
<1>4. TypeOK'
  <2>1. own'.set \subseteq OwnKey /\ own'.id \in own'.set
    BY DEF Start, Configured, Stop, Refresh, Tick, Inv, TypeOK
  <2>2. up' \in BOOLEAN /\ due' \in BOOLEAN /\ (jwks' = NotFetched \/ jwks' \subseteq IdpKey)
    BY DEF Start, Stop, Refresh, Tick, Inv, TypeOK
  <2> QED
    BY <1>1, <1>3, <2>1, <2>2 DEF Inv, TypeOK
<1>5. ProviderInvariant'
  <2>1. ASSUME NEW k \in IdpKey
        PROVE  /\ since[k] <= clock'
               /\ until[k] <= clock' \/ until[k] = Horizon + 1
               /\ k \in published => until[k] = Horizon + 1
    <3>1. since[k] \in Nat /\ until[k] \in Nat
      BY <1>2
    <3> QED
      BY <1>2, <1>3, <3>1 DEF Inv, AccessInvariant, ProviderInvariant
  <2> QED
    BY <1>1, <2>1 DEF ProviderInvariant
<1>6. \A c \in issued : Genuine(c)'
  <2>1. ASSUME NEW c \in issued PROVE Genuine(c)'
    <3>1. Genuine(c)
      BY <2>1 DEF Inv, AccessInvariant
    <3>2. c.key \in IdpKey => until[c.key] \in Nat
      BY <1>2
    <3>3. CASE c.kind = "token" /\ c.key \in IdpKey
      <4>1. c.iss = "provider" /\ (c.key \in published \/ until[c.key] <= clock)
        BY <3>1, <3>3 DEF Genuine
      <4>2. until[c.key] <= clock => until[c.key] <= clock'
        BY <1>2, <1>3, <3>2, <3>3
      <4> QED
        BY <1>1, <3>3, <4>1, <4>2 DEF Genuine
    <3>4. CASE ~(c.kind = "token" /\ c.key \in IdpKey)
      BY <1>1, <3>1, <3>4 DEF Genuine
    <3> QED
      BY <3>3, <3>4
  <2> QED
    BY <2>1
<1>7. \A k \in published : until[k] = Horizon + 1
  BY <1>2 DEF Inv, AccessInvariant, ProviderInvariant
<1>8. CacheInvariant'
  <2>1. CASE jwks' = NotFetched /\ ~due' /\ ~(up' /\ FetchesAtStart')
    BY <2>1 DEF CacheInvariant
  <2>2. CASE jwks' = published /\ ~due' /\ up'
    <3>1. Behind' = 0 /\ CacheRefreshes'
      BY <1>1, <1>2, <2>2 DEF Behind, CacheRefreshes
    <3>2. \A k \in jwks' : clock' <= until'[k] + Behind'
      BY <1>1, <1>2, <1>3, <1>7, <2>2, <3>1
    <3> QED
      BY <1>1, <1>2, <2>2, <3>1, <3>2 DEF CacheInvariant
  <2>3. CASE Start
    BY <1>1, <2>1, <2>2, <2>3 DEF Start, FetchesAtStart
  <2>4. CASE Stop
    BY <2>1, <2>4 DEF Stop
  <2>5. CASE Refresh
    <3>1. CASE jwks' = published
      BY <2>2, <2>5, <3>1 DEF Refresh, CacheRefreshes
    <3>2. CASE misses' = misses + 1 /\ jwks' = jwks
      <4>1. misses' # 0
        BY <1>2, <3>2
      <4> QED
        BY <1>1, <2>5, <3>2, <4>1
           DEF Refresh, CacheInvariant, CacheRefreshes, FetchesAtStart, Inv, AccessInvariant
    <3> QED
      BY <2>5, <3>1, <3>2 DEF Refresh
  <2>6. CASE Tick
    <3>1. /\ clock' = clock + 1 /\ UNCHANGED <<own, up, jwks, misses>>
          /\ due' = (up /\ jwks # NotFetched) /\ ~due
      BY <2>6 DEF Tick, Inv, AccessInvariant, CacheInvariant
    <3>2. Behind = 0 /\ (jwks # NotFetched => Behind' = 1)
      BY <3>1 DEF Behind, Inv, AccessInvariant, CacheInvariant
    <3>3. CacheRefreshes' = CacheRefreshes /\ FetchesAtStart' = FetchesAtStart
      BY <1>1, <3>1 DEF CacheRefreshes, FetchesAtStart
    <3>4. ASSUME misses = 0, jwks # NotFetched
          PROVE  /\ \A k \in jwks : clock' <= until[k] + 1
                 /\ \A k \in published \ jwks : clock' <= since[k] + 1
                 /\ signer \in jwks
                 /\ \A c \in issued : c.key \in published => c.key \in jwks
      <4>1. /\ \A k \in jwks : clock <= until[k] + Behind
            /\ \A k \in published \ jwks : clock <= since[k] + Behind
            /\ signer \in jwks
            /\ \A c \in issued : c.key \in published => c.key \in jwks
        BY <3>4 DEF Inv, AccessInvariant, CacheInvariant
      <4>2. jwks \subseteq IdpKey
        BY <3>4 DEF Inv, TypeOK
      <4>3. \A k \in IdpKey : since[k] \in Nat /\ until[k] \in Nat
        BY <1>2
      <4> QED
        BY <1>2, <3>1, <3>2, <4>1, <4>2, <4>3
    <3>5. /\ due' \/ (up' /\ FetchesAtStart') => CacheRefreshes'
          /\ ~up' => jwks' = NotFetched
      BY <3>1, <3>3 DEF CacheRefreshes, Inv, AccessInvariant, CacheInvariant
    <3> QED
      BY <1>1, <3>1, <3>2, <3>4, <3>5 DEF CacheInvariant
  <2> QED
    BY <2>3, <2>4, <2>5, <2>6
<1> QED
  BY <1>1, <1>4, <1>5, <1>6, <1>8 DEF Inv, AccessInvariant
-----------------------------------------------------------------------------
(* What a request presents is in circulation or not a credential at all.   *)
LEMMA Presents ==
    ASSUME Inv, NEW r \in Request
    PROVE  /\ \/ Presented(r) \in issued
              \/ Presented(r).kind \in {"none", "basic", "malformed"}
           /\ scheme # "crpcaccess" => Presented(r) = r.authorization
<1>1. /\ r.authorization \in issued \cup {NoCredential, Basic, Malformed}
      /\ r.proxied \in issued \cup {NoCredential, Malformed}
      /\ scheme # "crpcaccess" => r.proxied = NoCredential
  BY DEF Request
<1>2. NoCredential.kind = "none" /\ Basic.kind = "basic" /\ Malformed.kind = "malformed"
  BY DEF NoCredential, Basic, Malformed
<1> QED
  BY <1>1, <1>2 DEF Presented

(* Everything a scheme can know of a token: whose key it is under, what it *)
(* is for, and whether the cache in use has the key.                       *)
LEMMA Tokens ==
    ASSUME Inv, NEW c \in issued, c.kind = "token"
    PROVE  /\ c.key \in IdpKey => c.iss = "provider"
           /\ c.key \notin IdpKey => /\ c.key \in OwnKey /\ c.iss = "service"
                                     /\ clock < c.exp
                                     /\ c.aud = "us" => scheme = "crpcaccess"
           /\ c.iss \in Issuer
<1>1. c \in Credential /\ Genuine(c) /\ clock \in 0 .. Horizon
  BY DEF Inv, TypeOK, AccessInvariant
<1>2. c.key \in IdpKey \cup OwnKey
  BY <1>1, Credentials
<1>3. clock < Never
  <2>1. Lifetime \in Nat
    BY Numbers
  <2> QED
    BY <1>1, <2>1 DEF Never
<1> QED
  BY <1>1, <1>2, <1>3 DEF Genuine, Issuer

(* A cache that can be refreshed has the keys in use, and of those that    *)
(* are withdrawn only what was withdrawn an interval ago.                  *)
LEMMA CacheServes ==
    ASSUME Inv, misses = 0, jwks # NotFetched, NEW c \in issued, c.kind = "token"
    PROVE  /\ c.key \in published => c.key \in jwks
           /\ c.key \in jwks => clock <= until[c.key] + 1
           /\ c.key \in published => clock <= until[c.key] + 1
<1>1. /\ clock \in 0 .. Horizon /\ until \in [IdpKey -> 0 .. Horizon + 1]
      /\ published \subseteq IdpKey /\ jwks \subseteq IdpKey
  BY DEF Inv, TypeOK
<1>2. Behind \in {0, 1}
  BY DEF Behind
<1>3. /\ c.key \in jwks => clock <= until[c.key] + Behind
      /\ c.key \in published => c.key \in jwks
  BY DEF Inv, AccessInvariant, CacheInvariant
<1>4. c.key \in IdpKey => until[c.key] \in Nat
  BY <1>1
<1> QED
  BY <1>1, <1>2, <1>3, <1>4

-----------------------------------------------------------------------------
(* The promises, of an answer that is given now.                           *)
Earned(a) ==
    LET c == Presented(a.request)
    IN  a.status = "run" =>
            /\ IF c.kind \notin {"token", "api key"}
               THEN a.who = Nobody /\ a.request.procedure \in Anonymous
               ELSE a.who = c.sub
            /\ c.kind = "token" => c.aud = "us" /\ clock < c.exp
            /\ scheme # "authn" /\ a.who # Nobody /\ a.request.procedure # NotAProcedure
               => a.request.procedure \in Scopes(a.who)

Reliable(a) ==
    LET c == Presented(a.request)
    IN  /\ a.status = "run" /\ c.kind = "token" /\ c.key \in IdpKey => clock <= until[c.key] + 1
        /\ c.kind = "token" /\ c.key \in published /\ c.iss = "provider" /\ c.aud = "us"
               /\ clock < c.exp
           => /\ a.status # "unauthenticated"
              /\ a.request.procedure \in Scopes(c.sub) \ Unannotated => a.status = "run"
        /\ c.kind = "api key" => (a.status = "run" <=> c.key \in own.set)
        /\ c.kind = "token" /\ c.iss = "service" /\ c.aud = "us" =>
               (a.status # "unauthenticated" <=> c.key \in own.set)

AnswerTo(a, r) ==
    a.request = r /\ a.status \in {"run", "unauthenticated", "denied", "error"}

(* They are the properties of the state in which it is.                    *)
LEMMA Served ==
    ASSUME NEW r, NEW a, AnswerTo(a, r), answer' = a, Earned(a), misses' = 0 => Reliable(a),
           UNCHANGED <<scheme, published, until, own, clock>>
    PROVE  Promises' /\ answer' # NoAnswer
<1>1. answer' # NoAnswer
  BY DEF AnswerTo, NoAnswer
<1>2. /\ Ran' = (a.status = "run") /\ Used' = Presented(a.request)
      /\ WithToken' = (Presented(a.request).kind = "token")
  BY <1>1 DEF Ran, Used, WithToken, Presented
<1>3. RunsAsGranted'
  BY <1>2 DEF RunsAsGranted, Earned, Scopes
<1>4. WithdrawnKeysExpire'
  BY <1>2 DEF WithdrawnKeysExpire, Reliable
<1>5. RotationLocksNobodyOut'
  BY <1>2 DEF RotationLocksNobodyOut, Reliable, Scopes
<1>6. OwnCredentialsLast'
  BY <1>1, <1>2 DEF OwnCredentialsLast, Reliable
<1> QED
  BY <1>1, <1>3, <1>4, <1>5, <1>6 DEF Promises

(* The keys a scheme verifies with are recent.                             *)
Recent(keys) ==
    \A c \in issued : c.kind = "token" =>
        /\ c.key \in published => c.key \in keys
        /\ c.key \in keys => clock <= until[c.key] + 1

(* stdcrpcauthfx: a token of the provider, and the scope of the procedure. *)
LEMMA ByScopeKeeps ==
    ASSUME Inv, scheme = "crpcauth", NEW r \in Request, jwks \subseteq IdpKey
    PROVE  LET a == WrapByScope(r)
           IN  AnswerTo(a, r) /\ Earned(a) /\ (Recent(jwks) => Reliable(a))
<1> DEFINE a == WrapByScope(r)
           c == Presented(r)
           accepted == Verified(c, jwks) /\ Validated(c, {"provider"})
<1>1. c = r.authorization /\ (c \in issued \/ c.kind \in {"none", "basic", "malformed"})
  BY Presents
<1>2. /\ AnswerTo(a, r)
      /\ a.status = "run" => /\ accepted /\ a.who = c.sub
                             /\ r.procedure # NotAProcedure => r.procedure \in Scopes(c.sub)
      /\ accepted => /\ a.status # "unauthenticated"
                     /\ r.procedure \in Scopes(c.sub) \ Unannotated => a.status = "run"
      /\ ~accepted => a.status = "unauthenticated"
  BY <1>1 DEF WrapByScope, AnswerTo, Answer, Refused
<1> HIDE DEF a
<1>3. a.request = r
  BY <1>2 DEF AnswerTo
<1>4. Earned(a)
  BY <1>2, <1>3 DEF Earned, Verified, Validated
<1>5. ASSUME Recent(jwks) PROVE Reliable(a)
  <2>1. CASE c.kind # "token"
    <3>1. c.kind # "api key"
      BY <1>1 DEF Inv, AccessInvariant, Genuine
    <3> QED
      BY <1>3, <2>1, <3>1 DEF Reliable
  <2>2. CASE c.kind = "token"
    <3>1. c \in issued /\ published \subseteq IdpKey
      BY <1>1, <2>2 DEF Inv, TypeOK
    <3>2. /\ c.key \in published => c.key \in jwks
          /\ c.key \in jwks => clock <= until[c.key] + 1
      BY <1>5, <2>2, <3>1 DEF Recent
    <3>3. accepted <=> c.key \in jwks /\ c.iss = "provider" /\ c.aud = "us" /\ clock < c.exp
      BY <2>2 DEF Verified, Validated
    <3>4. /\ c.key \in IdpKey => c.iss = "provider"
          /\ c.key \notin IdpKey => c.aud # "us"
      BY <2>2, <3>1, Tokens
    <3> QED
      BY <1>2, <1>3, <2>2, <3>1, <3>2, <3>3, <3>4 DEF Reliable
  <2> QED
    BY <2>1, <2>2
<1> QED
  BY <1>2, <1>4, <1>5 DEF a

(* stdauthnfx: a token of the provider or a key of the service's own.      *)
LEMMA AuthenticateKeeps ==
    ASSUME Inv, scheme = "authn", NEW r \in Request, jwks \subseteq IdpKey
    PROVE  LET a == Authenticate(r)
           IN  AnswerTo(a, r) /\ Earned(a) /\ (Recent(jwks) => Reliable(a))
<1> DEFINE a == Authenticate(r)
           c == Presented(r)
           accepted == \/ c.kind = "none" /\ r.procedure \in Anonymous
                       \/ c.kind = "api key" /\ c.key \in own.set
                       \/ Verified(c, jwks) /\ Validated(c, {"provider"})
<1>1. c = r.authorization /\ (c \in issued \/ c.kind \in {"none", "basic", "malformed"})
  BY Presents
<1>2. /\ AnswerTo(a, r)
      /\ a.status = (IF accepted THEN "run" ELSE "unauthenticated")
      /\ accepted => a.who = (IF c.kind = "none" THEN Nobody ELSE c.sub)
  BY <1>1 DEF Authenticate, AnswerTo, Answer, Refused, AcceptedKeys
<1> HIDE DEF a
<1>3. a.request = r
  BY <1>2 DEF AnswerTo
<1>4. Earned(a)
  BY <1>2, <1>3 DEF Earned, Verified, Validated
<1>5. ASSUME Recent(jwks) PROVE Reliable(a)
  <2>1. CASE c.kind # "token"
    BY <1>2, <1>3, <2>1 DEF Reliable, Verified
  <2>2. CASE c.kind = "token"
    <3>1. c \in issued /\ published \subseteq IdpKey
      BY <1>1, <2>2 DEF Inv, TypeOK
    <3>2. /\ c.key \in published => c.key \in jwks
          /\ c.key \in jwks => clock <= until[c.key] + 1
      BY <1>5, <2>2, <3>1 DEF Recent
    <3>3. accepted <=> c.key \in jwks /\ c.iss = "provider" /\ c.aud = "us" /\ clock < c.exp
      BY <2>2 DEF Verified, Validated
    <3>4. /\ c.key \in IdpKey => c.iss = "provider"
          /\ c.key \notin IdpKey => c.aud # "us"
      BY <2>2, <3>1, Tokens
    <3> QED
      BY <1>2, <1>3, <2>2, <3>1, <3>2, <3>3, <3>4 DEF Reliable
  <2> QED
    BY <2>1, <2>2
<1> QED
  BY <1>2, <1>4, <1>5 DEF a

(* stdcrpcaccess: a token of the provider or of the service, or none; keys *)
(* is the provider's set as far as it could be had.                        *)
LEMMA ByPermissionKeeps ==
    ASSUME Inv, scheme = "crpcaccess", NEW r \in Request, NEW keys \in SUBSET IdpKey
    PROVE  LET a == WrapByPermission(r, keys)
           IN  AnswerTo(a, r) /\ Earned(a) /\ (Recent(keys) => Reliable(a))
<1> DEFINE a == WrapByPermission(r, keys)
           c == Presented(r)
           accepted == Verified(c, keys \cup own.set) /\ Validated(c, Issuer)
<1>1. c \in issued \/ c.kind \in {"none", "basic", "malformed"}
  BY Presents
<1>6. keys # NotFetched
  BY Fetched
<1>2. /\ AnswerTo(a, r)
      /\ IF c.kind \in {"none", "basic"}
         THEN a.status = "run" => r.procedure \in Anonymous /\ a.who = Nobody
         ELSE /\ accepted => /\ a.status # "unauthenticated"
                             /\ a.status = "run" <=> r.procedure \in Scopes(c.sub)
                             /\ a.status = "run" => a.who = c.sub
              /\ ~accepted => a.status = "unauthenticated"
  BY <1>6 DEF WrapByPermission, CheckAuthZ, IsBearer, AnswerTo, Answer, Refused, AcceptedKeys
<1> HIDE DEF a
<1>3. a.request = r
  BY <1>2 DEF AnswerTo
<1>4. Earned(a)
  BY <1>2, <1>3 DEF Earned, Verified, Validated
<1>5. ASSUME Recent(keys) PROVE Reliable(a)
  <2>1. CASE c.kind # "token"
    <3>1. c.kind # "api key"
      BY <1>1 DEF Inv, AccessInvariant, Genuine
    <3> QED
      BY <1>3, <2>1, <3>1 DEF Reliable
  <2>2. CASE c.kind = "token"
    <3>1. c \in issued /\ published \subseteq IdpKey /\ own.set \subseteq OwnKey
      BY <1>1, <2>2 DEF Inv, TypeOK
    <3>2. /\ c.key \in published => c.key \in keys
          /\ c.key \in keys => clock <= until[c.key] + 1
      BY <1>5, <2>2, <3>1 DEF Recent
    <3>3. accepted <=> c.key \in keys \cup own.set /\ c.aud = "us" /\ clock < c.exp
      BY <2>2, <3>1, Tokens DEF Verified, Validated
    <3>4. /\ c.key \in IdpKey => c.iss = "provider"
          /\ c.key \notin IdpKey => clock < c.exp /\ c.iss = "service"
      BY <2>2, <3>1, Tokens
    <3>5. IdpKey \cap OwnKey = {}
      BY KeysApart
    <3> QED
      BY <1>2, <1>3, <2>2, <3>1, <3>2, <3>3, <3>4, <3>5 DEF Reliable
  <2> QED
    BY <2>1, <2>2
<1> QED
  BY <1>2, <1>4, <1>5 DEF a

(* A request is served by whichever scheme the service uses.               *)
LEMMA ServePreserves == ASSUME Inv, Serve PROVE Inv' /\ Promises' /\ answer' # NoAnswer
<1>1. up /\ UNCHANGED <<own, up, due, scheme, published, signer, since, until, issued, clock>>
  BY DEF Serve, idpvars
<1>2. /\ misses \in 0 .. MaxMisses /\ published \subseteq IdpKey /\ signer \in published
      /\ clock \in 0 .. Horizon /\ until \in [IdpKey -> 0 .. Horizon + 1]
      /\ scheme \in Scheme
      /\ jwks = NotFetched \/ jwks \subseteq IdpKey
  BY DEF Inv, TypeOK
<1>3. ASSUME jwks # NotFetched PROVE jwks \subseteq IdpKey /\ (misses = 0 => Recent(jwks))
  BY <1>2, <1>3, CacheServes DEF Recent
<1>4. Recent(published)
  <2>1. ASSUME NEW c \in issued, c.key \in published PROVE clock <= until[c.key] + 1
    <3>1. c.key \in IdpKey /\ until[c.key] = Horizon + 1
      BY <1>2, <2>1 DEF Inv, AccessInvariant, ProviderInvariant
    <3> QED
      BY <1>2, <3>1
  <2> QED
    BY <2>1 DEF Recent
<1>5. PICK r \in Request :
        CASE scheme = "crpcauth" -> answer' = WrapByScope(r) /\ UNCHANGED <<jwks, misses>>
          [] scheme = "authn" -> answer' = Authenticate(r) /\ UNCHANGED <<jwks, misses>>
          [] OTHER ->
              IF IsBearer(Presented(r)) /\ jwks = NotFetched
              THEN \/ /\ jwks' = published
                      /\ answer' = WrapByPermission(r, published)
                      /\ UNCHANGED misses
                   \/ /\ misses < MaxMisses /\ misses' = misses + 1
                      /\ answer' = WrapByPermission(r, NotFetched)
                      /\ UNCHANGED jwks
              ELSE answer' = WrapByPermission(r, jwks) /\ UNCHANGED <<jwks, misses>>
  BY DEF Serve
(* Which keys were used, and what became of the cache.                     *)
<1> DEFINE Kept == UNCHANGED <<jwks, misses>>
           FetchedNow == jwks = NotFetched /\ jwks' = published /\ misses' = misses
           Missed == jwks = NotFetched /\ jwks' = jwks /\ misses' = misses + 1
                     /\ misses < MaxMisses
           Fair == AnswerTo(answer', r) /\ Earned(answer') /\ (misses' = 0 => Reliable(answer'))
<1>6. Fair /\ (Kept \/ FetchedNow \/ Missed)
  <2>1. CASE scheme = "crpcauth"
    <3>1. answer' = WrapByScope(r) /\ UNCHANGED <<jwks, misses>>
      BY <1>5, <2>1
    <3>2. jwks # NotFetched
      BY <1>1, <2>1 DEF Inv, AccessInvariant, CacheInvariant, FetchesAtStart, CacheRefreshes
    <3> QED
      BY <1>3, <2>1, <3>1, <3>2, ByScopeKeeps
  <2>2. CASE scheme = "authn"
    <3>1. answer' = Authenticate(r) /\ UNCHANGED <<jwks, misses>>
      BY <1>5, <2>2
    <3>2. jwks # NotFetched
      BY <1>1, <2>2 DEF Inv, AccessInvariant, CacheInvariant, FetchesAtStart, CacheRefreshes
    <3> QED
      BY <1>3, <2>2, <3>1, <3>2, AuthenticateKeeps
  <2>3. CASE scheme = "crpcaccess"
    <3>1. IF IsBearer(Presented(r)) /\ jwks = NotFetched
          THEN \/ /\ jwks' = published
                  /\ answer' = WrapByPermission(r, published)
                  /\ UNCHANGED misses
               \/ /\ misses < MaxMisses /\ misses' = misses + 1
                  /\ answer' = WrapByPermission(r, NotFetched)
                  /\ UNCHANGED jwks
          ELSE answer' = WrapByPermission(r, jwks) /\ UNCHANGED <<jwks, misses>>
      BY <1>5, <2>3
    <3>2. CASE FetchedNow /\ answer' = WrapByPermission(r, published)
      BY <1>2, <1>4, <2>3, <3>2, ByPermissionKeeps
    <3>3. CASE Kept /\ jwks # NotFetched /\ answer' = WrapByPermission(r, jwks)
      BY <1>3, <2>3, <3>3, ByPermissionKeeps
    <3>4. CASE /\ Missed /\ answer' = WrapByPermission(r, NotFetched)
               /\ IsBearer(Presented(r))
      <4>1. answer' = Refused("error", r)
        BY <3>4 DEF WrapByPermission
      <4>2. misses' # 0
        BY <1>2, <3>4
      <4>3. AnswerTo(answer', r) /\ answer'.status # "run"
        BY <4>1 DEF AnswerTo, Refused, Answer
      <4> QED
        BY <3>4, <4>2, <4>3 DEF Earned
    <3>5. CASE Kept /\ ~IsBearer(Presented(r)) /\ answer' = WrapByPermission(r, jwks)
      <4>1. answer' = CheckAuthZ(r, Nobody, Anonymous)
        BY <3>5 DEF WrapByPermission
      <4>2. Presented(r).kind \in {"none", "basic"}
        BY <3>5 DEF IsBearer
      <4>3. /\ AnswerTo(answer', r) /\ answer'.who = Nobody
            /\ answer'.status = "run" => r.procedure \in Anonymous
        BY <4>1 DEF AnswerTo, CheckAuthZ, Refused, Answer
      <4>4. answer'.request = r
        BY <4>3 DEF AnswerTo
      <4> QED
        BY <3>5, <4>2, <4>3, <4>4 DEF Earned, Reliable
    <3> QED
      BY <3>1, <3>2, <3>3, <3>4, <3>5
  <2> QED
    BY <1>2, <2>1, <2>2, <2>3 DEF Scheme
<1>7. Promises' /\ answer' # NoAnswer
  BY <1>1, <1>6, Served
<1>8. TypeOK'
  <2>1. misses' \in 0 .. MaxMisses /\ (jwks' = NotFetched \/ jwks' \subseteq IdpKey)
    BY <1>2, <1>6
  <2>2. answer'.status \in {"none", "run", "unauthenticated", "denied", "error"}
    BY <1>6 DEF AnswerTo
  <2> QED
    BY <1>1, <2>1, <2>2 DEF Inv, TypeOK
<1>9. CacheInvariant'
  <2>1. CASE Kept
    BY <1>1, <2>1
       DEF Inv, AccessInvariant, CacheInvariant, CacheRefreshes, FetchesAtStart, Behind
  <2>2. CASE FetchedNow
    <3>1. ~due /\ Behind' = 0 /\ CacheRefreshes'
      <4>1. published # NotFetched
        BY <1>2, Fetched
      <4> QED
        BY <1>1, <2>2, <4>1 DEF Inv, AccessInvariant, CacheInvariant, CacheRefreshes, Behind
    <3>2. \A k \in published : clock <= until[k] + 0
      <4>1. ASSUME NEW k \in published PROVE clock <= until[k] + 0
        <5>1. k \in IdpKey /\ until[k] = Horizon + 1
          BY <1>2, <4>1 DEF Inv, AccessInvariant, ProviderInvariant
        <5> QED
          BY <1>2, <5>1
      <4> QED
        BY <4>1
    <3> QED
      BY <1>1, <1>2, <2>2, <3>1, <3>2 DEF CacheInvariant
  <2>3. CASE Missed
    <3>1. misses' # 0
      BY <1>2, <2>3
    <3> QED
      BY <1>1, <2>3, <3>1
         DEF Inv, AccessInvariant, CacheInvariant, CacheRefreshes, FetchesAtStart
  <2> QED
    BY <1>6, <2>1, <2>2, <2>3
<1>10. ProviderInvariant' /\ (\A c \in issued' : Genuine(c)') /\ IsFiniteSet(issued')
  BY <1>1 DEF Inv, AccessInvariant, ProviderInvariant, Genuine
<1> QED
  BY <1>7, <1>8, <1>9, <1>10 DEF Inv, AccessInvariant
-----------------------------------------------------------------------------
(* When an answer is done with, nothing is promised any more.              *)
LEMMA NothingLater == ASSUME answer' = NoAnswer PROVE Promises'
<1>1. ~Ran' /\ ~WithToken'
  BY DEF Ran, WithToken, NoAnswer
<1> QED
  BY <1>1 DEF Promises, RunsAsGranted, WithdrawnKeysExpire, RotationLocksNobodyOut,
              OwnCredentialsLast

(* Every step keeps the invariant, and makes good on its answer.           *)
LEMMA NextInv == Inv /\ Promises /\ [Next]_vars => Inv' /\ Promises'
<1> SUFFICES ASSUME Inv, Promises, [Next]_vars PROVE Inv' /\ Promises'
  OBVIOUS
<1>1. ASSUME answer = NoAnswer, Provider PROVE Inv' /\ Promises'
  <2>1. answer' = NoAnswer
    BY <1>1 DEF Provider
  <2> QED
    BY <1>1, <2>1, ProviderPreserves, NothingLater
<1>2. ASSUME answer = NoAnswer, NEW u \in User,
             Issue(u) \/ SignAccessToken(u) \/ SignedElsewhere(u) \/ BuildAndSignAPIKey(u)
      PROVE  Inv' /\ Promises'
  <2>1. answer' = NoAnswer
    BY <1>2 DEF Issue, SignAccessToken, SignedElsewhere, BuildAndSignAPIKey, Circulates
  <2> QED
    BY <1>2, <2>1, SigningPreserves, NothingLater
<1>3. ASSUME answer = NoAnswer, NEW c \in issued, Forget(c) PROVE Inv' /\ Promises'
  <2>1. answer' = NoAnswer
    BY <1>3 DEF Forget
  <2> QED
    BY <1>3, <2>1, ForgetPreserves, NothingLater
<1>4. ASSUME answer = NoAnswer, Start \/ Stop \/ Refresh \/ Tick PROVE Inv' /\ Promises'
  <2>1. answer' = NoAnswer
    BY <1>4 DEF Start, Stop, Refresh, Tick
  <2> QED
    BY <1>4, <2>1, ServicePreserves, NothingLater
<1>5. CASE Serve
  BY <1>5, ServePreserves
<1>6. CASE Done
  <2>1. answer' = NoAnswer /\ answer'.status = "none"
    BY <1>6 DEF Done, NoAnswer
  <2>2. Inv'
    BY <1>6, <2>1 DEF Done, idpvars, servicevars, Inv, TypeOK, AccessInvariant,
       ProviderInvariant, Genuine, CacheInvariant, CacheRefreshes, FetchesAtStart, Behind
  <2> QED
    BY <2>1, <2>2, NothingLater
<1>7. CASE UNCHANGED vars
  <2>1. UNCHANGED <<scheme, published, signer, since, until, own, up, jwks, due, issued,
                    answer, clock, misses>>
    BY <1>7 DEF vars, idpvars, servicevars
  <2>2. Inv'
    BY <2>1 DEF Inv, TypeOK, AccessInvariant,
       ProviderInvariant, Genuine, CacheInvariant, CacheRefreshes, FetchesAtStart, Behind
  <2>3. Promises'
    BY <2>1 DEF Promises, RunsAsGranted, WithdrawnKeysExpire, RotationLocksNobodyOut,
                OwnCredentialsLast, Ran, Used, WithToken, Presented
  <2> QED
    BY <2>2, <2>3
<1> QED
  BY <1>1, <1>2, <1>3, <1>4, <1>5, <1>6, <1>7 DEF Next

(* So they hold of every reachable state.                                  *)
LEMMA Invariance == Spec => [](Inv /\ Promises)
<1>1. Init => Inv /\ Promises
  BY InitInv, NothingPromised
<1> QED
  BY <1>1, NextInv, PTL DEF Spec

(* The types.                                                              *)
THEOREM TypeCorrect == Spec => []TypeOK
<1>1. Inv /\ Promises => TypeOK
  BY DEF Inv
<1> QED
  BY <1>1, Invariance, PTL

(* Whoever's credential it is, and whatever it was made for: a handler     *)
(* runs as its owner, for what the owner may do, or as nobody where that   *)
(* is open.                                                                *)
THEOREM HandlersRunAsGranted == Spec => []RunsAsGranted
<1>1. Inv /\ Promises => RunsAsGranted
  BY DEF Promises
<1> QED
  BY <1>1, Invariance, PTL

(* A withdrawn key of the provider is trusted for an interval at most,     *)
(* however often the provider rotates its keys and the service restarts.   *)
THEOREM WithdrawnKeysAreDistrusted == Spec => []WithdrawnKeysExpire
<1>1. Inv /\ Promises => WithdrawnKeysExpire
  BY DEF Promises
<1> QED
  BY <1>1, Invariance, PTL

(* A token under a published key is never turned away for its signature.   *)
THEOREM NobodyIsLockedOut == Spec => []RotationLocksNobodyOut
<1>1. Inv /\ Promises => RotationLocksNobodyOut
  BY DEF Promises
<1> QED
  BY <1>1, Invariance, PTL

(* The service's own credentials last as long as their key is configured.  *)
THEOREM OwnKeysDecide == Spec => []OwnCredentialsLast
<1>1. Inv /\ Promises => OwnCredentialsLast
  BY DEF Promises
<1> QED
  BY <1>1, Invariance, PTL
=============================================================================
