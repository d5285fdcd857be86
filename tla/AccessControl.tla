---------------------------- MODULE AccessControl ----------------------------
(***************************************************************************)
(* The three ways in which this code lets a request through to a handler:  *)
(* stdcrpcauthfx, stdcrpcaccess and stdauthnfx.  A service has one of them *)
(* and lives next to an identity provider that rotates its keys, which the *)
(* service knows from a cache of the provider's JWKS; the last two also    *)
(* sign credentials with keys of their own.  The JWT and JWKS libraries    *)
(* are external: a signature verifies under the key that made it, and the  *)
(* cache fetches once in every interval, by which the clock counts.        *)
(***************************************************************************)
EXTENDS Naturals, FiniteSets

CONSTANTS
    IdpKey,         \* keys of the identity provider
    OwnKey,         \* keys of the service, and of services like it
    User,
    Method,         \* RPC procedures
    Unannotated,    \* procedures without the scope extension
    ByScope,        \* ByScope[u]: procedures u may call by the scope claim
    ByPermission,   \* ByPermission[u]: and those by the permissions claim
    Anonymous,      \* procedures open to requests without a credential
    Lifetime,       \* of the provider's tokens
    Horizon,        \* bound: the last reading of the clock
    MaxCredentials, \* bound: credentials in circulation at a time
    MaxMisses       \* bound: fetches of the JWKS that fail

ASSUME AccessControlAssumption ==
    /\ IdpKey # {} /\ OwnKey # {} /\ IdpKey \cap OwnKey = {}
    /\ "not fetched" \notin IdpKey
    /\ Unannotated \cup Anonymous \subseteq Method
    /\ ByScope \in [User -> SUBSET Method]
    /\ ByPermission \in [User -> SUBSET Method]
    /\ Lifetime \in Nat \ {0}
    /\ Horizon \in Nat /\ MaxCredentials \in Nat /\ MaxMisses \in Nat

VARIABLES
    scheme,     \* which of the three the service uses
    published,  \* the provider's JWKS
    signer,     \* the key the provider signs with
    since,      \* since[k]: when k was published
    until,      \* until[k]: when k was withdrawn
    own,        \* the service's signing key set and the key it signs with
    up,         \* the service is serving
    jwks,       \* the set in its cache, or NotFetched
    due,        \* the cache has yet to fetch in this interval
    issued,     \* credentials in circulation
    answer,     \* what became of the last request
    clock, misses

idpvars == <<published, signer, since, until>>
servicevars == <<own, up, jwks, due>>
vars == <<scheme, idpvars, servicevars, issued, answer, clock, misses>>

Scheme == {"crpcauth", "crpcaccess", "authn"}
Audience == {"us", "others"}
Issuer == {"provider", "service"}
NotFetched == {"not fetched"}
NotAProcedure == "not a procedure"
Nobody == "nobody"
Never == Horizon + Lifetime + 1

Credential ==
    [kind : {"token"}, key : IdpKey \cup OwnKey, iss : Issuer, aud : Audience,
     exp : 0 .. Never, sub : User]
    \cup
    [kind : {"api key"}, key : OwnKey, sub : User]

(* No header, one that is no bearer's, and a bearer of nonsense.           *)
NoCredential == [kind |-> "none"]
Basic == [kind |-> "basic"]
Malformed == [kind |-> "malformed"]
NoAnswer == [status |-> "none"]

TypeOK ==
    /\ scheme \in Scheme
    /\ published \subseteq IdpKey /\ signer \in published
    /\ since \in [IdpKey -> 0 .. Horizon + 1]
    /\ until \in [IdpKey -> 0 .. Horizon + 1]
    /\ own.set \subseteq OwnKey /\ own.id \in own.set
    /\ up \in BOOLEAN /\ due \in BOOLEAN
    /\ jwks = NotFetched \/ jwks \subseteq IdpKey
    /\ issued \subseteq Credential /\ Cardinality(issued) <= MaxCredentials
    /\ answer.status \in {"none", "run", "unauthenticated", "denied", "error"}
    /\ clock \in 0 .. Horizon
    /\ misses \in 0 .. MaxMisses

(* The provider's first key has been known for as long as anyone remembers.*)
Init ==
    /\ scheme \in Scheme
    /\ \E k \in IdpKey : published = {k} /\ signer = k
    /\ since = [k \in IdpKey |-> 0] /\ until = [k \in IdpKey |-> Horizon + 1]
    /\ \E k \in OwnKey : own = [set |-> {k}, id |-> k]
    /\ up = FALSE /\ due = FALSE
    /\ jwks = NotFetched
    /\ issued = {}
    /\ answer = NoAnswer
    /\ clock = 0 /\ misses = 0
-----------------------------------------------------------------------------
(* The provider publishes a key for an interval before it signs with it.   *)
Publish(k) ==
    /\ k \notin published /\ until[k] = Horizon + 1
    /\ published' = published \cup {k}
    /\ since' = [since EXCEPT ![k] = clock]
    /\ UNCHANGED <<signer, until>>

SignWith(k) ==
    /\ k \in published \ {signer}
    /\ clock > since[k] + 1
    /\ signer' = k
    /\ UNCHANGED <<published, since, until>>

Withdraw(k) ==
    /\ k \in published \ {signer}
    /\ published' = published \ {k}
    /\ until' = [until EXCEPT ![k] = clock]
    /\ UNCHANGED <<signer, since>>

Provider ==
    /\ \E k \in IdpKey : Publish(k) \/ SignWith(k) \/ Withdraw(k)
    /\ UNCHANGED <<scheme, servicevars, issued, answer, clock, misses>>

(* Tokens of the provider, for this service or another.                    *)
Token(k, i, a, e, u) ==
    [kind |-> "token", key |-> k, iss |-> i, aud |-> a, exp |-> e, sub |-> u]

Circulates(c) ==
    /\ Cardinality(issued \cup {c}) <= MaxCredentials
    /\ issued' = issued \cup {c}
    /\ UNCHANGED <<scheme, idpvars, servicevars, answer, clock, misses>>

Issue(u) == \E a \in Audience : Circulates(Token(signer, "provider", a, clock + Lifetime, u))

(* stdcrpcaccess.SignAccessToken: audience and issuer are overwritten with *)
(* what is configured, no expiry is set.                                   *)
SignAccessToken(u) ==
    /\ scheme = "crpcaccess" /\ up
    /\ Circulates(Token(own.id, "service", "us", Never, u))

(* One that another service has signed for itself.                         *)
SignedElsewhere(u) ==
    \E k \in OwnKey \ own.set : Circulates(Token(k, "service", "others", Never, u))

BuildAndSignAPIKey(u) ==
    /\ scheme = "authn" /\ up
    /\ Circulates([kind |-> "api key", key |-> own.id, sub |-> u])

Forget(c) ==
    /\ issued' = issued \ {c}
    /\ UNCHANGED <<scheme, idpvars, servicevars, answer, clock, misses>>
-----------------------------------------------------------------------------
(* stdcrpcaccess looks the provider up when it first needs to; the others  *)
(* do not start without its keys.                                          *)
FetchesAtStart == scheme # "crpcaccess"

(* The signing key must be in the configured set.                          *)
Configured(S, k) == k \in S

(* Without these, or without the provider's keys, it does not start.       *)
Start ==
    /\ ~up
    /\ \E S \in SUBSET OwnKey, k \in OwnKey :
        Configured(S, k) /\ own' = [set |-> S, id |-> k]
    /\ up' = TRUE
    /\ jwks' = IF FetchesAtStart THEN published ELSE NotFetched
    /\ due' = FALSE
    /\ UNCHANGED <<scheme, idpvars, issued, answer, clock, misses>>

Stop ==
    /\ up
    /\ up' = FALSE /\ due' = FALSE
    /\ jwks' = NotFetched
    /\ UNCHANGED <<own, scheme, idpvars, issued, answer, clock, misses>>

(* Mutant: the cache is given the context of the start hook.               *)
RefreshesWhileStarting == FALSE

(* The cache lives on a context of its own until the service stops.        *)
CacheRefreshes == up /\ jwks # NotFetched

Refresh ==
    /\ CacheRefreshes /\ due
    /\ \/ jwks' = published /\ UNCHANGED misses
       \/ misses < MaxMisses /\ misses' = misses + 1 /\ UNCHANGED jwks
    /\ due' = FALSE
    /\ UNCHANGED <<own, up, scheme, idpvars, issued, answer, clock>>

Tick ==
    /\ clock < Horizon
    /\ ~(CacheRefreshes /\ due)
    /\ clock' = clock + 1
    /\ due' = (up /\ jwks # NotFetched)
    /\ UNCHANGED <<own, up, jwks, scheme, idpvars, issued, answer, misses>>
-----------------------------------------------------------------------------
Verified(c, keys) == c.kind = "token" /\ c.key \in keys

(* Mutants: the audience is not checked; permissions are not scopes; only  *)
(* the current key of the service is accepted.                             *)
ValidatedForAnyone(c, issuers) == c.iss \in issuers /\ clock < c.exp

Validated(c, issuers) == c.iss \in issuers /\ c.aud = "us" /\ clock < c.exp

ScopesOnly(u) == ByScope[u]

Scopes(u) == ByScope[u] \cup ByPermission[u]

CurrentKeyOnly == {own.id}

AcceptedKeys == own.set

Answer(status, r, who) == [status |-> status, request |-> r, who |-> who]
Refused(status, r) == Answer(status, r, Nobody)

(* stdcrpcauthfx.Wrap: authenticate, then the scope of the procedure; a    *)
(* path that names no procedure is only authenticated.                     *)
WrapByScope(r) ==
    LET c == r.authorization
    IN  IF ~(Verified(c, jwks) /\ Validated(c, {"provider"}))
        THEN Refused("unauthenticated", r)
        ELSE IF r.procedure = NotAProcedure THEN Answer("run", r, c.sub)
        ELSE IF r.procedure \in Unannotated THEN Refused("error", r)
        ELSE IF r.procedure \notin Scopes(c.sub) THEN Refused("denied", r)
        ELSE Answer("run", r, c.sub)

(* stdcrpcaccess: checkAuthZ of what the procedure permissions allow.      *)
CheckAuthZ(r, who, allowed) ==
    IF r.procedure \in allowed THEN Answer("run", r, who) ELSE Refused("denied", r)

(* What a proxy has put into a header of its own replaces the client's.    *)
Presented(r) == IF r.proxied.kind = "none" THEN r.authorization ELSE r.proxied
IsBearer(c) == c.kind \notin {"none", "basic"}

(* A JWKS that cannot be had is an error, also for the service's own       *)
(* tokens; Logic permits by scopes, and anonymous callers what is open.    *)
WrapByPermission(r, keys) ==
    LET c == Presented(r)
    IN  IF ~IsBearer(c) THEN CheckAuthZ(r, Nobody, Anonymous)
        ELSE IF keys = NotFetched THEN Refused("error", r)
        ELSE IF Verified(c, keys \cup AcceptedKeys) /\ Validated(c, Issuer)
             THEN CheckAuthZ(r, c.sub, Scopes(c.sub))
        ELSE Refused("unauthenticated", r)

(* stdauthnfx.Authenticate, as its interceptors call it.                   *)
Authenticate(r) ==
    LET c == r.authorization
        accepted ==
            \/ c.kind = "none" /\ r.procedure \in Anonymous
            \/ c.kind = "api key" /\ c.key \in AcceptedKeys
            \/ Verified(c, jwks) /\ Validated(c, {"provider"})
    IN  IF ~accepted THEN Refused("unauthenticated", r)
        ELSE Answer("run", r, IF c.kind = "none" THEN Nobody ELSE c.sub)

(* Requests reach the interceptors of stdauthnfx for procedures only.      *)
Request ==
    [authorization : issued \cup {NoCredential, Basic, Malformed},
     proxied : IF scheme = "crpcaccess" THEN issued \cup {NoCredential, Malformed}
                                        ELSE {NoCredential},
     procedure : IF scheme = "authn" THEN Method ELSE Method \cup {NotAProcedure}]

Serve ==
    /\ up /\ answer = NoAnswer
    /\ \E r \in Request :
        CASE scheme = "crpcauth" -> answer' = WrapByScope(r) /\ UNCHANGED <<jwks, misses>>
          [] scheme = "authn" -> answer' = Authenticate(r) /\ UNCHANGED <<jwks, misses>>
          [] OTHER ->
              IF IsBearer(Presented(r)) /\ jwks = NotFetched
              THEN \/ /\ jwks' = published
                      /\ answer' = WrapByPermission(r, published)
                      /\ UNCHANGED misses
                   \/ /\ misses < MaxMisses /\ misses' = misses + 1
                      /\ answer' = WrapByPermission(r, NotFetched)
                      /\ UNCHANGED jwks
              ELSE answer' = WrapByPermission(r, jwks) /\ UNCHANGED <<jwks, misses>>
    /\ UNCHANGED <<own, up, due, scheme, idpvars, issued, clock>>

Done ==
    /\ answer # NoAnswer
    /\ answer' = NoAnswer
    /\ UNCHANGED <<scheme, idpvars, servicevars, issued, clock, misses>>

Next ==
    \/ answer = NoAnswer /\ Provider
    \/ answer = NoAnswer /\ \E u \in User : 
          Issue(u) \/ SignAccessToken(u) \/ SignedElsewhere(u) \/ BuildAndSignAPIKey(u)
    \/ answer = NoAnswer /\ \E c \in issued : Forget(c)
    \/ answer = NoAnswer /\ (Start \/ Stop \/ Refresh \/ Tick)
    \/ Serve \/ Done

Spec == Init /\ [][Next]_vars
-----------------------------------------------------------------------------
Used == Presented(answer.request)
Ran == answer.status = "run"
WithToken == answer # NoAnswer /\ Used.kind = "token"

(* A handler runs for whom the credential was issued to and only for what  *)
(* that one is allowed, or for nobody where that is allowed; a credential  *)
(* made for another service gets nowhere, whoever signed it                *)
(* (access_control.go:144, auth.go:193, authenticate.go:18).               *)
RunsAsGranted ==
    Ran => /\ IF Used.kind \notin {"token", "api key"}
              THEN answer.who = Nobody /\ answer.request.procedure \in Anonymous
              ELSE answer.who = Used.sub
           /\ Used.kind = "token" => Used.aud = "us" /\ clock < Used.exp
           /\ scheme # "authn" /\ answer.who # Nobody
              /\ answer.request.procedure # NotAProcedure
              => answer.request.procedure \in
                    ByScope[answer.who] \cup ByPermission[answer.who]

(* A key that the provider has withdrawn is trusted for an interval at     *)
(* most, as long as its JWKS can be fetched: the cache goes on refreshing  *)
(* after the service has started (access_control.go:162-171).              *)
WithdrawnKeysExpire ==
    Ran /\ WithToken /\ misses = 0 /\ Used.key \in IdpKey => clock <= until[Used.key] + 1

(* Rotating keys locks nobody out: a token the provider has issued for     *)
(* this service is refused only for what its owner may do, while it lasts  *)
(* and its key is published, whatever the service had cached when it       *)
(* started or first looked (access_control.go:212, auth.go:132).           *)
RotationLocksNobodyOut ==
    WithToken /\ misses = 0 /\ Used.key \in published
        /\ Used.iss = "provider" /\ Used.aud = "us" /\ clock < Used.exp
    => /\ answer.status # "unauthenticated"
       /\ answer.request.procedure \in
            (ByScope[Used.sub] \cup ByPermission[Used.sub]) \ Unannotated => Ran

(* What the service has signed works across restarts for as long as its    *)
(* key is configured, and no longer (api_key.go:64, auth.go:143).          *)
OwnCredentialsLast ==
    answer # NoAnswer /\ misses = 0 =>
        /\ Used.kind = "api key" => (Ran <=> Used.key \in own.set)
        /\ Used.kind = "token" /\ Used.iss = "service" /\ Used.aud = "us" =>
            (answer.status # "unauthenticated" <=> Used.key \in own.set)
-----------------------------------------------------------------------------
(* Why these hold: keys are published and withdrawn once.                  *)
ProviderInvariant ==
    \A k \in IdpKey :
        /\ since[k] <= clock
        /\ until[k] <= clock \/ until[k] = Horizon + 1
        /\ k \in published => until[k] = Horizon + 1

(* Nobody but the provider signs with its keys, and the service what its   *)
(* scheme signs.                                                           *)
Genuine(c) ==
    /\ c.kind = "token" =>
         IF c.key \in IdpKey
         THEN c.iss = "provider" /\ (c.key \in published \/ until[c.key] <= clock)
         ELSE c.iss = "service" /\ c.exp = Never /\ (c.aud = "us" => scheme = "crpcaccess")
    /\ c.kind = "api key" => scheme = "authn"

(* The cache is an interval behind at most: what it has and the provider   *)
(* no longer was withdrawn in that time, what it lacks was published in it,*)
(* and nothing in circulation was signed with that yet.                    *)
Behind == IF due THEN 1 ELSE 0

CacheInvariant ==
    /\ due \/ (up /\ FetchesAtStart) => CacheRefreshes
    /\ ~up => jwks = NotFetched
    /\ misses = 0 /\ jwks # NotFetched =>
         /\ \A k \in jwks : clock <= until[k] + Behind
         /\ \A k \in published \ jwks : clock <= since[k] + Behind
         /\ signer \in jwks
         /\ \A c \in issued : c.key \in published => c.key \in jwks

AccessInvariant ==
    /\ IsFiniteSet(issued)
    /\ ProviderInvariant
    /\ \A c \in issued : Genuine(c)
    /\ CacheInvariant
=============================================================================
