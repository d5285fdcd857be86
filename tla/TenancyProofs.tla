--------------------------- MODULE TenancyProofs ---------------------------
(***************************************************************************)
(* Proofs about Tenancy, for any number of requests, callers, connections, *)
(* nested and abandoned calls, retries and activities, when role and       *)
(* claims are both propagated.                                             *)
(*                                                                         *)
(* Contexts flow from call to call; BelongingStays is why a step leaves    *)
(* those that are about alone.  Sessions change hands; SessionsStay is     *)
(* what a step must leave alone for a session that it does not touch.      *)
(***************************************************************************)
EXTENDS Tenancy, TLAPS

LEMMA Retries == MaxRetries \in Nat
BY TenancyAssumption

LEMMA CallersAreNamed == \A r \in Request : CallerOf[r] # ""
BY Zenon, TenancyAssumption

USE Retries
USE DEF TenantIDFromContext, SubjectFromContext, ContextWithManagedTx

Sound == TypeOK /\ TenancyInvariant

MarkerGuardedAt(k) ==
    /\ HasRun(k) /\ ctx[k].managed => ctx[k].tx # NoTx
    /\ entry[k] = "direct" /\ stage[k] \in {"opening", "setup"} => ~given[k].managed
    /\ entry[k] = "direct" /\ stage[k] = "running" => ctx[k].tx # Own(k)

LEMMA OwnIsTx ==
    ASSUME TypeOK, NEW k \in Call
    PROVE  Own(k) \in Tx /\ Own(k) = <<k, attempt[k]>>
BY DEF TypeOK, Own, Tx

(* Of the contexts of call j.                                              *)
Belongs(j) == BelongsTo(given[j], origin[j]) /\ BelongsTo(ctx[j], origin[j])

(* What belongs to a request goes on to: no call becomes new, changes its  *)
(* request or takes back an attempt or a posture.  So a call has what      *)
(* belongs to its request after a step if it gets what did before it.      *)
LEMMA BelongingStays ==
    ASSUME TypeOK, TypeOK',
           \A k \in Call : stage[k] # "new" =>
               /\ stage'[k] # "new"
               /\ origin'[k] = origin[k]
               /\ \/ attempt'[k] = attempt[k] /\ (HasRun(k) => HasRun(k)')
                  \/ attempt'[k] = attempt[k] + 1
    PROVE  \A j \in Call : \A c, d, r :
               /\ given'[j] = c /\ ctx'[j] = d /\ origin'[j] = r
               /\ BelongsTo(c, r) /\ BelongsTo(d, r)
               => Belongs(j)'
<1>1. ASSUME NEW c, NEW r, BelongsTo(c, r)
      PROVE  /\ c.claims = CallerOf[r]
             /\ RoleOf[r] # "none" => c.role = RoleOf[r]
             /\ \A k \in Call, n \in 1 .. MaxRetries + 1 : c.tx = <<k, n>> =>
                  /\ origin'[k] = r
                  /\ stage'[k] # "new"
                  /\ n <= attempt'[k]
                  /\ n = attempt'[k] => HasRun(k)'
  <2>1. ASSUME NEW k \in Call, NEW n \in 1 .. MaxRetries + 1, c.tx = <<k, n>>
        PROVE  /\ origin'[k] = r
               /\ stage'[k] # "new"
               /\ n <= attempt'[k]
               /\ n = attempt'[k] => HasRun(k)'
    <3>1. /\ origin[k] = r /\ stage[k] # "new" /\ n <= attempt[k]
          /\ n = attempt[k] => HasRun(k)
      BY <1>1, <2>1 DEF BelongsTo, HasRun
    <3>2. attempt[k] \in Nat /\ n \in Nat
      BY DEF TypeOK
    <3> QED
      BY <3>1, <3>2 DEF HasRun
  <2> QED
    BY <1>1, <2>1 DEF BelongsTo, HasRun
<1>2. ASSUME NEW j \in Call, NEW c, NEW d, NEW r,
             given'[j] = c, ctx'[j] = d, origin'[j] = r, BelongsTo(c, r), BelongsTo(d, r)
      PROVE  Belongs(j)'
  <2>1. BelongsTo(given[j], origin[j])'
    BY <1>1, <1>2 DEF BelongsTo, HasRun
  <2>2. BelongsTo(ctx[j], origin[j])'
    BY <1>1, <1>2 DEF BelongsTo, HasRun
  <2> QED
    BY <2>1, <2>2 DEF Belongs
<1> QED
  BY <1>2

(* What a session must keep to stay posed: it is left alone, and so is the *)
(* call whose transaction it has; or it has become idle and clean.         *)
LEMMA SessionsStay ==
    ASSUME SessionsPosed,
           \A s \in Session :
               \/ session'[s] = session[s]
               \/ session'[s].tx = NoTx /\ Clean(session'[s]),
           \A s \in Session, k \in Call, n \in 1 .. MaxRetries + 1 :
               session'[s].tx = <<k, n>> =>
                   /\ stage'[k] = stage[k] /\ attempt'[k] = attempt[k]
                   /\ ctx'[k].tx = ctx[k].tx /\ given'[k] = given[k]
    PROVE  SessionsPosed'
<1> SUFFICES ASSUME NEW s \in Session
             PROVE  /\ session'[s].tx = NoTx => Clean(session'[s])
                    /\ \A k \in Call, n \in 1 .. MaxRetries + 1 : session'[s].tx = <<k, n>> =>
                         /\ n = attempt'[k]
                         /\ \A u \in Session : session'[u].tx = <<k, n>> => u = s
                         /\ \/ stage'[k] = "setup" /\ Clean(session'[s])
                            \/ /\ stage'[k] = "running" /\ ctx'[k].tx = <<k, n>>
                               /\ PosedFor(session'[s], given'[k])
  BY DEF SessionsPosed, Idle
<1>1. session'[s].tx = NoTx => Clean(session'[s])
  BY DEF SessionsPosed, Idle
<1>2. ASSUME NEW k \in Call, NEW n \in 1 .. MaxRetries + 1, session'[s].tx = <<k, n>>
      PROVE  /\ n = attempt'[k]
             /\ \A u \in Session : session'[u].tx = <<k, n>> => u = s
             /\ \/ stage'[k] = "setup" /\ Clean(session'[s])
                \/ /\ stage'[k] = "running" /\ ctx'[k].tx = <<k, n>>
                   /\ PosedFor(session'[s], given'[k])
  <2>1. \A u \in Session : session'[u].tx = <<k, n>> => session'[u] = session[u]
    <3>1. NoTx # <<k, n>>
      BY DEF NoTx
    <3> QED
      BY <3>1
  <2>2. session[s].tx = <<k, n>> /\ session'[s] = session[s]
    BY <1>2, <2>1
  <2>3. /\ n = attempt[k]
        /\ \A u \in Session : session[u].tx = <<k, n>> => u = s
        /\ \/ stage[k] = "setup" /\ Clean(session[s])
           \/ /\ stage[k] = "running" /\ ctx[k].tx = <<k, n>>
              /\ PosedFor(session[s], given[k])
    BY <2>2 DEF SessionsPosed
  <2> QED
    BY <1>2, <2>1, <2>2, <2>3
<1> QED
  BY <1>1, <1>2

(* Ending a transaction takes it off the sessions, which are clean again.  *)
LEMMA EndTxStep ==
    ASSUME TypeOK, NEW t \in Tx, EndTx(t)
    PROVE  /\ session' \in [Session -> SessionState]
           /\ \A s \in Session :
                /\ session'[s].tx # t
                /\ \/ session'[s] = session[s]
                   \/ session'[s].tx = NoTx /\ Clean(session'[s])
<1>1. NoTx # t
  BY DEF Tx, NoTx
<1> QED
  BY <1>1 DEF EndTx, Released, AfterReset, Clean, Reset, TypeOK, SessionState
-----------------------------------------------------------------------------
(* The first steps.                                                        *)
LEMMA InitSound == Init => Sound
<1> SUFFICES ASSUME Init PROVE Sound
  OBVIOUS
<1>1. \A k \in Call : stage[k] = "new"
  BY DEF Init
<1>2. Background \in Context
  BY DEF Background, Context, Role, Posture, Caller
<1>3. \A s \in Session :
          session[s].tx = NoTx /\ Clean(session[s]) /\ session[s] \in SessionState
  BY DEF Init, Connected, SessionState, Clean, Reset
<1>4. TypeOK
  <2>1. (CHOOSE r \in Request : TRUE) \in Request
    BY TenancyAssumption
  <2>2. stage \in [Call -> Stage] /\ entry \in [Call -> {"body", "managed", "direct"}]
    BY DEF Init, Stage
  <2>3. given \in [Call -> Context] /\ ctx \in [Call -> Context]
    BY <1>2 DEF Init
  <2>4. attempt \in [Call -> 1 .. MaxRetries + 1]
    BY DEF Init
  <2>5. origin \in [Call -> Request]
    BY <2>1, Zenon DEF Init
  <2>6. session \in [Session -> SessionState] /\ headers \subseteq Header
    BY <1>3 DEF Init
  <2> QED
    BY <2>2, <2>3, <2>4, <2>5, <2>6 DEF TypeOK
<1>5. SessionsPosed
  <2>1. \A k \in Call, n \in 1 .. MaxRetries + 1 : NoTx # <<k, n>>
    BY DEF NoTx
  <2> QED
    BY <1>3, <2>1 DEF SessionsPosed, Idle
<1>6. ContextsBelong /\ MarkerGuarded
  BY <1>1 DEF ContextsBelong, MarkerGuarded, HasRun
<1>7. HeadersBelong
  BY DEF Init, HeadersBelong
<1> QED
  BY <1>4, <1>5, <1>6, <1>7 DEF Sound, TenancyInvariant

(* Entering a call with a context that belongs to its request.             *)
LEMMA EnterSound ==
    ASSUME Sound, NEW k \in Call, NEW how \in {"body", "managed", "direct"},
           NEW context \in Context, NEW to \in {"opening", "running", "failed"},
           NEW r \in Request,
           Enter(k, how, context, to, r),
           BelongsTo(context, r),
           to = "running" => (context.managed => context.tx # NoTx),
           to = "opening" => (how = "direct" => ~context.managed)
    PROVE  Sound'
<1>1. TypeOK'
  BY DEF Sound, Enter, TypeOK, Stage
<1>2. /\ stage[k] = "new" /\ stage'[k] = to /\ entry'[k] = how /\ given'[k] = context
      /\ ctx'[k] = context /\ origin'[k] = r /\ attempt' = attempt
      /\ session' = session /\ headers' = headers
      /\ \A j \in Call \ {k} :
           /\ stage'[j] = stage[j] /\ entry'[j] = entry[j] /\ given'[j] = given[j]
           /\ ctx'[j] = ctx[j] /\ origin'[j] = origin[j]
  BY DEF Sound, Enter, TypeOK
<1>3. \A j \in Call : \A c, d, q :
          /\ given'[j] = c /\ ctx'[j] = d /\ origin'[j] = q
          /\ BelongsTo(c, q) /\ BelongsTo(d, q)
          => Belongs(j)'
  BY <1>1, <1>2, BelongingStays DEF Sound, HasRun
<1>4. ContextsBelong'
  <2> SUFFICES ASSUME NEW j \in Call, stage'[j] # "new"
               PROVE  Belongs(j)'
    BY DEF ContextsBelong, Belongs
  <2>1. CASE j = k
    BY <2>1, <1>2, <1>3
  <2>2. CASE j # k
    <3>1. BelongsTo(given[j], origin[j]) /\ BelongsTo(ctx[j], origin[j])
      BY <2>2, <1>2 DEF Sound, TenancyInvariant, ContextsBelong
    <3> QED
      BY <2>2, <3>1, <1>2, <1>3
  <2> QED
    BY <2>1, <2>2
<1>5. HeadersBelong'
  BY <1>2 DEF Sound, TenancyInvariant, HeadersBelong
<1>6. MarkerGuarded'
  <2> SUFFICES ASSUME NEW j \in Call
               PROVE  MarkerGuardedAt(j)'
    BY DEF MarkerGuarded, MarkerGuardedAt
  <2>1. CASE j = k
    <3>1. context.tx # <<k, attempt[k]>>
      BY <1>2 DEF BelongsTo, Sound, TypeOK
    <3> QED
      BY <1>2, <2>1, <3>1 DEF MarkerGuardedAt, HasRun, Own
  <2>2. CASE j # k
    <3>1. MarkerGuardedAt(j)
      BY DEF Sound, TenancyInvariant, MarkerGuarded, MarkerGuardedAt
    <3> QED
      BY <1>2, <2>2, <3>1 DEF MarkerGuardedAt, HasRun, Own
  <2> QED
    BY <2>1, <2>2
<1>7. SessionsPosed'
  <2>1. ASSUME NEW s \in Session, NEW j \in Call, NEW n \in 1 .. MaxRetries + 1,
               session'[s].tx = <<j, n>>
        PROVE  /\ stage'[j] = stage[j] /\ attempt'[j] = attempt[j]
               /\ ctx'[j].tx = ctx[j].tx /\ given'[j] = given[j]
    <3>1. stage[j] \in {"setup", "running"}
      BY <1>2, <2>1 DEF Sound, TenancyInvariant, SessionsPosed
    <3> QED
      BY <3>1, <1>2
  <2> QED
    BY <1>2, <2>1, SessionsStay DEF Sound, TenancyInvariant
<1> QED
  BY <1>1, <1>4, <1>5, <1>6, <1>7 DEF Sound, TenancyInvariant
-----------------------------------------------------------------------------
(* A step that leaves given and origin alone keeps contexts with their     *)
(* requests, if the context of the function that it puts to work does.     *)
LEMMA ContextsStay ==
    ASSUME Sound, TypeOK', given' = given, origin' = origin,
           \A j \in Call :
               /\ stage[j] = "new" <=> stage'[j] = "new"
               /\ \/ attempt'[j] = attempt[j] /\ (HasRun(j) => HasRun(j)')
                  \/ attempt'[j] = attempt[j] + 1,
           \A j \in Call :
               ctx'[j] = ctx[j] \/ \E c : ctx'[j] = c /\ BelongsTo(c, origin[j])
    PROVE  ContextsBelong'
<1> SUFFICES ASSUME NEW j \in Call, stage'[j] # "new"
             PROVE  Belongs(j)'
  BY DEF ContextsBelong, Belongs
<1>1. BelongsTo(given[j], origin[j]) /\ BelongsTo(ctx[j], origin[j])
  BY DEF Sound, TenancyInvariant, ContextsBelong
<1>2. \A i \in Call : \A c, d, r :
          /\ given'[i] = c /\ ctx'[i] = d /\ origin'[i] = r
          /\ BelongsTo(c, r) /\ BelongsTo(d, r)
          => Belongs(i)'
  BY BelongingStays DEF Sound
<1> QED
  BY <1>1, <1>2

(* The session that has a call's own transaction, while its stage is still *)
(* to come: before the hook or in the function.                            *)
LEMMA OwnSession ==
    ASSUME Sound, NEW k \in Call, NEW s \in Session, session[s].tx = Own(k)
    PROVE  /\ \A u \in Session : session[u].tx = Own(k) => u = s
           /\ \/ stage[k] = "setup" /\ Clean(session[s])
              \/ /\ stage[k] = "running" /\ ctx[k].tx = Own(k)
                 /\ PosedFor(session[s], given[k])
<1>1. attempt[k] \in 1 .. MaxRetries + 1 /\ Own(k) = <<k, attempt[k]>>
  BY DEF Sound, TypeOK, Own
<1> QED
  BY <1>1 DEF Sound, TenancyInvariant, SessionsPosed

(* Whoever's transaction a session has is at work.                         *)
LEMMA Owner ==
    ASSUME Sound, NEW s \in Session, NEW j \in Call, NEW n \in 1 .. MaxRetries + 1,
           session[s].tx = <<j, n>>
    PROVE  /\ n = attempt[j] /\ session[s].tx = Own(j)
           /\ stage[j] \in {"setup", "running"}
BY DEF Sound, TenancyInvariant, SessionsPosed, Own

LEMMA WithDatabaseRoleSound ==
    ASSUME Sound, NEW k \in Call, NEW role \in Stampable, WithDatabaseRole(k, role)
    PROVE  Sound'
<1>1. role \in Role
  BY TenancyAssumption DEF Role
<1>2. /\ stage[k] = "running" /\ ctx[k].role = "none"
      /\ UNCHANGED <<stage, entry, given, attempt, origin, session, headers>>
      /\ ctx'[k] = [ctx[k] EXCEPT !.role = role]
      /\ \A j \in Call \ {k} : ctx'[j] = ctx[j]
  BY DEF WithDatabaseRole, Sound, TypeOK
<1>3. TypeOK'
  BY <1>1 DEF WithDatabaseRole, Sound, TypeOK, Context
<1>4. ctx[k] \in Context
  BY DEF Sound, TypeOK
<1>5. /\ ctx'[k].tx = ctx[k].tx /\ ctx'[k].claims = ctx[k].claims
      /\ ctx'[k].managed = ctx[k].managed
  BY <1>2, <1>4 DEF Context
<1>6. BelongsTo([ctx[k] EXCEPT !.role = role], origin[k])
  <2>1. BelongsTo(ctx[k], origin[k])
    BY <1>2 DEF Sound, TenancyInvariant, ContextsBelong
  <2> QED
    BY <1>2, <1>4, <2>1 DEF BelongsTo, Context
<1>7. ContextsBelong'
  BY <1>2, <1>3, <1>6, ContextsStay DEF HasRun
<1>8. HeadersBelong'
  BY <1>2 DEF Sound, TenancyInvariant, HeadersBelong
<1>9. MarkerGuarded'
  <2> SUFFICES ASSUME NEW j \in Call
               PROVE  MarkerGuardedAt(j)'
    BY DEF MarkerGuarded, MarkerGuardedAt
  <2>1. MarkerGuardedAt(j)
    BY DEF Sound, TenancyInvariant, MarkerGuarded, MarkerGuardedAt
  <2> QED
    BY <1>2, <1>5, <2>1 DEF MarkerGuardedAt, HasRun, Own
<1>10. SessionsPosed'
  BY <1>2, <1>5, SessionsStay DEF Sound, TenancyInvariant
<1> QED
  BY <1>3, <1>7, <1>8, <1>9, <1>10 DEF Sound, TenancyInvariant

(* A step that takes the transaction of call k, if it has one, off the     *)
(* sessions and leaves the sessions of the others alone.                   *)
LEMMA EndTxSound ==
    ASSUME Sound, NEW k \in Call, EndTx(Own(k)),
           \A j \in Call \ {k} :
               /\ stage'[j] = stage[j] /\ attempt'[j] = attempt[j]
               /\ ctx'[j].tx = ctx[j].tx /\ given'[j] = given[j]
    PROVE  session' \in [Session -> SessionState] /\ SessionsPosed'
<1>1. Own(k) \in Tx
  BY OwnIsTx DEF Sound
<1>2. /\ session' \in [Session -> SessionState]
      /\ \A s \in Session :
           /\ session'[s].tx # Own(k)
           /\ \/ session'[s] = session[s]
              \/ session'[s].tx = NoTx /\ Clean(session'[s])
  BY <1>1, EndTxStep DEF Sound
<1>3. ASSUME NEW s \in Session, NEW j \in Call, NEW n \in 1 .. MaxRetries + 1,
             session'[s].tx = <<j, n>>
      PROVE  j # k
  <2>1. NoTx # <<j, n>>
    BY DEF NoTx
  <2>2. session[s].tx = <<j, n>>
    BY <1>2, <1>3, <2>1
  <2>3. session[s].tx = Own(j)
    BY <2>2, Owner
  <2> QED
    BY <1>2, <1>3, <2>2, <2>3
<1> QED
  BY <1>2, <1>3, SessionsStay DEF Sound, TenancyInvariant

(* The steps that only move call k, from a stage and to one, leave markers *)
(* and contexts alone.                                                     *)
LEMMA GotoSound ==
    ASSUME Sound, NEW k \in Call, NEW to \in {"setup", "returned", "failed"},
           stage[k] # "new",
           HasRun(k) <=> to = "returned",
           to = "setup" => stage[k] = "opening",
           Goto(k, to), session' \in [Session -> SessionState]
    PROVE  TypeOK' /\ ContextsBelong' /\ HeadersBelong' /\ MarkerGuarded'
<1>1. TypeOK'
  BY DEF Goto, Sound, TypeOK, Stage
<1>2. /\ UNCHANGED <<entry, given, ctx, attempt, origin, headers>>
      /\ stage'[k] = to /\ \A j \in Call \ {k} : stage'[j] = stage[j]
  BY DEF Goto, Sound, TypeOK
<1>3. ContextsBelong'
  BY <1>1, <1>2, ContextsStay DEF HasRun
<1>4. HeadersBelong'
  BY <1>2 DEF Sound, TenancyInvariant, HeadersBelong
<1>5. MarkerGuarded'
  <2> SUFFICES ASSUME NEW j \in Call
               PROVE  MarkerGuardedAt(j)'
    BY DEF MarkerGuarded, MarkerGuardedAt
  <2>1. MarkerGuardedAt(j)
    BY DEF Sound, TenancyInvariant, MarkerGuarded, MarkerGuardedAt
  <2> QED
    BY <1>2, <2>1 DEF MarkerGuardedAt, HasRun, Own
<1> QED
  BY <1>1, <1>3, <1>4, <1>5

LEMMA OpenSound ==
    ASSUME Sound, NEW k \in Call, NEW s \in Session, Open(k, s)
    PROVE  Sound'
<1>1. /\ stage[k] = "opening" /\ Idle(s)
      /\ session' = [session EXCEPT ![s].tx = Own(k)]
      /\ Goto(k, "setup")
  BY DEF Open
<1>2. Own(k) \in Tx /\ Own(k) = <<k, attempt[k]>>
  BY OwnIsTx DEF Sound
<1>3. session' \in [Session -> SessionState]
  BY <1>1, <1>2 DEF Sound, TypeOK, SessionState
<1>4. TypeOK' /\ ContextsBelong' /\ HeadersBelong' /\ MarkerGuarded'
  BY <1>1, <1>3, GotoSound DEF HasRun
<1>5. /\ session'[s].tx = Own(k) /\ Clean(session'[s])
      /\ \A u \in Session \ {s} : session'[u] = session[u]
  BY <1>1, <1>2 DEF Sound, TypeOK, SessionState, TenancyInvariant, SessionsPosed, Idle, Clean
<1>6. /\ stage'[k] = "setup" /\ UNCHANGED <<given, ctx, attempt>>
      /\ \A j \in Call \ {k} : stage'[j] = stage[j]
  BY <1>1 DEF Goto, Sound, TypeOK
<1>7. ASSUME NEW u \in Session, NEW n \in 1 .. MaxRetries + 1
      PROVE  session[u].tx # <<k, n>>
  BY <1>1, Owner
<1>8. SessionsPosed'
  <2> SUFFICES ASSUME NEW u \in Session
               PROVE  /\ session'[u].tx = NoTx => Clean(session'[u])
                      /\ \A j \in Call, n \in 1 .. MaxRetries + 1 : session'[u].tx = <<j, n>> =>
                           /\ n = attempt'[j]
                           /\ \A v \in Session : session'[v].tx = <<j, n>> => v = u
                           /\ \/ stage'[j] = "setup" /\ Clean(session'[u])
                              \/ /\ stage'[j] = "running" /\ ctx'[j].tx = <<j, n>>
                                 /\ PosedFor(session'[u], given'[j])
    BY DEF SessionsPosed, Idle
  <2>1. session'[u].tx = NoTx => Clean(session'[u])
    BY <1>5 DEF Sound, TenancyInvariant, SessionsPosed, Idle
  <2>2. ASSUME NEW j \in Call, NEW n \in 1 .. MaxRetries + 1, session'[u].tx = <<j, n>>
        PROVE  /\ n = attempt'[j]
               /\ \A v \in Session : session'[v].tx = <<j, n>> => v = u
               /\ \/ stage'[j] = "setup" /\ Clean(session'[u])
                  \/ /\ stage'[j] = "running" /\ ctx'[j].tx = <<j, n>>
                     /\ PosedFor(session'[u], given'[j])
    <3>1. CASE u = s
      <4>1. j = k /\ n = attempt[k]
        BY <2>2, <3>1, <1>2, <1>5
      <4> QED
        BY <3>1, <4>1, <1>5, <1>6, <1>7
    <3>2. CASE u # s
      <4>1. session[u].tx = <<j, n>> /\ session'[u] = session[u]
        BY <2>2, <3>2, <1>5
      <4>2. j # k
        BY <4>1, <1>7
      <4>3. \A v \in Session : session'[v].tx = <<j, n>> => v # s
        BY <4>2, <1>2, <1>5
      <4> QED
        BY <4>1, <4>2, <4>3, <1>5, <1>6 DEF Sound, TenancyInvariant, SessionsPosed
    <3> QED
      BY <3>1, <3>2
  <2> QED
    BY <2>1, <2>2
<1> QED
  BY <1>4, <1>8 DEF Sound, TenancyInvariant

LEMMA OpenFailsSound ==
    ASSUME Sound, NEW k \in Call, OpenFails(k)
    PROVE  Sound'
<1>1. stage[k] = "opening" /\ Goto(k, "failed") /\ session' = session
  BY DEF OpenFails
<1>2. TypeOK' /\ ContextsBelong' /\ HeadersBelong' /\ MarkerGuarded'
  BY <1>1, GotoSound DEF HasRun, Sound, TypeOK
<1>3. SessionsPosed'
  <2>1. \A s \in Session, j \in Call, n \in 1 .. MaxRetries + 1 :
            session[s].tx = <<j, n>> => j # k
    BY <1>1, Owner
  <2> QED
    BY <1>1, <2>1, SessionsStay DEF Goto, Sound, TypeOK, TenancyInvariant
<1> QED
  BY <1>2, <1>3 DEF Sound, TenancyInvariant

LEMMA SetupFailsSound ==
    ASSUME Sound, NEW k \in Call, SetupFails(k)
    PROVE  Sound'
<1>1. stage[k] = "setup" /\ EndTx(Own(k)) /\ Goto(k, "failed")
  BY DEF SetupFails
<1>2. session' \in [Session -> SessionState] /\ SessionsPosed'
  BY <1>1, EndTxSound DEF Goto, Sound, TypeOK
<1>3. TypeOK' /\ ContextsBelong' /\ HeadersBelong' /\ MarkerGuarded'
  BY <1>1, <1>2, GotoSound DEF HasRun
<1> QED
  BY <1>2, <1>3 DEF Sound, TenancyInvariant

(* A nested call has no session of its own: Own(k) is not the transaction  *)
(* in its context, and no session has it.                                  *)
LEMMA ReturnSound ==
    ASSUME Sound, NEW k \in Call, Return(k)
    PROVE  Sound'
<1>1. stage[k] = "running" /\ Goto(k, "returned")
  BY DEF Return
<1>2. session' \in [Session -> SessionState] /\ SessionsPosed'
  <2>1. CASE ctx[k].tx = Own(k)
    BY <1>1, <2>1, EndTxSound DEF Return, Goto, Sound, TypeOK
  <2>2. CASE ctx[k].tx # Own(k)
    <3>1. session' = session
      BY <2>2 DEF Return
    <3>2. ASSUME NEW s \in Session, NEW n \in 1 .. MaxRetries + 1
          PROVE  session[s].tx # <<k, n>>
      BY <1>1, <2>2, Owner, OwnSession
    <3> QED
      BY <1>1, <3>1, <3>2, SessionsStay DEF Goto, Sound, TypeOK, TenancyInvariant
  <2> QED
    BY <2>1, <2>2
<1>3. TypeOK' /\ ContextsBelong' /\ HeadersBelong' /\ MarkerGuarded'
  BY <1>1, <1>2, GotoSound DEF HasRun
<1> QED
  BY <1>2, <1>3 DEF Sound, TenancyInvariant

LEMMA RetrySound ==
    ASSUME Sound, NEW k \in Call, Retry(k)
    PROVE  Sound'
<1>1. /\ stage[k] = "running" /\ attempt[k] <= MaxRetries /\ EndTx(Own(k))
      /\ stage'[k] = "opening" /\ attempt'[k] = attempt[k] + 1
      /\ UNCHANGED <<entry, given, ctx, origin, headers>>
      /\ \A j \in Call \ {k} : stage'[j] = stage[j] /\ attempt'[j] = attempt[j]
  BY DEF Retry, MayRetry, Sound, TypeOK
<1>2. session' \in [Session -> SessionState] /\ SessionsPosed'
  BY <1>1, EndTxSound
<1>3. TypeOK'
  <2>1. attempt' \in [Call -> 1 .. MaxRetries + 1]
    BY DEF Retry, MayRetry, Sound, TypeOK
  <2>2. stage' \in [Call -> Stage]
    BY DEF Retry, Sound, TypeOK, Stage
  <2> QED
    BY <1>1, <1>2, <2>1, <2>2 DEF Sound, TypeOK
<1>4. ContextsBelong'
  BY <1>1, <1>3, ContextsStay DEF HasRun
<1>5. HeadersBelong'
  BY <1>1 DEF Sound, TenancyInvariant, HeadersBelong
<1>6. MarkerGuarded'
  <2>1. entry[k] # "direct"
    <3>1. PICK s \in Session : session[s].tx = Own(k)
      BY DEF Retry
    <3>2. ctx[k].tx = Own(k)
      BY <1>1, <3>1, OwnSession
    <3> QED
      BY <1>1, <3>2 DEF Sound, TenancyInvariant, MarkerGuarded
  <2> SUFFICES ASSUME NEW j \in Call
               PROVE  MarkerGuardedAt(j)'
    BY DEF MarkerGuarded, MarkerGuardedAt
  <2>2. MarkerGuardedAt(j)
    BY DEF Sound, TenancyInvariant, MarkerGuarded, MarkerGuardedAt
  <2> QED
    BY <1>1, <2>1, <2>2 DEF MarkerGuardedAt, HasRun, Own
<1> QED
  BY <1>2, <1>3, <1>4, <1>5, <1>6 DEF Sound, TenancyInvariant
-----------------------------------------------------------------------------
(* What the hook writes into a clean session is the posture of its         *)
(* context.                                                                *)
LEMMA HookPoses ==
    ASSUME NEW c \in SessionState, Clean(c), NEW context \in Context, Accepts(context)
    PROVE  /\ WithPosture(c, context) \in SessionState
           /\ WithPosture(c, context).tx = c.tx
           /\ PosedFor(WithPosture(c, context), context)
<1>1. context.claims \in Caller /\ (context.claims # Nobody => context.claims # "")
  BY CallersAreNamed DEF Context, Caller
<1> DEFINE subject == IF context.claims = Nobody THEN c.subject ELSE context.claims
<1>2. WithPosture(c, context) =
        [c EXCEPT !.role = context.role, !.tenant = Tenant(c, context), !.subject = subject]
  BY <1>1 DEF WithPosture
<1> HIDE DEF TenantIDFromContext, SubjectFromContext
<1> QED
  BY <1>1, <1>2 DEF TenantIDFromContext, Tenant, PosedFor, For, Clean, Accepts, SessionState,
     Context, Reset, Caller, Posture

LEMMA BeginHookSound ==
    ASSUME Sound, NEW k \in Call, NEW s \in Session, BeginHook(k, s)
    PROVE  Sound'
<1> DEFINE posed == WithPosture(session[s], given[k])
           working == [given[k] EXCEPT !.tx = Own(k)]
<1>1. /\ stage[k] = "setup" /\ session[s].tx = Own(k) /\ Accepts(given[k])
      /\ stage'[k] = "running" /\ ctx'[k] = working /\ session'[s] = posed
      /\ UNCHANGED <<entry, given, attempt, origin, headers>>
      /\ \A j \in Call \ {k} : stage'[j] = stage[j] /\ ctx'[j] = ctx[j]
      /\ \A u \in Session \ {s} : session'[u] = session[u]
  BY DEF BeginHook, Sound, TypeOK
<1>2. given[k] \in Context /\ session[s] \in SessionState
  BY DEF Sound, TypeOK
<1>3. Own(k) \in Tx /\ Own(k) = <<k, attempt[k]>> /\ attempt[k] \in 1 .. MaxRetries + 1
  BY OwnIsTx DEF Sound, TypeOK
<1>4. /\ Clean(session[s])
      /\ \A u \in Session : session[u].tx = Own(k) => u = s
  BY <1>1, OwnSession
<1>5. posed \in SessionState /\ posed.tx = Own(k) /\ PosedFor(posed, given[k])
  BY <1>1, <1>2, <1>4, HookPoses
<1>6. /\ working \in Context /\ working.tx = Own(k)
      /\ working.claims = given[k].claims /\ working.role = given[k].role
      /\ working.managed
  BY <1>1, <1>2, <1>3 DEF Context, Accepts
<1> HIDE DEF posed, working
<1>7. TypeOK'
  <2>1. session' \in [Session -> SessionState]
    BY <1>5 DEF posed, BeginHook, Sound, TypeOK
  <2>2. ctx' \in [Call -> Context] /\ stage' \in [Call -> Stage]
    BY <1>6 DEF working, BeginHook, Sound, TypeOK, Stage
  <2> QED
    BY <1>1, <2>1, <2>2 DEF Sound, TypeOK
<1>8. ContextsBelong'
  <2>1. \A i \in Call : \A c, d, r :
            /\ given'[i] = c /\ ctx'[i] = d /\ origin'[i] = r
            /\ BelongsTo(c, r) /\ BelongsTo(d, r)
            => Belongs(i)'
    BY <1>1, <1>7, BelongingStays DEF Sound, HasRun
  <2>2. ASSUME NEW j \in Call, stage[j] # "new"
        PROVE  BelongsTo(given[j], origin[j]) /\ BelongsTo(ctx[j], origin[j])
    BY <2>2 DEF Sound, TenancyInvariant, ContextsBelong
  <2>3. Belongs(k)'
    <3>1. BelongsTo(given[k], origin[k])'
      <4>1. BelongsTo(given[k], origin[k])
        BY <1>1, <2>2
      <4> QED
        BY <4>1, <1>1 DEF BelongsTo, HasRun
    <3>2. given[k].claims = CallerOf[origin[k]]
          /\ (RoleOf[origin[k]] # "none" => given[k].role = RoleOf[origin[k]])
      BY <1>1, <2>2 DEF BelongsTo
    <3>3. BelongsTo(ctx[k], origin[k])'
      <4>1. \A j \in Call, n \in 1 .. MaxRetries + 1 : Own(k) = <<j, n>> =>
                j = k /\ n = attempt[k]
        BY <1>3
      <4> QED
        BY <4>1, <3>2, <1>1, <1>3, <1>6 DEF BelongsTo, HasRun
    <3> QED
      BY <3>1, <3>3 DEF Belongs
  <2>4. ASSUME NEW j \in Call \ {k}, stage'[j] # "new"
        PROVE  Belongs(j)'
    BY <1>1, <2>1, <2>2, <2>4
  <2> QED
    BY <2>3, <2>4 DEF ContextsBelong, Belongs
<1>9. HeadersBelong'
  BY <1>1 DEF Sound, TenancyInvariant, HeadersBelong
<1>10. MarkerGuarded'
  <2>1. entry[k] # "direct"
    BY <1>1 DEF Accepts, Sound, TenancyInvariant, MarkerGuarded
  <2>2. Own(k) # NoTx
    BY <1>3 DEF NoTx
  <2> SUFFICES ASSUME NEW j \in Call
               PROVE  MarkerGuardedAt(j)'
    BY DEF MarkerGuarded, MarkerGuardedAt
  <2>3. MarkerGuardedAt(j)
    BY DEF Sound, TenancyInvariant, MarkerGuarded, MarkerGuardedAt
  <2> QED
    BY <1>1, <1>6, <2>1, <2>2, <2>3 DEF MarkerGuardedAt, HasRun, Own
<1>11. SessionsPosed'
  <2> SUFFICES ASSUME NEW u \in Session
               PROVE  /\ session'[u].tx = NoTx => Clean(session'[u])
                      /\ \A j \in Call, n \in 1 .. MaxRetries + 1 : session'[u].tx = <<j, n>> =>
                           /\ n = attempt'[j]
                           /\ \A v \in Session : session'[v].tx = <<j, n>> => v = u
                           /\ \/ stage'[j] = "setup" /\ Clean(session'[u])
                              \/ /\ stage'[j] = "running" /\ ctx'[j].tx = <<j, n>>
                                 /\ PosedFor(session'[u], given'[j])
    BY DEF SessionsPosed, Idle
  <2>1. \A v \in Session : session'[v].tx = session[v].tx
    BY <1>1, <1>5
  <2>2. session'[u].tx = NoTx => Clean(session'[u])
    <3>1. Own(k) # NoTx
      BY <1>3 DEF NoTx
    <3> QED
      BY <1>1, <1>5, <3>1 DEF Sound, TenancyInvariant, SessionsPosed, Idle
  <2>3. ASSUME NEW j \in Call, NEW n \in 1 .. MaxRetries + 1, session'[u].tx = <<j, n>>
        PROVE  /\ n = attempt'[j]
               /\ \A v \in Session : session'[v].tx = <<j, n>> => v = u
               /\ \/ stage'[j] = "setup" /\ Clean(session'[u])
                  \/ /\ stage'[j] = "running" /\ ctx'[j].tx = <<j, n>>
                     /\ PosedFor(session'[u], given'[j])
    <3>1. session[u].tx = <<j, n>>
      BY <2>1, <2>3
    <3>2. n = attempt[j] /\ session[u].tx = Own(j)
      BY <3>1, Owner
    <3>3. /\ \A v \in Session : session[v].tx = Own(j) => v = u
          /\ \/ stage[j] = "setup" /\ Clean(session[u])
             \/ /\ stage[j] = "running" /\ ctx[j].tx = Own(j)
                /\ PosedFor(session[u], given[j])
      BY <3>2, OwnSession
    <3>4. CASE j = k
      <4>1. u = s
        BY <1>4, <3>2, <3>4
      <4> QED
        BY <1>1, <1>5, <1>6, <2>1, <3>1, <3>2, <3>3, <3>4, <4>1
    <3>5. CASE j # k
      <4>1. u # s
        BY <1>1, <1>3, <3>1, <3>5
      <4> QED
        BY <1>1, <2>1, <3>1, <3>2, <3>3, <3>5, <4>1
    <3> QED
      BY <3>4, <3>5
  <2> QED
    BY <2>2, <2>3
<1> QED
  BY <1>7, <1>8, <1>9, <1>10, <1>11 DEF Sound, TenancyInvariant
-----------------------------------------------------------------------------
(* database/sql ends a transaction behind its function's back.             *)
LEMMA CancelledSound ==
    ASSUME Sound, NEW k \in Call, Cancelled(k)
    PROVE  Sound'
<1>1. EndTx(Own(k)) /\ UNCHANGED <<stage, entry, given, ctx, attempt, origin, headers>>
  BY DEF Cancelled, callvars
<1>2. session' \in [Session -> SessionState] /\ SessionsPosed'
  BY <1>1, EndTxSound
<1>3. TypeOK'
  BY <1>1, <1>2 DEF Sound, TypeOK
<1>4. ContextsBelong' /\ HeadersBelong' /\ MarkerGuarded'
  BY <1>1 DEF Sound, TenancyInvariant, ContextsBelong, BelongsTo, HasRun, HeadersBelong,
         MarkerGuarded, Own
<1> QED
  BY <1>2, <1>3, <1>4 DEF Sound, TenancyInvariant

LEMMA ReconnectSound ==
    ASSUME Sound, NEW s \in Session, Reconnect(s)
    PROVE  Sound'
<1>1. /\ session'[s] = Connected
      /\ \A u \in Session \ {s} : session'[u] = session[u]
      /\ UNCHANGED <<stage, entry, given, ctx, attempt, origin, headers>>
  BY DEF Reconnect, callvars, Sound, TypeOK
<1>2. Connected \in SessionState /\ Connected.tx = NoTx /\ Clean(Connected)
  BY DEF Connected, SessionState, Clean, Reset
<1>3. TypeOK'
  BY <1>1, <1>2 DEF Reconnect, Sound, TypeOK
<1>4. ContextsBelong' /\ HeadersBelong' /\ MarkerGuarded'
  BY <1>1 DEF Sound, TenancyInvariant, ContextsBelong, BelongsTo, HasRun, HeadersBelong,
         MarkerGuarded, Own
<1>5. SessionsPosed'
  BY <1>1, <1>2, SessionsStay DEF Sound, TenancyInvariant
<1> QED
  BY <1>3, <1>4, <1>5 DEF Sound, TenancyInvariant

(* A header says what the context said.                                    *)
LEMMA StartWorkflowSound ==
    ASSUME Propagated = {"role", "claims"}, Sound, NEW k \in Call, StartWorkflow(k)
    PROVE  Sound'
<1>1. /\ stage[k] # "new"
      /\ headers' = headers \cup {Injected(ctx[k], origin[k])}
      /\ UNCHANGED <<stage, entry, given, ctx, attempt, origin, session>>
  BY DEF StartWorkflow, HasRun, callvars
<1>2. ctx[k] \in Context /\ origin[k] \in Request
  BY DEF Sound, TypeOK
<1>3. Injected(ctx[k], origin[k]) \in Header
  BY <1>2 DEF Injected, Header, Context, Role
<1>4. LET h == Injected(ctx[k], origin[k])
      IN  /\ h.claims = CallerOf[h.origin]
          /\ RoleOf[h.origin] # "none" => h.role = RoleOf[h.origin]
  <2>1. BelongsTo(ctx[k], origin[k])
    BY <1>1 DEF Sound, TenancyInvariant, ContextsBelong
  <2>2. RoleOf[origin[k]] # "unspecified"
    BY <1>2, TenancyAssumption DEF Posture
  <2> QED
    BY <2>1, <2>2 DEF BelongsTo, Injected
<1>5. TypeOK'
  BY <1>1, <1>3 DEF Sound, TypeOK
<1>6. HeadersBelong'
  BY <1>1, <1>4 DEF Sound, TenancyInvariant, HeadersBelong
<1>7. ContextsBelong' /\ MarkerGuarded' /\ SessionsPosed'
  BY <1>1 DEF Sound, TenancyInvariant, ContextsBelong, BelongsTo, HasRun, MarkerGuarded, Own,
         SessionsPosed, Idle
<1> QED
  BY <1>5, <1>6, <1>7 DEF Sound, TenancyInvariant

LEMMA ServeSound ==
    ASSUME Sound, NEW k \in Call, NEW r \in Request, Serve(k, r)
    PROVE  Sound'
<1> DEFINE context == [Background EXCEPT !.role = RoleOf[r], !.claims = CallerOf[r]]
<1>1. RoleOf[r] \in Role
  BY TenancyAssumption DEF Role
<1>2. context \in Context /\ context.tx = NoTx /\ ~context.managed
      /\ context.claims = CallerOf[r] /\ context.role = RoleOf[r]
  BY <1>1 DEF Background, Context, Caller
<1>3. BelongsTo(context, r)
  <2>1. \A j \in Call, n \in 1 .. MaxRetries + 1 : NoTx # <<j, n>>
    BY DEF NoTx
  <2> QED
    BY <1>2, <2>1 DEF BelongsTo
<1> QED
  BY <1>2, <1>3, EnterSound DEF Serve

LEMMA ActivitySound ==
    ASSUME Sound, NEW k \in Call, NEW h \in headers, Activity(k, h)
    PROVE  Sound'
<1>1. h \in Header /\ h.origin \in Request
  BY DEF Sound, TypeOK, Header
<1>2. /\ Extracted(h) \in Context /\ Extracted(h).tx = NoTx /\ ~Extracted(h).managed
      /\ Extracted(h).claims = h.claims /\ Extracted(h).role = h.role
  BY <1>1 DEF Extracted, Background, Context, Header
<1>3. BelongsTo(Extracted(h), h.origin)
  <2>1. \A j \in Call, n \in 1 .. MaxRetries + 1 : NoTx # <<j, n>>
    BY DEF NoTx
  <2> QED
    BY <1>2, <2>1 DEF BelongsTo, Sound, TenancyInvariant, HeadersBelong
<1> QED
  BY <1>1, <1>2, <1>3, EnterSound DEF Activity

(* What a function that has run hands on belongs to its request, and the   *)
(* marker only with a transaction.                                         *)
LEMMA HandsOn ==
    ASSUME Sound, NEW p \in Call, HasRun(p)
    PROVE  /\ ctx[p] \in Context /\ origin[p] \in Request
           /\ BelongsTo(ctx[p], origin[p])
           /\ ctx[p].managed => ctx[p].tx # NoTx
BY DEF Sound, TypeOK, TenancyInvariant, ContextsBelong, MarkerGuarded, HasRun

LEMMA TransactSound ==
    ASSUME Sound, NEW k \in Call, NEW p \in Call, Transact(k, p)
    PROVE  Sound'
<1> DEFINE context == [ctx[p] EXCEPT !.managed = TRUE]
<1>1. /\ ctx[p] \in Context /\ origin[p] \in Request
      /\ BelongsTo(ctx[p], origin[p])
  BY HandsOn DEF Transact
<1>2. /\ context \in Context /\ context.tx = ctx[p].tx
      /\ context.claims = ctx[p].claims /\ context.role = ctx[p].role
  BY <1>1 DEF Context
<1>3. BelongsTo(context, origin[p])
  BY <1>1, <1>2 DEF BelongsTo
<1>4. Enter(k, "managed", context, IF context.tx = NoTx THEN "opening" ELSE "running",
            origin[p])
  BY DEF Transact, Transact1
<1> QED
  BY <1>1, <1>2, <1>3, <1>4, EnterSound

LEMMA TransactRefusedSound ==
    ASSUME Sound, NEW k \in Call, NEW p \in Call, TransactRefused(k, p)
    PROVE  Sound'
BY HandsOn, EnterSound DEF TransactRefused

LEMMA DirectTransactSound ==
    ASSUME Sound, NEW k \in Call, NEW p \in Call, DirectTransact(k, p)
    PROVE  Sound'
<1>1. Enter(k, "direct", ctx[p], IF ctx[p].tx = NoTx THEN "opening" ELSE "running",
            origin[p])
  BY DEF DirectTransact, Transact1
<1> QED
  BY <1>1, HandsOn, EnterSound DEF DirectTransact

LEMMA NextSound ==
    ASSUME Propagated = {"role", "claims"}, Sound, [Next]_vars
    PROVE  Sound'
<1>1. ASSUME NEW k \in Call, NEW r \in Request, Serve(k, r)
      PROVE  Sound'
  BY <1>1, ServeSound
<1>2. ASSUME NEW k \in Call, NEW role \in Stampable, WithDatabaseRole(k, role)
      PROVE  Sound'
  BY <1>2, WithDatabaseRoleSound
<1>3. ASSUME NEW k \in Call, NEW p \in Call,
             Transact(k, p) \/ TransactRefused(k, p) \/ DirectTransact(k, p)
      PROVE  Sound'
  BY <1>3, TransactSound, TransactRefusedSound, DirectTransactSound
<1>4. ASSUME NEW k \in Call, NEW s \in Session, Open(k, s) \/ BeginHook(k, s)
      PROVE  Sound'
  BY <1>4, OpenSound, BeginHookSound
<1>5. ASSUME NEW k \in Call,
             OpenFails(k) \/ SetupFails(k) \/ Retry(k) \/ Return(k) \/ Cancelled(k)
      PROVE  Sound'
  BY <1>5, OpenFailsSound, SetupFailsSound, RetrySound, ReturnSound, CancelledSound
<1>6. ASSUME NEW k \in Call, StartWorkflow(k)
      PROVE  Sound'
  BY <1>6, StartWorkflowSound
<1>7. ASSUME NEW k \in Call, NEW h \in headers, Activity(k, h)
      PROVE  Sound'
  BY <1>7, ActivitySound
<1>8. ASSUME NEW s \in Session, Reconnect(s)
      PROVE  Sound'
  BY <1>8, ReconnectSound
<1>9. CASE UNCHANGED vars
  BY <1>9 DEF vars, callvars, Sound, TypeOK, TenancyInvariant, ContextsBelong, BelongsTo, HasRun,
         HeadersBelong, MarkerGuarded, Own, SessionsPosed, Idle
<1> QED
  BY <1>1, <1>2, <1>3, <1>4, <1>5, <1>6, <1>7, <1>8, <1>9 DEF Next, Finished
-----------------------------------------------------------------------------
(* Contexts, headers and sessions belong to one request each, however the  *)
(* calls are nested, abandoned, retried and cancelled.                     *)
THEOREM TenancyInvariantHolds ==
    ASSUME Propagated = {"role", "claims"}
    PROVE  Spec => [](TypeOK /\ TenancyInvariant)
<1>1. Init => Sound
  BY InitSound
<1>2. Sound /\ [Next]_vars => Sound'
  BY NextSound
<1> QED
  BY <1>1, <1>2, PTL DEF Spec, Sound

(* A statement that reaches a session reaches the one posed for the call   *)
(* whose transaction it is, which works for the same request.              *)
LEMMA ReachedSession ==
    ASSUME Sound, NEW k \in Call, NEW s \in Session, Reaches(k, s)
    PROVE  \E j \in Call :
               /\ origin[j] = origin[k] /\ PosedFor(session[s], given[j])
               /\ BelongsTo(given[j], origin[j])
<1>1. PICK j \in Call, n \in 1 .. MaxRetries + 1 : ctx[k].tx = <<j, n>>
  BY DEF Reaches, Sound, TypeOK, Context, Tx
<1>2. session[s].tx = <<j, n>>
  BY <1>1 DEF Reaches
<1>3. n = attempt[j] /\ session[s].tx = Own(j)
  BY <1>2, Owner
<1>4. BelongsTo(ctx[k], origin[k])
  BY DEF Reaches, Sound, TenancyInvariant, ContextsBelong
<1>5. origin[j] = origin[k] /\ HasRun(j)
  BY <1>1, <1>3, <1>4 DEF BelongsTo
<1>6. PosedFor(session[s], given[j]) /\ stage[j] = "running"
  BY <1>3, <1>5, OwnSession DEF HasRun
<1>7. BelongsTo(given[j], origin[j])
  BY <1>6 DEF Sound, TenancyInvariant, ContextsBelong
<1> QED
  BY <1>5, <1>6, <1>7

(* Statements run in the tenant of the request that caused them, and are   *)
(* attributed to its caller.                                               *)
THEOREM TenantsAreApart ==
    ASSUME Propagated = {"role", "claims"}
    PROVE  Spec => []RunsForItsRequest
<1>1. TypeOK /\ TenancyInvariant => RunsForItsRequest
  <2> SUFFICES ASSUME Sound, NEW k \in Call, NEW s \in Session, Reaches(k, s)
               PROVE  LET c == CallerOf[origin[k]]
                      IN  /\ For(session[s].tenant,
                                 IF session[s].role = "webuser" THEN c ELSE Nobody)
                          /\ For(session[s].subject, c)
    BY DEF RunsForItsRequest, Sound
  <2>1. PICK j \in Call :
            /\ origin[j] = origin[k] /\ PosedFor(session[s], given[j])
            /\ BelongsTo(given[j], origin[j])
    BY ReachedSession
  <2>2. given[j].claims = CallerOf[origin[k]]
    BY <2>1 DEF BelongsTo
  <2> QED
    BY <2>1, <2>2 DEF PosedFor
<1> QED
  BY <1>1, TenancyInvariantHolds, PTL

(* Statements run with the role of the procedure that was called.          *)
THEOREM RolesAreKept ==
    ASSUME Propagated = {"role", "claims"}
    PROVE  Spec => []RunsAsItsProcedure
<1>1. TypeOK /\ TenancyInvariant => RunsAsItsProcedure
  BY ReachedSession DEF RunsAsItsProcedure, Sound, PosedFor, BelongsTo
<1> QED
  BY <1>1, TenancyInvariantHolds, PTL

(* No posture stays on a pooled connection.                                *)
THEOREM PooledSessionsAreClean ==
    ASSUME Propagated = {"role", "claims"}
    PROVE  Spec => []IdleIsClean
<1>1. TypeOK /\ TenancyInvariant => IdleIsClean
  BY DEF TenancyInvariant, SessionsPosed, Clean, IdleIsClean
<1> QED
  BY <1>1, TenancyInvariantHolds, PTL

(* The marker cannot be carried past Transact into a transaction.          *)
THEOREM DirectCallsAreRefused ==
    ASSUME Propagated = {"role", "claims"}
    PROVE  Spec => []NoneUnmanaged
<1>1. TypeOK /\ TenancyInvariant => NoneUnmanaged
  BY DEF TenancyInvariant, MarkerGuarded, NoneUnmanaged
<1> QED
  BY <1>1, TenancyInvariantHolds, PTL
=============================================================================
