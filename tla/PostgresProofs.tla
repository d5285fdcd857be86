--------------------------- MODULE PostgresProofs ---------------------------
(***************************************************************************)
(* Proofs about Postgres: whatever its clients do, as long as each of them *)
(* treats its own transactions as SessionStep says, a committed update is  *)
(* never lost.  TransactorProofs and EntTransactorProofs instantiate this. *)
(***************************************************************************)
EXTENDS Postgres, FiniteSetTheorems, TLAPS

(* A step of a session keeps the types and leaves the others' state alone. *)
LEMMA TypedSession ==
    ASSUME DbTypeOK, NEW t \in TxId, SessionStep(t)
    PROVE  DbTypeOK' /\ \A u \in TxId \ {t} :
                srv'[u] = srv[u] /\ writes'[u] = writes[u] /\ snap'[u] = snap[u]
<1> DEFINE Kept == \A u \in TxId \ {t} :
               srv'[u] = srv[u] /\ writes'[u] = writes[u] /\ snap'[u] = snap[u]
<1>1. ASSUME NEW s \in ServerState, SrvSet(t, s)
      PROVE  DbTypeOK' /\ Kept
  BY <1>1 DEF SrvSet, DbTypeOK
<1>2. CASE SrvEnd(t)
  BY <1>2 DEF SrvEnd, DbTypeOK, ServerState
<1>3. CASE SrvRead(t)
  BY <1>3 DEF SrvRead, DbTypeOK, ServerState
<1>4. CASE SrvCommit(t)
  BY <1>4 DEF SrvCommit, DbTypeOK, ServerState
<1>5. ASSUME NEW r \in Row, SrvUpdate(t, r)
      PROVE  DbTypeOK' /\ Kept
  BY <1>5 DEF SrvUpdate, DbTypeOK
<1> QED
  BY <1>1, <1>2, <1>3, <1>4, <1>5 DEF SessionStep, GoesOn, Hangs, Commits, ServerState

(* Sessions that neither commit nor take a lock keep what is committed.    *)
LEMMA QuietSession ==
    ASSUME DbTypeOK, DbInvariant, NEW t \in TxId, DbTypeOK', value' = value,
           \A u \in TxId \ {t} : srv'[u] = srv[u] /\ writes'[u] = writes[u] /\ snap'[u] = snap[u],
           srv[t] # "committed", srv'[t] # "committed",
           srv'[t] \in {"absent", "begun"} => writes'[t] = {},
           \A r \in Row : Holds(t, r)' => ~Locked(t, r) /\ snap'[t][r] = value[r]
    PROVE  DbInvariant'
<1>1. {u \in TxId : srv'[u] = "committed"} = {u \in TxId : srv[u] = "committed"}
  OBVIOUS
<1>2. \A r \in Row : CommittedOn(r)' = CommittedOn(r)
  BY DEF CommittedOn
<1>3. \A u \in TxId \ {t}, r \in Row : Holds(u, r)' <=> Holds(u, r)
  BY DEF Holds
<1>4. ASSUME NEW u \in TxId, NEW r \in Row, Holds(u, r)'
      PROVE  ~Locked(u, r)' /\ snap'[u][r] = value'[r]
  BY <1>3, <1>4 DEF DbInvariant, Locked
<1>5. \A u \in TxId : srv'[u] \in {"absent", "begun"} => writes'[u] = {}
  BY DEF DbInvariant
<1> QED
  BY <1>1, <1>2, <1>4, <1>5 DEF DbInvariant

(* A commit counts itself in, in every row it has written.                 *)
LEMMA CommittingSession ==
    ASSUME DbTypeOK, DbInvariant, NEW t \in TxId,
           srv[t] \in {"begun", "open", "committing"}, SrvCommit(t)
    PROVE  DbInvariant'
<1>1. /\ DbTypeOK' /\ srv'[t] = "committed" /\ writes' = writes /\ snap' = snap
      /\ \A u \in TxId \ {t} : srv'[u] = srv[u]
  BY TypedSession DEF SessionStep, GoesOn, Hangs, Commits, SrvCommit, DbTypeOK
<1>2. \A r \in writes[t] : r \in Row /\ Holds(t, r)
  BY DEF DbTypeOK, DbInvariant, Holds
<1>3. value' = [r \in Row |-> IF r \in writes[t] THEN value[r] + 1 ELSE value[r]]
  BY <1>2 DEF SrvCommit, DbInvariant
<1>4. IsFiniteSet({u \in TxId : srv'[u] = "committed"})
  <2>1. {u \in TxId : srv'[u] = "committed"} = {u \in TxId : srv[u] = "committed"} \cup {t}
    BY <1>1
  <2> QED
    BY <2>1, FS_AddElement DEF DbInvariant
<1>5. ASSUME NEW r \in Row
      PROVE  value'[r] = Cardinality(CommittedOn(r)')
  <2>1. CommittedOn(r) \subseteq {u \in TxId : srv[u] = "committed"} /\ t \notin CommittedOn(r)
    BY DEF CommittedOn
  <2>2. IsFiniteSet(CommittedOn(r))
    BY <2>1, FS_Subset DEF DbInvariant
  <2>3. CASE r \in writes[t]
    <3>1. CommittedOn(r)' = CommittedOn(r) \cup {t}
      BY <1>1, <2>3 DEF CommittedOn
    <3>2. Cardinality(CommittedOn(r)') = Cardinality(CommittedOn(r)) + 1
      BY <2>1, <2>2, <3>1, FS_AddElement
    <3> QED
      BY <1>3, <2>3, <3>2 DEF DbInvariant
  <2>4. CASE r \notin writes[t]
    <3>1. CommittedOn(r)' = CommittedOn(r)
      BY <1>1, <2>4 DEF CommittedOn
    <3> QED
      BY <1>3, <2>4, <3>1 DEF DbInvariant
  <2> QED
    BY <2>3, <2>4
<1>6. ASSUME NEW u \in TxId, NEW r \in Row, Holds(u, r)'
      PROVE  ~Locked(u, r)' /\ snap'[u][r] = value'[r]
  <2>1. u # t /\ Holds(u, r)
    BY <1>1, <1>6 DEF Holds
  <2>2. ~Locked(u, r) /\ snap[u][r] = value[r]
    BY <2>1 DEF DbInvariant
  <2>3. r \notin writes[t]
    BY <1>2, <2>1, <2>2 DEF Locked
  <2>4. ~Locked(u, r)'
    BY <1>1, <2>2 DEF Locked, Holds
  <2> QED
    BY <1>1, <1>3, <2>2, <2>3, <2>4
<1>7. \A u \in TxId : srv'[u] \in {"absent", "begun"} => writes'[u] = {}
  BY <1>1 DEF DbInvariant
<1> QED
  BY <1>4, <1>5, <1>6, <1>7 DEF DbInvariant

(* No step of a session breaks the invariant ...                           *)
LEMMA SessionPreserves ==
    ASSUME DbTypeOK, DbInvariant, NEW t \in TxId, SessionStep(t)
    PROVE  DbInvariant'
<1>1. ASSUME NEW s \in ServerState \ {"committed"}, SrvSet(t, s),
             \/ s = "begun" /\ srv[t] = "absent"
             \/ s = "committing" /\ srv[t] \in {"begun", "open"}
             \/ s = "aborted" /\ srv[t] \in {"begun", "open", "aborted"}
      PROVE  DbInvariant'
  <2>1. DbTypeOK'
    BY <1>1, TypedSession DEF SessionStep, GoesOn, Hangs, Commits
  <2>2. /\ writes' = writes /\ snap' = snap /\ value' = value /\ srv'[t] = s
        /\ \A u \in TxId \ {t} : srv'[u] = srv[u]
    BY <1>1 DEF SrvSet, DbTypeOK
  <2>3. \A r \in Row : Holds(t, r)' => Holds(t, r)
    BY <1>1, <2>2 DEF Holds, DbInvariant
  <2> QED
    BY <1>1, <2>1, <2>2, <2>3, QuietSession DEF DbInvariant
<1>2. CASE srv[t] # "committed" /\ SrvEnd(t)
  <2>1. DbTypeOK'
    BY <1>2, TypedSession DEF SessionStep, GoesOn, Hangs, Commits
  <2> QED
    BY <1>2, <2>1, QuietSession DEF SrvEnd, DbTypeOK, Holds
<1>3. CASE srv[t] = "begun" /\ SrvRead(t)
  <2>1. DbTypeOK'
    BY <1>3, TypedSession DEF SessionStep, GoesOn, Hangs, Commits
  <2> QED
    BY <1>3, <2>1, QuietSession DEF SrvRead, DbTypeOK, Holds, DbInvariant
<1>4. ASSUME srv[t] = "open", NEW r \in Row, ~Locked(t, r), value[r] = snap[t][r],
             SrvUpdate(t, r)
      PROVE  DbInvariant'
  <2>1. DbTypeOK'
    BY <1>4, TypedSession DEF SessionStep, GoesOn, Hangs, Commits
  <2>2. /\ srv' = srv /\ snap' = snap /\ value' = value
        /\ writes'[t] = writes[t] \cup {r} /\ \A u \in TxId \ {t} : writes'[u] = writes[u]
    BY <1>4 DEF SrvUpdate, DbTypeOK
  <2>3. \A q \in Row : Holds(t, q)' => q = r \/ Holds(t, q)
    BY <2>2 DEF Holds
  <2> QED
    BY <1>4, <2>1, <2>2, <2>3, QuietSession DEF DbInvariant
<1>5. CASE srv[t] \in {"begun", "open", "committing"} /\ SrvCommit(t)
  BY <1>5, CommittingSession
<1> QED
  BY <1>1, <1>2, <1>3, <1>4, <1>5 DEF SessionStep, GoesOn, Hangs, Commits, ServerState

(* ... which holds before the first of them.                               *)
LEMMA InitDbInvariant == DbInit => DbTypeOK /\ DbInvariant
<1> SUFFICES ASSUME DbInit
             PROVE  DbTypeOK /\ DbInvariant
  OBVIOUS
<1>1. DbTypeOK
  BY DEF DbInit, DbTypeOK, ServerState
<1>2. {t \in TxId : srv[t] = "committed"} = {} /\ \A r \in Row : CommittedOn(r) = {}
  BY DEF DbInit, CommittedOn
<1> QED
  BY <1>1, <1>2, FS_EmptySet DEF DbInit, DbInvariant, Holds
=============================================================================
