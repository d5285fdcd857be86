------------------------------ MODULE Postgres ------------------------------
(***************************************************************************)
(* The database the transactors talk to, as far as they can tell: server   *)
(* side transactions over rows, repeatable-read snapshots where the first  *)
(* updater of a row wins, row locks, and sessions whose connection is      *)
(* lost.  External to the repository: modelled from the errors stdtx and   *)
(* stdent react to.  A transaction reads the counters once and writes back *)
(* what it read plus one, so that an update lost between two transactions  *)
(* shows in `value'.                                                       *)
(***************************************************************************)
EXTENDS Naturals, FiniteSets

CONSTANTS
    Row,        \* the rows transactions increment
    TxId        \* the transactions that may ever be begun

VARIABLES
    srv,        \* srv[t]: what the server makes of transaction t
    writes,     \* writes[t]: rows t has updated (and locks while it is live)
    snap,       \* snap[t]: the values t's snapshot shows
    value       \* value[r]: the committed value of row r

(* "begun" has no snapshot yet; "aborted" failed a statement and waits for *)
(* its ROLLBACK; "committing" has a COMMIT under way that nobody awaits.   *)
ServerState ==
    {"absent", "begun", "open", "aborted", "committing", "committed", "ended"}

DbTypeOK ==
    /\ srv \in [TxId -> ServerState]
    /\ writes \in [TxId -> SUBSET Row]
    /\ snap \in [TxId -> [Row -> Nat]]
    /\ value \in [Row -> Nat]

DbInit ==
    /\ srv = [t \in TxId |-> "absent"]
    /\ writes = [t \in TxId |-> {}]
    /\ snap = [t \in TxId |-> [r \in Row |-> 0]]
    /\ value = [r \in Row |-> 0]

(* A failed transaction has already released its locks.                    *)
Holds(t, r) == srv[t] \in {"open", "committing"} /\ r \in writes[t]

Locked(t, r) == \E u \in TxId \ {t} : Holds(u, r)

SrvSet(t, s) ==
    /\ srv' = [srv EXCEPT ![t] = s]
    /\ UNCHANGED <<writes, snap, value>>

(* Nothing is left of a transaction that was rolled back.                  *)
SrvEnd(t) ==
    /\ srv' = [srv EXCEPT ![t] = "ended"]
    /\ writes' = [writes EXCEPT ![t] = {}]
    /\ snap' = [snap EXCEPT ![t] = [r \in Row |-> 0]]
    /\ UNCHANGED value

SrvRead(t) ==
    /\ srv' = [srv EXCEPT ![t] = "open"]
    /\ snap' = [snap EXCEPT ![t] = value]
    /\ UNCHANGED <<writes, value>>

SrvUpdate(t, r) ==
    /\ writes' = [writes EXCEPT ![t] = @ \cup {r}]
    /\ UNCHANGED <<srv, snap, value>>

SrvCommit(t) ==
    /\ srv' = [srv EXCEPT ![t] = "committed"]
    /\ value' = [r \in Row |-> IF r \in writes[t] THEN snap[t][r] + 1
                                                  ELSE value[r]]
    /\ UNCHANGED <<writes, snap>>

(* The server notices that t's client is gone: what t did is undone, and a *)
(* commit that was under way is carried out or not.                        *)
SrvReap(t) ==
    \/ /\ srv[t] \in {"begun", "open", "aborted", "committing"}
       /\ SrvEnd(t)
    \/ /\ srv[t] = "committing"
       /\ SrvCommit(t)
-----------------------------------------------------------------------------
(* What the steps of every client come to, whichever library it uses: its  *)
(* transaction goes on, has a COMMIT under way, or is committed.           *)
GoesOn(t) ==
    \/ srv[t] = "absent" /\ SrvSet(t, "begun")
    \/ srv[t] \in {"begun", "open", "aborted"} /\ SrvSet(t, "aborted")
    \/ srv[t] # "committed" /\ SrvEnd(t)
    \/ srv[t] = "begun" /\ SrvRead(t)
    \/ srv[t] = "open" /\ \E r \in Row :
            ~Locked(t, r) /\ value[r] = snap[t][r] /\ SrvUpdate(t, r)

Hangs(t) == srv[t] \in {"begun", "open"} /\ SrvSet(t, "committing")
Commits(t) == srv[t] \in {"begun", "open", "committing"} /\ SrvCommit(t)

SessionStep(t) == GoesOn(t) \/ Hangs(t) \/ Commits(t)

(* Why no update is lost, whoever the clients are: while a transaction     *)
(* holds the lock of a row nobody else does, and the row still is what its *)
(* snapshot shows, so that what it writes back counts itself in.           *)
CommittedOn(r) == {t \in TxId : srv[t] = "committed" /\ r \in writes[t]}

DbInvariant ==
    /\ IsFiniteSet({t \in TxId : srv[t] = "committed"})
    /\ \A r \in Row : value[r] = Cardinality(CommittedOn(r))
    /\ \A t \in TxId, r \in Row : Holds(t, r) => ~Locked(t, r) /\ snap[t][r] = value[r]
    /\ \A t \in TxId : srv[t] \in {"absent", "begun"} => writes[t] = {}
=============================================================================
