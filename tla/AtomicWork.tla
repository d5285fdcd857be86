----------------------------- MODULE AtomicWork -----------------------------
(***************************************************************************)
(* What a transactor promises the code that calls it, with no attempts, no *)
(* connections and no database sessions in sight: the work of a call is    *)
(* applied to the rows in one step or not at all, at most once, and the    *)
(* reply says which, unless it is one of the replies (a commit that could  *)
(* not be confirmed, a cancelled context) that leave it open.  The work of *)
(* a call is the whole of it, unless its handler passes over a statement   *)
(* that was never made: then it is what the handler has done instead.      *)
(***************************************************************************)
EXTENDS Naturals

CONSTANTS
    Caller,
    Row,
    Work,       \* Work[c]: the rows call c increments
    Heedless    \* calls whose handler may leave some of its work out

VARIABLES
    value,      \* value[r]: the counter kept in row r
    applied,    \* applied[c]: whether c's work has been applied
    reply       \* reply[c]: how c returned, "none" before it does

vars == <<value, applied, reply>>

Unapplied == {"error", "panicked", "exited", "refused"}
Ambiguous == {"commitError", "canceled"}

Init ==
    /\ value = [r \in Row |-> 0]
    /\ applied = [c \in Caller |-> FALSE]
    /\ reply = [c \in Caller |-> "none"]

Applicable(c) == IF c \in Heedless THEN SUBSET Work[c] ELSE {Work[c]}

Apply(c) ==
    /\ ~applied[c]
    /\ reply[c] \in {"none"} \cup Ambiguous
    /\ applied' = [applied EXCEPT ![c] = TRUE]
    /\ \E rows \in Applicable(c) :
          value' = [r \in Row |-> IF r \in rows THEN value[r] + 1 ELSE value[r]]
    /\ UNCHANGED reply

Reply(c, how) ==
    /\ reply[c] = "none"
    /\ how = "ok" => applied[c]
    /\ how \in Unapplied => ~applied[c]
    /\ reply' = [reply EXCEPT ![c] = how]
    /\ UNCHANGED <<value, applied>>

Next ==
    \E c \in Caller :
        \/ Apply(c)
        \/ \E how \in {"ok"} \cup Unapplied \cup Ambiguous : Reply(c, how)

Spec == Init /\ [][Next]_vars
=============================================================================
