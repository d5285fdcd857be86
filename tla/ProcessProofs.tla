---------------------------- MODULE ProcessProofs ----------------------------
(***************************************************************************)
(* Proofs about the processes that people start: any number of mage's, at  *)
(* work on any targets (Mage), and an application, for any worlds, orders  *)
(* of construction that respect what constructors take, requests and slots *)
(* (AppLifecycle).                                                         *)
(*                                                                         *)
(* A mage process is at a target it was asked for, with some of its        *)
(* commands left, in order (Frame, Sorted).  What holds of a target is     *)
(* said by what is left to do: while a command that would establish it is  *)
(* left nothing is claimed, and once it is done others do not undo it      *)
(* (ConnectsAsAsked, InfraKnows, ServiceKnows, SnapshotKnows).  A report   *)
(* is what is known when nothing is left.  Moves and Drifts say what any   *)
(* step may do to what processes share, and all that is known is kept by   *)
(* them.                                                                   *)
(*                                                                         *)
(* An order of the application's parts is seen as the set of those up to   *)
(* the present one (Done): it grows by a part that has all it needs and    *)
(* shrinks by one that nobody left needs (Forward, Backward).              *)
(* Construction and Holding say what the parts that are done hold open,    *)
(* Closing who is going to close what is open, and WebInvariant that the   *)
(* HTTP server has requests only while it is one of those parts.           *)
(* SlotInvariant is what a request has been through, by the state it is    *)
(* in.                                                                     *)
(***************************************************************************)
EXTENDS Mage, AppLifecycle, FiniteSetTheorems, SequenceTheorems, TLAPS

(* Commands, and the order they have in a target.                          *)
Dos == {"build", "up", "login", "tag", "push", "force_new_deployment", "services-stable",
        "list-exports", "update-function-code",
        "inspect", "tag_digest", "push_digest", "put-parameter",
        "live_context", "chdir", "synth", "deploy_stack",
        "load", "remove", "hash", "restart", "apply", "pg_dump"}

(* Commands with the name of a migration.                                  *)
Writes == {"diff", "patch"}

Commands ==
    [do : Dos] \cup [do : Dos, d : Ident]
    \cup [do : Dos, d : Ident, l : UNION {Lambdas[d] : d \in Ident}]
    \cup [do : Dos, env : {"dev"} \cup Shared] \cup [do : Writes, name : STRING]
    \cup [do : Dos, tool : {"atlas", "goose"}]

Rank(do) ==
    CASE do \in {"build", "live_context", "remove"} -> 0
      [] do \in {"up", "login", "chdir", "hash"} -> 1
      [] do \in {"tag", "inspect", "synth", "diff"} -> 2
      [] do \in {"push", "tag_digest", "deploy_stack", "patch"} -> 3
      [] do \in {"force_new_deployment", "push_digest", "restart"} -> 4
      [] do \in {"services-stable", "put-parameter", "apply"} -> 5
      [] do \in {"list-exports", "pg_dump"} -> 6
      [] OTHER -> 7

Has(cs, do) == \E i \in DOMAIN cs : cs[i].do = do

(* Commands come in order, but for "load", and from lo to hi.              *)
Sorted(cs, lo, hi) ==
    /\ cs \in Seq(Commands)
    /\ \A i, j \in DOMAIN cs : i < j /\ cs[i].do # "load" /\ cs[j].do # "load"
          => Rank(cs[i].do) <= Rank(cs[j].do)
    /\ \A i \in DOMAIN cs : cs[i].do # "load" => lo <= Rank(cs[i].do) /\ Rank(cs[i].do) <= hi

(* Ranks are between 0 and 7.                                              *)
LEMMA RankIsNat == \A do : Rank(do) \in 0 .. 7
BY DEF Rank

(* u has the commands of s and those of t.                                 *)
Joins(u, s, t) ==
    /\ \A i \in DOMAIN u : (\E j \in DOMAIN s : u[i] = s[j]) \/ \E j \in DOMAIN t : u[i] = t[j]
    /\ \A j \in DOMAIN s : \E i \in DOMAIN u : u[i] = s[j]
    /\ \A j \in DOMAIN t : \E i \in DOMAIN u : u[i] = t[j]

(* Two lists in order, one after the other, are in order.                  *)
LEMMA Joined ==
    ASSUME NEW s, NEW t, NEW a \in Nat, NEW b \in Nat, NEW c \in Nat, NEW e \in Nat,
           Sorted(s, a, b), Sorted(t, c, e), a <= b, b <= c, c <= e
    PROVE  Sorted(s \o t, a, e) /\ Joins(s \o t, s, t)
<1>1. /\ s \o t \in Seq(Commands) /\ Len(s \o t) = Len(s) + Len(t) /\ Len(s) \in Nat /\ Len(t) \in Nat
      /\ \A i \in 1 .. Len(s \o t) : (s \o t)[i] = IF i <= Len(s) THEN s[i] ELSE t[i - Len(s)]
      /\ DOMAIN s = 1 .. Len(s) /\ DOMAIN t = 1 .. Len(t) /\ DOMAIN (s \o t) = 1 .. Len(s \o t)
  BY DEF Sorted
<1>2. PICK u : u = s \o t
  OBVIOUS
<1>3. \A i \in DOMAIN u : (i \in DOMAIN s /\ u[i] = s[i])
                           \/ (i > Len(s) /\ i - Len(s) \in DOMAIN t /\ u[i] = t[i - Len(s)])
  BY <1>1, <1>2
<1>4. /\ \A i \in DOMAIN s : i \in DOMAIN u /\ u[i] = s[i]
      /\ \A i \in DOMAIN t : i + Len(s) \in DOMAIN u /\ u[i + Len(s)] = t[i]
  BY <1>1, <1>2
<1>5. Joins(u, s, t)
  BY <1>3, <1>4 DEF Joins
<1>6. ASSUME NEW i \in DOMAIN u, u[i].do # "load"
      PROVE  a <= Rank(u[i].do) /\ Rank(u[i].do) <= e
  BY <1>3, <1>6, RankIsNat DEF Sorted
<1>7. ASSUME NEW i \in DOMAIN u, NEW j \in DOMAIN u, i < j, u[i].do # "load", u[j].do # "load"
      PROVE  Rank(u[i].do) <= Rank(u[j].do)
  <2>1. CASE i \in DOMAIN s /\ u[i] = s[i] /\ j \in DOMAIN s /\ u[j] = s[j]
    BY <1>7, <2>1 DEF Sorted
  <2>2. CASE i > Len(s) /\ i - Len(s) \in DOMAIN t /\ u[i] = t[i - Len(s)]
    <3>1. j > Len(s) /\ j - Len(s) \in DOMAIN t /\ u[j] = t[j - Len(s)] /\ i \in Nat /\ j \in Nat
      BY <1>1, <1>2, <1>3, <1>7, <2>2
    <3>2. i - Len(s) < j - Len(s)
      BY <1>1, <1>7, <2>2, <3>1
    <3> QED
      BY <1>7, <2>2, <3>1, <3>2 DEF Sorted
  <2>3. CASE i \in DOMAIN s /\ u[i] = s[i] /\ j - Len(s) \in DOMAIN t /\ u[j] = t[j - Len(s)]
    <3>1. Rank(u[i].do) <= b /\ c <= Rank(u[j].do)
      BY <1>7, <2>3 DEF Sorted
    <3> QED
      BY <3>1, RankIsNat
  <2> QED
    BY <1>3, <2>1, <2>2, <2>3
<1>8. Sorted(u, a, e)
  BY <1>1, <1>2, <1>6, <1>7 DEF Sorted
<1> QED
  BY <1>2, <1>5, <1>8

(* They have what either has.                                              *)
LEMMA JoinsHas ==
    ASSUME NEW u, NEW s, NEW t, Joins(u, s, t)
    PROVE  \A do : Has(u, do) <=> Has(s, do) \/ Has(t, do)
BY DEF Joins, Has

(* The first command is done.                                              *)
LEMMA Popped ==
    ASSUME NEW cs, NEW lo \in Nat, NEW hi \in Nat, Sorted(cs, lo, hi), cs # <<>>
    PROVE  /\ Head(cs) = cs[1] /\ cs[1] \in Commands /\ 1 \in DOMAIN cs
           /\ Sorted(Tail(cs), lo, hi)
           /\ \A do : Has(cs, do) <=> cs[1].do = do \/ Has(Tail(cs), do)
           /\ \A do : Has(Tail(cs), do) /\ do # "load" /\ cs[1].do # "load"
                 => Rank(cs[1].do) <= Rank(do)
           /\ \A i \in DOMAIN Tail(cs) : i + 1 \in DOMAIN cs /\ Tail(cs)[i] = cs[i + 1]
<1>1. /\ Tail(cs) \in Seq(Commands) /\ Len(Tail(cs)) = Len(cs) - 1 /\ Len(cs) \in Nat
      /\ \A i \in 1 .. Len(cs) - 1 : Tail(cs)[i] = cs[i + 1]
      /\ DOMAIN cs = 1 .. Len(cs) /\ DOMAIN Tail(cs) = 1 .. Len(cs) - 1
      /\ Len(cs) >= 1 /\ Head(cs) = cs[1] /\ cs[1] \in Commands
  BY DEF Sorted
<1>2. PICK t : t = Tail(cs)
  OBVIOUS
<1>3. \A i \in DOMAIN t : i + 1 \in DOMAIN cs /\ t[i] = cs[i + 1] /\ i \in Nat
  BY <1>1, <1>2
<1>4. \A i \in DOMAIN cs : i = 1 \/ (i - 1 \in DOMAIN t /\ t[i - 1] = cs[i])
  BY <1>1, <1>2
<1>5. \A do : Has(cs, do) <=> cs[1].do = do \/ Has(t, do)
  BY <1>1, <1>3, <1>4 DEF Has
<1>6. Sorted(t, lo, hi)
  <2>1. t \in Seq(Commands)
    BY <1>1, <1>2
  <2>2. ASSUME NEW i \in DOMAIN t, NEW j \in DOMAIN t, i < j
        PROVE  i + 1 < j + 1 /\ i + 1 \in DOMAIN cs /\ j + 1 \in DOMAIN cs
    BY <1>3, <2>2
  <2>3. \A i, j \in DOMAIN t : i < j /\ t[i].do # "load" /\ t[j].do # "load"
          => Rank(t[i].do) <= Rank(t[j].do)
    BY <1>3, <2>2 DEF Sorted
  <2>4. \A i \in DOMAIN t : t[i].do # "load" => lo <= Rank(t[i].do) /\ Rank(t[i].do) <= hi
    BY <1>3 DEF Sorted
  <2> QED
    BY <2>1, <2>3, <2>4 DEF Sorted
<1>7. ASSUME NEW do, Has(t, do), do # "load", cs[1].do # "load"
      PROVE  Rank(cs[1].do) <= Rank(do)
  <2>1. PICK i \in DOMAIN t : t[i].do = do
    BY <1>7 DEF Has
  <2>2. 1 < i + 1 /\ i + 1 \in DOMAIN cs /\ cs[i + 1].do = do /\ 1 \in DOMAIN cs
    BY <1>1, <1>2, <1>3, <2>1
  <2> QED
    BY <1>7, <2>2 DEF Sorted
<1>8. 1 \in DOMAIN cs
  BY <1>1
<1> QED
  BY <1>1, <1>2, <1>3, <1>5, <1>6, <1>7, <1>8
-----------------------------------------------------------------------------
(* No commands are in order.                                               *)
LEMMA NoCommands == ASSUME NEW a, NEW b PROVE Sorted(<<>>, a, b) /\ \A do : ~Has(<<>>, do)
BY DEF Sorted, Has

(* What PushCommands and the other lists of a deploy have                  *)
(* (service.go:155).                                                       *)
LEMMA PushList ==
    ASSUME NEW d \in Ident
    PROVE  LET cs == PushCommands(d)
           IN  /\ Sorted(cs, 2, 3) /\ \A i \in DOMAIN cs : "d" \in DOMAIN cs[i] /\ cs[i].d = d
               /\ \A do : Has(cs, do) <=> do \in {"tag", "push"}
<1> DEFINE cs == PushCommands(d)
<1>1. /\ cs \in Seq(Commands) /\ DOMAIN cs = 1 .. 2
      /\ cs[1] = [do |-> "tag", d |-> d] /\ cs[2] = [do |-> "push", d |-> d]
  BY DEF PushCommands, Cmd, Commands, Dos
<1> HIDE DEF cs
<1>2. Rank("tag") = 2 /\ Rank("push") = 3
  BY DEF Rank
<1> QED
  BY <1>1, <1>2 DEF Sorted, Has, cs

LEMMA UpdateServiceList ==
    ASSUME NEW d \in Ident
    PROVE  LET cs == UpdateServiceCommands(d)
           IN  /\ Sorted(cs, 4, 5) /\ \A i \in DOMAIN cs : "d" \in DOMAIN cs[i] /\ cs[i].d = d
               /\ \A do : Has(cs, do) <=> do \in {"force_new_deployment", "services-stable"}
<1> DEFINE cs == UpdateServiceCommands(d)
<1>1. /\ cs \in Seq(Commands) /\ DOMAIN cs = 1 .. 2
      /\ cs[1] = [do |-> "force_new_deployment", d |-> d]
      /\ cs[2] = [do |-> "services-stable", d |-> d]
  BY DEF UpdateServiceCommands, Cmd, Commands, Dos
<1> HIDE DEF cs
<1>2. Rank("force_new_deployment") = 4 /\ Rank("services-stable") = 5
  BY DEF Rank
<1> QED
  BY <1>1, <1>2 DEF Sorted, Has, cs

LEMMA BuildList ==
    LET cs == BuildCommands
    IN  /\ Sorted(cs, 0, 1)
        /\ \A i \in DOMAIN cs : "d" \notin DOMAIN cs[i] /\ (cs[i].do = "load" => cs[i].env = "dev")
        /\ \A do : Has(cs, do) <=> do \in {"load", "build", "login"}
<1> DEFINE cs == BuildCommands
<1>1. /\ cs \in Seq(Commands) /\ DOMAIN cs = 1 .. 3
      /\ cs[1] = [do |-> "load", env |-> "dev"] /\ cs[2] = [do |-> "build"]
      /\ cs[3] = [do |-> "login"]
  BY DEF BuildCommands, Commands, Dos
<1> HIDE DEF cs
<1>2. Rank("build") = 0 /\ Rank("login") = 1
  BY DEF Rank
<1>3. DOMAIN cs = {1, 2, 3}
  BY <1>1
<1>4. Sorted(cs, 0, 1)
  BY <1>1, <1>2, <1>3 DEF Sorted
<1>5. /\ \A i \in DOMAIN cs : "d" \notin DOMAIN cs[i] /\ (cs[i].do = "load" => cs[i].env = "dev")
      /\ \A do : Has(cs, do) <=> do \in {"load", "build", "login"}
  BY <1>1, <1>3 DEF Has
<1> QED
  BY <1>4, <1>5 DEF cs

(* A finite set's members, in some order.                                  *)
LEMMA SequenceOf ==
    ASSUME NEW S, IsFiniteSet(S)
    PROVE  /\ SetToSeq(S) \in Seq(S)
           /\ \A x \in S : \E i \in DOMAIN SetToSeq(S) : SetToSeq(S)[i] = x
<1> DEFINE n == Cardinality(S)
<1>1. n \in Nat /\ ExistsBijection(1 .. n, S)
  BY FS_CardinalityType
<1>2. \E f \in [1 .. n -> S] : IsInjective(f)
  BY <1>1 DEF ExistsBijection, Bijection, Injection, IsInjective
<1>3. SetToSeq(S) \in [1 .. n -> S] /\ IsInjective(SetToSeq(S))
  BY <1>2 DEF SetToSeq
<1>4. SetToSeq(S) \in Injection(1 .. n, S)
  BY <1>3 DEF Injection, IsInjective
<1>5. Cardinality(1 .. n) = n
  BY <1>1, FS_Interval
<1>6. SetToSeq(S) \in Surjection(1 .. n, S)
  BY <1>4, <1>5, FS_Injection
<1>7. \A x \in S : \E i \in 1 .. n : SetToSeq(S)[i] = x
  BY <1>6 DEF Surjection
<1> QED
  BY <1>1, <1>3, <1>7

(* Every function of a deployment is updated, once its name is known.      *)
LEMMA UpdateLambdasList ==
    ASSUME NEW d \in Ident
    PROVE  LET cs == UpdateLambdasCommands(d)
           IN  /\ Sorted(cs, 6, 7) /\ \A i \in DOMAIN cs : "d" \in DOMAIN cs[i] /\ cs[i].d = d
               /\ \A do : Has(cs, do) => do \in {"list-exports", "update-function-code"}
               /\ Has(cs, "list-exports")
               /\ \A l \in Lambdas[d] : \E i \in DOMAIN cs :
                      cs[i].do = "update-function-code" /\ cs[i].l = l
<1> DEFINE mine == {e \in Exports : e[1] = d /\ e[2] = "service"}
           L == {e[4] : e \in {f \in mine : Len(f) = 4}}
           names == SetToSeq(L)
           look == <<Cmd("list-exports", d)>>
           update == [i \in DOMAIN names |-> [do |-> "update-function-code", d |-> d, l |-> names[i]]]
           cs == look \o update
<1>1. L = Lambdas[d]
  <2>1. \A e \in Exports : \E b \in Ident :
            \/ \E prop : e = <<b, "service", prop>>
            \/ \E l \in Lambdas[b] : e = <<b, "service", "lambda", l>>
    BY DEF Exports, ExportServiceInfo
  <2>2. \A l \in Lambdas[d] : <<d, "service", "lambda", l>> \in Exports
    BY DEF Exports, ExportServiceInfo
  <2>3. ASSUME NEW l \in Lambdas[d]
        PROVE  l \in L
    <3>1. PICK e : e = <<d, "service", "lambda", l>>
      OBVIOUS
    <3>2. e \in mine /\ Len(e) = 4 /\ e[4] = l
      BY <2>2, <3>1
    <3> QED
      BY <3>2
  <2>4. ASSUME NEW e \in mine, Len(e) = 4
        PROVE  e[4] \in Lambdas[d]
    BY <2>1, <2>4
  <2> QED
    BY <2>3, <2>4
<1>2. names \in Seq(Lambdas[d]) /\ \A l \in Lambdas[d] : \E i \in DOMAIN names : names[i] = l
  BY <1>1, SequenceOf, ServiceDeployAssumption
<1>3. UpdateLambdasCommands(d) = cs
  BY DEF UpdateLambdasCommands, ReadDeploymentInfo
<1> HIDE DEF names
<1>4. /\ look \in Seq(Commands) /\ DOMAIN look = 1 .. 1 /\ look[1] = [do |-> "list-exports", d |-> d]
      /\ Len(look) = 1
  BY DEF Cmd, Commands, Dos
<1>5. /\ update \in Seq(Commands) /\ DOMAIN update = DOMAIN names
      /\ \A i \in DOMAIN names :
            update[i] = [do |-> "update-function-code", d |-> d, l |-> names[i]]
  <2>1. DOMAIN names = 1 .. Len(names) /\ Len(names) \in Nat /\ \A i \in DOMAIN names : names[i] \in Lambdas[d]
    BY <1>2
  <2>2. ASSUME NEW l \in Lambdas[d]
        PROVE  [do |-> "update-function-code", d |-> d, l |-> l] \in Commands
    BY DEF Commands, Dos
  <2>3. \A i \in DOMAIN names : update[i] \in Commands
    BY <2>1, <2>2
  <2> QED
    BY <2>1, <2>3
<1> HIDE DEF look, update
<1>6. Rank("list-exports") = 6 /\ Rank("update-function-code") = 7
  BY DEF Rank
<1>7. Sorted(look, 6, 6) /\ \A do : Has(look, do) <=> do = "list-exports"
  BY <1>4, <1>6 DEF Sorted, Has
<1>8. Sorted(update, 7, 7) /\ \A do : Has(update, do) => do = "update-function-code"
  BY <1>5, <1>6 DEF Sorted, Has
<1>9. Sorted(cs, 6, 7) /\ Joins(cs, look, update)
  BY <1>7, <1>8, Joined
<1>10. PICK u : u = cs
  OBVIOUS
<1>11. Joins(u, look, update) /\ \A do : Has(u, do) <=> Has(look, do) \/ Has(update, do)
  BY <1>9, <1>10, JoinsHas
<1>12. \A i \in DOMAIN u : "d" \in DOMAIN u[i] /\ u[i].d = d
  BY <1>4, <1>5, <1>11 DEF Joins
<1>13. \A l \in Lambdas[d] : \E i \in DOMAIN u : u[i].do = "update-function-code" /\ u[i].l = l
  BY <1>2, <1>5, <1>11 DEF Joins
<1>14. /\ \A do : Has(u, do) => do \in {"list-exports", "update-function-code"}
       /\ Has(u, "list-exports")
  BY <1>7, <1>8, <1>11
<1> QED
  BY <1>3, <1>9, <1>10, <1>12, <1>13, <1>14

(* What a deploy has to do for a deployment.                               *)
DeployList(t, d, cs) ==
    /\ \A i \in DOMAIN cs : /\ "d" \in DOMAIN cs[i] => cs[i].d = d
                            /\ cs[i].do = "load" => cs[i].env = "dev"
    /\ \A do : Has(cs, do) => do \in {"load", "build", "login", "tag", "push", "force_new_deployment",
                                      "services-stable", "list-exports", "update-function-code"}
    /\ t.push => Has(cs, "tag") /\ Has(cs, "push")
    /\ Has(cs, "build") \/ Has(cs, "tag") \/ Has(cs, "push") => t.push
    /\ t.service => Has(cs, "force_new_deployment") /\ Has(cs, "services-stable")
    /\ Has(cs, "force_new_deployment") => t.service
    /\ t.lambdas => /\ Has(cs, "list-exports")
                    /\ \A l \in Lambdas[d] : \E i \in DOMAIN cs :
                           cs[i].do = "update-function-code" /\ cs[i].l = l

(* A deploy has the commands that its flags ask for.                       *)
LEMMA DeployCommandsList ==
    ASSUME NEW t \in ServiceTargets, NEW d \in Ident
    PROVE  /\ Sorted(DeployCommands(t, d), 2, 7) /\ DeployList(t, d, DeployCommands(t, d))
           /\ ~Has(DeployCommands(t, d), "build") /\ ~Has(DeployCommands(t, d), "load")
<1>1. PICK a : a = IF t.push THEN PushCommands(d) ELSE <<>>
  OBVIOUS
<1>2. PICK b : b = IF t.service THEN UpdateServiceCommands(d) ELSE <<>>
  OBVIOUS
<1>3. PICK c : c = IF t.lambdas THEN UpdateLambdasCommands(d) ELSE <<>>
  OBVIOUS
<1>4. /\ Sorted(a, 2, 3) /\ \A i \in DOMAIN a : "d" \in DOMAIN a[i] /\ a[i].d = d
      /\ \A do : Has(a, do) <=> t.push /\ do \in {"tag", "push"}
  BY <1>1, PushList, NoCommands
<1>5. /\ Sorted(b, 4, 5) /\ \A i \in DOMAIN b : "d" \in DOMAIN b[i] /\ b[i].d = d
      /\ \A do : Has(b, do) <=> t.service /\ do \in {"force_new_deployment", "services-stable"}
  BY <1>2, UpdateServiceList, NoCommands
<1>6. /\ Sorted(c, 6, 7) /\ \A i \in DOMAIN c : "d" \in DOMAIN c[i] /\ c[i].d = d
      /\ \A do : Has(c, do) => do \in {"list-exports", "update-function-code"}
      /\ t.lambdas => /\ Has(c, "list-exports")
                      /\ \A l \in Lambdas[d] : \E i \in DOMAIN c :
                           c[i].do = "update-function-code" /\ c[i].l = l
  BY <1>3, UpdateLambdasList, NoCommands
<1>7. PICK u : u = a \o b
  OBVIOUS
<1>8. Sorted(u, 2, 5) /\ Joins(u, a, b)
  BY <1>4, <1>5, <1>7, Joined
<1>9. PICK v : v = u \o c
  OBVIOUS
<1>10. Sorted(v, 2, 7) /\ Joins(v, u, c)
  BY <1>6, <1>8, <1>9, Joined
<1>11. \A do : Has(v, do) <=> Has(a, do) \/ Has(b, do) \/ Has(c, do)
  BY <1>8, <1>10, JoinsHas
<1>12. \A i \in DOMAIN u : u[i].d = d
  BY <1>4, <1>5, <1>8 DEF Joins
<1>13. \A i \in DOMAIN v : v[i].d = d
  BY <1>6, <1>10, <1>12 DEF Joins
<1>14. \A l \in Lambdas[d] : t.lambdas => \E i \in DOMAIN v :
                           v[i].do = "update-function-code" /\ v[i].l = l
  BY <1>6, <1>10 DEF Joins
<1>15. v = DeployCommands(t, d)
  BY <1>1, <1>2, <1>3, <1>7, <1>9 DEF DeployCommands
<1>16. ~Has(v, "build") /\ ~Has(v, "load") /\ \A i \in DOMAIN v : v[i].do # "load"
  <2>1. ~Has(v, "build") /\ ~Has(v, "load")
    BY <1>4, <1>5, <1>6, <1>11
  <2> QED
    BY <2>1 DEF Has
<1>17. DeployList(t, d, v)
  BY <1>4, <1>5, <1>6, <1>11, <1>13, <1>14, <1>16 DEF DeployList
<1> QED
  BY <1>10, <1>15, <1>16, <1>17

(* The lists of the targets of InfraDeploy.                               *)
LEMMA EcrList ==
    LET cs == EcrCommands
    IN  /\ Sorted(cs, 0, 7) /\ \A i \in DOMAIN cs : cs[i].do = "load" => cs[i].env = "dev"
        /\ \A do : Has(cs, do) <=> do \in {"load", "build", "up", "login", "inspect", "tag_digest",
                                          "push_digest", "put-parameter"}
<1> DEFINE cs == EcrCommands
<1>1. /\ cs \in Seq(Commands) /\ DOMAIN cs = 1 .. 8
      /\ cs[1] = [do |-> "load", env |-> "dev"] /\ cs[2] = [do |-> "build"]
      /\ cs[3] = [do |-> "up"] /\ cs[4] = [do |-> "login"] /\ cs[5] = [do |-> "inspect"]
      /\ cs[6] = [do |-> "tag_digest"] /\ cs[7] = [do |-> "push_digest"]
      /\ cs[8] = [do |-> "put-parameter"]
  BY DEF EcrCommands, Commands, Dos
<1> HIDE DEF cs
<1>2. /\ Rank("build") = 0 /\ Rank("up") = 1 /\ Rank("login") = 1 /\ Rank("inspect") = 2
      /\ Rank("tag_digest") = 3 /\ Rank("push_digest") = 4 /\ Rank("put-parameter") = 5
  BY DEF Rank
<1>3. DOMAIN cs = {1, 2, 3, 4, 5, 6, 7, 8}
  BY <1>1
<1>4. Sorted(cs, 0, 7) /\ \A i \in DOMAIN cs : cs[i].do = "load" => cs[i].env = "dev"
  BY <1>1, <1>2, <1>3 DEF Sorted
<1>5. \A do : Has(cs, do) <=> do \in {"load", "build", "up", "login", "inspect", "tag_digest",
                                     "push_digest", "put-parameter"}
  BY <1>1, <1>3 DEF Has
<1> QED
  BY <1>4, <1>5 DEF cs

LEMMA CdkList ==
    ASSUME NEW t \in [target : {"cdk_deploy", "cdk_diff", "cdk_list"}, env : Env]
    PROVE  LET cs == CdkCommands(t)
           IN  /\ Sorted(cs, 0, 7) /\ Has(cs, "chdir") /\ Has(cs, "synth")
               /\ Has(cs, "live_context") <=> t.target # "cdk_list"
               /\ Has(cs, "deploy_stack") <=> t.target = "cdk_deploy"
               /\ ~Has(cs, "build") /\ ~Has(cs, "load") /\ ~Has(cs, "apply") /\ ~Has(cs, "up")
<1>1. PICK a : a = IF t.target = "cdk_list" THEN <<>> ELSE <<[do |-> "live_context"]>>
  OBVIOUS
<1>2. PICK b : b = <<[do |-> "chdir"], [do |-> "synth"]>>
  OBVIOUS
<1>3. PICK c : c = IF t.target = "cdk_deploy" THEN <<[do |-> "deploy_stack"]>> ELSE <<>>
  OBVIOUS
<1>4. Rank("live_context") = 0 /\ Rank("chdir") = 1 /\ Rank("synth") = 2 /\ Rank("deploy_stack") = 3
  BY DEF Rank
<1>5. Sorted(a, 0, 0) /\ \A do : Has(a, do) <=> do = "live_context" /\ t.target # "cdk_list"
  <2>1. CASE t.target = "cdk_list"
    BY <1>1, <2>1, NoCommands
  <2>2. CASE t.target # "cdk_list"
    <3>1. a \in Seq(Commands) /\ DOMAIN a = {1} /\ a[1] = [do |-> "live_context"]
      BY <1>1, <2>2 DEF Commands, Dos
    <3> QED
      BY <1>4, <2>2, <3>1 DEF Sorted, Has
  <2> QED
    BY <2>1, <2>2
<1>6. Sorted(b, 1, 2) /\ \A do : Has(b, do) <=> do \in {"chdir", "synth"}
  <2>1. b \in Seq(Commands) /\ DOMAIN b = {1, 2} /\ b[1] = [do |-> "chdir"] /\ b[2] = [do |-> "synth"]
    BY <1>2 DEF Commands, Dos
  <2> QED
    BY <1>4, <2>1 DEF Sorted, Has
<1>7. Sorted(c, 3, 7) /\ \A do : Has(c, do) <=> do = "deploy_stack" /\ t.target = "cdk_deploy"
  <2>1. CASE t.target # "cdk_deploy"
    BY <1>3, <2>1, NoCommands
  <2>2. CASE t.target = "cdk_deploy"
    <3>1. c \in Seq(Commands) /\ DOMAIN c = {1} /\ c[1] = [do |-> "deploy_stack"]
      BY <1>3, <2>2 DEF Commands, Dos
    <3> QED
      BY <1>4, <2>2, <3>1 DEF Sorted, Has
  <2> QED
    BY <2>1, <2>2
<1>8. PICK u : u = a \o b
  OBVIOUS
<1>9. Sorted(u, 0, 2) /\ Joins(u, a, b)
  BY <1>5, <1>6, <1>8, Joined
<1>10. PICK v : v = u \o c
  OBVIOUS
<1>11. Sorted(v, 0, 7) /\ Joins(v, u, c)
  BY <1>7, <1>9, <1>10, Joined
<1>12. \A do : Has(v, do) <=> Has(a, do) \/ Has(b, do) \/ Has(c, do)
  BY <1>9, <1>11, JoinsHas
<1>13. v = CdkCommands(t)
  BY <1>1, <1>2, <1>3, <1>8, <1>10 DEF CdkCommands
<1> QED
  BY <1>5, <1>6, <1>7, <1>11, <1>12, <1>13
-----------------------------------------------------------------------------
(* The environment is loaded before migrations are applied.                *)
LoadsFirst(cs, env, ready) ==
    \A i \in DOMAIN cs :
        /\ cs[i].do = "load" => cs[i].env = env
        /\ cs[i].do = "apply" => ready \/ \E j \in DOMAIN cs : j < i /\ cs[j].do = "load"

(* Lists that each load first do so one after the other.                   *)
LEMMA LoadsJoined ==
    ASSUME NEW s \in Seq(Commands), NEW t \in Seq(Commands), NEW env,
           LoadsFirst(s, env, FALSE), LoadsFirst(t, env, FALSE)
    PROVE  LoadsFirst(s \o t, env, FALSE)
<1>1. /\ Len(s \o t) = Len(s) + Len(t) /\ Len(s) \in Nat /\ Len(t) \in Nat
      /\ \A i \in 1 .. Len(s \o t) : (s \o t)[i] = IF i <= Len(s) THEN s[i] ELSE t[i - Len(s)]
      /\ DOMAIN s = 1 .. Len(s) /\ DOMAIN t = 1 .. Len(t) /\ DOMAIN (s \o t) = 1 .. Len(s \o t)
  OBVIOUS
<1>2. PICK u : u = s \o t
  OBVIOUS
<1>3. ASSUME NEW i \in DOMAIN u
      PROVE  /\ u[i].do = "load" => u[i].env = env
             /\ u[i].do = "apply" => \E j \in DOMAIN u : j < i /\ u[j].do = "load"
  <2>1. CASE i \in DOMAIN s /\ u[i] = s[i]
    BY <1>1, <1>2, <2>1 DEF LoadsFirst
  <2>2. CASE i > Len(s) /\ i - Len(s) \in DOMAIN t /\ u[i] = t[i - Len(s)]
    <3>1. u[i].do = "load" => u[i].env = env
      BY <2>2 DEF LoadsFirst
    <3>2. ASSUME u[i].do = "apply"
          PROVE  \E j \in DOMAIN u : j < i /\ u[j].do = "load"
      <4>1. PICK j \in DOMAIN t : j < i - Len(s) /\ t[j].do = "load"
        BY <2>2, <3>2 DEF LoadsFirst
      <4>2. j + Len(s) \in DOMAIN u /\ u[j + Len(s)] = t[j] /\ j + Len(s) < i
        BY <1>1, <1>2, <2>2, <4>1
      <4> QED
        BY <4>1, <4>2
    <3> QED
      BY <3>1, <3>2
  <2> QED
    BY <1>1, <1>2, <2>1, <2>2
<1> QED
  BY <1>2, <1>3 DEF LoadsFirst

(* The first command is done: it may have been what loads.                 *)
LEMMA LoadsPopped ==
    ASSUME NEW cs, NEW lo \in Nat, NEW hi \in Nat, Sorted(cs, lo, hi), cs # <<>>,
           NEW env, NEW ready, LoadsFirst(cs, env, ready)
    PROVE  /\ cs[1].do = "load" => cs[1].env = env /\ LoadsFirst(Tail(cs), env, TRUE)
           /\ cs[1].do = "apply" => ready
           /\ cs[1].do # "load" => LoadsFirst(Tail(cs), env, ready)
<1>1. PICK t : t = Tail(cs)
  OBVIOUS
<1>2. /\ 1 \in DOMAIN cs
      /\ \A i \in DOMAIN t : i + 1 \in DOMAIN cs /\ t[i] = cs[i + 1] /\ i \in Nat
      /\ \A i \in DOMAIN cs : i \in Nat /\ i >= 1 /\ (i = 1 \/ (i - 1 \in DOMAIN t /\ t[i - 1] = cs[i]))
  BY <1>1 DEF Sorted
<1>3. cs[1].do = "apply" => ready
  BY <1>2 DEF LoadsFirst
<1>4. ASSUME NEW i \in DOMAIN t, t[i].do = "apply", cs[1].do # "load", ~ready
      PROVE  \E j \in DOMAIN t : j < i /\ t[j].do = "load"
  <2>1. PICK j \in DOMAIN cs : j < i + 1 /\ cs[j].do = "load"
    BY <1>2, <1>4 DEF LoadsFirst
  <2>2. j - 1 \in DOMAIN t /\ t[j - 1] = cs[j] /\ j - 1 < i
    BY <1>2, <1>4, <2>1
  <2> QED
    BY <2>1, <2>2
<1> QED
  BY <1>1, <1>2, <1>3, <1>4 DEF LoadsFirst
-----------------------------------------------------------------------------
(* A list in order, of which LoadsFirst holds, and what it has.            *)
Steps(cs, lo, hi, env, dos) ==
    /\ Sorted(cs, lo, hi) /\ LoadsFirst(cs, env, FALSE)
    /\ \A do : Has(cs, do) <=> do \in dos

(* Steps of lists make those of the whole.                                 *)
LEMMA StepsJoined ==
    ASSUME NEW s, NEW t, NEW a \in Nat, NEW b \in Nat, NEW c \in Nat, NEW e \in Nat,
           NEW env, NEW ds, NEW dt,
           Steps(s, a, b, env, ds), Steps(t, c, e, env, dt), a <= b, b <= c, c <= e
    PROVE  Steps(s \o t, a, e, env, ds \cup dt)
<1>1. Sorted(s \o t, a, e) /\ Joins(s \o t, s, t)
  BY Joined DEF Steps
<1>2. LoadsFirst(s \o t, env, FALSE)
  BY LoadsJoined DEF Steps, Sorted
<1>3. PICK u : u = s \o t
  OBVIOUS
<1>4. \A do : Has(u, do) <=> do \in ds \cup dt
  BY <1>1, <1>3, JoinsHas DEF Steps
<1> QED
  BY <1>1, <1>2, <1>3, <1>4 DEF Steps

(* The lists of the targets of stdmageatlas and stdmagepgschema.           *)
LEMMA ApplyList ==
    ASSUME NEW tool \in {"atlas", "goose"}, NEW env \in {"dev"} \cup Shared
    PROVE  Steps(ApplyCommands(tool, env), 5, 5, env, {"load", "apply"})
<1>1. PICK cs : cs = ApplyCommands(tool, env)
  OBVIOUS
<1>2. /\ cs \in Seq(Commands) /\ DOMAIN cs = {1, 2}
      /\ cs[1] = [do |-> "load", env |-> env] /\ cs[2] = [do |-> "apply", tool |-> tool]
  BY <1>1 DEF ApplyCommands, Commands, Dos
<1>3. Rank("apply") = 5
  BY DEF Rank
<1> QED
  BY <1>1, <1>2, <1>3 DEF Steps, Sorted, Has, LoadsFirst

LEMMA SnapshotList ==
    ASSUME NEW tool \in {"atlas", "goose"}
    PROVE  Steps(SnapshotCommands(tool), 4, 7, "dev", {"load", "restart", "apply", "pg_dump"})
<1>1. PICK a : a = <<[do |-> "load", env |-> "dev"], [do |-> "restart"]>>
  OBVIOUS
<1>2. PICK b : b = ApplyCommands(tool, "dev")
  OBVIOUS
<1>3. PICK c : c = <<[do |-> "pg_dump", tool |-> tool]>>
  OBVIOUS
<1>4. Rank("restart") = 4 /\ Rank("pg_dump") = 6
  BY DEF Rank
<1>5. Steps(a, 4, 4, "dev", {"load", "restart"})
  <2>1. /\ a \in Seq(Commands) /\ DOMAIN a = {1, 2}
        /\ a[1] = [do |-> "load", env |-> "dev"] /\ a[2] = [do |-> "restart"]
    BY <1>1 DEF Commands, Dos
  <2> QED
    BY <1>4, <2>1 DEF Steps, Sorted, Has, LoadsFirst
<1>6. Steps(b, 5, 5, "dev", {"load", "apply"})
  BY <1>2, ApplyList
<1>7. Steps(c, 6, 7, "dev", {"pg_dump"})
  <2>1. c \in Seq(Commands) /\ DOMAIN c = {1} /\ c[1] = [do |-> "pg_dump", tool |-> tool]
    BY <1>3 DEF Commands, Dos
  <2> QED
    BY <1>4, <2>1 DEF Steps, Sorted, Has, LoadsFirst
<1>8. PICK u : u = a \o b
  OBVIOUS
<1>9. Steps(u, 4, 5, "dev", {"load", "restart"} \cup {"load", "apply"})
  BY <1>5, <1>6, <1>8, StepsJoined
<1>10. Steps(u \o c, 4, 7, "dev", ({"load", "restart"} \cup {"load", "apply"}) \cup {"pg_dump"})
  BY <1>7, <1>9, StepsJoined
<1>11. u \o c = SnapshotCommands(tool)
  BY <1>1, <1>2, <1>3, <1>8 DEF SnapshotCommands
<1>12. ({"load", "restart"} \cup {"load", "apply"}) \cup {"pg_dump"} = {"load", "restart", "apply", "pg_dump"}
  OBVIOUS
<1> QED
  BY <1>10, <1>11, <1>12

LEMMA DiffList ==
    ASSUME NEW name \in STRING
    PROVE  Steps(DiffCommands(name), 2, 2, "dev", {"load", "diff"})
<1>1. PICK cs : cs = DiffCommands(name)
  OBVIOUS
<1>2. /\ cs \in Seq(Commands) /\ DOMAIN cs = {1, 2}
      /\ cs[1] = [do |-> "load", env |-> "dev"] /\ cs[2] = [do |-> "diff", name |-> name]
  BY <1>1 DEF DiffCommands, Commands, Dos, Writes
<1>3. Rank("diff") = 2
  BY DEF Rank
<1> QED
  BY <1>1, <1>2, <1>3 DEF Steps, Sorted, Has, LoadsFirst

(* Iterate has the commands of a snapshot after those that write           *)
(* migrations, and removes the migration of this name first if there is    *)
(* one.                                                                    *)
LEMMA IterateList ==
    ASSUME NEW name \in STRING, NEW m
    PROVE  \E dos : /\ Steps(IterateCommands(m, name), 0, 7, "dev", dos)
                    /\ {"diff", "patch", "restart", "apply", "pg_dump"} \subseteq dos
                    /\ "build" \notin dos
                    /\ dos \subseteq {"remove", "load", "hash", "diff", "patch", "restart", "apply",
                                     "pg_dump"}
<1>2. PICK r : r = IF Named(m, name) THEN <<[do |-> "remove"]>> \o HashCommands ELSE <<>>
  OBVIOUS
<1>3. PICK h : h = IF Named(m, name) THEN {"remove", "load", "hash"} ELSE {}
  OBVIOUS
<1>4. Rank("remove") = 0 /\ Rank("hash") = 1 /\ Rank("patch") = 3
  BY DEF Rank
<1>5. Steps(r, 0, 1, "dev", h)
  <2>1. CASE ~Named(m, name)
    <3>1. r = <<>> /\ h = {}
      BY <1>2, <1>3, <2>1
    <3>2. DOMAIN r = {}
      BY <3>1
    <3> QED
      BY <3>1, <3>2, NoCommands DEF Steps, LoadsFirst
  <2>2. CASE Named(m, name)
    <3>1. PICK f : f = <<[do |-> "remove"]>>
      OBVIOUS
    <3>2. PICK g : g = HashCommands
      OBVIOUS
    <3>3. f \in Seq(Commands) /\ DOMAIN f = {1} /\ f[1] = [do |-> "remove"]
      BY <3>1 DEF Commands, Dos
    <3>4. /\ g \in Seq(Commands) /\ DOMAIN g = {1, 2}
          /\ g[1] = [do |-> "load", env |-> "dev"] /\ g[2] = [do |-> "hash"]
      BY <3>2 DEF HashCommands, Commands, Dos
    <3>5. Steps(f, 0, 0, "dev", {"remove"}) /\ Steps(g, 1, 1, "dev", {"load", "hash"})
      BY <1>4, <3>3, <3>4 DEF Steps, Sorted, Has, LoadsFirst
    <3>6. Steps(f \o g, 0, 1, "dev", {"remove"} \cup {"load", "hash"})
      BY <3>5, StepsJoined
    <3>7. r = f \o g
      BY <1>2, <2>2, <3>1, <3>2
    <3>8. h = {"remove"} \cup {"load", "hash"}
      BY <1>3, <2>2
    <3> QED
      BY <3>6, <3>7, <3>8
  <2> QED
    BY <2>1, <2>2
<1>6. PICK d : d = DiffCommands(name)
  OBVIOUS
<1>7. PICK p : p = <<[do |-> "patch", name |-> name]>>
  OBVIOUS
<1>8. PICK s : s = SnapshotCommands("atlas")
  OBVIOUS
<1>9. Steps(p, 3, 3, "dev", {"patch"})
  <2>1. p \in Seq(Commands) /\ DOMAIN p = {1} /\ p[1] = [do |-> "patch", name |-> name]
    BY <1>7 DEF Commands, Writes
  <2> QED
    BY <1>4, <2>1 DEF Steps, Sorted, Has, LoadsFirst
<1>10. Steps(d, 2, 2, "dev", {"load", "diff"}) /\ Steps(s, 4, 7, "dev", {"load", "restart", "apply", "pg_dump"})
  BY <1>6, <1>8, DiffList, SnapshotList
<1>11. Steps(r \o d, 0, 2, "dev", h \cup {"load", "diff"})
  BY <1>5, <1>10, StepsJoined
<1>12. Steps((r \o d) \o p, 0, 3, "dev", (h \cup {"load", "diff"}) \cup {"patch"})
  BY <1>9, <1>11, StepsJoined
<1>13. Steps(((r \o d) \o p) \o s, 0, 7, "dev",
             ((h \cup {"load", "diff"}) \cup {"patch"}) \cup {"load", "restart", "apply", "pg_dump"})
  BY <1>10, <1>12, StepsJoined
<1>14. ((r \o d) \o p) \o s = IterateCommands(m, name)
  BY <1>2, <1>6, <1>7, <1>8 DEF IterateCommands
<1> QED
  BY <1>3, <1>13, <1>14
-----------------------------------------------------------------------------
(* A deploy with its build is in order too.                                *)
LEMMA DeployListWithBuild ==
    ASSUME NEW t \in ServiceTargets
    PROVE  LET cs == (IF t.build THEN BuildCommands ELSE <<>>) \o DeployCommands(t, t.d)
           IN  /\ Sorted(cs, 0, 7) /\ DeployList(t, t.d, cs)
               /\ Has(cs, "build") => t.build
<1>1. PICK a : a = IF t.build THEN BuildCommands ELSE <<>>
  OBVIOUS
<1>2. PICK b : b = DeployCommands(t, t.d)
  OBVIOUS
<1>3. t.d \in Ident /\ (t.build => t.push)
  BY DEF ServiceTargets
<1>4. /\ Sorted(a, 0, 1)
      /\ \A i \in DOMAIN a : "d" \notin DOMAIN a[i] /\ (a[i].do = "load" => a[i].env = "dev")
      /\ \A do : Has(a, do) <=> t.build /\ do \in {"load", "build", "login"}
  <2>1. CASE t.build
    BY <1>1, <2>1, BuildList
  <2>2. CASE ~t.build
    <3>1. a = <<>>
      BY <1>1, <2>2
    <3>2. DOMAIN a = {}
      BY <3>1
    <3> QED
      BY <2>2, <3>1, <3>2, NoCommands
  <2> QED
    BY <2>1, <2>2
<1>5. Sorted(b, 2, 7) /\ DeployList(t, t.d, b) /\ ~Has(b, "build")
  BY <1>2, <1>3, DeployCommandsList
<1>6. PICK u : u = a \o b
  OBVIOUS
<1>7. Sorted(u, 0, 7) /\ Joins(u, a, b)
  BY <1>4, <1>5, <1>6, Joined
<1>8. \A do : Has(u, do) <=> Has(a, do) \/ Has(b, do)
  BY <1>7, JoinsHas
<1>9. \A i \in DOMAIN u : /\ "d" \in DOMAIN u[i] => u[i].d = t.d
                          /\ u[i].do = "load" => u[i].env = "dev"
  BY <1>4, <1>5, <1>7 DEF Joins, DeployList
<1>10. \A l \in Lambdas[t.d] : t.lambdas => \E i \in DOMAIN u :
                           u[i].do = "update-function-code" /\ u[i].l = l
  <2>1. ASSUME NEW l \in Lambdas[t.d], t.lambdas
        PROVE  \E i \in DOMAIN u : u[i].do = "update-function-code" /\ u[i].l = l
    <3>1. PICK j \in DOMAIN b : b[j].do = "update-function-code" /\ b[j].l = l
      BY <1>5, <2>1 DEF DeployList
    <3> QED
      BY <1>7, <3>1 DEF Joins
  <2> QED
    BY <2>1
<1>11. DeployList(t, t.d, u)
  BY <1>3, <1>4, <1>5, <1>8, <1>9, <1>10 DEF DeployList
<1> QED
  BY <1>1, <1>2, <1>4, <1>5, <1>6, <1>7, <1>8, <1>11

(* A list in order is so between 0 and 7.                                  *)
LEMMA Wider ==
    ASSUME NEW cs, NEW a \in 0 .. 7, NEW b \in 0 .. 7, Sorted(cs, a, b)
    PROVE  Sorted(cs, 0, 7)
BY RankIsNat DEF Sorted

(* Stages have one worker, or one for each deployment.                     *)
Stage == [{"main"} -> Seq(Commands)] \cup [DeploymentIdents -> Seq(Commands)]

(* The stages of a target that are left: each worker's commands in order.  *)
Staged(t, stages) ==
    /\ stages \in Seq(Stage)
    /\ IF ServiceTarget(t) /\ t.all
       THEN \/ /\ Len(stages) = 2 /\ DOMAIN stages[1] = {"main"}
               /\ stages[2] = [d \in DeploymentIdents |-> DeployCommands(t, d)]
            \/ Len(stages) = 1 /\ DOMAIN stages[1] = DeploymentIdents
       ELSE Len(stages) = 1 /\ DOMAIN stages[1] = {"main"}
    /\ \A w \in DOMAIN stages[1] : Sorted(stages[1][w], 0, 7)

(* A target is of one kind.                                                *)
LEMMA TargetKinds ==
    ASSUME NEW t \in Target
    PROVE  /\ ServiceTarget(t) <=> t \in ServiceTargets
           /\ InfraTarget(t) <=> t \in InfraTargets
           /\ ~ServiceTarget(t) /\ ~InfraTarget(t) <=> t \in SchemaTargets
           /\ ~(ServiceTarget(t) /\ InfraTarget(t))
<1>1. \A x \in ServiceTargets : x.target = "service"
  BY DEF ServiceTargets
<1>2. \A x \in InfraTargets : x.target \in {"ecr", "cdk_deploy", "cdk_diff", "cdk_list"}
  BY DEF InfraTargets
<1>3. \A x \in SchemaTargets : x.target \in {"iterate", "diff", "snapshot", "apply"}
  BY DEF SchemaTargets
<1> QED
  BY <1>1, <1>2, <1>3 DEF Target, ServiceTarget, InfraTarget

(* One worker's list, alone.                                               *)
LEMMA OneStage ==
    ASSUME NEW cs, Sorted(cs, 0, 7), NEW t, ~(ServiceTarget(t) /\ t.all)
    PROVE  Staged(t, <<One(cs)>>) /\ <<One(cs)>>[1]["main"] = cs
<1>1. cs \in Seq(Commands)
  BY DEF Sorted
<1>2. One(cs) \in Stage /\ DOMAIN One(cs) = {"main"} /\ One(cs)["main"] = cs
  BY <1>1 DEF One, Stage
<1>3. PICK f : f = One(cs)
  OBVIOUS
<1>4. PICK s : s = <<f>>
  OBVIOUS
<1>5. s \in Seq(Stage) /\ Len(s) = 1 /\ s[1] = f
  BY <1>2, <1>3, <1>4
<1> QED
  BY <1>2, <1>3, <1>4, <1>5 DEF Staged

(* The stages a target begins with are as Staged says, kind by kind.       *)
LEMMA ServiceStaged ==
    ASSUME NEW t \in ServiceTargets
    PROVE  /\ Staged(t, ServiceStages(t))
           /\ t.all => Len(ServiceStages(t)) = 2 /\ ServiceStages(t)[1]["main"] = BuildCommands
           /\ ~t.all => /\ DeployList(t, t.d, ServiceStages(t)[1]["main"])
                        /\ Has(ServiceStages(t)[1]["main"], "build") => t.build
<1>1. CASE t.all
  <2>1. PICK f : f = One(BuildCommands)
    OBVIOUS
  <2>2. PICK g : g = [d \in DeploymentIdents |-> DeployCommands(t, d)]
    OBVIOUS
  <2>3. PICK s : s = <<f, g>>
    OBVIOUS
  <2>4. Sorted(BuildCommands, 0, 1)
    BY BuildList
  <2>5. PICK bs : bs = BuildCommands
    OBVIOUS
  <2>6. Sorted(bs, 0, 7) /\ bs \in Seq(Commands)
    <3>1. Sorted(bs, 0, 1)
      BY <2>4, <2>5
    <3>2. Sorted(bs, 0, 7)
      BY <3>1, Wider
    <3> QED
      BY <3>2 DEF Sorted
  <2>7. f \in Stage /\ DOMAIN f = {"main"} /\ f["main"] = bs
    BY <2>1, <2>5, <2>6 DEF One, Stage
  <2>8. \A d \in DeploymentIdents : DeployCommands(t, d) \in Seq(Commands)
    BY ServiceDeployAssumption, DeployCommandsList DEF Sorted
  <2>9. g \in [DeploymentIdents -> Seq(Commands)]
    BY <2>2, <2>8
  <2>10. s \in Seq(Stage) /\ Len(s) = 2 /\ s[1] = f /\ s[2] = g
    BY <2>3, <2>7, <2>9 DEF Stage
  <2>11. ServiceTarget(t)
    BY DEF ServiceTargets, ServiceTarget
  <2>12. Staged(t, s)
    BY <1>1, <2>2, <2>6, <2>7, <2>10, <2>11 DEF Staged
  <2>13. s = ServiceStages(t)
    BY <1>1, <2>1, <2>2, <2>3 DEF ServiceStages
  <2> QED
    BY <1>1, <2>5, <2>7, <2>10, <2>12, <2>13
<1>2. CASE ~t.all
  <2>1. PICK cs : cs = (IF t.build THEN BuildCommands ELSE <<>>) \o DeployCommands(t, t.d)
    OBVIOUS
  <2>2. Sorted(cs, 0, 7) /\ DeployList(t, t.d, cs) /\ (Has(cs, "build") => t.build)
    BY <2>1, DeployListWithBuild
  <2>3. ServiceStages(t) = <<One(cs)>>
    BY <1>2, <2>1 DEF ServiceStages
  <2> QED
    BY <1>2, <2>2, <2>3, OneStage
<1> QED
  BY <1>1, <1>2

LEMMA InfraStaged ==
    ASSUME NEW t \in InfraTargets
    PROVE  /\ Staged(t, InfraStages(t)) /\ Len(InfraStages(t)) = 1
           /\ InfraStages(t)[1]["main"] = IF t.target = "ecr" THEN EcrCommands ELSE CdkCommands(t)
<1>1. PICK cs : cs = IF t.target = "ecr" THEN EcrCommands ELSE CdkCommands(t)
  OBVIOUS
<1>2. t.target # "ecr" => t \in [target : {"cdk_deploy", "cdk_diff", "cdk_list"}, env : Env]
  BY DEF InfraTargets
<1>3. Sorted(cs, 0, 7)
  BY <1>1, <1>2, EcrList, CdkList
<1>4. ~ServiceTarget(t)
  BY DEF InfraTargets, ServiceTarget
<1>5. InfraStages(t) = <<One(cs)>>
  BY <1>1 DEF InfraStages
<1>6. Staged(t, InfraStages(t)) /\ InfraStages(t)[1]["main"] = cs
  BY <1>3, <1>4, <1>5, OneStage
<1> QED
  BY <1>1, <1>4, <1>6 DEF Staged

(* A target that migrates loads the environment it was asked for first.    *)
LEMMA SchemaStaged ==
    ASSUME NEW t \in SchemaTargets, NEW m
    PROVE  LET cs == SchemaStages(t, m)[1]["main"]
           IN  /\ Staged(t, SchemaStages(t, m)) /\ Len(SchemaStages(t, m)) = 1
               /\ LoadsFirst(cs, Where(t), FALSE)
               /\ t.target \in {"iterate", "snapshot"} =>
                      Has(cs, "restart") /\ Has(cs, "apply") /\ Has(cs, "pg_dump")
               /\ ~Has(cs, "build")
<1> DEFINE Of == CASE t.target = "iterate" -> IterateCommands(m, t.name)
            [] t.target = "diff" -> DiffCommands(t.name)
            [] t.target = "snapshot" -> SnapshotCommands(t.tool)
            [] t.target = "apply" -> ApplyCommands(t.tool, t.to)
<1>1. PICK cs : cs = Of
  OBVIOUS
<1>2. /\ Sorted(cs, 0, 7)
      /\ LoadsFirst(cs, Where(t), FALSE)
      /\ t.target \in {"iterate", "snapshot"} =>
            Has(cs, "restart") /\ Has(cs, "apply") /\ Has(cs, "pg_dump")
      /\ ~Has(cs, "build")
  <2>1. CASE t.target = "iterate"
    <3>1. t.name \in STRING /\ cs = IterateCommands(m, t.name) /\ Where(t) = "dev"
      BY <1>1, <2>1 DEF SchemaTargets, Where
    <3>2. PICK dos : /\ Steps(cs, 0, 7, "dev", dos) /\ "build" \notin dos
                     /\ {"diff", "patch", "restart", "apply", "pg_dump"} \subseteq dos
      BY <3>1, IterateList
    <3>3. Sorted(cs, 0, 7)
      BY <3>2, Wider DEF Steps
    <3>4. LoadsFirst(cs, Where(t), FALSE)
      BY <3>1, <3>2 DEF Steps
    <3>5. t.target \in {"iterate", "snapshot"} =>
              Has(cs, "restart") /\ Has(cs, "apply") /\ Has(cs, "pg_dump")
      BY <3>2 DEF Steps
    <3>6. ~Has(cs, "build")
      BY <3>2 DEF Steps
    <3> QED
      BY <3>3, <3>4, <3>5, <3>6
  <2>2. CASE t.target = "diff"
    <3>1. t.name \in STRING /\ cs = DiffCommands(t.name) /\ Where(t) = "dev"
      BY <1>1, <2>2 DEF SchemaTargets, Where
    <3>2. Steps(cs, 2, 2, "dev", {"load", "diff"})
      BY <3>1, DiffList
    <3>3. Sorted(cs, 0, 7)
      BY <3>2, Wider DEF Steps
    <3>4. LoadsFirst(cs, Where(t), FALSE)
      BY <3>1, <3>2 DEF Steps
    <3>5. t.target \in {"iterate", "snapshot"} =>
              Has(cs, "restart") /\ Has(cs, "apply") /\ Has(cs, "pg_dump")
      BY <2>2, <3>2 DEF Steps
    <3>6. ~Has(cs, "build")
      BY <3>2 DEF Steps
    <3> QED
      BY <3>3, <3>4, <3>5, <3>6
  <2>3. CASE t.target = "snapshot"
    <3>1. t.tool \in {"atlas", "goose"} /\ cs = SnapshotCommands(t.tool) /\ Where(t) = "dev"
      BY <1>1, <2>3 DEF SchemaTargets, Where
    <3>2. Steps(cs, 4, 7, "dev", {"load", "restart", "apply", "pg_dump"})
      BY <3>1, SnapshotList
    <3>3. Sorted(cs, 0, 7)
      BY <3>2, Wider DEF Steps
    <3>4. LoadsFirst(cs, Where(t), FALSE)
      BY <3>1, <3>2 DEF Steps
    <3>5. t.target \in {"iterate", "snapshot"} =>
              Has(cs, "restart") /\ Has(cs, "apply") /\ Has(cs, "pg_dump")
      BY <2>3, <3>2 DEF Steps
    <3>6. ~Has(cs, "build")
      BY <3>2 DEF Steps
    <3> QED
      BY <3>3, <3>4, <3>5, <3>6
  <2>4. CASE t.target = "apply"
    <3>1. t.tool \in {"atlas", "goose"} /\ t.to \in {"dev"} \cup Shared
          /\ cs = ApplyCommands(t.tool, t.to) /\ Where(t) = t.to
      BY <1>1, <2>4 DEF SchemaTargets, Where
    <3>2. Steps(cs, 5, 5, t.to, {"load", "apply"})
      BY <3>1, ApplyList
    <3>3. Sorted(cs, 0, 7)
      BY <3>2, Wider DEF Steps
    <3>4. LoadsFirst(cs, Where(t), FALSE)
      BY <3>1, <3>2 DEF Steps
    <3>5. t.target \in {"iterate", "snapshot"} =>
              Has(cs, "restart") /\ Has(cs, "apply") /\ Has(cs, "pg_dump")
      BY <2>4, <3>2 DEF Steps
    <3>6. ~Has(cs, "build")
      BY <3>2 DEF Steps
    <3> QED
      BY <3>3, <3>4, <3>5, <3>6
  <2>5. t.target \in {"iterate", "diff", "snapshot", "apply"}
    BY DEF SchemaTargets
  <2> QED
    BY <2>1, <2>2, <2>3, <2>4, <2>5
<1>3. ~ServiceTarget(t)
  BY DEF SchemaTargets, ServiceTarget
<1>4. SchemaStages(t, m) = <<One(cs)>>
  BY <1>1 DEF SchemaStages
<1>5. Staged(t, SchemaStages(t, m)) /\ SchemaStages(t, m)[1]["main"] = cs
  BY <1>2, <1>3, <1>4, OneStage
<1> QED
  BY <1>2, <1>3, <1>5 DEF Staged

(* What a target begins with.                                              *)
LEMMA TargetStaged ==
    ASSUME NEW t \in Target, NEW o \in Operator
    PROVE  Staged(t, Stages(t, o)) /\ Stages(t, o) # <<>>
<1>1. CASE ServiceTarget(t)
  <2>1. Stages(t, o) = ServiceStages(t) /\ t \in ServiceTargets
    BY <1>1, TargetKinds DEF Stages
  <2> QED
    BY <2>1, ServiceStaged DEF Staged
<1>2. CASE InfraTarget(t)
  <2>1. Stages(t, o) = InfraStages(t) /\ t \in InfraTargets
    BY <1>2, TargetKinds DEF Stages
  <2> QED
    BY <2>1, InfraStaged DEF Staged
<1>3. CASE ~ServiceTarget(t) /\ ~InfraTarget(t)
  <2>1. Stages(t, o) = SchemaStages(t, Here(o)) /\ t \in SchemaTargets
    BY <1>3, TargetKinds DEF Stages
  <2>2. Staged(t, Stages(t, o)) /\ Len(Stages(t, o)) = 1
    BY <2>1, SchemaStaged
  <2> QED
    BY <2>2
<1> QED
  BY <1>1, <1>2, <1>3
-----------------------------------------------------------------------------
(* What a process is asked for.                                            *)
Asked(o) == {session[o].targets[i] : i \in DOMAIN session[o].targets}

(* A process has these fields.                                             *)
Formed(p) ==
    p = [todo |-> p.todo, at |-> p.at, stages |-> p.stages, status |-> p.status,
         built |-> p.built, digest |-> p.digest, mark |-> p.mark, from |-> p.from,
         url |-> p.url, inside |-> p.inside]

(* A worker that failed does nothing more.                                 *)
Halted(p) ==
    p.status # "running" /\ p.stages # <<>> /\ DOMAIN p.stages[1] = {"main"} =>
        p.stages[1]["main"] = <<>>

(* A process is at a target it was asked for, some of which is left.       *)
Frame ==
    /\ session \in Session
    /\ proc = [o \in Operator |-> proc[o]]
    /\ \A o \in Operator :
        /\ Formed(proc[o])
        /\ proc[o].todo \in Seq(Asked(o))
        /\ proc[o].stages # <<>> => proc[o].at \in Asked(o) /\ Staged(proc[o].at, proc[o].stages)
        /\ Halted(proc[o])

(* Only what a command sets is not what it was.                            *)
Same(p, q, but) ==
    /\ "todo" \notin but => q.todo = p.todo
    /\ "at" \notin but => q.at = p.at
    /\ "stages" \notin but => q.stages = p.stages
    /\ "status" \notin but => q.status = p.status
    /\ "built" \notin but => q.built = p.built
    /\ "digest" \notin but => q.digest = p.digest
    /\ "mark" \notin but => q.mark = p.mark
    /\ "from" \notin but => q.from = p.from
    /\ "url" \notin but => q.url = p.url
    /\ "inside" \notin but => q.inside = p.inside

(* With other stages a process is else the same.                           *)
LEMMA WithStages ==
    ASSUME NEW p, Formed(p), NEW x, NEW q, q = [p EXCEPT !.stages = x]
    PROVE  Formed(q) /\ Same(p, q, {"stages"}) /\ q.stages = x
<1>1. PICK a, b, c, d, e, f, g, h, i, j :
        p = [todo |-> a, at |-> b, stages |-> c, status |-> d, built |-> e, digest |-> f,
             mark |-> g, from |-> h, url |-> i, inside |-> j]
  BY DEF Formed
<1> QED
  BY <1>1 DEF Formed, Same

(* Worker w's list has one command less.                                   *)
Shorter(t, s, w, u) ==
    /\ Staged(t, u) /\ Len(u) = Len(s) /\ DOMAIN u[1] = DOMAIN s[1]
    /\ u[1][w] = Tail(s[1][w])
    /\ \A x \in DOMAIN s[1] : x # w => u[1][x] = s[1][x]
    /\ Len(s) = 2 => u[2] = s[2]

(* One command less is left of the worker's list, and the rest as it was.  *)
LEMMA ListAdvanced ==
    ASSUME NEW t, NEW s, Staged(t, s), NEW w \in DOMAIN s[1], s[1][w] # <<>>,
           NEW f, f = [s[1] EXCEPT ![w] = Tail(s[1][w])], NEW u, u = [s EXCEPT ![1] = f]
    PROVE  Shorter(t, s, w, u)
<1>1. s \in Seq(Stage) /\ Len(s) \in {1, 2} /\ 1 \in DOMAIN s /\ s[1] \in Stage
  BY DEF Staged
<1>2. Sorted(s[1][w], 0, 7) /\ Sorted(Tail(s[1][w]), 0, 7)
  <2>1. Sorted(s[1][w], 0, 7)
    BY DEF Staged
  <2> QED
    BY <2>1, Popped
<1>3. /\ f \in Stage /\ DOMAIN f = DOMAIN s[1] /\ f[w] = Tail(s[1][w])
      /\ \A x \in DOMAIN s[1] : x # w => f[x] = s[1][x]
  <2>1. Tail(s[1][w]) \in Seq(Commands)
    BY <1>2 DEF Sorted
  <2> QED
    BY <1>1, <2>1 DEF Stage
<1>4. u \in Seq(Stage) /\ Len(u) = Len(s) /\ u[1] = f /\ (Len(s) = 2 => u[2] = s[2])
  BY <1>1, <1>3
<1>5. \A x \in DOMAIN u[1] : Sorted(u[1][x], 0, 7)
  BY <1>2, <1>3, <1>4 DEF Staged
<1>6. Staged(t, u)
  BY <1>3, <1>4, <1>5 DEF Staged
<1> QED
  BY <1>3, <1>4, <1>6 DEF Shorter

(* So it is with the process whose command is done.                        *)
LEMMA Advanced ==
    ASSUME NEW p, Formed(p), NEW t, Staged(t, p.stages),
           NEW w \in DOMAIN p.stages[1], p.stages[1][w] # <<>>, NEW q, q = OneLess(p, w)
    PROVE  Formed(q) /\ Same(p, q, {"stages"}) /\ Shorter(t, p.stages, w, q.stages)
<1>1. PICK s : s = p.stages
  OBVIOUS
<1>2. PICK f : f = [s[1] EXCEPT ![w] = Tail(s[1][w])]
  OBVIOUS
<1>3. PICK u : u = [s EXCEPT ![1] = f]
  OBVIOUS
<1>4. q = [p EXCEPT !.stages = u]
  BY <1>1, <1>2, <1>3 DEF OneLess
<1>5. Formed(q) /\ Same(p, q, {"stages"}) /\ q.stages = u
  BY <1>4, WithStages
<1>6. Shorter(t, s, w, u)
  BY <1>1, <1>2, <1>3, ListAdvanced
<1> QED
  BY <1>1, <1>5, <1>6

(* What a command may set.                                                 *)
Settings == {"built", "digest", "mark", "url", "inside"}

(* What a command may set are Settings.                                    *)
LEMMA Set ==
    ASSUME NEW p, Formed(p), NEW x, NEW q,
           \/ q = p
           \/ q = [p EXCEPT !.built = x] \/ q = [p EXCEPT !.digest = x] \/ q = [p EXCEPT !.mark = x]
           \/ q = [p EXCEPT !.url = x] \/ q = [p EXCEPT !.inside = x]
    PROVE  Formed(q) /\ Same(p, q, Settings)
<1>1. PICK a, b, c, d, e, f, g, h, i, j :
        p = [todo |-> a, at |-> b, stages |-> c, status |-> d, built |-> e, digest |-> f,
             mark |-> g, from |-> h, url |-> i, inside |-> j]
  BY DEF Formed
<1> QED
  BY <1>1 DEF Formed, Same, Settings
-----------------------------------------------------------------------------
(* Targets a process is asked for are targets.                             *)
LEMMA AskedTargets ==
    ASSUME Frame, NEW o \in Operator
    PROVE  /\ Asked(o) \subseteq Target
           /\ proc[o].stages # <<>> =>
                proc[o].at \in Target /\ Staged(proc[o].at, proc[o].stages)
<1>1. session[o].targets \in Seq(Target)
  BY MageAssumption DEF Frame
<1>2. Asked(o) \subseteq Target
  BY <1>1 DEF Asked
<1> QED
  BY <1>2 DEF Frame

(* What worker w of o does next.                                           *)
LEMMA BusyWorker ==
    ASSUME Frame, NEW o \in Operator, NEW w \in Busy(o)
    PROVE  LET t == proc[o].at
               s == proc[o].stages
           IN  /\ s # <<>> /\ t \in Asked(o) /\ t \in Target /\ Staged(t, s)
               /\ w \in DOMAIN s[1] /\ s[1][w] # <<>>
               /\ Sorted(s[1][w], 0, 7) /\ Command(o, w) = s[1][w][1]
<1>1. proc[o].stages # <<>> /\ w \in DOMAIN proc[o].stages[1] /\ proc[o].stages[1][w] # <<>>
  BY DEF Busy
<1>2. proc[o].at \in Asked(o) /\ proc[o].at \in Target /\ Staged(proc[o].at, proc[o].stages)
  BY <1>1, AskedTargets DEF Frame
<1>3. Sorted(proc[o].stages[1][w], 0, 7)
  BY <1>1, <1>2 DEF Staged
<1>4. Command(o, w) = proc[o].stages[1][w][1]
  BY <1>1, <1>3, Popped DEF Command
<1> QED
  BY <1>1, <1>2, <1>3, <1>4

(* All but o stay as they are.                                             *)
Others(o) ==
    /\ proc' = [x \in Operator |-> proc'[x]]
    /\ \A x \in Operator : x # o => proc'[x] = proc[x]

(* Only o changes.                                                         *)
LEMMA Becomes ==
    ASSUME Frame, NEW o \in Operator, NEW q, proc' = [proc EXCEPT ![o] = q]
    PROVE  proc'[o] = q /\ Others(o)
BY DEF Frame, Others

(* Its command is done, and what it sets is p's.                           *)
Popping(o, w, p) ==
    /\ Formed(proc'[o]) /\ Same(p, proc'[o], {"stages"})
    /\ Shorter(proc[o].at, proc[o].stages, w, proc'[o].stages)
    /\ Others(o)

(* Advance is Popping.                                                     *)
LEMMA Pops ==
    ASSUME Frame, NEW o \in Operator, NEW w \in Busy(o),
           NEW p, Formed(p), p.stages = proc[o].stages, Advance(o, w, p)
    PROVE  Popping(o, w, p)
<1>1. /\ Staged(proc[o].at, p.stages) /\ w \in DOMAIN p.stages[1] /\ p.stages[1][w] # <<>>
  BY BusyWorker
<1>2. PICK q : q = OneLess(p, w)
  OBVIOUS
<1>3. Formed(q) /\ Same(p, q, {"stages"}) /\ Shorter(proc[o].at, p.stages, w, q.stages)
  BY <1>1, <1>2, Advanced
<1>4. proc' = [proc EXCEPT ![o] = q]
  BY <1>2 DEF Advance
<1>5. proc'[o] = q /\ Others(o)
  BY <1>4, Becomes
<1> QED
  BY <1>3, <1>5 DEF Popping

(* Frame holds if it does of the process that took the step.               *)
LEMMA FrameOfProcess ==
    ASSUME Frame, UNCHANGED session, NEW o \in Operator,
           Others(o), Formed(proc'[o]), proc'[o].todo \in Seq(Asked(o)),
           proc'[o].stages # <<>> => proc'[o].at \in Asked(o) /\ Staged(proc'[o].at, proc'[o].stages),
           Halted(proc'[o])
    PROVE  Frame'
<1>1. \A x : Asked(x)' = Asked(x)
  BY DEF Asked
<1>2. ASSUME NEW x \in Operator
      PROVE  /\ Formed(proc'[x]) /\ proc'[x].todo \in Seq(Asked(x)')
             /\ proc'[x].stages # <<>> => proc'[x].at \in Asked(x)' /\ Staged(proc'[x].at, proc'[x].stages)
            /\ Halted(proc'[x])
  BY <1>1 DEF Frame, Others
<1>3. session' \in Session
  BY DEF Frame
<1> QED
  BY <1>2, <1>3 DEF Frame, Others

(* Worker w of o does its next command.                                    *)
Performs(o, w) ==
    \/ Command(o, w).do = "load" /\ Load(o, w)
    \/ Command(o, w).do = "build" /\ Build(o, w)
    \/ Command(o, w).do = "up" /\ Up(o, w)
    \/ Command(o, w).do = "login" /\ Only(o, w)
    \/ ServiceTarget(proc[o].at) /\ ServiceCommand(o, w)
    \/ InfraTarget(proc[o].at) /\ InfraCommand(o, w)
    \/ ~ServiceTarget(proc[o].at) /\ ~InfraTarget(proc[o].at) /\ SchemaCommand(o, w)

(* Only "load" sets the environment, and no command comes back from the    *)
(* directory of the CDK program.                                           *)
Loading(o, w, p) ==
    /\ p.url = IF Command(o, w).do = "load" THEN LoadEnv(o, Command(o, w).env) ELSE proc[o].url
    /\ p.inside \in {proc[o].inside, TRUE}

(* A command sets some of Settings, if it is done.                         *)
LEMMA CommandSets ==
    ASSUME Frame, NEW o \in Operator, NEW w \in Busy(o), Performs(o, w)
    PROVE  /\ UNCHANGED session
           /\ \/ UNCHANGED proc
              \/ \E p : /\ Formed(p) /\ Same(proc[o], p, Settings) /\ Loading(o, w, p)
                        /\ Advance(o, w, p)
<1>0. Formed(proc[o])
  BY DEF Frame
<1> DEFINE Sets(q) ==
        \E x : \/ q = proc[o]
               \/ q = [proc[o] EXCEPT !.built = x] \/ q = [proc[o] EXCEPT !.digest = x]
               \/ q = [proc[o] EXCEPT !.mark = x] \/ q = [proc[o] EXCEPT !.inside = TRUE]
           do == Command(o, w).do
<1>1. Build(o, w) => \E q : Sets(q) /\ Advance(o, w, q)
  BY DEF Build
<1>2. Only(o, w) \/ Up(o, w) => \E q : Sets(q) /\ Advance(o, w, q)
  BY DEF Only, Up
<1>3. ServiceCommand(o, w) => do # "load" /\ \E q : Sets(q) /\ Advance(o, w, q)
  BY DEF ServiceCommand
<1>4. InfraCommand(o, w) => do # "load" /\ \E q : Sets(q) /\ Advance(o, w, q)
  BY DEF InfraCommand
<1>5. SchemaCommand(o, w) =>
        do # "load" /\ (UNCHANGED proc \/ \E q : Sets(q) /\ Advance(o, w, q))
  BY DEF SchemaCommand
<1>6. ASSUME NEW q, Sets(q), do # "load"
      PROVE  Formed(q) /\ Same(proc[o], q, Settings) /\ Loading(o, w, q)
  <2>1. Formed(q) /\ Same(proc[o], q, Settings)
    BY <1>0, <1>6, Set
  <2>2. q.url = proc[o].url /\ q.inside \in {proc[o].inside, TRUE}
    BY <1>0, <1>6 DEF Formed
  <2> QED
    BY <1>6, <2>1, <2>2 DEF Loading
<1>7. ASSUME NEW q, q = [proc[o] EXCEPT !.url = LoadEnv(o, Command(o, w).env)], do = "load"
      PROVE  Formed(q) /\ Same(proc[o], q, Settings) /\ Loading(o, w, q)
  <2>1. Formed(q) /\ Same(proc[o], q, Settings)
    BY <1>0, <1>7, Set
  <2>2. q.url = LoadEnv(o, Command(o, w).env) /\ q.inside = proc[o].inside
    BY <1>0, <1>7 DEF Formed
  <2> QED
    BY <1>7, <2>1, <2>2 DEF Loading
<1>8. UNCHANGED session
  BY DEF Performs, Load, Build, Up, Only, ServiceCommand, InfraCommand, SchemaCommand
<1>9. CASE do = "load" /\ Load(o, w)
  BY <1>7, <1>8, <1>9 DEF Load
<1>10. CASE ~(do = "load" /\ Load(o, w))
  <2>1. do # "load" /\ (UNCHANGED proc \/ \E q : Sets(q) /\ Advance(o, w, q))
    BY <1>1, <1>2, <1>3, <1>4, <1>5, <1>10 DEF Performs
  <2> QED
    BY <1>6, <1>8, <2>1
<1> QED
  BY <1>9, <1>10
-----------------------------------------------------------------------------
(* What Begin does.                                                        *)
LEMMA Begins ==
    ASSUME Frame, NEW o \in Operator, Begin(o)
    PROVE  LET t == Head(proc[o].todo)
               q == proc'[o]
           IN  /\ t \in Asked(o) /\ t \in Target
               /\ proc[o].stages = <<>> /\ Formed(q) /\ Others(o)
               /\ q.at = t /\ q.todo \in Seq(Asked(o)) /\ q.stages = Stages(t, o) /\ q.status = "running"
               /\ proc[o].todo # <<>> /\ q.todo = Tail(proc[o].todo)
               /\ q.built = NoImage /\ q.mark = <<>>
               /\ q.from = IF t.target = "cdk_deploy" /\ t.env \in Stack THEN Len(parameter[t.env]) ELSE 0
               /\ q.url = proc[o].url /\ q.inside = proc[o].inside
               /\ UNCHANGED <<session, image, builds, reports, svc, infra, schema>>
<1> DEFINE t == Head(proc[o].todo)
           stages == Stages(t, o)
           from == IF t.target = "cdk_deploy" /\ t.env \in Stack THEN Len(parameter[t.env]) ELSE 0
<1>1. /\ proc[o].status = "running" /\ proc[o].stages = <<>> /\ proc[o].todo # <<>>
      /\ UNCHANGED <<session, image, builds, reports, svc, infra, schema>>
      /\ BeginTarget(o, stages, from)
  BY DEF Begin, BeginTarget
<1>2. proc[o].todo \in Seq(Asked(o)) /\ Formed(proc[o])
  BY DEF Frame
<1>3. t \in Asked(o) /\ Tail(proc[o].todo) \in Seq(Asked(o))
  BY <1>1, <1>2
<1>4. t \in Target
  BY <1>3, AskedTargets
<1> HIDE DEF t, stages, from
<1>5. PICK q : q = [proc[o] EXCEPT !.at = t, !.todo = Tail(@), !.stages = stages,
            !.built = NoImage, !.digest = NoImage, !.mark = <<>>, !.from = from]
  OBVIOUS
<1>6. /\ Formed(q) /\ q.at = t /\ q.todo = Tail(proc[o].todo) /\ q.stages = stages
      /\ q.status = proc[o].status /\ q.built = NoImage /\ q.mark = <<>> /\ q.from = from
      /\ q.url = proc[o].url /\ q.inside = proc[o].inside
  <2>1. PICK a, b, c, d, e, f, g, h, i, j :
        proc[o] = [todo |-> a, at |-> b, stages |-> c, status |-> d, built |-> e, digest |-> f,
             mark |-> g, from |-> h, url |-> i, inside |-> j]
    BY <1>2 DEF Formed
  <2> QED
    BY <1>5, <2>1 DEF Formed
<1>7. proc' = [proc EXCEPT ![o] = q]
  BY <1>1, <1>5 DEF BeginTarget, t
<1>8. proc'[o] = q /\ Others(o)
  BY <1>7, Becomes
<1> QED
  BY <1>1, <1>3, <1>4, <1>6, <1>8 DEF t, stages, from

(* The second of a list is the first of its tail.                          *)
LEMMA SecondIsNext ==
    ASSUME NEW s, NEW r, \A i \in 1 .. 1 : r[i] = s[i + 1]
    PROVE  r[1] = s[2]
OBVIOUS

(* The tail of one stage, and of two.                                      *)
LEMMA TailOfFew ==
    ASSUME NEW S, NEW s \in Seq(S), Len(s) \in {1, 2}, NEW r, r = Tail(s)
    PROVE  /\ Len(s) = 1 => r = <<>>
           /\ Len(s) = 2 => r \in Seq(S) /\ Len(r) = 1 /\ r[1] = s[2] /\ r # <<>>
<1>1. s # <<>>
  OBVIOUS
<1>2. r \in Seq(S) /\ Len(r) = Len(s) - 1 /\ \A i \in 1 .. Len(r) : r[i] = s[i + 1]
  BY <1>1, HeadTailProperties
<1>3. Len(s) = 1 => r = <<>>
  BY <1>2
<1>4. ASSUME Len(s) = 2
      PROVE  Len(r) = 1 /\ r[1] = s[2] /\ r # <<>>
  <2>1. Len(r) = 1
    BY <1>2, <1>4
  <2>2. \A i \in 1 .. 1 : r[i] = s[i + 1]
    BY <1>2, <2>1
  <2>3. r[1] = s[2]
    BY <2>2, SecondIsNext
  <2>4. ASSUME r = <<>>
        PROVE  FALSE
    <3>1. Len(r) = 0
      BY ONLY <2>4, EmptySeq
    <3> QED
      BY ONLY <2>1, <3>1
  <2> QED
    BY <2>1, <2>3, <2>4
<1> QED
  BY <1>2, <1>3, <1>4

(* What Finish does.                                                       *)
LEMMA Finishes ==
    ASSUME Frame, NEW o \in Operator, Finish(o)
    PROVE  LET s == proc[o].stages
               q == proc'[o]
           IN  /\ proc[o].status = "running" /\ s # <<>> /\ Formed(q) /\ Others(o)
               /\ \A w \in DOMAIN s[1] : s[1][w] = <<>>
               /\ proc[o].at \in Target
               /\ Same(proc[o], q, {"stages"})
               /\ \/ Len(s) = 1 /\ q.stages = <<>> /\ reports' = reports \cup Report(o)
                  \/ /\ Len(s) = 2 /\ Len(q.stages) = 1 /\ q.stages[1] = s[2] /\ UNCHANGED reports
                     /\ q.stages # <<>> /\ Staged(proc[o].at, q.stages)
               /\ UNCHANGED <<session, image, builds, svc, infra, schema>>
<1> DEFINE s == proc[o].stages
           t == proc[o].at
<1>1. /\ proc[o].status = "running" /\ s # <<>> /\ Busy(o) = {}
      /\ UNCHANGED <<session, image, builds, svc, infra, schema>>
      /\ proc' = [proc EXCEPT ![o].stages = Tail(@)]
      /\ reports' = IF Len(s) = 1 THEN reports \cup Report(o) ELSE reports
  BY DEF Finish, FinishStage
<1>2. Formed(proc[o]) /\ Staged(t, s) /\ t \in Target
  BY <1>1, AskedTargets DEF Frame
<1>3. \A w \in DOMAIN s[1] : s[1][w] = <<>>
  BY <1>1 DEF Busy
<1>4. PICK q : q = [proc[o] EXCEPT !.stages = Tail(s)]
  OBVIOUS
<1>5. proc' = [proc EXCEPT ![o] = q]
  BY <1>1, <1>4
<1>6. proc'[o] = q /\ Others(o)
  BY <1>5, Becomes
<1>7. Formed(q) /\ Same(proc[o], q, {"stages"}) /\ q.stages = Tail(s)
  BY <1>2, <1>4, WithStages
<1>8. s \in Seq(Stage) /\ Len(s) \in {1, 2}
  BY <1>2 DEF Staged
<1>9. CASE Len(s) = 1
  <2>1. PICK r : r = Tail(s)
    OBVIOUS
  <2>2. r = <<>>
    BY <1>8, <1>9, <2>1, TailOfFew
  <2> QED
    BY <1>1, <1>2, <1>3, <1>6, <1>7, <1>9, <2>1, <2>2
<1>10. CASE Len(s) = 2
  <2>1. PICK r : r = Tail(s)
    OBVIOUS
  <2>2. r \in Seq(Stage) /\ Len(r) = 1 /\ r[1] = s[2] /\ r # <<>>
    BY <1>8, <1>10, <2>1, TailOfFew
  <2>3. /\ ServiceTarget(t) /\ t.all /\ t \in ServiceTargets
        /\ s[2] = [d \in DeploymentIdents |-> DeployCommands(t, d)]
    BY <1>2, <1>10, TargetKinds DEF Staged
  <2>4. \A d \in DeploymentIdents : Sorted(DeployCommands(t, d), 0, 7)
    <3>1. ASSUME NEW d \in DeploymentIdents
          PROVE  Sorted(DeployCommands(t, d), 0, 7)
      <4>1. Sorted(DeployCommands(t, d), 2, 7)
        BY <2>3, DeployCommandsList, ServiceDeployAssumption
      <4> QED
        BY <4>1, Wider
    <3> QED
      BY <3>1
  <2>5. Staged(t, r)
    BY <2>2, <2>3, <2>4 DEF Staged
  <2>6. q.stages = r /\ UNCHANGED reports
    BY <1>1, <1>7, <1>10, <2>1
  <2>7. /\ Len(s) = 2 /\ Len(q.stages) = 1 /\ q.stages[1] = s[2] /\ UNCHANGED reports
        /\ q.stages # <<>> /\ Staged(t, q.stages)
    BY <1>10, <2>2, <2>5, <2>6
  <2> HIDE DEF s, t
  <2> QED
    BY <1>1, <1>2, <1>3, <1>6, <1>7, <2>7 DEF s, t
<1> QED
  BY <1>8, <1>9, <1>10

(* What End does: a worker's list is gone, or everything is.               *)
LEMMA EndLeaves ==
    ASSUME Frame, NEW o \in Operator, End(o)
    PROVE  LET s == proc[o].stages
               q == proc'[o]
           IN  /\ Formed(q) /\ Others(o) /\ Same(proc[o], q, {"status", "stages", "todo"})
               /\ q.status # "running" /\ q.todo \in Seq(Asked(o)) /\ Halted(q)
               /\ q.todo \in {proc[o].todo, <<>>}
               /\ q.stages # <<>> =>
                    /\ s # <<>> /\ Staged(proc[o].at, q.stages)
                    /\ \A x \in DOMAIN q.stages[1] : q.stages[1][x] \in {<<>>, s[1][x]}
                    /\ DOMAIN q.stages[1] = DOMAIN s[1]
               /\ UNCHANGED <<session, image, builds, reports, svc, infra, schema>>
<1> DEFINE s == proc[o].stages
<1>1. /\ UNCHANGED <<session, image, builds, reports, svc, infra, schema>>
      /\ Fail(o) \/ Exit(o)
  BY DEF End, Fail, Exit
<1>2. Formed(proc[o]) /\ proc[o].todo \in Seq(Asked(o))
  BY DEF Frame
<1>3. PICK a, b, d, e, f, g, h, i, j :
        proc[o] = [todo |-> a, at |-> b, stages |-> s, status |-> d, built |-> e, digest |-> f,
             mark |-> g, from |-> h, url |-> i, inside |-> j]
  BY <1>2 DEF Formed
<1>4. CASE Fail(o)
  <2>1. PICK w \in Busy(o) : proc' = [proc EXCEPT ![o].status = "failing", ![o].stages[1][w] = <<>>]
    BY <1>4 DEF Fail
  <2>2. s # <<>> /\ Staged(proc[o].at, s) /\ w \in DOMAIN s[1]
    BY BusyWorker
  <2>3. PICK r : r = [s[1] EXCEPT ![w] = <<>>]
    OBVIOUS
  <2>4. PICK u : u = [s EXCEPT ![1] = r]
    OBVIOUS
  <2>5. PICK q : q = [proc[o] EXCEPT !.status = "failing", !.stages = u]
    OBVIOUS
  <2>6. /\ Formed(q) /\ Same(proc[o], q, {"status", "stages", "todo"})
        /\ q.status = "failing" /\ q.stages = u /\ q.todo = proc[o].todo
    BY <1>3, <2>5 DEF Formed, Same
  <2>7. proc' = [proc EXCEPT ![o] = q]
    BY <2>1, <2>3, <2>4, <2>5
  <2>8. proc'[o] = q /\ Others(o)
    BY <2>7, Becomes
  <2>9. s \in Seq(Stage) /\ 1 \in DOMAIN s /\ s[1] \in Stage /\ Len(s) \in {1, 2}
    BY <2>2 DEF Staged
  <2>10. /\ r \in Stage /\ DOMAIN r = DOMAIN s[1] /\ r[w] = <<>>
         /\ \A x \in DOMAIN r : r[x] \in {<<>>, s[1][x]}
    BY <2>2, <2>3, <2>9 DEF Stage
  <2>11. u \in Seq(Stage) /\ Len(u) = Len(s) /\ u[1] = r /\ (Len(s) = 2 => u[2] = s[2])
    BY <2>4, <2>9, <2>10
  <2>12. \A x \in DOMAIN u[1] : Sorted(u[1][x], 0, 7)
    BY <2>2, <2>10, <2>11, NoCommands DEF Staged
  <2>13. Staged(proc[o].at, u)
    BY <2>2, <2>10, <2>11, <2>12 DEF Staged
  <2>14. Halted(q)
    BY <2>2, <2>6, <2>10, <2>11 DEF Halted
  <2> QED
    BY <1>1, <1>2, <2>2, <2>6, <2>8, <2>10, <2>11, <2>13, <2>14
<1>5. CASE Exit(o)
  <2>1. proc' = [proc EXCEPT ![o].status = "ended", ![o].stages = <<>>, ![o].todo = <<>>]
    BY <1>5 DEF Exit
  <2>2. PICK q : q = [proc[o] EXCEPT !.status = "ended", !.stages = <<>>, !.todo = <<>>]
    OBVIOUS
  <2>3. /\ Formed(q) /\ Same(proc[o], q, {"status", "stages", "todo"})
        /\ q.status = "ended" /\ q.stages = <<>> /\ q.todo = <<>>
    BY <1>3, <2>2 DEF Formed, Same
  <2>4. proc' = [proc EXCEPT ![o] = q]
    BY <2>1, <2>2
  <2>5. proc'[o] = q /\ Others(o)
    BY <2>4, Becomes
  <2>6. q.todo \in Seq(Asked(o)) /\ Halted(q)
    BY <2>3 DEF Halted
  <2> QED
    BY <1>1, <2>3, <2>5, <2>6
<1> QED
  BY <1>1, <1>4, <1>5

(* Frame is an invariant.                                                  *)
LEMMA FrameBegins == OpsInit => Frame
<1> SUFFICES ASSUME OpsInit
             PROVE  Frame
  OBVIOUS
<1>1. session \in Session /\ proc = [o \in Operator |-> NewProcess(o)]
  BY DEF OpsInit, MageInit
<1>2. ASSUME NEW o \in Operator
      PROVE  /\ Formed(NewProcess(o)) /\ NewProcess(o).todo \in Seq(Asked(o))
             /\ NewProcess(o).stages = <<>>
  <2>1. session[o].targets \in Seq(Target)
    BY <1>1, MageAssumption
  <2>2. session[o].targets \in Seq(Asked(o))
    BY <2>1 DEF Asked
  <2> QED
    BY <2>2 DEF Formed, NewProcess
<1> QED
  BY <1>1, <1>2 DEF Frame, Halted

(* A command that is done keeps Frame.                                     *)
LEMMA PoppingKeepsFrame ==
    ASSUME Frame, UNCHANGED session, NEW o \in Operator, NEW w \in Busy(o),
           NEW p, Same(proc[o], p, Settings), Popping(o, w, p)
    PROVE  Frame'
<1> DEFINE q == proc'[o]
<1>1. /\ Formed(q) /\ Same(p, q, {"stages"}) /\ Others(o)
      /\ Shorter(proc[o].at, proc[o].stages, w, q.stages)
  BY DEF Popping
<1>2. q.at = proc[o].at /\ q.todo = proc[o].todo /\ q.status = proc[o].status
  BY <1>1 DEF Same, Settings
<1>3. /\ proc[o].stages # <<>> /\ proc[o].at \in Asked(o) /\ w \in DOMAIN proc[o].stages[1]
      /\ proc[o].stages[1][w] # <<>>
  BY BusyWorker
<1>4. Staged(q.at, q.stages) /\ DOMAIN q.stages[1] = DOMAIN proc[o].stages[1]
  BY <1>1, <1>2 DEF Shorter
<1>5. Halted(q)
  <2>1. Halted(proc[o])
    BY DEF Frame
  <2> QED
    BY <1>2, <1>3, <1>4, <2>1 DEF Halted
<1>6. q.todo \in Seq(Asked(o)) /\ q.at \in Asked(o)
  BY <1>2, <1>3 DEF Frame
<1> QED
  BY <1>1, <1>4, <1>5, <1>6, FrameOfProcess

(* So does every step.                                                     *)
LEMMA FrameStep == Frame /\ [OpsNext]_ops => Frame'
<1> SUFFICES ASSUME Frame, [OpsNext]_ops
             PROVE  Frame'
  OBVIOUS
<1>1. ASSUME UNCHANGED <<session, proc>>
      PROVE  Frame'
  BY <1>1 DEF Frame, Asked
<1>2. CASE External
  BY <1>1, <1>2 DEF External, Replace, Edit, Starts, mage
<1>3. ASSUME NEW o \in Operator, Begin(o)
      PROVE  Frame'
  <2> DEFINE t == Head(proc[o].todo)
             q == proc'[o]
  <2>1. /\ t \in Asked(o) /\ t \in Target /\ Formed(q) /\ Others(o) /\ q.at = t
        /\ q.todo \in Seq(Asked(o)) /\ q.stages = Stages(t, o) /\ q.status = "running"
        /\ UNCHANGED session
    BY <1>3, Begins
  <2>2. Staged(t, Stages(t, o))
    BY <2>1, TargetStaged
  <2>3. Halted(q)
    BY <2>1 DEF Halted
  <2> QED
    BY <2>1, <2>2, <2>3, FrameOfProcess
<1>4. ASSUME NEW o \in Operator, Do(o)
      PROVE  Frame'
  <2>1. PICK w \in Busy(o) : Performs(o, w)
    BY <1>4 DEF Do, Performs
  <2>2. /\ UNCHANGED session
        /\ UNCHANGED proc \/ \E p : Formed(p) /\ Same(proc[o], p, Settings) /\ Advance(o, w, p)
    BY <2>1, CommandSets
  <2>3. ASSUME NEW p, Formed(p), Same(proc[o], p, Settings), Advance(o, w, p)
        PROVE  Frame'
    <3>1. p.stages = proc[o].stages
      BY <2>3 DEF Same, Settings
    <3>2. Popping(o, w, p)
      BY <2>3, <3>1, Pops
    <3> QED
      BY <2>2, <2>3, <3>2, PoppingKeepsFrame
  <2> QED
    BY <1>1, <2>2, <2>3
<1>5. ASSUME NEW o \in Operator, Finish(o)
      PROVE  Frame'
  <2> DEFINE q == proc'[o]
  <2>1. /\ Formed(q) /\ Others(o) /\ Same(proc[o], q, {"stages"}) /\ UNCHANGED session
        /\ q.stages = <<>> \/ Staged(proc[o].at, q.stages)
        /\ proc[o].status = "running" /\ proc[o].stages # <<>>
    BY <1>5, Finishes
  <2>2. /\ q.at = proc[o].at /\ q.todo = proc[o].todo /\ q.status = "running"
        /\ proc[o].at \in Asked(o) /\ proc[o].todo \in Seq(Asked(o))
    BY <2>1 DEF Same, Frame
  <2>3. Halted(q)
    BY <2>2 DEF Halted
  <2> QED
    BY <2>1, <2>2, <2>3, FrameOfProcess
<1>6. ASSUME NEW o \in Operator, End(o)
      PROVE  Frame'
  <2> DEFINE q == proc'[o]
  <2>1. /\ Formed(q) /\ Others(o) /\ Same(proc[o], q, {"status", "stages", "todo"})
        /\ q.todo \in Seq(Asked(o)) /\ Halted(q) /\ UNCHANGED session
        /\ q.stages # <<>> => proc[o].stages # <<>> /\ Staged(proc[o].at, q.stages)
    BY <1>6, EndLeaves
  <2>2. q.at = proc[o].at /\ (q.stages # <<>> => proc[o].at \in Asked(o))
    BY <2>1 DEF Same, Frame
  <2> QED
    BY <2>1, <2>2, FrameOfProcess
<1> QED
  BY <1>1, <1>2, <1>3, <1>4, <1>5, <1>6 DEF OpsNext, ops, mage
-----------------------------------------------------------------------------
(* What is migrated is where the target was asked to, but for missing      *)
(* files.                                                                  *)
Misses(m, p) == p.inside \/ ~({"", Where(p.at)} \subseteq EnvFiles[m])
Loaded(m, p) == Misses(m, p) \/ p.url = Where(p.at)

(* A process has looked for its files before it migrates.                  *)
ConnectsAsAsked ==
    \A o \in Operator : proc[o].stages # <<>> =>
        \A w \in DOMAIN proc[o].stages[1] :
            LoadsFirst(proc[o].stages[1][w], Where(proc[o].at), Loaded(Here(o), proc[o]))

(* Lists that migrate nothing.                                             *)
LEMMA LoadsDev ==
    ASSUME NEW cs, ~Has(cs, "apply"), \A i \in DOMAIN cs : cs[i].do = "load" => cs[i].env = "dev",
           NEW ready
    PROVE  LoadsFirst(cs, "dev", ready)
BY DEF Has, LoadsFirst

(* Every target loads its environment first.                               *)
LEMMA StagesLoad ==
    ASSUME NEW t \in Target, NEW o \in Operator, NEW w \in DOMAIN Stages(t, o)[1]
    PROVE  LoadsFirst(Stages(t, o)[1][w], Where(t), FALSE)
<1>1. CASE ServiceTarget(t)
  <2>1. Stages(t, o) = ServiceStages(t) /\ t \in ServiceTargets /\ Where(t) = "dev"
    BY <1>1, TargetKinds DEF Stages, ServiceTarget, Where
  <2>2. Staged(t, ServiceStages(t))
    BY <2>1, ServiceStaged
  <2>3. CASE t.all
    <3>1. Len(ServiceStages(t)) = 2 /\ ServiceStages(t)[1]["main"] = BuildCommands
      BY <2>1, <2>3, ServiceStaged
    <3>2. w = "main"
      BY <1>1, <2>1, <2>2, <2>3, <3>1 DEF Staged
    <3>3. /\ ~Has(BuildCommands, "apply")
          /\ \A i \in DOMAIN BuildCommands : BuildCommands[i].do = "load" => BuildCommands[i].env = "dev"
      BY BuildList
    <3> QED
      BY <2>1, <3>1, <3>2, <3>3, LoadsDev
  <2>4. CASE ~t.all
    <3>1. w = "main"
      BY <2>1, <2>2, <2>4 DEF Staged
    <3>2. DeployList(t, t.d, ServiceStages(t)[1]["main"])
      BY <2>1, <2>4, ServiceStaged
    <3>3. PICK cs : cs = ServiceStages(t)[1]["main"]
      OBVIOUS
    <3>4. ~Has(cs, "apply") /\ \A i \in DOMAIN cs : cs[i].do = "load" => cs[i].env = "dev"
      BY <3>2, <3>3 DEF DeployList
    <3> QED
      BY <2>1, <3>1, <3>3, <3>4, LoadsDev
  <2> QED
    BY <2>3, <2>4
<1>2. CASE InfraTarget(t)
  <2>1. Stages(t, o) = InfraStages(t) /\ t \in InfraTargets /\ ~ServiceTarget(t) /\ Where(t) = "dev"
    BY <1>2, TargetKinds DEF Stages, InfraTarget, Where
  <2>2. Staged(t, InfraStages(t))
    BY <2>1, InfraStaged
  <2>3. w = "main"
    BY <2>1, <2>2 DEF Staged
  <2>4. PICK cs : cs = InfraStages(t)[1]["main"]
    OBVIOUS
  <2>5. cs = IF t.target = "ecr" THEN EcrCommands ELSE CdkCommands(t)
    BY <2>1, <2>4, InfraStaged
  <2>6. t.target # "ecr" => t \in [target : {"cdk_deploy", "cdk_diff", "cdk_list"}, env : Env]
    BY <2>1 DEF InfraTargets
  <2>7. ~Has(cs, "apply") /\ \A i \in DOMAIN cs : cs[i].do = "load" => cs[i].env = "dev"
    <3>1. CASE t.target = "ecr"
      BY <2>5, <3>1, EcrList
    <3>2. CASE t.target # "ecr"
      <4>1. ~Has(cs, "apply") /\ ~Has(cs, "load")
        BY <2>5, <2>6, <3>2, CdkList
      <4> QED
        BY <4>1 DEF Has
    <3> QED
      BY <3>1, <3>2
  <2> QED
    BY <2>1, <2>3, <2>4, <2>7, LoadsDev
<1>3. CASE ~ServiceTarget(t) /\ ~InfraTarget(t)
  <2>1. Stages(t, o) = SchemaStages(t, Here(o)) /\ t \in SchemaTargets
    BY <1>3, TargetKinds DEF Stages
  <2>2. Staged(t, SchemaStages(t, Here(o)))
    BY <2>1, SchemaStaged
  <2>3. w = "main"
    BY <1>3, <2>1, <2>2 DEF Staged
  <2> QED
    BY <2>1, <2>3, SchemaStaged
<1> QED
  BY <1>1, <1>2, <1>3

(* A target that migrates has one worker and one stage.                    *)
LEMMA SchemaWorker ==
    ASSUME Frame, NEW o \in Operator, NEW w \in Busy(o), proc[o].at \in SchemaTargets
    PROVE  w = "main" /\ DOMAIN proc[o].stages[1] = {"main"} /\ Len(proc[o].stages) = 1
<1>1. Staged(proc[o].at, proc[o].stages) /\ w \in DOMAIN proc[o].stages[1]
  BY BusyWorker
<1>2. ~ServiceTarget(proc[o].at)
  BY DEF SchemaTargets, ServiceTarget
<1> QED
  BY <1>1, <1>2 DEF Staged

(* Who migrates has loaded what there is.                                  *)
LEMMA AppliesWhereAsked ==
    ASSUME Frame, ConnectsAsAsked, NEW o \in Operator, NEW w \in Busy(o),
           Command(o, w).do = "apply"
    PROVE  Loaded(Here(o), proc[o])
<1> DEFINE cs == proc[o].stages[1][w]
<1>1. /\ Sorted(cs, 0, 7) /\ cs # <<>> /\ Command(o, w) = cs[1]
      /\ proc[o].stages # <<>> /\ w \in DOMAIN proc[o].stages[1]
  BY BusyWorker
<1>2. LoadsFirst(cs, Where(proc[o].at), Loaded(Here(o), proc[o]))
  BY <1>1 DEF ConnectsAsAsked
<1>3. 1 \in DOMAIN cs /\ \A j \in DOMAIN cs : ~(j < 1)
  BY <1>1 DEF Sorted
<1> QED
  BY <1>1, <1>2, <1>3 DEF LoadsFirst

(* A command that is done has loaded the environment of its target, or     *)
(* nothing.                                                                *)
LEMMA LoadsAsAsked ==
    ASSUME Frame, ConnectsAsAsked, NEW o \in Operator, NEW w \in Busy(o), UNCHANGED session,
           NEW p, Formed(p), Same(proc[o], p, Settings), Loading(o, w, p), Advance(o, w, p)
    PROVE  LET q == proc'[o]
           IN  /\ Others(o) /\ q.at = proc[o].at /\ q.todo = proc[o].todo
               /\ proc[o].stages # <<>> /\ q.stages # <<>>
               /\ q.url \in {proc[o].url, Where(proc[o].at)}
               /\ \A x \in DOMAIN q.stages[1] :
                    LoadsFirst(q.stages[1][x], Where(q.at), Loaded(Here(o)', q))
<1> DEFINE s == proc[o].stages
           cs == s[1][w]
           t == proc[o].at
           q == proc'[o]
           env == Where(t)
<1>1. /\ Sorted(cs, 0, 7) /\ cs # <<>> /\ Command(o, w) = cs[1]
      /\ s # <<>> /\ w \in DOMAIN s[1] /\ Staged(t, s)
  BY BusyWorker
<1>2. \A x \in DOMAIN s[1] : LoadsFirst(s[1][x], env, Loaded(Here(o), proc[o]))
  BY <1>1 DEF ConnectsAsAsked
<1>3. /\ cs[1].do = "load" => cs[1].env = env /\ LoadsFirst(Tail(cs), env, TRUE)
      /\ cs[1].do # "load" => LoadsFirst(Tail(cs), env, Loaded(Here(o), proc[o]))
  <2>1. PICK c : c = cs
    OBVIOUS
  <2>2. Sorted(c, 0, 7) /\ c # <<>> /\ LoadsFirst(c, env, Loaded(Here(o), proc[o]))
    BY <1>1, <1>2, <2>1
  <2> HIDE DEF cs, env
  <2>3. /\ c[1].do = "load" => c[1].env = env /\ LoadsFirst(Tail(c), env, TRUE)
        /\ c[1].do # "load" => LoadsFirst(Tail(c), env, Loaded(Here(o), proc[o]))
    BY <2>2, LoadsPopped
  <2> QED
    BY <2>1, <2>3
<1>4. p.stages = s /\ p.at = t /\ p.todo = proc[o].todo
  BY DEF Same, Settings
<1>5. /\ Others(o) /\ q.at = t /\ q.todo = proc[o].todo /\ q.url = p.url /\ q.inside = p.inside
      /\ Shorter(t, s, w, q.stages)
  <2>1. Popping(o, w, p)
    BY <1>4, Pops
  <2> QED
    BY <1>4, <2>1 DEF Popping, Same
<1>6. Here(o)' = Here(o)
  BY DEF Here
<1>7. p.url = (IF cs[1].do = "load" THEN LoadEnv(o, env) ELSE proc[o].url)
      /\ (proc[o].inside => p.inside)
  BY <1>1, <1>3 DEF Loading
<1>8. q.url \in {proc[o].url, env}
  BY <1>5, <1>7 DEF LoadEnv
<1>9. Misses(Here(o), proc[o]) => Misses(Here(o), q)
  BY <1>5, <1>7 DEF Misses
<1>10. Loaded(Here(o), proc[o]) => Loaded(Here(o), q)
  BY <1>5, <1>8, <1>9 DEF Loaded
<1>11. cs[1].do = "load" => Loaded(Here(o), q)
  <2>1. FindsEnv(o, env) \/ Misses(Here(o), proc[o])
    BY DEF FindsEnv, Misses
  <2> QED
    BY <1>5, <1>7, <1>9, <2>1 DEF Loaded, LoadEnv
<1>12. /\ q.stages # <<>> /\ DOMAIN q.stages[1] = DOMAIN s[1] /\ q.stages[1][w] = Tail(cs)
       /\ \A x \in DOMAIN s[1] : x # w => q.stages[1][x] = s[1][x]
  <2>1. Staged(t, q.stages)
    BY <1>5 DEF Shorter
  <2> QED
    BY <1>5, <2>1 DEF Shorter, Staged
<1> HIDE DEF s, cs, env, q, t
<1>13. ASSUME NEW x \in DOMAIN q.stages[1]
       PROVE  LoadsFirst(q.stages[1][x], env, Loaded(Here(o), q))
  <2>1. CASE x # w
    <3>1. LoadsFirst(q.stages[1][x], env, Loaded(Here(o), proc[o]))
      BY <1>2, <1>12, <1>13, <2>1
    <3> QED
      BY <1>10, <3>1 DEF LoadsFirst
  <2>2. CASE x = w
    <3>1. CASE cs[1].do = "load"
      <4>1. LoadsFirst(q.stages[1][x], env, TRUE) /\ Loaded(Here(o), q)
        BY <1>3, <1>11, <1>12, <2>2, <3>1
      <4> QED
        BY <4>1 DEF LoadsFirst
    <3>2. CASE cs[1].do # "load"
      <4>1. LoadsFirst(q.stages[1][x], env, Loaded(Here(o), proc[o]))
        BY <1>3, <1>12, <2>2, <3>2
      <4> QED
        BY <1>10, <4>1 DEF LoadsFirst
    <3> QED
      BY <3>1, <3>2
  <2> QED
    BY <2>1, <2>2
<1> QED
  BY <1>1, <1>5, <1>6, <1>8, <1>12, <1>13 DEF s, env, q, t

(* ConnectsAsAsked is an invariant.                                        *)
LEMMA ConnectsBegins == OpsInit => ConnectsAsAsked
BY DEF OpsInit, MageInit, NewProcess, ConnectsAsAsked

(* Stages of a target that migrates.                                       *)
LEMMA SchemaAlone ==
    ASSUME NEW t \in SchemaTargets, NEW s, Staged(t, s)
    PROVE  Len(s) = 1 /\ DOMAIN s[1] = {"main"}
<1>1. ~ServiceTarget(t)
  BY DEF SchemaTargets, ServiceTarget
<1> QED
  BY <1>1 DEF Staged

(* Every step keeps it, if it is the process that loads or another.        *)
LEMMA ConnectsStep ==
    ASSUME Frame, ConnectsAsAsked, [OpsNext]_ops
    PROVE  ConnectsAsAsked'
<1>1. ASSUME UNCHANGED <<session, proc>>
      PROVE  ConnectsAsAsked'
  BY <1>1 DEF ConnectsAsAsked, Here
<1>2. CASE External
  BY <1>1, <1>2 DEF External, Replace, Edit, Starts, mage
<1>3. ASSUME UNCHANGED session, NEW o \in Operator, Others(o),
             proc'[o].stages # <<>> => \A w \in DOMAIN proc'[o].stages[1] :
                LoadsFirst(proc'[o].stages[1][w], Where(proc'[o].at), Loaded(Here(o)', proc'[o]))
      PROVE  ConnectsAsAsked'
  BY <1>3 DEF ConnectsAsAsked, Others, Here
<1>4. ASSUME NEW o \in Operator, Begin(o)
      PROVE  ConnectsAsAsked'
  <2> DEFINE t == Head(proc[o].todo)
  <2>1. /\ t \in Target /\ Others(o) /\ proc'[o].at = t /\ proc'[o].stages = Stages(t, o)
        /\ UNCHANGED session
    BY <1>4, Begins
  <2>2. \A w \in DOMAIN proc'[o].stages[1] : LoadsFirst(proc'[o].stages[1][w], Where(t), FALSE)
    BY <2>1, StagesLoad
  <2>3. ASSUME NEW w \in DOMAIN proc'[o].stages[1]
        PROVE  LoadsFirst(proc'[o].stages[1][w], Where(t), Loaded(Here(o)', proc'[o]))
    BY <2>2, <2>3 DEF LoadsFirst
  <2> QED
    BY <1>3, <2>1, <2>3
<1>5. ASSUME NEW o \in Operator, Do(o)
      PROVE  ConnectsAsAsked'
  <2>1. PICK w \in Busy(o) : Performs(o, w)
    BY <1>5 DEF Do, Performs
  <2>2. /\ UNCHANGED session
        /\ \/ UNCHANGED proc
           \/ \E p : /\ Formed(p) /\ Same(proc[o], p, Settings) /\ Loading(o, w, p)
                     /\ Advance(o, w, p)
    BY <2>1, CommandSets
  <2>3. ASSUME NEW p, Formed(p), Same(proc[o], p, Settings), Loading(o, w, p), Advance(o, w, p)
        PROVE  ConnectsAsAsked'
    BY <1>3, <2>2, <2>3, LoadsAsAsked
  <2> QED
    BY <1>1, <2>2, <2>3
<1>6. ASSUME NEW o \in Operator, Finish(o)
      PROVE  ConnectsAsAsked'
  <2> DEFINE q == proc'[o]
             s == proc[o].stages
  <2>1. /\ Others(o) /\ q.at = proc[o].at /\ s # <<>> /\ UNCHANGED session
        /\ q.stages = <<>> \/ (Len(s) = 2 /\ q.stages[1] = s[2])
    BY <1>6, Finishes DEF Same
  <2>2. ASSUME Len(s) = 2, q.stages[1] = s[2], NEW d \in DOMAIN q.stages[1]
        PROVE  LoadsFirst(q.stages[1][d], Where(q.at), Loaded(Here(o)', q))
    <3>1. Staged(proc[o].at, s) /\ proc[o].at \in Target
      BY <2>1, AskedTargets
    <3>2. /\ s[2] = [x \in DeploymentIdents |-> DeployCommands(proc[o].at, x)]
          /\ ServiceTarget(proc[o].at)
      BY <2>2, <3>1 DEF Staged
    <3>3. proc[o].at \in ServiceTargets /\ d \in Ident /\ q.stages[1][d] = DeployCommands(proc[o].at, d)
      BY <2>2, <3>1, <3>2, TargetKinds, ServiceDeployAssumption
    <3>4. PICK cs : cs = DeployCommands(proc[o].at, d)
      OBVIOUS
    <3>5. ~Has(cs, "load") /\ ~Has(cs, "apply")
      BY <3>3, <3>4, DeployCommandsList DEF DeployList
    <3>6. Where(q.at) = "dev"
      BY <2>1, <3>2 DEF ServiceTarget, Where
    <3>7. LoadsFirst(cs, "dev", Loaded(Here(o)', q))
      BY <3>5, LoadsDev DEF Has
    <3> QED
      BY <3>3, <3>4, <3>6, <3>7
  <2> QED
    BY <1>3, <2>1, <2>2
<1>7. ASSUME NEW o \in Operator, End(o)
      PROVE  ConnectsAsAsked'
  <2> DEFINE q == proc'[o]
             s == proc[o].stages
  <2>1. /\ Others(o) /\ q.at = proc[o].at /\ q.url = proc[o].url /\ q.inside = proc[o].inside
        /\ UNCHANGED session
        /\ q.stages # <<>> =>
            /\ s # <<>> /\ DOMAIN q.stages[1] = DOMAIN s[1]
            /\ \A x \in DOMAIN q.stages[1] : q.stages[1][x] \in {<<>>, s[1][x]}
    BY <1>7, EndLeaves DEF Same
  <2>2. ASSUME q.stages # <<>>, NEW w \in DOMAIN q.stages[1]
        PROVE  LoadsFirst(q.stages[1][w], Where(q.at), Loaded(Here(o)', q))
    <3>1. LoadsFirst(s[1][w], Where(q.at), Loaded(Here(o), proc[o]))
      BY <2>1, <2>2 DEF ConnectsAsAsked
    <3>2. Loaded(Here(o), proc[o]) <=> Loaded(Here(o)', q)
      BY <2>1 DEF Loaded, Misses, Here
    <3>3. LoadsFirst(s[1][w], Where(q.at), Loaded(Here(o)', q))
      BY <3>1, <3>2 DEF LoadsFirst
    <3>4. LoadsFirst(<<>>, Where(q.at), Loaded(Here(o)', q))
      BY DEF LoadsFirst
    <3> QED
      BY <2>1, <2>2, <3>3, <3>4
  <2> QED
    BY <1>3, <2>1, <2>2
<1> QED
  BY <1>1, <1>2, <1>4, <1>5, <1>6, <1>7 DEF OpsNext, ops, mage
-----------------------------------------------------------------------------
(* What a process has still to do are the last of its targets.             *)
LastOf(td, ts) ==
    /\ Len(td) <= Len(ts)
    /\ \A i \in 1 .. Len(td) : td[i] = ts[Len(ts) - Len(td) + i]

(* The environment of a process is one that it was asked to migrate in.    *)
Urls ==
    \A o \in Operator :
        /\ LastOf(proc[o].todo, session[o].targets)
        /\ proc[o].stages # <<>> => proc[o].at \in Begun(o)
        /\ proc[o].url \in {"none", "dev"} \/ \E t \in Begun(o) : AppliesTo(t, proc[o].url)

LEMMA UrlsBegin == OpsInit => Urls
<1> SUFFICES ASSUME OpsInit
             PROVE  Urls
  OBVIOUS
<1>1. ASSUME NEW o \in Operator
      PROVE  /\ proc[o].todo = session[o].targets /\ session[o].targets \in Seq(Target)
             /\ proc[o].stages = <<>> /\ proc[o].url = "none"
  BY MageAssumption DEF OpsInit, MageInit, NewProcess
<1>2. ASSUME NEW o \in Operator
      PROVE  LastOf(proc[o].todo, session[o].targets)
  <2>1. PICK ts \in Seq(Target) : ts = session[o].targets
    BY <1>1, <1>2
  <2>2. LastOf(ts, ts)
    BY DEF LastOf
  <2> QED
    BY <1>1, <1>2, <2>1, <2>2
<1> QED
  BY <1>1, <1>2 DEF Urls

(* A process that goes on has begun at least what it had.                  *)
LEMMA StillBegun ==
    ASSUME Frame, UNCHANGED session, NEW o \in Operator,
           proc'[o].todo \in {proc[o].todo, Tail(proc[o].todo), <<>>},
           proc'[o].todo # proc[o].todo => proc[o].todo # <<>>
    PROVE  Begun(o) \subseteq Begun(o)'
<1>1. session[o].targets \in Seq(Target) /\ proc[o].todo \in Seq(Asked(o))
  BY MageAssumption DEF Frame
<1>2. Len(proc'[o].todo) \in Nat /\ Len(proc'[o].todo) <= Len(proc[o].todo) /\ Len(proc[o].todo) \in Nat
  BY <1>1
<1> QED
  BY <1>1, <1>2 DEF Begun

(* What it begins is the next.                                             *)
LEMMA BeginsNext ==
    ASSUME NEW ts \in Seq(Target), NEW S, NEW td \in Seq(S), td # <<>>, LastOf(td, ts),
           NEW r, r = Tail(td)
    PROVE  /\ LastOf(r, ts) /\ Len(ts) - Len(r) \in 1 .. Len(ts)
           /\ Head(td) = ts[Len(ts) - Len(r)]
<1>1. /\ Len(r) = Len(td) - 1 /\ Len(td) \in Nat /\ Len(td) >= 1 /\ Head(td) = td[1]
      /\ \A i \in 1 .. Len(r) : r[i] = td[i + 1]
  BY HeadTailProperties
<1>2. Len(ts) \in Nat
  OBVIOUS
<1>3. ASSUME NEW i \in 1 .. Len(r)
      PROVE  r[i] = ts[Len(ts) - Len(r) + i]
  <2>1. r[i] = td[i + 1] /\ i + 1 \in 1 .. Len(td)
    BY <1>1
  <2>2. td[i + 1] = ts[Len(ts) - Len(td) + (i + 1)]
    BY <2>1 DEF LastOf
  <2>3. Len(ts) - Len(td) + (i + 1) = Len(ts) - Len(r) + i
    BY <1>1, <1>2
  <2> QED
    BY <2>1, <2>2, <2>3
<1>4. Head(td) = ts[Len(ts) - Len(r)]
  <2>1. td[1] = ts[Len(ts) - Len(td) + 1]
    BY <1>1 DEF LastOf
  <2>2. Len(ts) - Len(td) + 1 = Len(ts) - Len(r)
    BY <1>1, <1>2
  <2> QED
    BY <1>1, <2>1, <2>2
<1> QED
  BY <1>1, <1>2, <1>3, <1>4 DEF LastOf

LEMMA UrlsStep ==
    ASSUME Frame, ConnectsAsAsked, Urls, [OpsNext]_ops
    PROVE  Urls'
<1>1. ASSUME UNCHANGED <<session, proc>>
      PROVE  Urls'
  BY <1>1 DEF Urls, Begun
<1>2. CASE External
  BY <1>1, <1>2 DEF External, Replace, Edit, Starts, mage
<1>3. ASSUME NEW o \in Operator, UNCHANGED session, Others(o),
             LastOf(proc'[o].todo, session[o].targets),
             proc'[o].stages # <<>> => proc'[o].at \in Begun(o)',
             proc'[o].url \in {"none", "dev"} \/ \E t \in Begun(o)' : AppliesTo(t, proc'[o].url)
      PROVE  Urls'
  <2>1. ASSUME NEW x \in Operator, x # o
        PROVE  Begun(x)' = Begun(x) /\ proc'[x] = proc[x]
    BY <1>3, <2>1 DEF Begun, Others
  <2> QED
    BY <1>3, <2>1 DEF Urls
<1>4. ASSUME NEW o \in Operator, Begin(o)
      PROVE  Urls'
  <2> DEFINE ts == session[o].targets
             r == proc'[o].todo
  <2>1. /\ UNCHANGED session /\ Others(o) /\ proc[o].todo # <<>> /\ r = Tail(proc[o].todo)
        /\ proc'[o].at = Head(proc[o].todo) /\ proc'[o].url = proc[o].url
    BY <1>4, Begins
  <2>2. ts \in Seq(Target) /\ proc[o].todo \in Seq(Asked(o)) /\ LastOf(proc[o].todo, ts)
    BY MageAssumption DEF Frame, Urls
  <2>3. LastOf(r, ts) /\ Len(ts) - Len(r) \in 1 .. Len(ts) /\ Head(proc[o].todo) = ts[Len(ts) - Len(r)]
    BY <2>1, <2>2, BeginsNext
  <2>4. proc'[o].at \in Begun(o)'
    <3>1. Begun(o)' = {ts[i] : i \in 1 .. Len(ts) - Len(r)}
      BY <2>1 DEF Begun
    <3>2. Len(ts) - Len(r) \in 1 .. Len(ts) - Len(r)
      BY <2>3
    <3> QED
      BY <2>1, <2>3, <3>1, <3>2
  <2>5. Begun(o) \subseteq Begun(o)'
    BY <2>1, StillBegun
  <2> QED
    BY <1>3, <2>1, <2>3, <2>4, <2>5 DEF Urls
<1>5. ASSUME NEW o \in Operator, Do(o)
      PROVE  Urls'
  <2>1. PICK w \in Busy(o) : Performs(o, w)
    BY <1>5 DEF Do, Performs
  <2>2. /\ UNCHANGED session
        /\ \/ UNCHANGED proc
           \/ \E p : /\ Formed(p) /\ Same(proc[o], p, Settings) /\ Loading(o, w, p)
                     /\ Advance(o, w, p)
    BY <2>1, CommandSets
  <2>3. ASSUME NEW p, Formed(p), Same(proc[o], p, Settings), Loading(o, w, p), Advance(o, w, p)
        PROVE  Urls'
    <3>1. /\ Others(o) /\ proc'[o].at = proc[o].at /\ proc'[o].todo = proc[o].todo
          /\ proc[o].stages # <<>> /\ proc'[o].url \in {proc[o].url, Where(proc[o].at)}
      BY <2>2, <2>3, LoadsAsAsked
    <3>2. Begun(o) \subseteq Begun(o)'
      BY <2>2, <3>1, StillBegun
    <3>3. proc[o].at \in Begun(o) /\ LastOf(proc'[o].todo, session[o].targets)
      BY <3>1 DEF Urls
    <3>4. Where(proc[o].at) = "dev" \/ AppliesTo(proc[o].at, Where(proc[o].at))
      BY DEF Where, AppliesTo
    <3> QED
      BY <1>3, <2>2, <3>1, <3>2, <3>3, <3>4 DEF Urls
  <2> QED
    BY <1>1, <2>2, <2>3
<1>6. ASSUME NEW o \in Operator, Finish(o)
      PROVE  Urls'
  <2>1. /\ UNCHANGED session /\ Others(o) /\ proc[o].stages # <<>> /\ proc'[o].at = proc[o].at
        /\ proc'[o].todo = proc[o].todo /\ proc'[o].url = proc[o].url
    BY <1>6, Finishes DEF Same
  <2>2. Begun(o) \subseteq Begun(o)'
    BY <2>1, StillBegun
  <2> QED
    BY <1>3, <2>1, <2>2 DEF Urls
<1>7. ASSUME NEW o \in Operator, End(o)
      PROVE  Urls'
  <2>1. /\ UNCHANGED session /\ Others(o) /\ proc'[o].at = proc[o].at /\ proc'[o].url = proc[o].url
        /\ proc'[o].todo \in {proc[o].todo, <<>>}
        /\ proc'[o].stages # <<>> => proc[o].stages # <<>>
    BY <1>7, EndLeaves DEF Same
  <2>2. Begun(o) \subseteq Begun(o)'
    BY <2>1, StillBegun
  <2>3. LastOf(proc'[o].todo, session[o].targets)
    <3>1. session[o].targets \in Seq(Target)
      BY MageAssumption DEF Frame
    <3>2. LastOf(<<>>, session[o].targets)
      BY <3>1 DEF LastOf
    <3> QED
      BY <2>1, <3>2 DEF Urls
  <2> QED
    BY <1>3, <2>1, <2>2, <2>3 DEF Urls
<1> QED
  BY <1>1, <1>2, <1>4, <1>5, <1>6, <1>7 DEF OpsNext, ops, mage
-----------------------------------------------------------------------------
(* There is a database on each machine, and the shared ones.               *)
Databases == database = [x \in Machine \cup Shared |-> database[x]]

(* A process is on a machine.                                              *)
LEMMA MachineOf ==
    ASSUME Frame, NEW o \in Operator
    PROVE  Here(o) \in Machine
BY MageAssumption DEF Frame, Here

(* Who may migrate a shared database.                                      *)
Migrates(o, x) ==
    /\ proc[o].stages # <<>>
    /\ \/ AppliesTo(proc[o].at, x)
       \/ ~FindsEnv(o, Where(proc[o].at)) /\ \E t \in Begun(o) : AppliesTo(t, x)

(* A migration goes to this database.                                      *)
LEMMA ConnectedAsAsked ==
    ASSUME Frame, ConnectsAsAsked, Urls, NEW o \in Operator, NEW w \in Busy(o),
           Command(o, w).do = "apply", Connected(o) \in Shared
    PROVE  Migrates(o, Connected(o))
<1>1. Loaded(Here(o), proc[o]) /\ proc[o].stages # <<>>
  BY AppliesWhereAsked, BusyWorker
<1>2. proc[o].url # "dev" /\ Connected(o) = proc[o].url
  BY MachineOf, SchemaMigrationsAssumption DEF Connected
<1>3. proc[o].url # "none"
  BY <1>2 DEF Shared
<1>4. \E t \in Begun(o) : AppliesTo(t, Connected(o))
  BY <1>2, <1>3 DEF Urls
<1>5. CASE proc[o].url = Where(proc[o].at)
  <2>1. AppliesTo(proc[o].at, Connected(o))
    BY <1>2, <1>5 DEF Where, AppliesTo
  <2> QED
    BY <1>1, <2>1 DEF Migrates
<1>6. CASE Misses(Here(o), proc[o])
  <2>1. ~FindsEnv(o, Where(proc[o].at))
    BY <1>6 DEF FindsEnv, Misses
  <2> QED
    BY <1>1, <1>4, <2>1 DEF Migrates
<1> QED
  BY <1>1, <1>5, <1>6 DEF Loaded

(* What a step may change of the databases.                                *)
LEMMA DatabaseStep ==
    ASSUME Frame, Databases, ConnectsAsAsked, Urls, [OpsNext]_ops
    PROVE  /\ Databases'
           /\ \A x \in Shared : database'[x] # database[x] => \E o \in Operator : Migrates(o, x)
<1> DEFINE Goal == /\ Databases'
                   /\ \A x \in Shared : database'[x] # database[x] => \E o \in Operator : Migrates(o, x)
<1>1. ASSUME UNCHANGED database
      PROVE  Goal
  BY <1>1 DEF Databases
<1>2. ASSUME NEW m \in Machine, NEW d, database' = [database EXCEPT ![m] = d]
      PROVE  Goal
  <2>1. \A x \in Shared : x # m
    BY SchemaMigrationsAssumption
  <2> QED
    BY <1>2, <2>1 DEF Databases
<1>3. CASE External
  <2>1. ASSUME NEW m \in Machine, Starts(m)
        PROVE  Goal
    <3>1. database' = [database EXCEPT ![m] = [database[m] EXCEPT !.up = TRUE]]
      BY <2>1 DEF Starts
    <3> QED
      BY <1>2, <3>1
  <2>2. UNCHANGED database \/ \E m \in Machine : Starts(m)
    BY <1>3 DEF External, Edit, schema
  <2> QED
    BY <1>1, <2>1, <2>2
<1>4. ASSUME NEW o \in Operator, Do(o)
      PROVE  Goal
  <2> DEFINE x == Connected(o)
  <2>1. PICK w \in Busy(o) :
            \/ UNCHANGED database
            \/ Up(o, w)
            \/ SchemaCommand(o, w)
    BY <1>4 DEF Do, schema
  <2>2. Here(o) \in Machine
    BY MachineOf
  <2>3. \/ UNCHANGED database
        \/ \E d : database' = [database EXCEPT ![Here(o)] = d]
        \/ Command(o, w).do = "apply" /\ \E d : database' = [database EXCEPT ![x] = d]
    BY <2>1 DEF SchemaCommand, Up, Restart
  <2>4. ASSUME Command(o, w).do = "apply", NEW d, database' = [database EXCEPT ![x] = d]
        PROVE  Goal
    <3>1. \A y \in Shared : database'[y] # database[y] => y = x
      BY <2>4 DEF Databases
    <3>2. Databases'
      BY <2>4 DEF Databases
    <3>3. x \in Shared => Migrates(o, x)
      BY <2>4, ConnectedAsAsked
    <3> QED
      BY <3>1, <3>2, <3>3
  <2> QED
    BY <1>1, <1>2, <2>2, <2>3, <2>4
<1>5. ASSUME NEW o \in Operator, Begin(o) \/ Finish(o) \/ End(o)
      PROVE  Goal
  BY <1>1, <1>5 DEF Begin, Finish, End, schema
<1> QED
  BY <1>1, <1>3, <1>4, <1>5 DEF OpsNext, ops, schema

(* No process migrates a shared database unless its present target was     *)
(* asked to: LoadEnv goes over what earlier targets have loaded            *)
(* (mage.go:25). Where one of the files it reads is missing it stops       *)
(* without an error, and the variables of an earlier target remain: even   *)
(* then the database is one that the process was asked to migrate.         *)
THEOREM MigrationsGoWhereAsked == OpsSpec => MigratesWhereAsked
<1> DEFINE Inv == Frame /\ Databases /\ ConnectsAsAsked /\ Urls
<1>1. OpsInit => Inv
  BY FrameBegins, ConnectsBegins, UrlsBegin DEF OpsInit, SchemaInit, Databases
<1>2. Inv /\ [OpsNext]_ops => Inv'
  BY FrameStep, ConnectsStep, UrlsStep, DatabaseStep
<1>3. Inv /\ [OpsNext]_ops =>
        [\A x \in Shared : database'[x] # database[x] =>
            \E o \in Operator :
                /\ proc[o].stages # <<>>
                /\ \/ AppliesTo(proc[o].at, x)
                   \/ /\ ~FindsEnv(o, Where(proc[o].at))
                      /\ \E t \in Begun(o) : AppliesTo(t, x)]_ops
  BY DatabaseStep DEF Migrates
<1> QED
  BY <1>1, <1>2, <1>3, PTL DEF OpsSpec, MigratesWhereAsked
-----------------------------------------------------------------------------
(* Only a target that builds has the one command, none but those that      *)
(* serve what they build has the other.                                    *)
Suits(t, cs) ==
    /\ Has(cs, "build") => Builds(t)
    /\ Has(cs, "up") => t.target = "ecr" \/ t \in SchemaTargets

BuildsAsAsked ==
    \A o \in Operator : proc[o].stages # <<>> =>
        \A w \in DOMAIN proc[o].stages[1] : Suits(proc[o].at, proc[o].stages[1][w])

(* A target begins with commands that suit it.                             *)
LEMMA BuildersBuild ==
    ASSUME NEW t \in Target, NEW o \in Operator, NEW w \in DOMAIN Stages(t, o)[1]
    PROVE  Suits(t, Stages(t, o)[1][w])
<1>1. CASE ServiceTarget(t)
  <2>1. Stages(t, o) = ServiceStages(t) /\ t \in ServiceTargets
    BY <1>1, TargetKinds DEF Stages
  <2>2. PICK s : s = ServiceStages(t)
    OBVIOUS
  <2>3. CASE ~t.all
    <3>1. w = "main" /\ DeployList(t, t.d, s[1]["main"]) /\ (Has(s[1]["main"], "build") => t.build)
      BY <2>1, <2>2, <2>3, ServiceStaged DEF Staged
    <3> QED
      BY <1>1, <2>1, <2>2, <3>1 DEF Suits, Builds, DeployList
  <2>4. CASE t.all
    <3>1. w = "main" /\ s[1]["main"] = BuildCommands
      <4>1. Staged(t, s) /\ Len(s) = 2 /\ s[1]["main"] = BuildCommands
        BY <2>1, <2>2, <2>4, ServiceStaged
      <4> QED
        BY <2>1, <2>2, <2>4, <4>1 DEF Staged
    <3> QED
      BY <1>1, <2>1, <2>2, <2>4, <3>1, BuildList DEF Suits, Builds
  <2> QED
    BY <2>3, <2>4
<1>2. CASE InfraTarget(t)
  <2>1. Stages(t, o) = InfraStages(t) /\ t \in InfraTargets /\ ~ServiceTarget(t)
    BY <1>2, TargetKinds DEF Stages
  <2>2. Staged(t, InfraStages(t))
    BY <2>1, InfraStaged
  <2>3. w = "main"
    BY <2>1, <2>2 DEF Staged
  <2>4. CASE t.target # "ecr"
    <3>1. t \in [target : {"cdk_deploy", "cdk_diff", "cdk_list"}, env : Env]
      BY <2>1, <2>4 DEF InfraTargets
    <3>2. ~Has(CdkCommands(t), "build") /\ ~Has(CdkCommands(t), "up")
      BY <3>1, CdkList
    <3> QED
      BY <2>1, <2>3, <2>4, <3>2, InfraStaged DEF Suits
  <2> QED
    BY <2>4 DEF Suits, Builds
<1>3. CASE ~ServiceTarget(t) /\ ~InfraTarget(t)
  <2>1. Stages(t, o) = SchemaStages(t, Here(o)) /\ t \in SchemaTargets
    BY <1>3, TargetKinds DEF Stages
  <2>2. Staged(t, SchemaStages(t, Here(o))) /\ ~Has(SchemaStages(t, Here(o))[1]["main"], "build")
    BY <2>1, SchemaStaged
  <2>3. w = "main"
    BY <2>1, <2>2, SchemaAlone
  <2> QED
    BY <2>1, <2>2, <2>3 DEF Suits
<1> QED
  BY <1>1, <1>2, <1>3

(* Every step keeps BuildsAsAsked.                                         *)
LEMMA BuildersStep ==
    ASSUME Frame, BuildsAsAsked, [OpsNext]_ops
    PROVE  BuildsAsAsked'
<1>1. ASSUME UNCHANGED proc
      PROVE  BuildsAsAsked'
  BY <1>1 DEF BuildsAsAsked
<1>2. CASE External
  BY <1>1, <1>2 DEF External, Replace, Edit, Starts, mage
<1>3. ASSUME NEW o \in Operator, Others(o),
             proc'[o].stages # <<>> => \A w \in DOMAIN proc'[o].stages[1] :
                Suits(proc'[o].at, proc'[o].stages[1][w])
      PROVE  BuildsAsAsked'
  BY <1>3 DEF BuildsAsAsked, Others
<1>4. ASSUME NEW o \in Operator, Begin(o)
      PROVE  BuildsAsAsked'
  <2>1. /\ proc'[o].at \in Target /\ Others(o)
        /\ proc'[o].stages = Stages(proc'[o].at, o)
    BY <1>4, Begins
  <2> QED
    BY <1>3, <2>1, BuildersBuild
<1>5. ASSUME NEW o \in Operator, Do(o)
      PROVE  BuildsAsAsked'
  <2>1. PICK w \in Busy(o) : Performs(o, w)
    BY <1>5 DEF Do, Performs
  <2>2. UNCHANGED proc \/ \E p : Formed(p) /\ Same(proc[o], p, Settings) /\ Advance(o, w, p)
    BY <2>1, CommandSets
  <2>3. ASSUME NEW p, Formed(p), Same(proc[o], p, Settings), Advance(o, w, p)
        PROVE  BuildsAsAsked'
    <3> DEFINE s == proc[o].stages
               q == proc'[o]
    <3>1. Popping(o, w, p)
      BY <2>3, Pops DEF Same, Settings
    <3>2. Others(o) /\ q.at = proc[o].at /\ Shorter(proc[o].at, s, w, q.stages)
      BY <2>3, <3>1 DEF Popping, Same, Settings
    <3>3. s # <<>> /\ w \in DOMAIN s[1] /\ Sorted(s[1][w], 0, 7) /\ s[1][w] # <<>>
      BY BusyWorker
    <3>4. \A do : Has(Tail(s[1][w]), do) => Has(s[1][w], do)
      BY <3>3, Popped
    <3>5. \A do : \A x \in DOMAIN s[1] : Has(q.stages[1][x], do) => Has(s[1][x], do)
      BY <3>2, <3>3, <3>4 DEF Shorter
    <3> QED
      BY <1>3, <3>2, <3>3, <3>5 DEF BuildsAsAsked, Suits, Shorter
  <2> QED
    BY <1>1, <2>2, <2>3
<1>6. ASSUME NEW o \in Operator, Finish(o)
      PROVE  BuildsAsAsked'
  <2> DEFINE q == proc'[o]
             s == proc[o].stages
  <2>1. /\ Others(o) /\ proc[o].at \in Target /\ s # <<>>
        /\ q.stages = <<>> \/ (Len(s) = 2 /\ q.stages[1] = s[2])
    BY <1>6, Finishes
  <2>2. ASSUME Len(s) = 2, q.stages[1] = s[2], NEW d \in DOMAIN q.stages[1]
        PROVE  Suits(proc[o].at, q.stages[1][d])
    <3>1. Staged(proc[o].at, s)
      BY <2>1, AskedTargets
    <3>2. /\ s[2] = [x \in DeploymentIdents |-> DeployCommands(proc[o].at, x)]
          /\ ServiceTarget(proc[o].at)
      BY <2>2, <3>1 DEF Staged
    <3>3. proc[o].at \in ServiceTargets /\ d \in Ident
      BY <2>1, <2>2, <3>2, TargetKinds, ServiceDeployAssumption
    <3> QED
      BY <2>2, <3>2, <3>3, DeployCommandsList DEF Suits, DeployList
  <2>3. q.at = proc[o].at
    BY <1>6, Finishes DEF Same
  <2> QED
    BY <1>3, <2>1, <2>2, <2>3
<1>7. ASSUME NEW o \in Operator, End(o)
      PROVE  BuildsAsAsked'
  <2> DEFINE q == proc'[o]
             s == proc[o].stages
  <2>1. /\ Others(o) /\ q.at = proc[o].at
        /\ q.stages # <<>> =>
            /\ s # <<>> /\ DOMAIN q.stages[1] = DOMAIN s[1]
            /\ \A x \in DOMAIN q.stages[1] : q.stages[1][x] \in {<<>>, s[1][x]}
    BY <1>7, EndLeaves DEF Same
  <2>2. \A t : Suits(t, <<>>)
    BY NoCommands DEF Suits
  <2> QED
    BY <1>3, <2>1, <2>2 DEF BuildsAsAsked
<1> QED
  BY <1>1, <1>2, <1>4, <1>5, <1>6, <1>7 DEF OpsNext, ops, mage

-----------------------------------------------------------------------------
(* What has been published or pushed, from an index on.                    *)
Since(hist, from) == {hist[i] : i \in from .. Len(hist)}

(* An image has the digest of one that was built for the same.             *)
Paired(names) == \A x \in names : x.tag.for = x.is.for /\ (x.tag = NoImage => x.is = NoImage)

(* So it is on every machine and in the registry.                          *)
AllPaired ==
    /\ tagged = [m \in Machine |-> tagged[m]]
    /\ \A m \in Machine : Paired(tagged[m])
    /\ Paired(repository)

(* What parameters have named is in the registry and for their environment.*)
Published ==
    /\ AllPaired
    /\ parameter = [e \in Stack |-> parameter[e]]
    /\ context = [m \in Machine |-> [e \in Stack |-> context[m][e]]]
    /\ image = [m \in Machine |-> image[m]]
    /\ \A e \in Stack :
        /\ parameter[e] \in Seq(Tags(repository)) /\ Len(parameter[e]) >= 1
        /\ \A i \in DOMAIN parameter[e] :
                parameter[e][i] = NoImage \/ ParameterOf(parameter[e][i].for) = e

(* What the targets of InfraDeploy have to do.                            *)
InfraDos(t) ==
    IF t.target = "ecr"
    THEN {"load", "build", "up", "login", "inspect", "tag_digest", "push_digest", "put-parameter"}
    ELSE {"live_context", "chdir", "synth", "deploy_stack"}

(* Before a deploy the cached parameter is read anew, and an image is      *)
(* known by its digest before it is pushed and published.                  *)
InfraOrder(t, cs) ==
    /\ \A i \in DOMAIN cs : cs[i].do \in InfraDos(t)
    /\ Has(cs, "live_context") => Has(cs, "chdir") /\ Has(cs, "synth")
    /\ Has(cs, "inspect") => Has(cs, "tag_digest")
    /\ Has(cs, "tag_digest") => Has(cs, "push_digest")

(* What a CDK deploy finds cached is no older than its beginning.          *)
Current(o, e) == context[Here(o)][e] \in {NotCached} \cup Since(parameter[e], proc[o].from)

(* What a deploy knows at each of its commands.                            *)
DeployKnows(o, cs) ==
    LET e == proc[o].at.env
    IN  /\ e \in Stack => proc[o].from \in 1 .. Len(parameter[e])
        /\ ~Has(cs, "live_context") => ProfileFromEnv(e)
        /\ ~Has(cs, "live_context") /\ Has(cs, "synth") /\ (Has(cs, "chdir") => FindsCdkDir(o))
              => Current(o, e)
        /\ ~Has(cs, "synth") => proc[o].digest \in Since(parameter[e], proc[o].from)

(* What BuildPushSetParam knows at each of its commands.                   *)
EcrKnows(o, cs) ==
    LET e == proc[o].at.env
    IN  /\ ~Has(cs, "build") /\ Has(cs, "tag_digest") => image[Here(o)].for = e
        /\ ~Has(cs, "inspect") => proc[o].digest.for = e
        /\ ~Has(cs, "tag_digest") => proc[o].digest \in Tags(tagged[Here(o)])
        /\ ~Has(cs, "push_digest") => proc[o].digest \in Tags(repository)

(* A process at a target of InfraDeploy.                                  *)
AtInfra(o) ==
    proc[o].status = "running" /\ proc[o].stages # <<>> /\ InfraTarget(proc[o].at)

(* What a process at such a target knows.                                  *)
InfraKnows(o) ==
    LET cs == proc[o].stages[1]["main"]
    IN  AtInfra(o) =>
            /\ InfraOrder(proc[o].at, cs)
            /\ proc[o].at.target = "cdk_deploy" => DeployKnows(o, cs)
            /\ proc[o].at.target = "ecr" => EcrKnows(o, cs)

(* How others see parameters and caches change.                            *)
Moves ==
    /\ UNCHANGED session
    /\ parameter' = [e \in Stack |-> parameter'[e]]
    /\ context' = [m \in Machine |-> [e \in Stack |-> context'[m][e]]]
    /\ AllPaired'
    /\ \A m \in Machine : Tags(tagged[m]) \subseteq Tags(tagged'[m])
    /\ Tags(repository) \subseteq Tags(repository')
    /\ \A e \in Stack :
        \/ parameter'[e] = parameter[e]
        \/ \E x \in Tags(repository) : ParameterOf(x.for) = e /\ parameter'[e] = Append(parameter[e], x)
    /\ \A m \in Machine, e \in Stack : context'[m][e] \in {context[m][e], NotCached, Parameter(e)}

(* A target of InfraDeploy has one worker and one stage.                  *)
LEMMA InfraWorker ==
    ASSUME Frame, NEW o \in Operator, NEW w \in Busy(o), InfraTarget(proc[o].at)
    PROVE  LET s == proc[o].stages
               cs == s[1][w]
           IN  /\ w = "main" /\ DOMAIN s[1] = {"main"} /\ s # <<>> /\ cs # <<>>
               /\ Sorted(cs, 0, 7) /\ Command(o, w) = cs[1] /\ Staged(proc[o].at, s)
               /\ AtInfra(o) /\ proc[o].at \in InfraTargets
<1>1. /\ proc[o].stages # <<>> /\ Staged(proc[o].at, proc[o].stages) /\ proc[o].at \in Target
      /\ w \in DOMAIN proc[o].stages[1] /\ proc[o].stages[1][w] # <<>>
      /\ Sorted(proc[o].stages[1][w], 0, 7) /\ Command(o, w) = proc[o].stages[1][w][1]
  BY BusyWorker
<1>2. ~ServiceTarget(proc[o].at) /\ proc[o].at \in InfraTargets
  BY <1>1, TargetKinds
<1>3. w = "main" /\ DOMAIN proc[o].stages[1] = {"main"}
  BY <1>1, <1>2 DEF Staged
<1>4. proc[o].status = "running"
  BY <1>1, <1>3 DEF Frame, Halted
<1> QED
  BY <1>1, <1>2, <1>3, <1>4 DEF AtInfra

(* The head of a list in order, and what is left when it is done.          *)
LEMMA InOrderPopped ==
    ASSUME NEW cs, Sorted(cs, 0, 7), cs # <<>>, cs[1].do # "load", NEW do, do # "load",
           Rank(do) < Rank(cs[1].do)
    PROVE  ~Has(cs, do)
<1>1. Has(Tail(cs), do) => Rank(cs[1].do) <= Rank(do)
  BY Popped
<1>2. Rank(do) \in Nat /\ Rank(cs[1].do) \in Nat
  BY RankIsNat
<1>3. ~Has(Tail(cs), do)
  BY <1>1, <1>2
<1>4. cs[1].do # do
  BY <1>2
<1> QED
  BY <1>3, <1>4, Popped

(* InfraOrder is kept as commands are done.                                *)
LEMMA InfraOrderPopped ==
    ASSUME NEW t, NEW cs, Sorted(cs, 0, 7), cs # <<>>, InfraOrder(t, cs)
    PROVE  /\ InfraOrder(t, Tail(cs)) /\ cs[1].do \in InfraDos(t)
           /\ \A do : Has(Tail(cs), do) => Has(cs, do)
           /\ \A do : do # cs[1].do => (Has(Tail(cs), do) <=> Has(cs, do))
           /\ cs[1].do # "load" => \A do : Rank(do) < Rank(cs[1].do) /\ do # "load" => ~Has(cs, do)
<1>1. /\ \A do : Has(cs, do) <=> cs[1].do = do \/ Has(Tail(cs), do)
      /\ \A i \in DOMAIN Tail(cs) : i + 1 \in DOMAIN cs /\ Tail(cs)[i] = cs[i + 1]
      /\ 1 \in DOMAIN cs
  BY Popped
<1>2. cs[1].do \in InfraDos(t)
  BY <1>1 DEF InfraOrder
<1>3. cs[1].do # "load" => \A do : Rank(do) < Rank(cs[1].do) /\ do # "load" => ~Has(cs, do)
  BY InOrderPopped
<1>4. /\ Rank("live_context") = 0 /\ Rank("chdir") = 1 /\ Rank("synth") = 2
      /\ Rank("inspect") = 2 /\ Rank("tag_digest") = 3 /\ Rank("push_digest") = 4
  BY DEF Rank
<1>5. \A i \in DOMAIN Tail(cs) : Tail(cs)[i].do \in InfraDos(t)
  BY <1>1 DEF InfraOrder
<1>6. Has(Tail(cs), "live_context") => Has(Tail(cs), "chdir") /\ Has(Tail(cs), "synth")
  BY <1>1, <1>3, <1>4 DEF InfraOrder
<1>7. /\ Has(Tail(cs), "inspect") => Has(Tail(cs), "tag_digest")
      /\ Has(Tail(cs), "tag_digest") => Has(Tail(cs), "push_digest")
  BY <1>1, <1>3, <1>4 DEF InfraOrder
<1>8. InfraOrder(t, Tail(cs))
  BY <1>5, <1>6, <1>7 DEF InfraOrder
<1> QED
  BY <1>1, <1>2, <1>3, <1>8

(* Since grows with what is published.                                     *)
LEMMA SinceGrows ==
    ASSUME NEW S, NEW hist \in Seq(S), NEW from \in Nat \ {0}, NEW x
    PROVE  /\ Since(hist, from) \subseteq Since(Append(hist, x), from)
           /\ from \in 1 .. Len(hist) =>
                /\ hist[Len(hist)] \in Since(hist, from)
                /\ from \in 1 .. Len(Append(hist, x))
<1>1. PICK u : u = Append(hist, x)
  OBVIOUS
<1>2. Len(u) = Len(hist) + 1 /\ Len(hist) \in Nat /\ \A i \in 1 .. Len(hist) : u[i] = hist[i]
  BY <1>1
<1>3. \A i \in from .. Len(hist) : i \in from .. Len(u) /\ u[i] = hist[i]
  BY <1>2
<1> QED
  BY <1>1, <1>2, <1>3 DEF Since

(* What has been published stays so.                                       *)
LEMMA MovesSince ==
    ASSUME Published, Moves, NEW e \in Stack, NEW from \in 1 .. Len(parameter[e])
    PROVE  /\ Since(parameter[e], from) \subseteq Since(parameter'[e], from)
           /\ Parameter(e) \in Since(parameter[e], from)
           /\ from \in 1 .. Len(parameter'[e])
<1>1. parameter[e] \in Seq(Tags(repository)) /\ Len(parameter[e]) \in Nat
  BY DEF Published
<1>2. from \in Nat \ {0}
  BY <1>1
<1>3. parameter'[e] = parameter[e] \/ \E x : parameter'[e] = Append(parameter[e], x)
  BY DEF Moves
<1> QED
  BY <1>1, <1>2, <1>3, SinceGrows DEF Parameter

(* Moves keeps Published.                                                  *)
LEMMA MovesPublished ==
    ASSUME Published, Moves, image' = [m \in Machine |-> image'[m]]
    PROVE  Published'
<1>1. ASSUME NEW e \in Stack
      PROVE  /\ parameter'[e] \in Seq(Tags(repository')) /\ Len(parameter'[e]) >= 1
             /\ \A i \in DOMAIN parameter'[e] :
                    parameter'[e][i] = NoImage \/ ParameterOf(parameter'[e][i].for) = e
  <2>1. parameter[e] \in Seq(Tags(repository)) /\ Len(parameter[e]) >= 1 /\ Tags(repository) \subseteq Tags(repository')
    BY DEF Published, Moves
  <2>2. parameter[e] \in Seq(Tags(repository'))
    BY <2>1
  <2>3. CASE parameter'[e] = parameter[e]
    BY <2>1, <2>2, <2>3 DEF Published
  <2>4. ASSUME NEW x \in Tags(repository), ParameterOf(x.for) = e, parameter'[e] = Append(parameter[e], x)
        PROVE  /\ parameter'[e] \in Seq(Tags(repository')) /\ Len(parameter'[e]) >= 1
               /\ \A i \in DOMAIN parameter'[e] :
                    parameter'[e][i] = NoImage \/ ParameterOf(parameter'[e][i].for) = e
    <3>1. PICK u : u = Append(parameter[e], x)
      OBVIOUS
    <3>2. /\ u \in Seq(Tags(repository')) /\ Len(u) = Len(parameter[e]) + 1
          /\ \A i \in DOMAIN u : (i \in DOMAIN parameter[e] /\ u[i] = parameter[e][i]) \/ u[i] = x
      BY <2>1, <2>2, <3>1
    <3>3. \A i \in DOMAIN u : u[i] = NoImage \/ ParameterOf(u[i].for) = e
      BY <2>4, <3>2 DEF Published
    <3> QED
      BY <2>1, <2>4, <3>1, <3>2, <3>3
  <2> QED
    BY <2>3, <2>4 DEF Moves
<1> QED
  BY <1>1 DEF Published, Moves

(* Environments with a profile have a stack.                               *)
LEMMA ProfiledIsStack == \A e : ProfileFromEnv(e) => e \in Stack
BY DEF ProfileFromEnv, Stack

(* A context that is current stays so, for the one that cached it and if   *)
(* another caches it anew.                                                 *)
LEMMA LiveStays ==
    ASSUME Published, Moves, Frame, NEW o \in Operator, NEW e \in Stack,
           proc[o].from \in 1 .. Len(parameter[e]), proc'[o].from = proc[o].from, Current(o, e)
    PROVE  Current(o, e)'
<1>1. Here(o) \in Machine /\ Here(o)' = Here(o)
  BY MachineOf DEF Here, Moves
<1>2. context'[Here(o)][e] \in {context[Here(o)][e], NotCached, Parameter(e)}
  BY <1>1 DEF Moves
<1> QED
  BY <1>1, <1>2, MovesSince DEF Current

(* What a process knows is not undone by another.                          *)
LEMMA OthersKnow ==
    ASSUME Published, Moves, Frame, NEW o \in Operator, InfraKnows(o), proc'[o] = proc[o],
           AtInfra(o) /\ proc[o].at.target = "ecr" =>
              image'[Here(o)] = image[Here(o)] \/ image'[Here(o)].for = proc[o].at.env
    PROVE  InfraKnows(o)'
<1> DEFINE e == proc[o].at.env
           cs == proc[o].stages[1]["main"]
<1>1. /\ Here(o)' = Here(o) /\ FindsCdkDir(o)' = FindsCdkDir(o) /\ AtInfra(o)' = AtInfra(o)
      /\ Tags(repository) \subseteq Tags(repository')
      /\ Tags(tagged[Here(o)]) \subseteq Tags(tagged'[Here(o)])
  BY MachineOf DEF Here, Moves, FindsCdkDir, AtInfra
<1>2. ASSUME AtInfra(o), proc[o].at.target = "cdk_deploy"
      PROVE  DeployKnows(o, cs)'
  <2>1. InfraOrder(proc[o].at, cs) /\ DeployKnows(o, cs)
    BY <1>2 DEF InfraKnows
  <2>2. e \in Stack => proc[o].from \in 1 .. Len(parameter'[e])
    BY <2>1, MovesSince DEF DeployKnows
  <2>3. ~Has(cs, "live_context") => ProfileFromEnv(e)
    BY <2>1 DEF DeployKnows
  <2>4. ASSUME ~Has(cs, "live_context"), Has(cs, "synth"), Has(cs, "chdir") => FindsCdkDir(o)
        PROVE  Current(o, e)'
    <3>1. e \in Stack /\ Current(o, e)
      BY <2>1, <2>4, ProfiledIsStack DEF DeployKnows
    <3> QED
      BY <2>1, <3>1, LiveStays DEF DeployKnows
  <2>5. ASSUME ~Has(cs, "synth")
        PROVE  proc[o].digest \in Since(parameter'[e], proc[o].from)
    <3>1. e \in Stack /\ proc[o].digest \in Since(parameter[e], proc[o].from)
      BY <2>1, <2>5, ProfiledIsStack DEF DeployKnows, InfraOrder
    <3> QED
      BY <2>1, <3>1, MovesSince DEF DeployKnows
  <2> QED
    BY <1>1, <2>2, <2>3, <2>4, <2>5 DEF DeployKnows
<1>3. ASSUME AtInfra(o), proc[o].at.target = "ecr"
      PROVE  EcrKnows(o, cs)'
  <2>1. EcrKnows(o, cs) /\ (image'[Here(o)] = image[Here(o)] \/ image'[Here(o)].for = e)
    BY <1>3 DEF InfraKnows
  <2> HIDE DEF cs
  <2>2. cs' = cs /\ proc'[o].at.env = e /\ proc'[o].digest = proc[o].digest
    BY DEF cs
  <2> QED
    BY <1>1, <2>1, <2>2 DEF EcrKnows, Tags
<1> QED
  BY <1>1, <1>2, <1>3 DEF InfraKnows

(* What is left of a process after a command of InfraDeploy.              *)
LEMMA InfraAdvances ==
    ASSUME Frame, NEW o \in Operator, NEW w \in Busy(o), InfraTarget(proc[o].at), InfraKnows(o),
           NEW p, NEW x,
           \/ p = proc[o] \/ p = [proc[o] EXCEPT !.built = x]
           \/ p = [proc[o] EXCEPT !.digest = x] \/ p = [proc[o] EXCEPT !.inside = x]
           \/ p = [proc[o] EXCEPT !.url = x],
           Advance(o, w, p)
    PROVE  LET q == proc'[o]
               cs == proc[o].stages[1]["main"]
           IN  /\ Others(o) /\ q.at = proc[o].at /\ q.from = proc[o].from
               /\ q.digest = p.digest /\ q.inside = p.inside
               /\ q.stages[1]["main"] = Tail(cs) /\ InfraOrder(q.at, Tail(cs))
<1> DEFINE q == proc'[o]
           cs == proc[o].stages[1]["main"]
<1>1. Formed(proc[o])
  BY DEF Frame
<1>2. Formed(p) /\ Same(proc[o], p, Settings)
  BY <1>1, Set
<1>3. p.from = proc[o].from /\ p.at = proc[o].at /\ p.stages = proc[o].stages
  BY <1>2 DEF Same, Settings
<1>4. Popping(o, w, p)
  BY <1>2, <1>3, Pops
<1>5. w = "main" /\ Sorted(cs, 0, 7) /\ cs # <<>> /\ AtInfra(o)
  BY InfraWorker
<1>6. InfraOrder(proc[o].at, Tail(cs))
  BY <1>5, InfraOrderPopped DEF InfraKnows
<1>7. q.stages[1]["main"] = Tail(cs)
  BY <1>4, <1>5 DEF Popping, Shorter
<1> QED
  BY <1>3, <1>4, <1>6, <1>7 DEF Popping, Same

(* What worker w of o does next, at a target for an environment.           *)
LEMMA InfraHead ==
    ASSUME Frame, NEW o \in Operator, NEW w \in Busy(o), InfraTarget(proc[o].at), InfraKnows(o)
    PROVE  LET cs == proc[o].stages[1]["main"]
               c == Command(o, w).do
           IN  /\ c \in InfraDos(proc[o].at) /\ proc[o].at \in InfraTargets
               /\ Has(cs, c) /\ InfraOrder(proc[o].at, cs)
               /\ \A do : Has(Tail(cs), do) => Has(cs, do)
               /\ \A do : do # c => (Has(Tail(cs), do) <=> Has(cs, do))
               /\ c # "load" => \A do : Rank(do) < Rank(c) /\ do # "load" => ~Has(cs, do)
               /\ proc[o].at.target = "cdk_deploy" => DeployKnows(o, cs)
               /\ proc[o].at.target = "ecr" => EcrKnows(o, cs)
<1> DEFINE cs == proc[o].stages[1]["main"]
<1>1. /\ w = "main" /\ Sorted(cs, 0, 7) /\ cs # <<>> /\ AtInfra(o) /\ Command(o, w) = cs[1]
      /\ proc[o].at \in InfraTargets
  BY InfraWorker
<1>2. /\ InfraOrder(proc[o].at, cs)
      /\ proc[o].at.target = "cdk_deploy" => DeployKnows(o, cs)
      /\ proc[o].at.target = "ecr" => EcrKnows(o, cs)
  BY <1>1 DEF InfraKnows
<1>3. 1 \in DOMAIN cs
  BY <1>1, Popped
<1>4. Has(cs, cs[1].do)
  BY <1>3 DEF Has
<1> HIDE DEF cs
<1>5. /\ cs[1].do \in InfraDos(proc[o].at)
      /\ \A do : Has(Tail(cs), do) => Has(cs, do)
      /\ \A do : do # cs[1].do => (Has(Tail(cs), do) <=> Has(cs, do))
      /\ cs[1].do # "load" => \A do : Rank(do) < Rank(cs[1].do) /\ do # "load" => ~Has(cs, do)
  BY <1>1, <1>2, InfraOrderPopped
<1> QED
  BY <1>1, <1>2, <1>4, <1>5 DEF cs

(* A step of anything else is one of Moves.                                *)
LEMMA NothingMoves ==
    ASSUME Published, UNCHANGED <<session, infra>>
    PROVE  Moves
BY DEF Published, AllPaired, Moves, infra

(* The order of the commands.                                              *)
LEMMA InfraRanks ==
    /\ Rank("build") = 0 /\ Rank("live_context") = 0 /\ Rank("chdir") = 1
    /\ Rank("synth") = 2 /\ Rank("inspect") = 2 /\ Rank("tag_digest") = 3
    /\ Rank("deploy_stack") = 3 /\ Rank("push_digest") = 4 /\ Rank("put-parameter") = 5
    /\ Rank("login") = 1 /\ Rank("up") = 1
BY DEF Rank

(* put-parameter publishes a pushed image (infra.go:188).                  *)
LEMMA ParameterMoves ==
    ASSUME Frame, Published, NEW o \in Operator, NEW w \in Busy(o), InfraTarget(proc[o].at),
           InfraKnows(o), InfraCommand(o, w), Command(o, w).do = "put-parameter"
    PROVE  Moves
<1> DEFINE e == proc[o].at.env
           x == proc[o].digest
           cs == proc[o].stages[1]["main"]
<1>1. proc[o].at.target = "ecr" /\ ~Has(cs, "inspect") /\ ~Has(cs, "push_digest") /\ EcrKnows(o, cs)
  BY InfraHead, InfraRanks DEF InfraDos
<1>2. x.for = e /\ x \in Tags(repository)
  BY <1>1 DEF EcrKnows
<1>3. /\ parameter' = [parameter EXCEPT ![ParameterOf(e)] = Append(@, x)]
      /\ UNCHANGED <<tagged, repository, context, stack, session>>
  BY DEF InfraCommand
<1> QED
  BY <1>2, <1>3 DEF Moves, Published, AllPaired

(* live_context and synth cache the parameter, or forget it.               *)
LEMMA ContextMoves ==
    ASSUME Frame, Published, NEW o \in Operator, NEW w \in Busy(o),
           InfraCommand(o, w), Command(o, w).do \in {"live_context", "synth"}
    PROVE  Moves
<1>1. UNCHANGED <<tagged, repository, parameter, session>>
  BY DEF InfraCommand
<1>2. CASE Command(o, w).do = "live_context"
  <2>1. context' = LiveContextParams(o)
    BY <1>2 DEF InfraCommand
  <2> QED
    BY <1>1, <2>1 DEF Moves, Published, AllPaired, LiveContextParams
<1>3. CASE Command(o, w).do = "synth"
  <2> DEFINE e == proc[o].at.env
             m == Here(o)
  <2>1. PICK i : /\ i = IF context[m][e] = NotCached THEN Parameter(e) ELSE context[m][e]
                 /\ context' = [context EXCEPT ![m][e] = i]
    BY <1>3 DEF InfraCommand
  <2> HIDE DEF e, m
  <2>2. \A n \in Machine, f \in Stack : context'[n][f] \in {context[n][f], Parameter(f)}
    BY <2>1 DEF Published
  <2>3. context' = [n \in Machine |-> [f \in Stack |-> context'[n][f]]]
    <3>1. PICK r : r = [context[m] EXCEPT ![e] = i]
      OBVIOUS
    <3>2. context' = [context EXCEPT ![m] = r]
      BY <2>1, <3>1
    <3>3. m \in Machine => r = [f \in Stack |-> r[f]]
      <4>1. ASSUME m \in Machine
            PROVE  context[m] = [f \in Stack |-> context[m][f]]
        BY <4>1 DEF Published
      <4> QED
        BY <3>1, <4>1
    <3>4. \A n \in Machine : context'[n] = [f \in Stack |-> context'[n][f]]
      BY <3>2, <3>3 DEF Published
    <3> QED
      BY <3>2, <3>4 DEF Published
  <2> QED
    BY <1>1, <2>2, <2>3 DEF Moves, Published, AllPaired
<1> QED
  BY <1>2, <1>3

(* tag_digest and push_digest keep what digests name, and add what was     *)
(* built for this environment (deploy.go:72).                              *)
LEMMA NameMoves ==
    ASSUME Frame, Published, NEW o \in Operator, NEW w \in Busy(o), InfraTarget(proc[o].at),
           InfraKnows(o), InfraCommand(o, w), Command(o, w).do \in {"tag_digest", "push_digest"}
    PROVE  /\ Moves
           /\ Command(o, w).do = "tag_digest" => proc[o].digest \in Tags(tagged'[Here(o)])
           /\ Command(o, w).do = "push_digest" => proc[o].digest \in Tags(repository')
<1> DEFINE e == proc[o].at.env
           d == proc[o].digest
           m == Here(o)
           c == Command(o, w).do
           cs == proc[o].stages[1]["main"]
<1>1. m \in Machine /\ UNCHANGED <<session, parameter, context>>
  BY MachineOf DEF InfraCommand
<1>2. /\ proc[o].at.target = "ecr" /\ EcrKnows(o, cs) /\ e \in Env /\ Has(cs, c)
      /\ ~Has(cs, "build") /\ ~Has(cs, "inspect")
      /\ c = "push_digest" => ~Has(cs, "tag_digest")
  BY InfraHead, InfraRanks DEF InfraDos, InfraTargets
<1>3. d.for = e /\ d # NoImage
  BY <1>2, InfraDeployAssumption DEF EcrKnows, NoImage
<1>4. CASE c = "tag_digest"
  <2>1. PICK x : x = Name(d, image[m])
    OBVIOUS
  <2>2. PICK names : names = {y \in tagged[m] : y.tag # d} \cup {x}
    OBVIOUS
  <2>3. tagged' = [tagged EXCEPT ![m] = names] /\ UNCHANGED repository
    BY <1>4, <2>1, <2>2 DEF InfraCommand
  <2>4. x.tag = d /\ x.tag.for = x.is.for
    BY <1>2, <1>3, <1>4, <2>1 DEF Name, EcrKnows
  <2>5. Paired(names)
    BY <1>1, <1>3, <2>2, <2>4 DEF Published, AllPaired, Paired
  <2>6. Tags(tagged[m]) \subseteq Tags(names) /\ d \in Tags(names)
    BY <2>2, <2>4 DEF Tags
  <2>7. /\ tagged' = [n \in Machine |-> tagged'[n]] /\ tagged'[m] = names
        /\ \A n \in Machine : n # m => tagged'[n] = tagged[n]
    BY <1>1, <2>3 DEF Published, AllPaired
  <2>8. AllPaired'
    BY <2>3, <2>5, <2>7 DEF Published, AllPaired
  <2>9. \A n \in Machine : Tags(tagged[n]) \subseteq Tags(tagged'[n])
    BY <2>6, <2>7
  <2> QED
    BY <1>1, <1>4, <2>3, <2>6, <2>7, <2>8, <2>9 DEF Moves, Published
<1>5. CASE c = "push_digest"
  <2>1. repository' = repository \cup {x \in tagged[m] : x.tag = d} /\ UNCHANGED tagged
    BY <1>5 DEF InfraCommand
  <2>2. AllPaired'
    BY <1>1, <2>1 DEF Published, AllPaired, Paired
  <2>3. Tags(repository) \subseteq Tags(repository')
    BY <2>1 DEF Tags
  <2>4. d \in Tags(tagged[m])
    BY <1>2, <1>5 DEF EcrKnows
  <2>5. d \in Tags(repository')
    BY <2>1, <2>4 DEF Tags
  <2> QED
    BY <1>1, <1>5, <2>1, <2>2, <2>3, <2>5 DEF Moves, Published
<1> QED
  BY <1>4, <1>5

(* Every command of InfraDeploy is one of Moves.                          *)
LEMMA CommandMoves ==
    ASSUME Frame, Published, NEW o \in Operator, NEW w \in Busy(o), InfraTarget(proc[o].at),
           InfraKnows(o), InfraCommand(o, w)
    PROVE  Moves /\ UNCHANGED <<session, image, builds, reports>>
<1>1. Command(o, w).do = "put-parameter" => Moves
  BY ParameterMoves
<1>2. Command(o, w).do \in {"live_context", "synth"} => Moves
  BY ContextMoves
<1>3. Command(o, w).do \in {"inspect", "chdir"} => Moves
  BY NothingMoves DEF InfraCommand
<1>4. Command(o, w).do \in {"tag_digest", "push_digest"} => Moves
  BY NameMoves
<1>6. Command(o, w).do = "deploy_stack" => Moves
  <2>1. Command(o, w).do = "deploy_stack" => UNCHANGED <<session, tagged, repository, parameter, context>>
    BY DEF InfraCommand
  <2> QED
    BY <2>1 DEF Moves, Published, AllPaired
<1>5. UNCHANGED <<session, image, builds, reports>>
  BY DEF InfraCommand
<1> QED
  BY <1>1, <1>2, <1>3, <1>4, <1>5, <1>6 DEF InfraCommand

(* What is known of a deploy after its next command.                       *)
LEMMA DeployAdvances ==
    ASSUME Frame, Published, Moves, NEW o \in Operator, NEW w \in Busy(o),
           InfraTarget(proc[o].at), InfraKnows(o), InfraCommand(o, w),
           proc[o].at.target = "cdk_deploy"
    PROVE  DeployKnows(o, proc[o].stages[1]["main"])'
<1> DEFINE e == proc[o].at.env
           q == proc'[o]
           cs == proc[o].stages[1]["main"]
           c == Command(o, w).do
<1>1. /\ c \in {"live_context", "chdir", "synth", "deploy_stack"} /\ Has(cs, c)
      /\ \A do : Has(Tail(cs), do) => Has(cs, do)
      /\ \A do : do # c => (Has(Tail(cs), do) <=> Has(cs, do))
      /\ \A do : Rank(do) < Rank(c) /\ do # "load" => ~Has(cs, do)
      /\ DeployKnows(o, cs) /\ InfraOrder(proc[o].at, cs)
  BY InfraHead DEF InfraDos
<1>2. PICK p : /\ \/ p = proc[o] \/ \E x : p = [proc[o] EXCEPT !.digest = x]
                  \/ \E x : p = [proc[o] EXCEPT !.inside = x]
               /\ Advance(o, w, p)
  BY DEF InfraCommand
<1>3. /\ q.at = proc[o].at /\ q.from = proc[o].from /\ q.digest = p.digest /\ q.inside = p.inside
      /\ q.stages[1]["main"] = Tail(cs) /\ InfraOrder(q.at, Tail(cs))
  BY <1>2, InfraAdvances
<1>4. Here(o)' = Here(o) /\ Here(o) \in Machine
  BY MachineOf DEF Here, Moves
<1>5. e \in Stack => proc[o].from \in 1 .. Len(parameter'[e])
  BY <1>1, MovesSince DEF DeployKnows
<1>6. Formed(proc[o])
  BY DEF Frame
<1>7. ~Has(cs, "live_context") => ProfileFromEnv(e)
  BY <1>1 DEF DeployKnows
<1>8. InfraOrder(q.at, Tail(cs)) /\ (Has(Tail(cs), "live_context") => Has(Tail(cs), "synth"))
  BY <1>3 DEF InfraOrder
<1> SUFFICES /\ ~Has(Tail(cs), "live_context") => ProfileFromEnv(e)
             /\ ~Has(Tail(cs), "live_context") /\ Has(Tail(cs), "synth")
                /\ (Has(Tail(cs), "chdir") => FindsCdkDir(o)')
                   => Current(o, e)'
             /\ ~Has(Tail(cs), "synth") => q.digest \in Since(parameter'[e], q.from)
  BY <1>3, <1>5 DEF DeployKnows
<1>13. e' = e
  BY <1>3
<1> HIDE DEF e, cs
<1>9. CASE c = "live_context"
  <2>1. /\ ProfileFromEnv(e) /\ context' = LiveContextParams(o) /\ Advance(o, w, proc[o])
    BY <1>9 DEF InfraCommand, e
  <2>2. q.inside = proc[o].inside
    BY <2>1, InfraAdvances
  <2>3. FindsCdkDir(o)' = FindsCdkDir(o) /\ Has(cs, "chdir") /\ Has(cs, "synth")
    BY <1>1, <1>9, <2>2 DEF FindsCdkDir, InfraOrder
  <2>4. Has(Tail(cs), "chdir") /\ Has(Tail(cs), "synth")
    BY <1>1, <1>9, <2>3
  <2>5. FindsCdkDir(o) => Current(o, e)'
    BY <1>4, <1>13, <2>1, ProfiledIsStack DEF LiveContextParams, Current, Published
  <2> QED
    BY <2>1, <2>3, <2>4, <2>5
<1>10. CASE c = "chdir"
  <2>1. /\ ProfileFromEnv(e) /\ FindsCdkDir(o) /\ UNCHANGED infra
        /\ Advance(o, w, [proc[o] EXCEPT !.inside = TRUE])
    BY <1>10 DEF InfraCommand, e
  <2>2. q.digest = proc[o].digest
    <3>1. PICK r : r = [proc[o] EXCEPT !.inside = TRUE]
      OBVIOUS
    <3>2. r.digest = proc[o].digest
      BY <1>6, <3>1 DEF Formed
    <3> QED
      BY <2>1, <3>1, <3>2, InfraAdvances
  <2>3. ~Has(cs, "live_context")
    BY <1>1, <1>10, InfraRanks
  <2>4. Has(cs, "synth") => Current(o, e)
    BY <1>1, <2>1, <2>3 DEF DeployKnows, e
  <2>5. Has(cs, "synth") => Current(o, e)'
    BY <1>3, <1>4, <1>13, <2>1, <2>4 DEF Current, infra
  <2>6. ~Has(cs, "synth") => proc[o].digest \in Since(parameter[e], proc[o].from)
    BY <1>1 DEF DeployKnows, e
  <2> QED
    BY <1>1, <1>3, <1>10, <2>1, <2>2, <2>5, <2>6 DEF infra
<1>11. CASE c = "synth"
  <2>1. ~Has(cs, "live_context") /\ ~Has(cs, "chdir") /\ Has(cs, "synth")
    BY <1>1, <1>11, InfraRanks
  <2>2. ProfileFromEnv(e) /\ e \in Stack /\ Current(o, e)
    BY <1>1, <1>7, <2>1, ProfiledIsStack DEF DeployKnows, e
  <2>3. PICK i : /\ i = IF context[Here(o)][e] = NotCached THEN Parameter(e) ELSE context[Here(o)][e]
                 /\ context' = [context EXCEPT ![Here(o)][e] = i]
                 /\ Advance(o, w, [proc[o] EXCEPT !.digest = i]) /\ UNCHANGED parameter
    BY <1>11 DEF InfraCommand, e
  <2>4. i \in Since(parameter[e], proc[o].from)
    BY <1>1, <2>2, <2>3, MovesSince DEF Current, DeployKnows, e
  <2>5. q.digest = i
    <3>1. PICK r : r = [proc[o] EXCEPT !.digest = i]
      OBVIOUS
    <3>2. r.digest = i
      BY <1>6, <3>1 DEF Formed
    <3> QED
      BY <2>3, <3>1, <3>2, InfraAdvances
  <2>6. context'[Here(o)][e] = i
    BY <1>4, <2>2, <2>3 DEF Published
  <2>7. Current(o, e)'
    BY <1>3, <1>4, <1>13, <2>3, <2>4, <2>6 DEF Current
  <2> QED
    BY <1>3, <2>2, <2>3, <2>4, <2>5, <2>7
<1>12. CASE c = "deploy_stack"
  <2>1. UNCHANGED <<parameter, context>> /\ Advance(o, w, proc[o])
    BY <1>12 DEF InfraCommand
  <2>2. q.digest = proc[o].digest
    BY <2>1, InfraAdvances
  <2>3. ~Has(cs, "live_context") /\ ~Has(cs, "chdir") /\ ~Has(cs, "synth")
    BY <1>1, <1>12, InfraRanks
  <2>4. ProfileFromEnv(e) /\ proc[o].digest \in Since(parameter[e], proc[o].from)
    BY <1>1, <1>7, <2>3 DEF DeployKnows, e
  <2> QED
    BY <1>1, <1>3, <2>1, <2>2, <2>3, <2>4
<1> QED
  BY <1>1, <1>9, <1>10, <1>11, <1>12

(* ... and of an image on its way to a parameter.                          *)
LEMMA EcrAdvances ==
    ASSUME Frame, Published, Moves, NEW o \in Operator, NEW w \in Busy(o),
           InfraTarget(proc[o].at), InfraKnows(o), proc[o].at.target = "ecr",
           \/ InfraCommand(o, w)
           \/ /\ UNCHANGED infra
              /\ \/ Load(o, w) /\ Command(o, w).do = "load"
                 \/ Build(o, w) /\ Command(o, w).do = "build"
                 \/ Up(o, w) /\ Command(o, w).do = "up"
                 \/ Only(o, w) /\ Command(o, w).do = "login"
    PROVE  EcrKnows(o, proc[o].stages[1]["main"])'
<1> DEFINE e == proc[o].at.env
           q == proc'[o]
           cs == proc[o].stages[1]["main"]
           c == Command(o, w).do
<1>1. /\ c \in {"load", "build", "up", "login", "inspect", "tag_digest", "push_digest", "put-parameter"}
      /\ Has(cs, c)
      /\ \A do : Has(Tail(cs), do) => Has(cs, do)
      /\ \A do : do # c => (Has(Tail(cs), do) <=> Has(cs, do))
      /\ c # "load" => \A do : Rank(do) < Rank(c) /\ do # "load" => ~Has(cs, do)
      /\ EcrKnows(o, cs) /\ InfraOrder(proc[o].at, cs) /\ proc[o].at \in InfraTargets
  BY InfraHead DEF InfraDos
<1>2. PICK p : /\ \/ p = proc[o] \/ \E x : p = [proc[o] EXCEPT !.digest = x]
                  \/ \E x : p = [proc[o] EXCEPT !.built = x]
                  \/ \E x : p = [proc[o] EXCEPT !.inside = x]
                  \/ \E x : p = [proc[o] EXCEPT !.url = x]
               /\ Advance(o, w, p)
  BY DEF InfraCommand, Load, Build, Up, Only
<1>3. /\ q.at = proc[o].at /\ q.stages[1]["main"] = Tail(cs) /\ InfraOrder(q.at, Tail(cs))
  BY <1>2, InfraAdvances
<1>4. /\ Here(o)' = Here(o) /\ Here(o) \in Machine
      /\ Tags(repository) \subseteq Tags(repository')
      /\ Tags(tagged[Here(o)]) \subseteq Tags(tagged'[Here(o)])
  BY MachineOf DEF Here, Moves
<1>5. Formed(proc[o])
  BY DEF Frame
<1> SUFFICES /\ ~Has(Tail(cs), "build") /\ Has(Tail(cs), "tag_digest") => image'[Here(o)].for = e
             /\ ~Has(Tail(cs), "inspect") => q.digest.for = e
             /\ ~Has(Tail(cs), "tag_digest") => q.digest \in Tags(tagged'[Here(o)])
             /\ ~Has(Tail(cs), "push_digest") => q.digest \in Tags(repository')
  BY <1>3, <1>4 DEF EcrKnows, Tags
<1> HIDE DEF e, cs
<1>6. /\ Has(Tail(cs), "inspect") => Has(Tail(cs), "tag_digest")
      /\ Has(Tail(cs), "tag_digest") => Has(Tail(cs), "push_digest")
  BY <1>3 DEF InfraOrder
<1>7. /\ ~Has(cs, "build") /\ Has(cs, "tag_digest") => image[Here(o)].for = e
      /\ ~Has(cs, "inspect") => proc[o].digest.for = e
      /\ ~Has(cs, "tag_digest") => proc[o].digest \in Tags(tagged[Here(o)])
      /\ ~Has(cs, "push_digest") => proc[o].digest \in Tags(repository)
      /\ Has(cs, "inspect") => Has(cs, "tag_digest")
      /\ Has(cs, "tag_digest") => Has(cs, "push_digest")
  BY <1>1 DEF EcrKnows, InfraOrder, e
<1>8. CASE c = "build"
  <2>1. Build(o, w)
    BY <1>8 DEF InfraCommand
  <2>2. "env" \in DOMAIN proc[o].at
    BY <1>1 DEF InfraTargets
  <2>3. PICK n : /\ n.for = e /\ image' = [image EXCEPT ![Here(o)] = n]
                 /\ Advance(o, w, [proc[o] EXCEPT !.built = n])
    BY <2>1, <2>2 DEF Build, e
  <2>4. image'[Here(o)].for = e
    BY <1>4, <2>3 DEF Published
  <2>5. q.digest = proc[o].digest
    <3>1. PICK r : r = [proc[o] EXCEPT !.built = n]
      OBVIOUS
    <3>2. r.digest = proc[o].digest
      BY <1>5, <3>1 DEF Formed
    <3> QED
      BY <2>3, <3>1, <3>2, InfraAdvances
  <2> QED
    BY <1>1, <1>4, <1>7, <1>8, <2>4, <2>5
<1>9. CASE c \in {"up", "login", "put-parameter"}
  <2>1. Advance(o, w, proc[o]) /\ UNCHANGED image
    BY <1>9 DEF Only, Up, InfraCommand
  <2>2. q.digest = proc[o].digest
    BY <2>1, InfraAdvances
  <2> QED
    BY <1>1, <1>4, <1>7, <1>9, <2>1, <2>2
<1>10. CASE c = "inspect"
  <2>1. Advance(o, w, [proc[o] EXCEPT !.digest = image[Here(o)]]) /\ UNCHANGED image
    BY <1>10 DEF InfraCommand
  <2>2. q.digest = image[Here(o)]
    <3>1. PICK r : r = [proc[o] EXCEPT !.digest = image[Here(o)]]
      OBVIOUS
    <3>2. r.digest = image[Here(o)]
      BY <1>5, <3>1 DEF Formed
    <3> QED
      BY <2>1, <3>1, <3>2, InfraAdvances
  <2>3. Has(cs, "tag_digest") /\ Has(cs, "push_digest")
    BY <1>1, <1>7, <1>10
  <2>4. image[Here(o)].for = e /\ Has(Tail(cs), "tag_digest") /\ Has(Tail(cs), "push_digest")
    BY <1>1, <1>7, <1>10, <2>3, InfraRanks
  <2> QED
    BY <2>1, <2>2, <2>4
<1>11. CASE c \in {"tag_digest", "push_digest"}
  <2>1. InfraCommand(o, w)
    BY <1>11
  <2>2. Advance(o, w, proc[o]) /\ UNCHANGED image
    BY <1>11, <2>1 DEF InfraCommand
  <2>3. q.digest = proc[o].digest
    BY <2>2, InfraAdvances
  <2>4. ~Has(cs, "inspect") /\ (c = "push_digest" => ~Has(cs, "tag_digest"))
    BY <1>1, <1>11, InfraRanks
  <2>5. /\ c = "tag_digest" => proc[o].digest \in Tags(tagged'[Here(o)])
        /\ c = "push_digest" => proc[o].digest \in Tags(repository')
    BY <1>11, <2>1, NameMoves
  <2> QED
    BY <1>1, <1>4, <1>7, <1>11, <2>2, <2>3, <2>4, <2>5
<1>12. CASE c = "load"
  <2>1. PICK x : Advance(o, w, [proc[o] EXCEPT !.url = x]) /\ UNCHANGED image
    BY <1>12 DEF Load, InfraCommand
  <2>2. q.digest = proc[o].digest
    <3>1. PICK r : r = [proc[o] EXCEPT !.url = x]
      OBVIOUS
    <3>2. r.digest = proc[o].digest
      BY <1>5, <3>1 DEF Formed
    <3> QED
      BY <2>1, <3>1, <3>2, InfraAdvances
  <2> QED
    BY <1>1, <1>4, <1>7, <1>12, <2>1, <2>2
<1> QED
  BY <1>1, <1>8, <1>9, <1>10, <1>11, <1>12

(* What the cdk targets have, and only that.                               *)
LEMMA CdkDos ==
    ASSUME NEW t \in [target : {"cdk_deploy", "cdk_diff", "cdk_list"}, env : Env]
    PROVE  LET cs == CdkCommands(t)
           IN  /\ Has(cs, "chdir") /\ Has(cs, "synth")
               /\ Has(cs, "live_context") <=> t.target # "cdk_list"
               /\ \A i \in DOMAIN cs : cs[i].do \in InfraDos(t)
               /\ ~Has(cs, "inspect") /\ ~Has(cs, "tag_digest")
<1>1. PICK a : a = IF t.target = "cdk_list" THEN <<>> ELSE <<[do |-> "live_context"]>>
  OBVIOUS
<1>2. PICK b : b = <<[do |-> "chdir"], [do |-> "synth"]>>
  OBVIOUS
<1>3. PICK c : c = IF t.target = "cdk_deploy" THEN <<[do |-> "deploy_stack"]>> ELSE <<>>
  OBVIOUS
<1>4. PICK cs : cs = (a \o b) \o c
  OBVIOUS
<1>5. cs = CdkCommands(t) /\ InfraDos(t) = {"live_context", "chdir", "synth", "deploy_stack"}
  BY <1>1, <1>2, <1>3, <1>4 DEF CdkCommands, InfraDos
<1>6. \A i \in DOMAIN cs : cs[i].do \in {"live_context", "chdir", "synth", "deploy_stack"}
  BY <1>1, <1>2, <1>3, <1>4
<1> QED
  BY <1>5, <1>6, CdkList DEF Has

(* An image that comes in the place of the one another target builds for   *)
(* an environment is for the same.                                         *)
LEMMA BuildsForTheSame ==
    ASSUME BuildsApart, Frame, Published, BuildsAsAsked,
           NEW o \in Operator, NEW q \in Operator, o # q, NEW w \in Busy(q),
           Command(q, w).do = "build", Build(q, w), AtInfra(o), proc[o].at.target = "ecr"
    PROVE  image'[Here(o)] = image[Here(o)] \/ image'[Here(o)].for = proc[o].at.env
<1>1. PICK n : /\ n.for = IF "env" \in DOMAIN proc[q].at THEN proc[q].at.env ELSE "service"
               /\ image' = [image EXCEPT ![Here(q)] = n]
  BY DEF Build
<1>2. Here(o) \in Machine /\ Here(q) \in Machine
  BY MachineOf
<1>3. CASE Here(o) # Here(q)
  BY <1>1, <1>2, <1>3 DEF Published
<1>4. CASE Here(o) = Here(q)
  <2>1. /\ proc[q].stages # <<>> /\ w \in DOMAIN proc[q].stages[1] /\ proc[q].at \in Asked(q)
        /\ Sorted(proc[q].stages[1][w], 0, 7) /\ proc[q].stages[1][w] # <<>>
        /\ Command(q, w) = proc[q].stages[1][w][1] /\ proc[q].at \in Target
    BY BusyWorker
  <2>2. Has(proc[q].stages[1][w], "build")
    BY <2>1, Popped
  <2>3. Builds(proc[q].at)
    BY <2>1, <2>2 DEF BuildsAsAsked, Suits
  <2>4. proc[o].at \in Asked(o) /\ session \in Session
    BY DEF AtInfra, Frame
  <2>5. PICK i \in DOMAIN session[o].targets : proc[o].at = session[o].targets[i]
    BY <2>4 DEF Asked
  <2>6. PICK j \in DOMAIN session[q].targets : proc[q].at = session[q].targets[j]
    BY <2>1 DEF Asked
  <2>7. proc[q].at.target = "ecr" /\ proc[q].at.env = proc[o].at.env
    BY <1>4, <2>3, <2>4, <2>5, <2>6 DEF BuildsApart, Here
  <2>8. proc[q].at \in InfraTargets
    BY <2>1, <2>7, TargetKinds DEF InfraTarget
  <2>9. "env" \in DOMAIN proc[q].at
    BY <2>8 DEF InfraTargets
  <2> QED
    BY <1>1, <1>2, <1>4, <2>7, <2>9 DEF Published
<1> QED
  BY <1>3, <1>4

(* A target that begins knows what it has to.                              *)
LEMMA InfraKnowsFirst ==
    ASSUME Frame, Published, NEW o \in Operator, Begin(o)
    PROVE  InfraKnows(o)'
<1> DEFINE t == Head(proc[o].todo)
           q == proc'[o]
           e == t.env
<1>1. /\ t \in Target /\ q.at = t /\ q.stages = Stages(t, o)
      /\ q.from = IF t.target = "cdk_deploy" /\ t.env \in Stack THEN Len(parameter[t.env]) ELSE 0
      /\ UNCHANGED infra
  BY Begins
<1>2. ~InfraTarget(t) => InfraKnows(o)'
  BY <1>1 DEF InfraKnows, AtInfra
<1>3. CASE InfraTarget(t)
  <2>1. t \in InfraTargets /\ q.stages = InfraStages(t)
    BY <1>1, <1>3, TargetKinds DEF Stages
  <2>2. PICK cs : cs = q.stages[1]["main"]
    OBVIOUS
  <2>3. CASE t.target = "ecr"
    <3>1. cs = EcrCommands
      BY <2>1, <2>2, <2>3, InfraStaged
    <3>2. \A do : Has(cs, do) <=> do \in {"load", "build", "up", "login", "inspect", "tag_digest",
                                          "push_digest", "put-parameter"}
      BY <3>1, EcrList
    <3>3. \A i \in DOMAIN cs : cs[i].do \in InfraDos(t)
      BY <2>3, <3>2 DEF Has, InfraDos
    <3>4. InfraOrder(t, cs)
      BY <3>2, <3>3 DEF InfraOrder
    <3>5. EcrKnows(o, cs)'
      BY <3>2, <2>2 DEF EcrKnows
    <3> QED
      BY <1>1, <2>2, <2>3, <3>4, <3>5 DEF InfraKnows
  <2>4. CASE t.target # "ecr"
    <3>1. t \in [target : {"cdk_deploy", "cdk_diff", "cdk_list"}, env : Env]
      BY <2>1, <2>4 DEF InfraTargets
    <3>2. cs = CdkCommands(t)
      BY <2>1, <2>2, <2>4, InfraStaged
    <3>3. /\ Has(cs, "chdir") /\ Has(cs, "synth")
          /\ Has(cs, "live_context") <=> t.target # "cdk_list"
          /\ \A i \in DOMAIN cs : cs[i].do \in InfraDos(t)
          /\ ~Has(cs, "inspect") /\ ~Has(cs, "tag_digest")
      BY <2>4, <3>1, <3>2, CdkDos
    <3>4. InfraOrder(t, cs)
      BY <3>3 DEF InfraOrder
    <3>5. t.target = "cdk_deploy" => DeployKnows(o, cs)'
      <4>1. ASSUME t.target = "cdk_deploy", e \in Stack
            PROVE  q.from \in 1 .. Len(parameter'[e])
        BY <1>1, <4>1 DEF Published, infra
      <4> QED
        BY <1>1, <3>3, <4>1 DEF DeployKnows
    <3> QED
      BY <1>1, <2>2, <2>4, <3>4, <3>5 DEF InfraKnows
  <2> QED
    BY <2>3, <2>4
<1> QED
  BY <1>2, <1>3

(* What all processes know, and what has been reported.                    *)
KnowsAll == \A o \in Operator : InfraKnows(o)

(* What deploys have reported is still in what the parameter has been.     *)
Backed(r) ==
    r.kind = "stack" =>
        /\ r.env \in Stack /\ r.from \in 1 .. Len(parameter[r.env])
        /\ r.image \in Since(parameter[r.env], r.from)

(* All that has been reported is true.                                     *)
StacksReported == \A r \in reports : Backed(r)

(* All that is reported anew is true.                                      *)
Reporting == \A r \in reports' \ reports : Backed(r)

(* Reports remain true.                                                    *)
LEMMA ReportsStay ==
    ASSUME Published, Moves, StacksReported, Reporting
    PROVE  StacksReported'
<1>1. ASSUME NEW r \in reports', r.kind = "stack"
      PROVE  /\ r.env \in Stack /\ r.from \in 1 .. Len(parameter'[r.env])
             /\ r.image \in Since(parameter'[r.env], r.from)
  <2>1. Backed(r)
    BY DEF StacksReported, Reporting
  <2> QED
    BY <1>1, <2>1, MovesSince DEF Backed
<1> QED
  BY <1>1 DEF StacksReported, Backed

(* What a finished target reports is true.                                 *)
LEMMA FinishedReports ==
    ASSUME Frame, Published, KnowsAll, NEW o \in Operator, Finish(o), NEW r \in Report(o)
    PROVE  Backed(r)
<1> SUFFICES ASSUME r.kind = "stack"
             PROVE  /\ r.env \in Stack /\ r.from \in 1 .. Len(parameter[r.env])
                    /\ r.image \in Since(parameter[r.env], r.from)
  BY DEF Backed
<1> DEFINE t == proc[o].at
           cs == proc[o].stages[1]["main"]
<1>1. /\ proc[o].status = "running" /\ proc[o].stages # <<>> /\ t \in Target
      /\ \A w \in DOMAIN proc[o].stages[1] : proc[o].stages[1][w] = <<>>
  BY Finishes
<1>2. ~ServiceTarget(t)
  BY DEF Report, ServiceReport
<1>3. /\ t.target = "cdk_deploy" /\ r.env = t.env /\ r.image = proc[o].digest /\ r.from = proc[o].from
  BY <1>2 DEF Report, InfraReport
<1>4. AtInfra(o)
  BY <1>1, <1>3 DEF AtInfra, InfraTarget
<1>5. Staged(t, proc[o].stages)
  BY <1>1, AskedTargets
<1>6. cs = <<>>
  BY <1>1, <1>2, <1>5 DEF Staged
<1>7. DeployKnows(o, cs) /\ \A do : ~Has(cs, do)
  BY <1>3, <1>4, <1>6, NoCommands DEF KnowsAll, InfraKnows
<1> QED
  BY <1>3, <1>7, ProfiledIsStack DEF DeployKnows

(* What is to be kept.                                                     *)
Deploying == Published /\ KnowsAll /\ StacksReported

(* Deploying is an invariant, where builds are apart.                      *)
LEMMA DeployingBegins == OpsInit => Deploying
<1> SUFFICES ASSUME OpsInit
             PROVE  Deploying
  OBVIOUS
<1>1. Published
  <2>1. repository = {Name(NoImage, NoImage)} /\ tagged = [m \in Machine |-> {}]
    BY DEF OpsInit, InfraInit
  <2>2. AllPaired
    BY <2>1 DEF AllPaired, Paired, Name
  <2>3. NoImage \in Tags(repository)
    BY <2>1 DEF Tags, Name
  <2>4. <<NoImage>> \in Seq(Tags(repository))
    BY <2>3
  <2> QED
    BY <2>2, <2>4 DEF OpsInit, InfraInit, MageInit, Published
<1>2. KnowsAll
  BY DEF OpsInit, MageInit, NewProcess, KnowsAll, InfraKnows, AtInfra
<1>3. StacksReported
  BY DEF OpsInit, MageInit, StacksReported
<1> QED
  BY <1>1, <1>2, <1>3 DEF Deploying

(* A process moves: what the others know stays.                            *)
LEMMA DeployingMoves ==
    ASSUME Frame, Deploying, Moves, NEW o \in Operator, Others(o), InfraKnows(o)',
           image' = [m \in Machine |-> image'[m]],
           \A x \in Operator \ {o} : AtInfra(x) /\ proc[x].at.target = "ecr" =>
              image'[Here(x)] = image[Here(x)] \/ image'[Here(x)].for = proc[x].at.env,
           Reporting
    PROVE  Deploying'
<1>1. Published' /\ StacksReported'
  BY MovesPublished, ReportsStay DEF Deploying
<1>2. ASSUME NEW x \in Operator, x # o
      PROVE  InfraKnows(x)'
  <2>1. InfraKnows(x) /\ proc'[x] = proc[x] /\ Published
    BY <1>2 DEF Deploying, KnowsAll, Others
  <2> QED
    BY <1>2, <2>1, OthersKnow
<1>3. KnowsAll'
  BY <1>2 DEF KnowsAll
<1> QED
  BY <1>1, <1>3 DEF Deploying

(* It holds if it does of the process that took the step.                  *)
LEMMA DeployingStays ==
    ASSUME Frame, Deploying, UNCHANGED <<session, image, infra>>,
           NEW o \in Operator, Others(o), InfraKnows(o)',
           Reporting
    PROVE  Deploying'
<1>1. Moves /\ image' = [m \in Machine |-> image'[m]]
  BY NothingMoves DEF Deploying, Published
<1> QED
  BY <1>1, DeployingMoves

(* Commands keep it: a build of another is for the same environment.       *)
LEMMA CommandKeepsDeploying ==
    ASSUME BuildsApart, Frame, BuildsAsAsked, Deploying, NEW o \in Operator, Do(o)
    PROVE  Deploying'
<1>1. PICK w \in Busy(o) :
        /\ Performs(o, w)
        /\ \/ /\ UNCHANGED infra
              /\ \/ Command(o, w).do = "load" /\ Load(o, w)
                 \/ Command(o, w).do = "build" /\ Build(o, w)
                 \/ Command(o, w).do = "up" /\ Up(o, w)
                 \/ Command(o, w).do = "login" /\ Only(o, w)
                 \/ ServiceTarget(proc[o].at) /\ ServiceCommand(o, w)
                 \/ /\ ~ServiceTarget(proc[o].at) /\ ~InfraTarget(proc[o].at)
                    /\ SchemaCommand(o, w)
           \/ InfraTarget(proc[o].at) /\ InfraCommand(o, w)
  BY DEF Do, Performs
<1>2. Published /\ InfraKnows(o) /\ proc[o].at \in Target
  BY BusyWorker DEF Deploying, KnowsAll
<1>3. ASSUME UNCHANGED proc
      PROVE  Others(o)
  BY <1>3 DEF Others, Frame
<1>4. Others(o) /\ proc'[o].at = proc[o].at
  <2>1. UNCHANGED proc \/ \E p : Formed(p) /\ Same(proc[o], p, Settings) /\ Advance(o, w, p)
    BY <1>1, CommandSets
  <2>2. ASSUME NEW p, Formed(p), Same(proc[o], p, Settings), Advance(o, w, p)
        PROVE  Others(o) /\ proc'[o].at = proc[o].at
    <3>1. Popping(o, w, p)
      BY <2>2, Pops DEF Same, Settings
    <3> QED
      BY <2>2, <3>1 DEF Popping, Same, Settings
  <2> QED
    BY <1>3, <2>1, <2>2
<1>5. ~InfraTarget(proc[o].at) => InfraKnows(o)'
  BY <1>4 DEF InfraKnows, AtInfra
<1>6. UNCHANGED reports => Reporting
  BY DEF Reporting
<1>7. CASE InfraTarget(proc[o].at) /\ InfraCommand(o, w)
  <2>1. Moves /\ UNCHANGED <<session, image, builds, reports>>
    BY <1>2, <1>7, CommandMoves
  <2>2. proc[o].at.target = "cdk_deploy" => DeployKnows(o, proc[o].stages[1]["main"])'
    BY <1>2, <1>7, <2>1, DeployAdvances
  <2>3. proc[o].at.target = "ecr" => EcrKnows(o, proc[o].stages[1]["main"])'
    BY <1>2, <1>7, <2>1, EcrAdvances
  <2>4. InfraOrder(proc[o].at, proc[o].stages[1]["main"])'
    <3>1. PICK p : /\ \/ p = proc[o] \/ \E x : p = [proc[o] EXCEPT !.digest = x]
                      \/ \E x : p = [proc[o] EXCEPT !.inside = x]
                   /\ Advance(o, w, p)
      BY <1>7 DEF InfraCommand
    <3> QED
      BY <1>2, <1>7, <3>1, InfraAdvances
  <2>5. InfraKnows(o)'
    BY <1>4, <2>2, <2>3, <2>4 DEF InfraKnows
  <2>6. UNCHANGED reports /\ image' = [m \in Machine |-> image'[m]]
    BY <1>2, <2>1 DEF Published
  <2> QED
    BY <1>4, <1>6, <2>1, <2>5, <2>6, DeployingMoves
<1>8. CASE Command(o, w).do = "build" /\ Build(o, w) /\ UNCHANGED infra
  <2>1. Moves /\ UNCHANGED reports /\ image' = [m \in Machine |-> image'[m]]
    BY <1>2, <1>8, NothingMoves DEF Build, Published
  <2>2. InfraTarget(proc[o].at) => InfraKnows(o)'
    <3>1. ASSUME InfraTarget(proc[o].at)
          PROVE  InfraKnows(o)'
      <4>1. proc[o].at.target = "ecr"
        BY <1>2, <1>8, <3>1, InfraHead DEF InfraDos
      <4>2. EcrKnows(o, proc[o].stages[1]["main"])'
        BY <1>2, <1>8, <2>1, <3>1, <4>1, EcrAdvances
      <4>3. InfraOrder(proc[o].at, proc[o].stages[1]["main"])'
        <5>1. PICK p : (\E x : p = [proc[o] EXCEPT !.built = x]) /\ Advance(o, w, p)
          BY <1>8 DEF Build
        <5> QED
          BY <1>2, <3>1, <5>1, InfraAdvances
      <4> QED
        BY <1>4, <4>1, <4>2, <4>3 DEF InfraKnows
    <3> QED
      BY <3>1
  <2>3. \A x \in Operator \ {o} : AtInfra(x) /\ proc[x].at.target = "ecr" =>
              image'[Here(x)] = image[Here(x)] \/ image'[Here(x)].for = proc[x].at.env
    BY <1>2, <1>8, BuildsForTheSame
  <2> QED
    BY <1>4, <1>5, <1>6, <2>1, <2>2, <2>3, DeployingMoves
<1>9. CASE /\ \/ Command(o, w).do = "load" /\ Load(o, w)
              \/ Command(o, w).do = "up" /\ Up(o, w)
              \/ Command(o, w).do = "login" /\ Only(o, w)
           /\ UNCHANGED infra
  <2>1. Moves /\ UNCHANGED reports /\ UNCHANGED <<session, image, infra>>
    BY <1>2, <1>9, NothingMoves DEF Load, Up, Only, Published
  <2>2. InfraTarget(proc[o].at) => InfraKnows(o)'
    <3>1. ASSUME InfraTarget(proc[o].at)
          PROVE  InfraKnows(o)'
      <4>1. proc[o].at.target = "ecr"
        BY <1>2, <1>9, <3>1, InfraHead DEF InfraDos
      <4>2. EcrKnows(o, proc[o].stages[1]["main"])'
        BY <1>2, <1>9, <2>1, <3>1, <4>1, EcrAdvances
      <4>3. InfraOrder(proc[o].at, proc[o].stages[1]["main"])'
        <5>1. PICK p : /\ p = proc[o] \/ \E x : p = [proc[o] EXCEPT !.url = x]
                       /\ Advance(o, w, p)
          BY <1>9 DEF Load, Up, Only
        <5> QED
          BY <1>2, <3>1, <5>1, InfraAdvances
      <4> QED
        BY <1>4, <4>1, <4>2, <4>3 DEF InfraKnows
    <3> QED
      BY <3>1
  <2> QED
    BY <1>4, <1>5, <1>6, <2>1, <2>2, DeployingStays
<1>10. CASE ~InfraTarget(proc[o].at) /\ (ServiceCommand(o, w) \/ SchemaCommand(o, w)) /\ UNCHANGED infra
  <2>1. UNCHANGED <<session, image>> /\ UNCHANGED reports
    BY <1>10 DEF ServiceCommand, SchemaCommand
  <2> QED
    BY <1>4, <1>5, <1>6, <1>10, <2>1, DeployingStays
<1>11. ServiceTarget(proc[o].at) => ~InfraTarget(proc[o].at)
  BY DEF ServiceTarget, InfraTarget
<1> QED
  BY <1>1, <1>7, <1>8, <1>9, <1>10, <1>11

(* So does every step.                                                     *)
LEMMA DeployingStep ==
    ASSUME BuildsApart, Frame, BuildsAsAsked, Deploying, [OpsNext]_ops
    PROVE  Deploying'
<1>1. UNCHANGED reports => Reporting
  BY DEF Reporting
<1>2. ASSUME UNCHANGED <<mage, infra>>
      PROVE  Deploying'
  BY <1>2 DEF mage, infra, Deploying, Published, AllPaired, KnowsAll, InfraKnows, AtInfra, DeployKnows,
        EcrKnows, Current, Here, Parameter, FindsCdkDir, StacksReported, Backed
<1>3. CASE External
  BY <1>2, <1>3 DEF External, Replace, Edit, Starts
<1>4. ASSUME NEW o \in Operator, Begin(o)
      PROVE  Deploying'
  <2>1. Others(o) /\ UNCHANGED <<session, image, infra>> /\ UNCHANGED reports
    BY <1>4, Begins
  <2>2. InfraKnows(o)'
    BY <1>4, InfraKnowsFirst DEF Deploying
  <2> QED
    BY <1>1, <2>1, <2>2, DeployingStays
<1>5. ASSUME NEW o \in Operator, Finish(o)
      PROVE  Deploying'
  <2>1. /\ Others(o) /\ UNCHANGED <<session, image, infra>> /\ proc'[o].at = proc[o].at
        /\ proc[o].at \in Target /\ proc[o].stages # <<>>
        /\ proc'[o].stages = <<>> \/ Len(proc[o].stages) = 2
        /\ reports' \subseteq reports \cup Report(o)
    BY <1>5, Finishes DEF Same
  <2>2. InfraKnows(o)'
    <3>1. ASSUME InfraTarget(proc[o].at)
          PROVE  Len(proc[o].stages) = 1
      BY <2>1, <3>1, AskedTargets, TargetKinds DEF Staged
    <3>2. InfraTarget(proc'[o].at) <=> InfraTarget(proc[o].at)
      BY <2>1
    <3>3. ~(proc'[o].stages # <<>> /\ InfraTarget(proc[o].at))
      <4>1. ASSUME Len(proc[o].stages) = 2, Len(proc[o].stages) = 1
            PROVE  FALSE
        BY <4>1
      <4> QED
        BY <2>1, <3>1, <4>1
    <3>4. ~AtInfra(o)'
      BY <3>2, <3>3 DEF AtInfra
    <3> QED
      BY <3>4 DEF InfraKnows
  <2>3. Reporting
    BY <1>5, <2>1, FinishedReports DEF Deploying, Reporting
  <2> QED
    BY <1>1, <2>1, <2>2, <2>3, DeployingStays
<1>6. ASSUME NEW o \in Operator, End(o)
      PROVE  Deploying'
  <2>1. Others(o) /\ UNCHANGED <<session, image, infra>> /\ UNCHANGED reports
        /\ proc'[o].status # "running"
    BY <1>6, EndLeaves
  <2>2. InfraKnows(o)'
    BY <2>1 DEF InfraKnows, AtInfra
  <2> QED
    BY <1>1, <2>1, <2>2, DeployingStays
<1> QED
  BY <1>2, <1>3, <1>4, <1>5, <1>6, CommandKeepsDeploying DEF OpsNext, ops

(* What a CDK deploy reports to have deployed was its environment's        *)
(* parameter since it began, and what the registry has under this digest   *)
(* was built for this environment (infra.go:161, infra.go:188,             *)
(* infra.go:300, deploy.go:72), whichever processes publish and synthesize *)
(* at once, if where an image is built for an environment no process       *)
(* builds another.                                                         *)
THEOREM DeploysUseLiveParameters ==
    ASSUME BuildsApart
    PROVE  OpsSpec => []DeploysLiveParameters
<1> DEFINE Inv == Frame /\ BuildsAsAsked /\ Deploying
<1>1. OpsInit => Inv
  <2>1. OpsInit => BuildsAsAsked
    BY DEF OpsInit, MageInit, NewProcess, BuildsAsAsked
  <2> QED
    BY <2>1, FrameBegins, DeployingBegins
<1>2. Inv /\ [OpsNext]_ops => Inv'
  BY FrameStep, BuildersStep, DeployingStep
<1>3. Inv => DeploysLiveParameters
  <2> SUFFICES ASSUME Inv, NEW r \in reports, r.kind = "stack"
               PROVE  /\ r.image \in {parameter[r.env][i] : i \in r.from .. Len(parameter[r.env])}
                      /\ r.image \in Tags(repository)
                      /\ \A x \in repository :
                            x.tag = r.image => x.is = NoImage \/ ParameterOf(x.is.for) = r.env
    BY DEF DeploysLiveParameters
  <2>1. /\ r.env \in Stack /\ r.from \in 1 .. Len(parameter[r.env])
        /\ r.image \in Since(parameter[r.env], r.from)
    BY DEF Deploying, StacksReported, Backed
  <2>2. PICK i \in r.from .. Len(parameter[r.env]) : r.image = parameter[r.env][i]
    BY <2>1 DEF Since
  <2>3. parameter[r.env] \in Seq(Tags(repository)) /\ i \in DOMAIN parameter[r.env]
    BY <2>1, <2>2 DEF Deploying, Published
  <2>4. r.image \in Tags(repository)
    BY <2>2, <2>3
  <2>5. r.image = NoImage \/ ParameterOf(r.image.for) = r.env
    BY <2>1, <2>2, <2>3 DEF Deploying, Published
  <2>6. Paired(repository)
    BY DEF Deploying, Published, AllPaired
  <2>7. \A x \in repository : x.tag = r.image => x.is = NoImage \/ ParameterOf(x.is.for) = r.env
    BY <2>5, <2>6 DEF Paired, ParameterOf
  <2> QED
    BY <2>1, <2>2, <2>4, <2>7
<1> QED
  BY <1>1, <1>2, <1>3, PTL DEF OpsSpec
-----------------------------------------------------------------------------
(* Images that may be built.                                               *)
Images == [n : Nat, for : Env \cup {"none", "service"}]

(* What deployments consist of; a process knows of no image that is newer  *)
(* than the one of its machine.                                            *)
Counted ==
    /\ builds \in Nat
    /\ image \in [Machine -> Images] /\ \A m \in Machine : image[m].n <= builds
    /\ local \in [Machine -> [Ident -> Images]]
    /\ pushed \in [Ident -> Seq(Images)] /\ \A d \in Ident : Len(pushed[d]) >= 1
    /\ service \in [Ident -> [tasks : [Task -> Images], old : SUBSET Task, ordered : Images]]
    /\ functions = [d \in Ident |-> [l \in Lambdas[d] |-> functions[d][l]]]
    /\ \A o \in Operator : proc[o].built \in Images /\ proc[o].built.n <= image[Here(o)].n

(* How deployments change, whoever changes them.                           *)
Drifts ==
    /\ UNCHANGED session
    /\ \A d \in Ident :
        /\ pushed'[d] = pushed[d] \/ \E x \in Images : pushed'[d] = Append(pushed[d], x)
        /\ service'[d].ordered \in {service[d].ordered, Tag(d)}
        /\ \A x \in Task :
            \/ service'[d].tasks[x] \in {service[d].ordered, Tag(d)}
            \/ /\ service'[d].tasks[x] = service[d].tasks[x]
               /\ x \in service[d].old => x \in service'[d].old
        /\ \A l \in Lambdas[d] : functions'[d][l] \in {functions[d][l], Tag(d)}
    /\ \A m \in Machine :
        /\ image'[m].n >= image[m].n
        /\ \A d \in Ident : local'[m][d] \in {local[m][d], image[m]}

(* What is ordered was pushed since, what runs too, or is about to be      *)
(* replaced.                                                               *)
InTurn(d, from) ==
    /\ service[d].ordered \in Since(pushed[d], from)
    /\ \A x \in Task : x \in service[d].old \/ service[d].tasks[x] \in Since(pushed[d], from)

(* What is ordered was, and all that runs.                                 *)
Runs(d, from) ==
    /\ service[d].ordered \in Since(pushed[d], from)
    /\ \A x \in Task : service[d].tasks[x] \in Since(pushed[d], from)

(* A function calls what was.                                              *)
Calls(d, from, l) == functions[d][l] \in Since(pushed[d], from)

(* What has been pushed stays so.                                          *)
LEMMA PushedSince ==
    ASSUME Counted, Drifts, NEW d \in Ident, NEW from \in 1 .. Len(pushed[d])
    PROVE  /\ Since(pushed[d], from) \subseteq Since(pushed'[d], from)
           /\ Tag(d) \in Since(pushed[d], from)
           /\ from \in 1 .. Len(pushed'[d])
           /\ pushed'[d][from] = pushed[d][from]
<1>1. pushed[d] \in Seq(Images) /\ Len(pushed[d]) \in Nat
  BY DEF Counted
<1>2. from \in Nat \ {0}
  BY <1>1
<1>3. pushed'[d] = pushed[d] \/ \E x \in Images : pushed'[d] = Append(pushed[d], x)
  BY DEF Drifts
<1>4. ASSUME NEW x, pushed'[d] = Append(pushed[d], x)
      PROVE  pushed'[d][from] = pushed[d][from]
  BY <1>1, <1>4
<1>5. Tag(d) \in Since(pushed[d], from)
  BY <1>1, <1>2, SinceGrows DEF Tag
<1> QED
  BY <1>1, <1>2, <1>3, <1>4, <1>5, SinceGrows

(* And what runs was pushed, or is pushed later.                           *)
LEMMA DeploymentDrifts ==
    ASSUME Counted, Drifts, NEW d \in Ident, NEW from \in 1 .. Len(pushed[d])
    PROVE  /\ InTurn(d, from) => InTurn(d, from)'
           /\ Runs(d, from) => Runs(d, from)'
           /\ \A l \in Lambdas[d] : Calls(d, from, l) => Calls(d, from, l)'
<1>1. /\ Since(pushed[d], from) \subseteq Since(pushed'[d], from)
      /\ Tag(d) \in Since(pushed[d], from)
  BY PushedSince
<1>2. /\ service'[d].ordered \in {service[d].ordered, Tag(d)}
      /\ \A x \in Task :
            \/ service'[d].tasks[x] \in {service[d].ordered, Tag(d)}
            \/ /\ service'[d].tasks[x] = service[d].tasks[x]
               /\ x \in service[d].old => x \in service'[d].old
      /\ \A l \in Lambdas[d] : functions'[d][l] \in {functions[d][l], Tag(d)}
  BY DEF Drifts
<1>3. InTurn(d, from) => InTurn(d, from)'
  BY <1>1, <1>2 DEF InTurn
<1>4. Runs(d, from) => Runs(d, from)'
  BY <1>1, <1>2 DEF Runs
<1>5. \A l \in Lambdas[d] : Calls(d, from, l) => Calls(d, from, l)'
  BY <1>1, <1>2 DEF Calls
<1> QED
  BY <1>3, <1>4, <1>5
-----------------------------------------------------------------------------
(* A function is to be updated.                                            *)
Updates(cs, l) == \E i \in DOMAIN cs : cs[i].do = "update-function-code" /\ cs[i].l = l

(* What has to come before what in a deploy.                               *)
ServiceOrder(t, d, cs) ==
    /\ \A i \in DOMAIN cs : "d" \in DOMAIN cs[i] => cs[i].d = d
    /\ Has(cs, "build") \/ Has(cs, "tag") \/ Has(cs, "push") => t.push
    /\ Has(cs, "build") => Has(cs, "tag")
    /\ Has(cs, "tag") => Has(cs, "push")
    /\ Has(cs, "push") /\ t.service => Has(cs, "force_new_deployment")
    /\ Has(cs, "force_new_deployment") => Has(cs, "services-stable")
    /\ (Has(cs, "push") \/ Has(cs, "force_new_deployment")) /\ t.lambdas => Has(cs, "list-exports")
    /\ Has(cs, "list-exports") /\ t.lambdas => \A l \in Lambdas[d] : Updates(cs, l)

(* What a process at target t, on machine m, knows of deployment d while   *)
(* cs are to be done for it: mark is where its images begin, built what it *)
(* has built.                                                              *)
Knows(t, m, d, cs, mark, built) ==
    /\ ServiceOrder(t, d, cs)
    /\ ~Has(cs, "tag") => local[m][d].n >= built.n
    /\ t.push /\ ~Has(cs, "push") => d \in DOMAIN mark
    /\ t.service /\ ~Has(cs, "force_new_deployment") => d \in DOMAIN mark /\ InTurn(d, mark[d])
    /\ t.service /\ ~Has(cs, "services-stable") => Runs(d, mark[d])
    /\ t.lambdas /\ ~Has(cs, "list-exports") => d \in DOMAIN mark
    /\ t.lambdas => \A l \in Lambdas[d] :
            Updates(cs, l) \/ (d \in DOMAIN mark /\ Calls(d, mark[d], l))

(* Knows is not undone by what others do.                                  *)
LEMMA KnowsDrifts ==
    ASSUME Counted, Drifts, NEW t, NEW m \in Machine, NEW d \in Ident, NEW cs, NEW mark,
           NEW built \in Images, built.n <= image[m].n,
           d \in DOMAIN mark => mark[d] \in 1 .. Len(pushed[d]) \/ Has(cs, "push"),
           Knows(t, m, d, cs, mark, built)
    PROVE  Knows(t, m, d, cs, mark, built)'
<1>1. ServiceOrder(t, d, cs)
  BY DEF Knows
<1>2. ~Has(cs, "tag") => local'[m][d].n >= built.n
  <2>1. local'[m][d] \in {local[m][d], image[m]} /\ local[m][d] \in Images /\ image[m] \in Images
    BY DEF Drifts, Counted
  <2>2. image[m].n >= built.n
    BY <2>1 DEF Images
  <2> QED
    BY <2>1, <2>2 DEF Knows
<1>3. t.service /\ ~Has(cs, "force_new_deployment") => d \in DOMAIN mark /\ InTurn(d, mark[d])'
  BY <1>1, DeploymentDrifts DEF Knows, ServiceOrder
<1>4. t.service /\ ~Has(cs, "services-stable") => Runs(d, mark[d])'
  BY <1>1, DeploymentDrifts DEF Knows, ServiceOrder
<1>5. ASSUME t.lambdas, NEW l \in Lambdas[d], ~Updates(cs, l)
      PROVE  d \in DOMAIN mark /\ Calls(d, mark[d], l)'
  BY <1>1, <1>5, DeploymentDrifts DEF Knows, ServiceOrder
<1> QED
  BY <1>1, <1>2, <1>3, <1>4, <1>5 DEF Knows

(* A process marks where its images begin, when it has not done so before, *)
(* or anew when it pushes.                                                 *)
LEMMA KnowsMarks ==
    ASSUME NEW t, NEW m, NEW d \in Ident, NEW cs, NEW mark, NEW mk, NEW built,
           Knows(t, m, d, cs, mark, built),
           d \in DOMAIN mark => d \in DOMAIN mk /\ (mk[d] = mark[d] \/ Has(cs, "push"))
    PROVE  Knows(t, m, d, cs, mk, built)
<1>1. ServiceOrder(t, d, cs)
  BY DEF Knows
<1>2. t.service /\ ~Has(cs, "force_new_deployment") => d \in DOMAIN mk /\ InTurn(d, mk[d])
  BY <1>1 DEF Knows, ServiceOrder
<1>3. t.service /\ ~Has(cs, "services-stable") => Runs(d, mk[d])
  BY <1>1 DEF Knows, ServiceOrder
<1>4. ASSUME t.lambdas, NEW l \in Lambdas[d], ~Updates(cs, l)
      PROVE  d \in DOMAIN mk /\ Calls(d, mk[d], l)
  BY <1>1, <1>4 DEF Knows, ServiceOrder
<1> QED
  BY <1>1, <1>2, <1>3, <1>4 DEF Knows

(* The order of the commands.                                              *)
LEMMA ServiceRanks ==
    /\ Rank("build") = 0 /\ Rank("login") = 1 /\ Rank("tag") = 2 /\ Rank("push") = 3
    /\ Rank("force_new_deployment") = 4 /\ Rank("services-stable") = 5
    /\ Rank("list-exports") = 6 /\ Rank("update-function-code") = 7
BY DEF Rank

(* ServiceOrder is kept as commands are done.                              *)
LEMMA ServiceOrderPopped ==
    ASSUME NEW t, NEW d, NEW cs, Sorted(cs, 0, 7), cs # <<>>, ServiceOrder(t, d, cs)
    PROVE  /\ ServiceOrder(t, d, Tail(cs))
           /\ \A do : Has(Tail(cs), do) => Has(cs, do)
           /\ \A do : do # cs[1].do => (Has(Tail(cs), do) <=> Has(cs, do))
           /\ cs[1].do # "load" => \A do : Rank(do) < Rank(cs[1].do) /\ do # "load" => ~Has(cs, do)
           /\ \A l : Updates(cs, l) =>
                \/ cs[1].do = "update-function-code" /\ cs[1].l = l
                \/ Updates(Tail(cs), l)
           /\ "d" \in DOMAIN cs[1] => cs[1].d = d
<1>1. /\ \A do : Has(cs, do) <=> cs[1].do = do \/ Has(Tail(cs), do)
      /\ \A i \in DOMAIN Tail(cs) : i + 1 \in DOMAIN cs /\ Tail(cs)[i] = cs[i + 1]
      /\ 1 \in DOMAIN cs
  BY Popped
<1>3. cs[1].do # "load" => \A do : Rank(do) < Rank(cs[1].do) /\ do # "load" => ~Has(cs, do)
  BY InOrderPopped
<1>4. \A i \in DOMAIN cs : i = 1 \/ (i - 1 \in DOMAIN Tail(cs) /\ Tail(cs)[i - 1] = cs[i])
  BY DEF Sorted
<1>5. \A l : Updates(cs, l) => \/ cs[1].do = "update-function-code" /\ cs[1].l = l
                               \/ Updates(Tail(cs), l)
  BY <1>4 DEF Updates
<1>6. Has(Tail(cs), "build") \/ Has(Tail(cs), "tag") \/ Has(Tail(cs), "push") => t.push
  BY <1>1 DEF ServiceOrder
<1>7. /\ Has(Tail(cs), "build") => Has(Tail(cs), "tag")
      /\ Has(Tail(cs), "tag") => Has(Tail(cs), "push")
  BY <1>1, <1>3, ServiceRanks DEF ServiceOrder
<1>8. /\ Has(Tail(cs), "push") /\ t.service => Has(Tail(cs), "force_new_deployment")
      /\ Has(Tail(cs), "force_new_deployment") => Has(Tail(cs), "services-stable")
  BY <1>1, <1>3, ServiceRanks DEF ServiceOrder
<1>9. (Has(Tail(cs), "push") \/ Has(Tail(cs), "force_new_deployment")) /\ t.lambdas
        => Has(Tail(cs), "list-exports")
  BY <1>1, <1>3, ServiceRanks DEF ServiceOrder
<1>10. Has(Tail(cs), "list-exports") /\ t.lambdas => \A l \in Lambdas[d] : Updates(Tail(cs), l)
  BY <1>1, <1>3, <1>5, ServiceRanks DEF ServiceOrder
<1>11. \A i \in DOMAIN Tail(cs) : "d" \in DOMAIN Tail(cs)[i] => Tail(cs)[i].d = d
  BY <1>1 DEF ServiceOrder
<1>12. ServiceOrder(t, d, Tail(cs))
  BY <1>6, <1>7, <1>8, <1>9, <1>10, <1>11 DEF ServiceOrder
<1>13. "d" \in DOMAIN cs[1] => cs[1].d = d
  BY <1>1 DEF ServiceOrder
<1> QED
  BY <1>1, <1>3, <1>5, <1>12, <1>13

(* Knows is kept as commands are done, by what the command has done.       *)
LEMMA KnowsPopped ==
    ASSUME NEW t, NEW m, NEW d \in Ident, NEW cs, NEW mark, NEW built,
           Sorted(cs, 0, 7), cs # <<>>, Knows(t, m, d, cs, mark, built)',
           cs[1].do = "tag" => local'[m][d].n >= built.n,
           cs[1].do \in {"push", "list-exports"} => d \in DOMAIN mark,
           cs[1].do = "force_new_deployment" => d \in DOMAIN mark /\ InTurn(d, mark[d])',
           cs[1].do = "services-stable" /\ t.service => Runs(d, mark[d])',
           cs[1].do = "update-function-code" /\ t.lambdas /\ cs[1].l \in Lambdas[d] =>
                d \in DOMAIN mark /\ Calls(d, mark[d], cs[1].l)'
    PROVE  Knows(t, m, d, Tail(cs), mark, built)'
<1>1. ServiceOrder(t, d, cs)
  BY DEF Knows
<1>2. /\ ServiceOrder(t, d, Tail(cs))
      /\ \A do : do # cs[1].do => (Has(Tail(cs), do) <=> Has(cs, do))
      /\ \A l : Updates(cs, l) =>
                \/ cs[1].do = "update-function-code" /\ cs[1].l = l
                \/ Updates(Tail(cs), l)
  BY <1>1, ServiceOrderPopped
<1>3. /\ ~Has(Tail(cs), "tag") => local'[m][d].n >= built.n
      /\ t.push /\ ~Has(Tail(cs), "push") => d \in DOMAIN mark
      /\ t.lambdas /\ ~Has(Tail(cs), "list-exports") => d \in DOMAIN mark
  BY <1>2 DEF Knows
<1>4. /\ t.service /\ ~Has(Tail(cs), "force_new_deployment") =>
            d \in DOMAIN mark /\ InTurn(d, mark[d])'
      /\ t.service /\ ~Has(Tail(cs), "services-stable") => Runs(d, mark[d])'
  BY <1>2 DEF Knows
<1>5. t.lambdas => \A l \in Lambdas[d] :
            Updates(Tail(cs), l) \/ (d \in DOMAIN mark /\ Calls(d, mark[d], l)')
  BY <1>2 DEF Knows
<1> QED
  BY <1>2, <1>3, <1>4, <1>5 DEF Knows
(* What a command leaves of its process.                                   *)
LEMMA CommandDone ==
    ASSUME Frame, NEW o \in Operator, NEW w \in Busy(o), NEW p, NEW x,
           \/ p = proc[o]
           \/ p = [proc[o] EXCEPT !.built = x] \/ p = [proc[o] EXCEPT !.digest = x]
           \/ p = [proc[o] EXCEPT !.mark = x]
           \/ p = [proc[o] EXCEPT !.url = x] \/ p = [proc[o] EXCEPT !.inside = x],
           Advance(o, w, p)
    PROVE  LET q == proc'[o]
           IN  /\ Others(o) /\ Shorter(proc[o].at, proc[o].stages, w, q.stages)
               /\ q.at = proc[o].at /\ q.status = proc[o].status /\ q.from = proc[o].from
               /\ q.built = p.built /\ q.mark = p.mark
<1>1. Formed(proc[o])
  BY DEF Frame
<1>2. Formed(p) /\ Same(proc[o], p, Settings)
  BY <1>1, Set
<1>3. Popping(o, w, p)
  BY <1>2, Pops DEF Same, Settings
<1> QED
  BY <1>2, <1>3 DEF Popping, Same, Settings

(* Only a build sets what was built.                                       *)
LEMMA BuiltStays ==
    ASSUME Frame, NEW o \in Operator, NEW w \in Busy(o),
           \/ Only(o, w) \/ Load(o, w) \/ Up(o, w)
           \/ ServiceCommand(o, w) \/ InfraCommand(o, w) \/ SchemaCommand(o, w)
    PROVE  Others(o) /\ proc'[o].built = proc[o].built
<1>1. Formed(proc[o])
  BY DEF Frame
<1> DEFINE Sets(p) ==
        \E x : \/ p = proc[o] \/ p = [proc[o] EXCEPT !.digest = x]
               \/ p = [proc[o] EXCEPT !.mark = x]
               \/ p = [proc[o] EXCEPT !.url = x] \/ p = [proc[o] EXCEPT !.inside = x]
<1>2. ASSUME NEW p, Sets(p)
      PROVE  p.built = proc[o].built
  BY <1>1, <1>2 DEF Formed
<1>3. ASSUME NEW p, Sets(p), Advance(o, w, p)
      PROVE  Others(o) /\ proc'[o].built = proc[o].built
  BY <1>2, <1>3, CommandDone
<1>4. Only(o, w) \/ Load(o, w) \/ Up(o, w) => \E p : Sets(p) /\ Advance(o, w, p)
  BY DEF Only, Load, Up
<1>5. ServiceCommand(o, w) => \E p : Sets(p) /\ Advance(o, w, p)
  BY DEF ServiceCommand
<1>6. InfraCommand(o, w) => \E p : Sets(p) /\ Advance(o, w, p)
  BY DEF InfraCommand
<1>7. SchemaCommand(o, w) => UNCHANGED proc \/ \E p : Sets(p) /\ Advance(o, w, p)
  BY DEF SchemaCommand
<1>8. UNCHANGED proc => Others(o) /\ proc'[o].built = proc[o].built
  BY DEF Others, Frame
<1> HIDE DEF Sets
<1> QED
  BY <1>3, <1>4, <1>5, <1>6, <1>7, <1>8

(* An environment a target has is one.                                     *)
LEMMA EnvOfTarget ==
    ASSUME NEW t \in Target, "env" \in DOMAIN t
    PROVE  t.env \in Env
<1>1. \A x \in ServiceTargets : "env" \notin DOMAIN x
  BY DEF ServiceTargets
<1>2. \A x \in SchemaTargets : "env" \notin DOMAIN x
  BY DEF SchemaTargets
<1>3. \A x \in InfraTargets : x.env \in Env
  BY DEF InfraTargets
<1> QED
  BY <1>1, <1>2, <1>3 DEF Target

(* A build is newer than all before it.                                    *)
LEMMA BuildCounts ==
    ASSUME Frame, Counted, NEW o \in Operator, NEW w \in Busy(o), Build(o, w), UNCHANGED svc
    PROVE  Counted' /\ Drifts
<1>1. PICK n : /\ n = [n |-> builds + 1,
                       for |-> IF "env" \in DOMAIN proc[o].at THEN proc[o].at.env ELSE "service"]
               /\ builds' = builds + 1 /\ image' = [image EXCEPT ![Here(o)] = n]
               /\ Advance(o, w, [proc[o] EXCEPT !.built = n]) /\ UNCHANGED session
  BY DEF Build
<1>2. n \in Images /\ n.n = builds + 1 /\ builds' \in Nat
  <2>1. proc[o].at \in Target
    BY BusyWorker
  <2> QED
    BY <1>1, <2>1, EnvOfTarget DEF Images, Counted
<1>3. proc'[o].built = n /\ Others(o)
  <2>1. PICK p : p = [proc[o] EXCEPT !.built = n]
    OBVIOUS
  <2>2. p.built = n
    BY <2>1 DEF Frame, Formed
  <2> QED
    BY <1>1, <2>1, <2>2, CommandDone
<1>4. Here(o) \in Machine /\ \A x \in Operator : Here(x)' = Here(x) /\ Here(x) \in Machine
  BY <1>1, MachineOf DEF Here
<1>5. /\ image' \in [Machine -> Images] /\ image'[Here(o)] = n
      /\ \A m \in Machine : image'[m] \in {image[m], n} /\ image[m].n \in Nat /\ image[m].n <= builds
      /\ builds \in Nat
  BY <1>1, <1>2, <1>4 DEF Counted, Images
<1>6. \A m \in Machine : image'[m].n >= image[m].n /\ image'[m].n <= builds'
  BY <1>1, <1>2, <1>5
<1>7. ASSUME NEW x \in Operator
      PROVE  proc'[x].built \in Images /\ proc'[x].built.n <= image'[Here(x)'].n
  <2>1. CASE x = o
    BY <1>2, <1>3, <1>4, <1>5, <2>1
  <2>2. CASE x # o
    <3>1. proc'[x].built = proc[x].built /\ proc[x].built \in Images
          /\ proc[x].built.n <= image[Here(x)].n
      BY <1>3, <2>2 DEF Others, Counted
    <3>2. proc[x].built.n \in Nat /\ image'[Here(x)].n \in Nat /\ image[Here(x)].n \in Nat
      BY <1>4, <1>5, <3>1 DEF Images
    <3> QED
      BY <1>4, <1>6, <3>1, <3>2
  <2> QED
    BY <2>1, <2>2
<1>8. Counted'
  BY <1>2, <1>5, <1>6, <1>7 DEF Counted, svc
<1>9. Drifts
  BY <1>1, <1>6 DEF Drifts, svc
<1> QED
  BY <1>8, <1>9

(* A step of anything else is one of Drifts.                               *)
LEMMA NothingDrifts ==
    ASSUME Counted, UNCHANGED <<session, image, svc>>
    PROVE  Drifts
<1>1. \A m \in Machine : image[m].n \in Nat
  BY DEF Counted, Images
<1> QED
  BY <1>1 DEF Drifts, svc

(* A deployment changes while processes have built what they had.          *)
LEMMA DeploymentCounts ==
    ASSUME Counted, UNCHANGED <<session, image, builds>>,
           \A o \in Operator : proc'[o].built = proc[o].built,
           local' \in [Machine -> [Ident -> Images]],
           pushed' \in [Ident -> Seq(Images)], \A d \in Ident : Len(pushed'[d]) >= 1,
           service' \in [Ident -> [tasks : [Task -> Images], old : SUBSET Task, ordered : Images]],
           functions' = [d \in Ident |-> [l \in Lambdas[d] |-> functions'[d][l]]]
    PROVE  Counted'
BY DEF Counted, Here

(* What is tagged latest is an image.                                      *)
LEMMA TagIsImage ==
    ASSUME Counted, NEW d \in Ident
    PROVE  Tag(d) \in Images
BY DEF Counted, Tag

(* A crashed task is replaced by one that runs what is ordered.            *)
LEMMA ReplaceDrifts ==
    ASSUME Counted, NEW d \in Ident, NEW t \in Task, Replace(d, t)
    PROVE  Counted' /\ Drifts
<1>1. PICK i \in {Tag(d), service[d].ordered} :
        service' = [service EXCEPT ![d].tasks[t] = i, ![d].old = @ \ {t}]
  BY DEF Replace
<1>2. /\ UNCHANGED <<session, proc, image, builds, local, pushed, functions>>
      /\ i \in Images
  BY <1>1, TagIsImage DEF Replace, mage, Counted
<1>3. PICK s : s = [service[d] EXCEPT !.tasks[t] = i, !.old = @ \ {t}]
  OBVIOUS
<1>4. service' = [service EXCEPT ![d] = s]
  BY <1>1, <1>3
<1>5. service[d] \in [tasks : [Task -> Images], old : SUBSET Task, ordered : Images]
  BY DEF Counted
<1>6. /\ s \in [tasks : [Task -> Images], old : SUBSET Task, ordered : Images]
      /\ s.ordered = service[d].ordered /\ s.tasks[t] = i /\ s.old = service[d].old \ {t}
      /\ \A x \in Task : x # t => s.tasks[x] = service[d].tasks[x]
  BY <1>2, <1>3, <1>5
<1>7. /\ service' \in [Ident -> [tasks : [Task -> Images], old : SUBSET Task, ordered : Images]]
      /\ service'[d] = s /\ \A x \in Ident : x # d => service'[x] = service[x]
  BY <1>4, <1>6 DEF Counted
<1>8. Counted'
  BY <1>2, <1>7, DeploymentCounts DEF Counted
<1>9. \A m \in Machine : image[m].n \in Nat
  BY DEF Counted, Images
<1>10. Drifts
  BY <1>1, <1>2, <1>6, <1>7, <1>9 DEF Drifts
<1> QED
  BY <1>8, <1>10

(* Every command of stdmage's service deploys is one of Drifts.            *)
LEMMA CommandDrifts ==
    ASSUME Frame, Counted, NEW o \in Operator, NEW w \in Busy(o), ServiceCommand(o, w)
    PROVE  Counted' /\ Drifts
<1> DEFINE c == Command(o, w)
           m == Here(o)
<1>1. c.d \in Ident /\ m \in Machine /\ UNCHANGED <<session, image, builds>>
  BY ServiceDeployAssumption, MachineOf DEF ServiceCommand
<1>2. \A x \in Operator : proc'[x].built = proc[x].built
  BY BuiltStays DEF Others
<1>3. /\ \A x \in Machine : image[x].n \in Nat /\ image[x] \in Images
      /\ Tag(c.d) \in Images
  BY <1>1, TagIsImage DEF Counted, Images
<1> HIDE DEF m
<1>4. CASE UNCHANGED svc
  BY <1>1, <1>2, <1>4, NothingDrifts, DeploymentCounts DEF svc, Counted
<1>5. CASE local' = [local EXCEPT ![m][c.d] = image[m]] /\ UNCHANGED <<pushed, service, functions>>
  <2>1. local' \in [Machine -> [Ident -> Images]]
    BY <1>1, <1>3, <1>5 DEF Counted
  <2>2. \A x \in Machine, d \in Ident : local'[x][d] \in {local[x][d], image[x]}
    BY <1>1, <1>5 DEF Counted
  <2>3. Drifts
    BY <1>1, <1>3, <1>5, <2>2 DEF Drifts
  <2> QED
    BY <1>1, <1>2, <1>5, <2>1, <2>3, DeploymentCounts DEF Counted
<1>6. CASE pushed' = [pushed EXCEPT ![c.d] = Append(@, local[m][c.d])] /\ UNCHANGED <<local, service, functions>>
  <2>1. /\ pushed' = [pushed EXCEPT ![c.d] = Append(pushed[c.d], local[m][c.d])]
        /\ local[m][c.d] \in Images /\ pushed[c.d] \in Seq(Images)
    BY <1>1, <1>6 DEF Counted
  <2>2. PICK u : u = Append(pushed[c.d], local[m][c.d])
    OBVIOUS
  <2>3. u \in Seq(Images) /\ Len(u) >= 1
    BY <2>1, <2>2
  <2>4. pushed' = [pushed EXCEPT ![c.d] = u]
    BY <2>1, <2>2
  <2>5. pushed' \in [Ident -> Seq(Images)] /\ \A d \in Ident : Len(pushed'[d]) >= 1
    BY <1>1, <2>3, <2>4 DEF Counted
  <2>6. \A d \in Ident : pushed'[d] = pushed[d] \/ \E x \in Images : pushed'[d] = Append(pushed[d], x)
    BY <1>1, <2>1, <2>2, <2>4 DEF Counted
  <2>7. Drifts
    BY <1>1, <1>3, <1>6, <2>6 DEF Drifts
  <2> QED
    BY <1>1, <1>2, <1>6, <2>5, <2>7, DeploymentCounts DEF Counted
<1>7. CASE /\ service' = [service EXCEPT ![c.d].old = Task, ![c.d].ordered = Tag(c.d)]
           /\ UNCHANGED <<local, pushed, functions>>
  <2>1. PICK s : s = [service[c.d] EXCEPT !.old = Task, !.ordered = Tag(c.d)]
    OBVIOUS
  <2>2. service' = [service EXCEPT ![c.d] = s]
    BY <1>7, <2>1
  <2>3. service[c.d] \in [tasks : [Task -> Images], old : SUBSET Task, ordered : Images]
    BY <1>1 DEF Counted
  <2>4. /\ s \in [tasks : [Task -> Images], old : SUBSET Task, ordered : Images]
        /\ s.tasks = service[c.d].tasks /\ s.old = Task /\ s.ordered = Tag(c.d)
    BY <1>3, <2>1, <2>3
  <2>5. /\ service' \in [Ident -> [tasks : [Task -> Images], old : SUBSET Task, ordered : Images]]
        /\ service'[c.d] = s /\ \A x \in Ident : x # c.d => service'[x] = service[x]
    BY <1>1, <2>2, <2>4 DEF Counted
  <2>6. Drifts
    BY <1>1, <1>3, <1>7, <2>4, <2>5 DEF Drifts
  <2>7. /\ local' \in [Machine -> [Ident -> Images]] /\ pushed' \in [Ident -> Seq(Images)]
        /\ \A d \in Ident : Len(pushed'[d]) >= 1
        /\ functions' = [d \in Ident |-> [l \in Lambdas[d] |-> functions'[d][l]]]
    BY <1>7 DEF Counted
  <2>8. Counted'
    BY <1>1, <1>2, <2>5, <2>7, DeploymentCounts
  <2> QED
    BY <2>6, <2>8
<1>8. CASE functions' = [functions EXCEPT ![c.d][c.l] = Tag(c.d)] /\ UNCHANGED <<local, pushed, service>>
  <2>1. \A d \in Ident : \A l \in Lambdas[d] : functions'[d][l] \in {functions[d][l], Tag(d)}
    BY <1>1, <1>8 DEF Counted
  <2>2. functions' = [d \in Ident |-> [l \in Lambdas[d] |-> functions'[d][l]]]
    <3>1. PICK f : f = [functions[c.d] EXCEPT ![c.l] = Tag(c.d)]
      OBVIOUS
    <3>2. functions' = [functions EXCEPT ![c.d] = f]
      BY <1>8, <3>1
    <3>3. functions[c.d] = [l \in Lambdas[c.d] |-> functions[c.d][l]]
      BY <1>1 DEF Counted
    <3>4. f = [l \in Lambdas[c.d] |-> f[l]]
      BY <3>1, <3>3
    <3>5. \A d \in Ident : functions'[d] = [l \in Lambdas[d] |-> functions'[d][l]]
      BY <1>1, <3>2, <3>4 DEF Counted
    <3> QED
      BY <3>2, <3>5 DEF Counted
  <2>3. Drifts
    BY <1>1, <1>3, <1>8, <2>1 DEF Drifts
  <2> QED
    BY <1>1, <1>2, <1>8, <2>2, <2>3, DeploymentCounts DEF Counted
<1> QED
  BY <1>4, <1>5, <1>6, <1>7, <1>8 DEF ServiceCommand, m
-----------------------------------------------------------------------------
(* A process at a service deploy.                                          *)
AtService(o) ==
    proc[o].status = "running" /\ proc[o].stages # <<>> /\ ServiceTarget(proc[o].at)

(* What it deploys.                                                        *)
Deployments(t) == IF t.all THEN DeploymentIdents ELSE {t.d}

(* What is to be done for deployment d.                                    *)
LeftFor(p, d) == IF p.at.all THEN p.stages[Len(p.stages)][d] ELSE p.stages[1]["main"]

(* Marks are of what was built, or later.                                  *)
MarksWell(mark, built) ==
    \A d \in DOMAIN mark :
        d \in Ident /\ mark[d] \in 1 .. Len(pushed[d]) /\ pushed[d][mark[d]].n >= built.n

(* Nothing is marked before all is built.                                  *)
BuildsFirst(p) ==
    LET stage == p.stages[1]
    IN  IF p.at.all
        THEN /\ Len(p.stages) = 2 =>
                    /\ DOMAIN p.mark = {}
                    /\ \A i \in DOMAIN stage["main"] : "d" \notin DOMAIN stage["main"][i]
             /\ Len(p.stages) = 1 => \A w \in DOMAIN stage : ~Has(stage[w], "build")
        ELSE Has(stage["main"], "build") => DOMAIN p.mark = {}

(* What a process knows of each of its deployments.                        *)
ServiceKnows(o) ==
    LET p == proc[o]
    IN  AtService(o) =>
            /\ MarksWell(p.mark, p.built) /\ BuildsFirst(p)
            /\ ~p.at.push => p.built.n = 0
            /\ \A d \in Deployments(p.at) : Knows(p.at, Here(o), d, LeftFor(p, d), p.mark, p.built)

(* The target of a process at a service.                                   *)
LEMMA AtItsService ==
    ASSUME Frame, NEW o \in Operator, AtService(o)
    PROVE  /\ proc[o].at \in ServiceTargets /\ Staged(proc[o].at, proc[o].stages)
           /\ Deployments(proc[o].at) \subseteq Ident /\ Here(o) \in Machine
<1>1. proc[o].at \in Target /\ Staged(proc[o].at, proc[o].stages)
  BY AskedTargets DEF AtService
<1>2. proc[o].at \in ServiceTargets
  BY <1>1, TargetKinds DEF AtService
<1>3. proc[o].at.d \in Ident
  BY <1>2 DEF ServiceTargets
<1> QED
  BY <1>1, <1>2, <1>3, ServiceDeployAssumption, MachineOf DEF Deployments

(* Marks are kept by what others do.                                       *)
LEMMA MarksDrift ==
    ASSUME Counted, Drifts, NEW mark, NEW built, MarksWell(mark, built)
    PROVE  MarksWell(mark, built)'
BY PushedSince DEF MarksWell

(* So is what a process knows.                                             *)
LEMMA ServiceKnowsDrifts ==
    ASSUME Frame, Counted, Drifts, NEW o \in Operator, ServiceKnows(o), proc'[o] = proc[o]
    PROVE  ServiceKnows(o)'
<1> SUFFICES ASSUME AtService(o)
             PROVE  ServiceKnows(o)'
  BY DEF ServiceKnows, AtService
<1>1. PICK p : p = proc[o]
  OBVIOUS
<1>2. PICK m : m = Here(o)
  OBVIOUS
<1>3. Here(o)' = m /\ m \in Machine /\ Deployments(p.at) \subseteq Ident
  BY <1>1, <1>2, AtItsService DEF Drifts, Here
<1>4. p.built \in Images /\ p.built.n <= image[m].n
  BY <1>1, <1>2 DEF Counted
<1>5. /\ MarksWell(p.mark, p.built) /\ BuildsFirst(p) /\ (~p.at.push => p.built.n = 0)
      /\ \A d \in Deployments(p.at) : Knows(p.at, m, d, LeftFor(p, d), p.mark, p.built)
  BY <1>1, <1>2 DEF ServiceKnows
<1>6. MarksWell(p.mark, p.built)'
  BY <1>5, MarksDrift
<1>7. ASSUME NEW d \in Deployments(p.at)
      PROVE  Knows(p.at, m, d, LeftFor(p, d), p.mark, p.built)'
  <2>1. d \in DOMAIN p.mark => p.mark[d] \in 1 .. Len(pushed[d])
    BY <1>5 DEF MarksWell
  <2>2. Knows(p.at, m, d, LeftFor(p, d), p.mark, p.built) /\ d \in Ident
    BY <1>3, <1>5
  <2> QED
    BY <1>3, <1>4, <2>1, <2>2, KnowsDrifts
<1>8. proc'[o] = p
  BY <1>1
<1> QED
  BY <1>3, <1>5, <1>6, <1>7, <1>8 DEF ServiceKnows

(* Of the deployments worker w's is the one for which less is to be done.  *)
LEMMA LeftPopped ==
    ASSUME NEW p, NEW q, NEW t \in ServiceTargets, p.at = t, q.at = t, Staged(t, p.stages),
           NEW w \in DOMAIN p.stages[1], Shorter(t, p.stages, w, q.stages), NEW d \in Deployments(t)
    PROVE  \/ LeftFor(q, d) = LeftFor(p, d)
           \/ LeftFor(p, d) = p.stages[1][w] /\ LeftFor(q, d) = Tail(p.stages[1][w])
<1>1. t.all \in BOOLEAN /\ ServiceTarget(t)
  BY DEF ServiceTargets, ServiceTarget
<1>2. Len(q.stages) = Len(p.stages) /\ q.stages[1][w] = Tail(p.stages[1][w])
      /\ (\A x \in DOMAIN p.stages[1] : x # w => q.stages[1][x] = p.stages[1][x])
      /\ (Len(p.stages) = 2 => q.stages[2] = p.stages[2])
  BY DEF Shorter
<1>3. CASE ~t.all
  <2>1. DOMAIN p.stages[1] = {"main"}
    BY <1>3 DEF Staged
  <2> QED
    BY <1>2, <1>3, <2>1 DEF LeftFor
<1>4. CASE t.all
  <2>1. Len(p.stages) = 2 \/ (Len(p.stages) = 1 /\ DOMAIN p.stages[1] = DeploymentIdents)
    BY <1>1, <1>4 DEF Staged
  <2>2. d \in DeploymentIdents
    BY <1>4 DEF Deployments
  <2>3. CASE Len(p.stages) = 2
    BY <1>2, <1>4, <2>3 DEF LeftFor
  <2>4. CASE Len(p.stages) = 1 /\ DOMAIN p.stages[1] = DeploymentIdents
    <3>1. LeftFor(p, d) = p.stages[1][d] /\ LeftFor(q, d) = q.stages[1][d]
      BY <1>2, <1>4, <2>4 DEF LeftFor
    <3> QED
      BY <1>2, <2>2, <2>4, <3>1
  <2> QED
    BY <2>1, <2>3, <2>4
<1> QED
  BY <1>1, <1>3, <1>4

(* The one deployment a command is for.                                    *)
LEMMA WorkersDeployment ==
    ASSUME Frame, NEW o \in Operator, NEW w \in Busy(o), AtService(o), ServiceKnows(o),
           "d" \in DOMAIN Command(o, w)
    PROVE  LET d == Command(o, w).d
               p == proc[o]
           IN  /\ d \in Deployments(p.at) /\ LeftFor(p, d) = p.stages[1][w]
               /\ p.at.all => Len(p.stages) = 1 /\ w = d /\ DOMAIN p.stages[1] = DeploymentIdents
               /\ ~p.at.all => w = "main" /\ DOMAIN p.stages[1] = {"main"}
<1> DEFINE p == proc[o]
           t == p.at
           cs == p.stages[1][w]
<1>1. /\ Staged(t, p.stages) /\ w \in DOMAIN p.stages[1] /\ Sorted(cs, 0, 7) /\ cs # <<>>
      /\ Command(o, w) = cs[1] /\ t \in ServiceTargets /\ ServiceTarget(t)
  BY BusyWorker, AtItsService DEF AtService
<1>2. /\ BuildsFirst(p)
      /\ \A d \in Deployments(t) : ServiceOrder(t, d, LeftFor(p, d))
  BY DEF ServiceKnows, Knows
<1>3. 1 \in DOMAIN cs
  BY <1>1, Popped
<1>4. CASE t.all
  <2>1. Len(p.stages) # 2
    BY <1>1, <1>2, <1>3, <1>4 DEF BuildsFirst, Staged
  <2>2. Len(p.stages) = 1 /\ DOMAIN p.stages[1] = DeploymentIdents
    BY <1>1, <1>4, <2>1 DEF Staged
  <2>3. w \in Deployments(t) /\ LeftFor(p, w) = cs
    BY <1>1, <1>4, <2>2 DEF Deployments, LeftFor
  <2>4. cs[1].d = w
    BY <1>1, <1>2, <1>3, <2>3 DEF ServiceOrder
  <2> QED
    BY <1>1, <1>4, <2>2, <2>3, <2>4
<1>5. CASE ~t.all
  <2>1. DOMAIN p.stages[1] = {"main"} /\ w = "main"
    BY <1>1, <1>5 DEF Staged
  <2>2. t.d \in Deployments(t) /\ LeftFor(p, t.d) = cs
    BY <1>5, <2>1 DEF Deployments, LeftFor
  <2>3. cs[1].d = t.d
    BY <1>1, <1>2, <1>3, <2>2 DEF ServiceOrder
  <2> QED
    BY <1>1, <1>5, <2>1, <2>2, <2>3
<1> QED
  BY <1>4, <1>5
(* mk is what mark becomes, for deployment d, with n where none was.       *)
Marks(mark, mk, d, n) ==
    /\ \A x \in DOMAIN mk : x # d => x \in DOMAIN mark
    /\ \A x \in DOMAIN mark : x \in DOMAIN mk /\ (x # d => mk[x] = mark[x])
    /\ d \in DOMAIN mk => mk[d] = n

(* A push marks where it is in what has been pushed, a deploy that has not *)
(* pushed marks the latest.                                                *)
LEMMA CommandMarks ==
    ASSUME Frame, NEW o \in Operator, NEW w \in Busy(o), ServiceCommand(o, w)
    PROVE  LET c == Command(o, w)
               mark == proc[o].mark
               mk == proc'[o].mark
           IN  /\ c.do \in {"tag", "push", "force_new_deployment", "services-stable", "list-exports",
                            "update-function-code"}
               /\ c.do \in {"tag", "services-stable"} => mk = mark
               /\ c.do \notin {"tag", "services-stable"} => c.d \in DOMAIN mk
               /\ Marks(mark, mk, c.d, IF c.do = "push" THEN Len(pushed[c.d]) + 1
                                       ELSE IF c.d \in DOMAIN mark THEN mark[c.d] ELSE Len(pushed[c.d]))
               /\ proc'[o].built = proc[o].built /\ Others(o) /\ proc'[o].at = proc[o].at
               /\ proc'[o].status = proc[o].status
               /\ Shorter(proc[o].at, proc[o].stages, w, proc'[o].stages)
<1> DEFINE c == Command(o, w)
           mark == proc[o].mark
           n == IF c.do = "push" THEN Len(pushed[c.d]) + 1
                ELSE IF c.d \in DOMAIN mark THEN mark[c.d] ELSE Len(pushed[c.d])
<1>1. Formed(proc[o])
  BY DEF Frame
<1>2. PICK fresh : fresh = [d \in DOMAIN mark \cup {c.d} |-> IF d = c.d THEN Len(pushed[d]) ELSE mark[d]]
  OBVIOUS
<1>3. PICK anew : anew = [d \in DOMAIN mark \cup {c.d} |-> IF d = c.d THEN Len(pushed[d]) + 1 ELSE mark[d]]
  OBVIOUS
<1>4. PICK mk : /\ \/ c.do \in {"tag", "services-stable"} /\ mk = mark
                   \/ c.do = "push" /\ mk = anew
                   \/ /\ c.do \in {"force_new_deployment", "list-exports", "update-function-code"}
                      /\ mk = IF c.d \in DOMAIN mark THEN mark ELSE fresh
                /\ Advance(o, w, [proc[o] EXCEPT !.mark = mk])
  <2>1. proc[o] = [proc[o] EXCEPT !.mark = mark]
    <3>1. PICK a, b, d, e, f, g, h, i, j, k :
        proc[o] = [todo |-> a, at |-> b, stages |-> d, status |-> e, built |-> f, digest |-> g,
             mark |-> h, from |-> i, url |-> j, inside |-> k]
      BY <1>1 DEF Formed
    <3> QED
      BY <3>1
  <2>2. CASE c.do \in {"tag", "services-stable"}
    <3>1. Advance(o, w, proc[o])
      BY <2>2 DEF ServiceCommand
    <3> QED
      BY <2>1, <2>2, <3>1
  <2>3. CASE c.do = "push"
    <3>1. Advance(o, w, [proc[o] EXCEPT !.mark = anew])
      BY <1>3, <2>3 DEF ServiceCommand
    <3> QED
      BY <2>3, <3>1
  <2>4. CASE c.do \in {"force_new_deployment", "list-exports", "update-function-code"}
    <3>1. Advance(o, w, [proc[o] EXCEPT !.mark = IF c.d \in DOMAIN mark THEN mark ELSE fresh])
      BY <1>2, <2>4 DEF ServiceCommand
    <3> QED
      BY <2>4, <3>1
  <2> QED
    BY <2>2, <2>3, <2>4 DEF ServiceCommand
<1>5. PICK p : p = [proc[o] EXCEPT !.mark = mk]
  OBVIOUS
<1>6. p.mark = mk /\ p.built = proc[o].built
  BY <1>1, <1>5 DEF Formed
<1>7. /\ proc'[o].mark = mk /\ proc'[o].built = proc[o].built /\ Others(o)
      /\ proc'[o].at = proc[o].at /\ proc'[o].status = proc[o].status
      /\ Shorter(proc[o].at, proc[o].stages, w, proc'[o].stages)
  BY <1>4, <1>5, <1>6, CommandDone
<1>8. Marks(mark, mk, c.d, n)
  BY <1>2, <1>3, <1>4 DEF Marks
<1>9. /\ c.do \in {"tag", "services-stable"} => mk = mark
      /\ c.do \notin {"tag", "services-stable"} => c.d \in DOMAIN mk
  BY <1>2, <1>3, <1>4
<1>10. c.do \in {"tag", "push", "force_new_deployment", "services-stable", "list-exports",
                 "update-function-code"}
  BY <1>4
<1> HIDE DEF c, mark, n
<1> QED
  BY <1>7, <1>8, <1>9, <1>10 DEF c, mark, n

(* What is pushed is what was built, or later.                             *)
LEMMA PushedIsBuilt ==
    ASSUME Counted, Drifts, NEW d \in Ident, NEW x \in Images, NEW built \in Images,
           x.n >= built.n, pushed'[d] = Append(pushed[d], x)
    PROVE  /\ Len(pushed[d]) + 1 \in 1 .. Len(pushed'[d])
           /\ pushed'[d][Len(pushed[d]) + 1].n >= built.n
<1>1. pushed[d] \in Seq(Images) /\ Len(pushed[d]) \in Nat
  BY DEF Counted
<1> QED
  BY <1>1

(* What worker w does is for deployment d, where cs is left.               *)
LEMMA MarksStep ==
    ASSUME Frame, Counted, Drifts, NEW o \in Operator, NEW w \in Busy(o), AtService(o),
           ServiceKnows(o), ServiceCommand(o, w), "d" \in DOMAIN Command(o, w),
           NEW mk, mk = proc'[o].mark, NEW built, built = proc[o].built
    PROVE  MarksWell(mk, built)'
<1> DEFINE c == Command(o, w)
           d == c.d
           p == proc[o]
           cs == p.stages[1][w]
<1>1. /\ c.do \in {"tag", "push", "force_new_deployment", "services-stable", "list-exports",
                   "update-function-code"}
      /\ Marks(p.mark, proc'[o].mark, d, IF c.do = "push" THEN Len(pushed[d]) + 1
                                 ELSE IF d \in DOMAIN p.mark THEN p.mark[d] ELSE Len(pushed[d]))
      /\ proc'[o].built = p.built
      /\ c.do \in {"tag", "services-stable"} => proc'[o].mark = p.mark
  BY CommandMarks
<1>2. d \in Deployments(p.at) /\ LeftFor(p, d) = cs /\ d \in Ident /\ p.at \in ServiceTargets
      /\ Here(o) \in Machine
  BY WorkersDeployment, AtItsService
<1>3. Knows(p.at, Here(o), d, cs, p.mark, p.built) /\ MarksWell(p.mark, p.built)
      /\ (~p.at.push => p.built.n = 0)
  BY <1>2 DEF ServiceKnows
<1>4. Sorted(cs, 0, 7) /\ cs # <<>> /\ c = cs[1]
  BY BusyWorker
<1>5. \A do : Rank(do) < Rank(c.do) /\ do # "load" => ~Has(cs, do)
  <2>1. ServiceOrder(p.at, d, cs)
    BY <1>3 DEF Knows
  <2> HIDE DEF cs, p, d
  <2>2. \A do : Rank(do) < Rank(cs[1].do) /\ do # "load" => ~Has(cs, do)
    BY <1>1, <1>4, <2>1, ServiceOrderPopped
  <2> QED
    BY <1>4, <2>2
<1>6. p.built \in Images /\ pushed[d] \in Seq(Images) /\ Len(pushed[d]) >= 1
      /\ local[Here(o)][d] \in Images
  BY <1>2 DEF Counted
<1>7. ASSUME NEW x \in DOMAIN p.mark
      PROVE  x \in Ident /\ p.mark[x] \in 1 .. Len(pushed'[x]) /\ pushed'[x][p.mark[x]].n >= p.built.n
  <2>1. x \in Ident /\ p.mark[x] \in 1 .. Len(pushed[x]) /\ pushed[x][p.mark[x]].n >= p.built.n
    BY <1>3 DEF MarksWell
  <2> QED
    BY <2>1, PushedSince
<1>8. PICK n : n = IF c.do = "push" THEN Len(pushed[d]) + 1
                   ELSE IF d \in DOMAIN p.mark THEN p.mark[d] ELSE Len(pushed[d])
  OBVIOUS
<1>9. d \in DOMAIN proc'[o].mark => n \in 1 .. Len(pushed'[d]) /\ pushed'[d][n].n >= p.built.n
  <2>1. CASE c.do = "push"
    <3>1. ~Has(cs, "tag")
      BY <1>5, <2>1, ServiceRanks
    <3>2. local[Here(o)][d].n >= p.built.n
      BY <1>3, <3>1 DEF Knows
    <3>3. pushed' = [pushed EXCEPT ![d] = Append(@, local[Here(o)][d])]
      BY <2>1 DEF ServiceCommand
    <3>4. pushed'[d] = Append(pushed[d], local[Here(o)][d])
      BY <1>2, <3>3 DEF Counted
    <3> QED
      BY <1>2, <1>6, <1>8, <2>1, <3>2, <3>4, PushedIsBuilt
  <2>2. CASE c.do # "push" /\ d \in DOMAIN p.mark
    BY <1>7, <1>8, <2>2
  <2>3. CASE c.do \in {"force_new_deployment", "list-exports", "update-function-code"} /\ d \notin DOMAIN p.mark
    <3>1. n = Len(pushed[d]) /\ n \in 1 .. Len(pushed[d])
      BY <1>6, <1>8, <2>3
    <3>2. pushed[d][n] \in Images /\ pushed[d][n].n >= 0
      <4>1. pushed[d][n] \in Images
        BY <1>6, <3>1
      <4> QED
        BY <4>1 DEF Images
    <3>3. ~Has(cs, "push")
      BY <1>5, <2>3, ServiceRanks
    <3>4. p.built.n = 0
      BY <1>3, <2>3, <3>3 DEF Knows
    <3>5. n \in 1 .. Len(pushed'[d]) /\ pushed'[d][n] = pushed[d][n]
      BY <1>2, <3>1, PushedSince
    <3> QED
      BY <3>2, <3>4, <3>5
  <2>4. CASE c.do \in {"tag", "services-stable"} /\ d \notin DOMAIN p.mark
    BY <1>1, <2>4
  <2> QED
    BY <1>1, <2>1, <2>2, <2>3, <2>4
<1>10. ASSUME NEW x \in DOMAIN mk
       PROVE  x \in Ident /\ mk[x] \in 1 .. Len(pushed'[x]) /\ pushed'[x][mk[x]].n >= built.n
  <2>1. Marks(p.mark, mk, d, n)
    BY <1>1, <1>8
  <2> QED
    BY <1>2, <1>7, <1>9, <2>1 DEF Marks
<1> QED
  BY <1>10 DEF MarksWell

(* What comes before a command has been done.                              *)
LEMMA NothingBefore ==
    ASSUME NEW t, NEW d, NEW cs, Sorted(cs, 0, 7), cs # <<>>, ServiceOrder(t, d, cs),
           NEW c, c = cs[1], c.do # "load"
    PROVE  \A do : Rank(do) < Rank(c.do) /\ do # "load" => ~Has(cs, do)
<1>1. \A do : Rank(do) < Rank(cs[1].do) /\ do # "load" => ~Has(cs, do)
  BY ServiceOrderPopped
<1> QED
  BY <1>1

(* The deployment a command is for.                                        *)
LEMMA KnowsItsCommand ==
    ASSUME Frame, Counted, Drifts, NEW o \in Operator, NEW w \in Busy(o), AtService(o),
           ServiceKnows(o), ServiceCommand(o, w), "d" \in DOMAIN Command(o, w),
           NEW t, t = proc[o].at, NEW m, m = Here(o), NEW c, c = Command(o, w),
           NEW cs, cs = proc[o].stages[1][w], NEW mk, mk = proc'[o].mark,
           NEW built, built = proc[o].built, MarksWell(mk, built)'
    PROVE  Knows(t, m, c.d, Tail(cs), mk, built)'
<1> DEFINE mark == proc[o].mark
           d == c.d
<1>1. /\ c.do \in {"tag", "push", "force_new_deployment", "services-stable", "list-exports",
                   "update-function-code"}
      /\ Marks(mark, mk, d, IF c.do = "push" THEN Len(pushed[d]) + 1
                            ELSE IF d \in DOMAIN mark THEN mark[d] ELSE Len(pushed[d]))
      /\ c.do \in {"tag", "services-stable"} => mk = mark
      /\ c.do \notin {"tag", "services-stable"} => c.d \in DOMAIN mk
  BY CommandMarks
<1>2. d \in Deployments(t) /\ LeftFor(proc[o], d) = cs /\ d \in Ident /\ m \in Machine
  BY WorkersDeployment, AtItsService
<1>3. Knows(t, m, d, cs, mark, built) /\ MarksWell(mark, built)
  BY <1>2 DEF ServiceKnows
<1>4. Sorted(cs, 0, 7) /\ cs # <<>> /\ c = cs[1]
  BY BusyWorker
<1>5. ServiceOrder(t, d, cs)
  BY <1>3 DEF Knows
<1>6. c.do = "push" => Has(cs, "push")
  <2>1. 1 \in DOMAIN cs
    BY <1>4, Popped
  <2> QED
    BY <1>4, <2>1 DEF Has
<1>7. Knows(t, m, d, cs, mk, built)
  <2>1. d \in DOMAIN mark => d \in DOMAIN mk /\ (mk[d] = mark[d] \/ Has(cs, "push"))
    BY <1>1, <1>6 DEF Marks
  <2> HIDE DEF d, mark
  <2> QED
    BY <1>2, <1>3, <2>1, KnowsMarks
<1>8. built \in Images /\ built.n <= image[m].n /\ pushed[d] \in Seq(Images) /\ Len(pushed[d]) >= 1
  BY <1>2 DEF Counted
<1>9. d \in DOMAIN mk => mk[d] \in 1 .. Len(pushed[d]) \/ Has(cs, "push")
  BY <1>1, <1>3, <1>6, <1>8 DEF Marks, MarksWell
<1> HIDE DEF d
<1>10. Knows(t, m, d, cs, mk, built)'
  BY <1>2, <1>7, <1>8, <1>9, KnowsDrifts
<1>11. \A do : Rank(do) < Rank(c.do) /\ do # "load" => ~Has(cs, do)
  BY <1>1, <1>4, <1>5, NothingBefore
<1>12. c.do = "tag" => local'[m][d].n >= built.n
  <2>1. ASSUME c.do = "tag"
        PROVE  local'[m][d] = image[m]
    <3>1. local' = [local EXCEPT ![m][d] = image[m]]
      BY <2>1 DEF ServiceCommand, d
    <3> QED
      BY <1>2, <3>1 DEF Counted
  <2>2. image[m] \in Images
    BY <1>2 DEF Counted
  <2> QED
    BY <1>8, <2>1, <2>2 DEF Images
<1>13. c.do = "force_new_deployment" => d \in DOMAIN mk /\ InTurn(d, mk[d])'
  <2>1. ASSUME c.do = "force_new_deployment"
        PROVE  d \in DOMAIN mk /\ InTurn(d, mk[d])'
    <3>1. service' = [service EXCEPT ![d].old = Task, ![d].ordered = Tag(d)] /\ UNCHANGED pushed
      BY <2>1 DEF ServiceCommand, d
    <3>2. service'[d].old = Task /\ service'[d].ordered = Tag(d)
      <4>1. service[d] \in [tasks : [Task -> Images], old : SUBSET Task, ordered : Images]
        BY <1>2 DEF Counted
      <4>2. PICK s : s = [service[d] EXCEPT !.old = Task, !.ordered = Tag(d)]
        OBVIOUS
      <4>3. service' = [service EXCEPT ![d] = s]
        BY <3>1, <4>2
      <4> QED
        BY <1>2, <4>1, <4>2, <4>3 DEF Counted
    <3>3. d \in DOMAIN mk /\ mk[d] \in 1 .. Len(pushed[d])
      BY <1>1, <1>9, <2>1, <3>1 DEF MarksWell, d
    <3>4. Tag(d) \in Since(pushed'[d], mk[d])
      BY <1>2, <3>3, PushedSince
    <3> QED
      BY <3>2, <3>3, <3>4 DEF InTurn
  <2> QED
    BY <2>1
<1>14. c.do = "services-stable" /\ t.service => Runs(d, mk[d])'
  <2>1. ASSUME c.do = "services-stable", t.service
        PROVE  Runs(d, mk[d])'
    <3>1. service[d].old = {} /\ UNCHANGED svc
      BY <2>1 DEF ServiceCommand, d
    <3>2. ~Has(cs, "force_new_deployment")
      BY <1>11, <2>1, ServiceRanks
    <3>3. InTurn(d, mk[d])
      BY <1>7, <2>1, <3>2 DEF Knows
    <3> QED
      BY <3>1, <3>3 DEF InTurn, Runs, svc
  <2> QED
    BY <2>1
<1>15. c.do = "update-function-code" /\ t.lambdas /\ c.l \in Lambdas[d] =>
                d \in DOMAIN mk /\ Calls(d, mk[d], c.l)'
  <2>1. ASSUME c.do = "update-function-code", c.l \in Lambdas[d]
        PROVE  d \in DOMAIN mk /\ Calls(d, mk[d], c.l)'
    <3>1. functions' = [functions EXCEPT ![d][c.l] = Tag(d)] /\ UNCHANGED pushed
      BY <2>1 DEF ServiceCommand, d
    <3>2. functions'[d][c.l] = Tag(d)
      BY <1>2, <2>1, <3>1 DEF Counted
    <3>3. d \in DOMAIN mk /\ mk[d] \in 1 .. Len(pushed[d])
      BY <1>1, <1>9, <2>1, <3>1 DEF MarksWell, d
    <3>4. Tag(d) \in Since(pushed'[d], mk[d])
      BY <1>2, <3>3, PushedSince
    <3> QED
      BY <3>2, <3>3, <3>4 DEF Calls
  <2> QED
    BY <2>1
<1>16. c.do \in {"push", "list-exports"} => d \in DOMAIN mk
  BY <1>1 DEF d
<1>17. Knows(t, m, d, Tail(cs), mk, built)'
  BY <1>2, <1>4, <1>10, <1>12, <1>13, <1>14, <1>15, <1>16, KnowsPopped
<1> QED
  BY <1>17 DEF d

(* The others are as they were.                                            *)
LEMMA KnowsOfOthers ==
    ASSUME Frame, Counted, Drifts, NEW o \in Operator, NEW w \in Busy(o), AtService(o),
           ServiceKnows(o), ServiceCommand(o, w),
           NEW t, t = proc[o].at, NEW m, m = Here(o),
           NEW cs, NEW mk, mk = proc'[o].mark, NEW built, built = proc[o].built,
           NEW d \in Deployments(t), d # Command(o, w).d, cs = LeftFor(proc[o], d)
    PROVE  Knows(t, m, d, cs, mk, built)'
<1> DEFINE mark == proc[o].mark
           c == Command(o, w)
<1>1. Marks(mark, mk, c.d, IF c.do = "push" THEN Len(pushed[c.d]) + 1
                            ELSE IF c.d \in DOMAIN mark THEN mark[c.d] ELSE Len(pushed[c.d]))
  BY CommandMarks
<1>2. /\ \A x \in DOMAIN mk : x # c.d => x \in DOMAIN mark
      /\ \A x \in DOMAIN mark : x \in DOMAIN mk /\ (x # c.d => mk[x] = mark[x])
  BY <1>1 DEF Marks
<1>3. Knows(t, m, d, cs, mark, built) /\ MarksWell(mark, built)
  BY DEF ServiceKnows
<1>4. d \in Ident /\ m \in Machine
  BY AtItsService
<1>5. d \in DOMAIN mark => d \in DOMAIN mk /\ mk[d] = mark[d]
  BY <1>2
<1>6. d \in DOMAIN mk => mk[d] \in 1 .. Len(pushed[d])
  BY <1>2, <1>3 DEF MarksWell
<1>7. Knows(t, m, d, cs, mk, built)
  <2> HIDE DEF mark
  <2> QED
    BY <1>3, <1>4, <1>5, KnowsMarks
<1>8. built \in Images /\ built.n <= image[m].n
  BY DEF Counted
<1> QED
  BY <1>4, <1>6, <1>7, <1>8, KnowsDrifts

(* A command leaves its process with what it knows.                        *)
LEMMA ServiceCommandKnows ==
    ASSUME Frame, Counted, Drifts, NEW o \in Operator, NEW w \in Busy(o), AtService(o),
           ServiceKnows(o), ServiceCommand(o, w), "d" \in DOMAIN Command(o, w)
    PROVE  ServiceKnows(o)'
<1>1. PICK t : t = proc[o].at
  OBVIOUS
<1>2. PICK m : m = Here(o)
  OBVIOUS
<1>3. PICK c : c = Command(o, w)
  OBVIOUS
<1>4. PICK cs : cs = proc[o].stages[1][w]
  OBVIOUS
<1>5. PICK q : q = proc'[o]
  OBVIOUS
<1>6. PICK p : p = proc[o]
  OBVIOUS
<1>7. PICK mk : mk = q.mark
  OBVIOUS
<1>8. /\ q.at = t /\ q.built = p.built /\ Shorter(t, p.stages, w, q.stages)
      /\ c.do \in {"tag", "push", "force_new_deployment", "services-stable", "list-exports",
                   "update-function-code"}
  BY <1>1, <1>3, <1>5, <1>6, CommandMarks
<1>9. /\ t \in ServiceTargets /\ Staged(t, p.stages) /\ w \in DOMAIN p.stages[1]
      /\ Sorted(cs, 0, 7) /\ cs # <<>> /\ c = cs[1]
  BY <1>1, <1>3, <1>4, <1>6, BusyWorker, AtItsService
<1>10. /\ c.d \in Deployments(t) /\ LeftFor(p, c.d) = cs
       /\ t.all => Len(p.stages) = 1 /\ w = c.d /\ DOMAIN p.stages[1] = DeploymentIdents
       /\ ~t.all => w = "main" /\ DOMAIN p.stages[1] = {"main"}
  BY <1>1, <1>3, <1>4, <1>6, WorkersDeployment
<1>11. MarksWell(mk, p.built)'
  BY <1>5, <1>6, <1>7, MarksStep
<1>12. Knows(t, m, c.d, Tail(cs), mk, p.built)'
  BY <1>1, <1>2, <1>3, <1>4, <1>5, <1>6, <1>7, <1>11, KnowsItsCommand
<1>13. \A d \in Deployments(t) : d # c.d => Knows(t, m, d, LeftFor(p, d), mk, p.built)'
  BY <1>1, <1>2, <1>3, <1>5, <1>6, <1>7, KnowsOfOthers
<1>14. /\ BuildsFirst(p) /\ (~t.push => p.built.n = 0)
       /\ ServiceOrder(t, c.d, cs)
  BY <1>1, <1>6, <1>10 DEF ServiceKnows, Knows
<1>15. /\ \A do : Has(Tail(cs), do) => Has(cs, do)
       /\ ~Has(cs, "build")
  <2>1. c.do # "load"
    BY <1>8
  <2>2. /\ \A do : Has(Tail(cs), do) => Has(cs, do)
        /\ \A do : Rank(do) < Rank(cs[1].do) /\ do # "load" => ~Has(cs, do)
    BY <1>9, <1>14, <2>1, ServiceOrderPopped
  <2>3. Rank("build") < Rank(cs[1].do)
    BY <1>8, <1>9, ServiceRanks
  <2> QED
    BY <2>2, <2>3
<1>16. /\ Len(q.stages) = Len(p.stages) /\ DOMAIN q.stages[1] = DOMAIN p.stages[1]
       /\ q.stages[1][w] = Tail(cs)
       /\ \A x \in DOMAIN p.stages[1] : x # w => q.stages[1][x] = p.stages[1][x]
  BY <1>4, <1>6, <1>8 DEF Shorter
<1>17. LeftFor(q, c.d) = Tail(cs)
  <2>1. t.all => q.stages[Len(q.stages)] = q.stages[1]
    BY <1>10, <1>16
  <2> QED
    BY <1>8, <1>10, <1>16, <2>1 DEF LeftFor
<1>18. \A d \in Deployments(t) : d # c.d => LeftFor(q, d) = LeftFor(p, d)
  <2>1. ~t.all => Deployments(t) = {t.d}
    BY DEF Deployments
  <2>2. t.all => Deployments(t) = DeploymentIdents
    BY DEF Deployments
  <2>3. t.all => q.stages[Len(q.stages)] = q.stages[1] /\ p.stages[Len(p.stages)] = p.stages[1]
    BY <1>10, <1>16
  <2>4. p.at = t
    BY <1>1, <1>6
  <2> QED
    BY <1>8, <1>10, <1>16, <2>1, <2>2, <2>3, <2>4 DEF LeftFor
<1>19. \A d \in Deployments(t) : Knows(t, m, d, LeftFor(q, d), mk, p.built)'
  BY <1>12, <1>13, <1>17, <1>18
<1>20. BuildsFirst(q)
  <2>1. CASE t.all
    <3>1. \A x \in DOMAIN p.stages[1] : ~Has(p.stages[1][x], "build")
      BY <1>1, <1>6, <1>10, <1>14, <2>1 DEF BuildsFirst
    <3>2. \A x \in DOMAIN q.stages[1] : ~Has(q.stages[1][x], "build")
      BY <1>15, <1>16, <3>1
    <3>3. Len(q.stages) = 1
      BY <1>10, <1>16, <2>1
    <3> QED
      BY <1>8, <2>1, <3>2, <3>3 DEF BuildsFirst
  <2>2. CASE ~t.all
    BY <1>8, <1>10, <1>15, <1>16, <2>2 DEF BuildsFirst
  <2> QED
    BY <2>1, <2>2
<1>21. Here(o)' = m
  BY <1>2 DEF Here, Drifts
<1> QED
  BY <1>5, <1>7, <1>8, <1>11, <1>14, <1>19, <1>20, <1>21 DEF ServiceKnows
-----------------------------------------------------------------------------
(* The lists of a deploy are in ServiceOrder.                              *)
LEMMA ListIsInOrder ==
    ASSUME NEW t \in ServiceTargets, NEW d \in Ident, NEW cs, DeployList(t, d, cs)
    PROVE  ServiceOrder(t, d, cs)
<1>1. \A i \in DOMAIN cs : "d" \in DOMAIN cs[i] => cs[i].d = d
  BY DEF DeployList
<1>2. t.lambdas => Has(cs, "list-exports") /\ \A l \in Lambdas[d] : Updates(cs, l)
  BY DEF DeployList, Updates
<1> QED
  BY <1>1, <1>2 DEF DeployList, ServiceOrder

(* Before anything has been done for a deployment.                         *)
LEMMA KnowsFirst ==
    ASSUME NEW t, NEW m, NEW d \in Ident, NEW cs, NEW mark, NEW built, ServiceOrder(t, d, cs),
           ~Has(cs, "tag") => ~t.push /\ local'[m][d].n >= built.n,
           Has(cs, "push") \/ (t.service => Has(cs, "force_new_deployment")),
           Has(cs, "push") \/ (t.lambdas => Has(cs, "list-exports"))
    PROVE  Knows(t, m, d, cs, mark, built)'
<1>1. /\ t.push => Has(cs, "push")
      /\ t.service => Has(cs, "force_new_deployment") /\ Has(cs, "services-stable")
      /\ t.lambdas => Has(cs, "list-exports") /\ \A l \in Lambdas[d] : Updates(cs, l)
  BY DEF ServiceOrder
<1>2. ServiceOrder(t, d, cs)'
  BY DEF ServiceOrder
<1> QED
  BY <1>1, <1>2 DEF Knows

(* What a process knows of its deployments it knows after any change that  *)
(* it does not make.                                                       *)
LEMMA KnowsStill ==
    ASSUME Frame, Counted, Drifts, NEW o \in Operator, ServiceKnows(o), AtService(o),
           NEW p, p = proc[o], NEW m, m = Here(o)
    PROVE  /\ Here(o)' = m /\ m \in Machine
           /\ MarksWell(p.mark, p.built)' /\ BuildsFirst(p) /\ (~p.at.push => p.built.n = 0)
           /\ \A d \in Deployments(p.at) :
                Knows(p.at, m, d, LeftFor(p, d), p.mark, p.built)'
<1>1. Here(o)' = m /\ m \in Machine /\ Deployments(p.at) \subseteq Ident
  BY AtItsService DEF Drifts, Here
<1>2. p.built \in Images /\ p.built.n <= image[m].n
  BY DEF Counted
<1>3. /\ MarksWell(p.mark, p.built) /\ BuildsFirst(p) /\ (~p.at.push => p.built.n = 0)
      /\ \A d \in Deployments(p.at) : Knows(p.at, m, d, LeftFor(p, d), p.mark, p.built)
  BY DEF ServiceKnows
<1>4. MarksWell(p.mark, p.built)'
  BY <1>3, MarksDrift
<1>5. ASSUME NEW d \in Deployments(p.at)
      PROVE  Knows(p.at, m, d, LeftFor(p, d), p.mark, p.built)'
  <2>1. d \in DOMAIN p.mark => p.mark[d] \in 1 .. Len(pushed[d])
    BY <1>3 DEF MarksWell
  <2>2. Knows(p.at, m, d, LeftFor(p, d), p.mark, p.built) /\ d \in Ident
    BY <1>1, <1>3
  <2> QED
    BY <1>1, <1>2, <2>1, <2>2, KnowsDrifts
<1> QED
  BY <1>1, <1>3, <1>4, <1>5

(* A target that begins knows what it has to.                              *)
LEMMA ServiceBegins ==
    ASSUME Frame, Counted, NEW o \in Operator, Begin(o)
    PROVE  ServiceKnows(o)'
<1>1. PICK q : q = proc'[o]
  OBVIOUS
<1>2. PICK t : t = q.at
  OBVIOUS
<1>3. /\ t \in Target /\ q.stages = Stages(t, o) /\ q.built = NoImage /\ q.mark = <<>>
      /\ UNCHANGED <<session, svc>>
  BY <1>1, <1>2, Begins
<1> SUFFICES ASSUME ServiceTarget(t)
             PROVE  ServiceKnows(o)'
  BY <1>1, <1>2 DEF ServiceKnows, AtService
<1>4. t \in ServiceTargets /\ t.all \in BOOLEAN /\ t.d \in Ident
  BY <1>3, TargetKinds DEF ServiceTargets
<1>5. PICK m : m = Here(o)
  OBVIOUS
<1>6. Here(o)' = m /\ m \in Machine
  BY <1>3, <1>5, MachineOf DEF Here
<1>7. PICK s : s = ServiceStages(t)
  OBVIOUS
<1>8. /\ Staged(t, s) /\ q.stages = s
      /\ t.all => Len(s) = 2 /\ s[1]["main"] = BuildCommands
      /\ ~t.all => DeployList(t, t.d, s[1]["main"])
  <2>1. q.stages = s
    BY <1>3, <1>4, <1>7, TargetKinds DEF Stages
  <2>2. /\ Staged(t, ServiceStages(t))
        /\ t.all => Len(ServiceStages(t)) = 2 /\ ServiceStages(t)[1]["main"] = BuildCommands
        /\ ~t.all => DeployList(t, t.d, ServiceStages(t)[1]["main"])
    BY <1>4, ServiceStaged
  <2> QED
    BY <1>7, <2>1, <2>2
<1>9. t.all => \A d \in DeploymentIdents : s[2][d] = DeployCommands(t, d)
  BY <1>8 DEF Staged
<1>10. ASSUME NEW d \in Deployments(t)
       PROVE  d \in Ident /\ DeployList(t, d, LeftFor(q, d))
  <2>1. CASE t.all
    <3>1. d \in DeploymentIdents /\ d \in Ident
      BY <2>1, ServiceDeployAssumption DEF Deployments
    <3>2. LeftFor(q, d) = DeployCommands(t, d)
      BY <1>2, <1>8, <1>9, <2>1, <3>1 DEF LeftFor
    <3> QED
      BY <1>4, <3>1, <3>2, DeployCommandsList
  <2>2. CASE ~t.all
    <3>1. d = t.d /\ LeftFor(q, d) = s[1]["main"]
      BY <1>2, <1>8, <2>2 DEF Deployments, LeftFor
    <3> QED
      BY <1>4, <1>8, <2>2, <3>1
  <2> QED
    BY <2>1, <2>2
<1>11. ASSUME NEW d \in Deployments(t)
       PROVE  Knows(t, m, d, LeftFor(q, d), q.mark, q.built)'
  <2>1. PICK cs : cs = LeftFor(q, d)
    OBVIOUS
  <2>2. d \in Ident /\ DeployList(t, d, cs) /\ ServiceOrder(t, d, cs)
    BY <1>4, <1>10, <2>1, ListIsInOrder
  <2>3. local'[m][d] \in Images /\ local'[m][d].n >= 0
    <3>1. local'[m][d] \in Images
      BY <1>3, <1>6, <2>2 DEF Counted, svc
    <3> QED
      BY <3>1 DEF Images
  <2>4. /\ ~Has(cs, "tag") => ~t.push /\ local'[m][d].n >= q.built.n
        /\ t.service => Has(cs, "force_new_deployment")
        /\ t.lambdas => Has(cs, "list-exports")
    BY <1>3, <2>2, <2>3 DEF DeployList, NoImage
  <2>5. Knows(t, m, d, cs, q.mark, q.built)'
    BY <2>2, <2>4, KnowsFirst
  <2> QED
    BY <2>1, <2>5
<1>12. MarksWell(q.mark, q.built)' /\ q.built.n = 0
  BY <1>3 DEF MarksWell, NoImage
<1>13. BuildsFirst(q)
  <2>1. DOMAIN q.mark = {}
    BY <1>3
  <2>2. t.all => Len(q.stages) = 2 /\ \A i \in DOMAIN BuildCommands : "d" \notin DOMAIN BuildCommands[i]
    BY <1>8, BuildList
  <2> QED
    BY <1>2, <1>8, <2>1, <2>2 DEF BuildsFirst
<1> QED
  BY <1>1, <1>2, <1>6, <1>11, <1>12, <1>13 DEF ServiceKnows

(* BuildsFirst is kept as commands are done.                               *)
LEMMA BuildsFirstPopped ==
    ASSUME NEW p, NEW q, NEW t \in ServiceTargets, p.at = t, q.at = t, q.mark = p.mark,
           Staged(t, p.stages), NEW w \in DOMAIN p.stages[1], p.stages[1][w] # <<>>,
           Shorter(t, p.stages, w, q.stages), BuildsFirst(p)
    PROVE  BuildsFirst(q)
<1>1. /\ Len(q.stages) = Len(p.stages) /\ DOMAIN q.stages[1] = DOMAIN p.stages[1]
      /\ q.stages[1][w] = Tail(p.stages[1][w])
      /\ \A x \in DOMAIN p.stages[1] : x # w => q.stages[1][x] = p.stages[1][x]
  BY DEF Shorter
<1>2. Sorted(p.stages[1][w], 0, 7)
  BY DEF Staged
<1>3. PICK cs : cs = p.stages[1][w]
  OBVIOUS
<1>4. /\ \A do : Has(Tail(cs), do) => Has(cs, do)
      /\ \A i \in DOMAIN Tail(cs) : i + 1 \in DOMAIN cs /\ Tail(cs)[i] = cs[i + 1]
  BY <1>2, <1>3, Popped
<1>5. CASE t.all
  <2>1. CASE Len(p.stages) = 2
    <3>1. w = "main" /\ DOMAIN p.mark = {} /\ \A i \in DOMAIN cs : "d" \notin DOMAIN cs[i]
      <4>1. DOMAIN p.stages[1] = {"main"}
        BY <1>5, <2>1 DEF Staged, ServiceTargets, ServiceTarget
      <4> QED
        BY <1>3, <1>5, <2>1, <4>1 DEF BuildsFirst
    <3>2. \A i \in DOMAIN Tail(cs) : "d" \notin DOMAIN Tail(cs)[i]
      BY <1>4, <3>1
    <3>3. Len(q.stages) = 2 /\ Len(q.stages) # 1 /\ q.at.all /\ q.stages[1]["main"] = Tail(cs)
      BY <1>1, <1>3, <1>5, <2>1, <3>1
    <3>4. DOMAIN q.mark = {}
      BY <3>1
    <3> QED
      BY <3>2, <3>3, <3>4 DEF BuildsFirst
  <2>2. CASE Len(p.stages) # 2
    <3>1. Len(q.stages) = 1 => \A x \in DOMAIN q.stages[1] : ~Has(q.stages[1][x], "build")
      <4>1. Len(p.stages) = 1 => \A x \in DOMAIN p.stages[1] : ~Has(p.stages[1][x], "build")
        BY <1>5 DEF BuildsFirst
      <4> QED
        BY <1>1, <1>3, <1>4, <4>1
    <3> QED
      BY <1>1, <1>5, <2>2, <3>1 DEF BuildsFirst
  <2> QED
    BY <2>1, <2>2
<1>6. CASE ~t.all
  <2>1. w = "main"
    BY <1>6 DEF Staged
  <2> QED
    BY <1>1, <1>3, <1>4, <1>6, <2>1 DEF BuildsFirst
<1> QED
  BY <1>5, <1>6

(* A build keeps what is known, for nothing has been pushed.               *)
LEMMA ServiceBuilds ==
    ASSUME Frame, Counted, NEW o \in Operator, NEW w \in Busy(o), AtService(o), ServiceKnows(o),
           Command(o, w).do = "build", Build(o, w), UNCHANGED svc
    PROVE  ServiceKnows(o)'
<1>1. PICK p : p = proc[o]
  OBVIOUS
<1>2. PICK q : q = proc'[o]
  OBVIOUS
<1>3. PICK t : t = p.at
  OBVIOUS
<1>4. PICK m : m = Here(o)
  OBVIOUS
<1>5. Drifts
  BY BuildCounts
<1>6. /\ q.at = t /\ q.mark = p.mark /\ Shorter(t, p.stages, w, q.stages)
  <2>1. PICK n : Advance(o, w, [proc[o] EXCEPT !.built = n])
    BY DEF Build
  <2>2. PICK r : r = [proc[o] EXCEPT !.built = n]
    OBVIOUS
  <2>3. r.mark = p.mark
    BY <1>1, <2>2 DEF Frame, Formed
  <2> QED
    BY <1>1, <1>2, <1>3, <2>1, <2>2, <2>3, CommandDone
<1>7. /\ t \in ServiceTargets /\ Staged(t, p.stages) /\ w \in DOMAIN p.stages[1]
      /\ Sorted(p.stages[1][w], 0, 7) /\ p.stages[1][w] # <<>> /\ p.stages[1][w][1].do = "build"
      /\ ServiceTarget(t)
  BY <1>1, <1>3, BusyWorker, AtItsService DEF AtService
<1>8. /\ Here(o)' = m /\ BuildsFirst(p) /\ (~t.push => p.built.n = 0)
      /\ \A d \in Deployments(t) : Knows(t, m, d, LeftFor(p, d), p.mark, p.built)'
  BY <1>1, <1>3, <1>4, <1>5, KnowsStill
<1>9. Has(p.stages[1][w], "build")
  BY <1>7, Popped
<1>10. t.all \in BOOLEAN /\ (t.all => t.push) /\ Deployments(t) \subseteq Ident
  BY <1>1, <1>3, <1>7, AtItsService DEF ServiceTargets
<1>11. /\ DOMAIN p.mark = {}
       /\ t.all => Len(p.stages) = 2
  <2>1. CASE t.all
    BY <1>3, <1>7, <1>8, <1>9, <2>1 DEF BuildsFirst, Staged
  <2>2. CASE ~t.all
    <3>1. w = "main"
      BY <1>7, <2>2 DEF Staged
    <3> QED
      BY <1>3, <1>8, <1>9, <2>2, <3>1 DEF BuildsFirst
  <2> QED
    BY <2>1, <2>2
<1>12. ASSUME NEW d \in Deployments(t)
       PROVE  ServiceOrder(t, d, LeftFor(q, d)) /\ Has(LeftFor(q, d), "tag") /\ t.push /\ d \in Ident
  <2>1. PICK cs : cs = p.stages[1][w]
    OBVIOUS
  <2>2. ServiceOrder(t, d, LeftFor(p, d)) /\ d \in Ident
    BY <1>8, <1>10 DEF Knows, ServiceOrder
  <2>3. CASE t.all
    <3>1. /\ p.stages[2] = [x \in DeploymentIdents |-> DeployCommands(t, x)]
          /\ d \in DeploymentIdents
      BY <1>7, <1>11, <2>3 DEF Staged, Deployments
    <3>2. Len(q.stages) = 2 /\ q.stages[2] = p.stages[2]
      BY <1>6, <1>11, <2>3 DEF Shorter
    <3>3. LeftFor(q, d) = DeployCommands(t, d)
      BY <1>6, <2>3, <3>1, <3>2 DEF LeftFor
    <3>4. DeployList(t, d, LeftFor(q, d))
      BY <1>7, <2>2, <3>3, DeployCommandsList
    <3>5. ServiceOrder(t, d, LeftFor(q, d))
      BY <1>7, <2>2, <3>4, ListIsInOrder
    <3> QED
      BY <1>10, <2>2, <2>3, <3>4, <3>5 DEF DeployList
  <2>4. CASE ~t.all
    <3>1. w = "main" /\ LeftFor(p, d) = cs /\ LeftFor(q, d) = Tail(cs)
      BY <1>3, <1>6, <1>7, <2>1, <2>4 DEF Staged, LeftFor, Shorter
    <3>2. ServiceOrder(t, d, Tail(cs)) /\ (Has(Tail(cs), "tag") <=> Has(cs, "tag"))
      <4>1. "tag" # cs[1].do
        BY <1>7, <2>1
      <4>2. Sorted(cs, 0, 7) /\ cs # <<>> /\ ServiceOrder(t, d, cs)
        BY <1>7, <2>1, <2>2, <3>1
      <4>3. /\ ServiceOrder(t, d, Tail(cs))
            /\ \A do : do # cs[1].do => (Has(Tail(cs), do) <=> Has(cs, do))
        BY <4>2, ServiceOrderPopped
      <4> QED
        BY <4>1, <4>3
    <3>3. Has(cs, "tag") /\ t.push
      BY <1>9, <2>1, <2>2, <3>1 DEF ServiceOrder
    <3> QED
      BY <2>2, <3>1, <3>2, <3>3
  <2> QED
    BY <1>10, <2>3, <2>4
<1>13. ASSUME NEW d \in Deployments(t)
       PROVE  Knows(t, m, d, LeftFor(q, d), q.mark, q.built)'
  <2>1. PICK cs : cs = LeftFor(q, d)
    OBVIOUS
  <2>2. ServiceOrder(t, d, cs) /\ Has(cs, "tag") /\ Has(cs, "push") /\ d \in Ident
    BY <1>12, <2>1 DEF ServiceOrder
  <2>3. Knows(t, m, d, cs, q.mark, q.built)'
    BY <2>2, KnowsFirst
  <2> QED
    BY <2>1, <2>3
<1>14. t.push
  <2>1. CASE t.all
    BY <1>10, <2>1
  <2>2. CASE ~t.all
    <3>1. t.d \in Deployments(t)
      BY <2>2 DEF Deployments
    <3> QED
      BY <1>12, <3>1
  <2> QED
    BY <2>1, <2>2
<1>15. MarksWell(q.mark, q.built)'
  BY <1>6, <1>11 DEF MarksWell
<1>16. BuildsFirst(q)
  BY <1>3, <1>6, <1>7, <1>8, BuildsFirstPopped
<1> QED
  BY <1>2, <1>6, <1>8, <1>13, <1>14, <1>15, <1>16 DEF ServiceKnows

(* So do a login and what loads the environment.                           *)
LEMMA ServicePrepares ==
    ASSUME Frame, Counted, NEW o \in Operator, NEW w \in Busy(o), AtService(o), ServiceKnows(o),
           Command(o, w).do \in {"load", "up", "login"}, Load(o, w) \/ Up(o, w) \/ Only(o, w),
           UNCHANGED svc
    PROVE  ServiceKnows(o)'
<1>1. PICK p : p = proc[o]
  OBVIOUS
<1>2. PICK q : q = proc'[o]
  OBVIOUS
<1>3. PICK t : t = p.at
  OBVIOUS
<1>4. PICK m : m = Here(o)
  OBVIOUS
<1>5. Drifts
  BY NothingDrifts DEF Only, Load, Up
<1>6. /\ q.at = t /\ q.mark = p.mark /\ q.built = p.built /\ Shorter(t, p.stages, w, q.stages)
  <2>1. PICK r : /\ r = proc[o] \/ \E x : r = [proc[o] EXCEPT !.url = x]
                 /\ Advance(o, w, r)
    BY DEF Only, Load, Up
  <2>2. r.mark = p.mark /\ r.built = p.built
    BY <1>1, <2>1 DEF Frame, Formed
  <2> QED
    BY <1>1, <1>2, <1>3, <2>1, <2>2, CommandDone
<1>7. /\ t \in ServiceTargets /\ Staged(t, p.stages) /\ w \in DOMAIN p.stages[1]
      /\ Sorted(p.stages[1][w], 0, 7) /\ p.stages[1][w] # <<>>
      /\ p.stages[1][w][1].do \in {"load", "up", "login"}
      /\ Deployments(t) \subseteq Ident
  BY <1>1, <1>3, BusyWorker, AtItsService
<1>8. /\ Here(o)' = m /\ BuildsFirst(p) /\ (~t.push => p.built.n = 0)
      /\ MarksWell(p.mark, p.built)'
      /\ \A d \in Deployments(t) : Knows(t, m, d, LeftFor(p, d), p.mark, p.built)'
  BY <1>1, <1>3, <1>4, <1>5, KnowsStill
<1>9. ASSUME NEW d \in Deployments(t)
      PROVE  Knows(t, m, d, LeftFor(q, d), p.mark, p.built)'
  <2>1. PICK cs : cs = p.stages[1][w]
    OBVIOUS
  <2>2. \/ LeftFor(q, d) = LeftFor(p, d)
        \/ LeftFor(p, d) = cs /\ LeftFor(q, d) = Tail(cs)
    BY <1>3, <1>6, <1>7, <2>1, LeftPopped
  <2>3. ASSUME LeftFor(p, d) = cs
        PROVE  Knows(t, m, d, Tail(cs), p.mark, p.built)'
    <3>1. Knows(t, m, d, cs, p.mark, p.built)'
      BY <1>8, <2>3
    <3>2. d \in Ident /\ Sorted(cs, 0, 7) /\ cs # <<>> /\ cs[1].do \in {"load", "up", "login"}
      BY <1>7, <2>1
    <3> QED
      BY <3>1, <3>2, KnowsPopped
  <2>4. CASE LeftFor(q, d) = LeftFor(p, d)
    <3>1. PICK cl : cl = LeftFor(p, d)
      OBVIOUS
    <3>2. Knows(t, m, d, cl, p.mark, p.built)'
      BY <1>8, <3>1
    <3> QED
      BY <2>4, <3>1, <3>2
  <2>5. CASE LeftFor(p, d) = cs /\ LeftFor(q, d) = Tail(cs)
    BY <2>3, <2>5
  <2> QED
    BY <2>2, <2>4, <2>5
<1>10. BuildsFirst(q)
  BY <1>3, <1>6, <1>7, <1>8, BuildsFirstPopped
<1> QED
  BY <1>2, <1>6, <1>8, <1>9, <1>10 DEF ServiceKnows

(* Whatever a process does, it leaves deployments that drift.              *)
LEMMA DriftsStep ==
    ASSUME Frame, Counted, OpsNext
    PROVE  Counted' /\ Drifts
<1>1. ASSUME UNCHANGED <<session, image, builds, svc>>,
             \A x \in Operator : proc'[x].built \in Images /\ proc'[x].built.n <= image[Here(x)].n
      PROVE  Counted' /\ Drifts
  <2>1. Drifts
    BY <1>1, NothingDrifts
  <2> QED
    BY <1>1, <2>1 DEF Counted, svc, Here
<1>2. ASSUME UNCHANGED <<session, image, builds, svc>>, NEW o \in Operator, Others(o),
             proc'[o].built \in {proc[o].built, NoImage}
      PROVE  Counted' /\ Drifts
  <2>1. NoImage \in Images /\ \A x \in Operator : NoImage.n <= image[Here(x)].n
    <3>1. \A x \in Operator : image[Here(x)] \in Images
      BY MachineOf DEF Counted
    <3> QED
      BY <3>1 DEF Images, NoImage
  <2>2. \A x \in Operator : proc'[x].built \in {proc[x].built, NoImage}
    BY <1>2 DEF Others
  <2> QED
    BY <1>1, <1>2, <2>1, <2>2 DEF Counted
<1>3. CASE External
  <2>1. ASSUME NEW d \in Ident, NEW t \in Task, Replace(d, t)
        PROVE  Counted' /\ Drifts
    BY <2>1, ReplaceDrifts
  <2>2. ASSUME NEW m \in Machine, Edit(m) \/ Starts(m), UNCHANGED <<svc, infra>>
        PROVE  Counted' /\ Drifts
    <3>1. UNCHANGED mage
      BY <2>2 DEF Edit, Starts
    <3> QED
      BY <1>1, <2>2, <3>1 DEF mage, Counted
  <2> QED
    BY <1>3, <2>1, <2>2 DEF External
<1>4. ASSUME NEW o \in Operator, Begin(o)
      PROVE  Counted' /\ Drifts
  <2>1. proc'[o].built = NoImage /\ Others(o) /\ UNCHANGED <<session, image, builds, svc>>
    BY <1>4, Begins
  <2> QED
    BY <1>2, <2>1
<1>5. ASSUME NEW o \in Operator, Finish(o) \/ End(o)
      PROVE  Counted' /\ Drifts
  <2>1. proc'[o].built = proc[o].built /\ Others(o) /\ UNCHANGED <<session, image, builds, svc>>
    BY <1>5, Finishes, EndLeaves DEF Same
  <2> QED
    BY <1>2, <2>1
<1>6. ASSUME NEW o \in Operator, Do(o)
      PROVE  Counted' /\ Drifts
  <2>1. PICK w \in Busy(o) :
        \/ Build(o, w) /\ UNCHANGED svc
        \/ (Only(o, w) \/ Load(o, w) \/ Up(o, w)) /\ UNCHANGED svc
        \/ ServiceCommand(o, w)
        \/ InfraCommand(o, w) /\ UNCHANGED svc
        \/ SchemaCommand(o, w) /\ UNCHANGED svc
    BY <1>6 DEF Do
  <2>2. CASE Build(o, w) /\ UNCHANGED svc
    BY <2>2, BuildCounts
  <2>3. CASE ServiceCommand(o, w)
    BY <2>3, CommandDrifts
  <2>4. CASE /\ \/ Only(o, w) \/ Load(o, w) \/ Up(o, w)
                \/ InfraCommand(o, w) \/ SchemaCommand(o, w)
             /\ UNCHANGED svc
    <3>1. Others(o) /\ proc'[o].built = proc[o].built
      BY <2>4, BuiltStays
    <3>2. UNCHANGED <<session, image, builds>>
      BY <2>4 DEF Only, Load, Up, InfraCommand, SchemaCommand
    <3> QED
      BY <1>2, <2>4, <3>1, <3>2
  <2> QED
    BY <2>1, <2>2, <2>3, <2>4
<1> QED
  BY <1>3, <1>4, <1>5, <1>6 DEF OpsNext

(* So does a stage that is finished: before the second nothing has been    *)
(* pushed.                                                                 *)
LEMMA ServiceFinishes ==
    ASSUME Frame, Counted, Drifts, NEW o \in Operator, ServiceKnows(o), Finish(o)
    PROVE  ServiceKnows(o)'
<1>1. PICK p : p = proc[o]
  OBVIOUS
<1>2. PICK q : q = proc'[o]
  OBVIOUS
<1>3. PICK t : t = p.at
  OBVIOUS
<1>4. PICK m : m = Here(o)
  OBVIOUS
<1>5. /\ q.at = t /\ q.mark = p.mark /\ q.built = p.built
      /\ p.status = "running" /\ p.stages # <<>>
      /\ \/ q.stages = <<>>
         \/ Len(p.stages) = 2 /\ Len(q.stages) = 1 /\ q.stages[1] = p.stages[2]
  BY <1>1, <1>2, <1>3, Finishes DEF Same
<1> SUFFICES ASSUME ServiceTarget(t), q.stages # <<>>
             PROVE  ServiceKnows(o)'
  BY <1>2, <1>5 DEF ServiceKnows, AtService
<1>6. AtService(o)
  BY <1>1, <1>3, <1>5 DEF AtService
<1>7. t \in ServiceTargets /\ Staged(t, p.stages) /\ Deployments(t) \subseteq Ident
  BY <1>1, <1>3, <1>6, AtItsService
<1>8. /\ Here(o)' = m /\ (~t.push => p.built.n = 0) /\ MarksWell(p.mark, p.built)'
      /\ \A d \in Deployments(t) : Knows(t, m, d, LeftFor(p, d), p.mark, p.built)'
  BY <1>1, <1>3, <1>4, <1>6, KnowsStill
<1>9. /\ Len(p.stages) = 2 /\ Len(q.stages) = 1 /\ q.stages[1] = p.stages[2]
  BY <1>5
<1>10. t.all /\ p.stages[2] = [d \in DeploymentIdents |-> DeployCommands(t, d)]
  <2>1. Len(p.stages) # 1
    BY <1>9
  <2> QED
    BY <1>7, <2>1 DEF Staged
<1>11. \A d \in Deployments(t) : LeftFor(q, d) = LeftFor(p, d)
  BY <1>3, <1>5, <1>9, <1>10 DEF LeftFor
<1>12. ASSUME NEW d \in Deployments(t)
       PROVE  Knows(t, m, d, LeftFor(q, d), p.mark, p.built)'
  <2>1. PICK cs : cs = LeftFor(p, d)
    OBVIOUS
  <2>2. Knows(t, m, d, cs, p.mark, p.built)'
    BY <1>8, <2>1
  <2>3. LeftFor(q, d) = cs
    BY <1>11, <2>1
  <2> QED
    BY <2>2, <2>3
<1>13. BuildsFirst(q)
  <2>1. \A d \in DOMAIN q.stages[1] : ~Has(q.stages[1][d], "build")
    <3>1. ASSUME NEW d \in DeploymentIdents
          PROVE  ~Has(DeployCommands(t, d), "build")
      <4>1. d \in Ident
        BY ServiceDeployAssumption
      <4> QED
        BY <1>7, <4>1, DeployCommandsList
    <3> QED
      BY <1>9, <1>10, <3>1
  <2>2. q.at.all /\ Len(q.stages) = 1 /\ Len(q.stages) # 2
    BY <1>5, <1>9, <1>10
  <2> QED
    BY <2>1, <2>2 DEF BuildsFirst
<1> QED
  BY <1>2, <1>5, <1>8, <1>12, <1>13 DEF ServiceKnows

(* Every step keeps what every process knows.                              *)
LEMMA ServiceKnowsStep ==
    ASSUME Frame, Counted, OpsNext, \A o \in Operator : ServiceKnows(o)
    PROVE  \A o \in Operator : ServiceKnows(o)'
<1>1. Drifts
  BY DriftsStep
<1>2. ASSUME NEW x \in Operator, proc'[x] = proc[x]
      PROVE  ServiceKnows(x)'
  BY <1>1, <1>2, ServiceKnowsDrifts
<1>3. ASSUME NEW o \in Operator, Others(o), ServiceKnows(o)'
      PROVE  \A x \in Operator : ServiceKnows(x)'
  BY <1>2, <1>3 DEF Others
<1>4. CASE External
  <2>1. UNCHANGED proc
    BY <1>4 DEF External, Replace, Edit, Starts, mage
  <2> QED
    BY <1>2, <2>1
<1>5. ASSUME NEW o \in Operator, Begin(o)
      PROVE  \A x \in Operator : ServiceKnows(x)'
  <2>1. Others(o)
    BY <1>5, Begins
  <2> QED
    BY <1>3, <1>5, <2>1, ServiceBegins
<1>6. ASSUME NEW o \in Operator, Finish(o)
      PROVE  \A x \in Operator : ServiceKnows(x)'
  <2>1. Others(o)
    BY <1>6, Finishes
  <2> QED
    BY <1>1, <1>3, <1>6, <2>1, ServiceFinishes
<1>7. ASSUME NEW o \in Operator, End(o)
      PROVE  \A x \in Operator : ServiceKnows(x)'
  <2>1. Others(o) /\ proc'[o].status # "running"
    BY <1>7, EndLeaves
  <2>2. ServiceKnows(o)'
    BY <2>1 DEF ServiceKnows, AtService
  <2> QED
    BY <1>3, <2>1, <2>2
<1>8. ASSUME NEW o \in Operator, Do(o)
      PROVE  \A x \in Operator : ServiceKnows(x)'
  <2>1. PICK w \in Busy(o) :
        \/ Command(o, w).do = "load" /\ Load(o, w) /\ UNCHANGED svc
        \/ Command(o, w).do = "build" /\ Build(o, w) /\ UNCHANGED svc
        \/ Command(o, w).do = "up" /\ Up(o, w) /\ UNCHANGED svc
        \/ Command(o, w).do = "login" /\ Only(o, w) /\ UNCHANGED svc
        \/ ServiceTarget(proc[o].at) /\ "d" \in DOMAIN Command(o, w) /\ ServiceCommand(o, w)
        \/ InfraTarget(proc[o].at) /\ InfraCommand(o, w) /\ UNCHANGED svc
        \/ /\ ~ServiceTarget(proc[o].at) /\ ~InfraTarget(proc[o].at)
           /\ SchemaCommand(o, w) /\ UNCHANGED svc
    BY <1>8 DEF Do
  <2>2. UNCHANGED proc \/ (Others(o) /\ proc'[o].at = proc[o].at /\ proc'[o].status = proc[o].status)
    <3>1. UNCHANGED proc \/ \E p : Formed(p) /\ Same(proc[o], p, Settings) /\ Advance(o, w, p)
      <4>1. Performs(o, w)
        BY <2>1 DEF Performs
      <4> QED
        BY <4>1, CommandSets
    <3>2. ASSUME NEW p, Formed(p), Same(proc[o], p, Settings), Advance(o, w, p)
          PROVE  Others(o) /\ proc'[o].at = proc[o].at /\ proc'[o].status = proc[o].status
      <4>1. Popping(o, w, p)
        BY <3>2, Pops DEF Same, Settings
      <4> QED
        BY <3>2, <4>1 DEF Popping, Same, Settings
    <3> QED
      BY <3>1, <3>2
  <2>3. proc[o].stages # <<>> /\ ServiceKnows(o)
    BY BusyWorker
  <2>4. CASE UNCHANGED proc
    BY <1>2, <2>4
  <2>5. CASE ~AtService(o) /\ Others(o) /\ proc'[o].at = proc[o].at /\ proc'[o].status = proc[o].status
    <3>1. ServiceKnows(o)'
      BY <2>3, <2>5 DEF ServiceKnows, AtService
    <3> QED
      BY <1>3, <2>5, <3>1
  <2>6. CASE AtService(o) /\ Others(o)
    <3>1. ServiceTarget(proc[o].at) /\ ~InfraTarget(proc[o].at)
      BY <2>6 DEF AtService, ServiceTarget, InfraTarget
    <3>2. ServiceKnows(o)'
      BY <1>1, <2>1, <2>3, <2>6, <3>1, ServiceBuilds, ServicePrepares, ServiceCommandKnows
    <3> QED
      BY <1>3, <2>6, <3>2
  <2> QED
    BY <2>2, <2>4, <2>5, <2>6
<1> QED
  BY <1>4, <1>5, <1>6, <1>7, <1>8 DEF OpsNext

(* What a target has reported of a deployment.                             *)
AsReported(r) ==
    r.kind = "service" =>
        /\ r.d \in Ident /\ r.from \in 1 .. Len(pushed[r.d])
        /\ pushed[r.d][r.from].n >= r.built.n
        /\ r.service => Runs(r.d, r.from)
        /\ r.lambdas => \A l \in Lambdas[r.d] : Calls(r.d, r.from, l)

(* All that has been reported is true.                                     *)
ServicesReported == \A r \in reports : AsReported(r)

(* Reports remain true.                                                    *)
LEMMA AsReportedDrifts ==
    ASSUME Counted, Drifts, NEW r, AsReported(r)
    PROVE  AsReported(r)'
<1> SUFFICES ASSUME r.kind = "service"
             PROVE  AsReported(r)'
  BY DEF AsReported
<1>1. PICK d : d = r.d
  OBVIOUS
<1>2. PICK from : from = r.from
  OBVIOUS
<1>3. /\ d \in Ident /\ from \in 1 .. Len(pushed[d])
      /\ pushed[d][from].n >= r.built.n
      /\ r.service => Runs(d, from)
      /\ r.lambdas => \A l \in Lambdas[d] : Calls(d, from, l)
  BY <1>1, <1>2 DEF AsReported
<1>4. /\ from \in 1 .. Len(pushed'[d]) /\ pushed'[d][from] = pushed[d][from]
  BY <1>3, PushedSince
<1>5. /\ r.service => Runs(d, from)'
      /\ r.lambdas => \A l \in Lambdas[d] : Calls(d, from, l)'
  BY <1>3, DeploymentDrifts
<1> QED
  BY <1>1, <1>2, <1>3, <1>4, <1>5 DEF AsReported

(* What a finished target reports is true.                                 *)
LEMMA ServiceReports ==
    ASSUME Frame, Counted, NEW o \in Operator, ServiceKnows(o), Finish(o),
           Len(proc[o].stages) = 1, NEW r \in Report(o)
    PROVE  AsReported(r)
<1> SUFFICES ASSUME r.kind = "service"
             PROVE  AsReported(r)
  BY DEF AsReported
<1>1. PICK p : p = proc[o]
  OBVIOUS
<1>2. PICK t : t = p.at
  OBVIOUS
<1>3. /\ p.status = "running" /\ p.stages # <<>> /\ t \in Target
      /\ \A w \in DOMAIN p.stages[1] : p.stages[1][w] = <<>>
  BY <1>1, <1>2, Finishes
<1>4. ServiceTarget(t) /\ r \in ServiceReport(o)
  BY <1>1, <1>2 DEF Report, InfraReport
<1>5. PICK d \in Deployments(t) :
        r = [kind |-> "service", d |-> d, from |-> p.mark[d], built |-> p.built,
             service |-> t.service, lambdas |-> t.lambdas]
  BY <1>1, <1>2, <1>4 DEF ServiceReport, Deployments
<1>6. AtService(o)
  BY <1>1, <1>2, <1>3, <1>4 DEF AtService
<1>7. /\ t \in ServiceTargets /\ Staged(t, p.stages) /\ d \in Ident
  BY <1>1, <1>2, <1>5, <1>6, AtItsService
<1>8. /\ MarksWell(p.mark, p.built)
      /\ Knows(t, Here(o), d, LeftFor(p, d), p.mark, p.built)
  BY <1>1, <1>2, <1>5, <1>6 DEF ServiceKnows
<1>9. LeftFor(p, d) = <<>>
  <2>1. CASE t.all
    <3>1. DOMAIN p.stages[1] = DeploymentIdents /\ d \in DeploymentIdents
      <4>1. Len(p.stages) # 2
        BY <1>1
      <4> QED
        BY <1>4, <1>5, <1>7, <2>1, <4>1 DEF Staged, Deployments
    <3>2. LeftFor(p, d) = p.stages[1][d]
      BY <1>1, <1>2, <2>1 DEF LeftFor
    <3> QED
      BY <1>3, <3>1, <3>2
  <2>2. CASE ~t.all
    <3>1. DOMAIN p.stages[1] = {"main"}
      BY <1>7, <2>2 DEF Staged
    <3> QED
      BY <1>2, <1>3, <2>2, <3>1 DEF LeftFor
  <2> QED
    BY <2>1, <2>2
<1>10. /\ \A do : ~Has(<<>>, do)
       /\ \A l : ~Updates(<<>>, l)
  BY NoCommands DEF Updates
<1>11. t.push \/ t.service \/ t.lambdas
  BY <1>7 DEF ServiceTargets
<1>12. /\ d \in DOMAIN p.mark
       /\ t.service => Runs(d, p.mark[d])
       /\ t.lambdas => \A l \in Lambdas[d] : Calls(d, p.mark[d], l)
  BY <1>8, <1>9, <1>10, <1>11 DEF Knows
<1>13. p.mark[d] \in 1 .. Len(pushed[d]) /\ pushed[d][p.mark[d]].n >= p.built.n
  BY <1>8, <1>12 DEF MarksWell
<1>14. /\ r.d = d /\ r.from = p.mark[d] /\ r.built = p.built
       /\ r.service = t.service /\ r.lambdas = t.lambdas
  BY <1>5
<1> QED
  BY <1>7, <1>12, <1>13, <1>14 DEF AsReported

(* ServicesReported is an invariant.                                       *)
LEMMA ServicesReportedStep ==
    ASSUME Frame, Counted, \A o \in Operator : ServiceKnows(o), ServicesReported, OpsNext
    PROVE  ServicesReported'
<1>1. Drifts
  BY DriftsStep
<1>2. ASSUME NEW r, AsReported(r)
      PROVE  AsReported(r)'
  BY <1>1, <1>2, AsReportedDrifts
<1>3. UNCHANGED reports \/ \E o \in Operator :
        Finish(o) /\ Len(proc[o].stages) = 1 /\ reports' = reports \cup Report(o)
  <2>1. External => UNCHANGED reports
    BY DEF External, Replace, Edit, Starts, mage
  <2>2. ASSUME NEW o \in Operator, Do(o)
        PROVE  UNCHANGED reports
    BY <2>2 DEF Do, Build, Only, Load, Up, ServiceCommand, InfraCommand, SchemaCommand
  <2>3. \A o \in Operator : Begin(o) \/ End(o) => UNCHANGED reports
    BY DEF Begin, BeginTarget, End, Fail, Exit
  <2>4. \A o \in Operator : Finish(o) => UNCHANGED reports
            \/ (Len(proc[o].stages) = 1 /\ reports' = reports \cup Report(o))
    BY DEF Finish, FinishStage
  <2> QED
    BY <2>1, <2>2, <2>3, <2>4 DEF OpsNext
<1>4. ASSUME NEW r \in reports'
      PROVE  AsReported(r)'
  <2>1. r \in reports \/ \E o \in Operator : Finish(o) /\ Len(proc[o].stages) = 1 /\ r \in Report(o)
    BY <1>3, <1>4
  <2>2. AsReported(r)
    BY <2>1, ServiceReports DEF ServicesReported
  <2> QED
    BY <1>2, <2>2
<1> QED
  BY <1>4 DEF ServicesReported

(* Counted holds at first.                                                 *)
LEMMA CountedBegins == OpsInit => Counted
<1> SUFFICES ASSUME OpsInit
             PROVE  Counted
  OBVIOUS
<1>1. NoImage \in Images /\ NoImage.n = 0 /\ <<NoImage>> \in Seq(Images) /\ Len(<<NoImage>>) = 1
  BY DEF NoImage, Images
<1>2. /\ builds = 0 /\ image = [m \in Machine |-> NoImage]
      /\ \A o \in Operator : proc[o].built = NoImage /\ Here(o) \in Machine
  <2>1. session \in Session /\ \A o \in Operator : proc[o] = NewProcess(o)
    BY DEF OpsInit, MageInit
  <2> QED
    BY <2>1, MageAssumption DEF OpsInit, MageInit, NewProcess, Here
<1>3. \A d \in Ident : service[d] \in [tasks : [Task -> Images], old : SUBSET Task, ordered : Images]
  BY <1>1 DEF OpsInit, ServiceInit
<1>4. service \in [Ident -> [tasks : [Task -> Images], old : SUBSET Task, ordered : Images]]
  BY <1>3 DEF OpsInit, ServiceInit
<1>5. functions = [d \in Ident |-> [l \in Lambdas[d] |-> functions[d][l]]]
  <2>1. functions = [d \in Ident |-> [l \in Lambdas[d] |-> NoImage]]
    BY DEF OpsInit, ServiceInit
  <2>2. \A d \in Ident : functions[d] = [l \in Lambdas[d] |-> functions[d][l]]
    BY <2>1
  <2> QED
    BY <2>1, <2>2
<1>6. /\ local \in [Machine -> [Ident -> Images]]
      /\ pushed \in [Ident -> Seq(Images)] /\ \A d \in Ident : Len(pushed[d]) >= 1
  BY <1>1 DEF OpsInit, ServiceInit
<1> QED
  BY <1>1, <1>2, <1>4, <1>5, <1>6 DEF Counted

(* A service deploy that has succeeded left its tasks and functions with   *)
(* what it had pushed or what was pushed later, and pushed what it had     *)
(* built or what was built later (service.go:171, service.go:205,          *)
(* service.go:234), for any number of processes, on machines of their own  *)
(* or on one.                                                              *)
THEOREM TargetsRunWhatTheyDeployed == OpsSpec => []RunsWhatWasDeployed
<1> DEFINE Inv == /\ Frame /\ Counted /\ \A o \in Operator : ServiceKnows(o)
                  /\ ServicesReported
<1>1. OpsInit => Inv
  <2>1. OpsInit => /\ \A o \in Operator : ServiceKnows(o)
                   /\ ServicesReported
    BY DEF OpsInit, MageInit, NewProcess, ServiceKnows, AtService, ServicesReported
  <2> QED
    BY <2>1, FrameBegins, CountedBegins
<1>2. Inv /\ [OpsNext]_ops => Inv'
  <2> SUFFICES ASSUME Inv, [OpsNext]_ops
               PROVE  Inv'
    OBVIOUS
  <2>1. CASE OpsNext
    BY <2>1, FrameStep, DriftsStep, ServiceKnowsStep, ServicesReportedStep
  <2>2. CASE UNCHANGED ops
    <3>1. UNCHANGED <<session, proc, image, builds, reports, svc>>
      BY <2>2 DEF ops, mage
    <3>2. Counted'
      BY <3>1 DEF Counted, svc, Here
    <3>3. Drifts /\ Frame'
      BY <3>1, NothingDrifts, FrameStep
    <3>4. \A o \in Operator : ServiceKnows(o)'
      BY <3>1, <3>3, ServiceKnowsDrifts
    <3>5. ServicesReported'
      BY <3>1, <3>3, AsReportedDrifts DEF ServicesReported
    <3> QED
      BY <3>2, <3>3, <3>4, <3>5
  <2> QED
    BY <2>1, <2>2
<1>3. Inv => RunsWhatWasDeployed
  <2> SUFFICES ASSUME Inv, NEW r \in reports, r.kind = "service"
               PROVE  LET since == {pushed[r.d][i] : i \in r.from .. Len(pushed[r.d])}
                      IN  /\ r.service => {service[r.d].tasks[t] : t \in Task} \subseteq since
                          /\ r.lambdas => {functions[r.d][l] : l \in Lambdas[r.d]} \subseteq since
                          /\ pushed[r.d][r.from].n >= r.built.n
    BY DEF RunsWhatWasDeployed
  <2>1. AsReported(r)
    BY DEF ServicesReported
  <2> QED
    BY <2>1 DEF AsReported, Runs, Calls, Since
<1> QED
  BY <1>1, <1>2, <1>3, PTL DEF OpsSpec
-----------------------------------------------------------------------------
(* What the targets that migrate have to do.                               *)
SchemaDos(t) ==
    CASE t.target = "iterate" ->
            {"remove", "load", "hash", "diff", "patch", "restart", "apply", "pg_dump"}
      [] t.target = "snapshot" -> {"load", "restart", "apply", "pg_dump"}
      [] t.target = "diff" -> {"load", "diff"}
      [] t.target = "apply" -> {"load", "apply"}

(* Targets that make a snapshot.                                           *)
Snapshots(t) == t.target \in {"iterate", "snapshot"}

(* A container is restarted after migrations are written, and migrated     *)
(* after it is.                                                            *)
SchemaOrder(t, cs) ==
    /\ \A do : Has(cs, do) => do \in SchemaDos(t)
    /\ Snapshots(t) =>
        /\ \A do \in {"remove", "diff", "patch"} : Has(cs, do) => Has(cs, "restart")
        /\ Has(cs, "restart") => Has(cs, "apply")

(* The lists are in SchemaOrder; where a snapshot is made, a container is  *)
(* restarted.                                                              *)
LEMMA SchemaListOrder ==
    ASSUME NEW t \in SchemaTargets, NEW m
    PROVE  LET cs == SchemaStages(t, m)[1]["main"]
           IN  SchemaOrder(t, cs) /\ (Snapshots(t) => Has(cs, "restart"))
<1>1. PICK cs : cs = CASE t.target = "iterate" -> IterateCommands(m, t.name)
            [] t.target = "diff" -> DiffCommands(t.name)
            [] t.target = "snapshot" -> SnapshotCommands(t.tool)
            [] t.target = "apply" -> ApplyCommands(t.tool, t.to)
  OBVIOUS
<1>2. SchemaStages(t, m)[1]["main"] = cs
  BY <1>1 DEF SchemaStages, One
<1>3. CASE t.target = "iterate"
  <2>1. t.name \in STRING /\ cs = IterateCommands(m, t.name)
    BY <1>1, <1>3 DEF SchemaTargets
  <2>2. PICK dos : /\ Steps(cs, 0, 7, "dev", dos)
                   /\ {"diff", "patch", "restart", "apply", "pg_dump"} \subseteq dos
                   /\ dos \subseteq {"remove", "load", "hash", "diff", "patch", "restart", "apply",
                                     "pg_dump"}
    BY <2>1, IterateList
  <2> QED
    BY <1>2, <1>3, <2>2 DEF Steps, SchemaOrder, SchemaDos
<1>4. CASE t.target = "diff"
  <2>1. t.name \in STRING /\ cs = DiffCommands(t.name)
    BY <1>1, <1>4 DEF SchemaTargets
  <2>2. Steps(cs, 2, 2, "dev", {"load", "diff"})
    BY <2>1, DiffList
  <2> QED
    BY <1>2, <1>4, <2>2 DEF Steps, SchemaOrder, SchemaDos, Snapshots
<1>5. CASE t.target = "snapshot"
  <2>1. t.tool \in {"atlas", "goose"} /\ cs = SnapshotCommands(t.tool)
    BY <1>1, <1>5 DEF SchemaTargets
  <2>2. Steps(cs, 4, 7, "dev", {"load", "restart", "apply", "pg_dump"})
    BY <2>1, SnapshotList
  <2> QED
    BY <1>2, <1>5, <2>2 DEF Steps, SchemaOrder, SchemaDos
<1>6. CASE t.target = "apply"
  <2>1. t.tool \in {"atlas", "goose"} /\ t.to \in {"dev"} \cup Shared /\ cs = ApplyCommands(t.tool, t.to)
    BY <1>1, <1>6 DEF SchemaTargets
  <2>2. Steps(cs, 5, 5, t.to, {"load", "apply"})
    BY <2>1, ApplyList
  <2> QED
    BY <1>2, <1>6, <2>2 DEF Steps, SchemaOrder, SchemaDos, Snapshots
<1>7. t.target \in {"iterate", "diff", "snapshot", "apply"}
  BY DEF SchemaTargets
<1> QED
  BY <1>3, <1>4, <1>5, <1>6, <1>7

(* SchemaOrder is kept as commands are done.                               *)
LEMMA SchemaOrderPopped ==
    ASSUME NEW t, NEW cs, Sorted(cs, 0, 7), cs # <<>>, SchemaOrder(t, cs)
    PROVE  /\ SchemaOrder(t, Tail(cs)) /\ cs[1].do \in SchemaDos(t)
           /\ \A do : do # cs[1].do => (Has(Tail(cs), do) <=> Has(cs, do))
           /\ cs[1].do # "load" => \A do : Rank(do) < Rank(cs[1].do) /\ do # "load" => ~Has(cs, do)
<1>1. \A do : Has(cs, do) <=> cs[1].do = do \/ Has(Tail(cs), do)
  BY Popped
<1>2. cs[1].do # "load" => \A do : Rank(do) < Rank(cs[1].do) /\ do # "load" => ~Has(cs, do)
  BY InOrderPopped
<1>3. /\ Rank("remove") = 0 /\ Rank("diff") = 2 /\ Rank("patch") = 3 /\ Rank("restart") = 4
      /\ Rank("apply") = 5
  BY DEF Rank
<1>4. cs[1].do \in SchemaDos(t) /\ \A do : Has(Tail(cs), do) => do \in SchemaDos(t)
  BY <1>1 DEF SchemaOrder
<1>5. ASSUME Snapshots(t), NEW do \in {"remove", "diff", "patch"}, Has(Tail(cs), do)
      PROVE  Has(Tail(cs), "restart")
  BY <1>1, <1>2, <1>3, <1>5 DEF SchemaOrder
<1>6. ASSUME Snapshots(t), Has(Tail(cs), "restart")
      PROVE  Has(Tail(cs), "apply")
  BY <1>1, <1>2, <1>3, <1>6 DEF SchemaOrder
<1>7. SchemaOrder(t, Tail(cs))
  BY <1>4, <1>5, <1>6 DEF SchemaOrder
<1> QED
  BY <1>1, <1>2, <1>4, <1>7

(* What is left to do is in order.                                         *)
SchemaOrdered ==
    \A o \in Operator : proc[o].stages # <<>> /\ proc[o].at \in SchemaTargets =>
        SchemaOrder(proc[o].at, proc[o].stages[1]["main"])

(* Every step keeps SchemaOrdered.                                         *)
LEMMA SchemaOrderedStep ==
    ASSUME Frame, SchemaOrdered, [OpsNext]_ops
    PROVE  SchemaOrdered'
<1>1. ASSUME UNCHANGED proc
      PROVE  SchemaOrdered'
  BY <1>1 DEF SchemaOrdered, SchemaOrder
<1>2. CASE External
  BY <1>1, <1>2 DEF External, Replace, Edit, Starts, mage
<1>3. ASSUME NEW o \in Operator, Others(o), NEW q, q = proc'[o],
             q.stages # <<>> /\ q.at \in SchemaTargets => SchemaOrder(q.at, q.stages[1]["main"])
      PROVE  SchemaOrdered'
  BY <1>3 DEF SchemaOrdered, Others
<1>4. ASSUME NEW o \in Operator, Begin(o)
      PROVE  SchemaOrdered'
  <2>1. PICK q : q = proc'[o]
    OBVIOUS
  <2>2. q.at \in Target /\ Others(o) /\ q.stages = Stages(q.at, o)
    BY <1>4, <2>1, Begins
  <2>3. ASSUME q.at \in SchemaTargets
        PROVE  SchemaOrder(q.at, q.stages[1]["main"])
    <3>1. Stages(q.at, o) = SchemaStages(q.at, Here(o))
      BY <2>2, <2>3, TargetKinds DEF Stages
    <3> QED
      BY <2>2, <2>3, <3>1, SchemaListOrder
  <2> QED
    BY <1>3, <2>1, <2>2, <2>3
<1>5. ASSUME NEW o \in Operator, Do(o)
      PROVE  SchemaOrdered'
  <2>1. PICK w \in Busy(o) : Performs(o, w)
    BY <1>5 DEF Do, Performs
  <2>2. UNCHANGED proc \/ \E p : Formed(p) /\ Same(proc[o], p, Settings) /\ Advance(o, w, p)
    BY <2>1, CommandSets
  <2>3. ASSUME NEW p, Formed(p), Same(proc[o], p, Settings), Advance(o, w, p)
        PROVE  SchemaOrdered'
    <3>1. PICK q : q = proc'[o]
      OBVIOUS
    <3>2. Popping(o, w, p)
      BY <2>3, Pops DEF Same, Settings
    <3>3. Others(o) /\ q.at = proc[o].at /\ Shorter(proc[o].at, proc[o].stages, w, q.stages)
      BY <2>3, <3>1, <3>2 DEF Popping, Same, Settings
    <3>4. ASSUME q.at \in SchemaTargets
          PROVE  SchemaOrder(q.at, q.stages[1]["main"])
      <4>1. PICK cs : cs = proc[o].stages[1]["main"]
        OBVIOUS
      <4>2. w = "main" /\ Sorted(cs, 0, 7) /\ cs # <<>> /\ proc[o].stages # <<>>
        BY <3>3, <3>4, <4>1, SchemaWorker, BusyWorker
      <4>3. SchemaOrder(q.at, cs)
        BY <3>3, <3>4, <4>1, <4>2 DEF SchemaOrdered
      <4>4. SchemaOrder(q.at, Tail(cs))
        BY <4>2, <4>3, SchemaOrderPopped
      <4>5. q.stages[1]["main"] = Tail(cs)
        BY <3>3, <4>1, <4>2 DEF Shorter
      <4> QED
        BY <4>4, <4>5
    <3> QED
      BY <1>3, <3>1, <3>3, <3>4
  <2> QED
    BY <1>1, <2>2, <2>3
<1>6. ASSUME NEW o \in Operator, Finish(o)
      PROVE  SchemaOrdered'
  <2>1. /\ Others(o) /\ proc'[o].at = proc[o].at /\ proc[o].stages # <<>>
        /\ proc'[o].stages = <<>> \/ Len(proc[o].stages) = 2
    BY <1>6, Finishes DEF Same
  <2>2. Staged(proc[o].at, proc[o].stages)
    BY <2>1, AskedTargets
  <2>3. proc[o].at \in SchemaTargets => Len(proc[o].stages) = 1
    BY <2>2, SchemaAlone
  <2>4. proc[o].at \in SchemaTargets => proc'[o].stages = <<>>
    BY <2>1, <2>3
  <2> QED
    BY <1>3, <2>1, <2>4
<1>7. ASSUME NEW o \in Operator, End(o)
      PROVE  SchemaOrdered'
  <2>1. PICK q : q = proc'[o]
    OBVIOUS
  <2>2. /\ Others(o) /\ q.at = proc[o].at
        /\ q.stages # <<>> =>
            /\ proc[o].stages # <<>> /\ Staged(proc[o].at, q.stages)
            /\ \A x \in DOMAIN q.stages[1] : q.stages[1][x] \in {<<>>, proc[o].stages[1][x]}
    BY <1>7, <2>1, EndLeaves DEF Same
  <2>3. ASSUME q.stages # <<>>, q.at \in SchemaTargets
        PROVE  SchemaOrder(q.at, q.stages[1]["main"])
    <3>1. DOMAIN q.stages[1] = {"main"}
      BY <2>2, <2>3, SchemaAlone
    <3>2. SchemaOrder(q.at, proc[o].stages[1]["main"])
      BY <2>2, <2>3 DEF SchemaOrdered
    <3>3. SchemaOrder(q.at, <<>>)
      BY NoCommands DEF SchemaOrder
    <3> QED
      BY <2>2, <2>3, <3>1, <3>2, <3>3
  <2> QED
    BY <1>3, <2>1, <2>2, <2>3
<1> QED
  BY <1>1, <1>2, <1>4, <1>5, <1>6, <1>7 DEF OpsNext, ops, mage
-----------------------------------------------------------------------------
(* A migration.                                                            *)
File == [name : STRING, version : Nat, patched : BOOLEAN, adds : SUBSET Change, drops : SUBSET Change]

(* What one more migration makes of the schema of those before it.         *)
LEMMA SchemaAppended ==
    ASSUME NEW fs \in Seq(File), NEW f \in File
    PROVE  SchemaOf(Append(fs, f)) = (SchemaOf(fs) \ f.drops) \cup f.adds
<1>1. PICK gs : gs = Append(fs, f)
  OBVIOUS
<1>2. PICK n : n = Len(fs)
  OBVIOUS
<1>3. /\ n \in Nat /\ Len(gs) = n + 1 /\ DOMAIN gs = 1 .. n + 1 /\ DOMAIN fs = 1 .. n
      /\ gs[n + 1] = f /\ \A i \in 1 .. n : gs[i] = fs[i]
  BY <1>1, <1>2
<1>4. f.adds \subseteq Change
  BY DEF File
<1>5. ASSUME NEW x \in SchemaOf(gs)
      PROVE  x \in (SchemaOf(fs) \ f.drops) \cup f.adds
  <2>1. PICK i \in DOMAIN gs : x \in gs[i].adds /\ \A j \in i + 1 .. Len(gs) : x \notin gs[j].drops
    BY DEF SchemaOf
  <2>2. CASE i = n + 1
    BY <1>3, <2>1, <2>2
  <2>3. CASE i \in 1 .. n
    <3>1. x \notin gs[n + 1].drops
      BY <1>3, <2>1, <2>3
    <3>2. x \in fs[i].adds /\ \A j \in i + 1 .. Len(fs) : x \notin fs[j].drops
      <4>1. \A j \in i + 1 .. n : j \in 1 .. n /\ j \in i + 1 .. Len(gs)
        BY <1>3, <2>3
      <4> QED
        BY <1>2, <1>3, <2>1, <2>3, <4>1
    <3> QED
      BY <1>3, <2>3, <3>1, <3>2 DEF SchemaOf
  <2> QED
    BY <1>3, <2>1, <2>2, <2>3
<1>6. ASSUME NEW x \in (SchemaOf(fs) \ f.drops) \cup f.adds
      PROVE  x \in SchemaOf(gs)
  <2>1. CASE x \in f.adds
    <3>1. n + 1 \in DOMAIN gs /\ x \in gs[n + 1].adds /\ \A j \in (n + 1) + 1 .. Len(gs) : FALSE
      BY <1>3, <2>1
    <3> QED
      BY <1>4, <2>1, <3>1 DEF SchemaOf
  <2>2. CASE x \in SchemaOf(fs) /\ x \notin f.drops
    <3>1. PICK i \in DOMAIN fs : x \in fs[i].adds /\ \A j \in i + 1 .. Len(fs) : x \notin fs[j].drops
      BY <2>2 DEF SchemaOf
    <3>2. i \in DOMAIN gs /\ x \in gs[i].adds
      BY <1>3, <3>1
    <3>3. ASSUME NEW j \in i + 1 .. Len(gs)
          PROVE  x \notin gs[j].drops
      <4>1. CASE j = n + 1
        BY <1>3, <2>2, <4>1
      <4>2. CASE j # n + 1
        <5>1. j \in i + 1 .. n /\ j \in 1 .. n
          BY <1>3, <3>1, <4>2
        <5> QED
          BY <1>2, <1>3, <3>1, <5>1
      <4> QED
        BY <4>1, <4>2
    <3> QED
      BY <2>2, <3>2, <3>3 DEF SchemaOf
  <2> QED
    BY <2>1, <2>2
<1> QED
  BY <1>1, <1>5, <1>6

(* No migrations make nothing.                                             *)
LEMMA NoSchema == SchemaOf(<<>>) = {}
<1>1. DOMAIN <<>> = {}
  OBVIOUS
<1> QED
  BY <1>1 DEF SchemaOf

(* Migrations are numbered as they are written.                            *)
Numbered(fs, n) ==
    /\ \A i \in DOMAIN fs : fs[i].version <= n
    /\ \A i, j \in DOMAIN fs : i < j => fs[i].version < fs[j].version

(* The first of some migrations have been applied, and make the schema.    *)
UpTo(db, fs) ==
    /\ db.applied \in Seq(File) /\ Len(db.applied) <= Len(fs)
    /\ \A i \in DOMAIN db.applied : db.applied[i] = fs[i]
    /\ db.schema = SchemaOf(db.applied)

(* Migrations that are pending come after those that have been applied.    *)
LEMMA PendingIsRest ==
    ASSUME NEW fs \in Seq(File), NEW n, Numbered(fs, n), NEW db, UpTo(db, fs)
    PROVE  Pending(db, fs) = Len(db.applied) + 1 .. Len(fs)
<1>1. PICK k : k = Len(db.applied)
  OBVIOUS
<1>2. PICK a : a = db.applied
  OBVIOUS
<1>3. /\ k \in Nat /\ k <= Len(fs) /\ DOMAIN a = 1 .. k /\ DOMAIN fs = 1 .. Len(fs)
      /\ Len(fs) \in Nat
  BY <1>1, <1>2 DEF UpTo
<1>4. \A j \in 1 .. k : a[j] = fs[j]
  BY <1>2, <1>3 DEF UpTo
<1>5. PICK P : P = Pending(db, fs)
  OBVIOUS
<1>6. P = {i \in 1 .. Len(fs) : \A j \in 1 .. k : a[j] # fs[i]}
  BY <1>2, <1>3, <1>5 DEF Pending
<1>7. ASSUME NEW i \in 1 .. Len(fs), NEW j \in 1 .. k, i > k
      PROVE  a[j] # fs[i]
  <2>1. fs[i] \in File /\ fs[j] \in File /\ i \in DOMAIN fs /\ j \in DOMAIN fs /\ j < i
    BY <1>3, <1>7
  <2>2. fs[j].version < fs[i].version
    BY <2>1 DEF Numbered
  <2>3. fs[i].version \in Nat /\ fs[j].version \in Nat
    BY <2>1 DEF File
  <2>4. fs[i] # fs[j]
    BY <2>2, <2>3
  <2> QED
    BY <1>4, <2>4
<1>8. ASSUME NEW i \in P
      PROVE  i \in k + 1 .. Len(fs)
  <2>1. i \in 1 .. Len(fs) /\ \A j \in 1 .. k : a[j] # fs[i]
    BY <1>6
  <2>2. ~(i <= k)
    BY <1>3, <1>4, <2>1
  <2> QED
    BY <1>3, <2>1, <2>2
<1>9. ASSUME NEW i \in k + 1 .. Len(fs)
      PROVE  i \in P
  <2>1. i \in 1 .. Len(fs) /\ i > k
    BY <1>3
  <2> QED
    BY <1>6, <1>7, <2>1
<1> QED
  BY <1>1, <1>5, <1>8, <1>9

(* The least of them is applied next (atlas.go:106).                       *)
LEMMA AppliesNext ==
    ASSUME NEW fs \in Seq(File), NEW n, Numbered(fs, n), NEW db, UpTo(db, fs),
           db = [up |-> db.up, applied |-> db.applied, schema |-> db.schema],
           NEW i \in Pending(db, fs), \A j \in Pending(db, fs) : i <= j,
           NEW x, x = Apply(db, fs[i])
    PROVE  UpTo(x, fs)
<1>1. PICK k : k = Len(db.applied)
  OBVIOUS
<1>2. PICK a : a = db.applied
  OBVIOUS
<1>3. /\ k \in Nat /\ k <= Len(fs) /\ DOMAIN a = 1 .. k /\ a \in Seq(File)
      /\ Len(fs) \in Nat /\ \A j \in 1 .. k : a[j] = fs[j]
  BY <1>1, <1>2 DEF UpTo
<1>4. Pending(db, fs) = k + 1 .. Len(fs)
  BY <1>1, PendingIsRest
<1>5. i = k + 1 /\ k + 1 <= Len(fs)
  BY <1>3, <1>4
<1>6. PICK f : f = fs[i]
  OBVIOUS
<1>7. f \in File
  BY <1>3, <1>5, <1>6
<1>8. x.applied = Append(a, f) /\ x.schema = (db.schema \ f.drops) \cup f.adds
  BY <1>2, <1>6 DEF Apply
<1>9. /\ Append(a, f) \in Seq(File) /\ Len(Append(a, f)) = k + 1
      /\ \A j \in 1 .. k + 1 : Append(a, f)[j] = fs[j]
  BY <1>1, <1>2, <1>3, <1>5, <1>6, <1>7
<1>10. x.schema = SchemaOf(Append(a, f))
  <2>1. db.schema = SchemaOf(a)
    BY <1>2 DEF UpTo
  <2>2. x.schema = (SchemaOf(a) \ f.drops) \cup f.adds
    BY <1>8, <2>1
  <2> QED
    BY <1>3, <1>7, <2>2, SchemaAppended
<1>11. PICK b : b = Append(a, f)
  OBVIOUS
<1>12. b \in Seq(File) /\ Len(b) = k + 1 /\ DOMAIN b = 1 .. k + 1 /\ \A j \in 1 .. k + 1 : b[j] = fs[j]
  BY <1>3, <1>9, <1>11
<1>13. x.applied = b /\ x.schema = SchemaOf(b)
  BY <1>8, <1>10, <1>11
<1> QED
  BY <1>5, <1>12, <1>13 DEF UpTo

(* When none is pending, all have been applied.                            *)
LEMMA AllApplied ==
    ASSUME NEW fs \in Seq(File), NEW n, Numbered(fs, n), NEW db, UpTo(db, fs),
           Pending(db, fs) = {}
    PROVE  db.applied = fs
<1>1. PICK a : a = db.applied
  OBVIOUS
<1>2. a \in Seq(File) /\ Len(a) <= Len(fs) /\ \A i \in DOMAIN a : a[i] = fs[i]
  BY <1>1 DEF UpTo
<1>3. Len(a) + 1 .. Len(fs) = {}
  <2>1. Pending(db, fs) = Len(a) + 1 .. Len(fs)
    BY <1>1, PendingIsRest
  <2> QED
    BY <2>1
<1>4. Len(a) = Len(fs)
  <2>1. PICK p, q : p = Len(a) /\ q = Len(fs)
    OBVIOUS
  <2>2. p \in Nat /\ q \in Nat /\ p <= q /\ p + 1 .. q = {}
    BY <1>2, <1>3, <2>1
  <2>3. q \notin p + 1 .. q
    BY <2>2
  <2> QED
    BY <2>1, <2>2, <2>3
<1> QED
  BY <1>1, <1>2, <1>4
-----------------------------------------------------------------------------
(* The migrations on every machine are numbered.                           *)
Migrations ==
    /\ versions \in Nat
    /\ desired = [m \in Machine |-> desired[m]] /\ files = [m \in Machine |-> files[m]]
    /\ \A m \in Machine :
        desired[m] \subseteq Change /\ files[m] \in Seq(File) /\ Numbered(files[m], versions)

(* Migrations stay numbered without the last of them, with another, and    *)
(* with the last one patched.                                              *)
LEMMA Shortened ==
    ASSUME NEW fs \in Seq(File), NEW n, Numbered(fs, n)
    PROVE  LET gs == SubSeq(fs, 1, Len(fs) - 1)
           IN  gs \in Seq(File) /\ Numbered(gs, n)
<1>1. PICK gs, k : gs = SubSeq(fs, 1, Len(fs) - 1) /\ k = Len(fs)
  OBVIOUS
<1>2. k \in Nat /\ DOMAIN fs = 1 .. k /\ \A i \in 1 .. k : fs[i] \in File
  BY <1>1
<1>3. \A i \in 1 .. k - 1 : fs[i] \in File /\ i \in 1 .. k
  BY <1>2
<1>4. gs \in Seq(File) /\ DOMAIN gs = 1 .. k - 1 /\ \A i \in 1 .. k - 1 : gs[i] = fs[i] /\ i \in 1 .. k
  <2>1. PICK n1 \in Int : n1 = k - 1
    BY <1>2
  <2>2. gs = SubSeq(fs, 1, n1)
    BY <1>1, <2>1
  <2>3. /\ gs \in Seq(File) /\ Len(gs) = IF 1 <= n1 THEN n1 - 1 + 1 ELSE 0
        /\ \A i \in 1 .. n1 - 1 + 1 : gs[i] = fs[1 + i - 1]
    BY <1>3, <2>1, <2>2, SubSeqProperties
  <2>4. DOMAIN gs = 1 .. Len(gs) /\ 1 .. Len(gs) = 1 .. n1
    BY <1>2, <2>1, <2>3
  <2> QED
    BY <1>2, <1>3, <2>1, <2>3, <2>4
<1>5. Numbered(gs, n)
  BY <1>2, <1>4 DEF Numbered
<1> QED
  BY <1>1, <1>4, <1>5

LEMMA Lengthened ==
    ASSUME NEW fs \in Seq(File), NEW n \in Nat, Numbered(fs, n), NEW f \in File, f.version = n + 1
    PROVE  LET gs == Append(fs, f)
           IN  gs \in Seq(File) /\ Numbered(gs, n + 1)
<1>1. PICK gs, k : gs = Append(fs, f) /\ k = Len(fs)
  OBVIOUS
<1>2. /\ k \in Nat /\ DOMAIN fs = 1 .. k /\ \A i \in 1 .. k : fs[i] \in File
      /\ gs \in Seq(File) /\ DOMAIN gs = 1 .. k + 1 /\ gs[k + 1] = f
      /\ \A i \in 1 .. k : gs[i] = fs[i]
  BY <1>1
<1>3. \A i \in 1 .. k : gs[i].version \in Nat /\ gs[i].version <= n
  BY <1>2 DEF Numbered, File
<1>4. \A i \in 1 .. k + 1 : i = k + 1 \/ i \in 1 .. k
  BY <1>2
<1>5. \A i \in DOMAIN gs : gs[i].version <= n + 1
  BY <1>2, <1>3, <1>4
<1>6. ASSUME NEW i \in DOMAIN gs, NEW j \in DOMAIN gs, i < j
      PROVE  gs[i].version < gs[j].version
  <2>1. i \in 1 .. k
    BY <1>2, <1>6
  <2>2. CASE j = k + 1
    BY <1>2, <1>3, <2>1, <2>2
  <2>3. CASE j \in 1 .. k
    BY <1>2, <1>6, <2>1, <2>3 DEF Numbered
  <2> QED
    BY <1>2, <1>4, <2>2, <2>3
<1>7. Numbered(gs, n + 1)
  BY <1>5, <1>6 DEF Numbered
<1> QED
  BY <1>1, <1>2, <1>7

LEMMA NumberedLater ==
    ASSUME NEW fs \in Seq(File), NEW n \in Nat, Numbered(fs, n)
    PROVE  Numbered(fs, n + 1)
<1>1. \A i \in DOMAIN fs : fs[i] \in File
  OBVIOUS
<1>2. \A i \in DOMAIN fs : fs[i].version \in Nat
  BY <1>1 DEF File
<1> QED
  BY <1>2 DEF Numbered

LEMMA Patched ==
    ASSUME NEW fs \in Seq(File), NEW n \in Nat, Numbered(fs, n), fs # <<>>
    PROVE  LET gs == [fs EXCEPT ![Len(fs)].patched = TRUE]
           IN  gs \in Seq(File) /\ Numbered(gs, n)
<1>1. PICK gs, k : gs = [fs EXCEPT ![Len(fs)].patched = TRUE] /\ k = Len(fs)
  OBVIOUS
<1>2. PICK f : f = fs[k]
  OBVIOUS
<1>3. PICK g : g = [f EXCEPT !.patched = TRUE]
  OBVIOUS
<1>4. k \in Nat /\ k \in 1 .. k /\ DOMAIN fs = 1 .. k /\ f \in File
  BY <1>1, <1>2
<1>5. g \in File /\ g.version = f.version
  BY <1>3, <1>4 DEF File
<1>6. gs = [fs EXCEPT ![k] = g]
  BY <1>1, <1>2, <1>3
<1>7. /\ gs \in Seq(File) /\ DOMAIN gs = DOMAIN fs
      /\ \A i \in DOMAIN fs : gs[i] = IF i = k THEN g ELSE fs[i]
  BY <1>4, <1>5, <1>6
<1>8. \A i \in DOMAIN fs : gs[i].version = fs[i].version
  BY <1>2, <1>5, <1>7
<1>9. Numbered(gs, n)
  BY <1>7, <1>8 DEF Numbered
<1> QED
  BY <1>1, <1>7, <1>9

(* The migrations of o's machine are still numbered, whatever o does.      *)
LEMMA FilesWritten ==
    ASSUME Frame, Migrations, NEW o \in Operator, NEW w \in Busy(o), SchemaCommand(o, w)
    PROVE  Migrations'
<1>1. PICK m : m = Here(o)
  OBVIOUS
<1>2. PICK c : c = Command(o, w)
  OBVIOUS
<1>3. PICK fs : fs = files[m]
  OBVIOUS
<1>4. /\ m \in Machine /\ desired[m] \subseteq Change /\ fs \in Seq(File) /\ Numbered(fs, versions)
      /\ versions \in Nat
  BY <1>1, <1>3, MachineOf DEF Migrations
<1>5. desired' = desired
  BY DEF SchemaCommand, schema
<1>6. ASSUME UNCHANGED <<files, versions>>
      PROVE  Migrations'
  BY <1>5, <1>6 DEF Migrations
<1>7. ASSUME NEW gs \in Seq(File), files' = [files EXCEPT ![m] = gs],
             \/ versions' = versions /\ Numbered(gs, versions)
             \/ versions' = versions + 1 /\ Numbered(gs, versions + 1)
      PROVE  Migrations'
  <2>1. /\ versions' \in Nat /\ files' = [x \in Machine |-> files'[x]] /\ files'[m] = gs
        /\ \A x \in Machine : x # m => files'[x] = files[x]
    <3>1. files = [x \in Machine |-> files[x]]
      BY DEF Migrations
    <3>2. versions' \in Nat
      BY <1>4, <1>7
    <3> QED
      BY <1>4, <1>7, <3>1, <3>2
  <2>2. \A x \in Machine : Numbered(files[x], versions) /\ Numbered(files[x], versions + 1)
    BY <1>4, NumberedLater DEF Migrations
  <2>3. ASSUME NEW x \in Machine
        PROVE  files'[x] \in Seq(File) /\ Numbered(files'[x], versions')
    <3>1. CASE x = m
      BY <1>7, <2>1, <3>1
    <3>2. CASE x # m
      BY <1>7, <2>1, <2>2, <3>2 DEF Migrations
    <3> QED
      BY <3>1, <3>2
  <2> QED
    BY <1>5, <2>1, <2>3 DEF Migrations
<1>8. CASE c.do = "remove"
  <2>1. PICK gs : gs = SubSeq(fs, 1, Len(fs) - 1)
    OBVIOUS
  <2>2. gs \in Seq(File) /\ Numbered(gs, versions)
    BY <1>4, <2>1, Shortened
  <2>3. versions' = versions /\ files' = [files EXCEPT ![m] = gs]
    BY <1>1, <1>2, <1>3, <1>8, <2>1 DEF SchemaCommand
  <2> QED
    BY <1>7, <2>2, <2>3
<1>9. CASE c.do = "diff"
  <2>1. PICK is : is = SchemaOf(fs)
    OBVIOUS
  <2>2. PICK f : f = [name |-> c.name, version |-> versions + 1, patched |-> FALSE,
                      adds |-> desired[m] \ is, drops |-> is \ desired[m]]
    OBVIOUS
  <2>3. \/ UNCHANGED <<files, versions>>
        \/ versions' = versions + 1 /\ files' = [files EXCEPT ![m] = Append(fs, f)]
    BY <1>1, <1>2, <1>3, <1>9, <2>1, <2>2 DEF SchemaCommand
  <2>4. f \in File /\ f.version = versions + 1
    <3>1. is \subseteq Change
      BY <2>1 DEF SchemaOf
    <3>2. c \in Commands
      <4>1. PICK cs : cs = proc[o].stages[1][w]
        OBVIOUS
      <4>2. Sorted(cs, 0, 7) /\ cs # <<>> /\ c = cs[1]
        BY <1>2, <4>1, BusyWorker
      <4> QED
        BY <4>2, Popped
    <3>3. c.name \in STRING
      BY <1>9, <3>2 DEF Commands, Dos
    <3> QED
      BY <1>4, <2>2, <3>1, <3>3 DEF File
  <2>5. PICK gs : gs = Append(fs, f)
    OBVIOUS
  <2>6. gs \in Seq(File) /\ Numbered(gs, versions + 1)
    BY <1>4, <2>4, <2>5, Lengthened
  <2> QED
    BY <1>6, <1>7, <2>3, <2>5, <2>6
<1>10. CASE c.do = "patch"
  <2>1. PICK gs : gs = [fs EXCEPT ![Len(fs)].patched = TRUE]
    OBVIOUS
  <2>2. /\ versions' = versions
        /\ files' = files \/ (Named(m, c.name) /\ files' = [files EXCEPT ![m] = gs])
    BY <1>1, <1>2, <1>3, <1>10, <2>1 DEF SchemaCommand
  <2>3. Named(m, c.name) => fs # <<>>
    BY <1>3 DEF Named
  <2>4. fs # <<>> => gs \in Seq(File) /\ Numbered(gs, versions)
    BY <1>4, <2>1, Patched
  <2> QED
    BY <1>6, <1>7, <2>2, <2>3, <2>4
<1>11. CASE c.do \notin {"remove", "diff", "patch"}
  BY <1>2, <1>6, <1>11 DEF SchemaCommand, schema
<1> QED
  BY <1>8, <1>9, <1>10, <1>11

(* Migrations is an invariant.                                             *)
LEMMA MigrationsStep ==
    ASSUME Frame, Migrations, [OpsNext]_ops
    PROVE  Migrations'
<1>1. ASSUME UNCHANGED <<desired, files, versions>>
      PROVE  Migrations'
  BY <1>1 DEF Migrations
<1>2. CASE External
  <2>1. ASSUME NEW m \in Machine, Edit(m)
        PROVE  Migrations'
    <3>1. PICK d \in SUBSET Change : desired' = [desired EXCEPT ![m] = d] /\ UNCHANGED <<files, versions>>
      BY <2>1 DEF Edit
    <3> QED
      BY <3>1 DEF Migrations
  <2>2. UNCHANGED <<desired, files, versions>> \/ \E m \in Machine : Edit(m)
    BY <1>2 DEF External, Starts, schema
  <2> QED
    BY <1>1, <2>1, <2>2
<1>3. ASSUME NEW o \in Operator, Do(o)
      PROVE  Migrations'
  <2>1. UNCHANGED <<desired, files, versions>> \/ \E w \in Busy(o) : SchemaCommand(o, w)
    BY <1>3 DEF Do, Up, schema
  <2> QED
    BY <1>1, <2>1, FilesWritten
<1>4. ASSUME NEW o \in Operator, Begin(o) \/ Finish(o) \/ End(o)
      PROVE  Migrations'
  BY <1>1, <1>4 DEF Begin, Finish, End, schema
<1> QED
  BY <1>1, <1>2, <1>3, <1>4 DEF OpsNext, ops, schema
-----------------------------------------------------------------------------
(* A container's database, or a shared one.                                *)
Records ==
    Databases /\ \A x \in Machine \cup Shared :
        database[x] = [up |-> database[x].up, applied |-> database[x].applied,
                       schema |-> database[x].schema]

(* Records is an invariant.                                                *)
LEMMA RecordsStep ==
    ASSUME Frame, Records, [OpsNext]_ops
    PROVE  Records'
<1> DEFINE IsRecord(d) == d = [up |-> d.up, applied |-> d.applied, schema |-> d.schema]
<1>1. ASSUME UNCHANGED database
      PROVE  Records'
  BY <1>1 DEF Records, Databases
<1>2. ASSUME NEW x \in Machine \cup Shared, NEW d, IsRecord(d), database' = [database EXCEPT ![x] = d]
      PROVE  Records'
  BY <1>2 DEF Records, Databases
<1>3. ASSUME NEW x \in Machine \cup Shared
      PROVE  IsRecord(database[x])
  BY DEF Records
<1>4. CASE External
  <2>1. ASSUME NEW m \in Machine, Starts(m)
        PROVE  Records'
    <3>1. PICK d : d = [database[m] EXCEPT !.up = TRUE]
      OBVIOUS
    <3>2. PICK x, y, z : database[m] = [up |-> x, applied |-> y, schema |-> z]
      BY <1>3
    <3>3. IsRecord(d)
      BY <3>1, <3>2
    <3>4. database' = [database EXCEPT ![m] = d]
      BY <2>1, <3>1 DEF Starts
    <3> QED
      BY <1>2, <3>3, <3>4
  <2>2. UNCHANGED database \/ \E m \in Machine : Starts(m)
    BY <1>4 DEF External, Edit, schema
  <2> QED
    BY <1>1, <2>1, <2>2
<1>5. ASSUME NEW o \in Operator, Do(o)
      PROVE  Records'
  <2>1. UNCHANGED database \/ \E w \in Busy(o) : SchemaCommand(o, w) \/ Up(o, w)
    BY <1>5 DEF Do, schema
  <2>2. ASSUME NEW w \in Busy(o), SchemaCommand(o, w) \/ Up(o, w), ~UNCHANGED database
        PROVE  Records'
    <3>1. \/ database' = [database EXCEPT ![Here(o)] = [Fresh EXCEPT !.up = FALSE]]
          \/ /\ Connected(o) \in DOMAIN database
             /\ \E f : database' = [database EXCEPT ![Connected(o)] = Apply(database[Connected(o)], f)]
      BY <2>2 DEF SchemaCommand, Up, Restart, schema
    <3>2. CASE database' = [database EXCEPT ![Here(o)] = [Fresh EXCEPT !.up = FALSE]]
      <4>1. PICK d : d = [Fresh EXCEPT !.up = FALSE]
        OBVIOUS
      <4>2. IsRecord(d)
        BY <4>1 DEF Fresh
      <4> QED
        BY <1>2, <3>2, <4>1, <4>2, MachineOf
    <3>3. ASSUME NEW x \in DOMAIN database, NEW f, database' = [database EXCEPT ![x] = Apply(database[x], f)]
          PROVE  Records'
      <4>1. x \in Machine \cup Shared
        BY <3>3 DEF Records, Databases
      <4>2. PICK d : d = Apply(database[x], f)
        OBVIOUS
      <4>3. PICK a, b, c : database[x] = [up |-> a, applied |-> b, schema |-> c]
        BY <1>3, <4>1
      <4>4. IsRecord(d)
        BY <4>2, <4>3 DEF Apply
      <4> QED
        BY <1>2, <3>3, <4>1, <4>2, <4>4
    <3> QED
      BY <3>1, <3>2, <3>3
  <2> QED
    BY <1>1, <2>1, <2>2
<1>6. ASSUME NEW o \in Operator, Begin(o) \/ Finish(o) \/ End(o)
      PROVE  Records'
  BY <1>1, <1>6 DEF Begin, Finish, End, schema
<1> QED
  BY <1>1, <1>4, <1>5, <1>6 DEF OpsNext, ops, schema

(* The head of a process' list is one of the commands of its target.       *)
LEMMA SchemaHead ==
    ASSUME Frame, SchemaOrdered, NEW o \in Operator, NEW w \in Busy(o), proc[o].at \in SchemaTargets
    PROVE  LET cs == proc[o].stages[1]["main"]
           IN  /\ w = "main" /\ proc[o].stages # <<>> /\ Sorted(cs, 0, 7) /\ cs # <<>>
               /\ Command(o, w) = cs[1] /\ SchemaOrder(proc[o].at, cs)
               /\ cs[1].do \in SchemaDos(proc[o].at)
<1>1. PICK cs : cs = proc[o].stages[1]["main"]
  OBVIOUS
<1>2. /\ w = "main" /\ proc[o].stages # <<>> /\ Sorted(cs, 0, 7) /\ cs # <<>>
      /\ Command(o, w) = cs[1]
  BY <1>1, SchemaWorker, BusyWorker
<1>3. SchemaOrder(proc[o].at, cs)
  BY <1>1, <1>2 DEF SchemaOrdered
<1>4. cs[1].do \in SchemaDos(proc[o].at)
  BY <1>2, <1>3, SchemaOrderPopped
<1> QED
  BY <1>1, <1>2, <1>3, <1>4
-----------------------------------------------------------------------------
(* What is known of the database before it is dumped.                      *)
DumpKnows(db, fs, cs) ==
    Has(cs, "pg_dump") =>
        /\ ~Has(cs, "restart") => UpTo(db, fs)
        /\ ~Has(cs, "apply") => db.applied = fs

(* It is about what has been applied only.                                 *)
LEMMA KnowsAlike ==
    ASSUME NEW db, NEW fs, NEW cs, DumpKnows(db, fs, cs),
           NEW eb, eb.applied = db.applied, eb.schema = db.schema
    PROVE  DumpKnows(eb, fs, cs)
BY DEF DumpKnows, UpTo

(* It is kept as commands are done, by what the command has done.          *)
LEMMA KnowsDone ==
    ASSUME NEW t, Snapshots(t), NEW cs, Sorted(cs, 0, 7), cs # <<>>, SchemaOrder(t, cs),
           NEW fs \in Seq(File), NEW n, Numbered(fs, n), NEW db, DumpKnows(db, fs, cs),
           NEW gs, NEW eb,
           \/ cs[1].do \in {"remove", "diff", "patch"} /\ eb = db
           \/ cs[1].do \in {"load", "hash", "pg_dump"} /\ eb = db /\ gs = fs
           \/ cs[1].do = "restart" /\ gs = fs /\ eb.applied = <<>> /\ eb.schema = {}
           \/ cs[1].do = "apply" /\ gs = fs /\ eb = db /\ Pending(db, fs) = {}
    PROVE  DumpKnows(eb, gs, Tail(cs))
<1>1. PICK do, es : do = cs[1].do /\ es = Tail(cs)
  OBVIOUS
<1>2. /\ SchemaOrder(t, es)
      /\ \A x : x # do => (Has(es, x) <=> Has(cs, x))
      /\ do # "load" => \A x : Rank(x) < Rank(do) /\ x # "load" => ~Has(cs, x)
  BY <1>1, SchemaOrderPopped
<1>3. Has(cs, do) /\ \A x : Has(es, x) => Has(cs, x)
  BY <1>1, Popped
<1>4. Rank("restart") = 4 /\ Rank("apply") = 5 /\ Rank("pg_dump") = 6
  BY DEF Rank
<1>5. CASE do \in {"remove", "diff", "patch"}
  <2>1. Has(cs, "restart")
    BY <1>3, <1>5 DEF SchemaOrder
  <2>2. Has(es, "restart") /\ Has(es, "apply")
    BY <1>2, <1>5, <2>1 DEF SchemaOrder
  <2> QED
    BY <1>1, <2>2 DEF DumpKnows
<1>6. CASE do \in {"load", "hash", "pg_dump"}
  <2>1. eb = db /\ gs = fs
    BY <1>1, <1>6
  <2> QED
    BY <1>1, <1>2, <1>3, <1>6, <2>1 DEF DumpKnows
<1>7. CASE do = "restart"
  <2>1. Has(es, "apply")
    BY <1>2, <1>3, <1>7 DEF SchemaOrder
  <2>2. gs = fs /\ eb.applied = <<>> /\ eb.schema = {}
    BY <1>1, <1>7
  <2>3. UpTo(eb, gs)
    <3>1. <<>> \in Seq(File) /\ Len(<<>>) = 0 /\ DOMAIN <<>> = {} /\ Len(fs) \in Nat
      OBVIOUS
    <3> QED
      BY <2>2, <3>1, NoSchema DEF UpTo
  <2> QED
    BY <1>1, <2>1, <2>3 DEF DumpKnows
<1>8. CASE do = "apply"
  <2>1. gs = fs /\ eb = db /\ Pending(db, fs) = {}
    BY <1>1, <1>8
  <2>2. ASSUME Has(es, "pg_dump")
        PROVE  UpTo(db, fs) /\ db.applied = fs
    <3>1. ~Has(cs, "restart")
      BY <1>2, <1>4, <1>8
    <3>2. UpTo(db, fs)
      BY <1>3, <2>2, <3>1 DEF DumpKnows
    <3> QED
      BY <2>1, <3>2, AllApplied
  <2> QED
    BY <1>1, <2>1, <2>2 DEF DumpKnows
<1> QED
  BY <1>1, <1>5, <1>6, <1>7, <1>8

(* And as migrations are applied, by whichever process.                    *)
LEMMA KnowsApplied ==
    ASSUME NEW cs, NEW fs \in Seq(File), NEW n, Numbered(fs, n), NEW db, DumpKnows(db, fs, cs),
           db = [up |-> db.up, applied |-> db.applied, schema |-> db.schema],
           NEW i \in Pending(db, fs), \A j \in Pending(db, fs) : i <= j,
           NEW x, x = Apply(db, fs[i])
    PROVE  DumpKnows(x, fs, cs)
<1>1. ASSUME Has(cs, "pg_dump"), ~Has(cs, "restart")
      PROVE  UpTo(x, fs)
  <2>1. UpTo(db, fs)
    BY <1>1 DEF DumpKnows
  <2> QED
    BY <2>1, AppliesNext
<1>2. ASSUME Has(cs, "pg_dump"), ~Has(cs, "apply")
      PROVE  FALSE
  <2>1. db.applied = fs
    BY <1>2 DEF DumpKnows
  <2> QED
    BY <2>1 DEF Pending
<1> QED
  BY <1>1, <1>2 DEF DumpKnows

(* What a process is at that makes a snapshot: once the container has been *)
(* restarted it is in the directory of the project, and what it has        *)
(* migrated is the development database.                                   *)
Settled(p, cs) ==
    Has(cs, "pg_dump") =>
        /\ ~Has(cs, "restart") => ~p.inside
        /\ ~Has(cs, "apply") => p.url = "dev"

(* What a process knows that makes a snapshot.                             *)
SnapshotKnows(o) ==
    LET p == proc[o]
        cs == p.stages[1]["main"]
    IN  p.stages # <<>> /\ p.at \in SchemaTargets /\ Snapshots(p.at) =>
            DumpKnows(database[Here(o)], files[Here(o)], cs) /\ Settled(p, cs)

(* Targets a process has begun are targets.                                *)
LEMMA BegunTargets ==
    ASSUME Frame, Urls, NEW o \in Operator
    PROVE  Begun(o) \subseteq Target
<1>1. PICK ts, td : ts = session[o].targets /\ td = proc[o].todo
  OBVIOUS
<1>2. ts \in Seq(Target) /\ td \in Seq(Asked(o)) /\ Len(td) <= Len(ts)
  BY <1>1, MageAssumption DEF Frame, Urls, LastOf
<1>3. \A i \in 1 .. Len(ts) - Len(td) : ts[i] \in Target
  BY <1>2
<1> QED
  BY <1>1, <1>3 DEF Begun

(* Migrations are never applied to another machine's database.             *)
LEMMA ConnectedHere ==
    ASSUME Frame, Urls, NEW o \in Operator, Connected(o) \in Machine
    PROVE  Connected(o) = Here(o)
<1>1. proc[o].url \in {"none", "dev"} \/ \E t \in Begun(o) : AppliesTo(t, proc[o].url)
  BY DEF Urls
<1>2. CASE proc[o].url = "dev"
  BY <1>2 DEF Connected
<1>3. CASE proc[o].url # "dev"
  <2>1. Connected(o) = proc[o].url
    BY <1>3 DEF Connected
  <2>2. proc[o].url # "none"
    BY <2>1, SchemaMigrationsAssumption
  <2>3. PICK t \in Begun(o) : t.target = "apply" /\ t.to = proc[o].url
    BY <1>1, <1>3, <2>2 DEF AppliesTo
  <2>4. t \in Target
    BY <2>3, BegunTargets
  <2>5. t.to \in {"dev"} \cup Shared
    BY <2>3, <2>4 DEF Target, ServiceTargets, InfraTargets, SchemaTargets
  <2> QED
    BY <1>3, <2>1, <2>3, <2>5, SchemaMigrationsAssumption
<1> QED
  BY <1>2, <1>3

(* A target that makes a snapshot finds the files it looks for, where it   *)
(* dumps and before.                                                       *)
LEMMA SnapshotsAtHome ==
    ASSUME SnapshotsFindEnv, Frame, ConnectsAsAsked, NEW o \in Operator, NEW w \in Busy(o),
           proc[o].at \in SchemaTargets, Snapshots(proc[o].at), ~proc[o].inside
    PROVE  /\ FindsEnv(o, "dev")
           /\ Command(o, w).do = "apply" => proc[o].url = "dev" /\ Connected(o) = Here(o)
           /\ Command(o, w).do = "load" => LoadEnv(o, Command(o, w).env) = "dev"
<1>1. PICK t : t = proc[o].at
  OBVIOUS
<1>2. t \in Asked(o) /\ session \in Session /\ t.target \in {"iterate", "snapshot"} /\ Where(t) = "dev"
  BY <1>1, BusyWorker DEF Frame, Snapshots, Where
<1>3. {"", "dev"} \subseteq EnvFiles[Here(o)]
  BY <1>2 DEF SnapshotsFindEnv, Asked, Here
<1>4. ~Misses(Here(o), proc[o])
  BY <1>1, <1>2, <1>3 DEF Misses
<1>5. Command(o, w).do = "apply" => proc[o].url = "dev"
  BY <1>1, <1>2, <1>4, AppliesWhereAsked DEF Loaded
<1>6. Command(o, w).do = "load" => Command(o, w).env = "dev"
  <2>1. PICK cs : cs = proc[o].stages[1][w]
    OBVIOUS
  <2>2. /\ proc[o].stages # <<>> /\ w \in DOMAIN proc[o].stages[1] /\ Command(o, w) = cs[1]
        /\ Sorted(cs, 0, 7) /\ cs # <<>>
    BY <2>1, BusyWorker
  <2>3. LoadsFirst(cs, "dev", Loaded(Here(o), proc[o]))
    BY <1>1, <1>2, <2>1, <2>2 DEF ConnectsAsAsked
  <2>4. 1 \in DOMAIN cs
    BY <2>2, Popped
  <2> QED
    BY <2>2, <2>3, <2>4 DEF LoadsFirst
<1>7. FindsEnv(o, "dev")
  BY <1>3 DEF FindsEnv
<1> QED
  BY <1>5, <1>6, <1>7 DEF Connected, LoadEnv

(* The command of a process that makes a snapshot.                         *)
LEMMA SnapshotCommandKnows ==
    ASSUME SnapshotsFindEnv, Frame, Records, Migrations, ConnectsAsAsked, SchemaOrdered,
           NEW o \in Operator, NEW w \in Busy(o), proc[o].at \in SchemaTargets,
           Snapshots(proc[o].at), SnapshotKnows(o),
           (Command(o, w).do = "load" /\ Load(o, w) /\ UNCHANGED schema) \/ SchemaCommand(o, w)
    PROVE  SnapshotKnows(o)'
<1>1. PICK cs, m, t : cs = proc[o].stages[1]["main"] /\ m = Here(o) /\ t = proc[o].at
  OBVIOUS
<1>2. PICK db, fs, c : db = database[m] /\ fs = files[m] /\ c = cs[1]
  OBVIOUS
<1>3. /\ w = "main" /\ proc[o].stages # <<>> /\ Sorted(cs, 0, 7) /\ cs # <<>>
      /\ Command(o, w) = c /\ SchemaOrder(t, cs) /\ c.do \in SchemaDos(t)
  BY <1>1, <1>2, SchemaHead
<1>4. /\ m \in Machine /\ fs \in Seq(File) /\ Numbered(fs, versions)
      /\ db = [up |-> db.up, applied |-> db.applied, schema |-> db.schema]
      /\ DumpKnows(db, fs, cs) /\ Settled(proc[o], cs)
  BY <1>1, <1>2, <1>3, MachineOf DEF Migrations, Records, SnapshotKnows
<1>5. m \in DOMAIN files /\ m \in DOMAIN database
  BY <1>4 DEF Migrations, Records, Databases
<1>6. UNCHANGED session /\ Here(o)' = m
  BY <1>1 DEF Here, Load, SchemaCommand
<1>7. /\ Rank("restart") = 4 /\ Rank("apply") = 5 /\ Rank("pg_dump") = 6
      /\ Has(cs, c.do) /\ \A do : do # c.do => (Has(Tail(cs), do) <=> Has(cs, do))
      /\ c.do # "load" => \A do : Rank(do) < Rank(c.do) /\ do # "load" => ~Has(cs, do)
      /\ SchemaOrder(t, Tail(cs)) /\ \A do : Has(Tail(cs), do) => Has(cs, do)
  <2>1. PICK do : do = c.do
    OBVIOUS
  <2>2. Rank("restart") = 4 /\ Rank("apply") = 5 /\ Rank("pg_dump") = 6
    BY DEF Rank
  <2>3. /\ Has(cs, do) /\ \A x : x # do => (Has(Tail(cs), x) <=> Has(cs, x))
        /\ \A x : Has(Tail(cs), x) => Has(cs, x)
    BY <1>2, <1>3, <2>1, Popped
  <2>4. /\ do # "load" => \A x : Rank(x) < Rank(do) /\ x # "load" => ~Has(cs, x)
        /\ SchemaOrder(t, Tail(cs))
    BY <1>2, <1>3, <2>1, SchemaOrderPopped
  <2> QED
    BY <2>1, <2>2, <2>3, <2>4
<1>8. ASSUME Has(cs, "pg_dump")
      PROVE  /\ c.do = "apply" => Connected(o) = m /\ proc[o].url = "dev"
             /\ c.do = "load" /\ ~Has(cs, "apply") => LoadEnv(o, Command(o, w).env) = "dev"
  <2>1. c.do = "apply" => ~Has(cs, "restart")
    BY <1>7
  <2>2. ~Has(cs, "apply") => ~Has(cs, "restart")
    BY <1>1, <1>3 DEF SchemaOrder
  <2>3. c.do = "apply" \/ ~Has(cs, "apply") => ~proc[o].inside
    BY <1>4, <1>8, <2>1, <2>2 DEF Settled
  <2> QED
    BY <1>1, <1>3, <2>3, SnapshotsAtHome
<1>9. PICK eb, gs : eb = database'[m] /\ gs = files'[m]
  OBVIOUS
<1>10. CASE c.do = "apply" /\ Pending(database[Connected(o)], fs) # {}
  <2>1. UNCHANGED proc /\ UNCHANGED files
        /\ \E i \in Pending(database[Connected(o)], fs) :
                /\ \A j \in Pending(database[Connected(o)], fs) : i <= j
                /\ database' = [database EXCEPT ![Connected(o)] =
                        Apply(database[Connected(o)], fs[i])]
    BY <1>1, <1>2, <1>3, <1>10 DEF SchemaCommand
  <2>2. ASSUME Has(cs, "pg_dump")
        PROVE  DumpKnows(eb, fs, cs)
    <3>1. PICK i \in Pending(db, fs) :
                /\ \A j \in Pending(db, fs) : i <= j
                /\ database' = [database EXCEPT ![m] = Apply(db, fs[i])]
      BY <1>2, <1>8, <1>10, <2>1, <2>2
    <3>2. eb = Apply(db, fs[i])
      BY <1>5, <1>9, <3>1
    <3> QED
      BY <1>4, <3>1, <3>2, KnowsApplied
  <2>3. DumpKnows(eb, fs, cs)
    BY <2>2 DEF DumpKnows
  <2> QED
    BY <1>1, <1>2, <1>4, <1>6, <1>9, <2>1, <2>3 DEF SnapshotKnows
<1>11. CASE c.do # "apply" \/ Pending(database[Connected(o)], fs) = {}
  <2>1. /\ c.do # "load" => Advance(o, w, proc[o])
        /\ c.do = "load" => Advance(o, w, [proc[o] EXCEPT !.url = LoadEnv(o, Command(o, w).env)])
    BY <1>1, <1>2, <1>3, <1>11 DEF SchemaCommand, Load
  <2>2. PICK p : /\ p = IF c.do = "load" THEN [proc[o] EXCEPT !.url = LoadEnv(o, Command(o, w).env)]
                        ELSE proc[o]
                 /\ Advance(o, w, p)
    BY <2>1
  <2>3. Formed(p) /\ Same(proc[o], p, Settings)
    BY <2>2, Set DEF Frame
  <2>4. /\ p.inside = proc[o].inside
        /\ p.url = IF c.do = "load" THEN LoadEnv(o, Command(o, w).env) ELSE proc[o].url
    <3>1. Formed(proc[o])
      BY DEF Frame
    <3> QED
      BY <2>2, <3>1 DEF Formed
  <2>5. Popping(o, w, p)
    BY <2>2, <2>3, Pops DEF Same, Settings
  <2>6. PICK q : q = proc'[o]
    OBVIOUS
  <2>7. /\ q.at = t /\ q.stages[1]["main"] = Tail(cs) /\ q.inside = p.inside /\ q.url = p.url
    BY <1>1, <1>3, <2>3, <2>5, <2>6 DEF Popping, Shorter, Same, Settings
  <2>8. c.do \in {"remove", "load", "hash", "diff", "patch", "restart", "apply", "pg_dump"}
    BY <1>1, <1>3 DEF SchemaDos, Snapshots
  <2>9. /\ c.do \in {"load", "hash", "pg_dump", "restart", "apply"} => UNCHANGED files
        /\ c.do \in {"load", "hash", "pg_dump", "remove", "diff", "patch", "apply"} => UNCHANGED database
        /\ c.do = "restart" => database' = [database EXCEPT ![m] = [Fresh EXCEPT !.up = FALSE]]
        /\ c.do = "restart" => ~proc[o].inside
    BY <1>1, <1>2, <1>3, <1>11 DEF SchemaCommand, Restart, schema
  <2>10. c.do = "restart" => eb.applied = <<>> /\ eb.schema = {}
    <3>1. PICK d : d = [Fresh EXCEPT !.up = FALSE]
      OBVIOUS
    <3>2. d.applied = <<>> /\ d.schema = {}
      BY <3>1 DEF Fresh
    <3> QED
      BY <1>5, <1>9, <2>9, <3>1, <3>2
  <2>11. ASSUME Has(cs, "pg_dump")
         PROVE  DumpKnows(eb, gs, Tail(cs))
    <3>1. c.do = "apply" => Pending(db, fs) = {}
      BY <1>2, <1>8, <1>11, <2>11
    <3>2. \/ c.do \in {"remove", "diff", "patch"} /\ eb = db
          \/ c.do \in {"load", "hash", "pg_dump"} /\ eb = db /\ gs = fs
          \/ c.do = "restart" /\ gs = fs /\ eb.applied = <<>> /\ eb.schema = {}
          \/ c.do = "apply" /\ gs = fs /\ eb = db /\ Pending(db, fs) = {}
      BY <1>2, <1>9, <2>8, <2>9, <2>10, <3>1
    <3> QED
      BY <1>1, <1>2, <1>3, <1>4, <3>2, KnowsDone
  <2>12. ASSUME Has(cs, "pg_dump")
         PROVE  Settled(q, Tail(cs))
    <3>1. ~Has(Tail(cs), "restart") => ~q.inside
      BY <1>4, <1>7, <2>4, <2>7, <2>9, <2>12 DEF Settled
    <3>2. ~Has(Tail(cs), "apply") => q.url = "dev"
      <4>1. c.do = "apply" => q.url = "dev"
        BY <1>8, <2>4, <2>7, <2>12
      <4>2. c.do # "apply" /\ ~Has(Tail(cs), "apply") => ~Has(cs, "apply") /\ proc[o].url = "dev"
        BY <1>4, <1>7, <2>12 DEF Settled
      <4> QED
        BY <1>8, <2>4, <2>7, <2>12, <4>1, <4>2
    <3> QED
      BY <3>1, <3>2 DEF Settled
  <2>13. DumpKnows(eb, gs, Tail(cs)) /\ Settled(q, Tail(cs))
    BY <1>7, <2>11, <2>12 DEF DumpKnows, Settled
  <2> QED
    BY <1>6, <1>9, <2>6, <2>7, <2>13 DEF SnapshotKnows
<1> QED
  BY <1>10, <1>11
-----------------------------------------------------------------------------
(* Where a process makes a snapshot others at most apply the next of its   *)
(* migrations.                                                             *)
LEMMA SnapshotsUndisturbed ==
    ASSUME CopiesApart, Frame, Records, Migrations, Urls, BuildsAsAsked, SchemaOrdered,
           NEW o \in Operator, NEW w \in Busy(o),
           \/ Command(o, w).do = "up" /\ Up(o, w)
           \/ proc[o].at \in SchemaTargets /\ SchemaCommand(o, w),
           NEW q \in Operator, q # o,
           proc[q].stages # <<>>, proc[q].at \in SchemaTargets, Snapshots(proc[q].at)
    PROVE  LET db == database[Here(q)]
               fs == files[Here(q)]
           IN  /\ files'[Here(q)] = fs
               /\ \/ database'[Here(q)] = db
                  \/ \E i \in Pending(db, fs) :
                        /\ \A j \in Pending(db, fs) : i <= j
                        /\ database'[Here(q)] = Apply(db, fs[i])
<1>1. PICK t, u, m, k : t = proc[o].at /\ u = proc[q].at /\ m = Here(o) /\ k = Here(q)
  OBVIOUS
<1>2. PICK do : do = Command(o, w).do
  OBVIOUS
<1>3. t \in Asked(o) /\ u \in Asked(q) /\ m \in Machine /\ k \in Machine
  BY <1>1, BusyWorker, MachineOf DEF Frame
<1>4. /\ \A x, y : y # k /\ files' = [files EXCEPT ![y] = x] => files'[k] = files[k]
      /\ \A x, y : y # k /\ database' = [database EXCEPT ![y] = x] => database'[k] = database[k]
  <2>1. k \in DOMAIN files /\ k \in DOMAIN database
    BY <1>3 DEF Migrations, Records, Databases
  <2>2. ASSUME NEW x, NEW y, y # k, files' = [files EXCEPT ![y] = x]
        PROVE  files'[k] = files[k]
    BY <2>1, <2>2 DEF Migrations
  <2>3. ASSUME NEW x, NEW y, y # k, database' = [database EXCEPT ![y] = x]
        PROVE  database'[k] = database[k]
    BY <2>1, <2>3 DEF Records, Databases
  <2> QED
    BY <2>2, <2>3
<1>5. k = m => t.target \notin {"iterate", "diff", "snapshot", "ecr"}
  <2>1. PICK i \in DOMAIN session[q].targets : u = session[q].targets[i]
    BY <1>3 DEF Asked
  <2>2. PICK j \in DOMAIN session[o].targets : t = session[o].targets[j]
    BY <1>3 DEF Asked
  <2>3. session \in Session /\ (k = m => session[q].machine = session[o].machine)
    BY <1>1 DEF Frame, Here
  <2>4. u.target \in {"iterate", "snapshot"}
    BY <1>1 DEF Snapshots
  <2> QED
    BY <2>1, <2>2, <2>3, <2>4 DEF CopiesApart
<1>6. CASE do = "up" /\ Up(o, w)
  <2>1. PICK cs : cs = proc[o].stages[1][w]
    OBVIOUS
  <2>2. /\ proc[o].stages # <<>> /\ w \in DOMAIN proc[o].stages[1] /\ cs[1].do = "up"
        /\ Sorted(cs, 0, 7) /\ cs # <<>>
    BY <1>2, <1>6, <2>1, BusyWorker
  <2>3. Has(cs, "up")
    BY <2>2, Popped
  <2>4. t \notin SchemaTargets
    <3>1. t \in SchemaTargets => "up" \in SchemaDos(t)
      BY <1>1, <1>2, <1>6, SchemaHead
    <3> QED
      BY <3>1 DEF SchemaDos, SchemaTargets
  <2>5. t.target = "ecr"
    BY <1>1, <2>1, <2>2, <2>3, <2>4 DEF BuildsAsAsked, Suits
  <2>6. UNCHANGED files /\ \E x : database' = [database EXCEPT ![m] = x]
    BY <1>1, <1>6 DEF Up, Restart
  <2> QED
    BY <1>1, <1>4, <1>5, <2>5, <2>6
<1>7. CASE t \in SchemaTargets /\ SchemaCommand(o, w)
  <2>1. do \in SchemaDos(t)
    BY <1>1, <1>2, <1>7, SchemaHead
  <2>2. k = m => do \in {"load", "apply"}
    <3>1. k = m => t.target = "apply"
      BY <1>5, <1>7 DEF SchemaTargets
    <3> QED
      BY <2>1, <3>1 DEF SchemaDos
  <2>3. CASE do # "apply"
    <3>1. /\ UNCHANGED files \/ (do # "load" /\ \E x : files' = [files EXCEPT ![m] = x])
          /\ UNCHANGED database \/ (do # "load" /\ \E x : database' = [database EXCEPT ![m] = x])
      BY <1>1, <1>2, <1>7, <2>3 DEF SchemaCommand, Restart, schema
    <3> QED
      BY <1>1, <1>4, <2>2, <2>3, <3>1
  <2>4. CASE do = "apply"
    <3>1. PICK x : x = Connected(o)
      OBVIOUS
    <3>2. /\ UNCHANGED files
          /\ \/ UNCHANGED database
             \/ \E i \in Pending(database[x], files[m]) :
                    /\ \A j \in Pending(database[x], files[m]) : i <= j
                    /\ database' = [database EXCEPT ![x] = Apply(database[x], files[m][i])]
      BY <1>1, <1>2, <1>7, <2>4, <3>1 DEF SchemaCommand
    <3>3. CASE x # k
      <4>1. database'[k] = database[k]
        BY <1>4, <3>2, <3>3
      <4> QED
        BY <1>1, <3>2, <4>1
    <3>4. CASE x = k
      <4>1. x = m
        BY <1>1, <1>3, <3>1, <3>4, ConnectedHere
      <4>2. k \in DOMAIN database
        BY <1>3 DEF Records, Databases
      <4>3. \/ UNCHANGED database
            \/ \E i \in Pending(database[k], files[k]) :
                    /\ \A j \in Pending(database[k], files[k]) : i <= j
                    /\ database'[k] = Apply(database[k], files[k][i])
        BY <3>2, <3>4, <4>1, <4>2
      <4> QED
        BY <1>1, <3>2, <4>3
    <3> QED
      BY <3>3, <3>4
  <2> QED
    BY <2>3, <2>4
<1> QED
  BY <1>1, <1>2, <1>6, <1>7
-----------------------------------------------------------------------------
(* What all processes know.                                                *)
SnapshotsKnow == \A o \in Operator : SnapshotKnows(o)

(* Nothing that a process knows is undone by another's command.            *)
LEMMA SnapshotKnowsStill ==
    ASSUME Frame, NEW q \in Operator, SnapshotKnows(q), UNCHANGED session, proc'[q] = proc[q],
           files'[Here(q)] = files[Here(q)],
           database'[Here(q)].applied = database[Here(q)].applied,
           database'[Here(q)].schema = database[Here(q)].schema
    PROVE  SnapshotKnows(q)'
<1>1. PICK m, eb, db, fs, cs : /\ m = Here(q) /\ eb = database'[m] /\ db = database[m]
                               /\ fs = files[m] /\ cs = proc[q].stages[1]["main"]
  OBVIOUS
<1>2. Here(q)' = m
  BY <1>1 DEF Here
<1>3. DumpKnows(db, fs, cs) => DumpKnows(eb, fs, cs)
  BY <1>1, KnowsAlike
<1> QED
  BY <1>1, <1>2, <1>3 DEF SnapshotKnows

(* Every step keeps what every process knows.                              *)
LEMMA SnapshotsKnowStep ==
    ASSUME SnapshotsFindEnv, CopiesApart, Frame, Records, Migrations, ConnectsAsAsked, Urls,
           BuildsAsAsked, SchemaOrdered, SnapshotsKnow, [OpsNext]_ops
    PROVE  SnapshotsKnow'
<1>1. ASSUME UNCHANGED <<session, proc, files, database>>
      PROVE  SnapshotsKnow'
  BY <1>1, SnapshotKnowsStill DEF SnapshotsKnow
<1>2. ASSUME UNCHANGED <<session, files, database>>, NEW o \in Operator, Others(o), SnapshotKnows(o)'
      PROVE  SnapshotsKnow'
  <2>1. ASSUME NEW q \in Operator, q # o
        PROVE  SnapshotKnows(q)'
    BY <1>2, <2>1, SnapshotKnowsStill DEF SnapshotsKnow, Others
  <2> QED
    BY <1>2, <2>1 DEF SnapshotsKnow
<1>3. CASE External
  <2>1. ASSUME NEW m \in Machine, Starts(m)
        PROVE  SnapshotsKnow'
    <3>1. UNCHANGED <<session, proc, files>> /\ database' = [database EXCEPT ![m].up = TRUE]
      BY <2>1 DEF Starts, mage
    <3>2. PICK d : d = [database[m] EXCEPT !.up = TRUE]
      OBVIOUS
    <3>3. PICK x, y, z : database[m] = [up |-> x, applied |-> y, schema |-> z]
      BY DEF Records
    <3>4. d.applied = database[m].applied /\ d.schema = database[m].schema
      BY <3>2, <3>3
    <3>5. database' = [database EXCEPT ![m] = d]
      BY <3>1, <3>2
    <3>6. ASSUME NEW q \in Operator
          PROVE  SnapshotKnows(q)'
      <4>1. Here(q) \in Machine \cup Shared
        BY MachineOf
      <4>2. /\ database'[Here(q)].applied = database[Here(q)].applied
            /\ database'[Here(q)].schema = database[Here(q)].schema
        BY <3>4, <3>5, <4>1 DEF Records, Databases
      <4> QED
        BY <3>1, <4>2, SnapshotKnowsStill DEF SnapshotsKnow
    <3> QED
      BY <3>6 DEF SnapshotsKnow
  <2>2. UNCHANGED <<session, proc, files, database>> \/ \E m \in Machine : Starts(m)
    BY <1>3 DEF External, Edit, Replace, schema, mage
  <2> QED
    BY <1>1, <2>1, <2>2
<1>4. ASSUME NEW o \in Operator, Begin(o)
      PROVE  SnapshotsKnow'
  <2>1. PICK q : q = proc'[o]
    OBVIOUS
  <2>2. /\ q.at \in Target /\ Others(o) /\ q.stages = Stages(q.at, o)
        /\ UNCHANGED <<session, files, database>>
    BY <1>4, <2>1, Begins DEF schema
  <2>3. SnapshotKnows(o)'
    <3>1. ASSUME q.at \in SchemaTargets, Snapshots(q.at)
          PROVE  Has(q.stages[1]["main"], "restart") /\ Has(q.stages[1]["main"], "apply")
      <4>1. Stages(q.at, o) = SchemaStages(q.at, Here(o))
        BY <2>2, <3>1, TargetKinds DEF Stages
      <4>2. PICK cs : cs = SchemaStages(q.at, Here(o))[1]["main"]
        OBVIOUS
      <4>3. SchemaOrder(q.at, cs) /\ Has(cs, "restart")
        BY <3>1, <4>2, SchemaListOrder
      <4>4. Has(cs, "apply")
        BY <3>1, <4>3 DEF SchemaOrder
      <4> QED
        BY <2>2, <4>1, <4>2, <4>3, <4>4
    <3> QED
      BY <2>1, <3>1 DEF SnapshotKnows, DumpKnows, Settled
  <2> QED
    BY <1>2, <2>2, <2>3
<1>5. ASSUME NEW o \in Operator, Do(o)
      PROVE  SnapshotsKnow'
  <2>1. PICK w \in Busy(o) :
            /\ Performs(o, w)
            /\ \/ Command(o, w).do = "load" /\ Load(o, w) /\ UNCHANGED schema
               \/ Command(o, w).do \in {"build", "login"} /\ UNCHANGED schema
               \/ Command(o, w).do = "up" /\ Up(o, w)
               \/ ServiceTarget(proc[o].at) /\ UNCHANGED schema
               \/ InfraTarget(proc[o].at) /\ UNCHANGED schema
               \/ ~ServiceTarget(proc[o].at) /\ ~InfraTarget(proc[o].at) /\ SchemaCommand(o, w)
    BY <1>5 DEF Do, Performs
  <2>2. /\ UNCHANGED session
        /\ UNCHANGED proc \/ \E p : Formed(p) /\ Same(proc[o], p, Settings) /\ Advance(o, w, p)
    BY <2>1, CommandSets
  <2>3. Others(o) /\ proc'[o].at = proc[o].at
    <3>1. CASE UNCHANGED proc
      BY <3>1 DEF Others, Frame
    <3>2. ASSUME NEW p, Formed(p), Same(proc[o], p, Settings), Advance(o, w, p)
          PROVE  Others(o) /\ proc'[o].at = proc[o].at
      <4>1. Popping(o, w, p)
        BY <3>2, Pops DEF Same, Settings
      <4> QED
        BY <3>2, <4>1 DEF Popping, Same, Settings
    <3> QED
      BY <2>2, <3>1, <3>2
  <2>4. \/ UNCHANGED schema
        \/ Command(o, w).do = "up" /\ Up(o, w)
        \/ proc[o].at \in SchemaTargets /\ SchemaCommand(o, w)
    BY <2>1, BusyWorker, TargetKinds
  <2>5. ASSUME NEW q \in Operator, q # o, UNCHANGED schema
        PROVE  SnapshotKnows(q)'
    BY <2>2, <2>3, <2>5, SnapshotKnowsStill DEF SnapshotsKnow, Others, schema
  <2>6. ASSUME NEW q \in Operator, q # o, ~UNCHANGED schema,
               proc[q].stages # <<>>, proc[q].at \in SchemaTargets, Snapshots(proc[q].at)
        PROVE  SnapshotKnows(q)'
    <3>1. PICK m, db, fs, eb, gs, cs :
            /\ m = Here(q) /\ db = database[m] /\ fs = files[m] /\ eb = database'[m] /\ gs = files'[m]
            /\ cs = proc[q].stages[1]["main"]
      OBVIOUS
    <3>2. /\ gs = fs
          /\ \/ eb = db
             \/ \E i \in Pending(db, fs) :
                    (\A j \in Pending(db, fs) : i <= j) /\ eb = Apply(db, fs[i])
      BY <2>4, <2>6, <3>1, SnapshotsUndisturbed
    <3>3. /\ m \in Machine /\ fs \in Seq(File) /\ Numbered(fs, versions)
          /\ db = [up |-> db.up, applied |-> db.applied, schema |-> db.schema]
          /\ DumpKnows(db, fs, cs) /\ Settled(proc[q], cs)
      BY <2>6, <3>1, MachineOf DEF Migrations, Records, SnapshotsKnow, SnapshotKnows
    <3>4. DumpKnows(eb, fs, cs)
      BY <3>2, <3>3, KnowsApplied
    <3>5. proc'[q] = proc[q] /\ Here(q)' = m
      BY <2>2, <2>3, <2>6, <3>1 DEF Others, Here
    <3> QED
      BY <3>1, <3>2, <3>3, <3>4, <3>5 DEF SnapshotKnows
  <2>7. ASSUME NEW q \in Operator, q # o,
               ~(proc[q].stages # <<>> /\ proc[q].at \in SchemaTargets /\ Snapshots(proc[q].at))
        PROVE  SnapshotKnows(q)'
    BY <2>3, <2>7 DEF SnapshotKnows, Others
  <2>8. SnapshotKnows(o)'
    <3>1. CASE proc[o].at \in SchemaTargets /\ Snapshots(proc[o].at)
      <4>1. PICK t, do : t = proc[o].at /\ do = Command(o, w).do
        OBVIOUS
      <4>2. do \in SchemaDos(t) /\ t.target \in {"iterate", "diff", "snapshot", "apply"}
        BY <3>1, <4>1, SchemaHead DEF SchemaTargets
      <4>3. do \notin {"up", "build", "login"}
        BY <4>2 DEF SchemaDos
      <4>4. ~ServiceTarget(t) /\ ~InfraTarget(t)
        BY <4>2 DEF ServiceTarget, InfraTarget
      <4>5. (do = "load" /\ Load(o, w) /\ UNCHANGED schema) \/ SchemaCommand(o, w)
        BY <2>1, <4>1, <4>3, <4>4
      <4> QED
        BY <3>1, <4>1, <4>5, SnapshotCommandKnows DEF SnapshotsKnow
    <3>2. CASE ~(proc[o].at \in SchemaTargets /\ Snapshots(proc[o].at))
      <4>1. PICK t : t = proc[o].at
        OBVIOUS
      <4>2. proc'[o].at = t /\ ~(t \in SchemaTargets /\ Snapshots(t))
        BY <2>3, <3>2, <4>1
      <4> QED
        BY <4>2 DEF SnapshotKnows
    <3> QED
      BY <3>1, <3>2
  <2> QED
    BY <2>5, <2>6, <2>7, <2>8 DEF SnapshotsKnow
<1>6. ASSUME NEW o \in Operator, Finish(o)
      PROVE  SnapshotsKnow'
  <2>1. /\ Others(o) /\ proc'[o].at = proc[o].at /\ proc[o].stages # <<>>
        /\ proc'[o].stages = <<>> \/ Len(proc[o].stages) = 2
    BY <1>6, Finishes DEF Same
  <2>2. Staged(proc[o].at, proc[o].stages)
    BY <2>1, AskedTargets
  <2>3. proc[o].at \in SchemaTargets => Len(proc[o].stages) = 1
    BY <2>2, SchemaAlone
  <2>4. proc[o].at \in SchemaTargets => proc'[o].stages = <<>>
    <3>1. proc[o].at \in SchemaTargets => Len(proc[o].stages) # 2
      BY <2>3
    <3> QED
      BY <2>1, <3>1
  <2>5. SnapshotKnows(o)'
    BY <2>1, <2>4 DEF SnapshotKnows
  <2>6. UNCHANGED <<session, files, database>>
    BY <1>6 DEF Finish, FinishStage, schema
  <2> QED
    BY <1>2, <2>1, <2>5, <2>6
<1>7. ASSUME NEW o \in Operator, End(o)
      PROVE  SnapshotsKnow'
  <2>1. PICK q : q = proc'[o]
    OBVIOUS
  <2>2. /\ Others(o) /\ q.at = proc[o].at /\ UNCHANGED <<session, files, database>>
        /\ q.url = proc[o].url /\ q.inside = proc[o].inside
        /\ q.stages # <<>> =>
            /\ proc[o].stages # <<>> /\ Staged(proc[o].at, q.stages)
            /\ \A x \in DOMAIN q.stages[1] : q.stages[1][x] \in {<<>>, proc[o].stages[1][x]}
    BY <1>7, <2>1, EndLeaves DEF Same, schema
  <2>3. ASSUME q.stages # <<>>, q.at \in SchemaTargets, Snapshots(q.at)
        PROVE  /\ DumpKnows(database[Here(o)], files[Here(o)], q.stages[1]["main"])
               /\ Settled(q, q.stages[1]["main"])
    <3>1. DOMAIN q.stages[1] = {"main"}
      BY <2>2, <2>3, SchemaAlone
    <3>2. /\ DumpKnows(database[Here(o)], files[Here(o)], proc[o].stages[1]["main"])
          /\ Settled(q, proc[o].stages[1]["main"])
      BY <2>2, <2>3 DEF SnapshotsKnow, SnapshotKnows, Settled
    <3>3. DumpKnows(database[Here(o)], files[Here(o)], <<>>) /\ Settled(q, <<>>)
      BY NoCommands DEF DumpKnows, Settled
    <3> QED
      BY <2>2, <2>3, <3>1, <3>2, <3>3
  <2>4. SnapshotKnows(o)'
    <3>1. Here(o)' = Here(o)
      BY <2>2 DEF Here
    <3> QED
      BY <2>1, <2>2, <2>3, <3>1 DEF SnapshotKnows
  <2> QED
    BY <1>2, <2>2, <2>4
<1> QED
  BY <1>1, <1>3, <1>4, <1>5, <1>6, <1>7 DEF OpsNext, ops, mage, schema

(* The snapshots are right.                                                *)
SnapshotsRight == snapshot = [m \in Machine |-> snapshot[m]] /\ SnapshotIsOfTheMigrations

(* Every step keeps SnapshotsRight.                                        *)
LEMMA SnapshotsRightStep ==
    ASSUME Frame, Records, Migrations, SchemaOrdered, SnapshotsKnow, SnapshotsRight, [OpsNext]_ops
    PROVE  SnapshotsRight'
<1>1. ASSUME UNCHANGED snapshot
      PROVE  SnapshotsRight'
  BY <1>1 DEF SnapshotsRight, SnapshotIsOfTheMigrations
<1>2. CASE External
  BY <1>1, <1>2 DEF External, Edit, Starts, schema
<1>3. ASSUME NEW o \in Operator, Begin(o) \/ Finish(o) \/ End(o)
      PROVE  SnapshotsRight'
  BY <1>1, <1>3 DEF Begin, Finish, End, schema
<1>4. ASSUME NEW o \in Operator, Do(o)
      PROVE  SnapshotsRight'
  <2>1. PICK w \in Busy(o) :
            \/ UNCHANGED snapshot
            \/ (~ServiceTarget(proc[o].at) /\ ~InfraTarget(proc[o].at) /\ SchemaCommand(o, w))
    BY <1>4 DEF Do, Up, schema
  <2>2. CASE UNCHANGED snapshot
    BY <1>1, <2>2
  <2>3. CASE ~UNCHANGED snapshot
    <3>1. PICK m, db, fs : m = Here(o) /\ db = database[m] /\ fs = files[m]
      OBVIOUS
    <3>2. proc[o].at \in SchemaTargets /\ SchemaCommand(o, w)
      BY <2>1, <2>3, BusyWorker, TargetKinds
    <3>3. PICK cs, t : cs = proc[o].stages[1]["main"] /\ t = proc[o].at
      OBVIOUS
    <3>4. /\ Command(o, w).do = "pg_dump"
          /\ \E x : /\ x = Dumped(o, Command(o, w).tool)
                   /\ snapshot' = [snapshot EXCEPT ![m] = [of |-> fs, schema |-> database[x].schema]]
      BY <2>3, <3>1, <3>2 DEF SchemaCommand, schema
    <3>5. /\ Sorted(cs, 0, 7) /\ cs # <<>> /\ SchemaOrder(t, cs) /\ proc[o].stages # <<>>
          /\ cs[1].do = "pg_dump" /\ "pg_dump" \in SchemaDos(t)
      BY <3>2, <3>3, <3>4, SchemaHead
    <3>6. Snapshots(t)
      BY <3>2, <3>3, <3>5 DEF SchemaDos, Snapshots, SchemaTargets
    <3>7. DumpKnows(db, fs, cs) /\ Settled(proc[o], cs)
      BY <3>1, <3>2, <3>3, <3>5, <3>6 DEF SnapshotsKnow, SnapshotKnows
    <3>8. Rank("restart") = 4 /\ Rank("apply") = 5 /\ Rank("pg_dump") = 6
      BY DEF Rank
    <3>9. ~Has(cs, "restart") /\ ~Has(cs, "apply")
      <4>1. PICK do : do = cs[1].do
        OBVIOUS
      <4>2. do # "load" => \A y : Rank(y) < Rank(do) /\ y # "load" => ~Has(cs, y)
        BY <3>5, <4>1, SchemaOrderPopped
      <4> QED
        BY <3>5, <3>8, <4>1, <4>2
    <3>10. Has(cs, "pg_dump")
      BY <3>5, Popped
    <3>11. db.schema = SchemaOf(fs)
      BY <3>7, <3>9, <3>10 DEF DumpKnows, UpTo
    <3>12. snapshot' = [snapshot EXCEPT ![m] = [of |-> fs, schema |-> db.schema]]
      <4>1. proc[o].url = "dev"
        BY <3>7, <3>9, <3>10 DEF Settled
      <4>2. \A x : Dumped(o, x) = m
        BY <3>1, <4>1 DEF Dumped, Connected
      <4> QED
        BY <3>1, <3>4, <4>2
    <3>13. ASSUME NEW k \in Machine
           PROVE  snapshot'[k].schema = SchemaOf(snapshot'[k].of)
      <4>1. snapshot'[k] = IF k = m THEN [of |-> fs, schema |-> db.schema] ELSE snapshot[k]
        BY <3>12 DEF SnapshotsRight
      <4>2. CASE k = m
        BY <3>11, <4>1, <4>2
      <4>3. CASE k # m
        BY <4>1, <4>3 DEF SnapshotsRight, SnapshotIsOfTheMigrations
      <4> QED
        BY <4>2, <4>3
    <3>14. snapshot' = [k \in Machine |-> snapshot'[k]]
      BY <3>12 DEF SnapshotsRight
    <3> QED
      BY <3>13, <3>14 DEF SnapshotsRight, SnapshotIsOfTheMigrations
  <2> QED
    BY <2>2, <2>3
<1> QED
  BY <1>1, <1>2, <1>3, <1>4 DEF OpsNext, ops, schema

(* All of this holds at first.                                             *)
LEMMA SnapshotsBegin ==
    OpsInit => Records /\ Migrations /\ SchemaOrdered /\ SnapshotsKnow /\ SnapshotsRight
<1> SUFFICES ASSUME OpsInit
             PROVE  Records /\ Migrations /\ SchemaOrdered /\ SnapshotsKnow /\ SnapshotsRight
  OBVIOUS
<1>1. SchemaInit /\ \A o \in Operator : proc[o].stages = <<>>
  BY DEF OpsInit, MageInit, NewProcess
<1>2. Records
  <2>1. \A x \in Machine \cup Shared : database[x] = Fresh
    BY <1>1 DEF SchemaInit
  <2>2. database = [x \in Machine \cup Shared |-> database[x]]
    BY <1>1 DEF SchemaInit
  <2>3. Fresh = [up |-> Fresh.up, applied |-> Fresh.applied, schema |-> Fresh.schema]
    BY DEF Fresh
  <2> QED
    BY <2>1, <2>2, <2>3 DEF Records, Databases
<1>3. Migrations
  <2>1. /\ versions \in Nat /\ desired = [m \in Machine |-> desired[m]]
        /\ files = [m \in Machine |-> files[m]]
        /\ \A m \in Machine : desired[m] = {} /\ files[m] = <<>>
    BY <1>1 DEF SchemaInit
  <2>2. <<>> \in Seq(File) /\ DOMAIN <<>> = {}
    OBVIOUS
  <2>3. Numbered(<<>>, versions)
    BY <2>2 DEF Numbered
  <2> QED
    BY <2>1, <2>2, <2>3 DEF Migrations
<1>4. SchemaOrdered /\ SnapshotsKnow
  BY <1>1 DEF SchemaOrdered, SnapshotsKnow, SnapshotKnows
<1>5. SnapshotsRight
  <2>1. /\ snapshot = [m \in Machine |-> snapshot[m]]
        /\ \A m \in Machine : snapshot[m] = [of |-> <<>>, schema |-> {}]
    BY <1>1 DEF SchemaInit
  <2>2. \A m \in Machine : snapshot[m].schema = {} /\ snapshot[m].of = <<>>
    BY <2>1
  <2> QED
    BY <2>1, <2>2, NoSchema DEF SnapshotsRight, SnapshotIsOfTheMigrations
<1> QED
  BY <1>2, <1>3, <1>4, <1>5

(* A snapshot is the schema that its migrations make of an empty database  *)
(* (atlas.go:128, schema.go:70), for the container was restarted, if no    *)
(* other process writes migrations or starts the development database anew *)
(* where it is made: others may apply the migrations (dev.go:80,           *)
(* mage.go:25).                                                            *)
THEOREM SnapshotsAreOfTheirMigrations ==
    ASSUME SnapshotsFindEnv, CopiesApart
    PROVE  OpsSpec => []SnapshotIsOfTheMigrations
<1> DEFINE Inv == /\ Frame /\ ConnectsAsAsked /\ Urls /\ BuildsAsAsked /\ Records /\ Migrations
                  /\ SchemaOrdered /\ SnapshotsKnow /\ SnapshotsRight
<1>1. OpsInit => Inv
  <2>1. OpsInit => BuildsAsAsked
    BY DEF OpsInit, MageInit, NewProcess, BuildsAsAsked
  <2> QED
    BY <2>1, FrameBegins, ConnectsBegins, UrlsBegin, SnapshotsBegin
<1>2. Inv /\ [OpsNext]_ops => Inv'
  BY FrameStep, ConnectsStep, UrlsStep, BuildersStep, RecordsStep, MigrationsStep,
     SchemaOrderedStep, SnapshotsKnowStep, SnapshotsRightStep
<1>3. Inv => SnapshotIsOfTheMigrations
  BY DEF SnapshotsRight
<1> QED
  BY <1>1, <1>2, <1>3, PTL DEF OpsSpec
-----------------------------------------------------------------------------
USE AppLifecycleAssumption

(* The process has been constructed and has not ended.                     *)
Live == phase \in {"starting", "running", "stopping", "unwinding"}

(* The parts that have been constructed, or started.                       *)
Done == {order[i] : i \in 1 .. at}

(* The order is one of the world's parts.                                  *)
Ordered ==
    /\ world \in World /\ order \in Order
    /\ {order[i] : i \in DOMAIN order} = PartsOf(world)
    /\ at \in 0 .. Len(order)

PoolsInUse == {"rw", "ro"} \cap PartsOf(world)
Valid == ValidatedAtBoot(world.linked, world.resolver)

(* What parts that are constructed, or started, hold.                      *)
Construction ==
    phase = "constructing" =>
        /\ \A p \in Done : Constructed(p) \subseteq open
        /\ open \subseteq PoolsInUse \cup {"system", "listener"}
        /\ "tenancy" \in Done => Valid
        /\ ~failed

Holding ==
    Live =>
        /\ Valid
        /\ "transactors" \in Done \/ phase = "starting" => PoolsInUse \subseteq open
        /\ "system" \in Done \/ phase = "starting" => "system" \in open
        /\ "auth" \in Done => "jwks" \in open
        /\ "temporal" \in Done => "connection" \in open
        /\ "client" \in Done => "generated_client" \in open
        /\ phase \in {"starting", "running"} => ~failed

(* Who is to close what is open.                                           *)
Closer(x) ==
    \/ x = "generated_client"
    \/ \E p \in Done : x \in StopHook(p)
    \/ x = "namespace" /\ (~world.remove \/ failed \/ phase = "unwinding")
    \/ x \in {"namespace_client", "connection"} /\ failed
    \/ x \in PoolsInUse \cup {"system", "listener"} /\ phase = "starting"
    \/ x \in {"namespace_client", "worker_1", "rw", "ro", "system", "listener"}
       /\ phase = "unwinding"

Closing == Live => \A x \in open : Closer(x)

LifeInvariant == Ordered /\ Construction /\ Holding /\ Closing /\ StoppedMeansClosed

(* Orders, as sets of parts.                                               *)
LEMMA OrderFacts ==
    ASSUME Ordered
    PROVE  /\ Len(order) \in Nat /\ DOMAIN order = 1 .. Len(order)
           /\ \A i \in 1 .. Len(order) : order[i] \in PartsOf(world)
           /\ \A p \in PartsOf(world) : \E i \in 1 .. Len(order) : order[i] = p
           /\ \A i, j \in 1 .. Len(order) : order[i] = order[j] => i = j
           /\ \A i, j \in 1 .. Len(order) : order[j] \in Needs(order[i]) => j < i
<1>1. /\ order \in Seq(Part)
      /\ \A i, j \in DOMAIN order : order[i] = order[j] => i = j
      /\ \A i, j \in DOMAIN order : order[j] \in Needs(order[i]) => j < i
  BY DEF Ordered
<1>2. Len(order) \in Nat /\ DOMAIN order = 1 .. Len(order)
  BY <1>1
<1> QED
  BY <1>1, <1>2 DEF Ordered

(* What is done has all that it needs.                                     *)
LEMMA PartsAre ==
    ASSUME Ordered
    PROVE  /\ Done \subseteq PartsOf(world) /\ PartsOf(world) \subseteq Part
           /\ at = 0 => Done = {}
           /\ at = Len(order) => Done = PartsOf(world)
           /\ \A p \in Done : Needs(p) \cap PartsOf(world) \subseteq Done
<1>1. at \in 0 .. Len(order) /\ Len(order) \in Nat
  BY OrderFacts DEF Ordered
<1>2. Done \subseteq PartsOf(world)
  BY <1>1, OrderFacts DEF Done
<1>3. PartsOf(world) \subseteq Part
  BY DEF PartsOf
<1>4. at = 0 => Done = {}
  BY DEF Done
<1>5. at = Len(order) => Done = PartsOf(world)
  BY <1>2, OrderFacts DEF Done
<1>6. ASSUME NEW p \in Done, NEW q \in Needs(p) \cap PartsOf(world)
      PROVE  q \in Done
  <2>1. PICK i \in 1 .. at : p = order[i]
    BY DEF Done
  <2>2. PICK j \in 1 .. Len(order) : order[j] = q
    BY OrderFacts
  <2>3. j < i
    BY <1>1, <2>1, <2>2, OrderFacts
  <2> QED
    BY <1>1, <2>1, <2>2, <2>3 DEF Done
<1> QED
  BY <1>2, <1>3, <1>4, <1>5, <1>6

(* The next part has all that it needs.                                    *)
LEMMA Forward ==
    ASSUME Ordered, at < Len(order), at' = at + 1, order' = order, world' = world
    PROVE  /\ Ordered'
           /\ order[at + 1] \in PartsOf(world) /\ order[at + 1] \in Part
           /\ Done' = Done \cup {order[at + 1]}
           /\ Needs(order[at + 1]) \cap PartsOf(world) \subseteq Done
<1>1. at \in Nat /\ Len(order) \in Nat /\ at + 1 \in 1 .. Len(order)
  BY OrderFacts DEF Ordered
<1>2. Ordered'
  BY <1>1 DEF Ordered
<1>3. order[at + 1] \in PartsOf(world) /\ order[at + 1] \in Part
  BY <1>1, OrderFacts, PartsAre
<1>4. Done' = Done \cup {order[at + 1]}
  <2>1. 1 .. at + 1 = (1 .. at) \cup {at + 1}
    BY <1>1
  <2> QED
    BY <2>1 DEF Done
<1>5. ASSUME NEW q \in Needs(order[at + 1]) \cap PartsOf(world)
      PROVE  q \in Done
  <2>1. PICK j \in 1 .. Len(order) : order[j] = q
    BY OrderFacts
  <2>2. j < at + 1
    BY <1>1, <2>1, OrderFacts
  <2> QED
    BY <1>1, <2>1, <2>2 DEF Done
<1> QED
  BY <1>2, <1>3, <1>4, <1>5

(* The last part is needed by none that is left.                           *)
LEMMA Backward ==
    ASSUME Ordered, at > 0, at' = at - 1, order' = order, world' = world
    PROVE  /\ Ordered'
           /\ order[at] \in Done
           /\ Done' = Done \ {order[at]}
           /\ \A p \in Done : order[at] \notin Needs(p)
<1>1. at \in Nat /\ Len(order) \in Nat /\ at \in 1 .. Len(order)
  BY OrderFacts DEF Ordered
<1>2. Ordered'
  BY <1>1 DEF Ordered
<1>3. order[at] \in Done
  BY <1>1 DEF Done
<1>4. Done' = Done \ {order[at]}
  <2>1. 1 .. at - 1 = (1 .. at) \ {at}
    BY <1>1
  <2>2. \A i \in 1 .. at : order[i] = order[at] => i = at
    BY <1>1, OrderFacts
  <2> QED
    BY <2>1, <2>2 DEF Done
<1>5. ASSUME NEW p \in Done
      PROVE  order[at] \notin Needs(p)
  <2>1. PICK i \in 1 .. at : p = order[i]
    BY DEF Done
  <2> QED
    BY <1>1, <2>1, OrderFacts
<1> QED
  BY <1>2, <1>3, <1>4, <1>5

(* A start hook that succeeds opens what the part's stop hook closes.      *)
LEMMA Opening ==
    ASSUME NEW p \in Part, NEW hook \in StartHook(p)
    PROVE  /\ hook.ok => \A x \in hook.opens :
                \/ x \in StopHook(p) \/ x = "generated_client"
                \/ x = "namespace" /\ ~world.remove
           /\ ~hook.ok => hook.opens \subseteq {"namespace", "namespace_client", "worker_1"}
           /\ hook.ok /\ p = "auth" => "jwks" \in hook.opens
           /\ hook.ok /\ p = "temporal" => "connection" \in hook.opens
           /\ p = "client" /\ "connection" \in open => "generated_client" \in hook.opens
           /\ "serving" \in hook.opens => p = "server" /\ hook.ok
<1>1. CASE p = "auth"
  BY <1>1 DEF StartHook, StopHook
<1>2. CASE p = "temporal"
  BY <1>2 DEF StartHook, StopHook, TemporalStart
<1>3. CASE p = "client"
  BY <1>3 DEF StartHook, StopHook
<1>4. CASE p = "workers"
  BY <1>4 DEF StartHook, StopHook, WorkersStart
<1>5. CASE p = "server"
  BY <1>5 DEF StartHook, StopHook
<1>6. CASE p \notin {"auth", "temporal", "client", "workers", "server"}
  BY <1>6 DEF StartHook
<1> QED
  BY <1>1, <1>2, <1>3, <1>4, <1>5, <1>6

(* What a part closes is its own; only the transactors close the pools.    *)
LEMMA StopHooks ==
    ASSUME NEW p \in Part
    PROVE  /\ StopHook(p) \cap {"rw", "ro"} # {} => p \in {"rw", "ro", "transactors"}
           /\ "system" \in StopHook(p) => p = "system"
           /\ "jwks" \in StopHook(p) => p = "auth"
           /\ "connection" \in StopHook(p) => p = "temporal"
           /\ "generated_client" \notin StopHook(p)
           /\ p = "temporal" => StopHook(p) \subseteq {"namespace", "namespace_client", "connection"}
           /\ "serving" \in StopHook(p) => p = "server"
BY DEF StopHook, Part, PartsOf

(* Who closes the pools, and what is needed by whom.                       *)
LEMMA Closers ==
    /\ "rw" \in StopHook("rw") /\ "ro" \in StopHook("ro") /\ "system" \in StopHook("system")
    /\ "listener" \in StopHook("server")
    /\ {"rw", "system", "server", "tenancy", "transactors"} \subseteq PartsOf(world)
    /\ Needs("transactors") = {"rw", "ro", "tenancy"} /\ "temporal" \in Needs("client")
    /\ "transactors" \in Needs("server") /\ {"system", "auth", "client"} \subseteq Needs("server")
    /\ {"auth", "temporal", "client"} \subseteq PartsOf(world)
BY DEF StopHook, PartsOf, Part, Needs
-----------------------------------------------------------------------------
LEMMA LifeInit == Init => LifeInvariant
<1> SUFFICES ASSUME Init
             PROVE  LifeInvariant
  OBVIOUS
<1>1. Ordered
  <2>1. order \in Seq(Part)
    BY DEF Init
  <2>2. Len(order) \in Nat
    BY <2>1
  <2> QED
    BY <2>2 DEF Init, Ordered
<1>2. Done = {}
  BY DEF Init, Done
<1> QED
  BY <1>1, <1>2
     DEF Init, LifeInvariant, Construction, Holding, Closing, Live, StoppedMeansClosed

(* One step of the process's life after the other.                        *)
LEMMA ConstructKeeps ==
    ASSUME LifeInvariant, Construct
    PROVE  LifeInvariant'
<1>1. /\ phase = "constructing" /\ ~failed /\ failed' = failed
      /\ world' = world /\ order' = order /\ late' = late
      /\ open \subseteq PoolsInUse \cup {"system", "listener"}
      /\ Valid' = Valid /\ PoolsInUse' = PoolsInUse /\ Ordered
  BY DEF LifeInvariant, Construction, Construct, Valid, PoolsInUse
<1>2. CASE /\ at < Len(order) /\ Constructible(order[at + 1]) /\ at' = at + 1
           /\ open' = open \cup Constructed(order[at + 1])
           /\ phase' = phase /\ exit' = exit
  <2>1. /\ Ordered' /\ order[at + 1] \in PartsOf(world)
        /\ Done' = Done \cup {order[at + 1]}
    BY <1>1, <1>2, Forward
  <2>2. Constructed(order[at + 1]) \subseteq PoolsInUse \cup {"system", "listener"}
    BY <2>1 DEF Constructed, PoolsInUse
  <2>3. order[at + 1] = "tenancy" => Valid
    BY <1>2 DEF Constructible, Valid
  <2>4. Construction'
    BY <1>1, <1>2, <2>1, <2>2, <2>3 DEF LifeInvariant, Construction, Constructed
  <2> QED
    BY <1>1, <1>2, <2>1, <2>4
       DEF LifeInvariant, Holding, Closing, Live, StoppedMeansClosed
<1>3. CASE phase' = "ended" /\ exit' = 1 /\ at' = at /\ open' = open
  BY <1>1, <1>3
     DEF LifeInvariant, Ordered, Construction, Holding, Closing, Live, StoppedMeansClosed,
         Remains, PoolsInUse
<1>4. CASE at = Len(order) /\ phase' = "starting" /\ at' = 0 /\ open' = open /\ exit' = exit
  <2>1. Ordered' /\ Done' = {}
    <3>1. Ordered'
      BY <1>1, <1>4, OrderFacts DEF Ordered
    <3> QED
      BY <1>4, <3>1 DEF Done
  <2>2. Done = PartsOf(world)
    BY <1>1, <1>4, PartsAre
  <2>3. Valid /\ PoolsInUse \cup {"system"} \subseteq open
    <3>1. \A p \in PartsOf(world) : Constructed(p) \subseteq open
      BY <1>1, <2>2 DEF LifeInvariant, Construction
    <3>2. \A p \in {"rw", "ro", "system"} : Constructed(p) = {p}
      BY DEF Constructed
    <3>3. Valid
      BY <1>1, <2>2, Closers DEF LifeInvariant, Construction
    <3> QED
      BY <3>1, <3>2, <3>3, Closers DEF PoolsInUse
  <2>4. Holding'
    BY <1>1, <1>4, <2>1, <2>3 DEF Holding
  <2>5. Closing'
    BY <1>1, <1>4 DEF Closing, Closer
  <2> QED
    BY <1>1, <1>4, <2>1, <2>4, <2>5
       DEF LifeInvariant, Construction, StoppedMeansClosed
<1>5. at <= Len(order)
  BY <1>1, OrderFacts DEF Ordered
<1>6. at < Len(order) \/ at = Len(order)
  BY <1>1, <1>5, OrderFacts DEF Ordered
<1> QED
  BY <1>2, <1>3, <1>4, <1>6 DEF Construct, Ends

LEMMA StartKeeps ==
    ASSUME LifeInvariant, Start
    PROVE  LifeInvariant'
<1>1. /\ phase = "starting" /\ Live /\ ~failed /\ failed' = failed
      /\ world' = world /\ order' = order /\ exit' = exit
      /\ Valid /\ Valid' = Valid /\ PoolsInUse' = PoolsInUse /\ Ordered
      /\ PoolsInUse \cup {"system"} \subseteq open
  BY DEF LifeInvariant, Holding, Live, Start, Valid, PoolsInUse
<1>2. CASE at = Len(order) /\ phase' = Started /\ at' = at /\ open' = open
  <2>1. Done = PartsOf(world) /\ Done' = Done /\ Ordered'
    BY <1>1, <1>2, PartsAre DEF Done, Ordered
  <2>2. phase' \in {"stopping", "running"}
    BY <1>2 DEF Started
  <2>3. Holding'
    BY <1>1, <1>2, <2>1, <2>2 DEF LifeInvariant, Holding
  <2>4. ASSUME NEW x \in open
        PROVE  Closer(x)'
    <3>1. Closer(x)
      BY <1>1 DEF LifeInvariant, Closing
    <3>2. x \in PoolsInUse \cup {"system", "listener"} => \E p \in Done : x \in StopHook(p)
      BY <2>1, Closers DEF PoolsInUse
    <3>3. \A p \in Done : StopHook(p)' = StopHook(p)
      BY <1>1 DEF StopHook
    <3> QED
      BY <1>1, <2>1, <3>1, <3>2, <3>3 DEF Closer
  <2> QED
    BY <1>1, <1>2, <2>1, <2>2, <2>3, <2>4
       DEF LifeInvariant, Construction, Closing, StoppedMeansClosed
<1>3. CASE phase' = "unwinding" /\ at' = at /\ open' = open
  <2>1. Done' = Done /\ Ordered'
    BY <1>1, <1>3 DEF Done, Ordered
  <2>2. Holding'
    BY <1>1, <1>3, <2>1 DEF LifeInvariant, Holding
  <2>3. ASSUME NEW x \in open
        PROVE  Closer(x)'
    <3>1. Closer(x)
      BY <1>1 DEF LifeInvariant, Closing
    <3>2. \A p \in Done : StopHook(p)' = StopHook(p)
      BY <1>1 DEF StopHook
    <3> QED
      BY <1>1, <1>3, <2>1, <3>1, <3>2 DEF Closer, PoolsInUse
  <2> QED
    BY <1>1, <1>3, <2>1, <2>2, <2>3
       DEF LifeInvariant, Construction, Closing, StoppedMeansClosed
<1>4. ASSUME at < Len(order), NEW hook \in StartHook(order[at + 1]),
             open' = open \cup hook.opens
      PROVE  /\ hook.ok /\ at' = at + 1 /\ phase' = phase => LifeInvariant'
             /\ ~hook.ok /\ at' = at /\ phase' = "unwinding" => LifeInvariant'
  <2> DEFINE p == order[at + 1]
  <2>0. p \in Part
    <3>1. at + 1 \in 1 .. Len(order)
      BY <1>1, <1>4, OrderFacts DEF Ordered
    <3> QED
      BY <1>1, <3>1, OrderFacts, PartsAre
  <2>1. \A q : StopHook(q)' = StopHook(q)
    BY <1>1 DEF StopHook
  <2>2. ASSUME hook.ok, at' = at + 1, phase' = phase
        PROVE  LifeInvariant'
    <3>1. /\ Ordered' /\ p \in PartsOf(world) /\ Done' = Done \cup {p}
          /\ Needs(p) \cap PartsOf(world) \subseteq Done
      BY <1>1, <1>4, <2>2, Forward
    <3>2. p = "client" => "connection" \in open
      BY <1>1, <3>1, Closers DEF LifeInvariant, Holding
    <3>3. Holding'
      <4> HIDE DEF p
      <4>1. /\ p = "auth" => "jwks" \in hook.opens
            /\ p = "temporal" => "connection" \in hook.opens
            /\ p = "client" => "generated_client" \in hook.opens
        BY <2>0, <2>2, <3>2, <1>4, Opening DEF p
      <4> QED
        BY <1>1, <1>4, <2>2, <3>1, <4>1 DEF LifeInvariant, Holding
    <3>4. ASSUME NEW x \in open'
          PROVE  Closer(x)'
      <4>1. CASE x \in open
        <5>1. Closer(x)
          BY <1>1, <4>1 DEF LifeInvariant, Closing
        <5> QED
          BY <1>1, <2>1, <2>2, <3>1, <5>1 DEF Closer
      <4>2. CASE x \in hook.opens
        <5>1. x \in StopHook(p) \/ x = "generated_client" \/ (x = "namespace" /\ ~world.remove)
          BY <2>0, <2>2, <4>2, Opening
        <5> QED
          BY <1>1, <2>1, <3>1, <5>1 DEF Closer
      <4> QED
        BY <1>4, <4>1, <4>2
    <3> QED
      BY <1>1, <2>2, <3>1, <3>3, <3>4
         DEF LifeInvariant, Construction, Closing, StoppedMeansClosed
  <2>3. ASSUME ~hook.ok, at' = at, phase' = "unwinding"
        PROVE  LifeInvariant'
    <3>1. Done' = Done /\ Ordered'
      BY <1>1, <2>3 DEF Done, Ordered
    <3>2. Holding'
      BY <1>1, <1>4, <2>3, <3>1 DEF LifeInvariant, Holding
    <3>3. ASSUME NEW x \in open'
          PROVE  Closer(x)'
      <4>1. CASE x \in open
        <5>1. Closer(x)
          BY <1>1, <4>1 DEF LifeInvariant, Closing
        <5> QED
          BY <1>1, <2>1, <2>3, <3>1, <5>1 DEF Closer, PoolsInUse
      <4>2. CASE x \in hook.opens
        <5>1. x \in {"namespace", "namespace_client", "worker_1"}
          BY <2>0, <2>3, <4>2, Opening
        <5> QED
          BY <2>3, <5>1 DEF Closer
      <4> QED
        BY <1>4, <4>1, <4>2
    <3> QED
      BY <1>1, <2>3, <3>1, <3>2, <3>3
         DEF LifeInvariant, Construction, Closing, StoppedMeansClosed
  <2> QED
    BY <2>2, <2>3
<1>5. at < Len(order) \/ at = Len(order)
  BY <1>1, OrderFacts DEF Ordered
<1> QED
  BY <1>2, <1>3, <1>4, <1>5 DEF Start

LEMMA StopKeeps ==
    ASSUME LifeInvariant, Stop
    PROVE  LifeInvariant'
<1> DEFINE p == order[at]
<1>1. /\ phase \in {"unwinding", "stopping"} /\ Live /\ at > 0
      /\ phase' = phase /\ world' = world /\ order' = order /\ exit' = exit
      /\ Valid /\ Valid' = Valid /\ PoolsInUse' = PoolsInUse /\ Ordered
  BY DEF LifeInvariant, Holding, Live, Stop, Valid, PoolsInUse
<1>2. \A q : StopHook(q)' = StopHook(q)
  BY <1>1 DEF StopHook
<1>3. CASE open' = open \ {"serving", "listener"} /\ at' = at /\ failed' = failed
  <2>1. Done' = Done /\ Ordered'
    BY <1>1, <1>3 DEF Done, Ordered
  <2>2. Holding'
    BY <1>1, <1>3, <2>1 DEF LifeInvariant, Holding, PoolsInUse
  <2>3. ASSUME NEW x \in open'
        PROVE  Closer(x)'
    <3>1. Closer(x)
      BY <1>1, <1>3 DEF LifeInvariant, Closing
    <3> QED
      BY <1>1, <1>2, <1>3, <2>1, <3>1 DEF Closer
  <2> QED
    BY <1>1, <1>3, <2>1, <2>2, <2>3
       DEF LifeInvariant, Construction, Closing, StoppedMeansClosed
<1>4. ASSUME at' = at - 1
      PROVE  /\ Ordered' /\ p \in Done /\ p \in Part /\ Done' = Done \ {p}
             /\ \A q \in Done : p \notin Needs(q)
  BY <1>1, <1>4, Backward, PartsAre
<1>5. CASE open' = open \ StopHook(p) /\ at' = at - 1 /\ failed' = failed
  <2> HIDE DEF p
  <2>1. Holding'
    <3>1. "transactors" \in Done' => StopHook(p) \cap PoolsInUse = {}
      BY <1>4, <1>5, StopHooks, Closers DEF PoolsInUse
    <3> QED
      BY <1>1, <1>4, <1>5, <3>1, StopHooks DEF LifeInvariant, Holding
  <2>2. ASSUME NEW x \in open'
        PROVE  Closer(x)'
    <3>1. Closer(x) /\ x \notin StopHook(p)
      BY <1>1, <1>5 DEF LifeInvariant, Closing
    <3> QED
      BY <1>1, <1>2, <1>4, <1>5, <3>1 DEF Closer
  <2> QED
    BY <1>1, <1>4, <1>5, <2>1, <2>2
       DEF LifeInvariant, Construction, Closing, StoppedMeansClosed
<1>6. CASE StopHookFails(p) /\ failed' = TRUE /\ at' = at - 1 /\ open' = open
  <2>0. p = "temporal"
    BY <1>6 DEF StopHookFails
  <2> HIDE DEF p
  <2>1. Holding'
    BY <1>1, <1>4, <1>6 DEF LifeInvariant, Holding
  <2>2. ASSUME NEW x \in open'
        PROVE  Closer(x)'
    <3>1. Closer(x)
      BY <1>1, <1>6 DEF LifeInvariant, Closing
    <3>2. x \in StopHook(p) => x \in {"namespace", "namespace_client", "connection"}
      BY <1>4, <1>6, <2>0, StopHooks
    <3> QED
      BY <1>1, <1>2, <1>4, <1>6, <3>1, <3>2 DEF Closer
  <2> QED
    BY <1>1, <1>4, <1>6, <2>1, <2>2
       DEF LifeInvariant, Construction, Closing, StoppedMeansClosed
<1> QED
  BY <1>3, <1>5, <1>6 DEF Stop

LEMMA StoppedKeeps ==
    ASSUME LifeInvariant, Stopped
    PROVE  LifeInvariant'
<1>1. /\ phase \in {"unwinding", "stopping"} /\ Live /\ phase' = "ended" /\ Ordered
      /\ world' = world /\ order' = order /\ at' = at /\ failed' = failed /\ open' = open
      /\ at = 0 \/ at > 0
      /\ exit' = ExitCode(failed \/ at > 0)
  BY OrderFacts DEF LifeInvariant, Live, Stopped, Ends, Ordered
<1>2. Ordered'
  BY <1>1 DEF Ordered
<1>3. /\ exit' \in {0, 3} => phase = "stopping" /\ ~failed /\ ~(at > 0)
      /\ phase = "unwinding" => exit' = 1
  BY <1>1 DEF ExitCode
<1>4. ASSUME at = 0, NEW x \in open, x # "generated_client"
      PROVE  x \in Remains'
  <2>1. Closer(x) /\ Done = {}
    BY <1>1, <1>4, PartsAre DEF LifeInvariant, Closing
  <2>2. CASE phase = "unwinding"
    BY <1>1, <1>3, <1>4, <2>1, <2>2 DEF Closer, Remains
  <2>3. CASE phase = "stopping"
    BY <1>1, <1>3, <1>4, <2>1, <2>3 DEF Closer, Remains
  <2> QED
    BY <1>1, <2>2, <2>3
<1>5. StoppedMeansClosed'
  BY <1>1, <1>3, <1>4 DEF StoppedMeansClosed
<1> QED
  BY <1>1, <1>2, <1>5 DEF LifeInvariant, Construction, Holding, Closing, Live

LEMMA LifeStep ==
    ASSUME LifeInvariant, [Next]_vars
    PROVE  LifeInvariant'
<1>1. CASE Signal \/ ContextEnds
  <2>1. /\ world' = world /\ order' = order /\ at' = at /\ failed' = failed /\ open' = open
        /\ exit' = exit
        /\ phase' = phase \/ (phase = "running" /\ phase' = "stopping")
        /\ phase # "constructing"
    BY <1>1 DEF Signal, ContextEnds, Timed
  <2>2. Ordered' /\ Done' = Done /\ Valid' = Valid /\ PoolsInUse' = PoolsInUse
    BY <2>1 DEF LifeInvariant, Ordered, Done, Valid, PoolsInUse
  <2>3. \A x : Closer(x) /\ Live => Closer(x)'
    BY <2>1, <2>2 DEF Closer, StopHook
  <2>4. Holding'
    BY <2>1, <2>2 DEF LifeInvariant, Holding, Live
  <2>5. Closing'
    BY <2>1, <2>2, <2>3 DEF LifeInvariant, Closing, Live
  <2> QED
    BY <2>1, <2>2, <2>4, <2>5
       DEF LifeInvariant, Construction, StoppedMeansClosed, Remains
<1>2. CASE UNCHANGED <<life, open>>
  BY <1>2 DEF life, LifeInvariant, Ordered, Construction, Holding, Closing, Closer, StopHook,
              StoppedMeansClosed, Remains, Live, Done, Valid, PoolsInUse
<1> QED
  BY <1>1, <1>2, ConstructKeeps, StartKeeps, StopKeeps, StoppedKeeps
     DEF Next, Process, Ended, Arrive, Work, Answers, Leave, vars

LEMMA Lives == Spec => []LifeInvariant
BY LifeInit, LifeStep, PTL DEF Spec
-----------------------------------------------------------------------------
(* The server takes requests, and has some, only while it is started, or   *)
(* when the process was given up.                                          *)
Serving == "serving" \in open \/ InFlight(Web) # {}
WebInvariant == Serving => (Live /\ "server" \in Done) \/ (phase = "ended" /\ late)

(* The slots, of which WebStep and SlotStep speak one by one.              *)
SlotFunction == slot = [s \in Slot |-> slot[s]]

LEMMA WebStep ==
    ASSUME LifeInvariant, SlotFunction, WebInvariant, [Next]_vars
    PROVE  WebInvariant'
<1>1. CASE Construct
  <2>1. /\ phase = "constructing" /\ ~Live /\ slot' = slot
        /\ open' = open \/ open' = open \cup Constructed(order[at + 1])
    BY <1>1 DEF Construct, Live
  <2>2. "serving" \notin Constructed(order[at + 1])
    BY DEF Constructed
  <2>3. ~Serving
    BY <2>1 DEF WebInvariant
  <2> QED
    BY <2>1, <2>2, <2>3 DEF WebInvariant, Serving, InFlight
<1>2. CASE Start
  <2>1. phase = "starting" /\ slot' = slot /\ order' = order /\ Ordered
    BY <1>2 DEF Start, LifeInvariant
  <2>2. CASE open' = open /\ at' = at /\ phase' \in {"unwinding", Started}
    BY <2>1, <2>2 DEF WebInvariant, Serving, InFlight, Live, Done, Started
  <2>3. ASSUME at < Len(order), NEW hook \in StartHook(order[at + 1]),
               open' = open \cup hook.opens,
               IF hook.ok THEN at' = at + 1 /\ phase' = phase
                          ELSE phase' = "unwinding" /\ at' = at
        PROVE  WebInvariant'
    <3>1. order[at + 1] \in Part
      <4>1. at + 1 \in 1 .. Len(order)
        BY <2>1, <2>3, OrderFacts DEF Ordered
      <4> QED
        BY <2>1, <4>1, OrderFacts, PartsAre
    <3>2. "serving" \in hook.opens => order[at + 1] = "server" /\ hook.ok
      BY <3>1, Opening
    <3>3. Live' /\ Live
      BY <2>1, <2>3 DEF Live
    <3>4. Done \subseteq Done'
      BY <2>1, <2>3, OrderFacts DEF Done, Ordered
    <3>5. hook.ok => order[at + 1] \in Done'
      BY <2>1, <2>3, OrderFacts DEF Done, Ordered
    <3>6. Serving' => Serving \/ "serving" \in hook.opens
      BY <2>1, <2>3 DEF Serving, InFlight
    <3> QED
      BY <2>1, <3>2, <3>3, <3>4, <3>5, <3>6 DEF WebInvariant
  <2>4. at < Len(order) \/ at = Len(order)
    BY <2>1, OrderFacts DEF Ordered
  <2> QED
    BY <1>2, <2>2, <2>3, <2>4 DEF Start
<1>3. CASE Stop
  <2> DEFINE p == order[at]
  <2>1. /\ phase \in {"unwinding", "stopping"} /\ phase' = phase /\ late' = late /\ slot' = slot
        /\ order' = order /\ world' = world /\ at > 0 /\ Ordered
        /\ InFlight(Web)' = InFlight(Web)
    BY <1>3 DEF Stop, LifeInvariant, InFlight
  <2>2. CASE open' \subseteq open /\ at' = at
    BY <2>1, <2>2 DEF WebInvariant, Serving, Live, Done
  <2>3. ASSUME at' = at - 1
        PROVE  Done' = Done \ {p} /\ Done \subseteq Part
    BY <2>1, <2>3, Backward, PartsAre
  <2>4. CASE ~BeginStop(p) /\ Returns(p) /\ open' = open \ StopHook(p) /\ at' = at - 1
    <3>1. p = "server" => ~Serving'
      BY <2>1, <2>4 DEF BeginStop, Returns, Serving
    <3>2. Serving' => Serving
      BY <2>1, <2>4 DEF Serving
    <3> HIDE DEF p
    <3> QED
      BY <2>1, <2>3, <2>4, <3>1, <3>2 DEF WebInvariant, Live
  <2>5. CASE StopHookFails(p) /\ open' = open /\ at' = at - 1
    <3>1. p # "server"
      BY <2>5 DEF StopHookFails
    <3>2. Serving' => Serving
      BY <2>1, <2>5 DEF Serving
    <3> HIDE DEF p
    <3> QED
      BY <2>1, <2>3, <2>5, <3>1, <3>2 DEF WebInvariant, Live
  <2> QED
    BY <1>3, <2>2, <2>4, <2>5 DEF Stop
<1>4. CASE Stopped
  <2>1. /\ phase \in {"unwinding", "stopping"} /\ phase' = "ended" /\ late' = late /\ open' = open
        /\ slot' = slot /\ order' = order /\ at' = at /\ Ordered /\ (at = 0 \/ late)
    BY <1>4 DEF Stopped, Ends, LifeInvariant
  <2>2. at = 0 => Done = {}
    BY <2>1, PartsAre
  <2>3. Serving' => Serving
    BY <2>1 DEF Serving, InFlight
  <2> QED
    BY <2>1, <2>2, <2>3 DEF WebInvariant, Live
<1>5. CASE Signal \/ ContextEnds
  <2>1. /\ open' = open /\ slot' = slot /\ order' = order /\ at' = at
        /\ phase' = phase \/ (phase = "running" /\ phase' = "stopping")
        /\ phase # "ended"
    BY <1>5 DEF Signal, ContextEnds, Timed
  <2> QED
    BY <2>1 DEF WebInvariant, Serving, InFlight, Live, Done
<1>6. CASE UNCHANGED vars
  BY <1>6 DEF vars, life, WebInvariant, Serving, InFlight, Live, Done
<1>7. ASSUME NEW s \in Slot, Arrive(s) \/ Work(s) \/ Answers(s) \/ Leave(s)
      PROVE  WebInvariant'
  <2>1. UNCHANGED <<life, open>>
    BY <1>7 DEF Arrive, Work, Answers, Leave
  <2>2. Serving' => Serving
    <3>1. \A t \in Slot : t # s => slot'[t] = slot[t]
      BY <1>7 DEF Arrive, Work, Answers, Answered, Leave, SlotFunction
    <3>2. s \in InFlight(Web)' => s \in InFlight(Web) \/ "serving" \in open
      <4>1. CASE Arrive(s)
        <5>1. PICK r \in Requests :
                Accepts(r) /\ slot'[s].request = r
          BY <4>1 DEF Arrive, SlotFunction
        <5>2. r.entry \in Web => "serving" \in open
          BY <5>1 DEF Accepts, Web
        <5> QED
          BY <5>1, <5>2 DEF InFlight
      <4>2. CASE Work(s)
        BY <4>2 DEF Work, InFlight, SlotFunction
      <4>3. CASE Answers(s)
        <5>1. PICK committed \in BOOLEAN : Answered(s, committed)
          BY <4>3 DEF Answers
        <5>2. slot'[s].state = "answered"
          BY <5>1 DEF Answered, SlotFunction
        <5> QED
          BY <5>2 DEF InFlight
      <4>4. CASE Leave(s)
        BY <4>4 DEF Leave, InFlight, Idle, SlotFunction
      <4> QED
        BY <1>7, <4>1, <4>2, <4>3, <4>4
    <3> QED
      BY <2>1, <3>1, <3>2 DEF Serving, InFlight
  <2> QED
    BY <2>1, <2>2 DEF life, WebInvariant, Live, Done
<1> QED
  BY <1>1, <1>2, <1>3, <1>4, <1>5, <1>6, <1>7 DEF Next, Process, Ended

(* What a request in the process has been through.                         *)
Reached(r) == Reaches(r, Posture(r))

(* It works on a connection that its pool has made.                        *)
AtWork(v) ==
    /\ Reached(v.request) /\ v.pool \in {"rw", "ro"}
    /\ v.connection \in Connections(v.pool, world.base, world.fallbacks, world.hosts, world.iam)
    /\ v.request.entry = "rpc" /\ world.driver = "sql" => Posture(v.request) \in Postures

(* It has been told what its layers tell, and committed what it may.       *)
Told(v) ==
    IF v.ran
    THEN /\ Reached(v.request)
         /\ v.answer = Answer(v.request, v.committed, world.validates)
         /\ v.committed => /\ MayCommit(v.request)
                           /\ v.request.writes => MayWrite(v.pool)
    ELSE ~Reached(v.request) /\ ~v.committed /\ v.answer = Turned(v.request, Posture(v.request))

SlotOK(v) ==
    \/ v = Idle
    \/ /\ v.state \in {"arrived", "working", "answered"}
       /\ v.request \in Requests
       /\ v.request.entry = "rpc" => v.request.procedure \in world.linked /\ Valid
       /\ v.state = "arrived" => Reached(v.request)
       /\ v.state = "working" => AtWork(v)
       /\ v.state = "answered" => Told(v) /\ v.committed \in BOOLEAN

SlotInvariant == SlotFunction /\ \A s \in Slot : SlotOK(slot[s])

(* What has been said of a request stands for as long as the process runs. *)
LEMMA SameWorld == ASSUME world' = world, NEW v PROVE SlotOK(v)' <=> SlotOK(v)
BY DEF SlotOK, Reached, Posture, AtWork, Told, Valid

LEMMA SlotStep ==
    ASSUME LifeInvariant, WebInvariant, SlotInvariant, [Next]_vars
    PROVE  SlotInvariant'
<1>1. world' = world
  BY DEF Next, Process, Construct, Start, Signal, Stop, Stopped, ContextEnds, Ended,
         Arrive, Work, Answers, Leave, life, vars
<1>2. ASSUME NEW s \in Slot, phase # "ended", Arrive(s) \/ Work(s) \/ Answers(s) \/ Leave(s)
      PROVE  \E v : SlotOK(v) /\ slot' = [slot EXCEPT ![s] = v]
  <2>1. SlotOK(slot[s])
    BY DEF SlotInvariant
  <2>2. CASE Arrive(s)
    <3>1. PICK r \in Requests :
            /\ Accepts(r)
            /\ r.entry = "rpc" => r.procedure \in world.linked
            /\ slot' = [slot EXCEPT ![s] =
                  IF Reaches(r, Posture(r)) THEN [state |-> "arrived", request |-> r]
                  ELSE [state |-> "answered", request |-> r, ran |-> FALSE, pool |-> "none",
                        committed |-> FALSE, answer |-> Turned(r, Posture(r))]]
      BY <2>2 DEF Arrive
    <3>2. r.entry = "rpc" => Valid
      <4>1. r.entry = "rpc" => "serving" \in open
        BY <3>1 DEF Accepts, Web
      <4>2. "serving" \in open => Live
        BY <1>2 DEF WebInvariant, Serving
      <4> QED
        BY <4>1, <4>2 DEF LifeInvariant, Holding
    <3>3. CASE Reached(r)
      <4> DEFINE v == [state |-> "arrived", request |-> r]
      <4>1. SlotOK(v)
        BY <3>1, <3>2, <3>3 DEF SlotOK
      <4> QED
        BY <3>1, <3>3, <4>1 DEF Reached
    <3>4. CASE ~Reached(r)
      <4> DEFINE v == [state |-> "answered", request |-> r, ran |-> FALSE, pool |-> "none",
                       committed |-> FALSE, answer |-> Turned(r, Posture(r))]
      <4>1. SlotOK(v)
        BY <3>1, <3>2, <3>4 DEF SlotOK, Told
      <4> QED
        BY <3>1, <3>4, <4>1 DEF Reached
    <3> QED
      BY <3>3, <3>4
  <2>3. CASE Work(s)
    <3>1. PICK name \in {"rw", "ro"} :
            \E c \in Connections(name, world.base, world.fallbacks, world.hosts, world.iam) :
                slot' = [slot EXCEPT ![s] =
                      [state |-> "working", request |-> slot[s].request,
                       pool |-> name, connection |-> c]]
      BY <2>3 DEF Work
    <3> PICK c \in Connections(name, world.base, world.fallbacks, world.hosts, world.iam) :
                slot' = [slot EXCEPT ![s] =
                      [state |-> "working", request |-> slot[s].request,
                       pool |-> name, connection |-> c]]
      BY <3>1
    <3> DEFINE v == [state |-> "working", request |-> slot[s].request, pool |-> name,
                     connection |-> c]
    <3>2. slot[s].state = "arrived" /\ slot[s] # Idle
      BY <2>3 DEF Work, Idle
    <3>3. SlotOK(v)
      BY <2>1, <2>3, <3>1, <3>2 DEF SlotOK, AtWork, Work
    <3> QED
      BY <3>1, <3>3
  <2>4. CASE Answers(s)
    <3>1. PICK committed \in BOOLEAN :
            /\ Answered(s, committed)
            /\ slot[s].state \in {"arrived", "working"}
            /\ committed => \/ slot[s].state = "working" /\ Commits(s)
                            \/ slot[s].state = "arrived" /\ slot[s].request.entry = "start"
      BY <2>4 DEF Answers
    <3> DEFINE v == [state |-> "answered", request |-> slot[s].request, ran |-> TRUE,
                     pool |-> IF slot[s].state = "working" THEN slot[s].pool ELSE "none",
                     committed |-> committed,
                     answer |-> Answer(slot[s].request, committed, world.validates)]
    <3>2. slot' = [slot EXCEPT ![s] = v] /\ slot[s] # Idle
      BY <3>1 DEF Answered, Idle
    <3>3. Reached(slot[s].request)
      BY <2>1, <3>1, <3>2 DEF SlotOK, AtWork
    <3>4. committed => /\ MayCommit(v.request)
                       /\ v.request.writes => MayWrite(v.pool)
      <4>1. CASE slot[s].state = "working"
        BY <3>1, <4>1 DEF Commits
      <4>2. CASE slot[s].state = "arrived"
        <5>1. committed => slot[s].request.entry = "start" /\ slot[s].request \in Requests
          BY <2>1, <3>1, <3>2, <4>2 DEF SlotOK
        <5> QED
          BY <5>1 DEF MayCommit, Transactional
      <4> QED
        BY <3>1, <4>1, <4>2
    <3>5. SlotOK(v)
      BY <2>1, <3>2, <3>3, <3>4 DEF SlotOK, Told
    <3> QED
      BY <3>2, <3>5
  <2>5. CASE Leave(s)
    BY <2>5 DEF Leave, SlotOK
  <2> QED
    BY <1>2, <2>2, <2>3, <2>4, <2>5
<1>3. ASSUME NEW s \in Slot, NEW v, SlotOK(v), slot' = [slot EXCEPT ![s] = v]
      PROVE  SlotInvariant'
  <2>1. SlotFunction' /\ \A t \in Slot : slot'[t] = v \/ slot'[t] = slot[t]
    BY <1>3 DEF SlotInvariant, SlotFunction
  <2>2. ASSUME NEW t \in Slot
        PROVE  SlotOK(slot[t])'
    <3>1. PICK u : u = slot'[t]
      OBVIOUS
    <3>2. SlotOK(u)
      BY <1>3, <2>1, <3>1 DEF SlotInvariant
    <3>3. SlotOK(u)'
      BY <1>1, <3>2, SameWorld
    <3> QED
      BY <3>1, <3>3 DEF SlotOK, Reached, Posture, AtWork, Told, Valid
  <2> QED
    BY <2>1, <2>2 DEF SlotInvariant
<1>4. CASE slot' = slot
  <2>1. ASSUME NEW t \in Slot
        PROVE  SlotOK(slot[t])'
    <3>1. PICK u : u = slot[t]
      OBVIOUS
    <3>3. SlotOK(u)'
      BY <1>1, <3>1, SameWorld DEF SlotInvariant
    <3> QED
      BY <1>4, <3>1, <3>3 DEF SlotOK, Reached, Posture, AtWork, Told, Valid
  <2> QED
    BY <1>4, <2>1 DEF SlotInvariant, SlotFunction
<1>5. slot' = slot \/ \E s \in Slot : phase # "ended" /\ (Arrive(s) \/ Work(s) \/ Answers(s) \/ Leave(s))
  BY DEF Next, Process, Construct, Start, Signal, Stop, Stopped, ContextEnds, Ended, vars
<1> QED
  BY <1>2, <1>3, <1>4, <1>5

LEMMA ProcessInvariant == Spec => [](LifeInvariant /\ WebInvariant /\ SlotInvariant)
<1>1. Init => LifeInvariant /\ WebInvariant /\ SlotInvariant
  BY LifeInit DEF Init, WebInvariant, Serving, InFlight, SlotInvariant, SlotFunction, SlotOK, Idle
<1>2. LifeInvariant /\ WebInvariant /\ SlotInvariant /\ [Next]_vars
        => (LifeInvariant /\ WebInvariant /\ SlotInvariant)'
  BY LifeStep, WebStep, SlotStep DEF SlotInvariant
<1> QED
  BY <1>1, <1>2, PTL DEF Spec
-----------------------------------------------------------------------------
(* What is open are the resources the parts have.                          *)
LEMMA Kinds ==
    ASSUME NEW p \in Part
    PROVE  /\ Constructed(p) \subseteq Resource
           /\ \A hook \in StartHook(p) : hook.opens \subseteq Resource
<1>1. Constructed(p) \subseteq Resource
  BY DEF Constructed, Resource
<1>2. ASSUME NEW hook \in StartHook(p)
      PROVE  hook.opens \subseteq Resource
  BY <1>2 DEF StartHook, TemporalStart, WorkersStart, Resource
<1> QED
  BY <1>1, <1>2

LEMMA LifeTypes ==
    ASSUME TypeOK, LifeInvariant, [Next]_vars
    PROVE  open' \subseteq Resource /\ exit' \in {0, 1, 2, 3, NotExited}
           /\ phase' \in {"constructing", "starting", "unwinding", "running", "stopping", "ended"}
           /\ late' \in BOOLEAN /\ failed' \in BOOLEAN
<1>1. at < Len(order) => order[at + 1] \in Part
  <2>1. Ordered
    BY DEF LifeInvariant
  <2>2. at < Len(order) => at + 1 \in 1 .. Len(order)
    BY <2>1, OrderFacts DEF Ordered
  <2> QED
    BY <2>1, <2>2, OrderFacts, PartsAre
<1>2. CASE Construct
  BY <1>1, <1>2, Kinds DEF Construct, Ends, TypeOK
<1>3. CASE Start
  <2>1. at = Len(order) \/ at < Len(order)
    BY OrderFacts DEF LifeInvariant, Ordered
  <2>2. /\ open' = open \/ \E hook \in StartHook(order[at + 1]) :
                              at < Len(order) /\ open' = open \cup hook.opens
        /\ phase' \in {"starting", "unwinding", Started} /\ late' \in {late, FALSE}
        /\ exit' = exit /\ failed' = failed
    BY <1>3, <2>1 DEF Start
  <2>3. open' \subseteq Resource
    BY <1>1, <2>2, Kinds DEF TypeOK
  <2> QED
    BY <2>2, <2>3 DEF Started, TypeOK
<1>4. CASE Stop
  BY <1>4 DEF Stop, TypeOK
<1>5. CASE Stopped
  BY <1>5 DEF Stopped, Ends, ExitCode, TypeOK
<1>6. CASE Signal \/ ContextEnds \/ UNCHANGED <<life, open>>
  BY <1>6 DEF Signal, ContextEnds, life, TypeOK
<1> QED
  BY <1>2, <1>3, <1>4, <1>5, <1>6 DEF Next, Process, Ended, Arrive, Work, Answers, Leave, vars

(* The type invariant, in every instance.                                  *)
THEOREM TypeCorrect == Spec => []TypeOK
<1>1. Init /\ LifeInvariant => TypeOK
  <2> SUFFICES ASSUME Init, LifeInvariant PROVE TypeOK
    OBVIOUS
  <2>1. \A s \in Slot : slot[s].state \in {"idle", "arrived", "working", "answered"}
    BY DEF Init, Idle
  <2>2. /\ world \in World /\ {order[i] : i \in DOMAIN order} = PartsOf(world)
        /\ at \in 0 .. Len(order)
    BY DEF LifeInvariant, Ordered
  <2>3. /\ phase = "constructing" /\ open = {} /\ late = FALSE /\ failed = FALSE
        /\ exit = NotExited
    BY DEF Init
  <2> QED
    BY <2>1, <2>2, <2>3 DEF TypeOK
<1>2. ASSUME TypeOK, LifeInvariant, LifeInvariant', SlotInvariant', [Next]_vars
      PROVE  TypeOK'
  <2>1. \A s \in Slot : slot'[s].state \in {"idle", "arrived", "working", "answered"}
    BY <1>2 DEF SlotInvariant, SlotOK, Idle
  <2>2. /\ world' \in World /\ {order'[i] : i \in DOMAIN order'} = PartsOf(world')
        /\ at' \in 0 .. Len(order')
    BY <1>2 DEF LifeInvariant, Ordered, PartsOf
  <2> QED
    BY <1>2, <2>1, <2>2, LifeTypes DEF TypeOK, PartsOf
<1> QED
  BY <1>1, <1>2, ProcessInvariant, PTL DEF Spec

(* What a request of the HTTP server needs is there until it has been      *)
(* answered, or the stop has run out of time.                              *)
THEOREM RequestsKeepTheirResources == Spec => []WebWorkKeepsItsResources
<1>1. LifeInvariant /\ WebInvariant => WebWorkKeepsItsResources
  <2> SUFFICES ASSUME LifeInvariant, WebInvariant, InFlight(Web) # {}, ~late
               PROVE  {"rw", "ro", "connection", "generated_client", "system", "jwks"}
                        \ ({"ro"} \ PartsOf(world)) \subseteq open
    BY DEF WebWorkKeepsItsResources
  <2>1. Live /\ "server" \in Done /\ Ordered
    BY DEF WebInvariant, Serving, LifeInvariant
  <2>2. {"system", "auth", "client", "transactors"} \subseteq Done
    BY <2>1, PartsAre, Closers
  <2>3. "temporal" \in Done
    BY <2>1, <2>2, PartsAre, Closers
  <2>4. PoolsInUse \subseteq open /\ {"system", "jwks", "connection", "generated_client"} \subseteq open
    BY <2>1, <2>2, <2>3 DEF LifeInvariant, Holding
  <2> QED
    BY <2>4, Closers DEF PoolsInUse
<1> QED
  BY <1>1, ProcessInvariant, PTL

(* A process that has ended has closed what it had opened, but for what    *)
(* its exit code and what failed say remains.                              *)
THEOREM EndedProcessesHoldNothing == Spec => []StoppedMeansClosed
BY Lives, PTL DEF LifeInvariant

(* What a caller is told, by way in and by what the handler has done.      *)
LEMMA Telling ==
    ASSUME NEW r \in Requests, NEW committed \in BOOLEAN, NEW posture, NEW validating,
           Reaches(r, posture), committed => MayCommit(r)
    PROVE  LET answer == Answer(r, committed, validating)
           IN  /\ answer = "ok" =>
                     \/ committed /\ r.handler \in Success /\ r.input # "malformed"
                     \/ r.entry = "relay" /\ r.input = "malformed"
                     \/ r.entry = "function" /\ r.handler = "silent_error"
               /\ answer = "refused" => (Transactional(r) => ~committed)
               /\ answer # "ok" =>
                     (Transactional(r) /\ committed => r.handler = "bad_output")
<1>1. r \in Request /\ (r.entry = "start" => r.handler = "succeeds")
  OBVIOUS
<1>2. r.handler \in Success \cup Failure /\ r.entry \in Entry /\ r.input \in Input
  BY <1>1 DEF Request
<1>3. CASE r.entry = "rpc"
  BY <1>2, <1>3
     DEF Answer, Returned, TxError, Transactional, MayCommit, Reaches, Validates, Success, Failure,
         Connect, ValidateResponse
<1>4. CASE r.entry = "json"
  BY <1>2, <1>4
     DEF Answer, Returned, TxError, Transactional, MayCommit, Reaches, DecodesJSON, Success, Failure,
         ErrorMiddleware, RecoverMiddleware, Encoded
<1>5. CASE r.entry = "relay"
  BY <1>2, <1>5
     DEF Answer, Returned, Transactional, Reaches, DecodesEvent, Success, Failure,
         ErrorMiddleware, RecoverMiddleware, Relayed
<1>6. CASE r.entry = "function"
  BY <1>2, <1>6
     DEF Answer, Returned, Transactional, Reaches, DecodesPayload, Success, Failure, Invoked, Encoded
<1>7. CASE r.entry = "start"
  BY <1>1, <1>7
     DEF Answer, Transactional, Reaches, ClientValidates, Success
<1>8. CASE r.entry = "activity"
  BY <1>2, <1>8
     DEF Answer, Returned, Transactional, Reaches, Validates, Success, Failure, Encoded
<1> QED
  BY <1>2, <1>3, <1>4, <1>5, <1>6, <1>7, <1>8 DEF Entry

(* Callers are told what has happened.                                     *)
THEOREM CallersAreToldTheTruth == Spec => []AnswersAreTrue
<1>1. SlotInvariant => AnswersAreTrue
  <2> SUFFICES ASSUME SlotInvariant, NEW s \in Slot, slot[s].state = "answered"
               PROVE  LET r == slot[s].request
                          committed == slot[s].committed
                      IN  CASE slot[s].answer = "ok" ->
                                  \/ committed /\ r.handler \in Success /\ r.input # "malformed"
                                  \/ r.entry = "relay" /\ r.input = "malformed"
                                  \/ r.entry = "function" /\ r.handler = "silent_error"
                            [] slot[s].answer = "refused" -> Transactional(r) => ~committed
                            [] OTHER -> Transactional(r) /\ committed => r.handler = "bad_output"
    BY DEF AnswersAreTrue
  <2>1. /\ slot[s].request \in Requests /\ Told(slot[s]) /\ slot[s].committed \in BOOLEAN
    BY DEF SlotInvariant, SlotOK, Idle
  <2>2. CASE slot[s].ran
    <3>1. /\ Reaches(slot[s].request, Posture(slot[s].request))
          /\ slot[s].answer = Answer(slot[s].request, slot[s].committed, world.validates)
          /\ slot[s].committed => MayCommit(slot[s].request)
      BY <2>1, <2>2 DEF Told, Reached
    <3> QED
      BY <2>1, <3>1, Telling
  <2>3. CASE ~slot[s].ran
    BY <2>1, <2>3 DEF Told, Turned
  <2> QED
    BY <2>2, <2>3
<1> QED
  BY <1>1, ProcessInvariant, PTL

(* What a connection to a pool's own host presents is for that host, only  *)
(* one that fell back may be on the writer although its pool is "ro", and  *)
(* nothing is written through "ro" on any host.                            *)
THEOREM ConnectionsAreRight == Spec => []ConnectsWhereItShould
<1>1. SlotInvariant => ConnectsWhereItShould
  <2> SUFFICES ASSUME SlotInvariant, NEW s \in Slot
               PROVE  /\ LET c == slot[s].connection
                         IN  slot[s].state = "working"
                             /\ c.host = PoolHost(slot[s].pool, world.base, world.hosts) =>
                                /\ world.iam => Authenticates(c)
                                /\ slot[s].pool = "ro" /\ world.hosts.ro = NoOverride /\ ~world.base.dot
                                   => c.host.kind # "writer"
                      /\ slot[s].state = "answered" /\ slot[s].committed /\ slot[s].request.writes
                         => slot[s].pool # "ro"
    BY DEF ConnectsWhereItShould
  <2>1. ASSUME slot[s].state = "working",
               slot[s].connection.host = PoolHost(slot[s].pool, world.base, world.hosts)
        PROVE  LET c == slot[s].connection
               IN  /\ world.iam => Authenticates(c)
                   /\ slot[s].pool = "ro" /\ world.hosts.ro = NoOverride /\ ~world.base.dot
                      => c.host.kind # "writer"
    <3> DEFINE h == PoolHost(slot[s].pool, world.base, world.hosts)
    <3>1. AtWork(slot[s])
      BY <2>1 DEF SlotInvariant, SlotOK, Idle
    <3>2. /\ slot[s].connection =
                [host |-> h,
                 token |-> IF world.iam THEN IamToken(h, world.base) ELSE NoToken]
          /\ world.iam => DeriveSigningRegion(h) # NoRegion
      BY <2>1, <3>1 DEF AtWork, Connections, BeforeConnect
    <3>3. world.iam => DeriveSigningRegion(h) = h.region
      <4> HIDE DEF h
      <4> QED
        BY <3>2 DEF DeriveSigningRegion
    <3>4. world.iam => Authenticates(slot[s].connection)
      BY <3>2, <3>3 DEF Authenticates, IamToken
    <3>5. slot[s].pool = "ro" /\ world.hosts.ro = NoOverride /\ ~world.base.dot
          => h.kind # "writer"
      BY DEF PoolHost, ApplyPoolHostConventions
    <3> QED
      BY <3>2, <3>4, <3>5
  <2>2. slot[s].state = "answered" /\ slot[s].committed => Told(slot[s])
    BY DEF SlotInvariant, SlotOK, Idle
  <2>3. slot[s].state = "answered" /\ slot[s].committed /\ slot[s].request.writes
          => slot[s].pool # "ro"
    BY <2>2 DEF Told, MayWrite
  <2> QED
    BY <2>1, <2>3
<1> QED
  BY <1>1, ProcessInvariant, PTL

(* The application sees an RPC only under a posture its author declared.   *)
THEOREM PosturesAreDeclared == Spec => []ServesDeclaredPostures
<1>1. LifeInvariant /\ SlotInvariant => ServesDeclaredPostures
  <2> SUFFICES ASSUME LifeInvariant, SlotInvariant, NEW s \in Slot,
                      slot[s] # Idle, slot[s].request.entry = "rpc"
               PROVE  LET r == slot[s].request
                          declared == RequiredDatabaseRole(r.procedure, world.linked) # Undeclared
                          reached == slot[s].state # "answered" \/ slot[s].ran
                      IN  /\ world.resolver /\ reached => declared
                          /\ ~reached /\ slot[s].answer = "failed" => r.procedure.package = "other"
                          /\ slot[s].state = "working" /\ world.driver = "sql"
                             => world.resolver /\ declared
    BY DEF ServesDeclaredPostures
  <2> DEFINE r == slot[s].request
             role == RequiredDatabaseRole(r.procedure, world.linked)
             reached == slot[s].state # "answered" \/ slot[s].ran
  <2>1. /\ SlotOK(slot[s]) /\ r.procedure \in world.linked /\ Valid
        /\ Posture(r) = IF world.resolver THEN role ELSE "none"
    BY DEF SlotInvariant, SlotOK, Posture, Stamped
  <2>2. reached => Reached(r)
    BY <2>1 DEF SlotOK, AtWork, Told
  <2>3. Reached(r) /\ world.resolver => role # Undeclared
    BY <2>1 DEF Reached, Reaches
  <2>4. ASSUME ~reached, slot[s].answer = "failed"
        PROVE  r.procedure.package = "other"
    <3>1. Turned(r, Posture(r)) = "failed"
      BY <2>1, <2>4 DEF SlotOK, Told
    <3>2. Posture(r) = Undeclared
      BY <3>1 DEF Turned
    <3>3. world.resolver /\ role = Undeclared
      BY <2>1, <3>2 DEF Undeclared
    <3>4. r.procedure \notin AllProcedures(world.linked)
      BY <2>1, <3>3 DEF Valid, ValidatedAtBoot
    <3>5. r.procedure \in Procedure
      BY <2>1 DEF LifeInvariant, Ordered
    <3> QED
      BY <2>1, <3>4, <3>5 DEF AllProcedures, Procedure, Package
  <2>5. ASSUME slot[s].state = "working", world.driver = "sql"
        PROVE  world.resolver /\ role # Undeclared
    <3>1. Posture(r) \in Postures
      BY <2>1, <2>5 DEF SlotOK, AtWork
    <3> QED
      BY <2>1, <3>1 DEF Postures, Undeclared
  <2> QED
    BY <2>2, <2>3, <2>4, <2>5
<1> QED
  BY <1>1, ProcessInvariant, PTL
=============================================================================
