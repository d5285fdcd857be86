--------------------------- MODULE ReadYourWrites ---------------------------
(***************************************************************************)
(* The consistency that stdcrpcwritefence and stdent.TransactR together    *)
(* give one client, without any state on the servers: a browser that       *)
(* stores the fence cookie, servers (each with its own clock) whose        *)
(* middleware signs and verifies it, unary procedures that write to the    *)
(* primary database or read through TransactR, and a replica that lags.    *)
(***************************************************************************)
EXTENDS Naturals, Sequences, FencedResponse

CONSTANTS
    Request,        \* unary calls of one client
    Writing,        \* those of procedures with side effects; the others read
    Server,
    Skew,           \* Skew[s]: how far the clock of server s is ahead, in ticks
    Second,         \* the ticks of a second
    TTL,            \* WithTTL, in ticks
    Lag,            \* a commit is on the replica less than Lag ticks later
    Horizon         \* bound: when the clock stops

ASSUME ReadYourWritesAssumption ==
    /\ Writing \subseteq Request
    /\ Server # {} /\ Skew \in [Server -> Nat]
    /\ Second \in Nat \ {0} /\ Lag \in Nat \ {0}
    /\ TTL \in Nat /\ Horizon \in Nat

VARIABLES
    now,        \* the time, in ticks
    commits,    \* when each write was committed on the primary
    replica,    \* how many of them the replica has
    told,       \* the write whose success the client was told of last
    jar,        \* the cookie the browser stores
    call        \* call[q]: the state of request q

vars == <<now, commits, replica, told, jar, call>>

(* signed: the unix time in the signature, taken at time `at'.  drop: when *)
(* the browser may discard the cookie.                                     *)
Cookie == [signed : Nat, at : Nat, drop : Nat]
NoCookie == [signed |-> 0, at |-> 0, drop |-> 0]

Stage == {"new", "sent", "promoted", "unpromoted", "handled", "responded", "done"}

(* need: what the client was told when it sent the call.  version: what a read *)
(* saw, or what a write that succeeded made.                               *)
Call == [stage : Stage, need : Nat, version : Nat, cookie : Cookie,
         server : Server, response : Response]

Idle == [stage |-> "new", need |-> 0, version |-> 0, cookie |-> NoCookie,
         server |-> CHOOSE s \in Server : TRUE, response |-> withFenceIntent]

TypeOK ==
    /\ now \in Nat
    /\ commits \in Seq(Nat)
    /\ replica \in 0 .. Len(commits)
    /\ told \in 0 .. Len(commits)
    /\ jar \in Cookie
    /\ call \in [Request -> Call]

Init ==
    /\ now = 0
    /\ commits = <<>>
    /\ replica = 0
    /\ told = 0
    /\ jar = NoCookie
    /\ call = [q \in Request |-> Idle]

Update(q, c) == call' = [call EXCEPT ![q] = c]
-----------------------------------------------------------------------------
(* Whole seconds, at least one.                                            *)
MaxAgeSeconds == IF TTL \div Second < 1 THEN 1 ELSE TTL \div Second

Unix(s) == (now + Skew[s]) \div Second

(* Mutants: an off-by-one in the window, and a codec without MaxAge.       *)
VerifiedTooBriefly(s, cookie) ==
    /\ cookie # NoCookie
    /\ Unix(s) < cookie.signed + MaxAgeSeconds

VerifiedForever(s, cookie) == cookie # NoCookie

(* codec.Decode: a signature older than MaxAge seconds has expired.        *)
Verified(s, cookie) ==
    /\ cookie # NoCookie
    /\ Unix(s) <= cookie.signed + MaxAgeSeconds

Signed(s) == [signed |-> Unix(s), at |-> now, drop |-> 0]

(* The browser sends what it stores, until it has discarded it.            *)
Send(q) ==
    /\ call[q].stage = "new"
    /\ \E cookie \in {jar} \cup (IF now < jar.drop THEN {} ELSE {NoCookie}) :
          Update(q, [call[q] EXCEPT !.stage = "sent", !.need = told,
                                    !.cookie = cookie])
    /\ UNCHANGED <<now, commits, replica, told, jar>>

(* The middleware of server s: verify, promote, install the intent flag.   *)
Serve(q, s) ==
    /\ call[q].stage = "sent"
    /\ Update(q, [call[q] EXCEPT
            !.stage = IF Verified(s, call[q].cookie) THEN "promoted" ELSE "unpromoted",
            !.server = s,
            !.response = withFenceIntent])
    /\ UNCHANGED <<now, commits, replica, told, jar>>

Handling(q) == call[q].stage \in {"promoted", "unpromoted"}

(* The procedure returns through the Interceptor.                          *)
Returns(q, version, err) ==
    Update(q, [call[q] EXCEPT
            !.stage = "handled",
            !.version = version,
            !.response = Intercepted(call[q].response, q \in Writing, err)])

(* pickReadTransactor: promoted reads run on the primary.                  *)
Read(q) ==
    /\ Handling(q)
    /\ q \notin Writing
    /\ Returns(q, IF call[q].stage = "promoted" THEN Len(commits) ELSE replica, FALSE)
    /\ UNCHANGED <<now, commits, replica, told, jar>>

(* A write commits and may still return an error, which leaves its client  *)
(* in the dark; or it fails and commits nothing.                           *)
Commit(q) ==
    /\ Handling(q)
    /\ q \in Writing
    /\ commits' = Append(commits, now)
    /\ \/ Returns(q, Len(commits) + 1, FALSE)
       \/ Returns(q, 0, TRUE)
    /\ UNCHANGED <<now, replica, told, jar>>

Fail(q) ==
    /\ Handling(q)
    /\ q \in Writing
    /\ Returns(q, 0, TRUE)
    /\ UNCHANGED <<now, commits, replica, told, jar>>

(* The response is written: the hooks of the middleware sign a cookie.     *)
Respond(q) ==
    /\ call[q].stage = "handled"
    /\ LET written == WriteHeader(call[q].response)
       IN  Update(q, [call[q] EXCEPT
                !.stage = "responded",
                !.response = written,
                !.cookie = IF written.pinned THEN Signed(call[q].server) ELSE NoCookie])
    /\ UNCHANGED <<now, commits, replica, told, jar>>

Receive(q) ==
    /\ call[q].stage = "responded"
    /\ Update(q, [call[q] EXCEPT !.stage = "done"])
    /\ jar' = IF call[q].response.pinned
              THEN [call[q].cookie EXCEPT !.drop = now + MaxAgeSeconds * Second]
              ELSE jar
    /\ told' = IF q \in Writing /\ call[q].version # 0 THEN call[q].version ELSE told
    /\ UNCHANGED <<now, commits, replica>>
-----------------------------------------------------------------------------
Replicate ==
    /\ replica < Len(commits)
    /\ replica' = replica + 1
    /\ UNCHANGED <<now, commits, told, jar, call>>

(* Time passes no further than the replica's lag allows.                   *)
Tick ==
    /\ now < Horizon
    /\ \A i \in replica + 1 .. Len(commits) : now + 1 < commits[i] + Lag
    /\ now' = now + 1
    /\ UNCHANGED <<commits, replica, told, jar, call>>

AllDone ==
    /\ \A q \in Request : call[q].stage = "done"
    /\ UNCHANGED vars

Next ==
    \/ \E q \in Request :
        \/ Send(q) \/ Read(q) \/ Commit(q) \/ Fail(q) \/ Respond(q) \/ Receive(q)
        \/ \E s \in Server : Serve(q, s)
    \/ Replicate \/ Tick
    \/ AllDone

Spec == Init /\ [][Next]_vars
-----------------------------------------------------------------------------
(* A read sees the write whose success the client was told of last when it *)
(* asked, and with it all writes before, whatever server and database it   *)
(* ends up on: the fence outlives the lag (writefence.go:234).  Of writes  *)
(* under way at once the client has the cookie of the last answer only.    *)
SeesOwnWrites ==
    \A q \in Request \ Writing :
        call[q].stage \in {"handled", "responded", "done"} =>
            call[q].version >= call[q].need

(* The load the fence puts on the primary ends: no cookie, however long    *)
(* its client holds on to it, promotes a read a second after its window,   *)
(* give or take the skew between the servers that sign and verify it.      *)
Promotes(q) == call[q].stage = "sent" /\ call'[q].stage = "promoted"

PromotionEnds ==
    [][\A q \in Request : Promotes(q) =>
        \E s \in Server :
            now + Skew[call'[q].server] <
                call[q].cookie.at + (MaxAgeSeconds + 1) * Second + Skew[s]]_vars
-----------------------------------------------------------------------------
(* What an operator has to configure for the first: a cookie is neither    *)
(* discarded nor, by a server whose clock is ahead of the one that signed  *)
(* it, refused before the replica has what it stands for.                  *)
FenceOutlivesLag ==
    /\ Lag <= MaxAgeSeconds * Second
    /\ \A s, t \in Server : Lag + Skew[t] <= MaxAgeSeconds * Second + Skew[s] + 1

(* Why it holds then: the cookie a client has was signed no earlier than   *)
(* the write it was told of, and comes with the next call unless the       *)
(* replica has caught up.                                                  *)
Genuine(cookie) == \E s \in Server : cookie.signed = (cookie.at + Skew[s]) \div Second

Fences(cookie, version) ==
    version # 0 => version <= Len(commits) /\ commits[version] <= cookie.at

ReplicaInTime ==
    \A i \in 1 .. Len(commits) :
        commits[i] <= now /\ (i > replica => now < commits[i] + Lag)

JarFencesTold ==
    IF jar = NoCookie THEN told = 0
    ELSE /\ Genuine(jar) /\ Fences(jar, told) /\ jar.at <= now
         /\ jar.drop >= jar.at + MaxAgeSeconds * Second

CallFenced(q) ==
    LET c == call[q]
    IN  /\ c.need <= Len(commits)
        /\ q \in Writing => c.version <= Len(commits)
        /\ c.stage = "sent" /\ c.cookie # NoCookie =>
               Genuine(c.cookie) /\ Fences(c.cookie, c.need)
        /\ c.stage \in {"promoted", "unpromoted"} => c.response = withFenceIntent
        /\ c.stage = "handled" =>
               c.response = Intercepted(withFenceIntent, q \in Writing, c.version = 0)
        /\ c.stage = "responded" =>
               /\ c.response.pinned <=> (q \in Writing /\ c.version # 0)
               /\ c.response.pinned =>
                     Genuine(c.cookie) /\ Fences(c.cookie, c.version) /\ c.cookie.at <= now

FenceInvariant == ReplicaInTime /\ JarFencesTold /\ \A q \in Request : CallFenced(q)

(* ... so that a call may do without the primary if it does.               *)
CatchesUp(q) ==
    LET c == call[q]
    IN  /\ c.stage = "sent" /\ c.cookie = NoCookie => c.need <= replica
        /\ c.stage = "unpromoted" => c.need <= replica
        /\ q \notin Writing /\ c.stage \in {"handled", "responded", "done"} =>
               c.version >= c.need

OwnWritesInvariant == \A q \in Request : CatchesUp(q)
=============================================================================
