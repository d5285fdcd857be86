----------------------------- MODULE FenceProofs -----------------------------
(***************************************************************************)
(* Proofs about the write fence, for any number of requests, calls and     *)
(* servers.                                                                *)
(*                                                                         *)
(* WriteFence: for any mix of handlers that use the methods httpsnoop      *)
(* passes through.                                                         *)
(*                                                                         *)
(* ReadYourWrites: for any clocks, lag and TTL.  OwnWritesInvariant is     *)
(* inductive where the fence outlives the lag.                             *)
(***************************************************************************)
EXTENDS ReadYourWrites, WriteFence, Integers, TLAPS

USE WriteFenceAssumption

(* Every method of the writer takes a response to a response.              *)
LEMMA ResponseSteps ==
    ASSUME NEW r \in Response
    PROVE  /\ withFenceIntent \in Response
           /\ MarkFenceIntent(r) \in Response
           /\ setCookie(r) \in Response
           /\ Flushed(r) \in Response
<1>1. withFenceIntent \in Response
  BY DEF Response, Flags, withFenceIntent
<1>2. MarkFenceIntent(r) \in Response
  BY DEF Response, Flags, MarkFenceIntent
<1>3. setCookie(r) \in Response
  BY DEF Response, Flags, setCookie
<1>4. Flushed(r) \in Response
  BY DEF Response, Flags, Flushed
<1> QED
  BY <1>1, <1>2, <1>3, <1>4

LEMMA MethodSteps ==
    ASSUME NEW r \in Response
    PROVE  /\ WriteHeader(r) \in Response
           /\ WriteInformational(r) \in Response
           /\ Write(r) \in Response
           /\ Flush(r) \in Response
           /\ ReadFrom(r) \in Response
           /\ Finished(r) \in Response
BY ResponseSteps DEF WriteHeader, WriteInformational, Write, Flush, ReadFrom, Finished

(* What is done with one request.                                          *)
Use(q) ==
    \/ HandlerStarts(q) \/ Mark(q) \/ HandlerWrites(q) \/ HandlerWritesHeader(q)
    \/ HandlerInforms(q) \/ HandlerFlushes(q) \/ HandlerReadsFrom(q)
    \/ HandlerReturns(q) \/ Finish(q)

LEMMA MoveTypes ==
    ASSUME FenceTypeOK, NEW q \in Exchange, NEW r \in Response,
           NEW from, NEW to \in {"new", "handling", "returned", "done"},
           Move(q, from, to, r), prompt' \in [Exchange -> BOOLEAN]
    PROVE  FenceTypeOK'
BY DEF FenceTypeOK, Move

LEMMA FenceTypeStep ==
    ASSUME FenceTypeOK, [FenceNext]_handlers
    PROVE  FenceTypeOK'
<1>1. ASSUME NEW q \in Exchange, Use(q)
      PROVE  FenceTypeOK'
  <2>1. w[q] \in Response /\ prompt \in [Exchange -> BOOLEAN]
    BY DEF FenceTypeOK
  <2>2. CASE Mark(q)
    <3>1. prompt' \in [Exchange -> BOOLEAN]
      BY <2>1, <2>2 DEF Mark, Response, Flags
    <3> QED
      BY <2>1, <2>2, <3>1, ResponseSteps, MoveTypes DEF Mark
  <2>3. CASE HandlerStarts(q) \/ HandlerReturns(q) \/ Finish(q)
    BY <2>1, <2>3, ResponseSteps, MethodSteps, MoveTypes DEF HandlerStarts, HandlerReturns, Finish
  <2>4. CASE \/ HandlerWrites(q) \/ HandlerWritesHeader(q) \/ HandlerInforms(q)
             \/ HandlerFlushes(q) \/ HandlerReadsFrom(q)
    BY <2>1, <2>4, MethodSteps, MoveTypes
       DEF HandlerWrites, HandlerWritesHeader, HandlerInforms, HandlerFlushes,
           HandlerReadsFrom, Uses
  <2> QED
    BY <1>1, <2>2, <2>3, <2>4 DEF Use
<1>2. CASE UNCHANGED handlers
  BY <1>2 DEF FenceTypeOK, handlers
<1> QED
  BY <1>1, <1>2 DEF FenceNext, Use, Served

(* The invariant, as a relation between a response and whether it was      *)
(* marked in time, is kept by each thing that happens to the two.          *)
Fenced(r, p, passing) ==
    /\ p => r.intent
    /\ p /\ r.once => r.cookie
    /\ ~r.flushed /\ (r.cookie \/ (r.intent /\ ~r.once)) => p
    /\ r.pinned => p
    /\ ~passing /\ r.flushed => r.once /\ r.pinned = r.cookie

LEMMA FencedSteps ==
    ASSUME NEW r \in Response, NEW p \in BOOLEAN, NEW passing \in BOOLEAN,
           Fenced(r, p, passing)
    PROVE  /\ Fenced(MarkFenceIntent(r), p \/ ~(r.once \/ r.flushed), passing)
           /\ Fenced(setCookie(r), p, passing)
           /\ passing \/ r.once => Fenced(Flushed(r), p, passing)
           /\ setCookie(r).once
<1>1. Fenced(MarkFenceIntent(r), p \/ ~(r.once \/ r.flushed), passing)
  BY DEF Fenced, MarkFenceIntent, Response, Flags
<1>2. Fenced(setCookie(r), p, passing) /\ setCookie(r).once
  BY DEF Fenced, setCookie, Response, Flags
<1>3. ASSUME passing \/ r.once
      PROVE  Fenced(Flushed(r), p, passing)
  BY <1>3 DEF Fenced, Flushed, Response, Flags
<1> QED
  BY <1>1, <1>2, <1>3

LEMMA FencedMethods ==
    ASSUME NEW r \in Response, NEW p \in BOOLEAN, NEW passing \in BOOLEAN,
           Fenced(r, p, passing)
    PROVE  /\ Fenced(WriteHeader(r), p, passing)
           /\ Fenced(WriteInformational(r), p, passing)
           /\ Fenced(Write(r), p, passing)
           /\ Fenced(Finished(r), p, passing)
           /\ passing => Fenced(Flush(r), p, passing) /\ Fenced(ReadFrom(r), p, passing)
BY FencedSteps, ResponseSteps
   DEF WriteHeader, WriteInformational, Write, Flush, ReadFrom, Finished

LEMMA UsePreserves ==
    ASSUME FenceTypeOK, NEW q \in Exchange, FenceOf(q), Use(q)
    PROVE  FenceOf(q)' /\ \A p \in Exchange \ {q} : FenceOf(p) => FenceOf(p)'
<1> DEFINE passing == q \in PassThrough
<1>1. /\ w[q] \in Response /\ prompt[q] \in BOOLEAN /\ passing \in BOOLEAN
      /\ Fenced(w[q], prompt[q], passing)
  BY DEF FenceTypeOK, FenceOf, Fenced
<1>2. \A p \in Exchange \ {q} :
        stage'[p] = stage[p] /\ w'[p] = w[p] /\ prompt'[p] = prompt[p]
  BY DEF FenceTypeOK, Use, HandlerStarts, Mark, HandlerWrites, HandlerWritesHeader,
         HandlerInforms, HandlerFlushes, HandlerReadsFrom, HandlerReturns,
         Finish, Uses, Move
<1>3. stage'[q] # "new"
  BY DEF FenceTypeOK, Use, HandlerStarts, Mark, HandlerWrites, HandlerWritesHeader,
         HandlerInforms, HandlerFlushes, HandlerReadsFrom, HandlerReturns,
         Finish, Uses, Move
<1>4. Fenced(w'[q], prompt'[q], passing)
  <2>1. CASE HandlerStarts(q)
    BY <1>1, <2>1 DEF HandlerStarts, Move, FenceOf, FenceTypeOK
  <2>2. CASE Mark(q)
    <3>1. Fenced(MarkFenceIntent(w[q]), prompt[q] \/ ~(w[q].once \/ w[q].flushed),
                 passing)
      BY <1>1, FencedSteps
    <3>2. /\ w'[q] = MarkFenceIntent(w[q])
          /\ prompt'[q] = (prompt[q] \/ ~(w[q].once \/ w[q].flushed))
      BY <2>2 DEF Mark, Move, FenceTypeOK
    <3> QED
      BY <3>1, <3>2
  <2>3. CASE HandlerWrites(q) \/ HandlerWritesHeader(q) \/ HandlerInforms(q)
    <3>1. /\ w'[q] \in {Write(w[q]), WriteHeader(w[q]), WriteInformational(w[q])}
          /\ prompt'[q] = prompt[q]
      BY <2>3 DEF HandlerWrites, HandlerWritesHeader, HandlerInforms, Uses, Move, FenceTypeOK
    <3> QED
      BY <1>1, <3>1, FencedMethods
  <2>4. CASE HandlerFlushes(q) \/ HandlerReadsFrom(q)
    <3>1. w'[q] \in {Flush(w[q]), ReadFrom(w[q])} /\ prompt'[q] = prompt[q] /\ passing
      BY <2>4 DEF HandlerFlushes, HandlerReadsFrom, Uses, Move, FenceTypeOK
    <3> QED
      BY <1>1, <3>1, FencedMethods
  <2>5. CASE HandlerReturns(q) \/ Finish(q)
    <3>1. w'[q] \in {w[q], Finished(w[q])} /\ prompt'[q] = prompt[q]
      BY <2>5 DEF HandlerReturns, Finish, Move, FenceTypeOK
    <3> QED
      BY <1>1, <3>1, FencedMethods
  <2> QED
    BY <2>1, <2>2, <2>3, <2>4, <2>5 DEF Use
<1>5. FenceOf(q)'
  BY <1>3, <1>4 DEF FenceOf, Fenced
<1> QED
  BY <1>2, <1>5 DEF FenceOf

LEMMA InitFence == FenceInit => FenceTypeOK /\ HandlersInvariant
<1>1. withFenceIntent \in Response
  BY DEF Response, Flags, withFenceIntent
<1> QED
  BY <1>1 DEF FenceInit, FenceTypeOK, HandlersInvariant, FenceOf, withFenceIntent

LEMMA NextFence ==
    FenceTypeOK /\ HandlersInvariant /\ [FenceNext]_handlers => (FenceTypeOK /\ HandlersInvariant)'
<1> SUFFICES ASSUME FenceTypeOK, HandlersInvariant, [FenceNext]_handlers
             PROVE  HandlersInvariant'
  BY FenceTypeStep
<1>1. ASSUME NEW q \in Exchange, Use(q)
      PROVE  HandlersInvariant'
  BY <1>1, UsePreserves DEF HandlersInvariant
<1>2. CASE UNCHANGED handlers
  BY <1>2 DEF HandlersInvariant, FenceOf, handlers
<1> QED
  BY <1>1, <1>2 DEF FenceNext, Use, Served

(* The cookie is only ever added for a write, once, and reaches the client *)
(* only with the headers it was added to.                                  *)
THEOREM FenceTypes == FenceSpec => []FenceTypeOK
BY InitFence, NextFence, PTL DEF FenceSpec

(* A fence marked before the response is touched reaches the client of a   *)
(* handler that uses WriteHeader and Write only, and a client is pinned    *)
(* only by such a mark.                                                    *)
THEOREM FenceReachesClient == FenceSpec => []PinnedWhenMarkedInTime
<1>1. FenceTypeOK /\ HandlersInvariant => PinnedWhenMarkedInTime
  BY DEF FenceTypeOK, HandlersInvariant, FenceOf, PinnedWhenMarkedInTime
<1> QED
  BY <1>1, InitFence, NextFence, PTL DEF FenceSpec
-----------------------------------------------------------------------------
(* From a write to the reads that follow it.                               *)
USE ReadYourWritesAssumption

(* Arithmetic of whole seconds.                                            *)
LEMMA DivBounds ==
    ASSUME NEW a \in Nat, NEW d \in Nat \ {0}
    PROVE  a \div d \in Nat /\ (a \div d) * d <= a /\ a < (a \div d) * d + d
OBVIOUS

(* More seconds are more ticks,                                            *)
LEMMA TimesMonotone ==
    ASSUME NEW a \in Nat, NEW b \in Nat, NEW d \in Nat \ {0}, a <= b
    PROVE  a * d \in Nat /\ a * d <= b * d
OBVIOUS

(* and the ticks of a sum are the sum of the ticks.                        *)
LEMMA TimesDistributes ==
    ASSUME NEW a \in Nat, NEW b \in Nat, NEW d \in Nat \ {0}
    PROVE  (a + b) * d = a * d + b * d /\ (a + 1) * d = a * d + d
OBVIOUS

(* A fence lasts a second at least, whatever the TTL (writefence.go).      *)
LEMMA MaxAge == MaxAgeSeconds \in Nat \ {0} /\ MaxAgeSeconds * Second \in Nat \ {0}
<1>1. TTL \div Second \in Nat
  BY DivBounds
<1>2. MaxAgeSeconds \in Nat \ {0}
  BY <1>1 DEF MaxAgeSeconds
<1>3. \A a, d \in Nat \ {0} : a * d \in Nat \ {0}
  OBVIOUS
<1> QED
  BY <1>2, <1>3

(* A cookie that a server does not verify is older than the window, as far *)
(* as the two clocks and the rounding to seconds can tell ...              *)
LEMMA RefusedAfter ==
    ASSUME TypeOK, NEW cookie \in Cookie, NEW s \in Server, Genuine(cookie),
           cookie # NoCookie, ~Verified(s, cookie)
    PROVE  \E t \in Server :
              now + Skew[s] >= cookie.at + Skew[t] + MaxAgeSeconds * Second + 1
<1>1. PICK t \in Server : cookie.signed = (cookie.at + Skew[t]) \div Second
  BY DEF Genuine
<1> DEFINE mine == now + Skew[s]
           its  == cookie.at + Skew[t]
<1>2. mine \in Nat /\ its \in Nat /\ cookie.at \in Nat /\ Skew[t] \in Nat
  BY DEF TypeOK, Cookie
<1>3. cookie.signed + MaxAgeSeconds + 1 <= mine \div Second
  BY <1>1, <1>2, MaxAge, DivBounds DEF Verified, Unix
<1> HIDE DEF mine, its
<1> DEFINE signed == its \div Second
           read == mine \div Second
<1>4. /\ signed \in Nat /\ its < signed * Second + Second /\ signed * Second <= its
      /\ read \in Nat /\ read * Second <= mine
  BY <1>2, DivBounds
<1>5. signed + MaxAgeSeconds + 1 <= read
  BY <1>1, <1>3 DEF its
<1> HIDE DEF signed, read
<1>6. (signed + MaxAgeSeconds + 1) * Second = signed * Second + MaxAgeSeconds * Second + Second
  BY <1>4, MaxAge, TimesDistributes
<1>7. (signed + MaxAgeSeconds + 1) * Second <= read * Second
  BY <1>4, <1>5, MaxAge, TimesMonotone
<1>8. /\ signed * Second \in Nat /\ read * Second \in Nat
      /\ MaxAgeSeconds * Second \in Nat
  BY <1>4, MaxAge, TimesMonotone
<1>9. mine >= its + MaxAgeSeconds * Second + 1
  <2> DEFINE a == signed * Second
             b == MaxAgeSeconds * Second
             c == read * Second
  <2>1. a \in Nat /\ b \in Nat /\ c \in Nat /\ a + b + Second <= c /\ c <= mine
        /\ its < a + Second
    BY <1>4, <1>6, <1>7, <1>8
  <2> HIDE DEF a, b, c
  <2>2. mine >= its + b + 1
    BY <1>2, <2>1
  <2> QED
    BY <2>2 DEF b
<1> QED
  BY <1>9 DEF mine, its

(* ... and one that it verifies is not.                                    *)
LEMMA VerifiedWithin ==
    ASSUME TypeOK, NEW cookie \in Cookie, NEW s \in Server, Genuine(cookie),
           Verified(s, cookie)
    PROVE  \E t \in Server :
              now + Skew[s] < cookie.at + (MaxAgeSeconds + 1) * Second + Skew[t]
<1>1. PICK t \in Server : cookie.signed = (cookie.at + Skew[t]) \div Second
  BY DEF Genuine
<1> DEFINE mine == now + Skew[s]
           its  == cookie.at + Skew[t]
<1>2. mine \in Nat /\ its \in Nat /\ cookie.at \in Nat /\ Skew[t] \in Nat
  BY DEF TypeOK, Cookie
<1>3. mine \div Second <= cookie.signed + MaxAgeSeconds
  BY DEF Verified, Unix
<1> HIDE DEF mine, its
<1> DEFINE signed == its \div Second
           read == mine \div Second
<1>4. /\ signed \in Nat /\ signed * Second <= its
      /\ read \in Nat /\ mine < read * Second + Second
  BY <1>2, DivBounds
<1>5. read <= signed + MaxAgeSeconds
  BY <1>1, <1>3 DEF its
<1> HIDE DEF signed, read
<1>6. /\ (signed + MaxAgeSeconds) * Second = signed * Second + MaxAgeSeconds * Second
      /\ (MaxAgeSeconds + 1) * Second = MaxAgeSeconds * Second + Second
  BY <1>4, MaxAge, TimesDistributes
<1>7. read * Second <= (signed + MaxAgeSeconds) * Second
  BY <1>4, <1>5, MaxAge, TimesMonotone
<1>8. /\ signed * Second \in Nat /\ read * Second \in Nat
      /\ MaxAgeSeconds * Second \in Nat
  BY <1>4, MaxAge, TimesMonotone
<1>9. mine < its + (MaxAgeSeconds + 1) * Second
  <2> DEFINE a == signed * Second
             b == MaxAgeSeconds * Second
             c == read * Second
  <2>1. a \in Nat /\ b \in Nat /\ c \in Nat /\ c <= a + b /\ mine < c + Second /\ a <= its
        /\ (MaxAgeSeconds + 1) * Second = b + Second
    BY <1>4, <1>6, <1>7, <1>8
  <2> HIDE DEF a, b, c
  <2>2. mine < its + (b + Second)
    BY <1>2, <2>1
  <2> QED
    BY <2>1, <2>2
<1>10. (MaxAgeSeconds + 1) * Second \in Nat
  BY MaxAge, TimesMonotone
<1> QED
  BY <1>2, <1>9, <1>10 DEF mine, its
-----------------------------------------------------------------------------
(* The response of a unary procedure is pinned exactly if it is marked.    *)
LEMMA UnaryResponse ==
    ASSUME NEW e \in BOOLEAN, NEW err \in BOOLEAN
    PROVE  /\ withFenceIntent \in Response
           /\ Intercepted(withFenceIntent, e, err) \in Response
           /\ WriteHeader(Intercepted(withFenceIntent, e, err)).pinned <=> e /\ ~err
<1>1. withFenceIntent \in Response
  BY DEF Response, Flags, withFenceIntent
<1>2. MarkFenceIntent(withFenceIntent) \in Response
  BY DEF Response, Flags, withFenceIntent, MarkFenceIntent
<1>3. WriteHeader(withFenceIntent).pinned = FALSE
  BY DEF WriteHeader, Flushed, setCookie, withFenceIntent
<1>4. WriteHeader(MarkFenceIntent(withFenceIntent)).pinned = TRUE
  BY DEF WriteHeader, Flushed, setCookie, withFenceIntent, MarkFenceIntent
<1> QED
  BY <1>1, <1>2, <1>3, <1>4 DEF Intercepted

(* The methods of the response take a response to a response.              *)
LEMMA ResponseTyped ==
    ASSUME NEW r \in Response, NEW e \in BOOLEAN, NEW err \in BOOLEAN
    PROVE  WriteHeader(r) \in Response /\ Intercepted(r, e, err) \in Response
<1>1. setCookie(r) \in Response /\ MarkFenceIntent(r) \in Response
  BY DEF Response, Flags, setCookie, MarkFenceIntent
<1>2. \A v \in Response : Flushed(v) \in Response
  BY DEF Response, Flags, Flushed
<1> QED
  BY <1>1, <1>2 DEF WriteHeader, Intercepted

(* A step of one call.                                                     *)
LEMMA UpdateStep ==
    ASSUME TypeOK, NEW q \in Request, NEW c \in Call, Update(q, c)
    PROVE  /\ call' \in [Request -> Call] /\ call'[q] = c
           /\ \A p \in Request \ {q} : call'[p] = call[p]
BY DEF TypeOK, Update

(* The types of the parts of a call,                                       *)
LEMMA CallTyped ==
    ASSUME TypeOK, NEW q \in Request
    PROVE  /\ call[q] \in Call /\ call[q].need \in Nat /\ call[q].version \in Nat
           /\ call[q].cookie \in Cookie /\ call[q].server \in Server
           /\ call[q].response \in Response /\ call[q].stage \in Stage
BY DEF TypeOK, Call

(* and of a cookie a server signs.                                         *)
LEMMA SignedTyped ==
    ASSUME TypeOK, NEW s \in Server
    PROVE  Signed(s) \in Cookie /\ Genuine(Signed(s)) /\ Signed(s).at = now
           /\ NoCookie \in Cookie
<1>1. now + Skew[s] \in Nat /\ now \in Nat
  BY DEF TypeOK
<1>2. Unix(s) \in Nat
  BY <1>1, DivBounds DEF Unix
<1> QED
  BY <1>1, <1>2 DEF Signed, Cookie, Genuine, Unix, NoCookie

(* Every step keeps the types.                                            *)
LEMMA TypeStep ==
    ASSUME TypeOK, FenceInvariant, [Next]_vars
    PROVE  TypeOK'
<1>1. ASSUME NEW q \in Request, NEW c \in Call, Update(q, c)
      PROVE  call' \in [Request -> Call]
  BY <1>1, UpdateStep
<1>2. ASSUME NEW q \in Request, Send(q)
      PROVE  TypeOK'
  <2>1. PICK cookie \in Cookie :
          Update(q, [call[q] EXCEPT !.stage = "sent", !.need = told, !.cookie = cookie])
    BY <1>2, SignedTyped DEF Send, TypeOK
  <2>2. [call[q] EXCEPT !.stage = "sent", !.need = told, !.cookie = cookie] \in Call
    <3>1. told \in Nat
      BY DEF TypeOK
    <3> QED
      BY <3>1, CallTyped DEF Call, Stage
  <2>3. call' \in [Request -> Call]
    BY <1>1, <2>1, <2>2
  <2> QED
    BY <1>2, <2>3 DEF Send, TypeOK
<1>3. ASSUME NEW q \in Request, NEW s \in Server, Serve(q, s)
      PROVE  TypeOK'
  <2>1. withFenceIntent \in Response
    BY UnaryResponse
  <2>2. \A reached \in Stage :
          [call[q] EXCEPT !.stage = reached, !.server = s, !.response = withFenceIntent] \in Call
    BY <2>1, CallTyped DEF Call
  <2>3. call' \in [Request -> Call]
    BY <1>1, <1>3, <2>2 DEF Serve, Stage
  <2> QED
    BY <1>3, <2>3 DEF Serve, TypeOK
<1>4. ASSUME NEW q \in Request, NEW v \in Nat, NEW err \in BOOLEAN, Returns(q, v, err)
      PROVE  call' \in [Request -> Call]
  <2>1. Intercepted(call[q].response, q \in Writing, err) \in Response
    <3>1. (q \in Writing) \in BOOLEAN
      OBVIOUS
    <3> QED
      BY <3>1, CallTyped, ResponseTyped
  <2>2. [call[q] EXCEPT !.stage = "handled", !.version = v,
            !.response = Intercepted(call[q].response, q \in Writing, err)] \in Call
    BY <2>1, CallTyped DEF Call, Stage
  <2> QED
    BY <1>1, <1>4, <2>2 DEF Returns
<1>5. ASSUME NEW q \in Request, Read(q) \/ Fail(q)
      PROVE  TypeOK'
  <2>1. Len(commits) \in Nat /\ replica \in Nat
    BY DEF TypeOK
  <2>2. call' \in [Request -> Call]
    BY <1>4, <1>5, <2>1 DEF Read, Fail
  <2> QED
    BY <1>5, <2>2 DEF Read, Fail, TypeOK
<1>6. ASSUME NEW q \in Request, Commit(q)
      PROVE  TypeOK'
  <2>1. /\ commits' = Append(commits, now) /\ now' = now /\ replica' = replica
        /\ told' = told /\ jar' = jar
    BY <1>6 DEF Commit
  <2>2. commits' \in Seq(Nat) /\ Len(commits') = Len(commits) + 1 /\ Len(commits) \in Nat
    BY <2>1 DEF TypeOK
  <2>3. call' \in [Request -> Call]
    <3>1. Returns(q, Len(commits) + 1, FALSE) \/ Returns(q, 0, TRUE)
      BY <1>6 DEF Commit
    <3>2. Len(commits) + 1 \in Nat
      BY <2>2
    <3> QED
      BY <1>4, <3>1, <3>2
  <2> QED
    BY <2>1, <2>2, <2>3 DEF TypeOK
<1>7. ASSUME NEW q \in Request, Respond(q)
      PROVE  TypeOK'
  <2>1. WriteHeader(call[q].response) \in Response
    BY CallTyped, ResponseTyped
  <2>2. PICK cookie \in Cookie :
          Update(q, [call[q] EXCEPT !.stage = "responded",
                       !.response = WriteHeader(call[q].response), !.cookie = cookie])
    BY <1>7, CallTyped, SignedTyped DEF Respond
  <2>3. [call[q] EXCEPT !.stage = "responded",
            !.response = WriteHeader(call[q].response), !.cookie = cookie] \in Call
    BY <2>1, CallTyped DEF Call, Stage
  <2>4. call' \in [Request -> Call]
    BY <1>1, <2>2, <2>3
  <2> QED
    BY <1>7, <2>4 DEF Respond, TypeOK
<1>8. ASSUME NEW q \in Request, Receive(q)
      PROVE  TypeOK'
  <2>1. [call[q] EXCEPT !.stage = "done"] \in Call
    BY CallTyped DEF Call, Stage
  <2>2. call' \in [Request -> Call]
    BY <1>1, <1>8, <2>1 DEF Receive
  <2>3. now + MaxAgeSeconds * Second \in Nat
    BY MaxAge DEF TypeOK
  <2>4. jar' \in Cookie
    BY <1>8, <2>3, CallTyped DEF Receive, Cookie, TypeOK
  <2>5. told' \in 0 .. Len(commits)
    BY <1>8, CallTyped DEF Receive, FenceInvariant, CallFenced, TypeOK
  <2> QED
    BY <1>8, <2>2, <2>4, <2>5 DEF Receive, TypeOK
<1>9. CASE Replicate \/ Tick \/ UNCHANGED vars
  BY <1>9 DEF Replicate, Tick, vars, TypeOK
<1> QED
  BY <1>2, <1>3, <1>5, <1>6, <1>7, <1>8, <1>9 DEF Next, AllDone
-----------------------------------------------------------------------------
(* What the types say of the numbers.                                      *)
LEMMA Numbers ==
    ASSUME TypeOK
    PROVE  /\ now \in Nat /\ Len(commits) \in Nat
           /\ replica \in Nat /\ replica <= Len(commits)
           /\ told \in Nat /\ told <= Len(commits)
           /\ \A i \in 1 .. Len(commits) : commits[i] \in Nat
           /\ jar \in Cookie /\ Lag \in Nat \ {0}
           /\ \A s \in Server : Skew[s] \in Nat
           /\ \A cookie \in Cookie : cookie.at \in Nat /\ cookie.drop \in Nat
<1>1. Len(commits) \in Nat /\ \A i \in 1 .. Len(commits) : commits[i] \in Nat
  BY DEF TypeOK
<1> QED
  BY <1>1 DEF TypeOK, Cookie

(* Time goes on, writes are added, and the replica follows.                *)
Grows ==
    /\ Len(commits) <= Len(commits')
    /\ \A i \in 1 .. Len(commits) : commits'[i] = commits[i]
    /\ replica <= replica' /\ now <= now'

(* A cookie keeps standing for what it stands for.                         *)
LEMMA StillFences ==
    ASSUME TypeOK, TypeOK', Grows, NEW cookie \in Cookie, NEW v \in Nat, Fences(cookie, v)
    PROVE  Fences(cookie, v)' /\ (Genuine(cookie) <=> Genuine(cookie)')
<1>1. Len(commits) \in Nat /\ Len(commits') \in Nat
  BY DEF TypeOK
<1> QED
  BY <1>1 DEF Grows, Fences, Genuine

(* Other calls are as well off as before.                                  *)
LEMMA OthersFenced ==
    ASSUME TypeOK, TypeOK', Grows, NEW p \in Request, call'[p] = call[p], CallFenced(p)
    PROVE  CallFenced(p)'
<1>1. Len(commits) \in Nat /\ Len(commits') \in Nat /\ now \in Nat /\ now' \in Nat
  BY DEF TypeOK
<1>2. /\ call[p].need \in Nat /\ call[p].version \in Nat /\ call[p].cookie.at \in Nat
  BY CallTyped, Numbers
<1>3. Genuine(call[p].cookie) => Genuine(call[p].cookie)'
  BY DEF Genuine
<1>4. \A v \in Nat : Fences(call[p].cookie, v) =>
        (v # 0 => v <= Len(commits') /\ commits'[v] <= call[p].cookie.at)
  BY <1>1, <1>2 DEF Fences, Grows
<1>5. now <= now' /\ Len(commits) <= Len(commits')
  BY DEF Grows
<1> DEFINE c == call[p]
<1>6. /\ c.need <= Len(commits')
      /\ p \in Writing => c.version <= Len(commits')
  BY <1>1, <1>2, <1>5 DEF CallFenced
<1>7. c.stage = "sent" /\ c.cookie # NoCookie =>
        Genuine(c.cookie) /\ (c.need # 0 => c.need <= Len(commits') /\ commits'[c.need] <= c.cookie.at)
  BY <1>2, <1>4 DEF CallFenced
<1>8. c.stage = "responded" /\ c.response.pinned =>
        /\ Genuine(c.cookie) /\ c.cookie.at <= now'
        /\ c.version # 0 => c.version <= Len(commits') /\ commits'[c.version] <= c.cookie.at
  BY <1>1, <1>2, <1>4, <1>5 DEF CallFenced
<1> QED
  BY <1>6, <1>7, <1>8 DEF CallFenced, Fences, Genuine

(* The replica never falls back.                                           *)
LEMMA OthersCatchUp ==
    ASSUME TypeOK, TypeOK', Grows, NEW p \in Request, call'[p] = call[p], CatchesUp(p)
    PROVE  CatchesUp(p)'
<1>1. replica \in Nat /\ replica' \in Nat /\ call[p].need \in Nat
  BY CallTyped DEF TypeOK
<1> QED
  BY <1>1 DEF CatchesUp, Grows

(* The steps of a call that touch nothing else.                            *)
LEMMA QuietStep ==
    ASSUME TypeOK, TypeOK', FenceInvariant, NEW q \in Request, NEW c \in Call, Update(q, c),
           UNCHANGED <<now, commits, replica, told, jar>>, CallFenced(q)'
    PROVE  FenceInvariant'
<1>1. Grows
  BY DEF Grows, TypeOK
<1>2. \A p \in Request : CallFenced(p)'
  BY <1>1, OthersFenced, UpdateStep DEF FenceInvariant
<1>3. ReplicaInTime'
  BY DEF FenceInvariant, ReplicaInTime
<1>4. JarFencesTold'
  BY DEF FenceInvariant, JarFencesTold, Fences, Genuine
<1> QED
  BY <1>2, <1>3, <1>4 DEF FenceInvariant

(* A client whose browser has discarded the cookie has waited long enough. *)
LEMMA SendPreserves ==
    ASSUME TypeOK, TypeOK', FenceInvariant, NEW q \in Request, Send(q)
    PROVE  /\ FenceInvariant'
           /\ FenceOutlivesLag /\ OwnWritesInvariant => OwnWritesInvariant'
<1>1. PICK cookie \in {jar} \cup (IF now < jar.drop THEN {} ELSE {NoCookie}) :
        Update(q, [call[q] EXCEPT !.stage = "sent", !.need = told, !.cookie = cookie])
  BY DEF Send
<1> DEFINE c == [call[q] EXCEPT !.stage = "sent", !.need = told, !.cookie = cookie]
<1>2. /\ told \in Nat /\ told <= Len(commits) /\ jar \in Cookie /\ replica \in Nat
      /\ now \in Nat /\ Len(commits) \in Nat
      /\ cookie \in Cookie /\ (cookie # jar => cookie = NoCookie /\ now >= jar.drop)
      /\ jar.drop \in Nat /\ jar.at \in Nat
  BY Numbers, SignedTyped
<1>3. /\ c \in Call /\ c.stage = "sent" /\ c.need = told /\ c.cookie = cookie
      /\ c.version = call[q].version
  BY <1>2, CallTyped DEF Call, Stage
<1>4. /\ now' = now /\ commits' = commits /\ replica' = replica
      /\ UNCHANGED <<now, commits, replica, told, jar>> /\ Update(q, c)
  BY <1>1 DEF Send
<1> HIDE DEF c
<1>5. call'[q] = c /\ \A p \in Request \ {q} : call'[p] = call[p]
  BY <1>3, <1>4, UpdateStep
<1>6. CallFenced(q)'
  <2>1. cookie # NoCookie => Genuine(cookie) /\ Fences(cookie, told)
    BY <1>2 DEF FenceInvariant, JarFencesTold
  <2> QED
    BY <1>2, <1>3, <1>4, <1>5, <2>1 DEF FenceInvariant, CallFenced, Fences, Genuine
<1>7. FenceInvariant'
  BY <1>3, <1>4, <1>6, QuietStep
<1>8. ASSUME FenceOutlivesLag, cookie = NoCookie
      PROVE  told <= replica
  <2>1. CASE jar = NoCookie
    BY <1>2, <2>1 DEF FenceInvariant, JarFencesTold
  <2>2. CASE jar # NoCookie /\ told # 0
    <3>1. /\ commits[told] <= jar.at /\ now >= jar.drop
          /\ jar.drop >= jar.at + MaxAgeSeconds * Second
      BY <1>2, <1>8, <2>2 DEF FenceInvariant, JarFencesTold, Fences
    <3>2. told \in 1 .. Len(commits) /\ commits[told] \in Nat
      BY <1>2, <2>2 DEF TypeOK
    <3>3. now >= commits[told] + Lag
      BY <1>2, <1>8, <3>1, <3>2, MaxAge DEF FenceOutlivesLag
    <3> QED
      BY <1>2, <3>2, <3>3 DEF FenceInvariant, ReplicaInTime
  <2>3. CASE told = 0
    BY <1>2, <2>3
  <2> QED
    BY <2>1, <2>2, <2>3
<1>9. FenceOutlivesLag /\ OwnWritesInvariant => OwnWritesInvariant'
  BY <1>3, <1>4, <1>5, <1>8 DEF OwnWritesInvariant, CatchesUp
<1> QED
  BY <1>7, <1>9

(* The arithmetic of a refusal: what was committed at c is on the replica.  *)
LEMMA Waited ==
    ASSUME NEW n \in Nat, NEW a \in Nat, NEW c \in Nat, NEW l \in Nat, NEW m \in Nat,
           NEW x \in Nat, NEW y \in Nat,
           c <= a, l + x <= m + y + 1, n + x >= a + y + m + 1
    PROVE  n >= c + l
OBVIOUS

(* So has one whose cookie is refused.                                     *)
LEMMA ServePreserves ==
    ASSUME TypeOK, TypeOK', FenceInvariant, NEW q \in Request, NEW s \in Server, Serve(q, s)
    PROVE  /\ FenceInvariant'
           /\ FenceOutlivesLag /\ OwnWritesInvariant => OwnWritesInvariant'
<1> DEFINE reached == IF Verified(s, call[q].cookie) THEN "promoted" ELSE "unpromoted"
           c == [call[q] EXCEPT !.stage = reached, !.server = s, !.response = withFenceIntent]
<1>1. /\ reached \in {"promoted", "unpromoted"}
      /\ reached = "unpromoted" <=> ~Verified(s, call[q].cookie)
  OBVIOUS
<1>2. /\ call[q] \in Call /\ call[q].need \in Nat /\ call[q].version \in Nat
      /\ call[q].cookie \in Cookie /\ withFenceIntent \in Response
  BY CallTyped, UnaryResponse
<1>3. /\ c \in Call /\ c.stage = reached /\ c.need = call[q].need /\ c.version = call[q].version
      /\ c.response = withFenceIntent
  BY <1>1, <1>2 DEF Call, Stage
<1>4. /\ now' = now /\ commits' = commits /\ replica' = replica
      /\ UNCHANGED <<now, commits, replica, told, jar>> /\ Update(q, c)
      /\ call[q].stage = "sent"
  BY DEF Serve
<1> HIDE DEF c, reached
<1>5. call'[q] = c /\ \A p \in Request \ {q} : call'[p] = call[p]
  BY <1>3, <1>4, UpdateStep
<1>6. CallFenced(q)'
  BY <1>1, <1>3, <1>4, <1>5 DEF FenceInvariant, CallFenced
<1>7. FenceInvariant'
  BY <1>3, <1>4, <1>6, QuietStep
<1>8. ASSUME FenceOutlivesLag, OwnWritesInvariant, reached = "unpromoted"
      PROVE  call[q].need <= replica
  <2> DEFINE cookie == call[q].cookie
             need == call[q].need
  <2>1. now \in Nat /\ replica \in Nat /\ cookie.at \in Nat /\ Len(commits) \in Nat
        /\ need \in Nat /\ cookie \in Cookie
    BY <1>2, Numbers
  <2>2. CASE cookie = NoCookie
    BY <1>4, <1>8, <2>2 DEF OwnWritesInvariant, CatchesUp
  <2>3. CASE need = 0
    BY <2>1, <2>3
  <2>4. CASE cookie # NoCookie /\ need # 0
    <3>1. Genuine(cookie) /\ need <= Len(commits) /\ commits[need] <= cookie.at
      BY <1>4, <2>4 DEF FenceInvariant, CallFenced, Fences
    <3>2. PICK t \in Server :
            now + Skew[s] >= cookie.at + Skew[t] + MaxAgeSeconds * Second + 1
      BY <1>1, <1>8, <2>1, <2>4, <3>1, RefusedAfter
    <3>3. Lag + Skew[s] <= MaxAgeSeconds * Second + Skew[t] + 1
      BY <1>8 DEF FenceOutlivesLag
    <3>4. need \in 1 .. Len(commits) /\ commits[need] \in Nat
      BY <2>1, <2>4, <3>1, Numbers
    <3>5. Skew[s] \in Nat /\ Skew[t] \in Nat /\ MaxAgeSeconds * Second \in Nat
      BY MaxAge
    <3> HIDE DEF cookie, need
    <3>6. now >= commits[need] + Lag
      <4> DEFINE m == MaxAgeSeconds * Second
      <4>1. m \in Nat /\ Skew[s] \in Nat /\ Skew[t] \in Nat /\ Lag \in Nat /\ Lag + Skew[s] <= m + Skew[t] + 1
            /\ now + Skew[s] >= cookie.at + Skew[t] + m + 1
        BY <3>2, <3>3, <3>5, Numbers
      <4> HIDE DEF m
      <4> QED
        BY <2>1, <3>1, <3>4, <4>1, Waited
    <3> QED
      BY <2>1, <3>4, <3>6 DEF FenceInvariant, ReplicaInTime, need
  <2> QED
    BY <2>2, <2>3, <2>4
<1>9. FenceOutlivesLag /\ OwnWritesInvariant => OwnWritesInvariant'
  BY <1>1, <1>3, <1>4, <1>5, <1>8 DEF OwnWritesInvariant, CatchesUp
<1> QED
  BY <1>7, <1>9
-----------------------------------------------------------------------------
(* The procedure has returned.                                             *)
LEMMA ReturnsStep ==
    ASSUME TypeOK, FenceInvariant, NEW q \in Request, Handling(q),
           NEW v \in Nat, NEW err \in BOOLEAN, Returns(q, v, err),
           q \in Writing => (err <=> v = 0)
    PROVE  /\ call'[q].stage = "handled" /\ call'[q].version = v
           /\ call'[q].need = call[q].need
           /\ call'[q].response = Intercepted(withFenceIntent, q \in Writing, v = 0)
           /\ \A p \in Request \ {q} : call'[p] = call[p]
<1>1. call[q].response = withFenceIntent
  BY DEF Handling, FenceInvariant, CallFenced
<1>2. Intercepted(withFenceIntent, q \in Writing, err) =
        Intercepted(withFenceIntent, q \in Writing, v = 0)
  <2>1. CASE q \in Writing
    <3>1. err = (v = 0)
      BY <2>1
    <3> QED
      BY <3>1
  <2>2. CASE q \notin Writing
    BY <2>2 DEF Intercepted
  <2> QED
    BY <2>1, <2>2
<1>3. Intercepted(withFenceIntent, q \in Writing, err) \in Response
  <2>1. (q \in Writing) \in BOOLEAN
    OBVIOUS
  <2> QED
    BY <2>1, UnaryResponse
<1> DEFINE c == [call[q] EXCEPT !.stage = "handled", !.version = v,
                   !.response = Intercepted(withFenceIntent, q \in Writing, err)]
<1>4. /\ c \in Call /\ c.stage = "handled" /\ c.version = v /\ c.need = call[q].need
      /\ c.response = Intercepted(withFenceIntent, q \in Writing, err)
  BY <1>3, CallTyped DEF Call, Stage
<1>5. Update(q, c)
  BY <1>1 DEF Returns
<1> HIDE DEF c
<1>6. call'[q] = c /\ \A p \in Request \ {q} : call'[p] = call[p]
  BY <1>4, <1>5, UpdateStep
<1> QED
  BY <1>2, <1>4, <1>6

(* A read on the primary sees all there is, one on the replica what the    *)
(* client needs.                                                           *)
LEMMA ReadPreserves ==
    ASSUME TypeOK, TypeOK', FenceInvariant, NEW q \in Request, Read(q)
    PROVE  FenceInvariant' /\ (OwnWritesInvariant => OwnWritesInvariant')
<1> DEFINE v == IF call[q].stage = "promoted" THEN Len(commits) ELSE replica
<1>1. /\ now' = now /\ commits' = commits /\ replica' = replica /\ told' = told /\ jar' = jar
      /\ Handling(q) /\ q \notin Writing /\ Returns(q, v, FALSE)
  BY DEF Read
<1>2. v \in Nat /\ call[q].need \in Nat
  BY Numbers, CallTyped
<1>3. /\ call'[q].stage = "handled" /\ call'[q].version = v /\ call'[q].need = call[q].need
      /\ call'[q].response = Intercepted(withFenceIntent, q \in Writing, v = 0)
      /\ \A p \in Request \ {q} : call'[p] = call[p]
  BY <1>1, <1>2, ReturnsStep
<1>4. OwnWritesInvariant => v >= call[q].need
  BY <1>1, <1>2, Numbers DEF OwnWritesInvariant, CatchesUp, FenceInvariant, CallFenced, Handling
<1> HIDE DEF v
<1>5. Grows
  BY <1>1, Numbers DEF Grows
<1>6. CallFenced(q)'
  BY <1>1, <1>3 DEF FenceInvariant, CallFenced
<1>7. FenceInvariant'
  BY <1>1, <1>3, <1>5, <1>6, OthersFenced DEF FenceInvariant, ReplicaInTime, JarFencesTold,
     Fences, Genuine
<1>8. ASSUME OwnWritesInvariant
      PROVE  OwnWritesInvariant'
  BY <1>3, <1>4, <1>5, <1>8, OthersCatchUp DEF OwnWritesInvariant, CatchesUp
<1> QED
  BY <1>7, <1>8

(* The log of the primary is one entry longer.                             *)
LEMMA CommitStep ==
    ASSUME TypeOK, commits' = Append(commits, now)
    PROVE  /\ Len(commits') = Len(commits) + 1 /\ commits'[Len(commits) + 1] = now
           /\ \A i \in 1 .. Len(commits) : commits'[i] = commits[i]
BY DEF TypeOK

(* A write that succeeds returns its own place in the log; one that fails, *)
(* committed or not, returns none and pins no fence.                       *)
LEMMA WritePreserves ==
    ASSUME TypeOK, TypeOK', FenceInvariant, NEW q \in Request, Commit(q) \/ Fail(q)
    PROVE  FenceInvariant' /\ (OwnWritesInvariant => OwnWritesInvariant')
<1>1. /\ now' = now /\ replica' = replica /\ told' = told /\ jar' = jar
      /\ Handling(q) /\ q \in Writing
  BY DEF Commit, Fail
<1>2. /\ commits' = commits \/ commits' = Append(commits, now)
      /\ \E v \in 0 .. Len(commits'), err \in BOOLEAN : Returns(q, v, err) /\ (err <=> v = 0)
  <2>1. CASE Commit(q)
    <3>1. commits' = Append(commits, now) /\ Len(commits') = Len(commits) + 1
          /\ Len(commits) \in Nat
      BY <2>1 DEF Commit, TypeOK
    <3>2. Len(commits) + 1 \in 0 .. Len(commits') /\ Len(commits) + 1 # 0 /\ 0 \in 0 .. Len(commits')
      BY <3>1
    <3>3. Returns(q, Len(commits) + 1, FALSE) \/ Returns(q, 0, TRUE)
      BY <2>1 DEF Commit
    <3> QED
      BY <3>1, <3>2, <3>3
  <2>2. CASE Fail(q)
    <3>1. commits' = commits /\ Returns(q, 0, TRUE)
      BY <2>2 DEF Fail
    <3>2. 0 \in 0 .. Len(commits')
      BY <3>1, Numbers
    <3> QED
      BY <3>1, <3>2
  <2> QED
    BY <2>1, <2>2
<1>3. PICK v \in 0 .. Len(commits'), err \in BOOLEAN :
        Returns(q, v, err) /\ (err <=> v = 0)
  BY <1>2
<1>4. /\ Len(commits) \in Nat /\ Len(commits') \in Nat /\ v \in Nat /\ v <= Len(commits')
      /\ call[q].need \in Nat
  BY Numbers, CallTyped DEF TypeOK
<1>5. /\ call'[q].stage = "handled" /\ call'[q].version = v /\ call'[q].need = call[q].need
      /\ call'[q].response = Intercepted(withFenceIntent, q \in Writing, v = 0)
      /\ \A p \in Request \ {q} : call'[p] = call[p]
  BY <1>1, <1>3, <1>4, ReturnsStep
<1>6. Len(commits) <= Len(commits') /\ \A i \in 1 .. Len(commits) : commits'[i] = commits[i]
  BY <1>2, <1>4, CommitStep
<1>7. Grows
  BY <1>1, <1>6, Numbers DEF Grows
<1>8. CallFenced(q)'
  BY <1>1, <1>4, <1>5, <1>6 DEF FenceInvariant, CallFenced
<1>9. ReplicaInTime'
  <2>1. ASSUME NEW i \in 1 .. Len(commits')
        PROVE  commits'[i] <= now /\ (i > replica => now < commits'[i] + Lag)
    <3>1. CASE i \in 1 .. Len(commits)
      BY <1>6, <3>1 DEF FenceInvariant, ReplicaInTime
    <3>2. CASE i \notin 1 .. Len(commits)
      <4>1. commits'[i] = now
        BY <1>2, <1>4, <2>1, <3>2, CommitStep
      <4> QED
        BY <4>1, Numbers
    <3> QED
      BY <3>1, <3>2
  <2> QED
    BY <1>1, <2>1 DEF ReplicaInTime
<1>10. JarFencesTold'
  BY <1>1, <1>7, StillFences, Numbers DEF FenceInvariant, JarFencesTold
<1>11. FenceInvariant'
  BY <1>5, <1>7, <1>8, <1>9, <1>10, OthersFenced DEF FenceInvariant
<1>12. ASSUME OwnWritesInvariant
       PROVE  OwnWritesInvariant'
  BY <1>1, <1>5, <1>7, <1>12, OthersCatchUp DEF OwnWritesInvariant, CatchesUp
<1> QED
  BY <1>11, <1>12

(* A response that reports a write carries a cookie signed after it.       *)
LEMMA RespondPreserves ==
    ASSUME TypeOK, TypeOK', FenceInvariant, NEW q \in Request, Respond(q)
    PROVE  FenceInvariant' /\ (OwnWritesInvariant => OwnWritesInvariant')
<1> DEFINE r == WriteHeader(call[q].response)
           cookie == IF r.pinned THEN Signed(call[q].server) ELSE NoCookie
           c == [call[q] EXCEPT !.stage = "responded", !.response = r, !.cookie = cookie]
<1>1. /\ now' = now /\ commits' = commits /\ replica' = replica /\ told' = told /\ jar' = jar
      /\ UNCHANGED <<now, commits, replica, told, jar>> /\ Update(q, c)
      /\ call[q].stage = "handled"
  BY DEF Respond
<1>2. /\ r \in Response /\ cookie \in Cookie
      /\ r.pinned => Genuine(cookie) /\ cookie.at = now
  BY CallTyped, ResponseTyped, SignedTyped
<1>3. /\ c \in Call /\ c.stage = "responded" /\ c.response = r /\ c.cookie = cookie
      /\ c.need = call[q].need /\ c.version = call[q].version
  BY <1>2, CallTyped DEF Call, Stage
<1>4. r.pinned <=> (q \in Writing /\ call[q].version # 0)
  <2>1. call[q].response = Intercepted(withFenceIntent, q \in Writing, call[q].version = 0)
    BY <1>1 DEF FenceInvariant, CallFenced
  <2>2. (q \in Writing) \in BOOLEAN /\ (call[q].version = 0) \in BOOLEAN
    OBVIOUS
  <2> QED
    BY <2>1, <2>2, UnaryResponse
<1> HIDE DEF c, r, cookie
<1>5. call'[q] = c /\ \A p \in Request \ {q} : call'[p] = call[p]
  BY <1>1, <1>3, UpdateStep
<1>6. CallFenced(q)'
  <2>1. r.pinned => Fences(cookie, call[q].version) /\ cookie.at <= now
    <3>1. call[q].version \in Nat /\ q \in Writing => call[q].version <= Len(commits)
      BY CallTyped DEF FenceInvariant, CallFenced
    <3>2. \A v \in Nat : v # 0 /\ v <= Len(commits) => commits[v] <= now
      BY Numbers DEF FenceInvariant, ReplicaInTime
    <3> QED
      BY <1>2, <1>4, <3>1, <3>2, CallTyped, Numbers DEF Fences
  <2>2. call[q].need <= Len(commits) /\ (q \in Writing => call[q].version <= Len(commits))
    BY DEF FenceInvariant, CallFenced
  <2> QED
    BY <1>1, <1>2, <1>3, <1>4, <1>5, <2>1, <2>2 DEF CallFenced, Fences, Genuine
<1>7. FenceInvariant'
  BY <1>1, <1>3, <1>6, QuietStep
<1>8. ASSUME OwnWritesInvariant
      PROVE  OwnWritesInvariant'
  BY <1>1, <1>3, <1>5, <1>8 DEF OwnWritesInvariant, CatchesUp
<1> QED
  BY <1>7, <1>8

(* The client is told of the write and gets its cookie at once.            *)
LEMMA ReceivePreserves ==
    ASSUME TypeOK, TypeOK', FenceInvariant, NEW q \in Request, Receive(q)
    PROVE  FenceInvariant' /\ (OwnWritesInvariant => OwnWritesInvariant')
<1> DEFINE c == [call[q] EXCEPT !.stage = "done"]
<1>1. /\ now' = now /\ commits' = commits /\ replica' = replica /\ Update(q, c)
      /\ call[q].stage = "responded"
      /\ jar' = IF call[q].response.pinned
                THEN [call[q].cookie EXCEPT !.drop = now + MaxAgeSeconds * Second] ELSE jar
      /\ told' = IF q \in Writing /\ call[q].version # 0 THEN call[q].version ELSE told
  BY DEF Receive
<1>2. /\ c \in Call /\ c.stage = "done" /\ c.need = call[q].need /\ c.version = call[q].version
  BY CallTyped DEF Call, Stage
<1> HIDE DEF c
<1>3. call'[q] = c /\ \A p \in Request \ {q} : call'[p] = call[p]
  BY <1>1, <1>2, UpdateStep
<1>4. Grows
  BY <1>1, Numbers DEF Grows
<1>5. CallFenced(q)'
  BY <1>1, <1>2, <1>3 DEF FenceInvariant, CallFenced
<1>6. call[q].response.pinned <=> (q \in Writing /\ call[q].version # 0)
  BY <1>1 DEF FenceInvariant, CallFenced
<1>7. JarFencesTold'
  <2>1. CASE call[q].response.pinned
    <3>1. /\ Genuine(call[q].cookie) /\ Fences(call[q].cookie, call[q].version)
          /\ call[q].cookie.at <= now
      BY <1>1, <2>1 DEF FenceInvariant, CallFenced
    <3> DEFINE m == MaxAgeSeconds * Second
    <3>2. m \in Nat \ {0} /\ now \in Nat /\ call[q].cookie.at \in Nat
      BY MaxAge, Numbers, CallTyped
    <3>3. jar' = [call[q].cookie EXCEPT !.drop = now + m]
      BY <1>1, <2>1
    <3> HIDE DEF m
    <3>4. jar'.at = call[q].cookie.at /\ jar'.signed = call[q].cookie.signed /\ jar'.drop = now + m
      BY <3>3, CallTyped DEF Cookie
    <3>5. jar' # NoCookie
      BY <3>2, <3>4 DEF NoCookie
    <3>6. jar'.drop >= jar'.at + m /\ jar'.at <= now
      BY <3>1, <3>2, <3>4
    <3>7. told' = call[q].version
      BY <1>1, <1>6, <2>1
    <3> QED
      BY <1>1, <3>1, <3>4, <3>5, <3>6, <3>7 DEF JarFencesTold, Genuine, Fences, m
  <2>2. CASE ~call[q].response.pinned
    <3>1. jar' = jar /\ told' = told
      BY <1>1, <1>6, <2>2
    <3> QED
      BY <1>1, <3>1 DEF FenceInvariant, JarFencesTold, Genuine, Fences
  <2> QED
    BY <2>1, <2>2
<1>8. FenceInvariant'
  BY <1>1, <1>3, <1>4, <1>5, <1>7, OthersFenced DEF FenceInvariant, ReplicaInTime
<1>9. ASSUME OwnWritesInvariant
      PROVE  OwnWritesInvariant'
  BY <1>1, <1>2, <1>3, <1>9 DEF OwnWritesInvariant, CatchesUp
<1> QED
  BY <1>8, <1>9

(* Time passes and the replica follows.                                    *)
LEMMA ReplicaPreserves ==
    ASSUME TypeOK, TypeOK', FenceInvariant, Replicate \/ Tick
    PROVE  FenceInvariant' /\ (OwnWritesInvariant => OwnWritesInvariant')
<1>1. /\ commits' = commits /\ told' = told /\ jar' = jar /\ call' = call
      /\ \/ now' = now /\ replica' = replica + 1
         \/ /\ now' = now + 1 /\ replica' = replica
            /\ \A i \in replica + 1 .. Len(commits) : now + 1 < commits[i] + Lag
  BY DEF Replicate, Tick
<1>2. Grows
  BY <1>1, Numbers DEF Grows
<1>3. ReplicaInTime'
  BY <1>1, Numbers DEF FenceInvariant, ReplicaInTime
<1>4. JarFencesTold'
  <2>1. jar \in Cookie /\ jar.at \in Nat /\ told \in Nat /\ now \in Nat /\ now' \in Nat /\ now <= now'
    BY <1>1, Numbers
  <2> QED
    BY <1>1, <2>1 DEF FenceInvariant, JarFencesTold, Genuine, Fences
<1>5. \A p \in Request : CallFenced(p)' /\ (CatchesUp(p) => CatchesUp(p)')
  BY <1>1, <1>2, OthersFenced, OthersCatchUp DEF FenceInvariant
<1> QED
  BY <1>3, <1>4, <1>5 DEF FenceInvariant, OwnWritesInvariant
-----------------------------------------------------------------------------
(* The whole: what the cookies stand for does not depend on how long they  *)
(* live, that calls catch up does.                                         *)
Inv == TypeOK /\ FenceInvariant

(* No cookie, no promise.                                                  *)
LEMMA InitInv == Init => Inv /\ OwnWritesInvariant
<1> SUFFICES ASSUME Init
             PROVE  Inv /\ OwnWritesInvariant
  OBVIOUS
<1>1. withFenceIntent \in Response
  BY UnaryResponse
<1>2. Idle \in Call
  <2>1. (CHOOSE s \in Server : TRUE) \in Server
    OBVIOUS
  <2> QED
    BY <1>1, <2>1 DEF Idle, Call, Stage, NoCookie, Cookie
<1>3. TypeOK
  BY <1>2 DEF Init, TypeOK, NoCookie, Cookie
<1>4. \A q \in Request : call[q].stage = "new" /\ call[q].need = 0 /\ call[q].version = 0
  BY DEF Init, Idle
<1>5. Len(commits) = 0
  BY DEF Init
<1>6. \A q \in Request : CallFenced(q) /\ CatchesUp(q)
  BY <1>4, <1>5 DEF CallFenced, CatchesUp
<1>7. ReplicaInTime /\ JarFencesTold
  BY <1>5 DEF Init, ReplicaInTime, JarFencesTold
<1> QED
  BY <1>3, <1>6, <1>7 DEF Inv, FenceInvariant, OwnWritesInvariant

(* Every step of any actor keeps the fences.                               *)
LEMMA NextInv ==
    ASSUME Inv, [Next]_vars
    PROVE  Inv' /\ (FenceOutlivesLag /\ OwnWritesInvariant => OwnWritesInvariant')
<1>1. TypeOK /\ FenceInvariant
  BY DEF Inv
<1>2. TypeOK'
  BY <1>1, TypeStep
<1>3. ASSUME NEW q \in Request,
             \/ Send(q) \/ Read(q) \/ Commit(q) \/ Fail(q) \/ Respond(q) \/ Receive(q)
             \/ \E s \in Server : Serve(q, s)
      PROVE  /\ FenceInvariant'
             /\ FenceOutlivesLag /\ OwnWritesInvariant => OwnWritesInvariant'
  BY <1>1, <1>2, <1>3, SendPreserves, ServePreserves, ReadPreserves, WritePreserves,
     RespondPreserves, ReceivePreserves
<1>4. CASE Replicate \/ Tick
  BY <1>1, <1>2, <1>4, ReplicaPreserves DEF Inv
<1>5. CASE UNCHANGED vars
  BY <1>1, <1>2, <1>5 DEF vars, Inv, FenceInvariant, ReplicaInTime, JarFencesTold, Genuine,
     Fences, CallFenced, OwnWritesInvariant, CatchesUp
<1> QED
  BY <1>2, <1>3, <1>4, <1>5 DEF Next, AllDone, Inv

(* ... and so every reachable state has them.                              *)
LEMMA Invariance == Spec => []Inv
<1>1. Inv /\ [Next]_vars => Inv'
  BY NextInv
<1> QED
  BY <1>1, InitInv, PTL DEF Spec

(* Every variable keeps its type.                                          *)
THEOREM TypeCorrect == Spec => []TypeOK
<1>1. Inv => TypeOK
  BY DEF Inv
<1> QED
  BY <1>1, Invariance, PTL

(* A read sees the write its client was told of last, for every lag, TTL   *)
(* and clock skew that the fence outlives.                                 *)
THEOREM ReadsSeeOwnWrites == FenceOutlivesLag => (Spec => []SeesOwnWrites)
<1> SUFFICES ASSUME FenceOutlivesLag
             PROVE  Spec => []SeesOwnWrites
  OBVIOUS
<1>1. Inv /\ OwnWritesInvariant /\ [Next]_vars => OwnWritesInvariant'
  BY NextInv
<1>2. OwnWritesInvariant => SeesOwnWrites
  BY DEF OwnWritesInvariant, CatchesUp, SeesOwnWrites
<1> QED
  BY <1>1, <1>2, InitInv, Invariance, PTL DEF Spec

(* No read is promoted by a cookie whose window is over, whatever the lag. *)
THEOREM NoPromotionAfterWindow == Spec => PromotionEnds
<1> DEFINE InWindow(q) == \E s \in Server :
              now + Skew[call'[q].server] <
                  call[q].cookie.at + (MaxAgeSeconds + 1) * Second + Skew[s]
<1>1. ASSUME Inv, [Next]_vars, NEW q \in Request, Promotes(q)
      PROVE  InWindow(q)
  <2>1. call[q].stage = "sent" /\ call'[q].stage = "promoted" /\ call[q] \in Call
    BY <1>1, CallTyped DEF Promotes, Inv
  <2>2. \A p \in Request : \A c : Update(p, c) => call'[q] = IF p = q THEN c ELSE call[q]
    BY <1>1 DEF Inv, TypeOK, Update
  <2>3. ASSUME NEW p \in Request,
               Send(p) \/ Read(p) \/ Commit(p) \/ Fail(p) \/ Respond(p) \/ Receive(p)
        PROVE  FALSE
    <3>1. \E c : Update(p, c) /\ (p = q => c.stage # "promoted")
      <4> DEFINE Moves(reached) ==
                   \E c : Update(p, c) /\ c.stage = reached
      <4>1. call[p] \in Call
        BY <1>1 DEF Inv, TypeOK
      <4>2. CASE Send(p)
        <5>1. PICK cookie : Update(p, [call[p] EXCEPT !.stage = "sent", !.need = told,
                                                      !.cookie = cookie])
          BY <4>2 DEF Send
        <5>2. [call[p] EXCEPT !.stage = "sent", !.need = told,
                              !.cookie = cookie].stage = "sent"
          BY <4>1 DEF Call
        <5> QED
          BY <5>1, <5>2
      <4>3. ASSUME NEW version, NEW err, Returns(p, version, err)
            PROVE  Moves("handled")
        <5> DEFINE c == [call[p] EXCEPT !.stage = "handled", !.version = version,
                !.response = Intercepted(call[p].response, p \in Writing, err)]
        <5>1. c.stage = "handled"
          BY <4>1 DEF Call
        <5>2. Update(p, c)
          BY <4>3 DEF Returns
        <5> QED
          BY <5>1, <5>2
      <4>4. CASE Read(p) \/ Commit(p) \/ Fail(p)
        BY <4>3, <4>4 DEF Read, Commit, Fail
      <4>5. CASE Respond(p)
        <5> DEFINE written == WriteHeader(call[p].response)
                   c == [call[p] EXCEPT !.stage = "responded", !.response = written,
                           !.cookie = IF written.pinned THEN Signed(call[p].server)
                                      ELSE NoCookie]
        <5>1. c.stage = "responded"
          BY <4>1 DEF Call
        <5>2. Update(p, c)
          BY <4>5 DEF Respond
        <5> QED
          BY <5>1, <5>2
      <4>6. CASE Receive(p)
        <5>1. [call[p] EXCEPT !.stage = "done"].stage = "done"
          BY <4>1 DEF Call
        <5> QED
          BY <4>6, <5>1 DEF Receive
      <4> QED
        BY <2>3, <4>2, <4>4, <4>5, <4>6
    <3> QED
      BY <2>1, <2>2, <3>1
  <2>4. PICK p \in Request, s \in Server : Serve(p, s)
    BY <1>1, <2>1, <2>3 DEF Next, Replicate, Tick, AllDone, vars
  <2>5. p = q
    BY <2>1, <2>2, <2>4 DEF Serve
  <2>6. call'[q].server = s /\ Verified(s, call[q].cookie)
    <3> DEFINE reached == IF Verified(s, call[q].cookie) THEN "promoted" ELSE "unpromoted"
               c == [call[q] EXCEPT !.stage = reached, !.server = s,
                                    !.response = withFenceIntent]
    <3>1. call'[q] = c
      BY <2>2, <2>4, <2>5 DEF Serve
    <3>2. c.stage = reached /\ c.server = s
      BY <2>1 DEF Call
    <3> QED
      BY <2>1, <3>1, <3>2
  <2>7. call[q].cookie \in Cookie /\ call[q].cookie # NoCookie /\ Genuine(call[q].cookie)
    BY <1>1, <2>1, <2>6, CallTyped DEF Inv, Verified, FenceInvariant, CallFenced
  <2> QED
    BY <1>1, <2>6, <2>7, VerifiedWithin DEF Inv
<1>2. Inv /\ [Next]_vars => [\A q \in Request : Promotes(q) => InWindow(q)]_vars
  BY <1>1
<1> QED
  BY <1>2, Invariance, PTL DEF Spec, PromotionEnds
=============================================================================
