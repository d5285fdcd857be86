----------------------------- MODULE RequestPath -----------------------------
(***************************************************************************)
(* How a request gets to application code and what its caller is told,    *)
(* for each way in: a Connect RPC behind stdpubprivrpcfx, a buffered JSON  *)
(* endpoint (stdpgxtxfx.HJTx), a Lambda relay, a Lambda function behind    *)
(* stdfxlambda.Handle that a stdlambda invoker calls, a Temporal activity, *)
(* and the way out to a workflow that the program starts, signals or       *)
(* updates.  Every layer of middleware is an operator; what the            *)
(* application does in a handler is part of the request.                   *)
(***************************************************************************)
EXTENDS Naturals, Procedures

Entry == {"rpc", "json", "relay", "function", "activity", "start"}
Input == {"valid", "invalid", "malformed", "empty"}

(* What the handler does: it succeeds, maybe with an output that breaks    *)
(* its own rules or cannot be encoded; it fails by an error for the        *)
(* client, by one of the database's, by another, or by one without a       *)
(* message; it panics; it aborts the response.                             *)
Success == {"succeeds", "bad_output"}
Failure == {"client_error", "db_denied", "error", "silent_error", "panic", "abort"}

(* writes: the application writes to the database.                         *)
Request ==
    [entry : Entry, input : Input, allowed : BOOLEAN, writes : BOOLEAN,
     handler : Success \cup Failure, procedure : Procedure \cup {NoProcedure}]

(* HJTx decodes what there is; without a body it runs on the zero value.   *)
DecodesJSON(r) == r.input # "malformed"

(* A relay refuses an empty body; a malformed one becomes the zero event.  *)
DecodesEvent(r) == r.input # "empty"

(* stdfxlambda.Handle and stdlambda.JSONHandlerFunc.                       *)
DecodesPayload(r) == r.input \in {"valid", "invalid"}

(* protovalidate: of RPC requests, and of Temporal arguments.              *)
Validates(r) == r.input = "valid"

(* The client's interceptor: of a workflow's, a signal's and an update's   *)
(* arguments, before Temporal sees them.                                   *)
ClientValidates(r) == r.input = "valid"

(* The application code runs; posture is what the interceptor stamps.      *)
Reaches(r, posture) ==
    CASE r.entry = "rpc" -> r.allowed /\ posture # Undeclared /\ Validates(r)
      [] r.entry = "start" -> ClientValidates(r)
      [] r.entry = "json" -> DecodesJSON(r)
      [] r.entry = "relay" -> DecodesEvent(r)
      [] r.entry = "function" -> DecodesPayload(r)
      [] r.entry = "activity" -> Validates(r)

(* CTx and HJTx run all of the handler in one transaction; the others may  *)
(* have committed some work before they fail.                              *)
Transactional(r) == r.entry \in {"rpc", "json"}

MayCommit(r) == r.handler \in Success \/ ~Transactional(r)
-----------------------------------------------------------------------------
(* What a handler hands to the layers around it, given whether what it     *)
(* wanted to commit was committed; txError is a Connect error.             *)
TxError(r) == IF r.handler = "db_denied" THEN "connect_error" ELSE r.handler

Returned(r, committed) ==
    IF r.handler \in Success /\ ~committed THEN "error"
    ELSE IF Transactional(r) THEN TxError(r) ELSE r.handler

(* The interceptor looks at a response after the handler has committed.    *)
ValidateResponse(outcome, validating) ==
    IF outcome = "bad_output" /\ validating THEN "error" ELSE outcome

(* Connect turns errors into codes.                                        *)
Connect(outcome) ==
    CASE outcome \in Success -> "ok"
      [] outcome \in {"client_error", "connect_error"} -> "refused"
      [] outcome = "abort" -> "cut"
      [] OTHER -> "failed"

(* bhttp buffers the response; errorMiddleware resets it and shows client  *)
(* errors of bhttp's own only, recoverMiddleware all panics but aborts.    *)
RecoverMiddleware(outcome) == IF outcome = "abort" THEN "cut" ELSE "failed"

(* Mutant: what is not the server's error is answered as it stands.        *)
AnswersOK(outcome) == IF outcome = "client_error" THEN "refused" ELSE "ok"

ErrorMiddleware(outcome) ==
    CASE outcome = "ok" -> "ok"
      [] outcome = "client_error" -> "refused"
      [] outcome \in {"panic", "abort"} -> RecoverMiddleware(outcome)
      [] OTHER -> "failed"

Encoded(outcome) ==
    CASE outcome = "succeeds" -> "ok" [] outcome = "bad_output" -> "error" [] OTHER -> outcome

(* A relay answers {} whatever its handler has done without an error.      *)
Relayed(outcome) == IF outcome \in Success THEN "ok" ELSE outcome

(* An invoker finds an error by its message; an empty one is decoded as    *)
(* the output.                                                             *)
Invoked(outcome) == outcome \in {"ok", "silent_error"}

(* A request that does not get through.                                    *)
Turned(r, posture) ==
    IF r.entry \in {"json", "function"} \/ (r.allowed /\ posture = Undeclared)
    THEN "failed" ELSE "refused"

Answer(r, committed, validating) ==
    LET outcome == Returned(r, committed)
    IN  CASE r.entry = "rpc" -> Connect(ValidateResponse(outcome, validating))
          [] r.entry = "json" -> ErrorMiddleware(Encoded(outcome))
          [] r.entry = "relay" -> ErrorMiddleware(Relayed(outcome))
          [] r.entry = "function" -> IF Invoked(Encoded(outcome)) THEN "ok" ELSE "failed"
          [] r.entry = "start" -> IF committed THEN "ok" ELSE "failed"
          [] r.entry = "activity" -> IF Encoded(outcome) = "ok" THEN "ok" ELSE "failed"
=============================================================================
