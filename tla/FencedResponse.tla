--------------------------- MODULE FencedResponse ---------------------------
(***************************************************************************)
(* One HTTP response behind the write fence of stdcrpcwritefence: what     *)
(* Middleware's hooks, its fence-intent flag and its sync.Once do to the   *)
(* response header, as functions from one state of the response to the     *)
(* next.  The net/http response underneath is external.                    *)
(***************************************************************************)

(* intent: the fence-intent flag.  once: setCookie has run.  cookie: the   *)
(* Set-Cookie header is in the header map.  flushed: the status line is on *)
(* the wire, the header map can no longer reach the client.  pinned: the   *)
(* cookie was in it when that happened.                                    *)
Flags ==
    [intent : BOOLEAN, once : BOOLEAN, cookie : BOOLEAN,
     flushed : BOOLEAN, pinned : BOOLEAN]

(* Only setCookie sets the cookie, and only for a write.                   *)
Response ==
    {w \in Flags : /\ w.cookie => w.once /\ w.intent
                   /\ w.pinned => w.flushed /\ w.cookie}

withFenceIntent ==
    [intent |-> FALSE, once |-> FALSE, cookie |-> FALSE,
     flushed |-> FALSE, pinned |-> FALSE]

MarkFenceIntent(w) == [w EXCEPT !.intent = TRUE]

(* once.Do: whatever the flag says the first time is final.                *)
setCookie(w) ==
    IF w.once THEN w ELSE [w EXCEPT !.once = TRUE, !.cookie = w.intent]

(* net/http writes the status line and the headers, once.                  *)
Flushed(w) ==
    IF w.flushed THEN w ELSE [w EXCEPT !.flushed = TRUE, !.pinned = w.cookie]

(* Mutant: Write is not hooked.                                            *)
WriteUnhooked(w) == Flushed(w)

(* The hooked methods.  WriteHeader with a 1xx code sends an informational *)
(* response ahead of the final one.                                        *)
WriteHeader(w) == Flushed(setCookie(w))
WriteInformational(w) == setCookie(w)
Write(w) == Flushed(setCookie(w))

(* The methods of the underlying writer that httpsnoop passes through.     *)
Flush(w) == Flushed(w)
ReadFrom(w) == Flushed(w)

(* The handler returned; net/http then finishes the response.              *)
Finished(w) == Flushed(setCookie(w))

(* Interceptor, then the Connect handler writing its unary response.       *)
Intercepted(w, sideEffects, err) ==
    IF err \/ ~sideEffects THEN w ELSE MarkFenceIntent(w)
=============================================================================
