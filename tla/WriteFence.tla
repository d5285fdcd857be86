----------------------------- MODULE WriteFence -----------------------------
(***************************************************************************)
(* Hand-rolled HTTP handlers behind stdcrpcwritefence.Middleware: they     *)
(* write to the database, mark the fence themselves and use the response   *)
(* writer in any order.  Unary Connect procedures, marked by the           *)
(* Interceptor, are in ReadYourWrites.                                     *)
(***************************************************************************)
EXTENDS FencedResponse

CONSTANTS
    Exchange,       \* requests to such handlers, and their responses
    PassThrough     \* the requests whose handlers use http.Flusher, io.ReaderFrom

ASSUME WriteFenceAssumption == PassThrough \subseteq Exchange

VARIABLES
    stage,      \* stage[q]: how far request q has come
    w,          \* w[q]: its response writer
    prompt      \* prompt[q]: q was marked before it touched its response

handlers == <<stage, w, prompt>>

FenceTypeOK ==
    /\ stage \in [Exchange -> {"new", "handling", "returned", "done"}]
    /\ w \in [Exchange -> Response]
    /\ prompt \in [Exchange -> BOOLEAN]

FenceInit ==
    /\ stage = [q \in Exchange |-> "new"]
    /\ w = [q \in Exchange |-> withFenceIntent]
    /\ prompt = [q \in Exchange |-> FALSE]

Move(q, from, to, response) ==
    /\ stage[q] = from
    /\ stage' = [stage EXCEPT ![q] = to]
    /\ w' = [w EXCEPT ![q] = response]

(* Every request gets a flag of its own.                                   *)
HandlerStarts(q) == Move(q, "new", "handling", withFenceIntent) /\ UNCHANGED prompt

Mark(q) ==
    /\ Move(q, "handling", "handling", MarkFenceIntent(w[q]))
    /\ prompt' = [prompt EXCEPT ![q] = @ \/ ~(w[q].once \/ w[q].flushed)]

Uses(q, response) == Move(q, "handling", "handling", response) /\ UNCHANGED prompt

HandlerWrites(q) == Uses(q, Write(w[q]))
HandlerWritesHeader(q) == Uses(q, WriteHeader(w[q]))
HandlerInforms(q) == ~w[q].flushed /\ Uses(q, WriteInformational(w[q]))
HandlerFlushes(q) == q \in PassThrough /\ Uses(q, Flush(w[q]))
HandlerReadsFrom(q) == q \in PassThrough /\ Uses(q, ReadFrom(w[q]))

HandlerReturns(q) == Move(q, "handling", "returned", w[q]) /\ UNCHANGED prompt

(* ServeHTTP of the middleware returns, and net/http finishes.             *)
Finish(q) == Move(q, "returned", "done", Finished(w[q])) /\ UNCHANGED prompt

Served == (\A q \in Exchange : stage[q] = "done") /\ UNCHANGED handlers

FenceNext ==
    \/ \E q \in Exchange :
        \/ HandlerStarts(q) \/ Mark(q) \/ HandlerWrites(q) \/ HandlerWritesHeader(q)
        \/ HandlerInforms(q) \/ HandlerFlushes(q) \/ HandlerReadsFrom(q)
        \/ HandlerReturns(q) \/ Finish(q)
    \/ Served

FenceSpec == FenceInit /\ [][FenceNext]_handlers
-----------------------------------------------------------------------------
(* Whichever methods a handler goes on to use, hooked or not, a fence      *)
(* marked before the response is touched reaches the client unless an      *)
(* unhooked method sends the header first; and a response is pinned only   *)
(* when it was marked before a hooked method or the return sent it: marks  *)
(* that come after never change what the client was told.                  *)
PinnedWhenMarkedInTime ==
    \A q \in Exchange :
        /\ w[q].pinned => prompt[q]
        /\ q \notin PassThrough /\ prompt[q] /\ w[q].flushed => w[q].pinned

(* Why: the invariant that every use of the response writer preserves.     *)
FenceOf(q) ==
    /\ stage[q] = "new" => w[q] = withFenceIntent /\ ~prompt[q]
    /\ prompt[q] => w[q].intent
    /\ prompt[q] /\ w[q].once => w[q].cookie
    /\ ~w[q].flushed /\ (w[q].cookie \/ (w[q].intent /\ ~w[q].once)) => prompt[q]
    /\ w[q].pinned => prompt[q]
    /\ q \notin PassThrough /\ w[q].flushed =>
          w[q].once /\ w[q].pinned = w[q].cookie

HandlersInvariant == \A q \in Exchange : FenceOf(q)
=============================================================================
