--------------------------- MODULE KeysetRotation ---------------------------
(***************************************************************************)
(* stdtemporalcodecfx in operation: workers, clients and a codec server    *)
(* that load the configured keyset when they start, payloads that stay in  *)
(* Temporal's history under the key they were written with, and keys that  *)
(* are added, promoted and removed while processes are redeployed one by   *)
(* one and crash.                                                          *)
(***************************************************************************)
EXTENDS PayloadCodec, Functions

CONSTANTS
    Worker,         \* worker and client processes
    Server,         \* the codec server process
    Home,           \* Home[p]: Config.Namespace of worker p
    Enabled,        \* the processes whose Config.Enabled is set
    Allowed,        \* ServerConfig.AllowedNamespaces
    Account,        \* the label Temporal Cloud appends
    FirstKey,       \* the key of the keyset at first
    Procedure       \* how keys are rotated, see Rotate

Process == Worker \cup {Server}
Down == [keys |-> {}, primary |-> NoKey]

ASSUME KeysetRotationAssumption ==
    /\ Server \notin Worker
    /\ Home \in [Worker -> Namespace]
    /\ Enabled \subseteq Process
    /\ FirstKey \in Key /\ NoKey \notin Key
    /\ Account \in Label
    /\ Allowed \subseteq Namespace
    /\ Procedure \in {"documented", "genkeyset", "staged"}

VARIABLES
    secret,     \* the keyset in the configuration
    used,       \* keys generated so far
    loaded,     \* loaded[p]: the keyset process p has loaded, or Down
    history,    \* the payloads Temporal keeps
    answer      \* what the codec server answered last, and what to

rotation == <<secret, used, loaded, history, answer>>

Plain(ns) == [of |-> ns, layers |-> <<>>]
Homes == {Home[p] : p \in Worker}

PayloadOf(ns) ==
    {Plain(ns)} \cup {[of |-> ns, layers |-> <<[key |-> k, aad |-> ns]>>] : k \in Key}
Payload == UNION {PayloadOf(ns) : ns \in Homes}

RotationTypeOK ==
    /\ secret \in Keyset /\ secret.primary \in secret.keys
    /\ used \in SUBSET Key
    /\ loaded \in [Process -> Keyset]
    /\ \A p \in Process : loaded[p] # Down => loaded[p].primary \in loaded[p].keys
    /\ history \subseteq Payload

NoAnswer == [status |-> 0]
FirstKeyset == [keys |-> {FirstKey}, primary |-> FirstKey]

(* What was written before encryption was enabled is plain.                *)
RotationInit ==
    /\ secret = FirstKeyset
    /\ used = {FirstKey}
    /\ loaded = [p \in Process |-> FirstKeyset]
    /\ history = {Plain(ns) : ns \in Homes}
    /\ answer = NoAnswer

Deployed == \A p \in Process : loaded[p] \in {Down, secret}
-----------------------------------------------------------------------------
(* The next key, with tinkey, or with genkeyset, which emits a keyset of   *)
(* that key alone.  It is promoted at once, unless every process is to     *)
(* have it before the first one uses it.                                   *)
Rotate(k) ==
    /\ k \in Key \ used
    /\ Deployed /\ Loads(secret)
    /\ used' = used \cup {k}
    /\ secret' = CASE Procedure = "documented" ->
                        [keys |-> secret.keys \cup {k}, primary |-> k]
                   [] Procedure = "genkeyset" -> [keys |-> {k}, primary |-> k]
                   [] OTHER -> [secret EXCEPT !.keys = @ \cup {k}]
    /\ UNCHANGED <<loaded, history, answer>>

Promote(k) ==
    /\ Procedure = "staged"
    /\ k \in secret.keys \ {secret.primary}
    /\ Deployed
    /\ secret' = [secret EXCEPT !.primary = k]
    /\ UNCHANGED <<used, loaded, history, answer>>

(* Once retention has expired for all payloads under the key.              *)
Remove(k) ==
    /\ k \in secret.keys \ {secret.primary}
    /\ Deployed
    /\ \A x \in history : isEncrypted(x) => x.layers[1].key # k
    /\ secret' = [secret EXCEPT !.keys = @ \ {k}]
    /\ UNCHANGED <<used, loaded, history, answer>>

(* New and NewServer read the configuration once.                          *)
Start(p) ==
    /\ loaded[p] = Down
    /\ p \in Enabled => Loads(secret)
    /\ loaded' = [loaded EXCEPT ![p] = secret]
    /\ UNCHANGED <<secret, used, history, answer>>

StopProcess(p) ==
    /\ loaded[p] # Down
    /\ loaded' = [loaded EXCEPT ![p] = Down]
    /\ UNCHANGED <<secret, used, history, answer>>

WorkerCodec(p) == Codec(loaded[p], Home[p])

(* The data converter of worker p.                                         *)
Converted(p, x) == IF p \in Enabled THEN encodeOne(WorkerCodec(p), x) ELSE x
Readable(p, x) ==
    IF p \in Enabled THEN Decodes(WorkerCodec(p), x) ELSE ~isEncrypted(x)

Write(p) ==
    /\ loaded[p] # Down
    /\ history' = history \cup {Converted(p, Plain(Home[p]))}
    /\ UNCHANGED <<secret, used, loaded, answer>>

Expire(x) ==
    /\ x \in history
    /\ history' = history \ {x}
    /\ UNCHANGED <<secret, used, loaded, answer>>
-----------------------------------------------------------------------------
Header == {<<>>} \cup Homes \cup {Append(ns, Account) : ns \in Homes}

Batch ==
    {<<x>> : x \in history} \cup UNION {{<<Plain(ns), x>> : x \in history} : ns \in Homes}

(* Requests that are refused before their payloads are looked at have none *)
(* in the model.                                                           *)
Request ==
    [method : {"POST", "GET"}, operation : {"encode", "decode", "other"},
     header : Header, malformed : BOOLEAN, body : {<<>>}]
    \cup
    [method : {"POST"}, operation : {"encode", "decode"},
     header : Header \ {<<>>}, malformed : {FALSE}, body : Batch]

(* The codec server; one that is not enabled is a handler that finds       *)
(* nothing.                                                                *)
Answered(r) ==
    IF Server \in Enabled
    THEN ServeHTTP(Codec(loaded[Server], <<"_codec_server_seed_">>), Allowed, r)
    ELSE Refuse(404)

Serve ==
    /\ loaded[Server] # Down
    /\ \E r \in Request :
        answer' = [status |-> Answered(r).status, out |-> Answered(r).out, request |-> r]
    /\ UNCHANGED <<secret, used, loaded, history>>

Forget ==
    /\ answer # NoAnswer
    /\ answer' = NoAnswer
    /\ UNCHANGED <<secret, used, loaded, history>>

RotationNext ==
    \/ \E k \in Key : Rotate(k) \/ Promote(k) \/ Remove(k)
    \/ answer = NoAnswer /\ \E p \in Process : Start(p) \/ StopProcess(p)
    \/ answer = NoAnswer /\ \E p \in Worker : Write(p)
    \/ answer = NoAnswer /\ \E x \in history : Expire(x)
    \/ answer = NoAnswer /\ Serve
    \/ Forget

RotationSpec == RotationInit /\ [][RotationNext]_rotation
-----------------------------------------------------------------------------
(* Every process reads every payload of its namespace that is still there, *)
(* whichever keyset it was started with and whichever wrote it             *)
(* (codec.go:25): while keys are rotated and processes are redeployed one  *)
(* by one, and plain payloads from before.                                 *)
EveryProcessReads ==
    \A x \in history :
        /\ \A p \in Worker : loaded[p] # Down /\ x.of = Home[p] => Readable(p, x)
        /\ loaded[Server] # Down => Decodes(Codec(loaded[Server], x.of), x)

(* A payload that was encrypted for one namespace is never opened in       *)
(* another (codec.go:16), neither by a worker that shares the keyset nor   *)
(* by the codec server, whose namespace comes from the request.            *)
SpelledOut(ns) == {ns, Append(ns, Account)}

NamespacesAreApart ==
    /\ \A p \in Worker : \A x \in history :
          loaded[p] # Down /\ x.of # Home[p] /\ isEncrypted(x) => ~Readable(p, x)
    /\ answer.status = 200 /\ answer.request.operation = "decode" =>
          \A x \in Range(answer.request.body) :
              isEncrypted(x) => answer.request.header \in SpelledOut(x.of)

(* Temporal's UI, hosted or Cloud's, shows what the workers of an allowed  *)
(* namespace wrote, and what it encodes the workers can read.              *)
UiReadsAndWrites ==
    \A n \in Homes \cap Allowed :
        /\ answer # NoAnswer
        /\ answer.request.body # <<>> /\ answer.request.header \in SpelledOut(n)
        /\ \A x \in Range(answer.request.body) : x.of = n
        => /\ answer.status = 200
           /\ answer.request.operation = "decode" =>
                 \A x \in Range(answer.out) : ~isEncrypted(x)
           /\ answer.request.operation = "encode" =>
                 \A p \in Worker \cap Enabled :
                     Home[p] = n /\ loaded[p] # Down =>
                         DecodesBatch(WorkerCodec(p), answer.out)

(* What the configuration leaves to whoever writes it: workers of one      *)
(* namespace agree whether it is encrypted, and namespaces are named by    *)
(* their bare names, without dots (server.go:29).                          *)
EncryptionAgreed ==
    \A p, q \in Worker : Home[p] = Home[q] /\ p \in Enabled => q \in Enabled

BareNames == \A n \in Homes : Len(n) = 1

(* Why: whatever anybody encrypts with, or has encrypted with, is known to *)
(* everybody, those yet to be started included.                            *)
Known(k) ==
    /\ k \in secret.keys
    /\ \A p \in Process : loaded[p] # Down => k \in loaded[p].keys

KeysAreKnown ==
    /\ Known(secret.primary)
    /\ \A p \in Process : loaded[p] # Down => Known(loaded[p].primary)
    /\ \A x \in history : isEncrypted(x) => Known(x.layers[1].key)

EncryptedByWorkers ==
    \A x \in history : isEncrypted(x) => \E p \in Worker \cap Enabled : x.of = Home[p]

(* No process restarts and no payload comes or goes behind an answer.      *)
AnswerStands ==
    answer # NoAnswer =>
        /\ loaded[Server] # Down
        /\ answer.request \in Request
        /\ answer.status = Answered(answer.request).status
        /\ answer.out = Answered(answer.request).out

RotationInvariant == RotationTypeOK /\ KeysAreKnown /\ EncryptedByWorkers /\ AnswerStands
=============================================================================
