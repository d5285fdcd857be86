---------------------------- MODULE PayloadCodec ----------------------------
(***************************************************************************)
(* stdtemporalcodec: the codec of payloads and its HTTP server, as         *)
(* functions.  A codec is a Tink keyset and the namespace it is scoped to; *)
(* a payload is wrapped in a layer for each time it was encrypted.  The    *)
(* cipher is external: it opens what was sealed with one of its keys under *)
(* the same additional data, and nothing else.                             *)
(***************************************************************************)
EXTENDS Naturals, Sequences

CONSTANTS
    Key,        \* keys of a Tink keyset
    Label,      \* the dot-separated parts of namespace names
    NoKey       \* the primary key of a keyset that has none

(* A namespace is a sequence of labels; the empty one is a missing header. *)
Namespace == {<<a>> : a \in Label} \cup {<<a, b>> : a, b \in Label}

Keyset == [keys : SUBSET Key, primary : Key \cup {NoKey}]

(* loadKeyset: an unset or unreadable keyset, and one without a primary    *)
(* key, keep the application from starting.                                *)
Loads(ks) == ks.keys # {} /\ ks.primary # NoKey

Codec(ks, ns) == [keys |-> ks.keys, primary |-> ks.primary, ns |-> ns]
WithNamespace(c, ns) == [c EXCEPT !.ns = ns]

(* Mutants: the namespace is left out of the additional data; a payload    *)
(* that is encrypted already is left as it is; only the primary key opens. *)
aadOfNothing(c) == <<>>

aad(c) == c.ns

isEncrypted(p) == p.layers # <<>>

Layer(c) == [key |-> c.primary, aad |-> aad(c)]

encodeOne(c, p) == [p EXCEPT !.layers = <<Layer(c)>> \o @]

OpensWithPrimary(c, p) == p.layers[1].key = c.primary /\ p.layers[1].aad = aad(c)

Opens(c, p) == p.layers[1].key \in c.keys /\ p.layers[1].aad = aad(c)
decodeOne(c, p) == [p EXCEPT !.layers = Tail(@)]

(* Of a batch, either every payload is converted or none is.               *)
EncodeBatch(c, batch) == [i \in DOMAIN batch |-> encodeOne(c, batch[i])]

Decodes(c, p) == isEncrypted(p) => Opens(c, p)
DecodesBatch(c, batch) == \A i \in DOMAIN batch : Decodes(c, batch[i])
DecodeBatch(c, batch) ==
    [i \in DOMAIN batch |->
        IF isEncrypted(batch[i]) THEN decodeOne(c, batch[i]) ELSE batch[i]]
-----------------------------------------------------------------------------
(* Mutant: the header is compared as it comes.                             *)
StripNothing(ns) == ns

(* The account that Temporal Cloud's UI appends to the namespace.          *)
StripCloudAccountSuffix(ns) == IF Len(ns) > 1 THEN SubSeq(ns, 1, Len(ns) - 1) ELSE ns

Answer(status, out) == [status |-> status, out |-> out]
Refuse(status) == Answer(status, <<>>)

(* handler.ServeHTTP for a request r, in the order of its checks.          *)
ServeHTTP(c, allowed, r) ==
    LET ns == StripCloudAccountSuffix(r.header)
        scoped == WithNamespace(c, ns)
    IN  CASE r.method # "POST" -> Refuse(405)
          [] r.method = "POST" /\ r.operation = "other" -> Refuse(404)
          [] r.method = "POST" /\ r.operation # "other" /\ r.header = <<>> -> Refuse(400)
          [] OTHER ->
               IF ns \notin allowed THEN Refuse(403)
               ELSE IF r.malformed THEN Refuse(400)
               ELSE IF r.operation = "encode" THEN Answer(200, EncodeBatch(scoped, r.body))
               ELSE IF DecodesBatch(scoped, r.body) THEN Answer(200, DecodeBatch(scoped, r.body))
               ELSE Refuse(400)
=============================================================================
