-------------------------- MODULE BackgroundProofs --------------------------
(***************************************************************************)
(* Proofs about the work that requests leave behind, for any processes,    *)
(* jobs, keys and namespaces.                                              *)
(*                                                                         *)
(* KeysetRotation: of Temporal's payloads.  What keeps them readable while *)
(* keys are rotated: whatever a process encrypts with, or has encrypted    *)
(* with, every process that runs knows, and so does the configuration that *)
(* the next one starts with.                                               *)
(*                                                                         *)
(* RiverWorker: of jobs.  What makes work and completion one: of the       *)
(* attempts at a job only the one its row counts can be alive with a       *)
(* context that is not over, and only that one can have marked the row;    *)
(* nothing else touches a row that is locked.                              *)
(***************************************************************************)
EXTENDS RiverWorker, KeysetRotation, SequenceTheorems, TLAPS

(* A sequence of one layer.                                                *)
LEMMA OneLayer ==
    ASSUME NEW S, NEW l \in S
    PROVE  <<l>> # <<>> /\ <<l>>[1] = l /\ Tail(<<l>>) = <<>> /\ <<l>> \o <<>> = <<l>>
<1>1. <<l>> # <<>> /\ <<l>>[1] = l
  OBVIOUS
<1>2. Tail(<<l>>) = <<>>
  OBVIOUS
<1>3. <<l>> \o <<>> = <<l>>
  OBVIOUS
<1> QED
  BY <1>1, <1>2, <1>3

LEMMA TwoLayers ==
    ASSUME NEW S, NEW l \in S, NEW m \in S
    PROVE  (<<l>> \o <<m>>)[1] = l /\ <<l>> \o <<m>> # <<>>
<1>1. <<l>> \in Seq(S) /\ Len(<<l>>) = 1
  OBVIOUS
<1>1a. <<m>> \in Seq(S) /\ Len(<<m>>) = 1
  OBVIOUS
<1>1b. <<l>>[1] = l
  OBVIOUS
<1>2. (<<l>> \o <<m>>)[1] = l
  BY <1>1, <1>1a, <1>1b, ConcatProperties
<1>3. <<m>> # <<>>
  OBVIOUS
<1>4. <<l>> \o <<m>> # <<>>
  BY <1>1, <1>1a, <1>3, ConcatEqualIffEmpty
<1> QED
  BY <1>2, <1>4

(* The elements of the sequences that requests have.                       *)
LEMMA Elements ==
    ASSUME NEW S, NEW l \in S, NEW m \in S
    PROVE  /\ \A i \in DOMAIN <<l>> : <<l>>[i] = l
           /\ \A i \in DOMAIN <<l, m>> : <<l, m>>[i] \in {l, m}
<1>1. \A i \in DOMAIN <<l>> : <<l>>[i] = l
  OBVIOUS
<1>2. DOMAIN <<l, m>> = 1 .. 2
  OBVIOUS
<1>3. <<l, m>>[1] = l /\ <<l, m>>[2] = m
  OBVIOUS
<1>4. \A i \in 1 .. 2 : i = 1 \/ i = 2
  OBVIOUS
<1> QED
  BY <1>1, <1>2, <1>3, <1>4

LEMMA LenOfTwo ==
    ASSUME NEW S
    PROVE  \A a, b \in S : Len(<<a, b>>) # 1
OBVIOUS

LEMMA NoElements == DOMAIN <<>> = {}
OBVIOUS

(* Names of one label, with and without an account.                        *)
LEMMA Stripping ==
    ASSUME NEW S, NEW a \in S, NEW b \in S
    PROVE  /\ StripCloudAccountSuffix(<<a>>) = <<a>>
           /\ StripCloudAccountSuffix(Append(<<a>>, b)) = <<a>>
           /\ <<a>> # <<>> /\ Append(<<a>>, b) # <<>>
<1>1. Len(<<a>>) = 1 /\ <<a>> # <<>> /\ <<a>> \in Seq(S)
  OBVIOUS
<1>2. Append(<<a>>, b) \in Seq(S) /\ Len(Append(<<a>>, b)) = 2
  OBVIOUS
<1>2a. Append(<<a>>, b)[1] = a /\ <<a>>[1] = a
  OBVIOUS
<1>2b. Append(<<a>>, b) # <<>>
  BY <1>2, EmptySeq
<1> DEFINE s == Append(<<a>>, b)
           t == SubSeq(s, 1, 1)
<1>3. t = <<a>>
  <2>0. \A i \in 1 .. 1 : s[i] \in S
    BY <1>2a
  <2>1. t \in Seq(S) /\ Len(t) = 1 /\ t[1] = s[1]
    BY <1>2, <2>0, SubSeqProperties
  <2>3. \A i \in 1 .. 1 : t[i] = <<a>>[i]
    BY <2>1, <1>2a
  <2> QED
    BY <2>1, <2>3, <1>1, SeqEqual
<1>4. StripCloudAccountSuffix(s) = t
  BY <1>2 DEF StripCloudAccountSuffix
<1> QED
  BY <1>1, <1>2b, <1>3, <1>4 DEF StripCloudAccountSuffix

(* A payload is plain, or encrypted once for the namespace it is of.       *)
LEMMA PayloadShape ==
    ASSUME NEW x \in Payload
    PROVE  /\ x.of \in Homes
           /\ isEncrypted(x) => \E k \in Key : x.layers = <<[key |-> k, aad |-> x.of]>>
<1>1. PICK ns \in Homes : x \in PayloadOf(ns)
  BY DEF Payload
<1>2. CASE x = Plain(ns)
  BY <1>2 DEF Plain, isEncrypted
<1>3. CASE \E k \in Key : x = [of |-> ns, layers |-> <<[key |-> k, aad |-> ns]>>]
  <2>1. PICK k \in Key : x = [of |-> ns, layers |-> <<[key |-> k, aad |-> ns]>>]
    BY <1>3
  <2>2. x.of = ns /\ x.layers = <<[key |-> k, aad |-> ns]>>
    BY <2>1
  <2> QED
    BY <2>2
<1> QED
  BY <1>1, <1>2, <1>3 DEF PayloadOf

LEMMA EncryptedPayload ==
    ASSUME NEW x \in Payload, isEncrypted(x)
    PROVE  /\ x.layers[1].key \in Key /\ x.layers[1].aad = x.of
           /\ Tail(x.layers) = <<>>
<1>1. PICK k \in Key : x.layers = <<[key |-> k, aad |-> x.of]>>
  BY PayloadShape
<1> DEFINE layer == [key |-> k, aad |-> x.of]
<1>2. layer \in {layer} /\ layer.key = k /\ layer.aad = x.of
  OBVIOUS
<1> HIDE DEF layer
<1>3. <<layer>>[1] = layer /\ Tail(<<layer>>) = <<>>
  BY <1>2, OneLayer
<1>4. x.layers = <<layer>>
  BY <1>1 DEF layer
<1> QED
  BY <1>2, <1>3, <1>4

LEMMA PlainIsPlain ==
    ASSUME NEW ns
    PROVE  Plain(ns).of = ns /\ ~isEncrypted(Plain(ns))
BY DEF Plain, isEncrypted

LEMMA PayloadsOf ==
    ASSUME NEW ns \in Homes
    PROVE  PayloadOf(ns) \subseteq Payload /\ Plain(ns) \in PayloadOf(ns)
<1>1. Plain(ns) \in PayloadOf(ns)
  BY DEF PayloadOf
<1>2. PayloadOf(ns) \in {PayloadOf(n) : n \in Homes}
  OBVIOUS
<1> QED
  BY <1>1, <1>2 DEF Payload

(* What a worker writes.                                                   *)
Written(p) == Converted(p, Plain(Home[p]))

LEMMA Conversion ==
    ASSUME RotationTypeOK, NEW p \in Worker, loaded[p] # Down
    PROVE  /\ Written(p) \in Payload /\ Written(p).of = Home[p]
           /\ isEncrypted(Written(p)) <=> p \in Enabled
           /\ isEncrypted(Written(p)) => Written(p).layers[1].key = loaded[p].primary
<1>1. Home[p] \in Homes /\ p \in Process
  BY DEF Homes, Process
<1>2. loaded[p].primary \in Key
  BY <1>1 DEF RotationTypeOK, Keyset
<1>3. CASE p \notin Enabled
  <2>1. Written(p) = Plain(Home[p])
    BY <1>3 DEF Written, Converted
  <2> QED
    BY <2>1, <1>1, <1>3, PlainIsPlain, PayloadsOf
<1>4. CASE p \in Enabled
  <2> DEFINE layer == [key |-> loaded[p].primary, aad |-> Home[p]]
  <2>1. Written(p) = [of |-> Home[p], layers |-> <<layer>> \o <<>>]
    BY <1>4 DEF Written, Converted, encodeOne, WorkerCodec, Codec, Layer, aad, Plain
  <2>2. layer \in {layer} /\ layer.key = loaded[p].primary
    OBVIOUS
  <2>3. <<layer>> \o <<>> = <<layer>> /\ <<layer>> # <<>> /\ <<layer>>[1] = layer
    <3> HIDE DEF layer
    <3> QED
      BY <2>2, OneLayer
  <2>4. \E k \in Key : Written(p) = [of |-> Home[p], layers |-> <<[key |-> k, aad |-> Home[p]]>>]
    BY <2>1, <2>3, <1>2
  <2>5. Written(p) \in PayloadOf(Home[p])
    <3> HIDE DEF layer
    <3> DEFINE Of(k) == [of |-> Home[p], layers |-> <<[key |-> k, aad |-> Home[p]]>>]
    <3>1. \E k \in Key : Written(p) = Of(k)
      BY <2>4
    <3>2. PayloadOf(Home[p]) = {Plain(Home[p])} \cup {Of(k) : k \in Key}
      BY DEF PayloadOf
    <3> HIDE DEF Of
    <3> QED
      BY <3>1, <3>2
  <2>6. Written(p).of = Home[p] /\ Written(p).layers = <<layer>>
    <3> HIDE DEF layer
    <3>1. Written(p) = [of |-> Home[p], layers |-> <<layer>>]
      BY <2>1, <2>3
    <3>2. /\ [of |-> Home[p], layers |-> <<layer>>].of = Home[p]
          /\ [of |-> Home[p], layers |-> <<layer>>].layers = <<layer>>
      OBVIOUS
    <3> QED
      BY <3>1, <3>2, Zenon
  <2> HIDE DEF layer
  <2> QED
    BY <2>2, <2>3, <2>5, <2>6, <1>1, <1>4, PayloadsOf DEF isEncrypted
<1> QED
  BY <1>3, <1>4

(* The type invariant.                                                     *)
LEMMA KeysetAdded ==
    ASSUME RotationTypeOK, NEW k \in Key, Rotate(k)
    PROVE  /\ secret' \in Keyset /\ secret'.primary \in secret'.keys
           /\ Procedure = "staged" =>
                secret'.keys = secret.keys \cup {k} /\ secret'.primary = secret.primary
<1>1. CASE Procedure = "documented"
  BY <1>1 DEF Rotate, RotationTypeOK, Keyset
<1>2. CASE Procedure = "genkeyset"
  BY <1>2 DEF Rotate, RotationTypeOK, Keyset
<1>3. CASE Procedure = "staged"
  BY <1>3 DEF Rotate, RotationTypeOK, Keyset
<1> QED
  BY <1>1, <1>2, <1>3, KeysetRotationAssumption

LEMMA SecretIsNotDown ==
    ASSUME RotationTypeOK
    PROVE  secret # Down
<1>1. Down.keys = {}
  BY DEF Down
<1>2. secret.primary \in secret.keys
  BY DEF RotationTypeOK
<1> QED
  BY <1>1, <1>2

LEMMA TypeSteps ==
    ASSUME RotationTypeOK, [RotationNext]_rotation
    PROVE  RotationTypeOK'
<1>1. ASSUME NEW k \in Key, Rotate(k)
      PROVE  RotationTypeOK'
  BY <1>1, KeysetAdded DEF Rotate, RotationTypeOK
<1>2. ASSUME NEW k \in Key, Promote(k) \/ Remove(k)
      PROVE  RotationTypeOK'
  <2>1. CASE Promote(k)
    BY <2>1 DEF Promote, RotationTypeOK, Keyset
  <2>2. ASSUME Remove(k)
        PROVE  secret' \in Keyset /\ secret'.primary \in secret'.keys
    BY <2>2 DEF Remove, RotationTypeOK, Keyset
  <2> QED
    BY <1>2, <2>1, <2>2 DEF Remove, RotationTypeOK
<1>3. ASSUME NEW p \in Process, Start(p)
      PROVE  RotationTypeOK'
  BY <1>3, SecretIsNotDown DEF Start, RotationTypeOK
<1>4. ASSUME NEW p \in Process, StopProcess(p)
      PROVE  RotationTypeOK'
  <2>1. Down \in Keyset
    BY DEF Down, Keyset
  <2> QED
    BY <1>4, <2>1 DEF StopProcess, RotationTypeOK
<1>5. ASSUME NEW p \in Worker, Write(p)
      PROVE  RotationTypeOK'
  BY <1>5, Conversion DEF Write, Written, RotationTypeOK
<1>6. ASSUME NEW x \in history, Expire(x)
      PROVE  RotationTypeOK'
  BY <1>6 DEF Expire, RotationTypeOK
<1>7. CASE Serve \/ Forget \/ UNCHANGED rotation
  BY <1>7 DEF Serve, Forget, rotation, RotationTypeOK
<1> QED
  BY <1>1, <1>2, <1>3, <1>4, <1>5, <1>6, <1>7 DEF RotationNext

LEMMA RotationTypeCorrect == RotationSpec => []RotationTypeOK
<1>1. RotationInit => RotationTypeOK
  <2> SUFFICES ASSUME RotationInit
               PROVE  RotationTypeOK
    OBVIOUS
  <2>1. /\ FirstKeyset \in Keyset /\ FirstKeyset.primary \in FirstKeyset.keys
        /\ {FirstKey} \subseteq Key
    BY KeysetRotationAssumption DEF FirstKeyset, Keyset
  <2>2. {Plain(ns) : ns \in Homes} \subseteq Payload
    BY PayloadsOf
  <2> QED
    BY <2>1, <2>2 DEF RotationInit, RotationTypeOK
<1> QED
  BY <1>1, TypeSteps, PTL DEF RotationSpec
-----------------------------------------------------------------------------
(* Everybody knows the keys.                                               *)
LEMMA KeysStayKnown ==
    ASSUME Procedure = "staged", RotationTypeOK, KeysAreKnown, [RotationNext]_rotation
    PROVE  KeysAreKnown'
<1>1. ASSUME NEW k \in Key, Rotate(k)
      PROVE  KeysAreKnown'
  BY <1>1, KeysetAdded DEF Rotate, KeysAreKnown, Known
<1>2. ASSUME NEW k \in Key, Promote(k)
      PROVE  KeysAreKnown'
  <2>1. /\ secret'.keys = secret.keys /\ secret'.primary = k
        /\ loaded' = loaded /\ history' = history
    BY <1>2 DEF Promote, RotationTypeOK, Keyset
  <2>2. \A p \in Process : loaded[p] # Down => loaded[p] = secret
    BY <1>2 DEF Promote, Deployed
  <2> QED
    BY <1>2, <2>1, <2>2 DEF Promote, KeysAreKnown, Known
<1>3. ASSUME NEW k \in Key, Remove(k)
      PROVE  KeysAreKnown'
  <2>1. /\ secret'.keys = secret.keys \ {k} /\ secret'.primary = secret.primary
        /\ loaded' = loaded /\ history' = history
    BY <1>3 DEF Remove, RotationTypeOK, Keyset
  <2>2. \A p \in Process : loaded[p] # Down => loaded[p] = secret
    BY <1>3 DEF Remove, Deployed
  <2> QED
    BY <1>3, <2>1, <2>2 DEF Remove, KeysAreKnown, Known
<1>4. ASSUME NEW p \in Process, Start(p) \/ StopProcess(p)
      PROVE  KeysAreKnown'
  <2>1. /\ secret' = secret /\ history' = history
        /\ \A q \in Process : loaded'[q] = loaded[q] \/ loaded'[q] \in {secret, Down}
    BY <1>4 DEF Start, StopProcess, RotationTypeOK
  <2> QED
    BY <2>1 DEF KeysAreKnown, Known, RotationTypeOK
<1>5. ASSUME NEW p \in Worker, Write(p)
      PROVE  KeysAreKnown'
  <2>1. history' = history \cup {Written(p)} /\ secret' = secret /\ loaded' = loaded /\ loaded[p] # Down
    BY <1>5 DEF Write, Written
  <2>2. isEncrypted(Written(p)) => Written(p).layers[1].key = loaded[p].primary
    BY <2>1, Conversion
  <2>3. p \in Process
    BY DEF Process
  <2> QED
    BY <2>1, <2>2, <2>3 DEF KeysAreKnown, Known
<1>6. ASSUME NEW x \in history, Expire(x)
      PROVE  KeysAreKnown'
  BY <1>6 DEF Expire, KeysAreKnown, Known
<1>7. CASE Serve \/ Forget \/ UNCHANGED rotation
  BY <1>7 DEF Serve, Forget, rotation, KeysAreKnown, Known
<1> QED
  BY <1>1, <1>2, <1>3, <1>4, <1>5, <1>6, <1>7 DEF RotationNext

LEMMA KeysKnown == Procedure = "staged" => (RotationSpec => []KeysAreKnown)
<1> SUFFICES ASSUME Procedure = "staged"
             PROVE  RotationSpec => []KeysAreKnown
  OBVIOUS
<1>1. RotationInit => KeysAreKnown
  <2> SUFFICES ASSUME RotationInit
               PROVE  KeysAreKnown
    OBVIOUS
  <2>1. FirstKeyset.primary = FirstKey /\ FirstKeyset.keys = {FirstKey}
    BY DEF FirstKeyset
  <2>2. \A x \in history : ~isEncrypted(x)
    BY PlainIsPlain DEF RotationInit
  <2> QED
    BY <2>1, <2>2 DEF RotationInit, KeysAreKnown, Known
<1>2. RotationTypeOK /\ KeysAreKnown /\ [RotationNext]_rotation => KeysAreKnown'
  BY KeysStayKnown
<1> QED
  BY <1>1, <1>2, RotationTypeCorrect, PTL DEF RotationSpec

LEMMA OnlyWorkersEncrypt == RotationSpec => []EncryptedByWorkers
<1>1. RotationInit => EncryptedByWorkers
  BY PlainIsPlain DEF RotationInit, EncryptedByWorkers
<1>2. RotationTypeOK /\ EncryptedByWorkers /\ [RotationNext]_rotation => EncryptedByWorkers'
  <2> SUFFICES ASSUME RotationTypeOK, EncryptedByWorkers, [RotationNext]_rotation
               PROVE  EncryptedByWorkers'
    OBVIOUS
  <2>1. \/ history' \subseteq history
        \/ \E p \in Worker : Write(p)
    BY DEF RotationNext, Rotate, Promote, Remove, Start, StopProcess, Expire, Serve, Forget, rotation
  <2>2. ASSUME NEW p \in Worker, Write(p)
        PROVE  EncryptedByWorkers'
    <3>1. history' = history \cup {Written(p)} /\ loaded[p] # Down
      BY <2>2 DEF Write, Written
    <3>2. isEncrypted(Written(p)) => p \in Enabled /\ Written(p).of = Home[p]
      BY <3>1, Conversion
    <3> QED
      BY <3>1, <3>2 DEF EncryptedByWorkers
  <2> QED
    BY <2>1, <2>2 DEF EncryptedByWorkers
<1> QED
  BY <1>1, <1>2, RotationTypeCorrect, PTL DEF RotationSpec
-----------------------------------------------------------------------------
(* The codec server.                                                       *)
LEMMA AnswersStand == RotationSpec => []AnswerStands
<1>1. RotationInit => AnswerStands
  BY DEF RotationInit, AnswerStands
<1>2. AnswerStands /\ [RotationNext]_rotation => AnswerStands'
  <2> SUFFICES ASSUME AnswerStands, [RotationNext]_rotation, answer' # NoAnswer
               PROVE  AnswerStands'
    BY DEF AnswerStands
  <2>1. /\ loaded' = loaded /\ history' = history
        /\ answer' = answer \/ Serve
    BY DEF RotationNext, Rotate, Promote, Remove, Start, StopProcess, Write, Expire, Serve,
           Forget, rotation
  <2>2. Request' = Request
    <3>1. Header' = Header /\ Homes' = Homes /\ Batch' = Batch
      BY <2>1 DEF Header, Homes, Batch, Plain
    <3> QED
      BY <3>1 DEF Request
  <2>3. \A r : Answered(r)' = Answered(r)
    BY <2>1 DEF Answered
  <2>4. CASE answer' = answer
    BY <2>1, <2>2, <2>3, <2>4 DEF AnswerStands, Answered
  <2>5. CASE Serve
    <3>1. PICK r \in Request :
            answer' = [status |-> Answered(r).status, out |-> Answered(r).out, request |-> r]
      BY <2>5 DEF Serve
    <3>2. answer'.status = Answered(r).status /\ answer'.out = Answered(r).out /\ answer'.request = r
      BY <3>1
    <3> QED
      BY <3>2, <2>1, <2>2, <2>5 DEF Serve, AnswerStands, Answered
  <2> QED
    BY <2>1, <2>4, <2>5
<1> QED
  BY <1>1, <1>2, PTL DEF RotationSpec

LEMMA RequestShape ==
    ASSUME NEW r \in Request
    PROVE  /\ r.header \in Header
           /\ \/ r.body = <<>>
              \/ /\ r.method = "POST" /\ r.operation \in {"encode", "decode"} /\ ~r.malformed
                 /\ \/ \E x \in history : r.body = <<x>>
                    \/ \E ns \in Homes : \E x \in history : r.body = <<Plain(ns), x>>
<1> DEFINE Refusable == [method : {"POST", "GET"}, operation : {"encode", "decode", "other"},
                         header : Header, malformed : BOOLEAN, body : {<<>>}]
           Batches == [method : {"POST"}, operation : {"encode", "decode"},
                       header : Header \ {<<>>}, malformed : {FALSE}, body : Batch]
<1>1. r \in Refusable \/ r \in Batches
  BY DEF Request
<1>2. CASE r \in Refusable
  BY <1>2
<1>3. CASE r \in Batches
  <2>1. r.header \in Header /\ r.body \in Batch /\ r.malformed = FALSE /\ r.method = "POST"
        /\ r.operation \in {"encode", "decode"}
    BY <1>3
  <2> HIDE DEF Batches
  <2>2. \/ \E x \in history : r.body = <<x>>
        \/ \E ns \in Homes : \E x \in history : r.body = <<Plain(ns), x>>
    BY <2>1 DEF Batch
  <2> QED
    BY <2>1, <2>2
<1> HIDE DEF Refusable, Batches
<1> QED
  BY <1>1, <1>2, <1>3

LEMMA BodyPayloads ==
    ASSUME NEW r \in Request, NEW x \in Range(r.body)
    PROVE  x \in history \/ \E ns \in Homes : x = Plain(ns)
<1> DEFINE S == history \cup {Plain(ns) : ns \in Homes}
<1>1. \/ r.body = <<>>
      \/ \E y \in S : r.body = <<y>>
      \/ \E y, z \in S : r.body = <<y, z>>
  BY RequestShape
<1>2. PICK i \in DOMAIN r.body : x = r.body[i]
  BY DEF Range
<1> HIDE DEF S
<1>3. \A y \in S : r.body = <<y>> => x \in S
  <2> SUFFICES ASSUME NEW y \in S, r.body = <<y>>
               PROVE  x \in S
    OBVIOUS
  <2> QED
    BY <1>2, Elements
<1>4. \A y, z \in S : r.body = <<y, z>> => x \in S
  <2> SUFFICES ASSUME NEW y \in S, NEW z \in S, r.body = <<y, z>>
               PROVE  x \in S
    OBVIOUS
  <2>1. x \in {y, z}
    BY <1>2, Elements
  <2> QED
    BY <2>1
<1>5. r.body # <<>>
  BY <1>2, NoElements
<1>6. x \in S
  BY <1>1, <1>3, <1>4, <1>5
<1> QED
  BY <1>6 DEF S

LEMMA ServedBatch ==
    ASSUME NEW c, NEW allowed, NEW r, NEW ns, ns = StripCloudAccountSuffix(r.header)
    PROVE  /\ ServeHTTP(c, allowed, r).status = 200 /\ r.operation = "decode" =>
                r.header # <<>> /\ DecodesBatch(WithNamespace(c, ns), r.body)
           /\ r.method = "POST" /\ r.header # <<>> /\ ~r.malformed /\ ns \in allowed =>
                /\ r.operation = "encode" =>
                     ServeHTTP(c, allowed, r) = Answer(200, EncodeBatch(WithNamespace(c, ns), r.body))
                /\ r.operation = "decode" /\ DecodesBatch(WithNamespace(c, ns), r.body) =>
                     ServeHTTP(c, allowed, r) = Answer(200, DecodeBatch(WithNamespace(c, ns), r.body))
<1>1. \A status : Refuse(status).status = status
  BY DEF Refuse, Answer
<1>2. ASSUME r.method = "POST", r.operation # "other", r.header # <<>>
      PROVE  ServeHTTP(c, allowed, r) =
                IF ns \notin allowed THEN Refuse(403)
                ELSE IF r.malformed THEN Refuse(400)
                ELSE IF r.operation = "encode" THEN Answer(200, EncodeBatch(WithNamespace(c, ns), r.body))
                ELSE IF DecodesBatch(WithNamespace(c, ns), r.body)
                     THEN Answer(200, DecodeBatch(WithNamespace(c, ns), r.body))
                ELSE Refuse(400)
  BY <1>2 DEF ServeHTTP
<1>3. ASSUME ~(r.method = "POST" /\ r.operation # "other" /\ r.header # <<>>)
      PROVE  ServeHTTP(c, allowed, r).status # 200
  <2>1. CASE r.method # "POST"
    BY <2>1, <1>1 DEF ServeHTTP
  <2>2. CASE r.method = "POST" /\ r.operation = "other"
    BY <2>2, <1>1 DEF ServeHTTP
  <2>3. CASE r.method = "POST" /\ r.operation # "other" /\ r.header = <<>>
    BY <2>3, <1>1 DEF ServeHTTP
  <2> QED
    BY <2>1, <2>2, <2>3, <1>3
<1>4. ASSUME ServeHTTP(c, allowed, r).status = 200, r.operation = "decode"
      PROVE  r.header # <<>> /\ DecodesBatch(WithNamespace(c, ns), r.body)
  BY <1>1, <1>2, <1>3, <1>4
<1>5. ASSUME r.method = "POST", r.header # <<>>, ~r.malformed, ns \in allowed
      PROVE  /\ r.operation = "encode" =>
                  ServeHTTP(c, allowed, r) = Answer(200, EncodeBatch(WithNamespace(c, ns), r.body))
             /\ r.operation = "decode" /\ DecodesBatch(WithNamespace(c, ns), r.body) =>
                  ServeHTTP(c, allowed, r) = Answer(200, DecodeBatch(WithNamespace(c, ns), r.body))
  BY <1>2, <1>5
<1> QED
  BY <1>4, <1>5

LEMMA HeaderNames ==
    ASSUME BareNames, NEW n \in Homes
    PROVE  /\ \A h \in SpelledOut(n) : h # <<>> /\ StripCloudAccountSuffix(h) = n
           /\ \A h \in Header \ {<<>>} : StripCloudAccountSuffix(h) = n => h \in SpelledOut(n)
<1>1. \A m \in Homes : \E a \in Label : m = <<a>>
  <2> SUFFICES ASSUME NEW m \in Homes
               PROVE  \E a \in Label : m = <<a>>
    OBVIOUS
  <2>1. m \in Namespace /\ Len(m) = 1
    BY KeysetRotationAssumption DEF BareNames, Homes
  <2>2. \A a, b \in Label : Len(<<a, b>>) # 1
    BY LenOfTwo
  <2> QED
    BY <2>1, <2>2 DEF Namespace
<1>2. \A m \in Homes : /\ StripCloudAccountSuffix(m) = m
                       /\ StripCloudAccountSuffix(Append(m, Account)) = m
                       /\ m # <<>> /\ Append(m, Account) # <<>>
  <2> TAKE m \in Homes
  <2>1. PICK a \in Label : m = <<a>>
    BY <1>1
  <2>2. Account \in Label
    BY KeysetRotationAssumption
  <2> QED
    BY <2>1, <2>2, Stripping
<1> QED
  BY <1>2 DEF Header, SpelledOut

(* Payloads encrypted for one namespace are not opened in another.         *)
THEOREM CodecsKeepNamespacesApart == BareNames => (RotationSpec => []NamespacesAreApart)
<1> SUFFICES ASSUME BareNames
             PROVE  RotationSpec => []NamespacesAreApart
  OBVIOUS
<1>1. RotationTypeOK /\ AnswerStands => NamespacesAreApart
  <2> SUFFICES ASSUME RotationTypeOK, AnswerStands
               PROVE  NamespacesAreApart
    OBVIOUS
  <2>1. ASSUME NEW p \in Worker, NEW x \in history, x.of # Home[p], isEncrypted(x)
        PROVE  ~Readable(p, x)
    <3>1. x.layers[1].aad = x.of
      BY <2>1, EncryptedPayload DEF RotationTypeOK
    <3>2. aad(WorkerCodec(p)) = Home[p]
      BY DEF aad, WorkerCodec, Codec
    <3> QED
      BY <2>1, <3>1, <3>2 DEF Readable, Decodes, Opens
  <2>2. ASSUME answer.status = 200, answer.request.operation = "decode",
               NEW x \in Range(answer.request.body), isEncrypted(x)
        PROVE  answer.request.header \in SpelledOut(x.of)
    <3> DEFINE r == answer.request
               ns == StripCloudAccountSuffix(r.header)
               c == Codec(loaded[Server], <<"_codec_server_seed_">>)
    <3>0. NoAnswer.status = 0 /\ Refuse(404).status = 404
      BY DEF NoAnswer, Refuse, Answer
    <3>1. r \in Request /\ Answered(r).status = 200
      <4>1. answer # NoAnswer
        BY <2>2, <3>0
      <4> QED
        BY <4>1, <2>2 DEF AnswerStands
    <3>2. ServeHTTP(c, Allowed, r).status = 200
      BY <3>0, <3>1 DEF Answered
    <3>3. r.header \in Header \ {<<>>} /\ DecodesBatch(WithNamespace(c, ns), r.body)
      <4>1. r.header \in Header
        BY <3>1, RequestShape
      <4> HIDE DEF c
      <4> QED
        BY <4>1, <3>2, <2>2, ServedBatch
    <3>4. x.layers[1].aad = ns
      <4>1. Decodes(WithNamespace(c, ns), x)
        BY <3>3 DEF DecodesBatch, Range
      <4>2. aad(WithNamespace(c, ns)) = ns
        BY DEF aad, WithNamespace, Codec
      <4> QED
        BY <4>1, <4>2, <2>2 DEF Decodes, Opens
    <3>5. x \in Payload
      BY <3>1, <2>2, BodyPayloads, PlainIsPlain DEF RotationTypeOK
    <3>6. x.of \in Homes /\ x.of = ns
      BY <3>4, <3>5, <2>2, EncryptedPayload, PayloadShape
    <3> QED
      BY <3>3, <3>6, HeaderNames
  <2> QED
    BY <2>1, <2>2 DEF NamespacesAreApart
<1> QED
  BY <1>1, RotationTypeCorrect, AnswersStand, PTL

(* Every process reads every payload of its namespace, while keys are      *)
(* rotated in two deployments.                                             *)
THEOREM PayloadsStayReadable ==
    Procedure = "staged" /\ EncryptionAgreed => (RotationSpec => []EveryProcessReads)
<1> SUFFICES ASSUME Procedure = "staged", EncryptionAgreed
             PROVE  RotationSpec => []EveryProcessReads
  OBVIOUS
<1>1. RotationTypeOK /\ KeysAreKnown /\ EncryptedByWorkers => EveryProcessReads
  <2> SUFFICES ASSUME RotationTypeOK, KeysAreKnown, EncryptedByWorkers, NEW x \in history
               PROVE  /\ \A p \in Worker : loaded[p] # Down /\ x.of = Home[p] => Readable(p, x)
                      /\ loaded[Server] # Down => Decodes(Codec(loaded[Server], x.of), x)
    BY DEF EveryProcessReads
  <2>1. isEncrypted(x) => x.layers[1].aad = x.of /\ Known(x.layers[1].key)
    BY EncryptedPayload DEF RotationTypeOK, KeysAreKnown
  <2>2. ASSUME NEW p \in Process, loaded[p] # Down
        PROVE  Decodes(Codec(loaded[p], x.of), x)
    BY <2>1, <2>2 DEF Decodes, Opens, Codec, aad, Known
  <2>3. \A p \in Worker : x.of = Home[p] /\ isEncrypted(x) => p \in Enabled
    BY DEF EncryptedByWorkers, EncryptionAgreed
  <2> QED
    BY <2>2, <2>3 DEF Process, Readable, WorkerCodec
<1> QED
  BY <1>1, RotationTypeCorrect, KeysKnown, OnlyWorkersEncrypt, PTL

(* A payload is a record.                                                  *)
LEMMA PayloadRecord ==
    ASSUME NEW x \in Payload
    PROVE  x = [of |-> x.of, layers |-> x.layers]
<1>1. PICK ns \in Homes : x \in PayloadOf(ns)
  BY DEF Payload
<1>2. \E layers : x = [of |-> ns, layers |-> layers]
  BY <1>1 DEF PayloadOf, Plain
<1> QED
  BY <1>2

(* What is decoded, once, is plain; what is encoded has a layer on top.    *)
LEMMA Coding ==
    ASSUME NEW c, NEW x \in Payload
    PROVE  /\ isEncrypted(x) => ~isEncrypted(decodeOne(c, x))
           /\ isEncrypted(encodeOne(c, x)) /\ encodeOne(c, x).layers[1] = Layer(c)
<1>1. x = [of |-> x.of, layers |-> x.layers]
  BY PayloadRecord
<1>2. decodeOne(c, x).layers = Tail(x.layers)
  BY <1>1 DEF decodeOne
<1>3. encodeOne(c, x).layers = <<Layer(c)>> \o x.layers
  BY <1>1 DEF encodeOne
<1>4. x.layers = <<>> \/ \E l : x.layers = <<l>>
  BY PayloadShape DEF isEncrypted
<1>5. \A l : (<<Layer(c)>> \o <<l>>)[1] = Layer(c) /\ <<Layer(c)>> \o <<l>> # <<>>
  <2> TAKE l
  <2>1. Layer(c) \in {Layer(c), l} /\ l \in {Layer(c), l}
    OBVIOUS
  <2> QED
    BY <2>1, TwoLayers
<1>6. <<Layer(c)>> \o <<>> = <<Layer(c)>> /\ <<Layer(c)>>[1] = Layer(c) /\ <<Layer(c)>> # <<>>
  <2>1. Layer(c) \in {Layer(c)}
    OBVIOUS
  <2> QED
    BY <2>1, OneLayer
<1> QED
  BY <1>2, <1>3, <1>4, <1>5, <1>6, EncryptedPayload DEF isEncrypted

(* Temporal's UI shows what workers wrote, and they read what it encodes.  *)
THEOREM UiServesItsNamespaces ==
    Procedure = "staged" /\ BareNames /\ Server \in Enabled
        => (RotationSpec => []UiReadsAndWrites)
<1> SUFFICES ASSUME Procedure = "staged", BareNames, Server \in Enabled
             PROVE  RotationSpec => []UiReadsAndWrites
  OBVIOUS
<1>1. RotationTypeOK /\ KeysAreKnown /\ AnswerStands => UiReadsAndWrites
  <2> SUFFICES ASSUME RotationTypeOK, KeysAreKnown, AnswerStands,
                      NEW n \in Homes \cap Allowed, NEW r, r = answer.request,
                      NEW c, c = Codec(loaded[Server], <<"_codec_server_seed_">>),
                      NEW scoped, scoped = WithNamespace(c, n),
                      answer # NoAnswer, r.body # <<>>, r.header \in SpelledOut(n),
                      \A x \in Range(r.body) : x.of = n
               PROVE  /\ answer.status = 200
                      /\ r.operation = "decode" => \A x \in Range(answer.out) : ~isEncrypted(x)
                      /\ r.operation = "encode" =>
                            \A p \in Worker \cap Enabled :
                                Home[p] = n /\ loaded[p] # Down =>
                                    DecodesBatch(WorkerCodec(p), answer.out)
    BY DEF UiReadsAndWrites
  <2>1. /\ r \in Request /\ loaded[Server] # Down
        /\ answer.status = ServeHTTP(c, Allowed, r).status
        /\ answer.out = ServeHTTP(c, Allowed, r).out
    BY DEF AnswerStands, Answered
  <2>2. r.method = "POST" /\ r.operation \in {"encode", "decode"} /\ ~r.malformed
    BY <2>1, RequestShape
  <2>3. r.header # <<>> /\ StripCloudAccountSuffix(r.header) = n
    BY HeaderNames
  <2>4. /\ aad(scoped) = n /\ scoped.keys = loaded[Server].keys
        /\ Layer(scoped) = [key |-> loaded[Server].primary, aad |-> n]
    BY DEF aad, WithNamespace, Codec, Layer
  <2>5. \A x \in Range(r.body) : x \in Payload /\ (x \in history \/ ~isEncrypted(x)) /\ x.of = n
    <3> SUFFICES ASSUME NEW x \in Range(r.body)
                 PROVE  x \in Payload /\ (x \in history \/ ~isEncrypted(x)) /\ x.of = n
      OBVIOUS
    <3>1. x \in history \/ \E ns \in Homes : x = Plain(ns)
      BY <2>1, BodyPayloads
    <3>2. \A ns \in Homes : Plain(ns) \in Payload /\ ~isEncrypted(Plain(ns))
      BY PlainIsPlain, PayloadsOf
    <3> QED
      BY <3>1, <3>2 DEF RotationTypeOK
  <2>6. DecodesBatch(scoped, r.body)
    <3>1. ASSUME NEW x \in Range(r.body), isEncrypted(x)
          PROVE  Opens(scoped, x)
      <4>1. Known(x.layers[1].key) /\ x.layers[1].aad = n
        BY <3>1, <2>5, EncryptedPayload DEF KeysAreKnown
      <4> QED
        BY <4>1, <2>1, <2>4 DEF Opens, Known, Process
    <3> QED
      BY <3>1 DEF DecodesBatch, Decodes, Range
  <2>7. \A out : Answer(200, out).status = 200 /\ Answer(200, out).out = out
    BY DEF Answer
  <2>8. CASE r.operation = "decode"
    <3>0. ServeHTTP(c, Allowed, r) = Answer(200, DecodeBatch(scoped, r.body))
      <4>1. DecodesBatch(WithNamespace(c, n), r.body)
        BY <2>6
      <4>2. n \in Allowed
        OBVIOUS
      <4> QED
        BY <2>2, <2>3, <2>8, <4>1, <4>2, ServedBatch
    <3>1. answer.status = 200 /\ answer.out = DecodeBatch(scoped, r.body)
      BY <2>1, <2>7, <3>0
    <3>2. ASSUME NEW x \in Range(DecodeBatch(scoped, r.body))
          PROVE  ~isEncrypted(x)
      <4>1. PICK i \in DOMAIN r.body :
                x = IF isEncrypted(r.body[i]) THEN decodeOne(scoped, r.body[i]) ELSE r.body[i]
        BY DEF Range, DecodeBatch
      <4>2. r.body[i] \in Payload
        BY <2>5 DEF Range
      <4> QED
        BY <4>1, <4>2, Coding
    <3> QED
      BY <3>1, <3>2, <2>8
  <2>9. CASE r.operation = "encode"
    <3>0. ServeHTTP(c, Allowed, r) = Answer(200, EncodeBatch(scoped, r.body))
      <4>1. n \in Allowed
        OBVIOUS
      <4> QED
        BY <2>2, <2>3, <2>9, <4>1, ServedBatch
    <3>1. answer.status = 200 /\ answer.out = EncodeBatch(scoped, r.body)
      BY <2>1, <2>7, <3>0
    <3>2. ASSUME NEW p \in Worker, Home[p] = n, loaded[p] # Down
          PROVE  DecodesBatch(WorkerCodec(p), EncodeBatch(scoped, r.body))
      <4>1. ASSUME NEW i \in DOMAIN r.body
            PROVE  Opens(WorkerCodec(p), encodeOne(scoped, r.body[i]))
        <5>1. r.body[i] \in Payload
          BY <2>5 DEF Range
        <5>2. encodeOne(scoped, r.body[i]).layers[1] = Layer(scoped)
          BY <5>1, Coding
        <5>3. WorkerCodec(p).keys = loaded[p].keys /\ aad(WorkerCodec(p)) = n
          BY <3>2 DEF WorkerCodec, Codec, aad
        <5>4. loaded[Server].primary \in loaded[p].keys
          BY <2>1, <3>2 DEF KeysAreKnown, Known, Process
        <5>2a. Layer(scoped).key = loaded[Server].primary /\ Layer(scoped).aad = n
          BY <2>4
        <5>5. /\ encodeOne(scoped, r.body[i]).layers[1].key = loaded[Server].primary
              /\ encodeOne(scoped, r.body[i]).layers[1].aad = n
          BY <5>2, <5>2a, Zenon
        <5> QED
          BY <5>3, <5>4, <5>5 DEF Opens
      <4> QED
        BY <4>1 DEF DecodesBatch, Decodes, EncodeBatch
    <3> QED
      BY <3>1, <3>2, <2>9
  <2> QED
    BY <2>2, <2>8, <2>9
<1> QED
  BY <1>1, RotationTypeCorrect, KeysKnown, AnswersStand, PTL
-----------------------------------------------------------------------------
(* Jobs.                                                                   *)
USE RiverWorkerAssumption

Open(e) == tx[e] \in {"open", "committing"}
Working(e) == pc[e] \in Active \ {"report"}
IsLatest(e) == job[e[1]] = "running" /\ tries[e[1]] = e[2]

(* Attempts that River has not fetched yet.                                *)
Fresh ==
    \A e \in Execution : e[2] > tries[e[1]] =>
        pc[e] = "none" /\ ~over[e] /\ tx[e] = "none" /\ ~marked[e]

Current == \A e \in Execution : Working(e) /\ ~over[e] => IsLatest(e)

Locks == \A e \in Execution : marked[e] /\ Open(e) => IsLatest(e)

Marks ==
    \A e \in Execution :
        /\ pc[e] = "commit" /\ tx[e] = "open" => marked[e]
        /\ tx[e] = "committing" => marked[e] /\ pc[e] \in {"report", "done"}

Reported ==
    \A e \in Execution : pc[e] = "report" /\ err[e] = "nil" => job[e[1]] = "completed"

Attempts ==
    \A j \in Job : /\ job[j] = "available" => tries[j] < MaxAttempts[j]
                   /\ job[j] = "absent" => tries[j] = 0

WorkInvariant ==
    /\ Fresh /\ Current /\ Locks /\ Marks /\ Reported /\ Attempts
    /\ WorkedExactlyWhenCompleted

(* Jobs and the transactions that ask for them.                            *)
AskInvariant ==
    /\ \A j \in Job \ Periodic :
        asked[j] \in {"no", "open", "inserted"} => job[j] = "absent"
    /\ \A j \in Job : asked[j] = "inserted" => j \notin invalidArgs
    /\ EnqueuedWithItsTransaction

(* What SET SESSION leaves behind, some job has set and committed.         *)
Left == {Timeout[j] : j \in {k \in Job : worked[k] > 0}} \ {0}

Limited(e) ==
    /\ pc[e] = "arm" => armed[e] = 0 \/ armed[e] \in Left
    /\ pc[e] \in {"handler", "output", "complete", "commit"} /\ Timeout[e[1]] # 0
       => armed[e] = Timeout[e[1]] \/ armed[e] \in Left

TimerInvariant ==
    /\ \A x \in Conn : session[x] = 0 \/ session[x] \in Left
    /\ \A e \in Execution : Limited(e)

StopInvariant ==
    /\ StoppedMeansIdle
    /\ phase = "hard" => \A e \in Running : over[e]
-----------------------------------------------------------------------------
(* Attempts are pairs of a job and a number.                               *)
LEMMA ExecutionPairs ==
    /\ \A e \in Execution : /\ e = <<e[1], e[2]>>
                            /\ e[1] \in Job /\ e[2] \in Nat /\ e[2] # 0
                            /\ e[2] <= MaxAttempts[e[1]]
    /\ \A j \in Job, n \in Nat \ {0} : n <= MaxAttempts[j] => <<j, n>> \in Execution
<1>1. ASSUME NEW e \in Execution
      PROVE  /\ e = <<e[1], e[2]>>
             /\ e[1] \in Job /\ e[2] \in Nat /\ e[2] # 0
             /\ e[2] <= MaxAttempts[e[1]]
  <2>1. PICK j \in Job : e \in {j} \X (1 .. MaxAttempts[j])
    BY DEF Execution
  <2>2. MaxAttempts[j] \in Nat
    OBVIOUS
  <2> QED
    BY <2>1, <2>2
<1>2. ASSUME NEW j \in Job, NEW n \in Nat \ {0}, n <= MaxAttempts[j]
      PROVE  <<j, n>> \in Execution
  <2>1. n \in 1 .. MaxAttempts[j]
    BY <1>2
  <2>2. <<j, n>> \in {j} \X (1 .. MaxAttempts[j])
    BY <2>1
  <2> QED
    BY <2>2 DEF Execution
<1> QED
  BY <1>1, <1>2

(* What an attempt does while it is alive, and what else there is to do.   *)
EStep(e) ==
    \/ Advance(e) \/ TimesOut(e) \/ ServerEnds(e)
    \/ CommitUnanswered(e) \/ WorkFails(e) \/ WorkRetries(e)

JStep(j) ==
    Ask(j) \/ Enqueue(j) \/ AskEnds(j) \/ PeriodicJobs(j) \/ Fetch(j) \/ Rescue(j)

PStep ==
    \/ Stop \/ SoftStopFails \/ HardStopFails \/ Crash
    \/ StopStep \/ Exit \/ Restart

LEMMA Steps ==
    ASSUME [Next]_vars
    PROVE  \/ \E e \in Execution : EStep(e)
           \/ \E j \in Job : JStep(j)
           \/ PStep
           \/ UNCHANGED vars
BY DEF Next, EStep, JStep, PStep, Fault, AllSettled, vars

LEMMA OtherSteps ==
    ASSUME [Next]_vars, invalidArgs \subseteq MayBeInvalid, faults \in 0 .. MaxFaults
    PROVE  invalidArgs' = invalidArgs /\ faults' \in 0 .. MaxFaults
<1>1. invalidArgs' = invalidArgs
  BY DEF Next, vars
<1>2. faults' = faults \/ (faults < MaxFaults /\ faults' = faults + 1)
  BY DEF Next, vars, ServerEnds, Rescue, StopStep, SoftStopSucceeds, SoftStopTimesOut,
         HardStopSucceeds, HardStopTimesOut, Exit, Restart, AllSettled
<1> QED
  BY <1>1, <1>2

(* Types, apart from the two variables that Steps has dealt with.          *)
Types ==
    /\ job \in [Job -> JobState]
    /\ tries \in [Job -> Nat] /\ \A j \in Job : tries[j] <= MaxAttempts[j]
    /\ worked \in [Job -> Nat]
    /\ asked \in [Job -> {"no", "open", "inserted", "committed", "ended"}]
    /\ pc \in [Execution -> {"none", "done"} \cup Active]
    /\ err \in [Execution -> {"nil", "error", "cancel"}]
    /\ over \in [Execution -> BOOLEAN]
    /\ tx \in [Execution -> {"none", "open", "committing", "committed", "ended"}]
    /\ marked \in [Execution -> BOOLEAN]
    /\ on \in [Execution -> Conn \cup {NoConn}]
    /\ armed \in [Execution -> Nat]
    /\ session \in [Conn -> Nat]
    /\ phase \in Phase

LEMMA AttemptTypes ==
    ASSUME Types, NEW e \in Execution, EStep(e)
    PROVE  Types'
<1> USE ExecutionPairs DEF Types, jobvars, runvars, txvars, JobState, Settled, Active, Transacting
<1>1. CASE ValidateArgs(e)
  BY <1>1 DEF ValidateArgs, Goto, Fail
<1>2. CASE Begin(e)
  BY <1>2 DEF Begin, Goto, Transacting
<1>3. CASE SetTimeouts(e)
  BY <1>3 DEF SetTimeouts, Goto, ArmedBy
<1>4. CASE Handle(e)
  BY <1>4 DEF Handle, Goto
<1>5. CASE RecordOutput(e)
  BY <1>5 DEF RecordOutput, Goto
<1>6. CASE JobCompleteTx(e)
  BY <1>6 DEF JobCompleteTx, Goto
<1>7. CASE Commit(e)
  <2>1. job' \in [Job -> JobState] /\ worked' \in [Job -> Nat]
    BY <1>7 DEF Commit, Apply
  <2>2. session' \in [Conn -> Nat]
    BY <1>7 DEF Commit
  <2> QED
    BY <1>7, <2>1, <2>2 DEF Commit, Goto, Apply
<1>8. CASE Report(e)
  BY <1>8 DEF Report, Goto, Outcome
<1>9. CASE GivesUp(e)
  BY <1>9 DEF GivesUp, RollsBack, Fail, Replaced
<1>10. CASE HeedlessReturns(e)
  BY <1>10 DEF HeedlessReturns, Goto
<1>11. CASE TimesOut(e)
  BY <1>11 DEF TimesOut
<1>12. CASE ServerEnds(e)
  <2>1. CASE tx' = [tx EXCEPT ![e] = "ended"] /\ UNCHANGED jobvars
    BY <1>12, <2>1 DEF ServerEnds
  <2>2. CASE Apply(e)
    <3>1. job' \in [Job -> JobState] /\ worked' \in [Job -> Nat]
      BY <2>2 DEF Apply
    <3> QED
      BY <1>12, <2>2, <3>1 DEF ServerEnds, Apply
  <2> QED
    BY <1>12, <2>1, <2>2 DEF ServerEnds
<1>13. CASE CommitUnanswered(e)
  BY <1>13 DEF CommitUnanswered, Fail, Replaced
<1>14. CASE WorkFails(e)
  <2>1. PICK f \in {"error", "cancel"} : RollsBack(e, f)
    BY <1>14 DEF WorkFails
  <2> QED
    BY <2>1 DEF RollsBack, Fail, Replaced
<1>15. CASE WorkRetries(e)
  BY <1>15 DEF WorkRetries, Goto
<1> QED
  BY <1>1, <1>2, <1>3, <1>4, <1>5, <1>6, <1>7, <1>8, <1>9, <1>10, <1>11, <1>12, <1>13, <1>14, <1>15 DEF EStep, Advance

LEMMA JobTypes ==
    ASSUME Types, Attempts, NEW j \in Job, JStep(j)
    PROVE  Types'
<1> USE ExecutionPairs DEF Types, Attempts, jobvars, runvars, txvars, JobState, Settled, Active
<1>1. CASE Ask(j)
  BY <1>1 DEF Ask
<1>2. CASE Enqueue(j)
  BY <1>2 DEF Enqueue
<1>3. CASE AskEnds(j)
  <2>1. job' \in [Job -> JobState]
    BY <1>3 DEF AskEnds
  <2>2. asked' \in [Job -> {"no", "open", "inserted", "committed", "ended"}]
    BY <1>3 DEF AskEnds
  <2> QED
    BY <1>3, <2>1, <2>2 DEF AskEnds
<1>4. CASE PeriodicJobs(j)
  BY <1>4 DEF PeriodicJobs
<1>5. CASE Fetch(j)
  BY <1>5 DEF Fetch
<1>6. CASE Rescue(j)
  BY <1>6 DEF Rescue
<1> QED
  BY <1>1, <1>2, <1>3, <1>4, <1>5, <1>6 DEF JStep

LEMMA ProcessTypes ==
    ASSUME Types, PStep
    PROVE  Types'
<1> USE DEF Types, jobvars, runvars, txvars, Active, Phase
<1>1. CASE Stop
  BY <1>1 DEF Stop
<1>2. CASE SoftStopSucceeds
  BY <1>2 DEF SoftStopSucceeds
<1>3. CASE SoftStopFails
  BY <1>3 DEF SoftStopFails
<1>4. CASE SoftStopTimesOut
  BY <1>4 DEF SoftStopTimesOut, CancelsAll
<1>5. CASE HardStopSucceeds
  BY <1>5 DEF HardStopSucceeds
<1>6. CASE HardStopTimesOut
  BY <1>6 DEF HardStopTimesOut
<1>7. CASE HardStopFails
  BY <1>7 DEF HardStopFails
<1>8. CASE Crash
  BY <1>8 DEF Crash, Dies
<1>9. CASE Exit
  BY <1>9 DEF Exit, Dies
<1>10. CASE Restart
  BY <1>10 DEF Restart
<1> QED
  BY <1>1, <1>2, <1>3, <1>4, <1>5, <1>6, <1>7, <1>8, <1>9, <1>10 DEF PStep, StopStep
-----------------------------------------------------------------------------
(* A living attempt goes on without touching its job.                      *)
Moves(e) ==
    /\ Working(e) /\ pc'[e] \in Active
    /\ UNCHANGED <<job, tries, worked, over>>
    /\ \A f \in Execution \ {e} :
        pc'[f] = pc[f] /\ err'[f] = err[f] /\ tx'[f] = tx[f] /\ marked'[f] = marked[f]
    /\ pc'[e] = "report" => err'[e] # "nil"
    /\ pc'[e] = "commit" => marked'[e]
    /\ tx'[e] = "committing" => marked'[e] /\ pc'[e] = "report"
    /\ marked'[e] /\ tx'[e] \in {"open", "committing"} => IsLatest(e)

LEMMA RollsBackMoves ==
    ASSUME Types, WorkInvariant, NEW e \in Execution, Working(e),
           NEW f \in {"error", "cancel"}, RollsBack(e, f)
    PROVE  Moves(e)
BY DEF RollsBack, Fail, Moves, Types, WorkInvariant, Locks, Marks, Working, Open,
       Active, Transacting, jobvars

LEMMA Moving ==
    ASSUME Types, WorkInvariant, NEW e \in Execution,
           \/ ValidateArgs(e) \/ Begin(e) \/ SetTimeouts(e) \/ Handle(e)
           \/ RecordOutput(e) \/ JobCompleteTx(e) \/ CommitUnanswered(e)
           \/ GivesUp(e) \/ HeedlessReturns(e) \/ WorkFails(e) \/ WorkRetries(e)
    PROVE  Moves(e)
<1> USE DEF Moves, Types, WorkInvariant, Locks, Marks, Working, Open, IsLatest,
            Active, Transacting, jobvars, runvars, txvars
<1>1. CASE ValidateArgs(e)
  BY <1>1 DEF ValidateArgs, Goto, Fail
<1>2. CASE Begin(e)
  BY <1>2 DEF Begin, Goto
<1>3. CASE SetTimeouts(e)
  BY <1>3 DEF SetTimeouts, Goto
<1>4. CASE Handle(e)
  BY <1>4 DEF Handle, Goto
<1>5. CASE RecordOutput(e)
  BY <1>5 DEF RecordOutput, Goto
<1>6. CASE JobCompleteTx(e)
  <2>1. IsLatest(e)
    BY <1>6 DEF JobCompleteTx, Current
  <2>2. marked'[e] /\ \A f \in Execution \ {e} : marked'[f] = marked[f]
    BY <1>6, <2>1 DEF JobCompleteTx
  <2> QED
    BY <1>6, <2>1, <2>2 DEF JobCompleteTx, Goto
<1>7. CASE CommitUnanswered(e)
  BY <1>7 DEF CommitUnanswered, Fail
<1>8. CASE GivesUp(e)
  BY <1>8, RollsBackMoves DEF GivesUp
<1>9. CASE HeedlessReturns(e)
  BY <1>9 DEF HeedlessReturns, Goto
<1>10. CASE WorkFails(e)
  BY <1>10, RollsBackMoves DEF WorkFails
<1>11. CASE WorkRetries(e)
  BY <1>11 DEF WorkRetries, Goto
<1> QED
  BY <1>1, <1>2, <1>3, <1>4, <1>5, <1>6, <1>7, <1>8, <1>9, <1>10, <1>11

LEMMA MovesKeeps ==
    ASSUME Types, WorkInvariant, NEW e \in Execution, Moves(e)
    PROVE  WorkInvariant'
<1> USE ExecutionPairs DEF Types, WorkInvariant, Moves, Working, Open, IsLatest
<1>1. Fresh'
  BY DEF Fresh, Active, Transacting
<1>2. Current'
  BY DEF Current
<1>3. Locks'
  BY DEF Locks
<1>4. Marks'
  BY DEF Marks
<1>5. Reported'
  BY DEF Reported
<1>6. Attempts'
  BY DEF Attempts
<1>7. WorkedExactlyWhenCompleted'
  BY DEF WorkedExactlyWhenCompleted
<1> QED
  BY <1>1, <1>2, <1>3, <1>4, <1>5, <1>6, <1>7

(* The server applies the work of an attempt that has marked its job.      *)
LEMMA AppliesKeeps ==
    ASSUME Types, WorkInvariant, NEW e \in Execution, Commit(e) \/ ServerEnds(e), Apply(e)
    PROVE  WorkInvariant'
<1> USE ExecutionPairs DEF Types, WorkInvariant, Open, Working, IsLatest
<1>a. /\ marked[e] /\ Open(e)
      /\ pc'[e] \in {"report", "done"}
      /\ \A f \in Execution \ {e} : pc'[f] = pc[f]
      /\ UNCHANGED <<err, over, marked>>
  <2>1. CASE Commit(e)
    BY <2>1 DEF Commit, Goto, Marks
  <2>2. CASE ServerEnds(e)
    <3>1. tx[e] = "committing"
      BY <2>2 DEF ServerEnds, Apply
    <3> QED
      BY <2>2, <3>1 DEF ServerEnds, Marks, runvars
  <2> QED
    BY <2>1, <2>2
<1>b. /\ job[e[1]] = "running" /\ tries[e[1]] = e[2]
      /\ job' = [job EXCEPT ![e[1]] = "completed"]
      /\ worked' = [worked EXCEPT ![e[1]] = @ + 1]
      /\ tx' = [tx EXCEPT ![e] = "committed"]
      /\ tries' = tries
  BY <1>a DEF Apply, Locks
<1>c. \A f \in Execution : f[1] = e[1] /\ f[2] = e[2] => f = e
  OBVIOUS
<1> USE <1>a, <1>b, <1>c
<1> HIDE ExecutionPairs
<1>d. \A f \in Execution : f[1] \in Job
  BY ExecutionPairs
<1>1. Fresh'
  BY <1>d DEF Fresh, Active
<1>2. Current'
  BY <1>d DEF Current, Active, Transacting
<1>3. Locks'
  BY <1>d DEF Locks
<1>4. Marks'
  BY <1>d DEF Marks
<1>5. Reported'
  BY <1>d DEF Reported
<1>6. Attempts'
  BY <1>d DEF Attempts
<1>7. WorkedExactlyWhenCompleted'
  BY <1>d DEF WorkedExactlyWhenCompleted
<1> QED
  BY <1>1, <1>2, <1>3, <1>4, <1>5, <1>6, <1>7

LEMMA ServerGivesUpKeeps ==
    ASSUME Types, WorkInvariant, NEW e \in Execution, ServerEnds(e), ~Apply(e)
    PROVE  WorkInvariant'
<1> USE DEF Types, WorkInvariant, Open, Working, IsLatest
<1>a. /\ tx' = [tx EXCEPT ![e] = "ended"] /\ tx[e] # "none"
      /\ UNCHANGED <<job, tries, worked, pc, err, over, marked>>
  BY DEF ServerEnds, jobvars, runvars
<1> USE <1>a
<1>1. Fresh'
  BY DEF Fresh
<1>2. Current'
  BY DEF Current
<1>3. Locks'
  BY DEF Locks
<1>4. Marks'
  BY DEF Marks
<1>5. Reported'
  BY DEF Reported
<1>6. Attempts'
  BY DEF Attempts
<1>7. WorkedExactlyWhenCompleted'
  BY DEF WorkedExactlyWhenCompleted
<1> QED
  BY <1>1, <1>2, <1>3, <1>4, <1>5, <1>6, <1>7

LEMMA TriesLeft ==
    ASSUME Types, NEW j \in Job, tries[j] # MaxAttempts[j]
    PROVE  tries[j] < MaxAttempts[j]
<1>1. tries[j] \in Nat /\ MaxAttempts[j] \in Nat /\ tries[j] <= MaxAttempts[j]
  BY DEF Types
<1> QED
  BY <1>1

LEMMA ReportKeeps ==
    ASSUME Types, WorkInvariant, NEW e \in Execution, Report(e)
    PROVE  WorkInvariant'
<1> USE ExecutionPairs DEF Types, WorkInvariant, Open, Working, IsLatest
<1>a. /\ pc[e] = "report" /\ pc' = [pc EXCEPT ![e] = "done"]
      /\ \A f \in Execution : f[1] = e[1] /\ marked[f] => ~Open(f)
      /\ UNCHANGED <<err, over, tx, marked, tries, worked>>
  BY DEF Report, Goto, RowLocked, txvars
<1>b. \/ job' = job
      \/ /\ job[e[1]] = "running" /\ e[2] = tries[e[1]]
         /\ job' = [job EXCEPT ![e[1]] = Outcome(e)]
  BY DEF Report
<1>c. /\ Outcome(e) \in {"cancelled", "discarded", "available"} \/ job' = job
      /\ Outcome(e) = "available" => tries[e[1]] < MaxAttempts[e[1]]
  <2>1. CASE err[e] = "nil"
    BY <1>a, <1>b, <2>1 DEF Outcome, Reported
  <2>2. CASE err[e] # "nil"
    <3>1. e[1] \in Job
      OBVIOUS
    <3>3. Outcome(e) \in {"cancelled", "discarded", "available"}
      BY <2>2 DEF Outcome
    <3>4. Outcome(e) = "available" => tries[e[1]] # MaxAttempts[e[1]]
      BY <2>2 DEF Outcome
    <3> QED
      BY <3>1, <3>3, <3>4, TriesLeft
  <2> QED
    BY <2>1, <2>2
<1>d. \A f \in Execution : f[1] = e[1] /\ f[2] = e[2] => f = e
  OBVIOUS
<1> USE <1>a, <1>b, <1>c, <1>d
<1>1. Fresh'
  BY DEF Fresh
<1>2. Current'
  BY DEF Current, Active, Transacting
<1>3. Locks'
  BY DEF Locks
<1>4. Marks'
  BY DEF Marks
<1>5. Reported'
  BY DEF Reported
<1>6. Attempts'
  BY DEF Attempts
<1>7. WorkedExactlyWhenCompleted'
  BY DEF WorkedExactlyWhenCompleted
<1> QED
  BY <1>1, <1>2, <1>3, <1>4, <1>5, <1>6, <1>7

LEMMA TimesOutKeeps ==
    ASSUME Types, WorkInvariant, NEW e \in Execution, TimesOut(e)
    PROVE  WorkInvariant'
<1> USE DEF Types, WorkInvariant, Open, Working, IsLatest
<1>a. /\ over' = [over EXCEPT ![e] = TRUE] /\ pc[e] \in Active
      /\ UNCHANGED <<job, tries, worked, pc, err, tx, marked>>
  BY DEF TimesOut, jobvars, txvars
<1> USE <1>a
<1>1. Fresh'
  BY DEF Fresh, Active, Transacting
<1>2. Current'
  BY DEF Current
<1>3. Locks'
  BY DEF Locks
<1>4. Marks'
  BY DEF Marks
<1>5. Reported'
  BY DEF Reported
<1>6. Attempts'
  BY DEF Attempts
<1>7. WorkedExactlyWhenCompleted'
  BY DEF WorkedExactlyWhenCompleted
<1> QED
  BY <1>1, <1>2, <1>3, <1>4, <1>5, <1>6, <1>7

LEMMA AttemptKeeps ==
    ASSUME Types, WorkInvariant, NEW e \in Execution, EStep(e)
    PROVE  WorkInvariant'
<1>1. CASE Moves(e)
  BY <1>1, MovesKeeps
<1>2. CASE Commit(e)
  BY <1>2, AppliesKeeps DEF Commit
<1>3. CASE ServerEnds(e)
  BY <1>3, AppliesKeeps, ServerGivesUpKeeps
<1>4. CASE Report(e)
  BY <1>4, ReportKeeps
<1>5. CASE TimesOut(e)
  BY <1>5, TimesOutKeeps
<1> QED
  BY <1>1, <1>2, <1>3, <1>4, <1>5, Moving DEF EStep, Advance

LEMMA FetchKeeps ==
    ASSUME Types, WorkInvariant, NEW j \in Job, Fetch(j)
    PROVE  WorkInvariant'
<1> USE ExecutionPairs DEF Types, WorkInvariant, Open, Working, IsLatest
<1> DEFINE e == <<j, tries[j] + 1>>
<1>a. /\ job[j] = "available" /\ job' = [job EXCEPT ![j] = "running"]
      /\ tries' = [tries EXCEPT ![j] = @ + 1]
      /\ pc' = [pc EXCEPT ![e] = "validate"]
      /\ UNCHANGED <<worked, err, over, tx, marked>>
  BY DEF Fetch, txvars
<1>b. tries[j] \in Nat /\ MaxAttempts[j] \in Nat /\ tries[j] < MaxAttempts[j]
  BY <1>a DEF Attempts
<1>c. e \in Execution /\ e[1] = j /\ e[2] = tries[j] + 1
  <2>1. tries[j] + 1 \in Nat \ {0} /\ tries[j] + 1 <= MaxAttempts[j]
    BY <1>b
  <2> QED
    BY <2>1
<1>d. \A f \in Execution : f[1] = j /\ f[2] = tries[j] + 1 => f = e
  OBVIOUS
<1>e. pc[e] = "none" /\ tx[e] = "none" /\ ~marked[e] /\ ~over[e]
  BY <1>b, <1>c DEF Fresh
<1> HIDE DEF e
<1> USE <1>a, <1>b, <1>c, <1>d, <1>e
<1>1. Fresh'
  BY DEF Fresh
<1>2. Current'
  BY DEF Current, Active, Transacting
<1>3. Locks'
  BY DEF Locks
<1>4. Marks'
  BY DEF Marks
<1>5. Reported'
  BY DEF Reported
<1>6. Attempts'
  BY DEF Attempts
<1>7. WorkedExactlyWhenCompleted'
  BY DEF WorkedExactlyWhenCompleted
<1> QED
  BY <1>1, <1>2, <1>3, <1>4, <1>5, <1>6, <1>7

LEMMA RescueKeeps ==
    ASSUME Types, WorkInvariant, NEW j \in Job, Rescue(j)
    PROVE  WorkInvariant'
<1> USE ExecutionPairs DEF Types, WorkInvariant, Open, Working, IsLatest
<1>a. /\ job[j] = "running"
      /\ \/ job' = [job EXCEPT ![j] = "discarded"]
         \/ job' = [job EXCEPT ![j] = "available"] /\ tries[j] # MaxAttempts[j]
      /\ \A f \in Execution : f[1] = j /\ marked[f] => ~Open(f)
      /\ over[<<j, tries[j]>>]
      /\ UNCHANGED <<tries, worked, pc, err, over, tx, marked>>
  BY DEF Rescue, RowLocked, txvars, runvars
<1>b. tries[j] # MaxAttempts[j] => tries[j] < MaxAttempts[j]
  BY TriesLeft
<1>c. ASSUME NEW f \in Execution, f[1] = j, f[2] = tries[j]
      PROVE  over[f]
  <2>1. f = <<j, tries[j]>>
    BY <1>c, ExecutionPairs
  <2> QED
    BY <1>a, <2>1
<1> USE <1>a, <1>b, <1>c
<1>1. Fresh'
  BY DEF Fresh
<1>2. Current'
  BY DEF Current
<1>3. Locks'
  BY DEF Locks
<1>4. Marks'
  BY DEF Marks
<1>5. Reported'
  BY DEF Reported
<1>6. Attempts'
  BY DEF Attempts
<1>7. WorkedExactlyWhenCompleted'
  BY DEF WorkedExactlyWhenCompleted
<1> QED
  BY <1>1, <1>2, <1>3, <1>4, <1>5, <1>6, <1>7

(* A job that comes into being.                                            *)
LEMMA AppearsKeeps ==
    ASSUME Types, WorkInvariant, NEW j \in Job, AskEnds(j) \/ PeriodicJobs(j)
    PROVE  WorkInvariant'
<1> USE ExecutionPairs DEF Types, WorkInvariant, Open, Working, IsLatest
<1>a. /\ job' = job \/ (job[j] = "absent" /\ job' = [job EXCEPT ![j] = "available"])
      /\ UNCHANGED <<tries, worked, pc, err, over, tx, marked>>
  <2>1. CASE AskEnds(j)
    <3>1. job' = job \/ job' = [job EXCEPT ![j] = IF asked[j] = "inserted" /\ job[j] = "absent"
                                                  THEN "available" ELSE @]
      BY <2>1 DEF AskEnds
    <3>2. job' = job \/ (job[j] = "absent" /\ job' = [job EXCEPT ![j] = "available"])
      BY <3>1
    <3> QED
      BY <2>1, <3>2 DEF AskEnds, runvars, txvars
  <2>2. CASE PeriodicJobs(j)
    BY <2>2 DEF PeriodicJobs, runvars, txvars
  <2> QED
    BY <2>1, <2>2
<1>b. tries[j] \in Nat /\ MaxAttempts[j] \in Nat \ {0}
  OBVIOUS
<1> USE <1>a, <1>b
<1>1. Fresh'
  BY DEF Fresh
<1>2. Current'
  BY DEF Current
<1>3. Locks'
  BY DEF Locks
<1>4. Marks'
  BY DEF Marks
<1>5. Reported'
  BY DEF Reported
<1>6. Attempts'
  BY DEF Attempts
<1>7. WorkedExactlyWhenCompleted'
  BY DEF WorkedExactlyWhenCompleted
<1> QED
  BY <1>1, <1>2, <1>3, <1>4, <1>5, <1>6, <1>7

LEMMA AskingKeeps ==
    ASSUME Types, WorkInvariant, NEW j \in Job, Ask(j) \/ Enqueue(j)
    PROVE  WorkInvariant'
<1>1. UNCHANGED <<job, tries, worked, pc, err, over, tx, marked>>
  BY DEF Ask, Enqueue, runvars, txvars
<1> QED
  BY <1>1 DEF WorkInvariant, Fresh, Current, Locks, Marks, Reported, Attempts,
              WorkedExactlyWhenCompleted, Open, Working, IsLatest

(* Stops and crashes end contexts, and attempts with their process.        *)
LEMMA ProcessKeeps ==
    ASSUME Types, WorkInvariant, PStep
    PROVE  WorkInvariant'
<1> USE DEF Types, WorkInvariant, Open, Working, IsLatest
<1>a. /\ UNCHANGED <<job, tries, worked, err, tx, marked>>
      /\ \A e \in Execution : /\ pc'[e] = pc[e] \/ (pc'[e] = "done" /\ pc[e] \in Active)
                              /\ over[e] => over'[e]
                              /\ pc[e] \notin Active => over'[e] = over[e]
  <2>1. CASE Crash \/ Exit
    BY <2>1 DEF Crash, Exit, Dies, Running, jobvars
  <2>2. CASE SoftStopTimesOut
    BY <2>2 DEF SoftStopTimesOut, CancelsAll, Running, jobvars, txvars
  <2>3. CASE \/ Stop \/ SoftStopFails \/ HardStopFails \/ SoftStopSucceeds
             \/ HardStopSucceeds \/ HardStopTimesOut \/ Restart
    BY <2>3 DEF Stop, SoftStopFails, HardStopFails, SoftStopSucceeds, HardStopSucceeds,
                HardStopTimesOut, Restart, jobvars, runvars, txvars
  <2> QED
    BY <2>1, <2>2, <2>3 DEF PStep, StopStep
<1> USE <1>a DEF Active, Transacting
<1>1. Fresh'
  BY DEF Fresh
<1>2. Current'
  BY DEF Current
<1>3. Locks'
  BY DEF Locks
<1>4. Marks'
  BY DEF Marks
<1>5. Reported'
  BY DEF Reported
<1>6. Attempts'
  BY DEF Attempts
<1>7. WorkedExactlyWhenCompleted'
  BY DEF WorkedExactlyWhenCompleted
<1> QED
  BY <1>1, <1>2, <1>3, <1>4, <1>5, <1>6, <1>7

LEMMA WorkInit ==
    ASSUME Init
    PROVE  Types /\ WorkInvariant
<1>1. Types
  BY DEF Init, Types, JobState, Settled, Phase
<1>2. WorkInvariant
  BY ExecutionPairs DEF Init, WorkInvariant, Fresh, Current, Locks, Marks, Reported, Attempts,
         WorkedExactlyWhenCompleted, Open, Working, Active, Transacting
<1> QED
  BY <1>1, <1>2

LEMMA WorkStep ==
    ASSUME Types, WorkInvariant, [Next]_vars
    PROVE  Types' /\ WorkInvariant'
<1>1. ASSUME NEW e \in Execution, EStep(e)
      PROVE  Types' /\ WorkInvariant'
  BY <1>1, AttemptTypes, AttemptKeeps
<1>2. ASSUME NEW j \in Job, JStep(j)
      PROVE  Types' /\ WorkInvariant'
  BY <1>2, JobTypes, FetchKeeps, RescueKeeps, AppearsKeeps, AskingKeeps DEF JStep, WorkInvariant
<1>3. CASE PStep
  BY <1>3, ProcessTypes, ProcessKeeps
<1>4. CASE UNCHANGED vars
  BY <1>4 DEF vars, jobvars, runvars, txvars, Types, WorkInvariant, Fresh, Current, Locks,
              Marks, Reported, Attempts, WorkedExactlyWhenCompleted, Open, Working, IsLatest
<1> QED
  BY <1>1, <1>2, <1>3, <1>4, Steps
-----------------------------------------------------------------------------
(* Nothing but the end of the transaction that asked for it creates a job. *)
LEMMA AttemptsLeaveAsking ==
    ASSUME Types, WorkInvariant, NEW e \in Execution, EStep(e)
    PROVE  asked' = asked /\ \A j \in Job : job'[j] = job[j] \/ job[j] # "absent"
<1> USE DEF Types, WorkInvariant, jobvars
<1>1. CASE Moves(e)
  <2>1. asked' = asked
    BY DEF EStep, Advance, ValidateArgs, Begin, SetTimeouts, Handle, RecordOutput,
           JobCompleteTx, Commit, Apply, Report, GivesUp, HeedlessReturns, TimesOut, ServerEnds,
           CommitUnanswered, WorkFails, WorkRetries, RollsBack
  <2> QED
    BY <1>1, <2>1 DEF Moves
<1>2. CASE Apply(e) /\ (Commit(e) \/ ServerEnds(e))
  <2>1. marked[e] /\ Open(e)
    BY <1>2 DEF Commit, ServerEnds, Apply, Marks, Open
  <2>2. job[e[1]] = "running"
    BY <2>1 DEF Locks, IsLatest
  <2> QED
    BY <1>2, <2>2, ExecutionPairs DEF Apply
<1>3. CASE ServerEnds(e) /\ ~Apply(e)
  BY <1>3 DEF ServerEnds
<1>4. CASE Report(e)
  BY <1>4 DEF Report
<1>5. CASE TimesOut(e)
  BY <1>5 DEF TimesOut
<1> QED
  BY <1>1, <1>2, <1>3, <1>4, <1>5, Moving DEF EStep, Advance, Commit

LEMMA AskStep ==
    ASSUME Types, WorkInvariant, AskInvariant, [Next]_vars, invalidArgs' = invalidArgs
    PROVE  AskInvariant'
<1> USE DEF Types, AskInvariant, EnqueuedWithItsTransaction
<1>1. CASE asked' = asked /\ \A j \in Job : job'[j] = job[j] \/ job[j] # "absent"
  BY <1>1
<1>2. ASSUME NEW j \in Job, Ask(j) \/ Enqueue(j)
      PROVE  AskInvariant'
  BY <1>2 DEF Ask, Enqueue
<1>3. ASSUME NEW j \in Job, AskEnds(j)
      PROVE  AskInvariant'
  <2>1. CASE asked' = [asked EXCEPT ![j] = "ended"] /\ job' = job
    BY <1>3, <2>1 DEF AskEnds
  <2>2. CASE asked' = [asked EXCEPT ![j] = "committed"]
    <3>1. /\ job'[j] = IF asked[j] = "inserted" /\ job[j] = "absent" THEN "available" ELSE job[j]
          /\ \A k \in Job \ {j} : job'[k] = job[k]
      BY <1>3, <2>2 DEF AskEnds
    <3>2. job'[j] = "available" => asked[j] = "inserted" \/ job'[j] = job[j]
      BY <3>1
    <3> QED
      BY <1>3, <2>2, <3>1, <3>2 DEF AskEnds
  <2> QED
    BY <1>3, <2>1, <2>2 DEF AskEnds
<1>4. ASSUME NEW j \in Job, PeriodicJobs(j)
      PROVE  AskInvariant'
  BY <1>4 DEF PeriodicJobs
<1>5. ASSUME NEW j \in Job, Fetch(j) \/ Rescue(j)
      PROVE  AskInvariant'
  BY <1>1, <1>5 DEF Fetch, Rescue
<1>6. CASE PStep
  BY <1>1, <1>6 DEF PStep, StopStep, Crash, Exit, Dies, SoftStopTimesOut, Stop, SoftStopFails,
     HardStopFails, SoftStopSucceeds, HardStopSucceeds, HardStopTimesOut, Restart, jobvars
<1>7. CASE UNCHANGED vars
  BY <1>1, <1>7 DEF vars, jobvars
<1> QED
  BY <1>1, <1>2, <1>3, <1>4, <1>5, <1>6, <1>7, Steps, AttemptsLeaveAsking DEF JStep

(* What a job has left on a session stays a timeout some job has set.      *)
LEMMA LeftStays ==
    ASSUME Types, [Next]_vars
    PROVE  Left \subseteq Left'
<1>1. \A j \in Job : worked[j] \in Nat /\ (worked'[j] = worked[j] \/ worked'[j] = worked[j] + 1)
  <2> USE DEF Types, jobvars
  <2>1. ASSUME NEW e \in Execution, EStep(e)
        PROVE  worked' = worked \/ worked' = [worked EXCEPT ![e[1]] = @ + 1]
    BY <2>1 DEF EStep, Advance, ValidateArgs, Begin, SetTimeouts, Handle, RecordOutput,
           JobCompleteTx, Commit, Apply, Report, GivesUp, HeedlessReturns, TimesOut, ServerEnds,
           CommitUnanswered, WorkFails, WorkRetries, RollsBack
  <2>2. ASSUME NEW j \in Job, JStep(j)
        PROVE  worked' = worked
    BY <2>2 DEF JStep, Ask, Enqueue, AskEnds, PeriodicJobs, Fetch, Rescue
  <2>3. CASE PStep
    BY <2>3 DEF PStep, StopStep, Crash, Exit, Dies, SoftStopTimesOut, Stop, SoftStopFails,
       HardStopFails, SoftStopSucceeds, HardStopSucceeds, HardStopTimesOut, Restart
  <2>4. CASE UNCHANGED vars
    BY <2>4 DEF vars
  <2> QED
    BY <2>1, <2>2, <2>3, <2>4, Steps
<1> QED
  BY <1>1 DEF Left

LEMMA AttemptTimers ==
    ASSUME Types, TimerInvariant, Left \subseteq Left', NEW e \in Execution, EStep(e)
    PROVE  TimerInvariant'
<1> USE DEF Types, TimerInvariant, Limited, jobvars, runvars, txvars
<1>1. CASE ValidateArgs(e)
  BY <1>1 DEF ValidateArgs, Goto, Fail
<1>2. CASE Handle(e)
  BY <1>2 DEF Handle, Goto
<1>3. CASE RecordOutput(e)
  BY <1>3 DEF RecordOutput, Goto
<1>4. CASE JobCompleteTx(e)
  BY <1>4 DEF JobCompleteTx, Goto
<1>5. CASE Report(e)
  BY <1>5 DEF Report, Goto
<1>6. CASE HeedlessReturns(e)
  BY <1>6 DEF HeedlessReturns, Goto
<1>7. CASE TimesOut(e)
  BY <1>7 DEF TimesOut
<1>8. CASE ServerEnds(e)
  BY <1>8 DEF ServerEnds
<1>9. CASE WorkRetries(e)
  BY <1>9 DEF WorkRetries, Goto
<1>10. CASE Begin(e)
  BY <1>10 DEF Begin, Goto
<1>11. CASE SetTimeouts(e)
  <2>1. /\ pc[e] = "arm" /\ pc' = [pc EXCEPT ![e] = "handler"] /\ session' = session
        /\ armed' = [armed EXCEPT ![e] = IF armed[e] = 0 THEN Timeout[e[1]] ELSE armed[e]]
    BY <1>11 DEF SetTimeouts, ArmedBy, Goto
  <2>2. armed'[e] = Timeout[e[1]] \/ armed'[e] \in Left
    BY <2>1
  <2> QED
    BY <2>1, <2>2
<1>12. CASE Commit(e)
  <2>1. /\ armed' = armed /\ pc' = [pc EXCEPT ![e] = "report"]
        /\ worked' = [worked EXCEPT ![e[1]] = @ + 1]
        /\ session' = [session EXCEPT ![on[e]] = IF Timeout[e[1]] = 0 THEN @ ELSE Timeout[e[1]]]
    BY <1>12 DEF Commit, Apply, Goto
  <2>2. Timeout[e[1]] # 0 => Timeout[e[1]] \in Left'
    <3>1. e[1] \in Job /\ worked'[e[1]] > 0
      BY <2>1, ExecutionPairs
    <3> QED
      BY <3>1 DEF Left
  <2>3. \A x \in Conn : session'[x] = session[x] \/ (Timeout[e[1]] # 0 /\ session'[x] = Timeout[e[1]])
    BY <2>1
  <2> QED
    BY <2>1, <2>2, <2>3
<1>13. CASE CommitUnanswered(e)
  <2>1. /\ armed' = armed /\ pc' = [pc EXCEPT ![e] = "report"]
        /\ \A x \in Conn : session'[x] \in {session[x], 0}
    BY <1>13 DEF CommitUnanswered, Fail, Replaced
  <2> QED
    BY <2>1
<1>14. CASE \E f \in {"error", "cancel"} : RollsBack(e, f)
  <2>1. /\ armed' = armed /\ pc' = [pc EXCEPT ![e] = "report"]
        /\ \A x \in Conn : session'[x] \in {session[x], 0}
    BY <1>14 DEF RollsBack, Fail, Replaced
  <2> QED
    BY <2>1
<1> QED
  BY <1>1, <1>2, <1>3, <1>4, <1>5, <1>6, <1>7, <1>8, <1>9, <1>10, <1>11, <1>12, <1>13, <1>14
     DEF EStep, Advance, GivesUp, WorkFails

LEMMA TimerStep ==
    ASSUME Types, TimerInvariant, [Next]_vars
    PROVE  TimerInvariant'
<1> USE LeftStays DEF Types, TimerInvariant, Limited, jobvars, runvars, txvars
<1>1. ASSUME NEW e \in Execution, EStep(e)
      PROVE  TimerInvariant'
  BY <1>1, AttemptTimers
<1>2. ASSUME NEW j \in Job, Fetch(j)
      PROVE  TimerInvariant'
  BY <1>2 DEF Fetch
<1>3. ASSUME NEW j \in Job,
             Ask(j) \/ Enqueue(j) \/ AskEnds(j) \/ PeriodicJobs(j) \/ Rescue(j)
      PROVE  TimerInvariant'
  BY <1>3 DEF Ask, Enqueue, AskEnds, PeriodicJobs, Rescue
<1>4. CASE Crash \/ Exit
  BY <1>4 DEF Crash, Exit, Dies
<1>5. CASE PStep /\ ~(Crash \/ Exit)
  BY <1>5 DEF PStep, StopStep, SoftStopTimesOut, Stop, SoftStopFails, HardStopFails,
              SoftStopSucceeds, HardStopSucceeds, HardStopTimesOut, Restart
<1>6. CASE UNCHANGED vars
  BY <1>6 DEF vars
<1> QED
  BY <1>1, <1>2, <1>3, <1>4, <1>5, <1>6, Steps DEF JStep

(* A process that has stopped, or stops hard, starts nothing anew.         *)
LEMMA StopStepKeeps ==
    ASSUME Types, StopInvariant, [Next]_vars
    PROVE  StopInvariant'
<1> USE DEF Types, StopInvariant, StoppedMeansIdle, Running
<1>1. ASSUME phase' = phase,
             \A e \in Execution : /\ pc'[e] \in Active => pc[e] \in Active
                                  /\ over[e] => over'[e]
      PROVE  StopInvariant'
  BY <1>1
<1>2. ASSUME NEW e \in Execution, EStep(e)
      PROVE  StopInvariant'
  <2>1. phase' = phase /\ (over' = over \/ over' = [over EXCEPT ![e] = TRUE])
    BY <1>2 DEF EStep, Advance, ValidateArgs, Begin, SetTimeouts, Handle, RecordOutput, Goto, Fail,
           JobCompleteTx, Commit, Report, GivesUp, HeedlessReturns, TimesOut, ServerEnds, runvars,
           CommitUnanswered, WorkFails, WorkRetries, RollsBack
  <2>2. \A f \in Execution : pc'[f] \in Active => pc[f] \in Active
    BY <1>2 DEF EStep, Advance, ValidateArgs, Begin, SetTimeouts, Handle, RecordOutput, Goto, Fail,
           JobCompleteTx, Commit, Report, GivesUp, HeedlessReturns, TimesOut, ServerEnds, runvars,
           CommitUnanswered, WorkFails, WorkRetries, RollsBack, Active, Transacting
  <2> QED
    BY <1>1, <2>1, <2>2
<1>3. ASSUME NEW j \in Job, Fetch(j)
      PROVE  StopInvariant'
  BY <1>3 DEF Fetch
<1>4. ASSUME NEW j \in Job,
             Ask(j) \/ Enqueue(j) \/ AskEnds(j) \/ PeriodicJobs(j) \/ Rescue(j)
      PROVE  StopInvariant'
  BY <1>1, <1>4 DEF Ask, Enqueue, AskEnds, PeriodicJobs, Rescue, runvars
<1>5. CASE PStep
  BY <1>5 DEF PStep, StopStep, Crash, Exit, Dies, SoftStopTimesOut, CancelsAll, Stop,
     SoftStopFails, HardStopFails, SoftStopSucceeds, HardStopSucceeds, HardStopTimesOut,
     Restart, runvars
<1>6. CASE UNCHANGED vars
  BY <1>1, <1>6 DEF vars, runvars
<1> QED
  BY <1>2, <1>3, <1>4, <1>5, <1>6, Steps DEF JStep
-----------------------------------------------------------------------------
IInv == TypeOK /\ WorkInvariant /\ AskInvariant /\ TimerInvariant /\ StopInvariant

LEMMA TypesAre == TypeOK <=> Types /\ invalidArgs \subseteq MayBeInvalid /\ faults \in 0 .. MaxFaults
BY DEF TypeOK, Types

LEMMA InductiveInit == Init => IInv
<1> SUFFICES ASSUME Init PROVE IInv
  OBVIOUS
<1>1. Types /\ WorkInvariant
  BY WorkInit
<1>2. TypeOK
  BY <1>1, TypesAre DEF Init
<1>3. AskInvariant /\ TimerInvariant /\ StopInvariant
  BY DEF Init, AskInvariant, EnqueuedWithItsTransaction, TimerInvariant, Limited, StopInvariant,
         StoppedMeansIdle
<1> QED
  BY <1>1, <1>2, <1>3 DEF IInv

LEMMA InductiveStep == IInv /\ [Next]_vars => IInv'
<1> SUFFICES ASSUME IInv, [Next]_vars PROVE IInv'
  OBVIOUS
<1>1. Types /\ invalidArgs \subseteq MayBeInvalid /\ faults \in 0 .. MaxFaults
  BY TypesAre DEF IInv
<1>2. invalidArgs' = invalidArgs /\ faults' \in 0 .. MaxFaults
  BY <1>1, OtherSteps
<1>3. Types' /\ WorkInvariant'
  BY <1>1, WorkStep DEF IInv
<1>4. TypeOK'
  BY <1>1, <1>2, <1>3 DEF TypeOK, Types
<1>5. AskInvariant'
  BY <1>1, <1>2, AskStep DEF IInv
<1>6. TimerInvariant' /\ StopInvariant'
  BY <1>1, TimerStep, StopStepKeeps DEF IInv
<1> QED
  BY <1>3, <1>4, <1>5, <1>6 DEF IInv

LEMMA Inductive == Spec => []IInv
<1> QED
  BY InductiveInit, InductiveStep, PTL DEF Spec

(* Types of the rows, attempts, transactions and sessions.                 *)
THEOREM TypeCorrect == Spec => []TypeOK
<1>1. IInv => TypeOK
  BY DEF IInv
<1> QED
  BY <1>1, Inductive, PTL

(* TransactWorker commits a job's work exactly with its completion         *)
(* (transact_worker.go:74).                                                *)
THEOREM WorkIsCompletion == Spec => []WorkedExactlyWhenCompleted
<1>1. IInv => WorkedExactlyWhenCompleted
  BY DEF IInv, WorkInvariant
<1> QED
  BY <1>1, Inductive, PTL

(* A job of the enqueuer exists only by a transaction that committed, with *)
(* arguments that validate (enqueuer.go:26).                               *)
THEOREM JobsAreAskedFor == Spec => []EnqueuedWithItsTransaction
<1>1. IInv => EnqueuedWithItsTransaction
  BY DEF IInv, AskInvariant
<1> QED
  BY <1>1, Inductive, PTL

(* Work under a timeout never runs without a transaction_timeout, although *)
(* it may be another job's (transact_worker.go:51).                        *)
THEOREM WorkIsLimited == Spec => []LimitedInTime
<1>1. IInv => LimitedInTime
  BY ExecutionPairs DEF IInv, TimerInvariant, Limited, Left, LimitedInTime
<1> QED
  BY <1>1, Inductive, PTL

(* A stop that reports success has left no attempt running (work.go:131).  *)
THEOREM StopsAreClean == Spec => []StoppedMeansIdle
<1>1. IInv => StoppedMeansIdle
  BY DEF IInv, StopInvariant
<1> QED
  BY <1>1, Inductive, PTL
=============================================================================
