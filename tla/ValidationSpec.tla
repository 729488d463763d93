---------------------------- MODULE ValidationSpec ----------------------------
(***************************************************************************)
(* What the stateless guest has to answer for an input, as one expression: *)
(* Verdict(w).  Nothing here has state; StatelessGuest is the step-by-step *)
(* program and is shown to compute this verdict.                           *)
(*                                                                         *)
(* Outside src/ and therefore symbolic:                                    *)
(*   keccak256   is collision free, so a non-empty header preimage is its  *)
(*               own hash (KeccakOf);                                      *)
(*   RLP         Header[b] is what silkworm::rlp::decode makes of b; only  *)
(*               the canonical encoding of a header decodes, so that its   *)
(*               header.hash() is the keccak of b;                         *)
(*   SSZ roots   HtrNewPayloadRequest(r) is the tuple of what is hashed;   *)
(*   MPT         PostRoot(base, delta) is the root of the trie `base' with *)
(*               the updates `delta' applied;                              *)
(*   execution   Execution(base, rules, payload, witness) is the outcome   *)
(*               of running the block on the state with root `base'.       *)
(***************************************************************************)
EXTENDS SszDecode

CONSTANTS
    HeaderBytes,            \* non-empty header preimages
    Header,                 \* [HeaderBytes -> [ok, parent, number, root]]
    TxBytes,                \* transaction byte strings
    DecodableTx,            \* those silkworm can decode
    Execution(_, _, _, _),  \* [ok, delta, items]
    Wires,                  \* the inputs considered
    MAX_WITNESS_HEADERS,    \* 256
    MAX_PUBLIC_VALUES_SIZE  \* 256

\* keccak never yields zero, and RLP decoding is a function of the bytes.
ASSUME HeaderAssumption ==
    /\ NoBytes \notin HeaderBytes
    /\ ZeroHash \notin HeaderBytes
    /\ \A b \in HeaderBytes : Header[b].ok \in BOOLEAN /\ Header[b].number \in Nat

ASSUME TxAssumption == DecodableTx \subseteq TxBytes

ASSUME LimitsAssumption ==
    /\ MAX_WITNESS_HEADERS \in Nat
    /\ MAX_PUBLIC_VALUES_SIZE \in Nat
    /\ MAX_PUBLIC_VALUES_SIZE >= 37 + 76

(***************************************************************************)
(* The inputs: what a wire record holds, whatever the bytes are.           *)
(***************************************************************************)
IsByteList(l, S) ==
    /\ l.len \in Nat
    /\ l.first \in Nat
    /\ l.items \in Seq(S)
    /\ l.first <= l.len => l.first \div 4 <= Len(l.items)

IsPayload(p) ==
    /\ p.number \in Nat
    /\ p.timestamp \in Nat
    /\ IsByteList(p.txs, TxBytes)

IsRequest(npr) ==
    /\ npr.offPayload \in Nat
    /\ npr.offHashes \in Nat
    /\ npr.offEr \in Nat
    /\ npr.requests.trailing \in BOOLEAN
    /\ IsPayload(npr.payload)

IsWire(w) ==
    /\ w.len \in Nat
    /\ w.schema \in Schemas
    /\ w.offNpr \in Nat
    /\ w.offWit \in Nat
    /\ w.offCc \in Nat
    /\ w.offPk \in Nat
    /\ w.cc \in ConfigFields
    /\ IsRequest(w.npr)
    /\ IsByteList(w.wit.headers, HeaderBytes \cup {NoBytes})

ASSUME WiresAssumption == \A w \in Wires : IsWire(w)

-----------------------------------------------------------------------------
KeccakOf(b)           == IF b = NoBytes THEN ZeroHash ELSE b
PostRoot(base, delta) == <<base, delta>>

\* What hash_tree_root of the request binds: not the raw request spans.
HtrNewPayloadRequest(r) == <<r.payload, r.requests.items, r.requests.builder>>

DefaultFailure(schema) ==
    [root    |-> ZeroHash,
     success |-> FALSE,
     config  |-> IF schema = "Legacy0001" THEN DefaultChainConfig
                 ELSE DefaultChainConfigAmsterdam]

\* encode_public_values: root[32], success[1], offset[4], chain config.
ENCODED_FIXED      == 37
EncodedLen(result) == ENCODED_FIXED + result.config.len

-----------------------------------------------------------------------------
(***************************************************************************)
(* The reference the verdict is made of.                                   *)
(***************************************************************************)

\* The execution rules of a fork under each schema: silkworm's name of every
\* time switch that is on from genesis, Prague and older being always on.
SpecRules(schema, fork) ==
    CASE fork = FORK_PRAGUE -> {}
      [] fork = FORK_OSAKA  -> {"osaka"}
      [] fork = FORK_BPO1   -> {"osaka", "bpo1"}
      [] fork = FORK_BPO2   -> {"osaka", "bpo1", "bpo2"}
      [] fork = FORK_AMSTERDAM /\ schema = "Legacy0001" ->
             {"osaka", "bpo1", "bpo2", "bpo3", "bpo4"}
      [] OTHER -> {"osaka", "bpo1", "bpo2", "amsterdam"}

\* The activation point of the fork is stated and the payload has reached it.
ForkIsActive(cfg, payload) ==
    /\ cfg.hasBn \/ cfg.hasTs
    /\ cfg.hasBn => cfg.bn <= payload.number
    /\ cfg.hasTs => cfg.ts <= payload.timestamp

\* Each non-empty header names the entry before it as its parent.
HeadersLinked(headers) ==
    \A i \in 2..Len(headers) :
        headers[i] # NoBytes =>
            /\ Header[headers[i]].ok
            /\ Header[headers[i]].parent = KeccakOf(headers[i - 1])

IsParent(b, payload) ==
    /\ b # NoBytes
    /\ Header[b].ok
    /\ b = payload.parentHash
    /\ Header[b].number + 1 = payload.number

\* The payload is the block that executing it on the parent's state yields.
ValidTransition(si) ==
    \E i \in 1..Len(si.witness.headers) :
        LET b == si.witness.headers[i]
            p == si.request.payload
            e == Execution(Header[b].root,
                           SpecRules(si.schema, si.config.fork),
                           p, si.witness)
        IN  /\ IsParent(b, p)
            /\ e.ok
            /\ p.stateRoot = PostRoot(Header[b].root, e.delta)
            /\ si.schema = "Amsterdam01" =>
                   /\ e.items = si.request.requests.items
                   /\ ~ si.request.requests.trailing

Accepts(si) ==
    /\ ForkIsActive(si.config, si.request.payload)
    /\ Len(si.witness.headers) <= MAX_WITNESS_HEADERS
    /\ HeadersLinked(si.witness.headers)
    /\ \A i \in 1..Len(si.request.payload.txs) :
           si.request.payload.txs[i] \in DecodableTx
    /\ ValidTransition(si)

DecodeBySchema(w) ==
    IF w.schema = "Legacy0001" THEN DecodeStatelessInput(w)
    ELSE DecodeStatelessInputAmsterdam01(w)

IsKnownSchema(w) ==
    w.len >= SCHEMA_ID_SIZE /\ w.schema \in {"Legacy0001", "Amsterdam01"}

Decodes(w) == IsKnownSchema(w) /\ DecodeBySchema(w).valid

Verdict(w) ==
    IF ~ IsKnownSchema(w) THEN DefaultFailure("Unknown")
    ELSE IF ~ DecodeBySchema(w).valid THEN DefaultFailure(w.schema)
    ELSE [root    |-> HtrNewPayloadRequest(DecodeBySchema(w).request),
          success |-> Accepts(DecodeBySchema(w)),
          config  |-> ConfigSlice(w)]
=============================================================================
