------------------------------ MODULE SszDecode ------------------------------
(***************************************************************************)
(* The SSZ decoders of core/src/stateless.cpp.                             *)
(*                                                                         *)
(* A byte span is described by its length and by the values the decoder    *)
(* reads out of it (offsets, list entries, scalar fields); the bytes       *)
(* between those reads are one opaque value.  An offset is a u32, so a     *)
(* difference of offsets the code has not compared wraps modulo U32Mod.    *)
(*                                                                         *)
(* A decoder never throws: it returns a record with a `valid' flag (chain  *)
(* config, whole input), with a shape (payload), or an empty value.        *)
(***************************************************************************)
EXTENDS Integers, Sequences

CONSTANTS
    U32Mod,     \* 2^32, the modulus of read_u32le arithmetic
    ZeroHash,   \* 32 zero bytes: a hash, or a root
    NoBytes,    \* a zero-length byte string
    NoItems     \* the execution requests of five empty lists

ASSUME U32ModAssumption == U32Mod \in Nat /\ U32Mod > 0

U32(x) == x % U32Mod

SCHEMA_ID_SIZE        == 2
STATELESS_INPUT_FIXED == 16
NPR_FIXED             == 44
WITNESS_FIXED         == 12
CHAIN_CONFIG_FIXED    == 12
FORK_CONFIG_FIXED     == 16
PAYLOAD_V3_FIXED      == 528
PAYLOAD_V4_FIXED      == 540
EXEC_REQ_FIXED        == 12
EXEC_REQ_V2_FIXED     == 20
PUBLIC_KEY_BYTES      == 65

FORK_PRAGUE    == 17
FORK_OSAKA     == 18
FORK_BPO1      == 19
FORK_BPO2      == 20
FORK_AMSTERDAM == 24

Schemas == {"Legacy0001", "Amsterdam01", "Unknown"}
Shapes  == {"ElectraFulu", "Gloas", "Unsupported"}

-----------------------------------------------------------------------------
(***************************************************************************)
(* A list of byte lists: l.first is the first entry of the offset table,   *)
(* l.items the byte strings the table delimits.                            *)
(***************************************************************************)
DecodeByteListList(l) ==
    IF l.len >= 4 /\ l.first % 4 = 0 /\ l.first <= l.len
    THEN SubSeq(l.items, 1, l.first \div 4)
    ELSE << >>

-----------------------------------------------------------------------------
(***************************************************************************)
(* Chain configuration.  A span [len, at] holds in `at' the values found   *)
(* at the positions the decoders read; each schema reads a subset.         *)
(* ForkActivation is common to both: two offsets, then zero or one u64 per *)
(* list, so each list is 0 or 8 bytes long.                                *)
(***************************************************************************)
ConfigFields ==
    [offFc: Nat, fork: Nat, offAct: Nat, offBs: Nat,
     offBn: Nat, offTs: Nat, bn: Nat, ts: Nat]

ConfigSpan == [len: Nat, at: ConfigFields]

LegacyActLen(s)      == s.at.offBs - s.at.offAct
Amsterdam01ActLen(s) == (s.len - s.at.offFc) - s.at.offAct

ActivationDecodes(actLen, at) ==
    /\ actLen >= 8
    /\ at.offBn = 8
    /\ at.offTs >= at.offBn
    /\ at.offTs <= actLen
    /\ at.offTs - at.offBn \in {0, 8}
    /\ actLen - at.offTs \in {0, 8}

\* decode_chain_config up to the ForkActivation slice.
LegacyForkConfigFits(s) ==
    /\ s.len >= CHAIN_CONFIG_FIXED
    /\ s.at.offFc = CHAIN_CONFIG_FIXED
    /\ s.len >= s.at.offFc + FORK_CONFIG_FIXED

\* Mistake: off_bs is not compared with the length of the fork config.
LegacyActivationUnbounded(s) ==
    /\ LegacyForkConfigFits(s)
    /\ s.at.offAct = FORK_CONFIG_FIXED
    /\ s.at.offBs >= s.at.offAct

LegacyActivationFits(s) ==
    /\ LegacyForkConfigFits(s)
    /\ s.at.offAct = FORK_CONFIG_FIXED
    /\ s.at.offBs >= s.at.offAct
    /\ s.at.offBs <= s.len - s.at.offFc

\* Mistake: a blob schedule of any length is taken.
LegacyConfigAnyBlob(s) ==
    /\ LegacyActivationFits(s)
    /\ ActivationDecodes(LegacyActLen(s), s.at)

LegacyConfigDecodes(s) ==
    /\ LegacyActivationFits(s)
    /\ ActivationDecodes(LegacyActLen(s), s.at)
    /\ (s.len - s.at.offFc) - s.at.offBs \in {0, 24}

\* decode_chain_config_amsterdam01: no fork field, no blob schedule.
Amsterdam01ActivationFits(s) ==
    /\ s.len >= CHAIN_CONFIG_FIXED
    /\ s.at.offFc = CHAIN_CONFIG_FIXED
    /\ s.len >= s.at.offFc + 4
    /\ s.at.offAct = 4

Amsterdam01ConfigDecodes(s) ==
    /\ Amsterdam01ActivationFits(s)
    /\ ActivationDecodes(Amsterdam01ActLen(s), s.at)

\* The activation values a decoded config carries.
DecodedConfig(s, actLen, fork, valid) ==
    [valid |-> valid, raw |-> s, fork |-> fork,
     hasBn |-> s.at.offTs - s.at.offBn = 8, bn |-> s.at.bn,
     hasTs |-> actLen - s.at.offTs = 8,     ts |-> s.at.ts]

DecodeChainConfig(s) ==
    DecodedConfig(s, LegacyActLen(s), s.at.fork, LegacyConfigDecodes(s))

DecodeChainConfigAmsterdam01(s) ==
    DecodedConfig(s, Amsterdam01ActLen(s), FORK_AMSTERDAM,
                  Amsterdam01ConfigDecodes(s))

(***************************************************************************)
(* The reads <<position, width>> the two decoders perform on a span, each  *)
(* one under the checks that precede it in the source.                     *)
(***************************************************************************)
ActivationReads(base, actLen, at) ==
    (IF actLen >= 8 THEN {<<base, 4>>, <<base + 4, 4>>} ELSE {}) \cup
    (IF ActivationDecodes(actLen, at) /\ at.offTs - at.offBn = 8
     THEN {<<base + at.offBn, 8>>} ELSE {}) \cup
    (IF ActivationDecodes(actLen, at) /\ actLen - at.offTs = 8
     THEN {<<base + at.offTs, 8>>} ELSE {})

LegacyConfigReads(s) ==
    (IF s.len >= CHAIN_CONFIG_FIXED THEN {<<0, 8>>, <<8, 4>>} ELSE {}) \cup
    (IF LegacyForkConfigFits(s)
     THEN {<<s.at.offFc, 8>>, <<s.at.offFc + 8, 4>>, <<s.at.offFc + 12, 4>>}
     ELSE {}) \cup
    (IF LegacyActivationFits(s)
     THEN ActivationReads(s.at.offFc + s.at.offAct, LegacyActLen(s), s.at)
     ELSE {}) \cup
    (IF LegacyConfigDecodes(s) /\ (s.len - s.at.offFc) - s.at.offBs = 24
     THEN {<<s.at.offFc + s.at.offBs, 24>>} ELSE {})

Amsterdam01ConfigReads(s) ==
    (IF s.len >= CHAIN_CONFIG_FIXED THEN {<<0, 8>>, <<8, 4>>} ELSE {}) \cup
    (IF s.at.offFc = CHAIN_CONFIG_FIXED /\ s.len >= s.at.offFc + 4
     THEN {<<s.at.offFc, 4>>} ELSE {}) \cup
    (IF Amsterdam01ActivationFits(s)
     THEN ActivationReads(s.at.offFc + s.at.offAct, Amsterdam01ActLen(s), s.at)
     ELSE {})

-----------------------------------------------------------------------------
(***************************************************************************)
(* The new-payload request.  npr = [offPayload, offHashes, offEr, payload, *)
(* requests]; the payload carries the fields the guest looks at, and       *)
(* `rest' for all the others.                                              *)
(***************************************************************************)
PayloadShapeForFork(fork) ==
    IF fork \in {FORK_PRAGUE, FORK_OSAKA, FORK_BPO1, FORK_BPO2}
    THEN "ElectraFulu"
    ELSE IF fork = FORK_AMSTERDAM THEN "Gloas" ELSE "Unsupported"

PayloadFixed(shape) ==
    IF shape = "Gloas" THEN PAYLOAD_V4_FIXED ELSE PAYLOAD_V3_FIXED

ExecReqFixed(builderRequests) ==
    IF builderRequests THEN EXEC_REQ_V2_FIXED ELSE EXEC_REQ_FIXED

\* A value-initialised SszExecutionPayload: every field zero, and the
\* enumerator zero of PayloadShape is ElectraFulu.
ZeroPayload(shape) ==
    [shape |-> shape, parentHash |-> ZeroHash, number |-> 0, timestamp |-> 0,
     stateRoot |-> ZeroHash, txs |-> << >>, rest |-> NoBytes]

DecodeExecutionPayload(p, len, shape) ==
    IF len < PayloadFixed(shape)
    THEN ZeroPayload("Unsupported")
    ELSE [shape |-> shape, parentHash |-> p.parentHash, number |-> p.number,
          timestamp |-> p.timestamp, stateRoot |-> p.stateRoot,
          txs |-> DecodeByteListList(p.txs), rest |-> p.rest]

\* The lists of whole items, and whether some list ends in bytes that do not
\* make a whole item: those stay in the raw_* spans, not in the vectors.
DecodeExecutionRequests(er, len, builderRequests) ==
    IF len < ExecReqFixed(builderRequests)
    THEN [items |-> NoItems, trailing |-> FALSE, builder |-> builderRequests]
    ELSE [items |-> er.items, trailing |-> er.trailing,
          builder |-> builderRequests]

DecodeNewPayloadRequest(npr, len, shape, builderRequests) ==
    IF len < NPR_FIXED
    THEN [payload  |-> ZeroPayload("ElectraFulu"),
          requests |-> [items |-> NoItems, trailing |-> FALSE,
                        builder |-> FALSE]]
    ELSE [payload  |-> DecodeExecutionPayload(
                           npr.payload, U32(npr.offHashes - npr.offPayload),
                           shape),
          requests |-> DecodeExecutionRequests(
                           npr.requests, U32(U32(len) - npr.offEr),
                           builderRequests)]

\* Witness: a span shorter than its three offsets is an empty witness.
DecodeWitness(wit, len) ==
    IF len < WITNESS_FIXED
    THEN [nodes |-> << >>, headers |-> << >>]
    ELSE [nodes   |-> DecodeByteListList(wit.nodes),
          headers |-> DecodeByteListList(wit.headers)]

-----------------------------------------------------------------------------
(***************************************************************************)
(* The whole input w, after its schema id:                                 *)
(*   [len, schema, offNpr, offWit, offCc, offPk, cc, npr, wit].            *)
(* w.len counts the two bytes of the schema id.                            *)
(***************************************************************************)
BodyLen(w)  == w.len - SCHEMA_ID_SIZE
Total(w)    == U32(BodyLen(w))

OffsetsOrdered(w) ==
    /\ BodyLen(w) >= STATELESS_INPUT_FIXED
    /\ w.offNpr = STATELESS_INPUT_FIXED
    /\ w.offWit >= w.offNpr
    /\ w.offCc >= w.offWit
    /\ w.offPk >= w.offCc
    /\ w.offPk <= Total(w)

ConfigSlice(w) == [len |-> w.offPk - w.offCc, at |-> w.cc]

\* decode_stateless_input (0x0001): the fork of the chain config selects the
\* payload shape; public keys are a list of byte lists and always decode.
DecodeStatelessInput(w) ==
    LET cfg   == DecodeChainConfig(ConfigSlice(w))
        shape == PayloadShapeForFork(cfg.fork)
        req   == DecodeNewPayloadRequest(w.npr, w.offWit - w.offNpr, shape,
                                         FALSE)
    IN  [valid   |-> /\ OffsetsOrdered(w)
                     /\ cfg.valid
                     /\ shape # "Unsupported"
                     /\ req.payload.shape # "Unsupported",
         schema  |-> "Legacy0001",
         config  |-> cfg,
         request |-> req,
         witness |-> DecodeWitness(w.wit, w.offCc - w.offWit)]

\* decode_stateless_input_amsterdam01 (0x1501): fixed payload shape, five
\* request lists, public keys a list of 65-byte vectors.
DecodeStatelessInputAmsterdam01(w) ==
    LET cfg == DecodeChainConfigAmsterdam01(ConfigSlice(w))
        req == DecodeNewPayloadRequest(w.npr, w.offWit - w.offNpr, "Gloas",
                                       TRUE)
    IN  [valid   |-> /\ OffsetsOrdered(w)
                     /\ cfg.valid
                     /\ req.payload.shape # "Unsupported"
                     /\ (Total(w) - w.offPk) % PUBLIC_KEY_BYTES = 0,
         schema  |-> "Amsterdam01",
         config  |-> cfg,
         request |-> req,
         witness |-> DecodeWitness(w.wit, w.offCc - w.offWit)]

\* The top-level slices [first, last) the two decoders hand out.
InputSlices(w) ==
    IF ~ OffsetsOrdered(w) THEN {}
    ELSE {<<w.offNpr, w.offWit>>, <<w.offWit, w.offCc>>,
          <<w.offCc, w.offPk>>, <<w.offPk, Total(w)>>}

-----------------------------------------------------------------------------
(***************************************************************************)
(* The chain configs of the default failure outputs (stateless.cpp:608-648)*)
(***************************************************************************)
DefaultChainConfig ==
    [len |-> 36,
     at  |-> [offFc |-> 12, fork |-> 0, offAct |-> 16, offBs |-> 24,
              offBn |-> 8, offTs |-> 8, bn |-> 0, ts |-> 0]]

DefaultChainConfigAmsterdam ==
    [len |-> 24,
     at  |-> [offFc |-> 12, fork |-> 0, offAct |-> 4, offBs |-> 0,
              offBn |-> 8, offTs |-> 8, bn |-> 0, ts |-> 0]]
=============================================================================
