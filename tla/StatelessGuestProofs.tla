------------------------- MODULE StatelessGuestProofs -------------------------
(***************************************************************************)
(* The decoders read inside the spans they are given, for every input; and *)
(* StatelessGuest computes the verdict: StageInv is inductive, and the     *)
(* safety properties and the implementation of StatelessContract follow.   *)
(***************************************************************************)
EXTENDS StatelessGuest, SequenceTheorems, TLAPS

-----------------------------------------------------------------------------
(***************************************************************************)
(* What the decoders read.                                                 *)
(***************************************************************************)
\* What a chain config weighs when decode_chain_config accepts it: fixed
\* parts, up to two activation values, at most one blob schedule.
LegacyConfigLens == {36, 44, 52, 60, 68, 76}

\* The same for decode_chain_config_amsterdam01.
Amsterdam01ConfigLens == {24, 32, 40}

\* The activation lists fix the length of the ForkActivation container
\* (stateless.cpp:309-316 and 366-373).
LEMMA ActivationLength ==
    ASSUME NEW actLen \in Int, NEW at \in ConfigFields,
           ActivationDecodes(actLen, at)
    PROVE  /\ actLen \in {8, 16, 24}
           /\ at.offBn = 8
           /\ at.offTs \in {8, 16}
  BY DEF ActivationDecodes, ConfigFields

\* A decoded chain config has one of six lengths (decode_chain_config).
LEMMA LegacyConfigLength ==
    ASSUME NEW s, s.len \in Int, s.at \in ConfigFields, LegacyConfigDecodes(s)
    PROVE  s.len \in LegacyConfigLens
<1>1. /\ s.at.offFc = 12
      /\ s.at.offAct = 16
      /\ LegacyActLen(s) = s.at.offBs - 16
      /\ s.at.offBs \in Int
  BY DEF LegacyConfigDecodes, LegacyActivationFits, LegacyForkConfigFits,
         LegacyActLen, CHAIN_CONFIG_FIXED, FORK_CONFIG_FIXED, ConfigFields
<1>2. LegacyActLen(s) \in {8, 16, 24}
  BY <1>1, ActivationLength DEF LegacyConfigDecodes
<1>3. (s.len - 12) - s.at.offBs \in {0, 24}
  BY <1>1 DEF LegacyConfigDecodes
<1>. QED
  BY <1>1, <1>2, <1>3 DEF LegacyConfigLens

\* A decoded Amsterdam01 chain config has one of three lengths.
LEMMA Amsterdam01ConfigLength ==
    ASSUME NEW s, s.len \in Int, s.at \in ConfigFields,
           Amsterdam01ConfigDecodes(s)
    PROVE  s.len \in Amsterdam01ConfigLens
<1>1. s.at.offFc = 12 /\ s.at.offAct = 4
  BY DEF Amsterdam01ConfigDecodes, Amsterdam01ActivationFits,
         CHAIN_CONFIG_FIXED
<1>2. Amsterdam01ActLen(s) = s.len - 16
  BY <1>1 DEF Amsterdam01ActLen
<1>3. Amsterdam01ActLen(s) \in {8, 16, 24}
  BY <1>2, ActivationLength DEF Amsterdam01ConfigDecodes
<1>. QED
  BY <1>2, <1>3 DEF Amsterdam01ConfigLens

-----------------------------------------------------------------------------
\* Whatever the two decoders read of a ForkActivation lies inside it.
LEMMA ActivationReadsInBounds ==
    ASSUME NEW base \in Nat, NEW actLen \in Int, NEW at \in ConfigFields
    PROVE  \A r \in ActivationReads(base, actLen, at) :
             r[1] >= 0 /\ r[1] + r[2] <= base + actLen
  BY DEF ActivationReads, ActivationDecodes, ConfigFields

\* decode_chain_config never reads outside the span it is given, whatever
\* the offsets in it are.
THEOREM LegacyConfigReadsInBounds ==
    ASSUME NEW s, s.len \in Int, s.at \in ConfigFields
    PROVE  \A r \in LegacyConfigReads(s) : r[1] >= 0 /\ r[1] + r[2] <= s.len
<1>. USE DEF CHAIN_CONFIG_FIXED, FORK_CONFIG_FIXED
<1>1. ASSUME LegacyActivationFits(s)
      PROVE  /\ s.at.offFc + s.at.offAct \in Nat
             /\ LegacyActLen(s) \in Int
             /\ (s.at.offFc + s.at.offAct) + LegacyActLen(s) <= s.len
  BY <1>1 DEF LegacyActivationFits, LegacyForkConfigFits, LegacyActLen,
              ConfigFields
<1>2. ASSUME LegacyActivationFits(s),
             NEW r \in ActivationReads(s.at.offFc + s.at.offAct,
                                       LegacyActLen(s), s.at)
      PROVE  r[1] >= 0 /\ r[1] + r[2] <= s.len
  <2>1. r[1] + r[2] <= (s.at.offFc + s.at.offAct) + LegacyActLen(s)
    BY <1>1, <1>2, ActivationReadsInBounds
  <2>2. r[1] \in Int /\ r[2] \in Int
    BY <1>1, <1>2 DEF ActivationReads, ConfigFields
  <2>. QED
    BY <1>1, <1>2, <2>1, <2>2, ActivationReadsInBounds
<1>3. ASSUME LegacyConfigDecodes(s), (s.len - s.at.offFc) - s.at.offBs = 24
      PROVE  /\ s.at.offFc + s.at.offBs >= 0
             /\ (s.at.offFc + s.at.offBs) + 24 <= s.len
  BY <1>3 DEF LegacyConfigDecodes, LegacyActivationFits, LegacyForkConfigFits,
              ConfigFields
<1>. QED
  BY <1>2, <1>3 DEF LegacyConfigReads, LegacyForkConfigFits

\* The same for decode_chain_config_amsterdam01.
THEOREM Amsterdam01ConfigReadsInBounds ==
    ASSUME NEW s, s.len \in Int, s.at \in ConfigFields
    PROVE  \A r \in Amsterdam01ConfigReads(s) :
             r[1] >= 0 /\ r[1] + r[2] <= s.len
<1>. USE DEF CHAIN_CONFIG_FIXED
<1>1. ASSUME Amsterdam01ActivationFits(s)
      PROVE  /\ s.at.offFc + s.at.offAct \in Nat
             /\ Amsterdam01ActLen(s) \in Int
             /\ (s.at.offFc + s.at.offAct) + Amsterdam01ActLen(s) = s.len
  BY <1>1 DEF Amsterdam01ActivationFits, Amsterdam01ActLen, ConfigFields
<1>2. ASSUME Amsterdam01ActivationFits(s),
             NEW r \in ActivationReads(s.at.offFc + s.at.offAct,
                                       Amsterdam01ActLen(s), s.at)
      PROVE  r[1] >= 0 /\ r[1] + r[2] <= s.len
  BY <1>1, <1>2, ActivationReadsInBounds
<1>. QED
  BY <1>2 DEF Amsterdam01ConfigReads

\* The four slices of the top-level input follow one another inside it, also
\* when the input is longer than a u32 can say.
THEOREM InputSlicesInBounds ==
    ASSUME NEW w, w.len \in Nat, w.offNpr \in Nat, w.offWit \in Nat,
           w.offCc \in Nat, w.offPk \in Nat
    PROVE  \A s \in InputSlices(w) :
             0 <= s[1] /\ s[1] <= s[2] /\ s[2] <= BodyLen(w)
<1>1. ASSUME OffsetsOrdered(w)
      PROVE  Total(w) \in Nat /\ Total(w) <= BodyLen(w)
  <2>1. BodyLen(w) \in Nat
    BY <1>1 DEF OffsetsOrdered, BodyLen, STATELESS_INPUT_FIXED, SCHEMA_ID_SIZE
  <2>. QED
    BY <2>1, U32ModAssumption DEF Total, U32
<1>2. CASE ~ OffsetsOrdered(w)
  BY <1>2 DEF InputSlices
<1>3. CASE OffsetsOrdered(w)
  <2>1. /\ w.offNpr <= w.offWit
        /\ w.offWit <= w.offCc
        /\ w.offCc <= w.offPk
        /\ w.offPk <= Total(w)
        /\ BodyLen(w) \in Int
    BY <1>3 DEF OffsetsOrdered, BodyLen, SCHEMA_ID_SIZE
  <2>. QED
    BY <1>1, <1>3, <2>1 DEF InputSlices
<1>. QED
  BY <1>2, <1>3

-----------------------------------------------------------------------------
(***************************************************************************)
(* What decoding hands to the rest of the program.                         *)
(***************************************************************************)

\* A list of byte lists decodes to a sequence of its entries.
LEMMA ByteListType ==
    ASSUME NEW S, NEW l, IsByteList(l, S)
    PROVE  DecodeByteListList(l) \in Seq(S)
<1>1. CASE l.first <= l.len
  <2>1. l.first \div 4 \in Nat /\ l.first \div 4 <= Len(l.items)
    BY <1>1 DEF IsByteList
  <2>2. \A i \in 1..(l.first \div 4) : l.items[i] \in S
    BY <2>1 DEF IsByteList
  <2>3. SubSeq(l.items, 1, l.first \div 4) \in Seq(S)
    BY <2>1, <2>2, SubSeqProperties
  <2>. QED
    BY <2>3 DEF DecodeByteListList
<1>2. CASE ~ (l.first <= l.len)
  BY <1>2 DEF DecodeByteListList
<1>. QED
  BY <1>1, <1>2

\* The fields of the request the checks compare are numbers and sequences.
LEMMA RequestType ==
    ASSUME NEW npr, IsRequest(npr), NEW len, NEW shape,
           NEW builder \in BOOLEAN
    PROVE  LET r == DecodeNewPayloadRequest(npr, len, shape, builder)
           IN  /\ r.payload.number \in Nat
               /\ r.payload.timestamp \in Nat
               /\ r.payload.txs \in Seq(TxBytes)
               /\ r.requests.trailing \in BOOLEAN
               /\ [r.payload EXCEPT !.txs = r.payload.txs] = r.payload
<1>1. DecodeByteListList(npr.payload.txs) \in Seq(TxBytes)
  BY ByteListType DEF IsRequest, IsPayload
<1>2. CASE len < NPR_FIXED
  <2>. DEFINE p == ZeroPayload("ElectraFulu")
  <2>1. /\ p.number \in Nat
        /\ p.timestamp \in Nat
        /\ p.txs \in Seq(TxBytes)
        /\ [p EXCEPT !.txs = p.txs] = p
    BY DEF ZeroPayload
  <2>. QED
    BY <1>2, <2>1 DEF DecodeNewPayloadRequest
<1>3. CASE ~ (len < NPR_FIXED)
  <2>. DEFINE p == DecodeExecutionPayload(
                     npr.payload, U32(npr.offHashes - npr.offPayload), shape)
              q == DecodeExecutionRequests(
                     npr.requests, U32(U32(len) - npr.offEr), builder)
  <2>1. /\ p.number \in Nat
        /\ p.timestamp \in Nat
        /\ p.txs \in Seq(TxBytes)
        /\ [p EXCEPT !.txs = p.txs] = p
    BY <1>1 DEF DecodeExecutionPayload, ZeroPayload, IsRequest, IsPayload
  <2>2. q.trailing \in BOOLEAN
    BY DEF DecodeExecutionRequests, IsRequest
  <2>. QED
    BY <1>3, <2>1, <2>2 DEF DecodeNewPayloadRequest
<1>. QED
  BY <1>2, <1>3

\* The witness headers are a sequence of header preimages and empty entries.
LEMMA HeadersType ==
    ASSUME NEW w, IsWire(w), NEW len
    PROVE  DecodeWitness(w.wit, len).headers
               \in Seq(HeaderBytes \cup {NoBytes})
<1>1. DecodeByteListList(w.wit.headers) \in Seq(HeaderBytes \cup {NoBytes})
  BY ByteListType DEF IsWire
<1>. QED
  BY <1>1 DEF DecodeWitness

\* The decoded input, for both schemas.
LEMMA DecodedType ==
    ASSUME NEW w, IsWire(w)
    PROVE  LET d == DecodeBySchema(w)
           IN  /\ d.witness.headers \in Seq(HeaderBytes \cup {NoBytes})
               /\ d.request.payload.number \in Nat
               /\ d.request.payload.timestamp \in Nat
               /\ d.request.payload.txs \in Seq(TxBytes)
               /\ d.request.requests.trailing \in BOOLEAN
               /\ [d.request.payload EXCEPT !.txs = d.request.payload.txs]
                      = d.request.payload
               /\ d.config.raw = ConfigSlice(w)
               /\ d.config.hasBn \in BOOLEAN
               /\ d.config.hasTs \in BOOLEAN
               /\ d.config.bn \in Nat
               /\ d.config.ts \in Nat
               /\ d.schema \in {"Legacy0001", "Amsterdam01"}
<1>1. IsRequest(w.npr) /\ w.cc \in ConfigFields
  BY DEF IsWire
<1>2. w.cc.bn \in Nat /\ w.cc.ts \in Nat
  BY <1>1 DEF ConfigFields
<1>3. CASE w.schema = "Legacy0001"
  <2>. DEFINE cfg == DecodeChainConfig(ConfigSlice(w))
              req == DecodeNewPayloadRequest(w.npr, w.offWit - w.offNpr,
                                             PayloadShapeForFork(cfg.fork), FALSE)
              wit == DecodeWitness(w.wit, w.offCc - w.offWit)
  <2>1. /\ DecodeBySchema(w).schema = "Legacy0001"
        /\ DecodeBySchema(w).config = cfg
        /\ DecodeBySchema(w).request = req
        /\ DecodeBySchema(w).witness = wit
    BY <1>3 DEF DecodeBySchema, DecodeStatelessInput
  <2>2. /\ cfg.raw = ConfigSlice(w)
        /\ cfg.hasBn \in BOOLEAN /\ cfg.hasTs \in BOOLEAN
        /\ cfg.bn \in Nat /\ cfg.ts \in Nat
    BY <1>2 DEF DecodeChainConfig, DecodedConfig, ConfigSlice
  <2>3. /\ req.payload.number \in Nat
        /\ req.payload.timestamp \in Nat
        /\ req.payload.txs \in Seq(TxBytes)
        /\ req.requests.trailing \in BOOLEAN
        /\ [req.payload EXCEPT !.txs = req.payload.txs] = req.payload
    BY <1>1, RequestType
  <2>4. wit.headers \in Seq(HeaderBytes \cup {NoBytes})
    BY HeadersType
  <2>. HIDE DEF cfg, req, wit
  <2>. QED
    BY <2>1, <2>2, <2>3, <2>4
<1>4. CASE w.schema # "Legacy0001"
  BY <1>1, <1>2, <1>4, RequestType, HeadersType
     DEF DecodeBySchema, DecodeStatelessInputAmsterdam01,
         DecodeChainConfigAmsterdam01, DecodedConfig, ConfigSlice
<1>. QED
  BY <1>3, <1>4

\* A valid input has a chain config of known length and a supported fork.
LEMMA ValidInput ==
    ASSUME NEW w, IsWire(w), DecodeBySchema(w).valid
    PROVE  /\ ConfigSlice(w) \in ConfigSpan
           /\ ConfigSlice(w).len <= 76
           /\ DecodeBySchema(w).schema = "Legacy0001" =>
                  DecodeBySchema(w).config.fork
                      \in {FORK_PRAGUE, FORK_OSAKA, FORK_BPO1, FORK_BPO2,
                           FORK_AMSTERDAM}
           /\ DecodeBySchema(w).schema = "Amsterdam01" =>
                  DecodeBySchema(w).config.fork = FORK_AMSTERDAM
<1>1. /\ w.offCc \in Nat /\ w.offPk \in Nat
      /\ ConfigSlice(w).len \in Int
      /\ ConfigSlice(w).at \in ConfigFields
  BY DEF IsWire, ConfigSlice
<1>2. CASE w.schema = "Legacy0001"
  <2>1. LegacyConfigDecodes(ConfigSlice(w))
    BY <1>2 DEF DecodeBySchema, DecodeStatelessInput, DecodeChainConfig,
                DecodedConfig
  <2>2. ConfigSlice(w).len \in LegacyConfigLens
    BY <1>1, <2>1, LegacyConfigLength
  <2>3. DecodeBySchema(w).schema = "Legacy0001"
    BY <1>2 DEF DecodeBySchema, DecodeStatelessInput
  <2>4. PayloadShapeForFork(DecodeBySchema(w).config.fork) # "Unsupported"
    BY <1>2 DEF DecodeBySchema, DecodeStatelessInput
  <2>. QED
    BY <1>1, <2>2, <2>3, <2>4
       DEF LegacyConfigLens, ConfigSpan, ConfigSlice, PayloadShapeForFork
<1>3. CASE w.schema # "Legacy0001"
  <2>1. Amsterdam01ConfigDecodes(ConfigSlice(w))
    BY <1>3 DEF DecodeBySchema, DecodeStatelessInputAmsterdam01,
                DecodeChainConfigAmsterdam01, DecodedConfig
  <2>2. ConfigSlice(w).len \in Amsterdam01ConfigLens
    BY <1>1, <2>1, Amsterdam01ConfigLength
  <2>3. /\ DecodeBySchema(w).schema = "Amsterdam01"
        /\ DecodeBySchema(w).config.fork = FORK_AMSTERDAM
    BY <1>3 DEF DecodeBySchema, DecodeStatelessInputAmsterdam01,
                DecodeChainConfigAmsterdam01, DecodedConfig
  <2>. QED
    BY <1>1, <2>2, <2>3
       DEF Amsterdam01ConfigLens, ConfigSpan, ConfigSlice
<1>. QED
  BY <1>2, <1>3

\* The switches run_stateless_guest sets one by one are the rules of the fork.
LEMMA RulesAgree ==
    ASSUME NEW schema, NEW fork,
           schema = "Legacy0001" =>
               fork \in {FORK_PRAGUE, FORK_OSAKA, FORK_BPO1, FORK_BPO2,
                         FORK_AMSTERDAM},
           schema = "Amsterdam01" => fork = FORK_AMSTERDAM,
           schema \in {"Legacy0001", "Amsterdam01"}
    PROVE  ForkSwitches(schema, fork) = SpecRules(schema, fork)
  BY DEF ForkSwitches, SpecRules, FORK_PRAGUE, FORK_OSAKA, FORK_BPO1,
         FORK_BPO2, FORK_AMSTERDAM

\* validate_chain_config is the reference condition.
LEMMA ForkActiveAgrees ==
    ASSUME NEW cfg, NEW p, p.number \in Nat, p.timestamp \in Nat,
           cfg.bn \in Nat, cfg.ts \in Nat
    PROVE  ValidateChainConfig(cfg, p.number, p.timestamp)
               <=> ForkIsActive(cfg, p)
  BY DEF ValidateChainConfig, ForkIsActive

-----------------------------------------------------------------------------
(***************************************************************************)
(* Parent lookups.  By hash alone in the witness, by number and hash in    *)
(* the state: with distinct hashes for distinct headers both name the      *)
(* same header.                                                            *)
(***************************************************************************)

HeadersTyped == headers \in Seq(HeaderBytes \cup {NoBytes})

\* A header is found in the state exactly if it is the payload's parent and
\* some witness entry supplies it.
LEMMA StoredIsParent ==
    ASSUME HeadersTyped, payload.number \in Nat,
           ancestors = InsertedHeaders(headers), NEW b
    PROVE  b \in Stored(payload.number - 1, payload.parentHash)
               <=> \E i \in 1..Len(headers) :
                       headers[i] = b /\ IsParent(b, payload)
<1>1. b \in ancestors <=> \E i \in 1..Len(headers) :
                             /\ headers[i] = b
                             /\ b # NoBytes
                             /\ Header[b].ok
  BY DEF InsertedHeaders
<1>2. b \in ancestors => Header[b].number \in Nat
  BY HeaderAssumption DEF InsertedHeaders, HeadersTyped
<1>. QED
  BY <1>1, <1>2 DEF Stored, IsParent

\* If the parent is in the witness, both lookups give its state root.
LEMMA SameRoot ==
    ASSUME HeadersTyped, payload.number \in Nat, HashesComputed, PreRootFound,
           ancestors = InsertedHeaders(headers),
           NEW i \in 1..Len(headers), IsParent(headers[i], payload)
    PROVE  /\ preRoot = Header[headers[i]].root
           /\ PrevRoot = Header[headers[i]].root
           /\ Stored(payload.number - 1, payload.parentHash) # {}
<1>1. headers[i] = payload.parentHash /\ Header[headers[i]].ok
      /\ headers[i] # NoBytes
  BY DEF IsParent
<1>2. \A j \in 1..Len(headers) :
         MatchesParent(j) <=> headers[j] = headers[i]
  BY <1>1 DEF MatchesParent, HashesComputed, KeccakOf
<1>3. preRoot = Header[headers[i]].root
  <2>1. ~ NoMatchBelow(Len(headers) + 1)
    BY <1>2 DEF NoMatchBelow, HeadersTyped
  <2>. QED
    BY <1>1, <1>2, <2>1 DEF PreRootFound
<1>4. /\ headers[i] \in Stored(payload.number - 1, payload.parentHash)
      /\ \A b \in Stored(payload.number - 1, payload.parentHash) :
             b = headers[i]
  <2>1. headers[i] \in Stored(payload.number - 1, payload.parentHash)
    BY StoredIsParent
  <2>2. \A b \in Stored(payload.number - 1, payload.parentHash) :
           b = payload.parentHash
    BY DEF Stored
  <2>. QED
    BY <1>1, <2>1, <2>2
<1>5. PrevRoot = Header[headers[i]].root
  BY <1>4 DEF PrevRoot
<1>. QED
  BY <1>3, <1>4, <1>5

\* What the last stage compares decides the reference condition.
LEMMA VerifyDecides ==
    ASSUME HeadersTyped, payload.number \in Nat, HashesComputed, PreRootFound,
           si.request.requests.trailing \in BOOLEAN,
           ForkSwitches(si.schema, si.config.fork)
               = SpecRules(si.schema, si.config.fork),
           ancestors = InsertedHeaders(headers),
           executed.ok <=> /\ Stored(payload.number - 1,
                                     payload.parentHash) # {}
                           /\ ExecutionOutcome.ok
                           /\ RequestsHashOk(ExecutionOutcome.items),
           executed.delta = ExecutionOutcome.delta
    PROVE  (/\ executed.ok
            /\ PostRoot(PrevRoot, executed.delta) = payload.stateRoot)
               <=> ValidTransition(si)
<1>1. \A items : RequestsHashOk(items) <=>
                 (si.schema = "Amsterdam01" =>
                     /\ items = si.request.requests.items
                     /\ ~ si.request.requests.trailing)
  BY DEF RequestsHashOk
<1>2. CASE \E i \in 1..Len(headers) : IsParent(headers[i], payload)
  <2>1. PICK i \in 1..Len(headers) : IsParent(headers[i], payload)
    BY <1>2
  <2>2. /\ preRoot = Header[headers[i]].root
        /\ PrevRoot = Header[headers[i]].root
        /\ Stored(payload.number - 1, payload.parentHash) # {}
    BY <2>1, SameRoot
  <2>3. ExecutionOutcome = Execution(Header[headers[i]].root,
                                     SpecRules(si.schema, si.config.fork),
                                     payload, si.witness)
    BY <2>2 DEF ExecutionOutcome
  <2>4. \A j \in 1..Len(headers) :
           IsParent(headers[j], payload) => headers[j] = headers[i]
    BY <2>1 DEF IsParent
  <2>5. ValidTransition(si) <=>
           /\ ExecutionOutcome.ok
           /\ payload.stateRoot = PostRoot(Header[headers[i]].root,
                                           ExecutionOutcome.delta)
           /\ si.schema = "Amsterdam01" =>
                 /\ ExecutionOutcome.items = si.request.requests.items
                 /\ ~ si.request.requests.trailing
    BY <2>1, <2>3, <2>4 DEF ValidTransition, payload, headers
  <2>. QED
    BY <1>1, <2>2, <2>5
<1>3. CASE ~ \E i \in 1..Len(headers) : IsParent(headers[i], payload)
  <2>1. ~ ValidTransition(si)
    BY <1>3 DEF ValidTransition, payload, headers
  <2>2. Stored(payload.number - 1, payload.parentHash) = {}
    BY <1>3, StoredIsParent
  <2>. QED
    BY <2>1, <2>2
<1>. QED
  BY <1>2, <1>3
-----------------------------------------------------------------------------
(***************************************************************************)
(* StageInv is inductive.  First, what a stage past decoding knows of its  *)
(* input, and that giving up at such a stage is the right answer.          *)
(***************************************************************************)

\* From the prepared failure on, the input has decoded and the answer carries
\* its root and chain config (stateless.cpp:680-688).
LEMMA PreparedFacts ==
    ASSUME TypeOK, Prepared
    PROVE  /\ HeadersTyped
           /\ payload.number \in Nat
           /\ payload.timestamp \in Nat
           /\ payload.txs \in Seq(TxBytes)
           /\ [payload EXCEPT !.txs = payload.txs] = payload
           /\ si.request.requests.trailing \in BOOLEAN
           /\ si.config.bn \in Nat
           /\ si.config.ts \in Nat
           /\ ForkSwitches(si.schema, si.config.fork)
                  = SpecRules(si.schema, si.config.fork)
<1>1. IsWire(wire) /\ si = DecodeBySchema(wire) /\ DecodeBySchema(wire).valid
  BY DEF TypeOK, Prepared, Decodes
<1>2. ForkSwitches(si.schema, si.config.fork)
          = SpecRules(si.schema, si.config.fork)
  <2>1. si.schema \in {"Legacy0001", "Amsterdam01"}
    BY <1>1, DecodedType
  <2>2. /\ si.schema = "Legacy0001" =>
               si.config.fork \in {FORK_PRAGUE, FORK_OSAKA, FORK_BPO1,
                                   FORK_BPO2, FORK_AMSTERDAM}
        /\ si.schema = "Amsterdam01" => si.config.fork = FORK_AMSTERDAM
    BY <1>1, ValidInput
  <2>. QED
    BY <2>1, <2>2, RulesAgree
<1>. QED
  BY <1>1, <1>2, DecodedType DEF HeadersTyped, headers, payload

\* The failure prepared after decoding is the verdict of what is not accepted.
LEMMA RejectIsVerdict ==
    ASSUME Prepared, ~ Accepts(si)
    PROVE  Answered
<1>1. Accepts(si) = FALSE
  BY DEF Accepts
<1>2. Verdict(wire) = [root    |-> HtrNewPayloadRequest(si.request),
                       success |-> Accepts(si),
                       config  |-> ConfigSlice(wire)]
  BY DEF Prepared, Decodes, Verdict
<1>. QED
  BY <1>1, <1>2 DEF Prepared, Answered

\* What a step that leaves the input and its hashes alone leaves alone.
LEMMA InputKept ==
    ASSUME UNCHANGED <<wire, si>>
    PROVE  /\ headers' = headers
           /\ payload' = payload
           /\ UNCHANGED result => (Prepared' <=> Prepared)
           /\ UNCHANGED hashes => /\ HashesComputed' <=> HashesComputed
                                  /\ \A n : LinkedBelow(n)' <=> LinkedBelow(n)
                                  /\ \A n : NoMatchBelow(n)' <=> NoMatchBelow(n)
           /\ UNCHANGED <<hashes, preRoot>> => (PreRootFound' <=> PreRootFound)
  BY DEF headers, payload, Prepared, HashesComputed, LinkedBelow, LinkOk,
         NoMatchBelow, MatchesParent, PreRootFound
-----------------------------------------------------------------------------
(***************************************************************************)
(* One lemma per action, each with the type invariant and the stage        *)
(* invariant of the next state.                                            *)
(***************************************************************************)

StageSets == Validating \cup {"decode", "encode", "done"}

\* The two default chain configs are spans (stateless.cpp:606-640).
LEMMA DefaultConfigs ==
    \A schema : /\ DefaultFailure(schema).config \in ConfigSpan
                /\ DefaultFailure(schema).config.len \in {24, 36}
                /\ DefaultFailure(schema).success = FALSE
  BY DEF DefaultFailure, DefaultChainConfig, DefaultChainConfigAmsterdam,
         ConfigSpan, ConfigFields

\* The empty output is a sequence of answers.
LEMMA EmptyOutput == \A S : << >> \in Seq(S)
  OBVIOUS

\* main starts with an empty output and an input that is not decoded yet.
LEMMA InitInv ==
    ASSUME Init
    PROVE  TypeOK /\ StageInv
<1>1. TypeOK
  <2>1. IsWire(wire)
    BY WiresAssumption DEF Init
  <2>2. result.success \in BOOLEAN /\ result.config \in ConfigSpan
    BY DefaultConfigs DEF Init
  <2>. QED
    BY <2>1, <2>2, EmptyOutput DEF Init, TypeOK, Stages, NotExecuted
<1>2. StageInv
  BY DefaultConfigs DEF Init, StageInv, Validating, Counting, Linking, Searching, Loading,
         Building, Verifying
<1>. QED
  BY <1>1, <1>2

\* A missing or unknown schema id gets the default failure.
LEMMA RejectSchemaInv ==
    ASSUME TypeOK, StageInv, RejectSchema
    PROVE  TypeOK' /\ StageInv'
<1>1. TypeOK'
  <2>1. result'.success \in BOOLEAN /\ result'.config \in ConfigSpan
    BY DefaultConfigs DEF RejectSchema
  <2>2. out = << >>
    BY DEF RejectSchema, StageInv
  <2>. QED
    BY <2>1, <2>2, EmptyOutput DEF RejectSchema, TypeOK, Stages
<1>2. result' = Verdict(wire) /\ result'.success = FALSE
  <2>1. ~ IsKnownSchema(wire)
    BY DEF RejectSchema, IsKnownSchema, TypeOK, IsWire, SCHEMA_ID_SIZE
  <2>. QED
    BY <2>1, DefaultConfigs DEF RejectSchema, Verdict
<1>3. StageInv'
  BY <1>2 DEF RejectSchema, StageInv, Answered, Validating, Counting, Linking,
              Searching, Loading, Building, Verifying
<1>. QED
  BY <1>1, <1>3

\* Decoding, for either schema: the default failure or the prepared one.
LEMMA DecodeInv ==
    ASSUME TypeOK, StageInv, DecodeLegacy \/ DecodeAmsterdam01
    PROVE  TypeOK' /\ StageInv'
<1>1. /\ pc = "decode" /\ out = << >> /\ txs = << >> /\ preRoot = ZeroHash
      /\ IsKnownSchema(wire)
      /\ AfterDecode(DecodeBySchema(wire))
      /\ UNCHANGED <<wire, hashes, k, preRoot, ancestors, txs, executed, out>>
  BY DEF DecodeLegacy, DecodeAmsterdam01, StageInv, IsKnownSchema,
         DecodeBySchema
<1>2. IsWire(wire)
  BY DEF TypeOK
<1>3. CASE DecodeBySchema(wire).valid
  <2>1. /\ si' = DecodeBySchema(wire)
        /\ result' = [root    |-> HtrNewPayloadRequest(si'.request),
                      success |-> FALSE,
                      config  |-> ConfigSlice(wire)]
        /\ pc' = "config"
    BY <1>1, <1>2, <1>3, DecodedType DEF AfterDecode
  <2>2. TypeOK'
    BY <1>1, <1>2, <1>3, <2>1, ValidInput DEF TypeOK, Stages
  <2>3. Prepared'
    BY <1>1, <1>3, <2>1 DEF Prepared, Decodes
  <2>4. StageInv'
    BY <1>1, <2>1, <2>3
       DEF StageInv, Validating, Counting, Linking, Searching, Loading,
           Building, Verifying
  <2>. QED
    BY <2>2, <2>4
<1>4. CASE ~ DecodeBySchema(wire).valid
  <2>1. result' = DefaultFailure(wire.schema) /\ pc' = "encode"
    BY <1>1, <1>4 DEF AfterDecode
  <2>2. TypeOK'
    <3>1. result'.success \in BOOLEAN /\ result'.config \in ConfigSpan
      BY <2>1, DefaultConfigs
    <3>. QED
      BY <1>1, <2>1, <3>1, EmptyOutput DEF TypeOK, Stages
  <2>3. Answered'
    BY <1>1, <1>4, <2>1, DefaultConfigs DEF Answered, Verdict
  <2>4. StageInv'
    BY <1>1, <2>1, <2>3
       DEF StageInv, Validating, Counting, Linking, Searching, Loading,
           Building, Verifying
  <2>. QED
    BY <2>2, <2>4
<1>. QED
  BY <1>3, <1>4

\* Leaving the function early, with the prepared failure, from any stage.
LEMMA EarlyReturnInv ==
    ASSUME TypeOK, StageInv, pc \in Validating, pc' = "encode",
           ~ Accepts(si),
           UNCHANGED <<wire, si, preRoot, ancestors, txs, executed, result,
                       out>>,
           k' \in Nat
    PROVE  TypeOK' /\ StageInv'
<1>1. Prepared /\ out = << >>
  BY DEF StageInv
<1>2. Answered
  BY <1>1, RejectIsVerdict
<1>3. result.success = FALSE
  BY <1>1 DEF Prepared
<1>4. Answered'
  BY <1>2, <1>3 DEF Answered
<1>5. TypeOK'
  BY DEF TypeOK, Stages
<1>6. StageInv'
  BY <1>1, <1>4
     DEF StageInv, Validating, Counting, Linking, Searching, Loading,
         Building, Verifying
<1>. QED
  BY <1>5, <1>6

\* validate_chain_config lets through exactly the active forks.
LEMMA CheckChainConfigInv ==
    ASSUME TypeOK, StageInv, CheckChainConfig
    PROVE  TypeOK' /\ StageInv'
<1>1. Prepared /\ out = << >> /\ preRoot = ZeroHash /\ txs = << >>
  BY DEF StageInv, CheckChainConfig, Validating, Counting, Linking, Searching,
         Loading, Building, Verifying
<1>2. ValidateChainConfig(si.config, payload.number, payload.timestamp)
         <=> ForkIsActive(si.config, payload)
  BY <1>1, PreparedFacts, ForkActiveAgrees
<1>3. CASE ForkIsActive(si.config, payload)
  <2>1. pc' = "headerCount" /\ UNCHANGED <<wire, si, preRoot, txs, result, out>>
    BY <1>2, <1>3 DEF CheckChainConfig
  <2>2. TypeOK'
    BY <2>1 DEF CheckChainConfig, TypeOK, Stages
  <2>3. ForkIsActive(si.config, payload)'
    BY <1>3, <2>1 DEF ForkIsActive, payload
  <2>4. StageInv'
    BY <1>1, <2>1, <2>3, InputKept
       DEF StageInv, Validating, Counting, Linking, Searching, Loading,
           Building, Verifying
  <2>. QED
    BY <2>2, <2>4
<1>4. CASE ~ ForkIsActive(si.config, payload)
  <2>1. ~ Accepts(si)
    BY <1>4 DEF Accepts, payload
  <2>2. pc' = "encode" /\ k' \in Nat
    BY <1>2, <1>4 DEF CheckChainConfig, TypeOK
  <2>. QED
    BY <2>1, <2>2, EarlyReturnInv DEF CheckChainConfig, Validating
<1>. QED
  BY <1>3, <1>4

\* The header limit, and the hashing of all the headers.
LEMMA CheckHeaderCountInv ==
    ASSUME TypeOK, StageInv, CheckHeaderCount
    PROVE  TypeOK' /\ StageInv'
<1>1. /\ Prepared /\ out = << >> /\ preRoot = ZeroHash /\ txs = << >>
      /\ ForkIsActive(si.config, payload)
  BY DEF StageInv, CheckHeaderCount, Validating, Counting, Linking, Searching,
         Loading, Building, Verifying
<1>2. HeadersTyped
  BY <1>1, PreparedFacts
<1>3. CASE Len(headers) > MAX_WITNESS_HEADERS
  <2>1. ~ Accepts(si)
    BY <1>2, <1>3, LimitsAssumption DEF Accepts, headers, HeadersTyped
  <2>2. pc' = "encode" /\ k' \in Nat
    BY <1>3 DEF CheckHeaderCount, TypeOK
  <2>. QED
    BY <2>1, <2>2, EarlyReturnInv
       DEF CheckHeaderCount, Validating, Counting
<1>4. CASE ~ (Len(headers) > MAX_WITNESS_HEADERS)
  <2>1. /\ pc' = "headers" /\ k' = 2
        /\ hashes' = [i \in 1..Len(headers) |-> KeccakOf(headers[i])]
        /\ UNCHANGED <<wire, si, preRoot, ancestors, txs, executed, result, out>>
    BY <1>4 DEF CheckHeaderCount
  <2>2. TypeOK'
    BY <2>1 DEF TypeOK, Stages
  <2>3. HashesComputed'
    BY <1>2, <1>4, <2>1, LimitsAssumption
       DEF HashesComputed, headers, HeadersTyped
  <2>4. ForkIsActive(si.config, payload)'
    BY <1>1, <2>1 DEF ForkIsActive, payload
  <2>5. LinkedBelow(k)'
    BY <2>1 DEF LinkedBelow
  <2>6. StageInv'
    BY <1>1, <2>1, <2>3, <2>4, <2>5, InputKept
       DEF StageInv, Validating, Counting, Linking, Searching, Loading,
           Building, Verifying
  <2>. QED
    BY <2>2, <2>6
<1>. QED
  BY <1>3, <1>4

\* What every stage from the header walk on has established.
LEMMA LinkingFacts ==
    ASSUME TypeOK, StageInv, pc \in Linking
    PROVE  /\ Prepared /\ out = << >>
           /\ ForkIsActive(si.config, payload)
           /\ HashesComputed
           /\ HeadersTyped
           /\ Len(headers) \in Nat
<1>1. /\ Prepared /\ out = << >>
      /\ ForkIsActive(si.config, payload)
      /\ HashesComputed
  BY DEF StageInv, Validating, Counting
<1>2. HeadersTyped
  BY <1>1, PreparedFacts
<1>. QED
  BY <1>1, <1>2 DEF HeadersTyped

\* A step within those stages keeps it.
LEMMA LinkingKept ==
    ASSUME TypeOK, StageInv, pc \in Linking,
           UNCHANGED <<wire, si, hashes, result, out>>
    PROVE  /\ Prepared' /\ out' = << >>
           /\ ForkIsActive(si.config, payload)'
           /\ HashesComputed'
<1>1. ForkIsActive(si.config, payload)'
  BY LinkingFacts DEF ForkIsActive, payload
<1>. QED
  BY <1>1, LinkingFacts, InputKept

\* The walk compares hashes it has computed: its test is the reference's.
LEMMA LinkOkAgrees ==
    ASSUME HashesComputed, Len(headers) \in Nat, NEW i \in 2..Len(headers)
    PROVE  LinkOk(i) <=> (headers[i] # NoBytes =>
                             /\ Header[headers[i]].ok
                             /\ Header[headers[i]].parent
                                    = KeccakOf(headers[i - 1]))
<1>1. i - 1 \in 1..Len(headers)
  OBVIOUS
<1>2. hashes[i - 1] = KeccakOf(headers[i - 1])
  BY <1>1 DEF HashesComputed
<1>. QED
  BY <1>2 DEF LinkOk

\* One iteration of the parent_hash check extends the linked prefix.
LEMMA CheckHeaderInv ==
    ASSUME TypeOK, StageInv, CheckHeader
    PROVE  TypeOK' /\ StageInv'
<1>1. /\ pc \in Linking /\ pc = "headers" /\ k \in Nat /\ k >= 2
      /\ LinkedBelow(k) /\ preRoot = ZeroHash /\ txs = << >>
      /\ k <= Len(headers)
      /\ UNCHANGED <<wire, si, hashes, preRoot, ancestors, txs, executed,
                     result, out>>
  BY DEF StageInv, TypeOK, CheckHeader, Validating, Counting, Linking,
         Searching, Loading, Building, Verifying
<1>2. CASE LinkOk(k)
  <2>1. pc' = "headers" /\ k' = k + 1
    BY <1>1, <1>2 DEF CheckHeader
  <2>2. TypeOK'
    BY <1>1, <2>1 DEF TypeOK, Stages
  <2>3. LinkedBelow(k')
    BY <1>1, <1>2, <2>1, LinkingFacts DEF LinkedBelow
  <2>4. LinkedBelow(k)'
    BY <1>1, <2>3 DEF LinkedBelow, LinkOk, headers
  <2>5. StageInv'
    BY <1>1, <2>1, <2>4, LinkingKept
       DEF StageInv, Validating, Counting, Linking, Searching, Loading,
           Building, Verifying
  <2>. QED
    BY <2>2, <2>5
<1>3. CASE ~ LinkOk(k)
  <2>1. k \in 2..Len(headers)
    BY <1>1, LinkingFacts
  <2>2. ~ HeadersLinked(headers)
    BY <1>1, <1>3, <2>1, LinkingFacts, LinkOkAgrees DEF HeadersLinked
  <2>3. ~ Accepts(si)
    BY <2>2 DEF Accepts, headers
  <2>4. pc' = "encode" /\ k' \in Nat
    BY <1>1, <1>3 DEF CheckHeader
  <2>. QED
    BY <1>1, <2>3, <2>4, EarlyReturnInv DEF Validating, Counting
<1>. QED
  BY <1>2, <1>3

\* The walk ends with all the headers linked.
LEMMA HeadersCheckedInv ==
    ASSUME TypeOK, StageInv, HeadersChecked
    PROVE  TypeOK' /\ StageInv'
<1>1. /\ pc \in Linking /\ pc = "headers" /\ k \in Nat
      /\ LinkedBelow(k) /\ preRoot = ZeroHash /\ txs = << >>
      /\ k > Len(headers)
      /\ pc' = "preState" /\ k' = 1
      /\ UNCHANGED <<wire, si, hashes, preRoot, ancestors, txs, executed,
                     result, out>>
  BY DEF StageInv, TypeOK, HeadersChecked, Validating, Counting, Linking,
         Searching, Loading, Building, Verifying
<1>2. TypeOK'
  BY <1>1 DEF TypeOK, Stages
<1>3. HeadersLinked(headers)
  BY <1>1, LinkingFacts, LinkOkAgrees DEF HeadersLinked, LinkedBelow
<1>4. HeadersLinked(headers)'
  BY <1>1, <1>3 DEF HeadersLinked, headers
<1>5. NoMatchBelow(k)'
  BY <1>1 DEF NoMatchBelow
<1>6. StageInv'
  BY <1>1, <1>4, <1>5, LinkingKept
     DEF StageInv, Validating, Counting, Linking, Searching, Loading,
         Building, Verifying
<1>. QED
  BY <1>2, <1>6

\* The search for the parent starts from linked headers.
LEMMA SearchingKept ==
    ASSUME TypeOK, StageInv, pc \in Searching,
           UNCHANGED <<wire, si, hashes, result, out>>
    PROVE  /\ Prepared' /\ out' = << >>
           /\ ForkIsActive(si.config, payload)'
           /\ HashesComputed'
           /\ HeadersLinked(headers)'
<1>1. pc \in Linking
  BY DEF Linking
<1>2. HeadersLinked(headers)
  BY DEF StageInv
<1>3. HeadersLinked(headers)'
  BY <1>2 DEF HeadersLinked, headers
<1>. QED
  BY <1>1, <1>3, LinkingKept

\* The search by hash stops at the first match.
LEMMA FindParentInv ==
    ASSUME TypeOK, StageInv, FindParent
    PROVE  TypeOK' /\ StageInv'
<1>1. /\ pc \in Searching /\ pc = "preState" /\ k \in Nat /\ k >= 1
      /\ preRoot = ZeroHash /\ txs = << >>
      /\ k <= Len(headers) /\ MatchesParent(k)
      /\ pc' = "ancestors"
      /\ preRoot' = IF Header[headers[k]].ok THEN Header[headers[k]].root
                    ELSE ZeroHash
      /\ UNCHANGED <<wire, si, hashes, k, ancestors, txs, executed, result, out>>
  BY DEF StageInv, TypeOK, FindParent, Validating, Counting, Linking,
         Searching, Loading, Building, Verifying
<1>2. TypeOK'
  BY <1>1 DEF TypeOK, Stages
<1>3. k \in 1..Len(headers)
  BY <1>1, LinkingFacts DEF Linking
<1>4. PreRootFound'
  BY <1>1, <1>3 DEF PreRootFound, MatchesParent, headers, payload
<1>5. StageInv'
  BY <1>1, <1>4, SearchingKept
     DEF StageInv, Validating, Counting, Linking, Searching, Loading,
         Building, Verifying
<1>. QED
  BY <1>2, <1>5

\* A header with another hash extends the prefix without a match.
LEMMA SkipHeaderInv ==
    ASSUME TypeOK, StageInv, SkipHeader
    PROVE  TypeOK' /\ StageInv'
<1>1. /\ pc \in Searching /\ pc = "preState" /\ k \in Nat /\ k >= 1
      /\ preRoot = ZeroHash /\ txs = << >> /\ NoMatchBelow(k)
      /\ k <= Len(headers) /\ ~ MatchesParent(k)
      /\ pc' = "preState" /\ k' = k + 1
      /\ UNCHANGED <<wire, si, hashes, preRoot, ancestors, txs, executed,
                     result, out>>
  BY DEF StageInv, TypeOK, SkipHeader, Validating, Counting, Linking,
         Searching, Loading, Building, Verifying
<1>2. TypeOK'
  BY <1>1 DEF TypeOK, Stages
<1>3. NoMatchBelow(k + 1)
  BY <1>1, LinkingFacts DEF NoMatchBelow, Linking
<1>4. NoMatchBelow(k)'
  BY <1>1, <1>3 DEF NoMatchBelow, MatchesParent, headers, payload
<1>5. StageInv'
  BY <1>1, <1>4, SearchingKept
     DEF StageInv, Validating, Counting, Linking, Searching, Loading,
         Building, Verifying
<1>. QED
  BY <1>2, <1>5

\* The search ends without a match when no header has the parent hash.
LEMMA NoParentInv ==
    ASSUME TypeOK, StageInv, NoParent
    PROVE  TypeOK' /\ StageInv'
<1>1. /\ pc \in Searching /\ pc = "preState" /\ k \in Nat
      /\ preRoot = ZeroHash /\ txs = << >> /\ NoMatchBelow(k)
      /\ k > Len(headers)
      /\ pc' = "ancestors"
      /\ UNCHANGED <<wire, si, hashes, k, preRoot, ancestors, txs, executed,
                     result, out>>
  BY DEF StageInv, TypeOK, NoParent, Validating, Counting, Linking,
         Searching, Loading, Building, Verifying
<1>2. TypeOK'
  BY <1>1 DEF TypeOK, Stages
<1>3. NoMatchBelow(Len(headers) + 1)
  BY <1>1, LinkingFacts DEF NoMatchBelow, Linking
<1>4. PreRootFound'
  BY <1>1, <1>3, InputKept DEF PreRootFound
<1>5. StageInv'
  BY <1>1, <1>4, SearchingKept
     DEF StageInv, Validating, Counting, Linking, Searching, Loading,
         Building, Verifying
<1>. QED
  BY <1>2, <1>5

\* The headers that decode go into the WitnessState.
LEMMA LoadAncestorsInv ==
    ASSUME TypeOK, StageInv, LoadAncestors
    PROVE  TypeOK' /\ StageInv'
<1>1. /\ pc \in Searching /\ pc = "ancestors"
      /\ PreRootFound /\ txs = << >>
      /\ pc' = "txs" /\ k' = 1
      /\ ancestors' = InsertedHeaders(headers)
      /\ UNCHANGED <<wire, si, hashes, preRoot, txs, executed, result, out>>
  BY DEF StageInv, LoadAncestors, Validating, Counting, Linking,
         Searching, Loading, Building, Verifying
<1>2. HeadersTyped /\ payload.txs \in Seq(TxBytes)
  BY <1>1, LinkingFacts, PreparedFacts DEF Linking
<1>3. TypeOK'
  BY <1>1, <1>2 DEF TypeOK, Stages, InsertedHeaders, HeadersTyped
<1>4. PreRootFound' /\ headers' = headers /\ payload' = payload
  BY <1>1, InputKept
<1>5. StageInv'
  <2>1. /\ k' \in 1..(Len(payload'.txs) + 1)
        /\ Len(txs') = k' - 1
        /\ \A i \in 1..(k' - 1) : txs'[i] = payload'.txs[i]
    BY <1>1, <1>2, <1>4
  <2>2. ancestors' = InsertedHeaders(headers')
    BY <1>1, <1>4
  <2>. QED
    BY <1>1, <1>4, <2>1, <2>2, SearchingKept
       DEF StageInv, Validating, Counting, Linking, Searching, Loading,
           Building, Verifying
<1>. QED
  BY <1>3, <1>5

\* What the stages that build and run the block have established.
LEMMA BuildingFacts ==
    ASSUME TypeOK, StageInv, pc \in Building
    PROVE  /\ pc \in Searching /\ pc \in Linking
           /\ PreRootFound
           /\ ancestors = InsertedHeaders(headers)
           /\ HeadersTyped
           /\ payload.txs \in Seq(TxBytes)
<1>1. pc \in Searching /\ pc \in Linking
  BY DEF Linking, Searching, Loading
<1>2. PreRootFound /\ ancestors = InsertedHeaders(headers)
  BY DEF StageInv, Loading
<1>. QED
  BY <1>1, <1>2, LinkingFacts, PreparedFacts

\* A step within those stages keeps it.
LEMMA BuildingKept ==
    ASSUME TypeOK, StageInv, pc \in Building,
           UNCHANGED <<wire, si, hashes, preRoot, ancestors, result, out>>
    PROVE  /\ Prepared' /\ out' = << >>
           /\ ForkIsActive(si.config, payload)'
           /\ HashesComputed'
           /\ HeadersLinked(headers)'
           /\ PreRootFound'
           /\ ancestors' = InsertedHeaders(headers')
           /\ payload' = payload
<1>1. PreRootFound' /\ headers' = headers /\ payload' = payload
  BY BuildingFacts, InputKept
<1>2. ancestors' = InsertedHeaders(headers')
  BY <1>1, BuildingFacts
<1>. QED
  BY <1>1, <1>2, BuildingFacts, SearchingKept

\* One transaction: appended to the block, or the end of the function.
LEMMA DecodeTransactionInv ==
    ASSUME TypeOK, StageInv, DecodeTransaction
    PROVE  TypeOK' /\ StageInv'
<1>1. /\ pc \in Building /\ pc = "txs" /\ k \in 1..(Len(payload.txs) + 1)
      /\ Len(txs) = k - 1 /\ txs \in Seq(DecodableTx)
      /\ \A i \in 1..(k - 1) : txs[i] = payload.txs[i]
      /\ k <= Len(payload.txs)
      /\ UNCHANGED <<wire, si, hashes, preRoot, ancestors, executed, result,
                     out>>
  BY DEF StageInv, TypeOK, DecodeTransaction, Building
<1>2. payload.txs \in Seq(TxBytes) /\ k \in 1..Len(payload.txs)
  BY <1>1, BuildingFacts
<1>3. CASE payload.txs[k] \in DecodableTx
  <2>1. pc' = "txs" /\ k' = k + 1 /\ txs' = Append(txs, payload.txs[k])
    BY <1>1, <1>3 DEF DecodeTransaction
  <2>2. TypeOK'
    BY <1>1, <1>2, <1>3, <2>1 DEF TypeOK, Stages
  <2>3. payload' = payload
    BY <1>1, BuildingKept
  <2>4. /\ k' \in 1..(Len(payload'.txs) + 1)
        /\ Len(txs') = k' - 1
        /\ \A i \in 1..(k' - 1) : txs'[i] = payload'.txs[i]
    BY <1>1, <1>2, <2>1, <2>3
  <2>5. StageInv'
    BY <1>1, <2>1, <2>4, BuildingKept
       DEF StageInv, Validating, Counting, Linking, Searching, Loading,
           Building, Verifying
  <2>. QED
    BY <2>2, <2>5
<1>4. CASE ~ (payload.txs[k] \in DecodableTx)
  <2>1. ~ Accepts(si)
    BY <1>2, <1>4 DEF Accepts, payload
  <2>2. pc' = "encode" /\ k' = k /\ txs' = txs
    BY <1>1, <1>4 DEF DecodeTransaction
  <2>3. pc \in Validating /\ k' \in Nat
    BY <1>1, <2>2 DEF Validating, Counting, Linking, Searching, Loading
  <2>. QED
    BY <1>1, <2>1, <2>2, <2>3, EarlyReturnInv
<1>. QED
  BY <1>3, <1>4

\* The block has all the transactions of the payload.
LEMMA TransactionsDecodedInv ==
    ASSUME TypeOK, StageInv, TransactionsDecoded
    PROVE  TypeOK' /\ StageInv'
<1>1. /\ pc \in Building /\ pc = "txs" /\ k \in 1..(Len(payload.txs) + 1)
      /\ Len(txs) = k - 1 /\ txs \in Seq(DecodableTx)
      /\ \A i \in 1..(k - 1) : txs[i] = payload.txs[i]
      /\ k > Len(payload.txs)
      /\ pc' = "execute"
      /\ UNCHANGED <<wire, si, hashes, k, preRoot, ancestors, txs, executed,
                     result, out>>
  BY DEF StageInv, TypeOK, TransactionsDecoded, Building
<1>2. payload.txs \in Seq(TxBytes) /\ k = Len(payload.txs) + 1
  BY <1>1, BuildingFacts
<1>3. TypeOK'
  BY <1>1 DEF TypeOK, Stages
<1>4. Len(txs) = Len(payload.txs)
  BY <1>1, <1>2
<1>5. txs = payload.txs
  BY <1>1, <1>2, <1>4, SeqEqual
<1>6. AllDecodable
  BY <1>1, <1>4, <1>5 DEF AllDecodable
<1>7. AllDecodable' /\ txs' = payload'.txs
  BY <1>1, <1>5, <1>6 DEF AllDecodable, payload
<1>8. StageInv'
  BY <1>1, <1>7, BuildingKept
     DEF StageInv, Validating, Counting, Linking, Searching, Loading,
         Building, Verifying
<1>. QED
  BY <1>3, <1>8

\* insert_block runs on the parent's state, with the rules of the fork.
LEMMA ExecuteBlockInv ==
    ASSUME TypeOK, StageInv, ExecuteBlock
    PROVE  TypeOK' /\ StageInv'
<1>1. /\ pc \in Building /\ pc = "execute"
      /\ txs = payload.txs /\ AllDecodable
      /\ pc' = "verify"
      /\ UNCHANGED <<wire, si, hashes, k, preRoot, ancestors, txs, result, out>>
  BY DEF StageInv, ExecuteBlock, Building, Verifying
<1>2. [payload EXCEPT !.txs = txs] = payload
  BY <1>1, BuildingFacts, LinkingFacts, PreparedFacts
<1>3. executed' = [ok    |-> /\ Stored(payload.number - 1,
                                       payload.parentHash) # {}
                             /\ ExecutionOutcome.ok
                             /\ RequestsHashOk(ExecutionOutcome.items),
                   delta |-> ExecutionOutcome.delta,
                   items |-> ExecutionOutcome.items]
  BY <1>2 DEF ExecuteBlock, ExecutionOutcome
<1>4. TypeOK'
  BY <1>1, <1>3 DEF TypeOK, Stages
<1>5. AllDecodable' /\ txs' = payload'.txs
  BY <1>1 DEF AllDecodable, payload
<1>6. ExecutionOutcome' = ExecutionOutcome
  BY <1>1 DEF ExecutionOutcome, payload
<1>7. /\ Stored(payload.number - 1, payload.parentHash)'
           = Stored(payload.number - 1, payload.parentHash)
      /\ RequestsHashOk(ExecutionOutcome.items)'
           = RequestsHashOk(ExecutionOutcome.items)
  BY <1>1, <1>6 DEF Stored, RequestsHashOk, payload
<1>8. executed' = [ok    |-> /\ Stored(payload.number - 1,
                                       payload.parentHash) # {}
                             /\ ExecutionOutcome.ok
                             /\ RequestsHashOk(ExecutionOutcome.items),
                   delta |-> ExecutionOutcome.delta,
                   items |-> ExecutionOutcome.items]'
  BY <1>3, <1>6, <1>7
<1>9. StageInv'
  BY <1>1, <1>5, <1>8, BuildingKept
     DEF StageInv, Validating, Counting, Linking, Searching, Loading,
         Building, Verifying
<1>. QED
  BY <1>4, <1>9

\* The success flag is set to whether the input is acceptable.
LEMMA VerifyStateRootInv ==
    ASSUME TypeOK, StageInv, VerifyStateRoot
    PROVE  TypeOK' /\ StageInv'
<1>1. /\ pc \in Building /\ pc = "verify" /\ pc' = "encode"
      /\ txs = payload.txs /\ AllDecodable
      /\ executed = [ok    |-> /\ Stored(payload.number - 1,
                                         payload.parentHash) # {}
                               /\ ExecutionOutcome.ok
                               /\ RequestsHashOk(ExecutionOutcome.items),
                     delta |-> ExecutionOutcome.delta,
                     items |-> ExecutionOutcome.items]
      /\ UNCHANGED <<wire, si, hashes, k, preRoot, ancestors, txs, executed,
                     out>>
  BY DEF StageInv, VerifyStateRoot, Building, Verifying
<1>. DEFINE match == /\ executed.ok
                     /\ PostRoot(PrevRoot, executed.delta) = payload.stateRoot
<1>2. /\ Prepared /\ out = << >> /\ ForkIsActive(si.config, payload)
      /\ HashesComputed /\ HeadersTyped /\ HeadersLinked(headers)
      /\ PreRootFound /\ ancestors = InsertedHeaders(headers)
  BY <1>1, BuildingFacts, LinkingFacts DEF StageInv
<1>3. match <=> ValidTransition(si)
  <2>1. executed.ok <=> /\ Stored(payload.number - 1, payload.parentHash) # {}
                        /\ ExecutionOutcome.ok
                        /\ RequestsHashOk(ExecutionOutcome.items)
    BY <1>1
  <2>2. executed.delta = ExecutionOutcome.delta
    BY <1>1
  <2>. QED
    BY <1>2, <2>1, <2>2, PreparedFacts, VerifyDecides
<1>4. match <=> Accepts(si)
  BY <1>1, <1>2, <1>3
     DEF Accepts, AllDecodable, HashesComputed, payload, headers
<1>5. result' = [root    |-> HtrNewPayloadRequest(si.request),
                 success |-> match,
                 config  |-> ConfigSlice(wire)]
  BY <1>2 DEF VerifyStateRoot, Prepared
<1>6. match = Accepts(si)
  BY <1>4 DEF Accepts
<1>7. result' = Verdict(wire)
  BY <1>2, <1>5, <1>6 DEF Prepared, Decodes, Verdict
<1>8. match => RequestsHashOk(executed.items)
  BY <1>1
<1>9. Answered'
  <2>1. result'.success = match
    BY <1>5
  <2>2. result'.success => RequestsHashOk(executed.items)'
    BY <1>1, <1>8, <2>1 DEF VerifyStateRoot, RequestsHashOk
  <2>3. si' = DecodeBySchema(wire') /\ txs' = payload'.txs
    BY <1>1, <1>2 DEF VerifyStateRoot, Prepared, payload
  <2>4. result' = Verdict(wire)'
    BY <1>1, <1>7
  <2>. QED
    BY <2>2, <2>3, <2>4 DEF Answered
<1>10. TypeOK'
  <2>1. result'.success \in BOOLEAN
    BY <1>5
  <2>2. result'.config \in ConfigSpan
    BY <1>2, <1>5, ValidInput DEF TypeOK, Prepared, Decodes
  <2>. QED
    BY <1>1, <1>2, <2>1, <2>2, EmptyOutput DEF TypeOK, Stages
<1>11. StageInv'
  BY <1>1, <1>2, <1>9
     DEF StageInv, Validating, Counting, Linking, Searching, Loading,
         Building, Verifying
<1>. QED
  BY <1>10, <1>11

\* Every verdict is a record whose chain config is small: the largest one
\* either schema accepts, or a default.
LEMMA VerdictType ==
    ASSUME NEW w, IsWire(w)
    PROVE  LET r == Verdict(w)
           IN  /\ r = [root    |-> r.root, success |-> r.success,
                       config  |-> r.config]
               /\ r.config.len \in Nat
               /\ r.config.len <= 76
<1>1. CASE IsKnownSchema(w) /\ DecodeBySchema(w).valid
  <2>1. Verdict(w) = [root    |-> HtrNewPayloadRequest(DecodeBySchema(w).request),
                      success |-> Accepts(DecodeBySchema(w)),
                      config  |-> ConfigSlice(w)]
    BY <1>1 DEF Verdict
  <2>. QED
    BY <1>1, <2>1, ValidInput DEF ConfigSpan
<1>2. CASE ~ (IsKnownSchema(w) /\ DecodeBySchema(w).valid)
  <2>1. \E schema : Verdict(w) = DefaultFailure(schema)
    BY <1>2 DEF Verdict
  <2>2. PICK schema : Verdict(w) = DefaultFailure(schema)
    BY <2>1
  <2>3. DefaultFailure(schema) = [root    |-> DefaultFailure(schema).root,
                                  success |-> DefaultFailure(schema).success,
                                  config  |-> DefaultFailure(schema).config]
    BY DEF DefaultFailure
  <2>. QED
    BY <2>2, <2>3, DefaultConfigs
<1>. QED
  BY <1>1, <1>2

\* The buffer of main.cpp is large enough for it.
LEMMA VerdictFits ==
    ASSUME NEW w, IsWire(w)
    PROVE  Fits(Verdict(w))
  BY VerdictType, LimitsAssumption DEF Fits, EncodedLen, ENCODED_FIXED

\* main writes the answer, which fits its buffer.
LEMMA EncodeAndWriteInv ==
    ASSUME TypeOK, StageInv, EncodeAndWrite
    PROVE  TypeOK' /\ StageInv'
<1>1. /\ pc = "encode" /\ pc' = "done" /\ out = << >> /\ Answered
      /\ UNCHANGED <<wire, si, hashes, k, preRoot, ancestors, txs, executed,
                     result>>
  BY DEF StageInv, EncodeAndWrite
<1>2. Fits(result)
  BY <1>1, VerdictFits DEF Answered, TypeOK
<1>3. out' = <<result>>
  BY <1>1, <1>2 DEF EncodeAndWrite
<1>4. Answered'
  BY <1>1 DEF Answered, RequestsHashOk, payload
<1>5. StageInv'
  BY <1>1, <1>3, <1>4
     DEF StageInv, Validating, Counting, Linking, Searching, Loading,
         Building, Verifying
<1>6. TypeOK'
  <2>1. result = [root |-> result.root, success |-> result.success,
                  config |-> result.config]
    BY <1>1, VerdictType DEF Answered, TypeOK
  <2>2. out' \in Seq([root: {result.root}, success: {result.success},
                      config: {result.config}])
    BY <1>3, <2>1
  <2>. QED
    BY <1>1, <2>2 DEF TypeOK, Stages
<1>. QED
  BY <1>5, <1>6
-----------------------------------------------------------------------------
(***************************************************************************)
(* The theorems.                                                           *)
(***************************************************************************)

\* Every step of the program keeps the invariant.
LEMMA NextInv ==
    ASSUME TypeOK, StageInv, [Next]_vars
    PROVE  TypeOK' /\ StageInv'
<1>1. CASE RejectSchema
  BY <1>1, RejectSchemaInv
<1>2. CASE DecodeLegacy \/ DecodeAmsterdam01
  BY <1>2, DecodeInv
<1>3. CASE CheckChainConfig
  BY <1>3, CheckChainConfigInv
<1>4. CASE CheckHeaderCount
  BY <1>4, CheckHeaderCountInv
<1>5. CASE CheckHeader
  BY <1>5, CheckHeaderInv
<1>6. CASE HeadersChecked
  BY <1>6, HeadersCheckedInv
<1>7. CASE FindParent
  BY <1>7, FindParentInv
<1>8. CASE SkipHeader
  BY <1>8, SkipHeaderInv
<1>9. CASE NoParent
  BY <1>9, NoParentInv
<1>10. CASE LoadAncestors
  BY <1>10, LoadAncestorsInv
<1>11. CASE DecodeTransaction
  BY <1>11, DecodeTransactionInv
<1>12. CASE TransactionsDecoded
  BY <1>12, TransactionsDecodedInv
<1>13. CASE ExecuteBlock
  BY <1>13, ExecuteBlockInv
<1>14. CASE VerifyStateRoot
  BY <1>14, VerifyStateRootInv
<1>15. CASE EncodeAndWrite
  BY <1>15, EncodeAndWriteInv
<1>16. CASE UNCHANGED vars
  <2>1. UNCHANGED <<wire, pc, si, hashes, k, preRoot, ancestors, txs, executed,
                    result, out>>
    BY <1>16 DEF vars
  <2>2. TypeOK'
    BY <2>1 DEF TypeOK
  <2>3. /\ headers' = headers /\ payload' = payload
        /\ Prepared' <=> Prepared
        /\ HashesComputed' <=> HashesComputed
        /\ PreRootFound' <=> PreRootFound
        /\ LinkedBelow(k)' <=> LinkedBelow(k)
        /\ NoMatchBelow(k)' <=> NoMatchBelow(k)
    BY <2>1, InputKept DEF LinkedBelow, NoMatchBelow, LinkOk, MatchesParent,
                           headers, payload
  <2>4. /\ Answered' <=> Answered
        /\ ForkIsActive(si.config, payload)' <=> ForkIsActive(si.config, payload)
        /\ HeadersLinked(headers)' <=> HeadersLinked(headers)
        /\ AllDecodable' <=> AllDecodable
        /\ ExecutionOutcome' = ExecutionOutcome
        /\ InsertedHeaders(headers)' = InsertedHeaders(headers)
        /\ Stored(payload.number - 1, payload.parentHash)'
             = Stored(payload.number - 1, payload.parentHash)
        /\ RequestsHashOk(ExecutionOutcome.items)'
             = RequestsHashOk(ExecutionOutcome.items)
    BY <2>1 DEF Answered, ForkIsActive, HeadersLinked, AllDecodable,
                ExecutionOutcome, InsertedHeaders, Stored, RequestsHashOk,
                payload, headers
  <2>5. StageInv'
    BY <2>1, <2>3, <2>4 DEF StageInv
  <2>. QED
    BY <2>2, <2>5
<1>. QED
  BY <1>1, <1>2, <1>3, <1>4, <1>5, <1>6, <1>7, <1>8, <1>9, <1>10, <1>11,
     <1>12, <1>13, <1>14, <1>15, <1>16 DEF Next, Step, Terminated

\* The program's variables keep their types, and every stage is reached only
\* with what the ones before it have checked (run_stateless_guest).
THEOREM StagesHold == Spec => [](TypeOK /\ StageInv)
<1>1. Init => TypeOK /\ StageInv
  BY InitInv
<1>2. TypeOK /\ StageInv /\ [Next]_vars => (TypeOK /\ StageInv)'
  BY NextInv
<1>. QED
  BY <1>1, <1>2, PTL DEF Spec

\* Type correctness of the guest (run_stateless_guest, main).
THEOREM TypeCorrect == Spec => []TypeOK
  BY StagesHold, PTL

\* A block that executed did so on the state its updates are checked against:
\* the root found by hash is the root found by number and hash
\* (stateless.cpp:782-798 against the header lookup before the final check).
THEOREM ParentStatesAgree == Spec => []SameParentState
<1>1. TypeOK /\ StageInv => SameParentState
  <2>. SUFFICES ASSUME TypeOK, StageInv, pc = "verify", executed.ok
                PROVE  PrevRoot = preRoot
    BY DEF SameParentState
  <2>1. pc \in Building
    BY DEF Building, Verifying
  <2>2. /\ HashesComputed /\ PreRootFound /\ HeadersTyped
        /\ ancestors = InsertedHeaders(headers) /\ payload.number \in Nat
    BY <2>1, BuildingFacts, LinkingFacts, PreparedFacts
  <2>3. Stored(payload.number - 1, payload.parentHash) # {}
    BY DEF StageInv
  <2>4. \E i \in 1..Len(headers) : IsParent(headers[i], payload)
    BY <2>2, <2>3, StoredIsParent
  <2>. QED
    BY <2>2, <2>4, SameRoot
<1>. QED
  BY <1>1, StagesHold, PTL

\* Only when the answer is final can it be an acceptance.
LEMMA AcceptedIsAnswered ==
    ASSUME TypeOK, StageInv, result.success
    PROVE  Answered
<1>1. CASE pc \in Validating
  BY <1>1 DEF StageInv, Prepared
<1>2. CASE pc \in {"encode", "done"}
  BY <1>2 DEF StageInv
<1>3. pc # "decode"
  BY DEF StageInv
<1>. QED
  BY <1>1, <1>2, <1>3 DEF TypeOK, Stages, Validating, Counting, Linking, Searching,
                    Loading, Building, Verifying

\* An accepted block is executed with the transactions of its request root,
\* all of them, in order (stateless.cpp:864-878).
THEOREM CommittedBlockExecuted == Spec => []ExecutesCommittedBlock
<1>1. TypeOK /\ StageInv => ExecutesCommittedBlock
  BY AcceptedIsAnswered DEF Answered, ExecutesCommittedBlock
<1>. QED
  BY <1>1, StagesHold, PTL

\* An accepted 0x1501 block produced the requests of its request root
\* (stateless.cpp:890-911).
THEOREM AcceptedRequestsMatchRoot == Spec => []RequestsMatchRoot
<1>1. TypeOK /\ StageInv => RequestsMatchRoot
  <2>. SUFFICES ASSUME TypeOK, StageInv, result.success,
                       si.schema = "Amsterdam01"
                PROVE  /\ result.root = HtrNewPayloadRequest(si.request)
                       /\ executed.items = result.root[2]
    BY DEF RequestsMatchRoot
  <2>1. /\ result = Verdict(wire) /\ si = DecodeBySchema(wire)
        /\ RequestsHashOk(executed.items)
    BY AcceptedIsAnswered DEF Answered
  <2>2. IsKnownSchema(wire) /\ DecodeBySchema(wire).valid
    BY <2>1, DefaultConfigs DEF Verdict
  <2>3. result.root = HtrNewPayloadRequest(si.request)
    BY <2>1, <2>2 DEF Verdict
  <2>4. executed.items = si.request.requests.items
    BY <2>1 DEF RequestsHashOk
  <2>. QED
    BY <2>3, <2>4 DEF HtrNewPayloadRequest
<1>. QED
  BY <1>1, StagesHold, PTL

\* The public values always fit: main never writes an empty output because
\* encode_public_values returned 0 (main.cpp:26-31, stateless.cpp:976-992).
THEOREM OutputAlwaysFits == Spec => []AlwaysFits
<1>1. TypeOK /\ StageInv => AlwaysFits
  BY VerdictFits DEF TypeOK, StageInv, Answered, AlwaysFits
<1>. QED
  BY <1>1, StagesHold, PTL

\* Neither decoder reads outside its span (decode_chain_config, its 0x1501
\* variant, and the top-level slices of decode_stateless_input).
THEOREM DecodersReadInBounds == Spec => []ReadsInBounds
<1>1. TypeOK => ReadsInBounds
  <2>. SUFFICES ASSUME TypeOK PROVE ReadsInBounds
    OBVIOUS
  <2>1. /\ wire.len \in Nat /\ wire.offNpr \in Nat /\ wire.offWit \in Nat
        /\ wire.offCc \in Nat /\ wire.offPk \in Nat
        /\ wire.cc \in ConfigFields
    BY DEF TypeOK, IsWire
  <2>2. /\ ConfigSlice(wire).len = wire.offPk - wire.offCc
        /\ ConfigSlice(wire).len \in Int
        /\ ConfigSlice(wire).at \in ConfigFields
    BY <2>1 DEF ConfigSlice
  <2>. QED
    BY <2>1, <2>2, LegacyConfigReadsInBounds, Amsterdam01ConfigReadsInBounds,
       InputSlicesInBounds DEF ReadsInBounds
<1>. QED
  BY <1>1, TypeCorrect, PTL

\* The prepared root and chain config are what is answered, whichever return
\* is taken (stateless.cpp:681-690, 966-973).
THEOREM EchoNeverChanges == Spec => EchoIsStable
<1>1. TypeOK /\ StageInv /\ [Next]_vars =>
        [pc # "decode" =>
           /\ result'.root = result.root
           /\ result'.config = result.config
           /\ result'.success # result.success => pc = "verify"]_vars
  <2>. SUFFICES ASSUME StageInv, Next, pc # "decode"
                PROVE  /\ result'.root = result.root
                       /\ result'.config = result.config
                       /\ result'.success # result.success => pc = "verify"
    OBVIOUS
  <2>1. CASE VerifyStateRoot
    <3>1. pc = "verify" /\ Prepared
      BY <2>1 DEF VerifyStateRoot, StageInv, Validating, Counting, Linking,
                  Searching, Loading, Building, Verifying
    <3>. QED
      BY <2>1, <3>1 DEF VerifyStateRoot, Prepared
  <2>2. CASE ~ VerifyStateRoot
    <3>1. UNCHANGED result
      BY <2>2 DEF Next, Step, Terminated, vars, RejectSchema, DecodeLegacy,
                  DecodeAmsterdam01, CheckChainConfig, CheckHeaderCount,
                  CheckHeader, HeadersChecked, FindParent, SkipHeader,
                  NoParent, LoadAncestors, DecodeTransaction,
                  TransactionsDecoded, ExecuteBlock, EncodeAndWrite
    <3>. QED
      BY <3>1
  <2>. QED
    BY <2>1, <2>2
<1>. QED
  BY <1>1, StagesHold, PTL DEF Spec, EchoIsStable

\* The program is an implementation of the one-shot contract: it starts where
\* the contract starts, and each of its steps answers with the verdict of the
\* input or is invisible (main.cpp:19-33).
THEOREM ImplementsContract ==
    Spec => Contract!Init /\ [][Contract!Answer]_(Contract!cvars)
<1>1. Init => Contract!Init
  BY WiresAssumption DEF Init, Contract!Init
<1>2. TypeOK /\ StageInv /\ [Next]_vars
         => [Contract!Answer]_(Contract!cvars)
  <2>. SUFFICES ASSUME TypeOK, StageInv, [Next]_vars
                PROVE  [Contract!Answer]_(Contract!cvars)
    OBVIOUS
  <2>1. CASE EncodeAndWrite
    <3>1. out = << >> /\ result = Verdict(wire) /\ UNCHANGED wire
      BY <2>1 DEF EncodeAndWrite, StageInv, Answered
    <3>2. Fits(result)
      BY <3>1, VerdictFits DEF TypeOK
    <3>3. out' = <<Verdict(wire)>>
      BY <2>1, <3>1, <3>2 DEF EncodeAndWrite
    <3>. QED
      BY <3>1, <3>3 DEF Contract!Answer
  <2>2. CASE ~ EncodeAndWrite
    <3>1. UNCHANGED <<wire, out>>
      BY <2>2 DEF Next, Step, Terminated, vars, RejectSchema, DecodeLegacy,
                  DecodeAmsterdam01, CheckChainConfig, CheckHeaderCount,
                  CheckHeader, HeadersChecked, FindParent, SkipHeader,
                  NoParent, LoadAncestors, DecodeTransaction,
                  TransactionsDecoded, ExecuteBlock, VerifyStateRoot
    <3>. QED
      BY <3>1 DEF Contract!cvars
  <2>. QED
    BY <2>1, <2>2
<1>. QED
  BY <1>1, <1>2, StagesHold, PTL DEF Spec
=============================================================================
