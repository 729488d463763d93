---------------------------- MODULE StatelessGuest ----------------------------
(***************************************************************************)
(* The guest program: zkvm/common/main.cpp around run_stateless_guest and  *)
(* encode_public_values of core/src/stateless.cpp, one action per stage    *)
(* and one per iteration of the loops that can leave the function.         *)
(*                                                                         *)
(* As in the source, the failure answer (request root, FALSE, echoed chain *)
(* config) is prepared right after decoding; every early return hands it   *)
(* out as it is, and the last stage only sets its success flag.            *)
(***************************************************************************)
EXTENDS ValidationSpec

VARIABLES
    wire,       \* the private input
    pc,         \* the next stage
    si,         \* the decoded SszStatelessInput
    hashes,     \* keccak of every witness header, zero for an empty one
    k,          \* index of the loop in progress
    preRoot,    \* pre_state_root
    ancestors,  \* headers inserted into the WitnessState
    txs,        \* block.transactions
    executed,   \* result of insert_block: [ok, delta, items]
    result,     \* the StatelessValidatorOutput
    out         \* what write_output has appended

vars == <<wire, pc, si, hashes, k, preRoot, ancestors, txs, executed, result,
          out>>

Stages == {"decode", "config", "headerCount", "headers", "preState",
           "ancestors", "txs", "execute", "verify", "encode", "done"}

EmptyInput ==
    [valid   |-> FALSE,
     schema  |-> "Legacy0001",
     config  |-> DecodedConfig(DefaultChainConfig, 0, 0, FALSE),
     request |-> [payload  |-> ZeroPayload("ElectraFulu"),
                  requests |-> [items |-> NoItems, trailing |-> FALSE,
                                builder |-> FALSE]],
     witness |-> [nodes |-> << >>, headers |-> << >>]]

NotExecuted == [ok |-> FALSE, delta |-> ZeroHash, items |-> NoItems]

Init ==
    /\ wire \in Wires
    /\ pc = "decode"
    /\ si = EmptyInput
    /\ hashes = << >>
    /\ k = 0
    /\ preRoot = ZeroHash
    /\ ancestors = {}
    /\ txs = << >>
    /\ executed = NotExecuted
    /\ result = DefaultFailure("Unknown")
    /\ out = << >>

-----------------------------------------------------------------------------
payload == si.request.payload
headers == si.witness.headers

\* Under either default the chain config is that of the schema; too short an
\* input and an unknown schema get the Amsterdam one.
RejectSchema ==
    /\ pc = "decode"
    /\ \/ wire.len < SCHEMA_ID_SIZE
       \/ wire.schema \notin {"Legacy0001", "Amsterdam01"}
    /\ result' = DefaultFailure("Unknown")
    /\ pc' = "encode"
    /\ UNCHANGED <<wire, si, hashes, k, preRoot, ancestors, txs, executed, out>>

\* What decoding leads to: the default failure of the schema, or the prepared
\* failure and the checks.
AfterDecode(d) ==
    /\ si' = d
    /\ IF d.valid
       THEN /\ result' = [root    |-> HtrNewPayloadRequest(d.request),
                          success |-> FALSE,
                          config  |-> d.config.raw]
            /\ pc' = "config"
       ELSE /\ result' = DefaultFailure(wire.schema)
            /\ pc' = "encode"

DecodeLegacy ==
    /\ pc = "decode"
    /\ wire.len >= SCHEMA_ID_SIZE
    /\ wire.schema = "Legacy0001"
    /\ AfterDecode(DecodeStatelessInput(wire))
    /\ UNCHANGED <<wire, hashes, k, preRoot, ancestors, txs, executed, out>>

DecodeAmsterdam01 ==
    /\ pc = "decode"
    /\ wire.len >= SCHEMA_ID_SIZE
    /\ wire.schema = "Amsterdam01"
    /\ AfterDecode(DecodeStatelessInputAmsterdam01(wire))
    /\ UNCHANGED <<wire, hashes, k, preRoot, ancestors, txs, executed, out>>

\* Mistake: the block that activates the fork is still rejected.
ValidateChainConfigStrict(cfg, number, timestamp) ==
    /\ ~ (~ cfg.hasBn /\ ~ cfg.hasTs)
    /\ ~ (cfg.hasBn /\ number <= cfg.bn)
    /\ ~ (cfg.hasTs /\ timestamp < cfg.ts)

\* validate_chain_config, with its three early returns.
ValidateChainConfig(cfg, number, timestamp) ==
    /\ ~ (~ cfg.hasBn /\ ~ cfg.hasTs)
    /\ ~ (cfg.hasBn /\ number < cfg.bn)
    /\ ~ (cfg.hasTs /\ timestamp < cfg.ts)

\* Mistake: an inactive fork is answered like an undecodable input.
CheckChainConfigDefaulting ==
    /\ pc = "config"
    /\ IF ValidateChainConfig(si.config, payload.number, payload.timestamp)
       THEN pc' = "headerCount" /\ UNCHANGED result
       ELSE pc' = "encode" /\ result' = DefaultFailure(si.schema)
    /\ UNCHANGED <<wire, si, hashes, k, preRoot, ancestors, txs, executed, out>>

CheckChainConfig ==
    /\ pc = "config"
    /\ pc' = IF ValidateChainConfig(si.config, payload.number,
                                    payload.timestamp)
             THEN "headerCount" ELSE "encode"
    /\ UNCHANGED <<wire, si, hashes, k, preRoot, ancestors, txs, executed,
                   result, out>>

\* At most 256 headers; hash them all, then walk them from the second one.
CheckHeaderCount ==
    /\ pc = "headerCount"
    /\ IF Len(headers) > MAX_WITNESS_HEADERS
       THEN pc' = "encode" /\ UNCHANGED <<hashes, k>>
       ELSE /\ hashes' = [i \in 1..Len(headers) |-> KeccakOf(headers[i])]
            /\ k' = 2
            /\ pc' = "headers"
    /\ UNCHANGED <<wire, si, preRoot, ancestors, txs, executed, result, out>>

\* Mistake: a header that does not decode is not held against the chain.
LinkOkIfDecoded(i) ==
    \/ headers[i] = NoBytes
    \/ Header[headers[i]].ok => Header[headers[i]].parent = hashes[i - 1]

\* One iteration of the chain check; a zero-length entry is passed over.
LinkOk(i) ==
    \/ headers[i] = NoBytes
    \/ /\ Header[headers[i]].ok
       /\ Header[headers[i]].parent = hashes[i - 1]

CheckHeader ==
    /\ pc = "headers"
    /\ k <= Len(headers)
    /\ IF LinkOk(k)
       THEN k' = k + 1 /\ UNCHANGED pc
       ELSE pc' = "encode" /\ UNCHANGED k
    /\ UNCHANGED <<wire, si, hashes, preRoot, ancestors, txs, executed,
                   result, out>>

HeadersChecked ==
    /\ pc = "headers"
    /\ k > Len(headers)
    /\ k' = 1
    /\ pc' = "preState"
    /\ UNCHANGED <<wire, si, hashes, preRoot, ancestors, txs, executed,
                   result, out>>

-----------------------------------------------------------------------------
MatchesParent(i) ==
    headers[i] # NoBytes /\ hashes[i] = payload.parentHash

\* The first header whose hash is the payload's parent_hash supplies the
\* pre-state root, if it decodes; the search stops there either way.
FindParent ==
    /\ pc = "preState"
    /\ k <= Len(headers)
    /\ MatchesParent(k)
    /\ preRoot' = IF Header[headers[k]].ok THEN Header[headers[k]].root
                  ELSE preRoot
    /\ pc' = "ancestors"
    /\ UNCHANGED <<wire, si, hashes, k, ancestors, txs, executed, result, out>>

SkipHeader ==
    /\ pc = "preState"
    /\ k <= Len(headers)
    /\ ~ MatchesParent(k)
    /\ k' = k + 1
    /\ UNCHANGED <<wire, pc, si, hashes, preRoot, ancestors, txs, executed,
                   result, out>>

NoParent ==
    /\ pc = "preState"
    /\ k > Len(headers)
    /\ pc' = "ancestors"
    /\ UNCHANGED <<wire, si, hashes, k, preRoot, ancestors, txs, executed,
                   result, out>>

\* Mistake: zero-length entries are inserted too.
InsertedEntries(hs) == {hs[i] : i \in 1..Len(hs)}

\* Every header that decodes is inserted into the state under its number and
\* hash; the genesis block handed to Blockchain is headers[0], again, or a
\* header nobody's parent_hash can name.
InsertedHeaders(hs) ==
    {hs[i] : i \in {j \in 1..Len(hs) : hs[j] # NoBytes /\ Header[hs[j]].ok}}

LoadAncestors ==
    /\ pc = "ancestors"
    /\ ancestors' = InsertedHeaders(headers)
    /\ k' = 1
    /\ pc' = "txs"
    /\ UNCHANGED <<wire, si, hashes, preRoot, txs, executed, result, out>>

\* Mistake: a transaction that does not decode is skipped.
SkipUndecodable ==
    /\ pc = "txs"
    /\ k <= Len(payload.txs)
    /\ txs' = IF payload.txs[k] \in DecodableTx
              THEN Append(txs, payload.txs[k]) ELSE txs
    /\ k' = k + 1
    /\ UNCHANGED <<wire, pc, si, hashes, preRoot, ancestors, executed, result,
                   out>>

\* A transaction that does not decode fails the whole block.
DecodeTransaction ==
    /\ pc = "txs"
    /\ k <= Len(payload.txs)
    /\ IF payload.txs[k] \in DecodableTx
       THEN /\ txs' = Append(txs, payload.txs[k])
            /\ k' = k + 1
            /\ UNCHANGED pc
       ELSE pc' = "encode" /\ UNCHANGED <<txs, k>>
    /\ UNCHANGED <<wire, si, hashes, preRoot, ancestors, executed, result, out>>

TransactionsDecoded ==
    /\ pc = "txs"
    /\ k > Len(payload.txs)
    /\ pc' = "execute"
    /\ UNCHANGED <<wire, si, hashes, k, preRoot, ancestors, txs, executed,
                   result, out>>

-----------------------------------------------------------------------------
\* The time switches of silkworm::ChainConfig set to zero (always on).
ForkSwitches(schema, fork) ==
    {s \in {"osaka", "bpo1", "bpo2"} :
        fork >= CASE s = "osaka" -> FORK_OSAKA
                  [] s = "bpo1"  -> FORK_BPO1
                  [] s = "bpo2"  -> FORK_BPO2}
    \cup (IF schema = "Legacy0001" /\ fork >= FORK_AMSTERDAM
          THEN {"bpo3", "bpo4"} ELSE {})
    \cup (IF schema = "Amsterdam01" THEN {"amsterdam"} ELSE {})

\* State::read_header of the WitnessState.
Stored(number, hash) ==
    {b \in ancestors : b = hash /\ Header[b].number = number}

\* Mistake: no requests hash in the header, as on the legacy path.
RequestsHashAbsent(produced) == TRUE

\* Only under 0x1501 does the header carry a requests hash, computed from the
\* raw spans; insert_block compares it with the requests the block produced.
RequestsHashOk(produced) ==
    si.schema = "Amsterdam01" =>
        <<si.request.requests.items, si.request.requests.trailing>>
            = <<produced, FALSE>>

\* blockchain.insert_block(block, check_state_root = false).  A block whose
\* parent header is not in the state is not valid.
ExecuteBlock ==
    /\ pc = "execute"
    /\ LET e == Execution(preRoot, ForkSwitches(si.schema, si.config.fork),
                          [payload EXCEPT !.txs = txs], si.witness)
       IN  executed' = [ok    |-> /\ Stored(payload.number - 1,
                                            payload.parentHash) # {}
                                  /\ e.ok
                                  /\ RequestsHashOk(e.items),
                        delta |-> e.delta,
                        items |-> e.items]
    /\ pc' = "verify"
    /\ UNCHANGED <<wire, si, hashes, k, preRoot, ancestors, txs, result, out>>

\* Mistake: the parent is assumed to be the first witness header.
FirstHeaderRoot ==
    IF headers = << >> \/ headers[1] = NoBytes THEN ZeroHash
    ELSE Header[headers[1]].root

\* The trie the updates are applied to is that of the stored parent header,
\* looked up by number and hash; without one it is the zero root.
PrevRoot ==
    LET found == Stored(payload.number - 1, payload.parentHash)
    IN  IF found = {} THEN ZeroHash
        ELSE Header[CHOOSE b \in found : TRUE].root

VerifyStateRoot ==
    /\ pc = "verify"
    /\ result' = [result EXCEPT !.success =
                     /\ executed.ok
                     /\ PostRoot(PrevRoot, executed.delta) = payload.stateRoot]
    /\ pc' = "encode"
    /\ UNCHANGED <<wire, si, hashes, k, preRoot, ancestors, txs, executed, out>>

\* encode_public_values returns 0 when the result does not fit, and then
\* write_output appends nothing.
Fits(r) == EncodedLen(r) <= MAX_PUBLIC_VALUES_SIZE

EncodeAndWrite ==
    /\ pc = "encode"
    /\ out' = IF Fits(result) THEN Append(out, result) ELSE out
    /\ pc' = "done"
    /\ UNCHANGED <<wire, si, hashes, k, preRoot, ancestors, txs, executed,
                   result>>

\* main has returned 0.
Terminated == pc = "done" /\ UNCHANGED vars

Step ==
    \/ RejectSchema \/ DecodeLegacy \/ DecodeAmsterdam01
    \/ CheckChainConfig \/ CheckHeaderCount \/ CheckHeader \/ HeadersChecked
    \/ FindParent \/ SkipHeader \/ NoParent \/ LoadAncestors
    \/ DecodeTransaction \/ TransactionsDecoded
    \/ ExecuteBlock \/ VerifyStateRoot \/ EncodeAndWrite

Next == Step \/ Terminated

\* One thread runs the program to its end.
Spec == Init /\ [][Next]_vars /\ WF_vars(Step)

-----------------------------------------------------------------------------
(***************************************************************************)
(* Properties                                                              *)
(***************************************************************************)

\* The values of the program's variables at every stage boundary.
TypeOK ==
    /\ IsWire(wire)
    /\ pc \in Stages
    /\ k \in Nat
    /\ ancestors \subseteq HeaderBytes
    /\ txs \in Seq(DecodableTx)
    /\ executed.ok \in BOOLEAN
    /\ result.success \in BOOLEAN
    /\ result.config \in ConfigSpan
    /\ out \in Seq([root: {result.root}, success: {result.success},
                    config: {result.config}])

\* The guest implements the contract: one answer, the verdict of the input,
\* and it does come (run_stateless_guest and main, as stateless.hpp promises).
Contract == INSTANCE StatelessContract
            WITH IsInput <- IsWire, VerdictOf <- Verdict,
                 input <- wire, output <- out
Implements == Contract!Spec

\* Execution starts from a state root found by hash alone, verification
\* applies its updates to a root found by number and hash: for a block that
\* executed, the two lookups must have found the same state.
SameParentState ==
    pc = "verify" /\ executed.ok => PrevRoot = preRoot

\* No transaction the request root commits to is left out of, repeated in or
\* reordered in the block that was executed successfully.
ExecutesCommittedBlock ==
    result.success => txs = payload.txs

\* Under 0x1501 an accepted block produced exactly the execution requests its
\* request root commits to, although the comparison is made on raw bytes and
\* the root on whole items.
RequestsMatchRoot ==
    /\ result.success
    /\ si.schema = "Amsterdam01"
    => /\ result.root = HtrNewPayloadRequest(si.request)
       /\ executed.items = result.root[2]

\* A result always fits the buffer main.cpp hands to encode_public_values, so
\* the 0 return that would commit an empty output is unreachable.
AlwaysFits == pc = "encode" => Fits(result)

\* Whichever early return is taken, the root and the echoed chain config
\* prepared after decoding are what is answered; only the success flag is set
\* afterwards, once, by the last stage.
EchoIsStable ==
    [][pc # "decode" =>
         /\ result'.root = result.root
         /\ result'.config = result.config
         /\ result'.success # result.success => pc = "verify"]_vars

\* Every field read from the chain config, and every slice of the input, lies
\* inside the bytes it is taken from.
ReadsInBounds ==
    /\ \A r \in LegacyConfigReads(ConfigSlice(wire)) \cup
                Amsterdam01ConfigReads(ConfigSlice(wire)) :
           r[1] >= 0 /\ r[1] + r[2] <= wire.offPk - wire.offCc
    /\ \A s \in InputSlices(wire) :
           0 <= s[1] /\ s[1] <= s[2] /\ s[2] <= BodyLen(wire)

-----------------------------------------------------------------------------
(***************************************************************************)
(* The inductive invariant: what each stage may rely on.  A stage is only  *)
(* reached when every check before it has passed, so the early returns are *)
(* exactly the inputs the verdict rejects.                                 *)
(***************************************************************************)
Verifying  == {"execute", "verify"}
Building   == {"txs"} \cup Verifying
Loading    == {"ancestors"} \cup Building
Searching  == {"preState"} \cup Loading
Linking    == {"headers"} \cup Searching
Counting   == {"headerCount"} \cup Linking
Validating == {"config"} \cup Counting

\* The input has decoded and the failure answer for it is prepared.
Prepared ==
    /\ Decodes(wire)
    /\ si = DecodeBySchema(wire)
    /\ result = [root    |-> HtrNewPayloadRequest(si.request),
                 success |-> FALSE,
                 config  |-> ConfigSlice(wire)]

HashesComputed ==
    /\ Len(headers) <= MAX_WITNESS_HEADERS
    /\ hashes = [i \in 1..Len(headers) |-> KeccakOf(headers[i])]

LinkedBelow(n) ==
    \A i \in 2..Len(headers) : i < n => LinkOk(i)

NoMatchBelow(n) ==
    \A i \in 1..Len(headers) : i < n => ~ MatchesParent(i)

\* pre_state_root is that of the header named by parent_hash, zero without.
PreRootFound ==
    \/ preRoot = ZeroHash /\ NoMatchBelow(Len(headers) + 1)
    \/ \E i \in 1..Len(headers) :
          /\ MatchesParent(i)
          /\ preRoot = IF Header[headers[i]].ok THEN Header[headers[i]].root
                       ELSE ZeroHash

AllDecodable ==
    \A i \in 1..Len(payload.txs) : payload.txs[i] \in DecodableTx

ExecutionOutcome ==
    Execution(preRoot, ForkSwitches(si.schema, si.config.fork), payload,
              si.witness)

\* The answer is the verdict, and an accepting one was earned.
Answered ==
    /\ result = Verdict(wire)
    /\ result.success =>
         /\ si = DecodeBySchema(wire)
         /\ txs = payload.txs
         /\ RequestsHashOk(executed.items)

StageInv ==
    /\ pc = "decode" => /\ out = << >>
                        /\ txs = << >>
                        /\ preRoot = ZeroHash
                        /\ ~ result.success
    /\ pc \in Validating => Prepared /\ out = << >>
    /\ pc \in Counting => ForkIsActive(si.config, payload)
    /\ pc \in Linking => HashesComputed
    /\ pc = "headers" => k >= 2 /\ LinkedBelow(k)
    /\ pc \in Searching => HeadersLinked(headers)
    /\ pc = "preState" => k >= 1 /\ NoMatchBelow(k)
    /\ pc \in Validating \ Loading => preRoot = ZeroHash
    /\ pc \in Loading => PreRootFound
    /\ pc \in Building => ancestors = InsertedHeaders(headers)
    /\ pc \in Validating \ Building => txs = << >>
    /\ pc = "txs" => /\ k \in 1..(Len(payload.txs) + 1)
                     /\ Len(txs) = k - 1
                     /\ \A i \in 1..(k - 1) : txs[i] = payload.txs[i]
    /\ pc \in Verifying => txs = payload.txs /\ AllDecodable
    /\ pc = "verify" =>
         executed = [ok    |-> /\ Stored(payload.number - 1,
                                         payload.parentHash) # {}
                               /\ ExecutionOutcome.ok
                               /\ RequestsHashOk(ExecutionOutcome.items),
                     delta |-> ExecutionOutcome.delta,
                     items |-> ExecutionOutcome.items]
    /\ pc = "encode" => out = << >>
    /\ pc = "done" => out = <<result>>
    /\ pc \in {"encode", "done"} => Answered

-----------------------------------------------------------------------------
(***************************************************************************)
(* Statements of the repository that the program does not meet             *)
(***************************************************************************)

\* stateless.hpp:48-54: "an input that fails to decode yields the canonical
\* default failure output (zero root, `false`, default chain config)".  A
\* request span too short for its own fixed part cannot be decoded.
ShortRequestIsDefault ==
    /\ pc = "done"
    /\ IsKnownSchema(wire)
    /\ OffsetsOrdered(wire)
    /\ wire.offWit - wire.offNpr < NPR_FIXED
    => out = <<DefaultFailure(wire.schema)>>

\* stateless.cpp:759: "Check each header's parent_hash equals hash of the
\* preceding header."
EveryHeaderLinked ==
    result.success =>
        \A i \in 2..Len(headers) :
            /\ headers[i] # NoBytes
            /\ Header[headers[i]].parent = KeccakOf(headers[i - 1])
=============================================================================
