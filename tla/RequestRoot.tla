------------------------------ MODULE RequestRoot ------------------------------
(***************************************************************************)
(* new_payload_request_root: the htr_* functions of core/src/stateless.cpp *)
(* field by field, the SSZ type they are meant to follow, and guests that  *)
(* commit to the root of their request.                                    *)
(*                                                                         *)
(* Byte vectors and byte lists are sequences of bytes, integers are        *)
(* numbers below the base of a byte; a request has the fields of its C++   *)
(* structs.  Each guest is a process of its own, which starts with an      *)
(* empty table of zero subtrees.  Every list of a request is merkleized    *)
(* with the table that the calls before the request have left; that the    *)
(* rows its own lists add make no difference is RootsMatchSsz, for every   *)
(* table a process can have.                                               *)
(***************************************************************************)
EXTENDS ZeroLadder

CONSTANTS
    MAX_EXTRA_DATA_BYTES, MAX_BYTES_PER_TRANSACTION,
    MAX_TRANSACTIONS_PER_PAYLOAD, MAX_WITHDRAWALS_PER_PAYLOAD,
    MAX_BLOB_COMMITMENTS_PER_BLOCK, MAX_DEPOSIT_REQUESTS_PER_PAYLOAD,
    MAX_WITHDRAWAL_REQUESTS_PER_PAYLOAD,
    MAX_CONSOLIDATION_REQUESTS_PER_PAYLOAD,
    MAX_BUILDER_DEPOSIT_REQUESTS_PER_PAYLOAD,
    MAX_BUILDER_EXIT_REQUESTS_PER_PAYLOAD,
    MAX_BLOCK_ACCESS_LIST_BYTES, BAL_HTR_LIMIT_AMSTERDAM01,
    AddressSize, PubkeySize, SignatureSize, BloomSize,      \* in bytes
    Requests,           \* the requests guests are given
    MaxRuns             \* bound: guests run one after the other

-----------------------------------------------------------------------------
(***************************************************************************)
(* The structs of a request.  The longest vector, the bloom of a block, is *)
(* eight chunks long.                                                      *)
(***************************************************************************)
Byte      == 0..255
Vector(n) == [1..n -> Byte]
Address20 == Vector(AddressSize)
Hash32    == Vector(BYTES_PER_CHUNK)
Pubkey    == Vector(PubkeySize)
Signature == Vector(SignatureSize)

Withdrawals == [index : Byte, validator_index : Byte, address : Address20, amount : Byte]

DepositRequests == [pubkey : Pubkey, withdrawal_credentials : Hash32, amount : Byte,
                    signature : Signature, index : Byte]

WithdrawalRequests == [source_address : Address20, validator_pubkey : Pubkey, amount : Byte]

ConsolidationRequests == [source_address : Address20, source_pubkey : Pubkey,
                          target_pubkey : Pubkey]

BuilderDepositRequests == [pubkey : Pubkey, withdrawal_credentials : Hash32,
                           amount : Byte, signature : Signature]

BuilderExitRequests == [source_address : Address20, pubkey : Pubkey]

AllExecutionRequests ==
    [deposits : Seq(DepositRequests), withdrawals : Seq(WithdrawalRequests),
     consolidations : Seq(ConsolidationRequests),
     builder_deposits : Seq(BuilderDepositRequests),
     builder_exits : Seq(BuilderExitRequests),
     has_builder_requests : BOOLEAN]

Payloads ==
    [shape : {"ElectraFulu", "Gloas"}, bal_htr_limit : Nat,
     parent_hash : Hash32, fee_recipient : Address20, state_root : Hash32,
     receipts_root : Hash32, logs_bloom : Vector(BloomSize), prev_randao : Hash32,
     block_number : Byte, gas_limit : Byte, gas_used : Byte, timestamp : Byte,
     extra_data : Seq(Byte), base_fee_per_gas : Hash32, block_hash : Hash32,
     transactions : Seq(Seq(Byte)), withdrawals : Seq(Withdrawals),
     blob_gas_used : Byte, excess_blob_gas : Byte,
     block_access_list : Seq(Byte), slot_number : Byte]

AllRequests ==
    [execution_payload : Payloads, versioned_hashes : Seq(Hash32),
     parent_beacon_block_root : Hash32, execution_requests : AllExecutionRequests]

\* The schemas: builder requests are those of schema 0x1501, whose payload has
\* the shape of Gloas and a limit of its own for the block access list; fields
\* that a shape or schema lacks keep their initial values.
OfSchema(r) ==
    LET p  == r.execution_payload
        er == r.execution_requests
    IN  /\ p.bal_htr_limit = IF er.has_builder_requests THEN BAL_HTR_LIMIT_AMSTERDAM01
                             ELSE MAX_BLOCK_ACCESS_LIST_BYTES
        /\ er.has_builder_requests => p.shape = "Gloas"
        /\ ~ er.has_builder_requests =>
                er.builder_deposits = << >> /\ er.builder_exits = << >>
        /\ p.shape = "ElectraFulu" => p.block_access_list = << >> /\ p.slot_number = 0

ASSUME RequestsAssumption ==
    /\ LEVELS >= 4
    /\ \A size \in {AddressSize, PubkeySize, SignatureSize, BloomSize} :
            size \in 1..(8 * BYTES_PER_CHUNK)
    /\ \A max \in {MAX_EXTRA_DATA_BYTES, MAX_BYTES_PER_TRANSACTION,
                    MAX_BLOCK_ACCESS_LIST_BYTES, BAL_HTR_LIMIT_AMSTERDAM01} :
            max \in Nat /\ Limit(CeilDiv(max, BYTES_PER_CHUNK))
    /\ \A max \in {MAX_TRANSACTIONS_PER_PAYLOAD, MAX_WITHDRAWALS_PER_PAYLOAD,
                    MAX_BLOB_COMMITMENTS_PER_BLOCK, MAX_DEPOSIT_REQUESTS_PER_PAYLOAD,
                    MAX_WITHDRAWAL_REQUESTS_PER_PAYLOAD,
                    MAX_CONSOLIDATION_REQUESTS_PER_PAYLOAD,
                    MAX_BUILDER_DEPOSIT_REQUESTS_PER_PAYLOAD,
                    MAX_BUILDER_EXIT_REQUESTS_PER_PAYLOAD} : Limit(max)
    /\ \A r \in Requests : r \in AllRequests /\ OfSchema(r)

VARIABLE runs           \* what each guest was given and committed to

requestVars == <<ladder, runs>>

-----------------------------------------------------------------------------
MerkleRoot(chunks, max) == Merkleize(table, chunks, max).root

htr_uint64(v)         == Pack(<<v>>)[1]
htr_uint256(v)        == Pack(v)[1]
htr_byte_vector(v)    == IF Len(v) <= BYTES_PER_CHUNK THEN Pack(v)[1]
                         ELSE MerkleizeChunks(table, Pack(v)).root
htr_container(fields) == MerkleizeChunks(table, fields).root

htr_byte_list(v, max) ==
    MixInLength(MerkleRoot(Pack(v), CeilDiv(max, BYTES_PER_CHUNK)), Len(v))

\* Mistake: the number of items is not mixed in.
ListRootNoLength(roots, max) == MerkleRoot(roots, max)

ListRoot(roots, max) == MixInLength(MerkleRoot(roots, max), Len(roots))

htr_withdrawal(w) == htr_container(
    <<htr_uint64(w.index), htr_uint64(w.validator_index),
      htr_byte_vector(w.address), htr_uint64(w.amount)>>)

htr_deposit_request(d) == htr_container(
    <<htr_byte_vector(d.pubkey), htr_uint256(d.withdrawal_credentials),
      htr_uint64(d.amount), htr_byte_vector(d.signature), htr_uint64(d.index)>>)

htr_withdrawal_request(w) == htr_container(
    <<htr_byte_vector(w.source_address), htr_byte_vector(w.validator_pubkey),
      htr_uint64(w.amount)>>)

htr_consolidation_request(c) == htr_container(
    <<htr_byte_vector(c.source_address), htr_byte_vector(c.source_pubkey),
      htr_byte_vector(c.target_pubkey)>>)

htr_builder_deposit_request(d) == htr_container(
    <<htr_byte_vector(d.pubkey), htr_uint256(d.withdrawal_credentials),
      htr_uint64(d.amount), htr_byte_vector(d.signature)>>)

htr_builder_exit_request(e) == htr_container(
    <<htr_byte_vector(e.source_address), htr_byte_vector(e.pubkey)>>)

LegacyLists(er) ==
    <<ListRoot([i \in DOMAIN er.deposits |-> htr_deposit_request(er.deposits[i])],
               MAX_DEPOSIT_REQUESTS_PER_PAYLOAD),
      ListRoot([i \in DOMAIN er.withdrawals |-> htr_withdrawal_request(er.withdrawals[i])],
               MAX_WITHDRAWAL_REQUESTS_PER_PAYLOAD),
      ListRoot([i \in DOMAIN er.consolidations |-> htr_consolidation_request(er.consolidations[i])],
               MAX_CONSOLIDATION_REQUESTS_PER_PAYLOAD)>>

BuilderLists(er) ==
    <<ListRoot([i \in DOMAIN er.builder_deposits |-> htr_builder_deposit_request(er.builder_deposits[i])],
               MAX_BUILDER_DEPOSIT_REQUESTS_PER_PAYLOAD),
      ListRoot([i \in DOMAIN er.builder_exits |-> htr_builder_exit_request(er.builder_exits[i])],
               MAX_BUILDER_EXIT_REQUESTS_PER_PAYLOAD)>>

\* Three lists under the legacy schema, five with builder requests.
htr_execution_requests(er) ==
    htr_container(IF er.has_builder_requests THEN LegacyLists(er) \o BuilderLists(er)
                  ELSE LegacyLists(er))

\* The roots of the fields both payload shapes have.
CommonFields(p) ==
    <<htr_uint256(p.parent_hash), htr_byte_vector(p.fee_recipient),
      htr_uint256(p.state_root), htr_uint256(p.receipts_root),
      htr_byte_vector(p.logs_bloom), htr_uint256(p.prev_randao),
      htr_uint64(p.block_number), htr_uint64(p.gas_limit),
      htr_uint64(p.gas_used), htr_uint64(p.timestamp),
      htr_byte_list(p.extra_data, MAX_EXTRA_DATA_BYTES),
      htr_uint256(p.base_fee_per_gas), htr_uint256(p.block_hash),
      ListRoot([i \in DOMAIN p.transactions |->
                    htr_byte_list(p.transactions[i], MAX_BYTES_PER_TRANSACTION)],
               MAX_TRANSACTIONS_PER_PAYLOAD),
      ListRoot([i \in DOMAIN p.withdrawals |-> htr_withdrawal(p.withdrawals[i])],
                     MAX_WITHDRAWALS_PER_PAYLOAD),
      htr_uint64(p.blob_gas_used), htr_uint64(p.excess_blob_gas)>>

GloasFields(p) ==
    <<htr_byte_list(p.block_access_list, p.bal_htr_limit), htr_uint64(p.slot_number)>>

htr_execution_payload(p) ==
    htr_container(IF p.shape = "Gloas" THEN CommonFields(p) \o GloasFields(p)
                  ELSE CommonFields(p))

htr_new_payload_request(r) ==
    htr_container(<<htr_execution_payload(r.execution_payload),
                    ListRoot([i \in DOMAIN r.versioned_hashes |->
                                 htr_uint256(r.versioned_hashes[i])],
                             MAX_BLOB_COMMITMENTS_PER_BLOCK),
                    htr_uint256(r.parent_beacon_block_root),
                    htr_execution_requests(r.execution_requests)>>)

-----------------------------------------------------------------------------
(***************************************************************************)
(* The SSZ types of the specification the structs are annotated with, and  *)
(* hash_tree_root as SSZ defines it for every type.                        *)
(***************************************************************************)
UInt             == [kind |-> "uint"]
Bytes            == [kind |-> "vector"]
ByteList(max)    == [kind |-> "bytes", limit |-> max]
List(of, max)    == [kind |-> "list", of |-> of, limit |-> max]
Container(fields) == [kind |-> "container", fields |-> fields]

\* hash_tree_root of a value, by the roots of its elements or fields.
SszRootOf(ElementRoot(_, _), type, v) ==
    CASE type.kind = "uint"   -> Pack(<<v>>)[1]
      [] type.kind = "vector" -> SszMerkleize(Pack(v), Len(Pack(v)))
      [] type.kind = "bytes"  ->
             MixInLength(SszMerkleize(Pack(v), CeilDiv(type.limit, BYTES_PER_CHUNK)),
                         Len(v))
      [] type.kind = "list"   ->
             MixInLength(SszMerkleize([i \in DOMAIN v |-> ElementRoot(type.of, v[i])],
                                      type.limit), Len(v))
      [] type.kind = "container" ->
             SszMerkleize([i \in DOMAIN type.fields |->
                              ElementRoot(type.fields[i][2], v[type.fields[i][1]])],
                          Len(type.fields))

\* No type of a request is nested deeper: a request has a payload, the payload
\* lists, the lists containers, and these have fields that are basic.
NoElements(type, v)     == ZeroHash
SszRootOfBasic(type, v) == SszRootOf(NoElements, type, v)
SszRootOfItem(type, v)  == SszRootOf(SszRootOfBasic, type, v)
SszRootOfList(type, v)  == SszRootOf(SszRootOfItem, type, v)
SszRootOfPart(type, v)  == SszRootOf(SszRootOfList, type, v)
SszRoot(type, v)        == SszRootOf(SszRootOfPart, type, v)

Withdrawal == Container(<<<<"index", UInt>>, <<"validator_index", UInt>>,
    <<"address", Bytes>>, <<"amount", UInt>>>>)

DepositRequest == Container(<<<<"pubkey", Bytes>>,
    <<"withdrawal_credentials", Bytes>>, <<"amount", UInt>>,
    <<"signature", Bytes>>, <<"index", UInt>>>>)

WithdrawalRequest == Container(<<<<"source_address", Bytes>>,
    <<"validator_pubkey", Bytes>>, <<"amount", UInt>>>>)

ConsolidationRequest == Container(<<<<"source_address", Bytes>>,
    <<"source_pubkey", Bytes>>, <<"target_pubkey", Bytes>>>>)

BuilderDepositRequest == Container(<<<<"pubkey", Bytes>>,
    <<"withdrawal_credentials", Bytes>>, <<"amount", UInt>>,
    <<"signature", Bytes>>>>)

BuilderExitRequest == Container(<<<<"source_address", Bytes>>, <<"pubkey", Bytes>>>>)

LegacyListTypes == <<
    <<"deposits", List(DepositRequest, MAX_DEPOSIT_REQUESTS_PER_PAYLOAD)>>,
    <<"withdrawals", List(WithdrawalRequest, MAX_WITHDRAWAL_REQUESTS_PER_PAYLOAD)>>,
    <<"consolidations", List(ConsolidationRequest, MAX_CONSOLIDATION_REQUESTS_PER_PAYLOAD)>>>>

BuilderListTypes == <<
    <<"builder_deposits", List(BuilderDepositRequest, MAX_BUILDER_DEPOSIT_REQUESTS_PER_PAYLOAD)>>,
    <<"builder_exits", List(BuilderExitRequest, MAX_BUILDER_EXIT_REQUESTS_PER_PAYLOAD)>>>>

ExecutionRequests(builder) ==
    Container(IF builder THEN LegacyListTypes \o BuilderListTypes ELSE LegacyListTypes)

CommonFieldTypes == <<
    <<"parent_hash", Bytes>>, <<"fee_recipient", Bytes>>, <<"state_root", Bytes>>,
    <<"receipts_root", Bytes>>, <<"logs_bloom", Bytes>>, <<"prev_randao", Bytes>>,
    <<"block_number", UInt>>, <<"gas_limit", UInt>>, <<"gas_used", UInt>>,
    <<"timestamp", UInt>>, <<"extra_data", ByteList(MAX_EXTRA_DATA_BYTES)>>,
    <<"base_fee_per_gas", Bytes>>, <<"block_hash", Bytes>>,
    <<"transactions", List(ByteList(MAX_BYTES_PER_TRANSACTION), MAX_TRANSACTIONS_PER_PAYLOAD)>>,
    <<"withdrawals", List(Withdrawal, MAX_WITHDRAWALS_PER_PAYLOAD)>>,
    <<"blob_gas_used", UInt>>, <<"excess_blob_gas", UInt>>>>

GloasFieldTypes(balLimit) ==
    <<<<"block_access_list", ByteList(balLimit)>>, <<"slot_number", UInt>>>>

ExecutionPayload(shape, balLimit) ==
    Container(IF shape = "Gloas" THEN CommonFieldTypes \o GloasFieldTypes(balLimit)
              ELSE CommonFieldTypes)

NewPayloadRequest(r) == Container(<<
    <<"execution_payload", ExecutionPayload(r.execution_payload.shape,
                                            r.execution_payload.bal_htr_limit)>>,
    <<"versioned_hashes", List(Bytes, MAX_BLOB_COMMITMENTS_PER_BLOCK)>>,
    <<"parent_beacon_block_root", Bytes>>,
    <<"execution_requests",
      ExecutionRequests(r.execution_requests.has_builder_requests)>>>>)

-----------------------------------------------------------------------------
RequestInit == InitTable /\ runs = << >>

MerkleizeList == runs = << >> /\ MerkleizeAny /\ UNCHANGED runs

\* The guest commits to its request and ends; the next is another process.
Commit(r) ==
    /\ Len(runs) < MaxRuns
    /\ runs' = Append(runs, [request |-> r, root |-> htr_new_payload_request(r)])
    /\ NewProcess

AllRun == Len(runs) = MaxRuns /\ UNCHANGED requestVars

RequestNext == MerkleizeList \/ AllRun \/ \E r \in Requests : Commit(r)

RequestSpec == RequestInit /\ [][RequestNext]_requestVars

-----------------------------------------------------------------------------
\* The lists of a request are no longer than the types of its fields allow.
WithinLimits(r) ==
    LET p  == r.execution_payload
        er == r.execution_requests
    IN  /\ Len(p.extra_data) <= MAX_EXTRA_DATA_BYTES
        /\ Len(p.transactions) <= MAX_TRANSACTIONS_PER_PAYLOAD
        /\ \A i \in DOMAIN p.transactions :
                Len(p.transactions[i]) <= MAX_BYTES_PER_TRANSACTION
        /\ Len(p.withdrawals) <= MAX_WITHDRAWALS_PER_PAYLOAD
        /\ Len(p.block_access_list) <= p.bal_htr_limit
        /\ Len(r.versioned_hashes) <= MAX_BLOB_COMMITMENTS_PER_BLOCK
        /\ Len(er.deposits) <= MAX_DEPOSIT_REQUESTS_PER_PAYLOAD
        /\ Len(er.withdrawals) <= MAX_WITHDRAWAL_REQUESTS_PER_PAYLOAD
        /\ Len(er.consolidations) <= MAX_CONSOLIDATION_REQUESTS_PER_PAYLOAD
        /\ Len(er.builder_deposits) <= MAX_BUILDER_DEPOSIT_REQUESTS_PER_PAYLOAD
        /\ Len(er.builder_exits) <= MAX_BUILDER_EXIT_REQUESTS_PER_PAYLOAD

\* The root a guest commits to is the hash_tree_root of the SSZ type its
\* request has, which is what a consensus client computes.
RootsMatchSsz ==
    \A i \in DOMAIN runs : WithinLimits(runs[i].request) =>
        runs[i].root = SszRoot(NewPayloadRequest(runs[i].request), runs[i].request)

\* Two guests that commit to the same root were given the same request: no
\* field, item or length is left out of the root.
RootBindsRequest ==
    \A i, j \in DOMAIN runs :
        runs[i].root = runs[j].root => runs[i].request = runs[j].request
=============================================================================
