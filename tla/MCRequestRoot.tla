----------------------------- MODULE MCRequestRoot -----------------------------
(***************************************************************************)
(* Instance of RequestRoot.  A chunk is two bytes and stands for 32: an    *)
(* address has 1 byte, a hash 2, a public key 3 (two chunks, the second    *)
(* one partial), a signature 6 and the bloom 16.  The requests are, for    *)
(* each of the shapes and schemas, an empty one and those that differ from *)
(* it in one field, one list or one field of one item.  Lists of chunks    *)
(* are made of a zero chunk, which looks like padding, and another; limits *)
(* need not be powers of two, and the last row of the table, the one of 8  *)
(* leaves, is used.                                                        *)
(***************************************************************************)
EXTENDS RequestRoot

MCChunks == {<<0, 0>>, <<1, 0>>}
MCLimits == {0, 1, 2, 3, 6}

Zeros(n) == [i \in 1..n |-> 0]

\* Byte vectors next to the zero one: the first or the last byte is set.
Vectors(n) == {[Zeros(n) EXCEPT ![1] = 1], [Zeros(n) EXCEPT ![n] = 1]}

HashSize == BYTES_PER_CHUNK

AWithdrawal == [index |-> 0, validator_index |-> 0,
                address |-> Zeros(AddressSize), amount |-> 0]
ADeposit == [pubkey |-> Zeros(PubkeySize), withdrawal_credentials |-> Zeros(HashSize),
             amount |-> 0, signature |-> Zeros(SignatureSize), index |-> 0]
AWithdrawalRequest == [source_address |-> Zeros(AddressSize),
                       validator_pubkey |-> Zeros(PubkeySize), amount |-> 0]
AConsolidation == [source_address |-> Zeros(AddressSize),
                   source_pubkey |-> Zeros(PubkeySize),
                   target_pubkey |-> Zeros(PubkeySize)]
ABuilderDeposit == [pubkey |-> Zeros(PubkeySize),
                    withdrawal_credentials |-> Zeros(HashSize),
                    amount |-> 0, signature |-> Zeros(SignatureSize)]
ABuilderExit == [source_address |-> Zeros(AddressSize), pubkey |-> Zeros(PubkeySize)]

NumberFields == {"index", "validator_index", "amount", "block_number", "gas_limit",
                 "gas_used", "timestamp", "blob_gas_used", "excess_blob_gas",
                 "slot_number"}

ValuesNear(item, f) == IF f \in NumberFields THEN {1} ELSE Vectors(Len(item[f]))

ItemsNear(item) ==
    UNION {{[item EXCEPT ![f] = v] : v \in ValuesNear(item, f)} : f \in DOMAIN item}

\* No item, one, two, and one that differs in one field.
Lists(item, limit) ==
    {[i \in 1..k |-> item] : k \in 0..limit} \cup {<<i>> : i \in ItemsNear(item)}

ByteStrings(limit) == {Zeros(k) : k \in 0..limit} \cup Vectors(limit)

EmptyRequests(builder) ==
    [deposits |-> << >>, withdrawals |-> << >>, consolidations |-> << >>,
     builder_deposits |-> << >>, builder_exits |-> << >>,
     has_builder_requests |-> builder]

EmptyPayload(shape, limit) ==
    [shape |-> shape, bal_htr_limit |-> limit,
     parent_hash |-> Zeros(HashSize), fee_recipient |-> Zeros(AddressSize),
     state_root |-> Zeros(HashSize), receipts_root |-> Zeros(HashSize),
     logs_bloom |-> Zeros(BloomSize), prev_randao |-> Zeros(HashSize),
     block_number |-> 0, gas_limit |-> 0, gas_used |-> 0, timestamp |-> 0,
     extra_data |-> << >>, base_fee_per_gas |-> Zeros(HashSize),
     block_hash |-> Zeros(HashSize), transactions |-> << >>,
     withdrawals |-> << >>, blob_gas_used |-> 0, excess_blob_gas |-> 0,
     block_access_list |-> << >>, slot_number |-> 0]

EmptyRequest(shape, limit, builder) ==
    [execution_payload |-> EmptyPayload(shape, limit),
     versioned_hashes |-> << >>,
     parent_beacon_block_root |-> Zeros(HashSize),
     execution_requests |-> EmptyRequests(builder)]

FixedFields == {"parent_hash", "fee_recipient", "state_root", "receipts_root",
                "logs_bloom", "prev_randao", "block_number", "gas_limit",
                "gas_used", "timestamp", "base_fee_per_gas", "block_hash",
                "blob_gas_used", "excess_blob_gas"}

PayloadsNear(p) ==
    LET With(f, S) == {[p EXCEPT ![f] = v] : v \in S} IN
    UNION {With(f, ValuesNear(p, f)) : f \in FixedFields}
    \cup With("extra_data", ByteStrings(MAX_EXTRA_DATA_BYTES))
    \cup With("transactions",
              {<<t>> : t \in ByteStrings(MAX_BYTES_PER_TRANSACTION)}
              \cup {<< << >>, << >> >>, << <<0>>, << >> >>, << << >>, <<0>> >>})
    \cup With("withdrawals", Lists(AWithdrawal, MAX_WITHDRAWALS_PER_PAYLOAD))
    \cup IF p.shape = "Gloas"
         THEN With("block_access_list", ByteStrings(p.bal_htr_limit))
              \cup With("slot_number", {1})
         ELSE {}

ExecutionRequestsNear(er) ==
    LET With(f, S) == {[er EXCEPT ![f] = v] : v \in S} IN
    With("deposits", Lists(ADeposit, MAX_DEPOSIT_REQUESTS_PER_PAYLOAD))
    \cup With("withdrawals", Lists(AWithdrawalRequest, MAX_WITHDRAWAL_REQUESTS_PER_PAYLOAD))
    \cup With("consolidations", Lists(AConsolidation, MAX_CONSOLIDATION_REQUESTS_PER_PAYLOAD))
    \cup IF er.has_builder_requests
         THEN With("builder_deposits",
                   Lists(ABuilderDeposit, MAX_BUILDER_DEPOSIT_REQUESTS_PER_PAYLOAD))
              \cup With("builder_exits",
                   Lists(ABuilderExit, MAX_BUILDER_EXIT_REQUESTS_PER_PAYLOAD))
         ELSE {}

RequestsNear(r) ==
    {[r EXCEPT !.execution_payload = p] : p \in PayloadsNear(r.execution_payload)}
    \cup {[r EXCEPT !.execution_requests = e] :
             e \in ExecutionRequestsNear(r.execution_requests)}
    \cup {[r EXCEPT !.versioned_hashes = l] :
             l \in {[i \in 1..k |-> Zeros(HashSize)] :
                       k \in 0..MAX_BLOB_COMMITMENTS_PER_BLOCK}
                   \cup {<<h>> : h \in Vectors(HashSize)}}
    \cup {[r EXCEPT !.parent_beacon_block_root = h] : h \in Vectors(HashSize)}

\* Prague to BPO2, Amsterdam under the legacy schema, Amsterdam under 0x1501.
MCRequests ==
    RequestsNear(EmptyRequest("ElectraFulu", MAX_BLOCK_ACCESS_LIST_BYTES, FALSE))
    \cup RequestsNear(EmptyRequest("Gloas", MAX_BLOCK_ACCESS_LIST_BYTES, FALSE))
    \cup RequestsNear(EmptyRequest("Gloas", BAL_HTR_LIMIT_AMSTERDAM01, TRUE))

\* Requests whose lists are longer than the types of their fields allow.
OverLimitRequests ==
    {[EmptyRequest("ElectraFulu", MAX_BLOCK_ACCESS_LIST_BYTES, FALSE) EXCEPT
        !.execution_payload.extra_data = e] : e \in {<<1, 1, 0>>, <<1, 1, 1>>}}
    \cup {[EmptyRequest("ElectraFulu", MAX_BLOCK_ACCESS_LIST_BYTES, FALSE) EXCEPT
        !.execution_payload.withdrawals = <<AWithdrawal, AWithdrawal, w>>] :
            w \in ItemsNear(AWithdrawal)}
=============================================================================
