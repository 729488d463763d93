SPECIFICATION RequestSpec
CONSTANTS
    BYTES_PER_CHUNK = 2
    LEVELS = 4
    Chunks <- MCChunks
    Limits <- MCLimits
    MAX_EXTRA_DATA_BYTES = 2
    MAX_BYTES_PER_TRANSACTION = 8
    MAX_TRANSACTIONS_PER_PAYLOAD = 2
    MAX_WITHDRAWALS_PER_PAYLOAD = 2
    MAX_BLOB_COMMITMENTS_PER_BLOCK = 2
    MAX_DEPOSIT_REQUESTS_PER_PAYLOAD = 2
    MAX_WITHDRAWAL_REQUESTS_PER_PAYLOAD = 2
    MAX_CONSOLIDATION_REQUESTS_PER_PAYLOAD = 1
    MAX_BUILDER_DEPOSIT_REQUESTS_PER_PAYLOAD = 2
    MAX_BUILDER_EXIT_REQUESTS_PER_PAYLOAD = 1
    MAX_BLOCK_ACCESS_LIST_BYTES = 4
    BAL_HTR_LIMIT_AMSTERDAM01 = 8
    AddressSize = 1
    PubkeySize = 3
    SignatureSize = 6
    BloomSize = 16
    Requests <- MCRequests
    MaxRuns = 2
INVARIANTS
    ListsMatchSsz
    RootsMatchSsz
    
PROPERTIES
    RowsAreKept
