SPECIFICATION Spec
CONSTANTS
    h0 = h0  h1 = h1  g1 = g1  h2 = h2  odd = odd  bad = bad
    r0 = r0  r1 = r1  r2 = r2  r3 = r3
    t1 = t1  t2 = t2  badTx = badTx
    q1 = q1  n1 = n1
    rest = rest  badRest = badRest  reqRest = reqRest
    ZeroHash = ZeroHash  NoBytes = NoBytes  NoItems = NoItems
    U32Mod = 2048
    MAX_WITNESS_HEADERS = 2
    MAX_PUBLIC_VALUES_SIZE = 256
    HeaderBytes <- MCHeaderBytes
    Header <- MCHeader
    TxBytes <- MCTxBytes
    DecodableTx <- MCDecodableTx
    Execution <- MCExecution
    Wires <- MCWires
INVARIANTS
    TypeOK
    StageInv
    
    ExecutesCommittedBlock
    RequestsMatchRoot
    AlwaysFits
    ReadsInBounds
PROPERTIES
    EchoIsStable
    Implements
