--------------------------- MODULE MCStatelessGuest ---------------------------
(***************************************************************************)
(* Instance of StatelessGuest for TLC: six header preimages, three         *)
(* transactions, and four families of inputs, each varying one part of a   *)
(* well-formed input.                                                      *)
(***************************************************************************)
EXTENDS StatelessGuest

CONSTANTS h0, h1, g1, h2, odd, bad,     \* header preimages
          r0, r1, r2, r3,               \* state roots of headers
          t1, t2, badTx,                \* transactions
          q1,                           \* execution requests of a block
          n1,                           \* a trie node preimage
          rest, badRest, reqRest        \* the other payload fields

MCHeaderBytes == {h0, h1, g1, h2, odd, bad}

\* h1 and g1 are siblings; odd claims a number its parent does not lead to;
\* bad is not the RLP of a header.
MCHeader ==
    [b \in MCHeaderBytes |->
        CASE b = h0  -> [ok |-> TRUE, parent |-> ZeroHash, number |-> 0, root |-> r0]
          [] b = h1  -> [ok |-> TRUE, parent |-> h0, number |-> 1, root |-> r1]
          [] b = g1  -> [ok |-> TRUE, parent |-> h0, number |-> 1, root |-> r2]
          [] b = h2  -> [ok |-> TRUE, parent |-> h1, number |-> 2, root |-> r3]
          [] b = odd -> [ok |-> TRUE, parent |-> h0, number |-> 5, root |-> r1]
          [] b = bad -> [ok |-> FALSE, parent |-> ZeroHash, number |-> 0,
                         root |-> ZeroHash]]

MCTxBytes == {t1, t2, badTx}
MCDecodableTx == {t1, t2}

\* A block runs when its fields are acceptable and the witness holds nodes;
\* what it changes depends on the state, the rules and the transactions.
MCExecution(base, rules, p, wit) ==
    [ok    |-> p.rest # badRest /\ wit.nodes # << >>,
     delta |-> <<base, rules, p.txs>>,
     items |-> IF p.rest = reqRest THEN q1 ELSE NoItems]

-----------------------------------------------------------------------------
List(items) == [len |-> 4 * Len(items) + 32, first |-> 4 * Len(items),
                items |-> items]

LegacyConfig(fork, bnLen, tsLen, bsLen, bn, ts) ==
    [len |-> 36 + bnLen + tsLen + bsLen,
     at  |-> [offFc |-> 12, fork |-> fork, offAct |-> 16,
              offBs |-> 24 + bnLen + tsLen, offBn |-> 8,
              offTs |-> 8 + bnLen, bn |-> bn, ts |-> ts]]

Amsterdam01Config(bnLen, tsLen, bn, ts) ==
    [len |-> 24 + bnLen + tsLen,
     at  |-> [offFc |-> 12, fork |-> 0, offAct |-> 4, offBs |-> 0,
              offBn |-> 8, offTs |-> 8 + bnLen, bn |-> bn, ts |-> ts]]

Config(schema) == IF schema = "Amsterdam01" THEN Amsterdam01Config(0, 8, 0, 1)
                  ELSE LegacyConfig(FORK_OSAKA, 0, 8, 24, 0, 1)

\* The state root a payload needs, had it been built on header b by a builder
\* that leaves out the transactions it cannot decode.
Decodable(t) == t # badTx
RootOn(b, schema, fork, txList) ==
    PostRoot(MCHeader[b].root,
             <<MCHeader[b].root, SpecRules(schema, fork),
               SelectSeq(txList, Decodable)>>)

Payload(b, number, root, txList, other) ==
    [parentHash |-> b, number |-> number, timestamp |-> 2, stateRoot |-> root,
     txs |-> List(txList), rest |-> other]

Request(schema, p, items, trailing) ==
    LET fixed == PayloadFixed(IF schema = "Amsterdam01" THEN "Gloas"
                              ELSE "ElectraFulu")
    IN  [offPayload |-> 44, offHashes |-> 44 + fixed, offEr |-> 44 + fixed,
         payload |-> p, requests |-> [items |-> items, trailing |-> trailing]]

Witness(hs) == [nodes |-> List(<<n1>>), headers |-> List(hs)]

\* An input laid out in order from the lengths of its four parts.
Wire(schema, nprLen, witLen, cfg, pkLen, npr, wit) ==
    [len    |-> 18 + nprLen + witLen + cfg.len + pkLen,
     schema |-> schema,
     offNpr |-> 16,
     offWit |-> 16 + nprLen,
     offCc  |-> 16 + nprLen + witLen,
     offPk  |-> 16 + nprLen + witLen + cfg.len,
     cc     |-> cfg.at,
     npr    |-> npr,
     wit    |-> wit]

NprLen(npr) == npr.offEr + EXEC_REQ_V2_FIXED

Input(schema, cfg, npr, wit) ==
    Wire(schema, NprLen(npr), 80, cfg, 65, npr, wit)

ForkOf(schema, cfg) == IF schema = "Amsterdam01" THEN FORK_AMSTERDAM
                       ELSE cfg.at.fork

GoodPayload(schema, cfg) ==
    Payload(h1, 2, RootOn(h1, schema, ForkOf(schema, cfg), <<t1>>), <<t1>>, rest)

GoodRequest(schema, cfg) ==
    Request(schema, GoodPayload(schema, cfg), NoItems, FALSE)

KnownSchemas == {"Legacy0001", "Amsterdam01"}

\* 1. Every list of up to three headers, under payloads built on a linked, a
\*    sibling, a misnumbered, an undecodable or no header.
HeaderLists == UNION {[1..n -> MCHeaderBytes \cup {NoBytes}] : n \in 0..3}

HeaderWires ==
    {Input(s, Config(s),
           Request(s, Payload(b[1], b[2],
                              RootOn(b[1], s, ForkOf(s, Config(s)), << >>),
                              << >>, rest),
                   NoItems, FALSE),
           Witness(hs)) :
        s \in KnownSchemas, hs \in HeaderLists,
        b \in {<<h1, 2>>, <<g1, 2>>, <<odd, 2>>, <<bad, 1>>, <<h0, 1>>}}

\* 2. Transactions, execution requests and outcomes.
TxLists == UNION {[1..n -> {t1, t2, badTx}] : n \in 0..2}

BlockWires ==
    {Input(s, Config(s),
           Request(s, Payload(h1, 2, RootOn(b, s, ForkOf(s, Config(s)), l),
                              l, other),
                   i, tr),
           Witness(<<h0, h1>>)) :
        s \in KnownSchemas, b \in {h1, h0}, l \in TxLists,
        other \in {rest, badRest, reqRest},
        i \in {NoItems, q1}, tr \in BOOLEAN}

\* 3. Chain configs: forks, activation lists, blob schedules, and single
\*    fields out of place.
GoodConfigs ==
    {LegacyConfig(f, bl, tl, sl, bn, ts) :
        f \in {16, 17, 18, 19, 20, 21, 24}, bl \in {0, 8}, tl \in {0, 8},
        sl \in {0, 8, 24}, bn \in {1, 2, 3}, ts \in {1, 2, 3}}

BrokenConfigs ==
    LET c == LegacyConfig(FORK_OSAKA, 8, 8, 24, 0, 0)
    IN  {[c EXCEPT !.len = l] : l \in {0, 11, 12, 27, 28, 35, 36, 75, 77, 300}}
        \cup {[c EXCEPT !.at.offFc = o] : o \in {0, 11, 13}}
        \cup {[c EXCEPT !.at.offAct = o] : o \in {0, 15, 17}}
        \cup {[c EXCEPT !.at.offBs = o] : o \in {0, 16, 23, 32, 41, 64, 65}}
        \cup {[c EXCEPT !.at.offBn = o] : o \in {0, 7, 9, 16}}
        \cup {[c EXCEPT !.at.offTs = o] : o \in {0, 8, 15, 17, 24, 25, 60}}
        \cup {[LegacyConfig(FORK_OSAKA, 0, 0, 0, 0, 0) EXCEPT !.len = 28]}

Amsterdam01Configs ==
    {Amsterdam01Config(bl, tl, bn, ts) :
        bl \in {0, 8}, tl \in {0, 8}, bn \in {1, 2, 3}, ts \in {1, 2, 3}}
    \cup LET c == Amsterdam01Config(8, 8, 0, 0)
         IN  {[c EXCEPT !.len = l] : l \in {0, 12, 15, 16, 23, 24, 39, 41}}
             \cup {[c EXCEPT !.at.offFc = 16], [c EXCEPT !.at.offAct = 8],
                   [c EXCEPT !.at.offBn = 0], [c EXCEPT !.at.offTs = 40]}

ConfigWires ==
    {Input("Legacy0001", c,
           Request(IF c.at.fork = 24 THEN "Amsterdam01" ELSE "Legacy0001",
                   GoodPayload("Legacy0001", c), NoItems, FALSE),
           Witness(<<h0, h1>>)) : c \in GoodConfigs \cup BrokenConfigs}
    \cup
    {Input("Amsterdam01", c, GoodRequest("Amsterdam01", c),
           Witness(<<h0, h1>>)) : c \in Amsterdam01Configs}

\* 4. Lengths and offsets: short parts, unordered offsets, lengths past the
\*    u32 range, public keys that are not whole, malformed list tables.
LengthWires ==
    LET G(s) == GoodRequest(s, Config(s))
        I(s) == Input(s, Config(s), G(s), Witness(<<h0, h1>>))
    IN  UNION {
          {Wire(s, nl, wl, Config(s), pl, G(s), Witness(<<h0, h1>>)) :
              nl \in {0, 43, 44, NprLen(G(s))}, wl \in {0, 11, 12, 80},
              pl \in {0, 64, 65, 130}}
          \cup {[I(s) EXCEPT !.len = l] :
                    l \in {0, 1, 2, 17, 18, 500, U32Mod, U32Mod + 1,
                           U32Mod + 100, I(s).len + U32Mod}}
          \cup {[I(s) EXCEPT !.offWit = 15], [I(s) EXCEPT !.offCc = 0],
                [I(s) EXCEPT !.offPk = 0], [I(s) EXCEPT !.offNpr = 12],
                [I(s) EXCEPT !.npr.offHashes = 40],
                [I(s) EXCEPT !.npr.offHashes = 571],
                [I(s) EXCEPT !.npr.offEr = 600],
                [I(s) EXCEPT !.wit.headers.first = 6],
                [I(s) EXCEPT !.wit.headers.len = 3],
                [I(s) EXCEPT !.npr.payload.txs.first = 400],
                [I(s) EXCEPT !.wit.nodes.first = 0],
                [I(s) EXCEPT !.schema = "Unknown"]}
          : s \in KnownSchemas}

MCWires == HeaderWires \cup BlockWires \cup ConfigWires \cup LengthWires
=============================================================================
