-------------------------- MODULE GuestMemcpyProofs --------------------------
(***************************************************************************)
(* memcpy and memmove of the three guests, for every memory and every call *)
(* that satisfies CallsAssumption.  The invariant says how much of the     *)
(* source has arrived: a prefix when copying forward, a suffix when        *)
(* copying backward, in both cases as the source was before the call.  The *)
(* 64-bit routine reads ahead: what it holds in registers is the part of   *)
(* the source that comes next, as it was before the call.                  *)
(***************************************************************************)
EXTENDS GuestMemcpy, SequenceTheorems, TLAPS

Byte == 0..255

\* Of the call c, `rest' bytes have still to be stored, from d on.
Arrived(c, rest, d, m) ==
    /\ Forwarded(c)
    /\ rest \in Nat /\ rest <= c.n
    /\ d = c.d + (c.n - rest)
    /\ m = Moved(Before, c.d, c.s, c.n - rest)

\* The first of them in the source.
From(c, rest) == c.s + (c.n - rest)

\* The source pointer is `read' bytes ahead of it.
Forward(rest, read) ==
    Arrived(call, rest, dst, mem) /\ src = From(call, rest) + read

Backward ==
    /\ ~ Forwarded(call)
    /\ n <= call.n
    /\ dst = call.d + n /\ src = call.s + n
    /\ mem = Moved(Before, call.d + n, call.s + n, call.n - n)

\* Of a call in any of the routines.
MemmoveOK ==
    /\ pc = "memmove" => mem = Before /\ n = call.n /\ dst = call.d /\ src = call.s
    /\ pc = "memcpy" => n = call.n /\ Forward(n, 0)
    /\ pc = "backward" => Backward
    /\ pc = "done" => mem = Moved(Before, call.d, call.s, call.n)

\* The 32-bit memcpy.
Progress32 ==
    /\ pc \in {"memmove", "memcpy", "words", "bytes", "backward", "done"}
    /\ pc \in {"words", "bytes"} => Forward(n, 0)
    /\ pc = "words" => dst % 4 = 0 /\ src % 4 = 0

\* Copies of `size' bytes and of the halves of it down to one have still to be
\* made, as the bits of n say.
Rest == IF size = 0 THEN 0 ELSE n % (2 * size)

Sizes == {32, 16, 8, 4, 2, 1}

\* The 64-bit memcpy.
AlignOK ==
    /\ pc \in {"align", "dispatch"} => Forward(n, 0)
    /\ pc = "align" => n # 0
    /\ pc = "dispatch" => src % 8 = 0 \/ n = 0

WordsOK ==
    pc = "words" =>
        /\ size \in {32, 16, 8, 4}
        /\ Forward(IF size = 32 THEN n ELSE Rest, 0)
        /\ src % 8 = 0 \/ n = 0
        /\ dst % 8 = 0

MergeOK ==
    /\ pc = "jump" =>
         /\ Forward(n, 0) /\ n >= 64
         /\ src % 8 = 0 /\ dst % 8 # 0
    /\ pc = "merge" =>
         /\ case \in 1..7
         /\ Forward(n, 24 + case) /\ n > 31 + case
         /\ src % 8 = 0 /\ dst % 8 = 0
         /\ \A j \in (9 - case)..8 : word[j] = Before[src - 32 + j - 1]

TailOK ==
    /\ pc = "tail" => size \in Sizes \cup {0} /\ Forward(Rest, 0)
    /\ pc = "unrolled" =>
         /\ size \in Sizes /\ ahead \in Nat
         /\ held \in Seq(Byte) /\ Len(held) > 0
         /\ Forward(Len(held) + ahead + (n % size), Len(held))
         /\ \A i \in 1..Len(held) : held[i] = Before[src - Len(held) + i - 1]

Progress64 ==
    /\ pc \in {"memmove", "memcpy", "align", "dispatch", "words", "jump", "merge",
               "tail", "unrolled", "backward", "done"}
    /\ AlignOK /\ WordsOK /\ MergeOK /\ TailOK

TypeOK ==
    /\ call \in Calls /\ machine \in {"rv64im", "rv32im"}
    /\ n \in Nat /\ dst \in Int /\ src \in Int

IInv ==
    /\ TypeOK /\ MemmoveOK
    /\ machine = "rv32im" => Progress32
    /\ machine = "rv64im" => Progress64
    /\ AccessesAllowed

-----------------------------------------------------------------------------
\* What CallsAssumption says of one call.
LEMMA CallFacts ==
    ASSUME NEW c \in Calls
    PROVE  /\ c.op \in {"memcpy", "memmove"} /\ c.d \in Nat /\ c.s \in Nat /\ c.n \in Nat
           /\ \A a \in Int : c.d <= a /\ a < c.d + c.n => a \in Addr
           /\ \A a \in Int : c.s <= a /\ a < c.s + c.n => a \in Addr
           /\ c.op = "memcpy" => Forwarded(c)
  <1>1. /\ c \in [op : {"memcpy", "memmove"}, d : Nat, s : Nat, n : Nat]
        /\ Area(c.d, c.n) \subseteq Addr /\ Area(c.s, c.n) \subseteq Addr
        /\ c.op = "memcpy" => Disjoint(c)
    BY CallsAssumption
  <1>2. c.op \in {"memcpy", "memmove"} /\ c.d \in Nat /\ c.s \in Nat /\ c.n \in Nat
    BY <1>1
  <1>3. \A a \in Int : c.d <= a /\ a < c.d + c.n => a \in Addr
    BY <1>1, <1>2 DEF Area
  <1>4. \A a \in Int : c.s <= a /\ a < c.s + c.n => a \in Addr
    BY <1>1, <1>2 DEF Area
  <1>5. Disjoint(c) => Forwarded(c)
    BY <1>2 DEF Disjoint, Forwarded
  <1> QED BY <1>1, <1>2, <1>3, <1>4, <1>5

\* Nothing has arrived yet.
LEMMA NothingMoved ==
    ASSUME NEW d \in Int, NEW s \in Int
    PROVE  Moved(Before, d, s, 0) = Before
  <1>1. Before \in [Addr -> 0..255] /\ \A a \in Addr : a \in Int
    BY CallsAssumption
  <1>2. \A a \in Addr : a \notin d..(d + 0 - 1)
    BY <1>1
  <1>3. Before = [a \in Addr |-> Before[a]] /\ DOMAIN Before = Addr
    BY <1>1
  <1>4. Moved(Before, d, s, 0) = [a \in Addr |-> Before[a]]
    BY <1>2, <1>3 DEF Moved
  <1> QED BY <1>3, <1>4

\* Backward, from the n-th byte down.
LEMMA BackwardStep ==
    ASSUME NEW c \in Calls, ~ Forwarded(c), NEW k \in Nat, k > 0, k <= c.n
    PROVE  Moved(Moved(Before, c.d + k, c.s + k, c.n - k), c.d + k - 1, c.s + k - 1, 1)
             = Moved(Before, c.d + (k - 1), c.s + (k - 1), c.n - (k - 1))
  <1> DEFINE M == Moved(Before, c.d + k, c.s + k, c.n - k)
  <1>1. c.d \in Nat /\ c.s \in Nat /\ c.n \in Nat /\ Addr \subseteq Nat /\ DOMAIN Before = Addr
    BY CallFacts, CallsAssumption
  <1>2. \A a \in Int : c.s <= a /\ a < c.s + c.n => a \in Addr
    BY CallFacts
  <1>3. /\ DOMAIN M = Addr
        /\ \A a \in Addr : M[a] = IF a \in (c.d + k)..(c.d + k + (c.n - k) - 1)
                                  THEN Before[c.s + k + (a - (c.d + k))] ELSE Before[a]
    BY <1>1 DEF Moved
  <1>4. M[c.s + k - 1] = Before[c.s + k - 1]
    <2>1. c.s + k - 1 \in Addr
      BY <1>1, <1>2
    <2>2. c.s + k - 1 \notin (c.d + k)..(c.d + k + (c.n - k) - 1)
      BY <1>1 DEF Forwarded
    <2> QED BY <1>3, <2>1, <2>2
  <1>5. ASSUME NEW a \in Addr
        PROVE  (IF a \in (c.d + k - 1)..(c.d + k - 1 + 1 - 1)
                THEN M[c.s + k - 1 + (a - (c.d + k - 1))] ELSE M[a])
               = (IF a \in (c.d + (k - 1))..(c.d + (k - 1) + (c.n - (k - 1)) - 1)
                  THEN Before[c.s + (k - 1) + (a - (c.d + (k - 1)))] ELSE Before[a])
    <2>1. a \in Int
      BY <1>1
    <2>2. CASE a = c.d + k - 1
      <3>1. c.s + k - 1 + (a - (c.d + k - 1)) = c.s + k - 1
        BY <1>1, <2>1, <2>2
      <3>2. c.s + (k - 1) + (a - (c.d + (k - 1))) = c.s + k - 1
        BY <1>1, <2>1, <2>2
      <3> QED BY <1>1, <1>4, <2>1, <2>2, <3>1, <3>2
    <2>3. CASE a # c.d + k - 1
      <3>1. a \notin (c.d + k - 1)..(c.d + k - 1 + 1 - 1)
        BY <1>1, <2>1, <2>3
      <3>2. a \in (c.d + k)..(c.d + k + (c.n - k) - 1)
              <=> a \in (c.d + (k - 1))..(c.d + (k - 1) + (c.n - (k - 1)) - 1)
        BY <1>1, <2>1, <2>3
      <3>3. c.s + k + (a - (c.d + k)) = c.s + (k - 1) + (a - (c.d + (k - 1)))
        BY <1>1, <2>1
      <3> QED BY <1>3, <3>1, <3>2, <3>3
    <2> QED BY <2>2, <2>3
  <1> QED BY <1>1, <1>3, <1>5 DEF Moved

-----------------------------------------------------------------------------
(***************************************************************************)
(* Copying forward.                                                        *)
(***************************************************************************)
LEMMA ArrivedFacts ==
    ASSUME NEW c \in Calls, NEW rest, NEW d, NEW m, Arrived(c, rest, d, m)
    PROVE  /\ c.d \in Nat /\ c.s \in Nat /\ c.n \in Nat
           /\ rest \in Nat /\ rest <= c.n /\ c.n - rest \in Nat
           /\ d = c.d + (c.n - rest) /\ d \in Nat
           /\ From(c, rest) = c.s + (c.n - rest) /\ From(c, rest) \in Nat
           /\ DOMAIN m = Addr
  <1>1. c.d \in Nat /\ c.s \in Nat /\ c.n \in Nat /\ DOMAIN Before = Addr
    BY CallFacts, CallsAssumption
  <1>2. rest \in Nat /\ rest <= c.n /\ d = c.d + (c.n - rest)
    BY DEF Arrived
  <1>3. DOMAIN m = Addr
    BY <1>1 DEF Arrived, Moved
  <1> QED BY <1>1, <1>2, <1>3 DEF From

\* What comes next of the source is as it was before the call: none of it lies in
\* the part of the destination already written.
LEMMA ComesNext ==
    ASSUME NEW c \in Calls, NEW rest, NEW d, NEW m, Arrived(c, rest, d, m),
           NEW a \in Int, From(c, rest) <= a, a < c.s + c.n
    PROVE  a \in Addr /\ m[a] = Before[a] /\ Before[a] \in Byte
  <1>1. c.d \in Nat /\ c.s \in Nat /\ c.n \in Nat /\ rest \in Nat /\ rest <= c.n
        /\ c.s + (c.n - rest) <= a
    BY ArrivedFacts
  <1>2. Before \in [Addr -> Byte]
    BY CallsAssumption DEF Byte
  <1>3. a \in Addr
    BY <1>1, CallFacts
  <1>4. a \notin c.d..(c.d + (c.n - rest) - 1)
    BY <1>1 DEF Arrived, Forwarded
  <1>5. m = Moved(Before, c.d, c.s, c.n - rest)
    BY DEF Arrived
  <1> QED BY <1>2, <1>3, <1>4, <1>5 DEF Moved

\* k bytes of the memory before the call, from a on.
Held(bytes, k, a) == Len(bytes) = k /\ \A i \in 1..k : bytes[i] = Before[a + i - 1]

\* Storing the next k bytes of the source, wherever they were kept.
LEMMA StoreArrives ==
    ASSUME NEW c \in Calls, NEW rest, NEW d, NEW m, Arrived(c, rest, d, m),
           NEW k \in Nat, k <= rest, NEW bytes, Held(bytes, k, From(c, rest))
    PROVE  Arrived(c, rest - k, d + k, Store(m, d, bytes))
  <1> DEFINE p == c.n - rest
  <1>1. /\ c.d \in Nat /\ c.s \in Nat /\ c.n \in Nat /\ rest \in Nat /\ rest <= c.n
        /\ p \in Nat /\ d = c.d + p /\ From(c, rest) = c.s + p /\ DOMAIN m = Addr
    BY ArrivedFacts
  <1>2. Addr \subseteq Nat /\ DOMAIN Before = Addr
    BY CallsAssumption
  <1>3. /\ c.n - (rest - k) = p + k /\ rest - k \in Nat /\ rest - k <= c.n
        /\ d + k = c.d + (p + k)
    BY <1>1
  <1>4. Forwarded(c) /\ m = Moved(Before, c.d, c.s, p)
    BY DEF Arrived
  <1> HIDE DEF p
  <1>5. ASSUME NEW a \in Addr
        PROVE  (IF a \in d..(d + k - 1) THEN bytes[a - d + 1] ELSE m[a])
               = (IF a \in c.d..(c.d + (p + k) - 1) THEN Before[c.s + (a - c.d)] ELSE Before[a])
    <2>1. a \in Int
      BY <1>2
    <2>2. CASE a \in d..(d + k - 1)
      <3>1. a - d + 1 \in 1..k /\ (c.s + p) + (a - d + 1) - 1 = c.s + (a - c.d)
        BY <1>1, <2>1, <2>2
      <3>2. bytes[a - d + 1] = Before[c.s + (a - c.d)]
        BY <1>1, <3>1 DEF Held
      <3>3. a \in c.d..(c.d + (p + k) - 1)
        BY <1>1, <2>1, <2>2
      <3> QED BY <2>2, <3>2, <3>3
    <2>3. CASE a \notin d..(d + k - 1)
      <3>1. m[a] = IF a \in c.d..(c.d + p - 1) THEN Before[c.s + (a - c.d)] ELSE Before[a]
        BY <1>2, <1>4 DEF Moved
      <3>2. a \in c.d..(c.d + (p + k) - 1) <=> a \in c.d..(c.d + p - 1)
        BY <1>1, <2>1, <2>3
      <3> QED BY <2>3, <3>1, <3>2
    <2> QED BY <2>2, <2>3
  <1>6. Len(bytes) = k
    BY DEF Held
  <1>7. Store(m, d, bytes) = Moved(Before, c.d, c.s, p + k)
    BY <1>1, <1>2, <1>5, <1>6 DEF Store, Moved
  <1> QED BY <1>3, <1>4, <1>7 DEF Arrived

LEMMA Prefix ==
    ASSUME NEW v \in Seq(Byte), NEW k \in 0..Len(v)
    PROVE  Len(SubSeq(v, 1, k)) = k /\ \A i \in 1..k : SubSeq(v, 1, k)[i] = v[i]
  OBVIOUS

\* What is loaded from the source, at or after the next byte.
LEMMA LoadHeld ==
    ASSUME NEW c \in Calls, NEW rest, NEW d, NEW m, Arrived(c, rest, d, m),
           NEW a \in Int, From(c, rest) <= a, NEW k \in Nat, a + k <= c.s + c.n
    PROVE  Held(Load(m, a, k), k, a) /\ Load(m, a, k) \in Seq(Byte)
  <1>1. ASSUME NEW i \in 1..k
        PROVE  m[a + i - 1] = Before[a + i - 1] /\ m[a + i - 1] \in Byte
    <2>1. /\ c.s \in Nat /\ c.n \in Nat /\ From(c, rest) \in Nat
      BY ArrivedFacts
    <2>2. a + i - 1 \in Int /\ From(c, rest) <= a + i - 1 /\ a + i - 1 < c.s + c.n
      BY <2>1
    <2> QED BY <2>2, ComesNext
  <1>2. Load(m, a, k) = [i \in 1..k |-> m[a + i - 1]]
    BY DEF Load
  <1>3. Load(m, a, k) \in [1..k -> Byte]
    BY <1>1, <1>2
  <1>4. Load(m, a, k) \in Seq(Byte) /\ Len(Load(m, a, k)) = k
    BY <1>3
  <1> QED BY <1>1, <1>2, <1>4 DEF Held

\* Moving the next k bytes, loaded before any of them is stored.
LEMMA MoveArrives ==
    ASSUME NEW c \in Calls, NEW rest, NEW d, NEW m, Arrived(c, rest, d, m),
           NEW k \in Nat, k <= rest
    PROVE  Arrived(c, rest - k, d + k, Moved(m, d, From(c, rest), k))
  <1> DEFINE s == From(c, rest)
             bytes == Load(m, s, k)
  <1>1. /\ c.s \in Nat /\ c.n \in Nat /\ rest \in Nat /\ rest <= c.n /\ d \in Nat
        /\ s \in Nat /\ s = c.s + (c.n - rest) /\ DOMAIN m = Addr /\ Addr \subseteq Nat
    BY ArrivedFacts, CallsAssumption
  <1>2. Held(bytes, k, s)
    BY <1>1, LoadHeld
  <1>3. Store(m, d, bytes) = Moved(m, d, s, k)
    <2>1. Len(bytes) = k
      BY <1>2 DEF Held
    <2>2. ASSUME NEW a \in Addr, a \in d..(d + k - 1) PROVE bytes[a - d + 1] = m[s + (a - d)]
      <3>1. a \in Int
        BY <1>1
      <3>2. a - d + 1 \in 1..k /\ s + (a - d + 1) - 1 = s + (a - d)
        BY <1>1, <2>2, <3>1
      <3> HIDE DEF s
      <3> QED BY <3>2 DEF Load
    <2> HIDE DEF bytes, s
    <2> QED BY <1>1, <2>1, <2>2 DEF Store, Moved
  <1> HIDE DEF bytes
  <1> QED BY <1>2, <1>3, StoreArrives

LEMMA NothingArrived ==
    ASSUME NEW c \in Calls, Forwarded(c)
    PROVE  Arrived(c, c.n, c.d, Before) /\ From(c, c.n) = c.s
  <1>1. c.d \in Nat /\ c.s \in Nat /\ c.n \in Nat /\ c.n - c.n = 0
    BY CallFacts
  <1>2. Moved(Before, c.d, c.s, 0) = Before
    BY <1>1, NothingMoved
  <1> QED BY <1>1, <1>2 DEF Arrived, From

LEMMA AllArrived ==
    ASSUME NEW c \in Calls, NEW d, NEW m, Arrived(c, 0, d, m)
    PROVE  m = Moved(Before, c.d, c.s, c.n)
  <1>1. c.n - 0 = c.n
    BY CallFacts
  <1> QED BY <1>1 DEF Arrived

-----------------------------------------------------------------------------
(***************************************************************************)
(* A call.                                                                 *)
(***************************************************************************)
LEMMA CallTypes ==
    ASSUME TypeOK
    PROVE  /\ call \in Calls /\ call.d \in Nat /\ call.s \in Nat /\ call.n \in Nat
           /\ n \in Nat /\ dst \in Int /\ src \in Int
  BY CallFacts DEF TypeOK

\* A step that touches no memory.
LEMMA NoAccessAllowed == NoAccess => AccessesAllowed'
  BY DEF NoAccess, AccessesAllowed

LEMMA InitIInv == InitGuest => IInv
  <1> SUFFICES ASSUME InitGuest PROVE IInv
    OBVIOUS
  <1>1. /\ call \in Calls /\ pc = call.op /\ mem = Before
        /\ dst = call.d /\ src = call.s /\ n = call.n /\ loads = {} /\ stores = {}
        /\ machine \in {"rv64im", "rv32im"}
    BY DEF InitGuest, Init, InitCall
  <1>2. /\ call.op \in {"memcpy", "memmove"} /\ call.d \in Nat /\ call.s \in Nat
        /\ call.n \in Nat /\ (call.op = "memcpy" => Forwarded(call))
    BY <1>1, CallFacts
  <1>3. TypeOK
    BY <1>1, <1>2 DEF TypeOK
  <1>4. Forwarded(call) => Forward(n, 0)
    BY <1>1, <1>2, NothingArrived DEF Forward
  <1>5. MemmoveOK
    BY <1>1, <1>2, <1>4 DEF MemmoveOK
  <1>6. Progress32 /\ Progress64
    BY <1>1, <1>2 DEF Progress32, Progress64, AlignOK, WordsOK, MergeOK, TailOK
  <1>7. AccessesAllowed
    BY <1>1 DEF AccessesAllowed
  <1> QED BY <1>3, <1>5, <1>6, <1>7 DEF IInv

\* memmove copies the bytes of a call itself, from the last one down, when a
\* forward copy would overwrite what it has still to load.
LEMMA MemmoveInv == IInv /\ Memmove /\ UNCHANGED machine => IInv'
  <1> SUFFICES ASSUME IInv, Memmove, UNCHANGED machine PROVE IInv'
    OBVIOUS
  <1>1. /\ pc = "memmove" /\ call' = call /\ mem' = mem /\ n' = n /\ NoAccess
        /\ mem = Before /\ n = call.n /\ dst = call.d /\ src = call.s /\ TypeOK
    BY DEF IInv, MemmoveOK, Memmove, NoAccess, regs
  <1>2. call \in Calls /\ call.d \in Nat /\ call.s \in Nat /\ call.n \in Nat
    BY <1>1, CallTypes
  <1>3. CASE Forwarded(call)
    <2>1. pc' = "memcpy" /\ dst' = dst /\ src' = src
      BY <1>3 DEF Memmove, regs
    <2>2. Forward(n, 0)'
      BY <1>1, <1>2, <1>3, <2>1, NothingArrived DEF Forward
    <2>3. MemmoveOK' /\ TypeOK' /\ Progress32' /\ Progress64'
      BY <1>1, <2>1, <2>2 DEF MemmoveOK, TypeOK, Progress32, Progress64, AlignOK, WordsOK,
                              MergeOK, TailOK
    <2> QED BY <1>1, <2>3, NoAccessAllowed DEF IInv
  <1>4. CASE ~ Forwarded(call)
    <2>1. pc' = "backward" /\ dst' = dst + n /\ src' = src + n
      BY <1>4 DEF Memmove
    <2>2. Moved(Before, call.d + n, call.s + n, 0) = Before /\ call.n - n = 0
      BY <1>1, <1>2, NothingMoved
    <2>3. Backward'
      BY <1>1, <1>2, <1>4, <2>1, <2>2 DEF Backward
    <2>4. MemmoveOK' /\ Progress32' /\ Progress64'
      BY <2>1, <2>3 DEF MemmoveOK, Progress32, Progress64, AlignOK, WordsOK, MergeOK, TailOK
    <2>5. TypeOK'
      BY <1>1, <1>2, <2>1 DEF TypeOK
    <2> QED BY <1>1, <2>4, <2>5, NoAccessAllowed DEF IInv
  <1> QED BY <1>3, <1>4

LEMMA BackwardByteInv == IInv /\ BackwardByte /\ UNCHANGED machine => IInv'
  <1> SUFFICES ASSUME IInv, BackwardByte, UNCHANGED machine PROVE IInv'
    OBVIOUS
  <1>1. pc = "backward" /\ Backward /\ call' = call /\ TypeOK
    BY DEF IInv, MemmoveOK, BackwardByte
  <1>2. call.d \in Nat /\ call.s \in Nat /\ call.n \in Nat /\ n \in Nat /\ call \in Calls
    BY <1>1, CallTypes
  <1>3. pc' \in {"backward", "done"} => Progress32' /\ Progress64'
    BY DEF Progress32, Progress64, AlignOK, WordsOK, MergeOK, TailOK
  <1>4. CASE n = 0
    <2>1. pc' = "done" /\ UNCHANGED regs /\ NoAccess
      BY <1>4 DEF BackwardByte
    <2>2. mem = Moved(Before, call.d, call.s, call.n)
      BY <1>1, <1>2, <1>4 DEF Backward
    <2>3. MemmoveOK'
      BY <1>1, <2>1, <2>2 DEF MemmoveOK, NoAccess
    <2>4. TypeOK'
      BY <1>1, <2>1 DEF TypeOK, regs
    <2> QED BY <1>3, <2>1, <2>3, <2>4, NoAccessAllowed DEF IInv
  <1>5. CASE n # 0
    <2>1. /\ dst' = dst - 1 /\ src' = src - 1 /\ n' = n - 1 /\ pc' = pc
          /\ mem' = Moved(mem, dst - 1, src - 1, 1)
          /\ loads' = {<<src - 1, 1>>} /\ stores' = {<<dst - 1, 1>>}
      BY <1>5 DEF BackwardByte, Access
    <2>2. n > 0 /\ n' \in Nat /\ n <= call.n
      BY <1>1, <1>2, <1>5, <2>1 DEF Backward
    <2>3. dst' = call.d + n' /\ src' = call.s + n' /\ n' <= call.n
      BY <1>1, <1>2, <2>1, <2>2 DEF Backward
    <2>4. mem' = Moved(Before, call.d + n', call.s + n', call.n - n')
      <3>1. mem = Moved(Before, call.d + n, call.s + n, call.n - n)
        BY <1>1 DEF Backward
      <3> QED BY <1>1, <1>2, <2>1, <2>2, <3>1, BackwardStep DEF Backward
    <2>5. Backward'
      BY <1>1, <2>3, <2>4 DEF Backward, Forwarded
    <2>6. MemmoveOK'
      BY <1>1, <2>1, <2>5 DEF MemmoveOK
    <2>7. TypeOK'
      BY <1>1, <1>2, <2>1, <2>2, <2>3 DEF TypeOK
    <2>8. AccessesAllowed'
      BY <1>1, <1>2, <2>1, <2>2, <2>3 DEF AccessesAllowed, Aligned, Inside
    <2> QED BY <1>1, <1>3, <2>1, <2>6, <2>7, <2>8 DEF IInv
  <1> QED BY <1>4, <1>5

-----------------------------------------------------------------------------
(***************************************************************************)
(* The 32-bit memcpy.                                                      *)
(***************************************************************************)
Machine32 == machine = "rv32im" /\ machine' = machine

LEMMA Memcpy32Inv == IInv /\ M32!Memcpy /\ Machine32 => IInv'
  <1> SUFFICES ASSUME IInv, M32!Memcpy, Machine32 PROVE IInv'
    OBVIOUS
  <1>1. /\ pc = "memcpy" /\ Forward(n, 0) /\ n = call.n /\ TypeOK
        /\ UNCHANGED <<call, mem, dst, src, n>> /\ NoAccess
    BY DEF IInv, MemmoveOK, M32!Memcpy, M32!NoAccess, M32!regs, NoAccess
  <1>2. CASE n = 0
    <2>1. pc' = "done"
      BY <1>2 DEF M32!Memcpy
    <2>2. mem' = Moved(Before, call'.d, call'.s, call'.n)
      BY <1>1, <1>2, CallTypes, AllArrived DEF Forward
    <2>3. MemmoveOK' /\ Progress32'
      BY <2>1, <2>2 DEF MemmoveOK, Progress32
    <2> QED BY <1>1, <2>3, NoAccessAllowed DEF IInv, TypeOK, Machine32
  <1>3. CASE n # 0
    <2>1. pc' \in {"words", "bytes"} /\ (pc' = "words" => dst % 4 = 0 /\ src % 4 = 0)
      BY <1>3 DEF M32!Memcpy
    <2>2. Forward(n, 0)'
      BY <1>1 DEF Forward
    <2>3. MemmoveOK' /\ Progress32'
      BY <1>1, <2>1, <2>2 DEF MemmoveOK, Progress32
    <2> QED BY <1>1, <2>3, NoAccessAllowed DEF IInv, TypeOK, Machine32
  <1> QED BY <1>2, <1>3

\* The registers after k more bytes, whichever the loop.
LEMMA CopyForwardInv ==
    ASSUME IInv, Machine32, NEW k \in {1, 4}, k <= n, M32!CopyForward(k), UNCHANGED call,
           pc = IF k = 4 THEN "words" ELSE "bytes"
    PROVE  IInv'
  <1>1. /\ dst' = dst + k /\ src' = src + k /\ n' = n - k /\ pc' = pc /\ call' = call
        /\ mem' = Moved(mem, dst, src, k)
        /\ loads' = {<<src, k>>} /\ stores' = {<<dst, k>>}
    BY DEF M32!CopyForward, M32!Access, M32!Moved, Moved
  <1>2. /\ pc \in {"words", "bytes"} /\ Forward(n, 0) /\ TypeOK /\ k \in Nat
        /\ pc = "words" => dst % 4 = 0 /\ src % 4 = 0
    BY DEF IInv, Progress32, Machine32
  <1>3. call \in Calls /\ n \in Nat /\ dst \in Int /\ src \in Int
    BY <1>2, CallTypes
  <1>4. Arrived(call, n, dst, mem) /\ src = From(call, n) + 0
    BY <1>2 DEF Forward
  <1>5. /\ call.d \in Nat /\ call.s \in Nat /\ call.n \in Nat /\ n <= call.n
        /\ dst = call.d + (call.n - n) /\ src = call.s + (call.n - n) /\ src = From(call, n)
    BY <1>3, <1>4, ArrivedFacts
  <1>6. Forward(n, 0)'
    <2>1. Arrived(call, n', dst', mem')
      BY <1>1, <1>2, <1>3, <1>4, <1>5, MoveArrives
    <2>2. src' = From(call, n')
      BY <1>1, <1>2, <1>3, <1>5 DEF From
    <2>3. src' = From(call, n') + 0
      BY <1>1, <1>2, <1>3, <2>2
    <2> QED BY <1>1, <2>1, <2>3 DEF Forward
  <1>7. pc = "words" => dst' % 4 = 0 /\ src' % 4 = 0
    <2> SUFFICES ASSUME pc = "words" PROVE dst' % 4 = 0 /\ src' % 4 = 0
      OBVIOUS
    <2>1. k = 4 /\ dst % 4 = 0 /\ src % 4 = 0
      BY <1>2
    <2> QED BY <1>1, <1>3, <2>1
  <1>8. MemmoveOK' /\ Progress32'
    BY <1>1, <1>2, <1>6, <1>7 DEF MemmoveOK, Progress32
  <1>9. TypeOK'
    BY <1>1, <1>2, <1>3 DEF TypeOK, Machine32
  <1>10. AccessesAllowed'
    <2>1. dst % k = 0 /\ src % k = 0
      <3>1. CASE k = 4
        BY <1>2, <3>1
      <3>2. CASE k = 1
        BY <1>3, <3>2
      <3> QED BY <3>1, <3>2
    <2>2. Aligned(<<src, k>>) /\ Aligned(<<dst, k>>)
      BY <2>1 DEF Aligned
    <2>3. Inside(<<src, k>>, call.s, call.n) /\ Inside(<<dst, k>>, call.d, call.n)
      BY <1>2, <1>3, <1>5 DEF Inside
    <2> QED BY <1>1, <2>2, <2>3 DEF AccessesAllowed
  <1> QED BY <1>8, <1>9, <1>10 DEF IInv, Machine32

\* The word loop hands over to the byte loop, the byte loop to the end.
LEMMA CopyWordInv == IInv /\ M32!CopyWord /\ Machine32 => IInv'
  <1> SUFFICES ASSUME IInv, M32!CopyWord, Machine32 PROVE IInv'
    OBVIOUS
  <1>1. pc = "words" /\ call' = call /\ Forward(n, 0) /\ TypeOK
    BY DEF IInv, Progress32, M32!CopyWord, Machine32
  <1>2. CASE n < 4
    <2>1. pc' = "bytes" /\ UNCHANGED <<mem, dst, src, n>> /\ NoAccess
      BY <1>2 DEF M32!CopyWord, M32!NoAccess, M32!regs, NoAccess
    <2>2. Forward(n, 0)'
      BY <1>1, <2>1 DEF Forward
    <2>3. MemmoveOK' /\ Progress32'
      BY <2>1, <2>2 DEF MemmoveOK, Progress32
    <2> QED BY <1>1, <2>1, <2>3, NoAccessAllowed DEF IInv, TypeOK, Machine32
  <1>3. CASE ~ (n < 4)
    <2>1. M32!CopyForward(4) /\ 4 <= n
      BY <1>1, <1>3 DEF M32!CopyWord, TypeOK
    <2> QED BY <1>1, <2>1, CopyForwardInv
  <1> QED BY <1>2, <1>3

LEMMA CopyByteInv == IInv /\ M32!CopyByte /\ Machine32 => IInv'
  <1> SUFFICES ASSUME IInv, M32!CopyByte, Machine32 PROVE IInv'
    OBVIOUS
  <1>1. pc = "bytes" /\ call' = call /\ Forward(n, 0) /\ TypeOK
    BY DEF IInv, Progress32, M32!CopyByte, Machine32
  <1>2. CASE n = 0
    <2>1. pc' = "done" /\ UNCHANGED <<mem, dst, src, n>> /\ NoAccess
      BY <1>2 DEF M32!CopyByte, M32!NoAccess, M32!regs, NoAccess
    <2>2. mem' = Moved(Before, call'.d, call'.s, call'.n)
      BY <1>1, <1>2, <2>1, CallTypes, AllArrived DEF Forward
    <2>3. MemmoveOK' /\ Progress32'
      BY <2>1, <2>2 DEF MemmoveOK, Progress32
    <2> QED BY <1>1, <2>1, <2>3, NoAccessAllowed DEF IInv, TypeOK, Machine32
  <1>3. CASE n # 0
    <2>1. M32!CopyForward(1) /\ 1 <= n
      BY <1>1, <1>3 DEF M32!CopyByte, TypeOK
    <2> QED BY <1>1, <2>1, CopyForwardInv
  <1> QED BY <1>2, <1>3

\* The instance has a memmove of its own, which is the same.
LEMMA Next32Inv == IInv /\ M32!Next /\ UNCHANGED <<merge, tail>> /\ Machine32 => IInv'
  <1> SUFFICES ASSUME IInv, M32!Next, UNCHANGED <<merge, tail>>, Machine32 PROVE IInv'
    OBVIOUS
  <1>1. M32!Memmove => Memmove
    BY DEF M32!Memmove, M32!Forwarded, M32!NoAccess, M32!regs, Memmove, Forwarded, NoAccess, regs
  <1>2. M32!BackwardByte => BackwardByte
    <2>1. \A m, d, s, k : M32!Moved(m, d, s, k) = Moved(m, d, s, k)
      BY DEF M32!Moved, Moved
    <2> QED BY <2>1 DEF M32!BackwardByte, M32!NoAccess, M32!Access, M32!regs,
                        BackwardByte, NoAccess, Access, regs
  <1>3. CASE M32!Returned
    <2>1. UNCHANGED <<call, pc, mem, dst, src, n, loads, stores, machine, size, held, ahead, case, word>>
      BY <1>3 DEF M32!Returned, M32!mvars, M32!regs, merge, tail, Machine32
    <2> QED BY <2>1 DEF IInv, TypeOK, MemmoveOK, Forward, Backward, Progress32, Progress64,
                       AlignOK, WordsOK, MergeOK, TailOK, Rest, AccessesAllowed
  <1> QED BY <1>1, <1>2, <1>3, MemmoveInv, BackwardByteInv, Memcpy32Inv, CopyWordInv,
             CopyByteInv DEF M32!Next, Machine32

-----------------------------------------------------------------------------
(***************************************************************************)
(* The 64-bit memcpy.                                                      *)
(***************************************************************************)
Machine64 == machine = "rv64im" /\ machine' = machine

\* The copies of b bytes and of the halves of it copy what the bits of x say.
LEMMA Bits ==
    ASSUME NEW x \in Nat, NEW b \in Sizes
    PROVE  /\ x % b \in Nat /\ b \in Nat /\ b >= 1
           /\ HasBit(x, b) => x % (2 * b) = b + (x % b)
           /\ ~ HasBit(x, b) => x % (2 * b) = x % b
           /\ b \div 2 \in Sizes \cup {0}
           /\ (IF b \div 2 = 0 THEN 0 ELSE x % (2 * (b \div 2))) = x % b
  <1>1. CASE b = 32
    BY <1>1 DEF HasBit, Sizes
  <1>2. CASE b = 16
    BY <1>2 DEF HasBit, Sizes
  <1>3. CASE b = 8
    BY <1>3 DEF HasBit, Sizes
  <1>4. CASE b = 4
    BY <1>4 DEF HasBit, Sizes
  <1>5. CASE b = 2
    BY <1>5 DEF HasBit, Sizes
  <1>6. CASE b = 1
    BY <1>6 DEF HasBit, Sizes
  <1> QED BY <1>1, <1>2, <1>3, <1>4, <1>5, <1>6 DEF Sizes

\* m words from an aligned address on, in an area they do not leave.
LEMMA WordsFit ==
    ASSUME NEW w \in {1, 4, 8}, NEW m \in Nat, NEW a \in Int,
           NEW base \in Int, NEW len \in Int,
           a % w = 0, base <= a, a + w * m <= base + len
    PROVE  \A x \in Words(a, m, w) : Aligned(x) /\ Inside(x, base, len)
  <1> SUFFICES ASSUME NEW i \in 0..(m - 1)
               PROVE  /\ (a + i * w) % w = 0
                      /\ base <= a + i * w /\ a + i * w + w <= base + len
    BY DEF Words, Aligned, Inside
  <1>1. CASE w = 1
    BY <1>1
  <1>2. CASE w = 4
    BY <1>2
  <1>3. CASE w = 8
    BY <1>3
  <1> QED BY <1>1, <1>2, <1>3

LEMMA NoWords ==
    ASSUME NEW a \in Int, NEW w PROVE Words(a, 0, w) = {}
  BY DEF Words

\* The pointers and the bytes left, when a forward copy is under way.
LEMMA ForwardFacts ==
    ASSUME TypeOK, NEW rest, NEW read \in Int, Forward(rest, read)
    PROVE  /\ call \in Calls /\ call.d \in Nat /\ call.s \in Nat /\ call.n \in Nat
           /\ n \in Nat /\ dst \in Int /\ src \in Int
           /\ rest \in Nat /\ rest <= call.n
           /\ Arrived(call, rest, dst, mem)
           /\ dst = call.d + (call.n - rest)
           /\ From(call, rest) = call.s + (call.n - rest)
           /\ src = call.s + (call.n - rest) + read
  <1>1. call \in Calls /\ n \in Nat /\ dst \in Int /\ src \in Int
    BY CallTypes
  <1>2. Arrived(call, rest, dst, mem) /\ src = From(call, rest) + read
    BY DEF Forward
  <1> QED BY <1>1, <1>2, ArrivedFacts

\* k bytes loaded and then stored, both pointers moved past them.
LEMMA Advance ==
    ASSUME TypeOK, NEW rest, Forward(rest, 0), NEW k \in Nat, k <= rest, call' = call,
           dst' = dst + k, src' = src + k, mem' = Moved(mem, dst, src, k)
    PROVE  /\ Arrived(call', rest - k, dst', mem')
           /\ src' = From(call', rest - k) + 0
           /\ dst' \in Int /\ src' \in Int
  <1>1. /\ call \in Calls /\ call.s \in Nat /\ call.n \in Nat /\ dst \in Int /\ src \in Int
        /\ rest \in Nat /\ rest <= call.n /\ Arrived(call, rest, dst, mem)
        /\ From(call, rest) = call.s + (call.n - rest)
        /\ src = call.s + (call.n - rest) + 0
    BY ForwardFacts
  <1>2. src = From(call, rest)
    BY <1>1
  <1>3. Arrived(call, rest - k, dst + k, mem')
    BY <1>1, <1>2, MoveArrives
  <1>4. src + k = From(call, rest - k) + 0
    BY <1>1 DEF From
  <1> QED BY <1>1, <1>3, <1>4

\* The next k bytes lie in the areas of the call.
LEMMA Room ==
    ASSUME TypeOK, NEW rest, Forward(rest, 0), NEW k \in Nat, k <= rest
    PROVE  /\ call.s <= src /\ src + k <= call.s + call.n
           /\ call.d <= dst /\ dst + k <= call.d + call.n
           /\ src = From(call, rest)
  BY ForwardFacts

\* Words of w bytes, k bytes in all, loaded and stored where the pointers are.
LEMMA WordsAllowed ==
    ASSUME TypeOK, NEW rest, Forward(rest, 0), call' = call,
           NEW w \in {1, 4, 8}, NEW m \in Nat, NEW k \in Nat, w * m = k, k <= rest,
           src % w = 0, dst % w = 0, loads' = Words(src, m, w), stores' = Words(dst, m, w)
    PROVE  AccessesAllowed'
  <1>1. /\ call.d \in Int /\ call.s \in Int /\ call.n \in Int /\ dst \in Int /\ src \in Int
    BY ForwardFacts
  <1>2. /\ call.s <= src /\ src + k <= call.s + call.n
        /\ call.d <= dst /\ dst + k <= call.d + call.n
    BY Room
  <1>3. src + w * m <= call.s + call.n /\ dst + w * m <= call.d + call.n
    BY <1>2, Zenon
  <1>4. \A x \in Words(src, m, w) : Aligned(x) /\ Inside(x, call.s, call.n)
    BY <1>1, <1>2, <1>3, WordsFit, Zenon
  <1>5. \A x \in Words(dst, m, w) : Aligned(x) /\ Inside(x, call.d, call.n)
    BY <1>1, <1>2, <1>3, WordsFit, Zenon
  <1> QED BY <1>4, <1>5 DEF AccessesAllowed

LEMMA Strides ==
    ASSUME NEW a \in Int, a % 8 = 0
    PROVE  /\ (a + 32) % 8 = 0 /\ (a + 16) % 8 = 0 /\ (a + 8) % 8 = 0
           /\ a % 4 = 0
  OBVIOUS

LEMMA BelowSixtyFour == ASSUME NEW x \in Nat, x < 64 PROVE x % 64 = x
  OBVIOUS

LEMMA Offset ==
    ASSUME NEW a \in Int, a % 8 # 0
    PROVE  a % 8 \in 1..7 /\ (a + (8 - (a % 8))) % 8 = 0
  OBVIOUS

LEMMA Memcpy64Inv == IInv /\ Memcpy /\ Machine64 => IInv'
  <1> SUFFICES ASSUME IInv, Memcpy, Machine64 PROVE IInv'
    OBVIOUS
  <1>1. /\ pc = "memcpy" /\ Forward(n, 0) /\ TypeOK
        /\ UNCHANGED <<call, mem, dst, src, n>> /\ NoAccess
        /\ pc' = IF src % 8 = 0 \/ n = 0 THEN "dispatch" ELSE "align"
    BY DEF IInv, MemmoveOK, Memcpy, NoAccess, regs
  <1>2. Forward(n, 0)'
    BY <1>1 DEF Forward
  <1>3. MemmoveOK' /\ Progress64'
    BY <1>1, <1>2 DEF MemmoveOK, Progress64, AlignOK, WordsOK, MergeOK, TailOK
  <1> QED BY <1>1, <1>3, NoAccessAllowed DEF IInv, TypeOK, Machine64

LEMMA AlignSourceInv == IInv /\ AlignSource /\ Machine64 => IInv'
  <1> SUFFICES ASSUME IInv, AlignSource, Machine64 PROVE IInv'
    OBVIOUS
  <1>1. pc = "align" /\ Forward(n, 0) /\ n # 0 /\ TypeOK
    BY DEF IInv, Progress64, AlignOK, AlignSource, Machine64
  <1>2. /\ mem' = Moved(mem, dst, src, 1) /\ call' = call
        /\ dst' = dst + 1 /\ src' = src + 1 /\ n' = n - 1
        /\ pc' = (IF src' % 8 = 0 \/ n' = 0 THEN "dispatch" ELSE "align")
        /\ loads' = {<<src, 1>>} /\ stores' = {<<dst, 1>>}
    BY DEF AlignSource, Access
  <1>3. /\ call.d \in Nat /\ call.s \in Nat /\ call.n \in Nat /\ n \in Nat /\ n <= call.n
        /\ dst = call.d + (call.n - n) /\ src = call.s + (call.n - n) + 0
    BY <1>1, ForwardFacts
  <1>4. n' \in Nat /\ 1 <= n
    BY <1>1, <1>2, <1>3
  <1>5. Forward(n, 0)' /\ TypeOK'
    <2>1. Arrived(call', n', dst', mem') /\ src' = From(call', n') + 0 /\ dst' \in Int /\ src' \in Int
      BY <1>1, <1>2, <1>4, Advance
    <2> QED BY <1>1, <1>2, <1>4, <2>1 DEF Forward, TypeOK, Machine64
  <1>6. MemmoveOK' /\ Progress64'
    BY <1>2, <1>5 DEF MemmoveOK, Progress64, AlignOK, WordsOK, MergeOK, TailOK
  <1>7. AccessesAllowed'
    BY <1>2, <1>3, <1>4 DEF AccessesAllowed, Aligned, Inside
  <1> QED BY <1>5, <1>6, <1>7 DEF IInv, Machine64

LEMMA DispatchInv == IInv /\ Dispatch /\ Machine64 => IInv'
  <1> SUFFICES ASSUME IInv, Dispatch, Machine64 PROVE IInv'
    OBVIOUS
  <1>1. /\ pc = "dispatch" /\ Forward(n, 0) /\ TypeOK /\ n \in Nat
        /\ src % 8 = 0 \/ n = 0
        /\ UNCHANGED <<call, mem, dst, src, n>> /\ NoAccess
    BY DEF IInv, Progress64, AlignOK, Dispatch, Machine64, NoAccess, regs, TypeOK
  <1>2. Forward(n, 0)'
    BY <1>1 DEF Forward
  <1>3. CASE dst % 8 = 0
    <2>1. pc' = "words" /\ size' = 32
      BY <1>3 DEF Dispatch
    <2> QED BY <1>1, <1>2, <1>3, <2>1, NoAccessAllowed
            DEF IInv, TypeOK, Machine64, MemmoveOK, Progress64, AlignOK, WordsOK, MergeOK, TailOK
  <1>4. CASE dst % 8 # 0 /\ n >= 64
    <2>1. pc' = "jump" /\ src % 8 = 0
      BY <1>1, <1>4 DEF Dispatch
    <2> QED BY <1>1, <1>2, <1>4, <2>1, NoAccessAllowed
            DEF IInv, TypeOK, Machine64, MemmoveOK, Progress64, AlignOK, WordsOK, MergeOK, TailOK
  <1>5. CASE dst % 8 # 0 /\ ~ (n >= 64)
    <2>1. pc' = "tail" /\ size' = 32
      BY <1>5 DEF Dispatch
    <2>2. Rest' = n'
      BY <1>1, <1>5, <2>1 DEF Rest
    <2>3. Forward(Rest, 0)'
      BY <1>2, <2>2 DEF Forward
    <2> QED BY <1>1, <2>1, <2>3, NoAccessAllowed
            DEF IInv, TypeOK, Machine64, MemmoveOK, Progress64, AlignOK, WordsOK, MergeOK, TailOK,
                Sizes
  <1> QED BY <1>3, <1>4, <1>5

\* 32 bytes in four double words.
LEMMA WordLoopInv == IInv /\ WordLoop /\ Machine64 => IInv'
  <1> SUFFICES ASSUME IInv, WordLoop, Machine64 PROVE IInv'
    OBVIOUS
  <1>1. /\ pc = "words" /\ size = 32 /\ Forward(n, 0) /\ TypeOK /\ n \in Nat
        /\ src % 8 = 0 \/ n = 0
        /\ dst % 8 = 0 /\ call' = call
    BY DEF IInv, Progress64, WordsOK, WordLoop, Machine64, TypeOK
  <1>2. CASE n >= 32
    <2>1. CopyWords(8) /\ n' = n - 32 /\ pc' = pc /\ size' = size
      BY <1>1, <1>2 DEF WordLoop
    <2>2. /\ mem' = Moved(mem, dst, src, 32) /\ dst' = dst + 32 /\ src' = src + 32
          /\ loads' = Words(src, 4, 8) /\ stores' = Words(dst, 4, 8)
      BY <1>1, <2>1 DEF CopyWords, Access
    <2>3. /\ call.d \in Nat /\ call.s \in Nat /\ call.n \in Nat /\ n <= call.n
          /\ dst = call.d + (call.n - n) /\ src = call.s + (call.n - n) + 0
          /\ dst \in Int /\ src \in Int /\ src % 8 = 0
      BY <1>1, <1>2, ForwardFacts
    <2>4. Forward(n, 0)' /\ TypeOK'
      <3>1. Arrived(call', n', dst', mem') /\ src' = From(call', n') + 0 /\ dst' \in Int /\ src' \in Int
        BY <1>1, <1>2, <2>1, <2>2, Advance
      <3> QED BY <1>1, <1>2, <2>1, <3>1 DEF Forward, TypeOK, Machine64
    <2>5. dst' % 8 = 0 /\ src' % 8 = 0
      BY <1>1, <2>2, <2>3, Strides
    <2>6. MemmoveOK' /\ Progress64'
      BY <1>1, <2>1, <2>4, <2>5 DEF MemmoveOK, Progress64, AlignOK, WordsOK, MergeOK, TailOK
    <2>7. AccessesAllowed'
      <3>1. 8 * 4 = 32 /\ 8 \in {1, 4, 8} /\ 4 \in Nat /\ 32 \in Nat
        OBVIOUS
      <3> QED BY <1>1, <1>2, <2>2, <2>3, <3>1, WordsAllowed
    <2> QED BY <2>4, <2>6, <2>7 DEF IInv, Machine64
  <1>3. CASE ~ (n >= 32)
    <2>1. /\ size' = 16 /\ pc' = pc /\ NoAccess /\ UNCHANGED <<mem, dst, src, n>>
      BY <1>1, <1>3 DEF WordLoop, NextSize, NoAccess, regs
    <2>2. Rest' = n'
      BY <1>1, <1>3, <2>1 DEF Rest
    <2>3. Forward(IF size = 32 THEN n ELSE Rest, 0)'
      BY <1>1, <2>1, <2>2 DEF Forward
    <2> QED BY <1>1, <2>1, <2>3, NoAccessAllowed
            DEF IInv, TypeOK, Machine64, MemmoveOK, Progress64, AlignOK, WordsOK, MergeOK, TailOK
  <1> QED BY <1>2, <1>3

\* 16, 8 and 4 bytes, as the bits of the remainder say.
LEMMA LastWordsInv == IInv /\ LastWords /\ Machine64 => IInv'
  <1> SUFFICES ASSUME IInv, LastWords, Machine64 PROVE IInv'
    OBVIOUS
  <1>1. /\ pc = "words" /\ size \in {16, 8, 4} /\ TypeOK /\ n \in Nat /\ n' = n
        /\ Forward(Rest, 0) /\ Rest = n % (2 * size)
        /\ src % 8 = 0 \/ n = 0
        /\ dst % 8 = 0 /\ call' = call /\ NextSize
    BY DEF IInv, Progress64, WordsOK, LastWords, Machine64, TypeOK, regs, Rest
  <1>2. size \in Sizes /\ size \in Nat /\ size >= 4 /\ n % size \in Nat
    BY <1>1, Bits DEF Sizes
  <1> DEFINE w == IF size = 4 THEN 4 ELSE 8
  <1>3. Rest' = n % size
    <2>1. size' = size \div 2 /\ n' = n
      BY <1>1 DEF NextSize
    <2>2. (IF size \div 2 = 0 THEN 0 ELSE n % (2 * (size \div 2))) = n % size
      BY <1>1, <1>2, Bits
    <2> QED BY <2>1, <2>2, Zenon DEF Rest
  <1>4. size' \in {8, 4, 2} /\ pc' = (IF size = 4 THEN "tail" ELSE "words")
        /\ (size = 4 => size' = 2) /\ (size # 4 => size' \in {8, 4})
    BY <1>1 DEF NextSize
  <1>5. ASSUME Forward(Rest, 0)', TypeOK', size # 4 => (src' % 8 = 0 \/ n' = 0) /\ dst' % 8 = 0
        PROVE  MemmoveOK' /\ Progress64'
    BY <1>1, <1>4, <1>5 DEF MemmoveOK, Progress64, AlignOK, WordsOK, MergeOK, TailOK, Sizes
  <1>6. CASE HasBit(n, size)
    <2>1. CopyWords(w)
      BY <1>6 DEF LastWords
    <2>2. /\ mem' = Moved(mem, dst, src, size) /\ dst' = dst + size /\ src' = src + size
          /\ loads' = Words(src, size \div w, w) /\ stores' = Words(dst, size \div w, w)
      BY <1>1, <2>1 DEF CopyWords, Access
    <2>3. Rest = size + (n % size) /\ n # 0
      <3>1. n = 0 => n % (2 * size) = 0
        BY <1>1
      <3> QED BY <1>1, <1>2, <1>6, <3>1, Bits
    <2>4. /\ call.d \in Nat /\ call.s \in Nat /\ call.n \in Nat
          /\ Rest \in Nat /\ Rest <= call.n
          /\ dst = call.d + (call.n - Rest) /\ src = call.s + (call.n - Rest) + 0
          /\ dst \in Int /\ src \in Int /\ src % 8 = 0
      BY <1>1, <2>3, ForwardFacts
    <2>5. size <= Rest /\ Rest' = Rest - size
      <3> DEFINE r == n % size
      <3> HIDE DEF r
      <3>1. Rest = size + r /\ Rest' = r /\ r \in Nat /\ size \in Nat
        BY <1>2, <1>3, <2>3 DEF r
      <3> QED BY <3>1
    <2>6. Forward(Rest, 0)' /\ TypeOK'
      <3>1. Arrived(call', Rest', dst', mem') /\ src' = From(call', Rest') + 0 /\ dst' \in Int /\ src' \in Int
        BY <1>1, <1>2, <2>2, <2>5, Advance
      <3> QED BY <1>1, <3>1 DEF Forward, TypeOK, Machine64
    <2>7. size # 4 => (src' % 8 = 0 \/ n' = 0) /\ dst' % 8 = 0
      <3>1. size # 4 => size = 16 \/ size = 8
        BY <1>1
      <3> QED BY <1>1, <2>2, <2>4, <3>1, Strides
    <2>8. AccessesAllowed'
      <3>1. w \in {1, 4, 8} /\ size \div w \in Nat /\ w * (size \div w) = size
        BY <1>1
      <3>2. src % 4 = 0 /\ dst % 4 = 0
        BY <1>1, <2>4, Strides
      <3>3. src % w = 0 /\ dst % w = 0
        BY <1>1, <2>4, <3>2
      <3> HIDE DEF w
      <3> QED BY <1>1, <1>2, <2>2, <2>5, <3>1, <3>3, WordsAllowed
    <2> QED BY <1>5, <2>6, <2>7, <2>8 DEF IInv, Machine64
  <1>7. CASE ~ HasBit(n, size)
    <2>1. NoAccess /\ UNCHANGED <<mem, dst, src, n>>
      BY <1>7 DEF LastWords, NoAccess, regs
    <2>2. Rest' = Rest
      BY <1>1, <1>2, <1>3, <1>7, Bits
    <2>3. Forward(Rest, 0)' /\ TypeOK'
      BY <1>1, <2>1, <2>2 DEF Forward, TypeOK, Machine64
    <2> QED BY <1>1, <1>5, <2>1, <2>3, NoAccessAllowed DEF IInv, Machine64
  <1> QED BY <1>6, <1>7

-----------------------------------------------------------------------------
(***************************************************************************)
(* The rows of the jump table follow from the offset of the destination.   *)
(***************************************************************************)
LEMMA Rows ==
    ASSUME NEW o \in 1..7
    PROVE  LET row == JumpTable[o]
           IN  /\ row.first = 8 - o /\ row.up = o /\ row.down = 8 - o
               /\ row.more = 31 + o /\ row.back = 24 + o
  <1> USE DEF JumpTable
  <1>1. CASE o = 1
    BY <1>1 DEF DstOffset1
  <1>2. CASE o = 2
    BY <1>2 DEF DstOffset2
  <1>3. CASE o = 3
    BY <1>3 DEF DstOffset3
  <1>4. CASE o = 4
    BY <1>4 DEF DstOffset4
  <1>5. CASE o = 5
    BY <1>5 DEF DstOffset5
  <1>6. CASE o = 6
    BY <1>6 DEF DstOffset6
  <1>7. CASE o = 7
    BY <1>7 DEF DstOffset7
  <1> QED BY <1>1, <1>2, <1>3, <1>4, <1>5, <1>6, <1>7

\* The word that is loaded first starts at the next byte; the bytes of it that are
\* not stored are left for the loop.
LEMMA StoreFirstBytesInv == IInv /\ StoreFirstBytes /\ Machine64 => IInv'
  <1> SUFFICES ASSUME IInv, StoreFirstBytes, Machine64 PROVE IInv'
    OBVIOUS
  <1> DEFINE o == dst % 8
             f == 8 - o
             loaded == Load(mem, src, 8)
             bytes == SubSeq(loaded, 1, f)
  <1>1. /\ pc = "jump" /\ Forward(n, 0) /\ n >= 64 /\ TypeOK
        /\ src % 8 = 0 /\ dst % 8 # 0
    BY DEF IInv, Progress64, MergeOK, StoreFirstBytes, Machine64
  <1>2. /\ call \in Calls /\ call.d \in Nat /\ call.s \in Nat /\ call.n \in Nat
        /\ n \in Nat /\ n <= call.n /\ Arrived(call, n, dst, mem)
        /\ dst = call.d + (call.n - n) /\ src = call.s + (call.n - n) + 0
        /\ From(call, n) = call.s + (call.n - n) /\ dst \in Int /\ src \in Int
    BY <1>1, ForwardFacts
  <1>3. o \in 1..7 /\ f \in 1..7 /\ (dst + f) % 8 = 0
    <2>1. o \in 1..7 /\ (dst + f) % 8 = 0
      BY <1>1, <1>2, Offset
    <2> HIDE DEF o
    <2> QED BY <2>1
  <1>4. /\ case' = o /\ word' = loaded /\ mem' = Store(mem, dst, SubSeq(word', 1, f))
        /\ dst' = dst + f /\ src' = src + 32 /\ n' = n - f /\ pc' = "merge"
        /\ loads' = {<<src, 8>>} /\ stores' = Words(dst, f, 1) /\ call' = call
    BY <1>3, Rows DEF StoreFirstBytes, Access
  <1> HIDE DEF o, f
  <1>5. Held(loaded, 8, src) /\ loaded \in Seq(Byte)
    <2>1. From(call, n) <= src /\ src + 8 <= call.s + call.n
      <3>1. n \in Nat /\ n >= 64
        BY <1>1, <1>2
      <3>2. 8 \in Nat /\ 8 <= n
        BY <3>1
      <3>3. call.s <= src /\ src + 8 <= call.s + call.n /\ src = From(call, n)
        BY <1>1, <3>2, Room
      <3> QED BY <1>2, <3>3
    <2> QED BY <1>2, <2>1, LoadHeld
  <1> HIDE DEF loaded
  <1>6. Len(loaded) = 8 /\ \A i \in 1..8 : loaded[i] = Before[src + i - 1]
    BY <1>5 DEF Held
  <1>7. Held(bytes, f, From(call, n))
    <2>1. Len(bytes) = f /\ \A i \in 1..f : bytes[i] = loaded[i]
      <3>1. f \in 0..Len(loaded)
        BY <1>3, <1>6
      <3> QED BY <1>5, <3>1, Prefix
    <2>2. From(call, n) = src
      BY <1>2
    <2> HIDE DEF bytes
    <2> QED BY <1>3, <1>6, <2>1, <2>2 DEF Held
  <1>8. Arrived(call, n - f, dst + f, Store(mem, dst, bytes))
    <2>1. f \in Nat /\ f <= n
      <3>1. n \in Nat /\ n >= 64
        BY <1>1, <1>2
      <3> QED BY <1>3, <3>1
    <2> HIDE DEF bytes
    <2> QED BY <1>2, <1>7, <2>1, StoreArrives
  <1>9. Forward(n, 24 + case)'
    <2>1. src + 32 = From(call, n - f) + (24 + o)
      BY <1>2, <1>3 DEF From, f
    <2> QED BY <1>4, <1>8, <2>1 DEF Forward
  <1>10. n' \in Nat /\ n' > 31 + case' /\ case' \in 1..7
    BY <1>1, <1>2, <1>3, <1>4
  <1>11. src' % 8 = 0 /\ dst' % 8 = 0 /\ src' \in Int /\ dst' \in Int
    <2>1. src \in Int /\ dst \in Int /\ f \in Int /\ src' = src + 32 /\ dst' = dst + f
      BY <1>2, <1>3, <1>4
    <2>2. (src + 32) % 8 = 0
      BY <1>1, <2>1, Strides
    <2> QED BY <1>3, <2>1, <2>2
  <1>12. \A j \in (9 - case')..8 : word'[j] = Before[src' - 32 + j - 1]
    <2> SUFFICES ASSUME NEW j \in (9 - case')..8 PROVE word'[j] = Before[src' - 32 + j - 1]
      OBVIOUS
    <2>1. j \in 1..8 /\ src' - 32 + j - 1 = src + j - 1
      BY <1>2, <1>4, <1>10
    <2> QED BY <1>4, <1>6, <2>1
  <1>13. TypeOK'
    BY <1>1, <1>4, <1>10, <1>11 DEF TypeOK, Machine64
  <1>14. MemmoveOK' /\ Progress64'
    <2> QED BY <1>4, <1>9, <1>10, <1>11, <1>12
            DEF MemmoveOK, Progress64, AlignOK, WordsOK, MergeOK, TailOK
  <1>15. AccessesAllowed'
    <2>1. 8 \in Nat /\ 8 <= n /\ f \in Nat /\ f <= n
      <3>1. n \in Nat /\ n >= 64
        BY <1>1, <1>2
      <3> QED BY <1>3, <3>1
    <2>2. Aligned(<<src, 8>>) /\ Inside(<<src, 8>>, call.s, call.n)
      BY <1>1, <2>1, Room DEF Aligned, Inside
    <2>3. \A x \in Words(dst, f, 1) : Aligned(x) /\ Inside(x, call.d, call.n)
      <3>1. call.d <= dst /\ dst + f <= call.d + call.n
        BY <1>1, <2>1, Room
      <3>2. dst % 1 = 0 /\ 1 * f = f /\ 1 \in {1, 4, 8}
        BY <1>2, <1>3
      <3>3. dst \in Int /\ call.d \in Int /\ call.n \in Int
        BY <1>2
      <3>4. dst + 1 * f <= call.d + call.n
        BY <3>1, <3>2, Zenon
      <3> QED BY <2>1, <3>1, <3>2, <3>3, <3>4, WordsFit, Zenon
    <2> QED BY <1>4, <2>2, <2>3 DEF AccessesAllowed
  <1> QED BY <1>13, <1>14, <1>15 DEF IInv, Machine64

\* The bytes of a word from the lo-th on are those of the memory before the call,
\* the word being at address a.
WordAt(w, lo, a) == \A j \in lo..8 : w[j] = Before[a + j - 1]

Bytes(a, k) == \A x \in Int : a <= x /\ x < a + k => Before[x] \in Byte

\* The bytes of v that are left over come first, then those of the next word.
LEMMA MergeWord ==
    ASSUME NEW o \in 1..7, NEW a \in Int, NEW v, NEW w,
           WordAt(v, 9 - o, a - 8), WordAt(w, 1, a), Bytes(a - o, 8)
    PROVE  WordAt(Or(ShiftUp(w, o), ShiftDown(v, 8 - o)), 1, a - o)
  <1> SUFFICES ASSUME NEW j \in 1..8
               PROVE  Or(ShiftUp(w, o), ShiftDown(v, 8 - o))[j] = Before[a - o + j - 1]
    BY DEF WordAt
  <1>1. Or(ShiftUp(w, o), ShiftDown(v, 8 - o))[j]
          = (IF j > o THEN w[j - o] ELSE 0) + (IF j + (8 - o) <= 8 THEN v[j + (8 - o)] ELSE 0)
    BY DEF Or, ShiftUp, ShiftDown
  <1>2. Before[a - o + j - 1] \in Int
    <2>1. a - o + j - 1 \in Int /\ a - o <= a - o + j - 1 /\ a - o + j - 1 < a - o + 8
      OBVIOUS
    <2> QED BY <2>1 DEF Byte, Bytes
  <1>3. CASE j > o
    <2>1. ~ (j + (8 - o) <= 8) /\ j - o \in 1..8 /\ a + (j - o) - 1 = a - o + j - 1
      BY <1>3
    <2>2. w[j - o] = Before[a - o + j - 1]
      BY <2>1 DEF WordAt
    <2> QED BY <1>1, <1>2, <1>3, <2>1, <2>2
  <1>4. CASE ~ (j > o)
    <2>1. /\ j + (8 - o) <= 8 /\ j + (8 - o) \in (9 - o)..8
          /\ a - 8 + (j + (8 - o)) - 1 = a - o + j - 1
      BY <1>4
    <2>2. v[j + (8 - o)] = Before[a - o + j - 1]
      BY <2>1 DEF WordAt
    <2> QED BY <1>1, <1>2, <1>4, <2>1, <2>2
  <1> QED BY <1>3, <1>4

\* The words to merge, each with the one before.
LEMMA WordBefore ==
    ASSUME NEW first, NEW next, DOMAIN next = 1..4, next = [i \in 1..4 |-> next[i]]
    PROVE  /\ (<<first>> \o next)[1] = first
           /\ \A i \in 2..4 : (<<first>> \o next)[i] = next[i - 1]
  OBVIOUS

\* The b-th of 32 bytes in four words.
LEMMA ByteOfBlock ==
    ASSUME NEW b \in 1..32
    PROVE  /\ 1 + ((b - 1) \div 8) \in 1..4 /\ 1 + ((b - 1) % 8) \in 1..8
           /\ 8 * (1 + ((b - 1) \div 8)) + (1 + ((b - 1) % 8)) = b + 8
  OBVIOUS

LEMMA Block ==
    ASSUME NEW a \in Int, NEW words, \A i \in 1..4 : WordAt(words[i], 1, a + 8 * (i - 1))
    PROVE  Held([b \in 1..32 |-> words[1 + ((b - 1) \div 8)][1 + ((b - 1) % 8)]], 32, a)
  <1>1. ASSUME NEW i \in 1..4, NEW j \in 1..8, NEW b \in 1..32, 8 * i + j = b + 8
        PROVE  words[i][j] = Before[a + b - 1]
    <2>1. a + 8 * (i - 1) + j - 1 = a + b - 1
      BY <1>1
    <2>2. WordAt(words[i], 1, a + 8 * (i - 1))
      OBVIOUS
    <2>3. words[i][j] = Before[a + 8 * (i - 1) + j - 1]
      BY <2>2, Zenon DEF WordAt
    <2> QED BY <2>1, <2>3
  <1> DEFINE block == [b \in 1..32 |-> words[1 + ((b - 1) \div 8)][1 + ((b - 1) % 8)]]
  <1>2. \A b \in 1..32 : block[b] = Before[a + b - 1]
    BY <1>1, ByteOfBlock
  <1>3. Len(block) = 32
    OBVIOUS
  <1> QED BY <1>2, <1>3 DEF Held

\* Four words are loaded and merged with the bytes left over; what is left over
\* now is of the last of them.
LEMMA MergeWordsInv == IInv /\ MergeWords /\ Machine64 => IInv'
  <1> SUFFICES ASSUME IInv, MergeWords, Machine64 PROVE IInv'
    OBVIOUS
  <1> DEFINE row == JumpTable[case]
             next == [i \in 1..4 |-> Load(mem, src - 32 + 8 * i, 8)]
             prev == <<word>> \o next
             merged == [i \in 1..4 |-> Or(ShiftUp(next[i], row.up), ShiftDown(prev[i], row.down))]
             block == [b \in 1..32 |-> merged[1 + ((b - 1) \div 8)][1 + ((b - 1) % 8)]]
             at == From(call, n)
  <1>1. /\ pc = "merge" /\ TypeOK /\ case \in 1..7 /\ Forward(n, 24 + case) /\ n > 31 + case
        /\ src % 8 = 0 /\ dst % 8 = 0
        /\ WordAt(word, 9 - case, src - 32)
    BY DEF IInv, Progress64, MergeOK, MergeWords, Machine64, WordAt
  <1>2. /\ call \in Calls /\ call.d \in Nat /\ call.s \in Nat /\ call.n \in Nat
        /\ n \in Nat /\ n <= call.n /\ Arrived(call, n, dst, mem)
        /\ dst = call.d + (call.n - n) /\ at = call.s + (call.n - n)
        /\ dst \in Int /\ src \in Int /\ at \in Int /\ src = at + (24 + case)
    BY <1>1, ForwardFacts
  <1>3. /\ mem' = Store(mem, dst, block) /\ word' = next[4] /\ call' = call /\ case' = case
        /\ dst' = dst + 32 /\ n' = n - 32
        /\ loads' = Words(src - 24, 4, 8) /\ stores' = Words(dst, 4, 8)
    BY DEF MergeWords, Access
  <1>4. row.up = case /\ row.down = 8 - case /\ row.more = 31 + case /\ row.back = 24 + case
    BY <1>1, Rows
  <1>5. IF n' > 31 + case THEN src' = src + 32 /\ pc' = "merge"
        ELSE src' = src + 32 - (24 + case) /\ pc' = "tail" /\ size' = 32
    BY <1>1, <1>3, <1>4 DEF MergeWords
  <1>6. \A i \in 1..4 : merged[i] = Or(ShiftUp(next[i], case), ShiftDown(prev[i], 8 - case))
    BY <1>4
  <1>7. prev[1] = word /\ \A i \in 2..4 : prev[i] = next[i - 1]
    BY WordBefore
  <1>8. \A i \in 1..4 : next[i] = Load(mem, src - 32 + 8 * i, 8)
    OBVIOUS
  <1> HIDE DEF row, next, prev, merged, at
  <1>9. at + 32 + case <= call.s + call.n
    BY <1>1, <1>2
  <1>10. ASSUME NEW i \in 1..4 PROVE WordAt(next[i], 1, src - 32 + 8 * i)
    <2> DEFINE a == src - 32 + 8 * i
    <2>1. a \in Int /\ at <= a /\ a + 8 <= call.s + call.n
      BY <1>1, <1>2, <1>9
    <2> HIDE DEF a
    <2>2. Held(Load(mem, a, 8), 8, a)
      BY <1>2, <2>1, LoadHeld DEF at
    <2>3. next[i] = Load(mem, a, 8)
      BY <1>8 DEF a
    <2>4. WordAt(next[i], 1, a)
      BY <2>2, <2>3 DEF Held, WordAt
    <2> QED BY <2>4 DEF a
  <1>11. Bytes(at, 32)
    <2> SUFFICES ASSUME NEW x \in Int, at <= x, x < at + 32 PROVE Before[x] \in Byte
      BY DEF Bytes
    <2>1. x < call.s + call.n
      BY <1>1, <1>2, <1>9
    <2> QED BY <1>2, <2>1, ComesNext DEF at
  <1>12. ASSUME NEW i \in 1..4 PROVE WordAt(merged[i], 1, at + 8 * (i - 1))
    <2> DEFINE a == src - 32 + 8 * i
    <2>1. a \in Int /\ a - case = at + 8 * (i - 1)
      <3>1. src = at + (24 + case) /\ at \in Int /\ case \in Int
        BY <1>1, <1>2
      <3> QED BY <3>1
    <2>2. Bytes(a - case, 8)
      BY <1>2, <1>11, <2>1 DEF Bytes
    <2>3. WordAt(prev[i], 9 - case, a - 8)
      <3>1. CASE i = 1
        <4>1. a - 8 = src - 32
          BY <1>2, <3>1
        <4> QED BY <1>1, <1>7, <3>1, <4>1
      <3>2. CASE i # 1
        <4>1. i - 1 \in 1..4 /\ i \in 2..4 /\ a - 8 = src - 32 + 8 * (i - 1)
          BY <1>2, <3>2
        <4>2. WordAt(next[i - 1], 1, a - 8)
          BY <1>10, <4>1
        <4>3. prev[i] = next[i - 1]
          BY <1>7, <4>1
        <4> QED BY <1>1, <4>2, <4>3 DEF WordAt
      <3> QED BY <3>1, <3>2
    <2>4. WordAt(next[i], 1, a)
      BY <1>10
    <2> HIDE DEF a
    <2>5. WordAt(Or(ShiftUp(next[i], case), ShiftDown(prev[i], 8 - case)), 1, a - case)
      BY <1>1, <2>1, <2>2, <2>3, <2>4, MergeWord
    <2> QED BY <1>6, <2>1, <2>5
  <1>13. Held(block, 32, at)
    BY <1>2, <1>12, Block
  <1> HIDE DEF block
  <1>14. n' \in Nat /\ Arrived(call, n', dst', mem') /\ From(call, n') = at + 32
    <2>1. 32 \in Nat /\ 32 <= n /\ n - 32 \in Nat
      BY <1>1, <1>2
    <2>2. Arrived(call, n - 32, dst + 32, Store(mem, dst, block))
      BY <1>2, <1>13, <2>1, StoreArrives DEF at
    <2>3. From(call, n - 32) = at + 32
      BY <1>2 DEF From
    <2> QED BY <1>3, <2>1, <2>2, <2>3
  <1>15. AccessesAllowed'
    <2>1. 8 \in {1, 4, 8} /\ 4 \in Nat /\ 8 * 4 = 32
      OBVIOUS
    <2>2. src - 24 \in Int /\ call.s <= src - 24 /\ src - 24 + 8 * 4 <= call.s + call.n
      BY <1>1, <1>2, <1>9
    <2>3. (src - 24) % 8 = 0
      <3>1. src \in Int /\ src % 8 = 0
        BY <1>1, <1>2
      <3> QED BY <3>1
    <2>4. call.d <= dst /\ dst + 8 * 4 <= call.d + call.n
      BY <1>1, <1>2
    <2>5. call.s \in Int /\ call.d \in Int /\ call.n \in Int /\ dst \in Int /\ dst % 8 = 0
      BY <1>1, <1>2
    <2>6. \A x \in Words(src - 24, 4, 8) : Aligned(x) /\ Inside(x, call.s, call.n)
      BY <2>1, <2>2, <2>3, <2>5, WordsFit
    <2>7. \A x \in Words(dst, 4, 8) : Aligned(x) /\ Inside(x, call.d, call.n)
      BY <2>1, <2>4, <2>5, WordsFit
    <2> QED BY <1>3, <2>6, <2>7 DEF AccessesAllowed
  <1>16. dst' % 8 = 0 /\ dst' \in Int /\ (src + 32) % 8 = 0
    BY <1>1, <1>2, <1>3, Strides
  <1>17. CASE n' > 31 + case
    <2>1. src' = src + 32 /\ pc' = "merge"
      BY <1>5, <1>17
    <2>2. src' = From(call, n') + (24 + case) /\ src' \in Int
      BY <1>1, <1>2, <1>14, <2>1
    <2>3. Forward(n, 24 + case)'
      BY <1>3, <1>14, <2>2 DEF Forward
    <2>4. \A j \in (9 - case)..8 : word'[j] = Before[src' - 32 + j - 1]
      <3>1. WordAt(next[4], 1, src - 32 + 8 * 4)
        BY <1>10
      <3>2. src - 32 + 8 * 4 = src' - 32
        BY <1>2, <2>1
      <3>3. \A j \in (9 - case)..8 : j \in 1..8
        BY <1>1
      <3> QED BY <1>3, <3>1, <3>2, <3>3 DEF WordAt
    <2>5. MemmoveOK' /\ Progress64'
      BY <1>1, <1>3, <1>16, <1>17, <2>1, <2>3, <2>4
         DEF MemmoveOK, Progress64, AlignOK, WordsOK, MergeOK, TailOK
    <2>6. TypeOK'
      BY <1>1, <1>3, <1>14, <1>16, <2>2 DEF TypeOK, Machine64
    <2> QED BY <1>15, <2>5, <2>6 DEF IInv, Machine64
  <1>18. CASE ~ (n' > 31 + case)
    <2>1. src' = src + 32 - (24 + case) /\ pc' = "tail" /\ size' = 32
      BY <1>5, <1>18
    <2>2. src' = From(call, n') + 0 /\ src' \in Int
      BY <1>1, <1>2, <1>14, <2>1
    <2>3. Rest' = n'
      <3>1. n' \in Nat /\ n' < 64
        <4>1. case \in 1..7 /\ n' \in Nat
          BY <1>1, <1>14
        <4> QED BY <1>18, <4>1
      <3>2. n' % 64 = n'
        BY <3>1, BelowSixtyFour
      <3> QED BY <2>1, <3>2 DEF Rest
    <2>4. Forward(Rest, 0)'
      BY <1>3, <1>14, <2>2, <2>3 DEF Forward
    <2>5. MemmoveOK' /\ Progress64'
      BY <2>1, <2>4 DEF MemmoveOK, Progress64, AlignOK, WordsOK, MergeOK, TailOK, Sizes
    <2>6. TypeOK'
      BY <1>1, <1>3, <1>14, <1>16, <2>2 DEF TypeOK, Machine64
    <2> QED BY <1>15, <2>5, <2>6 DEF IInv, Machine64
  <1> QED BY <1>17, <1>18

\* What an unrolled copy holds: the first k bytes are stored, l are loaded after
\* the last.
LEMMA HeldOn ==
    ASSUME NEW v \in Seq(Byte), NEW a \in Int, Held(v, Len(v), a), NEW k \in 0..Len(v),
           NEW l \in Nat, NEW w \in Seq(Byte), Held(w, l, a + Len(v))
    PROVE  LET t == SubSeq(v, k + 1, Len(v)) \o w
           IN  /\ Held(SubSeq(v, 1, k), k, a)
               /\ t \in Seq(Byte) /\ Held(t, Len(v) - k + l, a + k)
  <1> DEFINE L == Len(v)
             u == SubSeq(v, k + 1, L)
             t == u \o w
  <1>1. L \in Nat /\ k \in Nat /\ k <= L
    OBVIOUS
  <1>2. \A i \in 1..L : v[i] = Before[a + i - 1]
    BY DEF Held
  <1>3. Held(SubSeq(v, 1, k), k, a)
    <2>1. Len(SubSeq(v, 1, k)) = k /\ \A i \in 1..k : SubSeq(v, 1, k)[i] = v[i]
      BY Prefix
    <2> QED BY <1>1, <1>2, <2>1 DEF Held
  <1>4. u \in Seq(Byte) /\ Len(u) = L - k /\ \A i \in 1..(L - k) : u[i] = v[k + i]
    BY <1>1
  <1>5. Len(w) = l /\ \A i \in 1..l : w[i] = Before[a + L + i - 1]
    BY DEF Held
  <1> HIDE DEF L, u
  <1>6. t \in Seq(Byte) /\ Len(t) = Len(u) + Len(w)
        /\ \A i \in 1..(Len(u) + Len(w)) : t[i] = IF i <= Len(u) THEN u[i] ELSE w[i - Len(u)]
    BY <1>4, ConcatProperties
  <1>7. ASSUME NEW i \in 1..(L - k + l) PROVE t[i] = Before[a + k + i - 1]
    <2>1. CASE i <= L - k
      <3>1. i \in 1..(L - k) /\ k + i \in 1..L /\ a + (k + i) - 1 = a + k + i - 1
        BY <1>1, <2>1
      <3>2. t[i] = u[i]
        <4>1. i \in 1..(Len(u) + Len(w)) /\ i <= Len(u)
          BY <1>4, <1>5, <2>1
        <4> QED BY <1>6, <4>1
      <3>3. u[i] = v[k + i] /\ v[k + i] = Before[a + (k + i) - 1]
        BY <1>2, <1>4, <3>1
      <3> QED BY <3>1, <3>2, <3>3
    <2>2. CASE ~ (i <= L - k)
      <3>1. i - (L - k) \in 1..l /\ a + L + (i - (L - k)) - 1 = a + k + i - 1
        BY <1>1, <2>2
      <3>2. t[i] = w[i - (L - k)]
        <4>1. i \in 1..(Len(u) + Len(w)) /\ ~ (i <= Len(u)) /\ Len(u) = L - k
          BY <1>4, <1>5, <2>2
        <4> QED BY <1>6, <4>1
      <3> QED BY <1>5, <3>1, <3>2
    <2> QED BY <2>1, <2>2
  <1>8. Held(t, L - k + l, a + k)
    BY <1>4, <1>5, <1>6, <1>7 DEF Held
  <1> QED BY <1>3, <1>6, <1>8 DEF L, u

LEMMA NextTailInv == IInv /\ NextTail /\ Machine64 => IInv'
  <1> SUFFICES ASSUME IInv, NextTail, Machine64 PROVE IInv'
    OBVIOUS
  <1>1. /\ pc = "tail" /\ size \in Sizes \cup {0} /\ Forward(Rest, 0) /\ TypeOK /\ n \in Nat
        /\ call' = call /\ dst' = dst /\ n' = n
    BY DEF IInv, Progress64, TailOK, NextTail, Machine64, TypeOK
  <1>2. CASE size = 0
    <2>1. pc' = "done" /\ src' = src /\ NoAccess /\ mem' = mem
      BY <1>2 DEF NextTail, NoAccess
    <2>2. Forward(0, 0)
      BY <1>1, <1>2 DEF Rest
    <2>3. mem' = Moved(Before, call'.d, call'.s, call'.n)
      BY <1>1, <2>1, <2>2, CallTypes, AllArrived DEF Forward
    <2>4. MemmoveOK' /\ Progress64'
      BY <2>1, <2>3 DEF MemmoveOK, Progress64, AlignOK, WordsOK, MergeOK, TailOK
    <2> QED BY <1>1, <2>1, <2>4, NoAccessAllowed DEF IInv, TypeOK, Machine64
  <1>3. CASE size # 0 /\ HasBit(n, size)
    <2> DEFINE k == AtMost(size, 8)
               r == n % size
    <2>1. /\ size \in Sizes /\ size \in Nat /\ k \in Nat /\ 1 <= k /\ k <= size
      BY <1>1, <1>3 DEF Sizes, AtMost
    <2>2. r \in Nat /\ Rest = size + r
      BY <1>1, <1>3, <2>1, Bits DEF Rest
    <2>3. /\ held' = Load(mem, src, k) /\ ahead' = size - k /\ src' = src + k
          /\ pc' = "unrolled" /\ mem' = mem /\ size' = size
          /\ loads' = Words(src, k, 1) /\ stores' = {}
      BY <1>3 DEF NextTail, Access
    <2> HIDE DEF k, r
    <2>4. k <= Rest
      BY <2>1, <2>2
    <2>5. /\ call \in Calls /\ call.s \in Int /\ call.n \in Int /\ src \in Int /\ dst \in Int
          /\ Arrived(call, Rest, dst, mem)
      BY <1>1, ForwardFacts
    <2>6. call.s <= src /\ src + k <= call.s + call.n /\ src = From(call, Rest)
      BY <1>1, <2>1, <2>4, Room
    <2>7. Held(held', k, src) /\ held' \in Seq(Byte)
      BY <2>1, <2>3, <2>5, <2>6, LoadHeld
    <2>8. Len(held') = k
      BY <2>7 DEF Held
    <2>9. Forward(Len(held) + ahead + (n % size), Len(held))'
      <3>1. Len(held') + ahead' + r = Rest
        BY <2>1, <2>2, <2>3, <2>8
      <3>2. src' = From(call, Rest) + Len(held')
        BY <2>3, <2>6, <2>8
      <3>3. Len(held') + ahead' + (n' % size') = Rest
        BY <1>1, <2>3, <3>1 DEF r
      <3> QED BY <1>1, <2>3, <2>5, <3>2, <3>3 DEF Forward
    <2>10. \A i \in 1..Len(held') : held'[i] = Before[src' - Len(held') + i - 1]
      <3>1. src' - Len(held') = src
        BY <2>1, <2>3, <2>5, <2>8
      <3> QED BY <2>7, <2>8, <3>1 DEF Held
    <2>11. Len(held') > 0 /\ ahead' \in Nat /\ src' \in Int
      BY <2>1, <2>3, <2>5, <2>8
    <2>12. MemmoveOK' /\ Progress64'
      BY <2>1, <2>3, <2>7, <2>9, <2>10, <2>11
         DEF MemmoveOK, Progress64, AlignOK, WordsOK, MergeOK, TailOK
    <2>13. AccessesAllowed'
      <3>1. 1 \in {1, 4, 8} /\ 1 * k = k /\ src % 1 = 0
        BY <2>1, <2>5
      <3>2. \A x \in Words(src, k, 1) : Aligned(x) /\ Inside(x, call.s, call.n)
        BY <2>1, <2>5, <2>6, <3>1, WordsFit
      <3> QED BY <1>1, <2>3, <3>2 DEF AccessesAllowed
    <2> QED BY <1>1, <2>5, <2>11, <2>12, <2>13 DEF IInv, TypeOK, Machine64
  <1>4. CASE size # 0 /\ ~ HasBit(n, size)
    <2>1. size' = size \div 2 /\ pc' = pc /\ src' = src /\ NoAccess /\ mem' = mem
      BY <1>4 DEF NextTail, NoAccess
    <2>2. size \in Sizes
      BY <1>1, <1>4
    <2>3. Rest = n % size
      BY <1>1, <1>4, <2>2, Bits DEF Rest
    <2>4. /\ (IF size \div 2 = 0 THEN 0 ELSE n % (2 * (size \div 2))) = n % size
          /\ size \div 2 \in Sizes \cup {0}
      BY <1>1, <2>2, Bits
    <2>5. Rest' = Rest /\ size' \in Sizes \cup {0}
      BY <1>1, <2>1, <2>3, <2>4, Zenon DEF Rest
    <2>6. Forward(Rest, 0)'
      BY <1>1, <2>1, <2>5 DEF Forward
    <2>7. MemmoveOK' /\ Progress64'
      BY <1>1, <2>1, <2>5, <2>6 DEF MemmoveOK, Progress64, AlignOK, WordsOK, MergeOK, TailOK
    <2> QED BY <1>1, <2>1, <2>7, NoAccessAllowed DEF IInv, TypeOK, Machine64
  <1> QED BY <1>2, <1>3, <1>4

\* What is loaded after a store comes after what the store wrote.
LEMMA UnrolledBytesInv == IInv /\ UnrolledBytes /\ Machine64 => IInv'
  <1> SUFFICES ASSUME IInv, UnrolledBytes, Machine64 PROVE IInv'
    OBVIOUS
  <1> DEFINE L == Len(held)
             k == AtMost(L, 4)
             l == AtMost(ahead, 4)
             r == n % size
             left == L + ahead + r
             at == From(call, left)
             stored == Store(mem, dst, SubSeq(held, 1, k))
  <1>1. /\ pc = "unrolled" /\ TypeOK /\ size \in Sizes /\ ahead \in Nat /\ n \in Nat
        /\ held \in Seq(Byte) /\ L > 0 /\ Forward(left, L)
        /\ \A i \in 1..L : held[i] = Before[src - L + i - 1]
    BY DEF IInv, Progress64, TailOK, UnrolledBytes, Machine64, TypeOK
  <1>2. /\ mem' = stored /\ held' = SubSeq(held, k + 1, L) \o Load(stored, src, l)
        /\ ahead' = ahead - l /\ src' = src + l /\ dst' = dst + k
        /\ call' = call /\ n' = n
        /\ loads' = Words(src, l, 1) /\ stores' = Words(dst, k, 1)
        /\ IF held' = << >> THEN pc' = "tail" /\ size' = size \div 2
           ELSE pc' = pc /\ size' = size
    BY DEF UnrolledBytes, Access
  <1>3. /\ L \in Nat /\ k \in Nat /\ l \in Nat /\ 1 <= k /\ k <= L /\ l <= ahead
        /\ (l = 0 => ahead = 0) /\ r \in Nat /\ left \in Nat /\ left = L + ahead + r
    <2>1. r \in Nat
      BY <1>1, Bits
    <2>2. L \in Nat
      BY <1>1
    <2> HIDE DEF L, r
    <2> QED BY <1>1, <2>1, <2>2 DEF AtMost
  <1> HIDE DEF L, k, l, r, left
  <1>4. /\ call \in Calls /\ call.d \in Nat /\ call.s \in Nat /\ call.n \in Nat
        /\ left <= call.n /\ Arrived(call, left, dst, mem)
        /\ dst = call.d + (call.n - left) /\ at = call.s + (call.n - left) /\ at \in Int
        /\ src = at + L /\ dst \in Int /\ src \in Int
    <2>1. L \in Int /\ left \in Nat
      BY <1>3
    <2>2. /\ call \in Calls /\ call.d \in Nat /\ call.s \in Nat /\ call.n \in Nat
          /\ left <= call.n /\ Arrived(call, left, dst, mem)
          /\ dst = call.d + (call.n - left) /\ dst \in Int /\ src \in Int
          /\ at = call.s + (call.n - left) /\ src = call.s + (call.n - left) + L
      BY <1>1, <2>1, ForwardFacts
    <2> HIDE DEF at
    <2> QED BY <2>1, <2>2
  <1>5. From(call, left - k) = at + k /\ src + l <= call.s + call.n /\ call.s <= at
        /\ dst + k <= call.d + call.n /\ call.d <= dst
    <2>1. From(call, left - k) = call.s + (call.n - (left - k))
      BY DEF From
    <2>2. at \in Int /\ at = call.s + (call.n - left) /\ src = at + L /\ left <= call.n
          /\ dst = call.d + (call.n - left) /\ dst \in Int /\ call.d \in Int
          /\ call.s \in Int /\ call.n \in Int /\ src \in Int
      BY <1>4
    <2>3. k \in Int /\ l \in Int /\ L \in Int /\ left \in Int /\ k <= left /\ L + l <= left
      <3>1. k \in Nat /\ l \in Nat /\ L \in Nat /\ left = L + ahead + r
            /\ k <= L /\ l <= ahead /\ r \in Nat /\ ahead \in Nat
        BY <1>1, <1>3
      <3> QED BY <3>1
    <2> HIDE DEF at
    <2> QED BY <2>1, <2>2, <2>3
  <1> HIDE DEF at
  <1>6. Held(held, L, at)
    <2>1. src - L = at
      BY <1>3, <1>4
    <2> QED BY <1>1, <2>1 DEF Held, L
  <1>7. Held(SubSeq(held, 1, k), k, at)
    <2>1. Held(held, Len(held), at) /\ k \in 0..Len(held)
      BY <1>3, <1>6 DEF L
    <2>2. Len(SubSeq(held, 1, k)) = k /\ \A i \in 1..k : SubSeq(held, 1, k)[i] = held[i]
      BY <1>1, <2>1, Prefix
    <2> QED BY <1>3, <1>6, <2>2 DEF Held
  <1>8. Arrived(call, left - k, dst', mem')
    <2>1. k <= left
      BY <1>1, <1>3
    <2> QED BY <1>2, <1>3, <1>4, <1>7, <2>1, StoreArrives DEF at
  <1>9. Held(Load(stored, src, l), l, src) /\ Load(stored, src, l) \in Seq(Byte)
    <2>1. From(call, left - k) <= src
      BY <1>3, <1>4, <1>5
    <2> HIDE DEF stored
    <2> QED BY <1>2, <1>3, <1>4, <1>5, <1>8, <2>1, LoadHeld
  <1> HIDE DEF stored
  <1>10. held' \in Seq(Byte) /\ Held(held', L - k + l, at + k)
    <2>1. Held(held, Len(held), at) /\ k \in 0..Len(held) /\ src = at + Len(held)
      BY <1>3, <1>4, <1>6 DEF L
    <2> QED BY <1>1, <1>2, <1>3, <1>4, <1>9, <2>1, HeldOn DEF L
  <1>11. Len(held') = L - k + l /\ Len(held') \in Nat
    BY <1>3, <1>10 DEF Held
  <1>12. ahead' \in Nat /\ Len(held') + ahead' + r = left - k /\ src' = at + k + Len(held')
         /\ src' \in Int /\ dst' \in Int
    <2>1. /\ ahead' = ahead - l /\ src' = src + l /\ dst' = dst + k /\ Len(held') = L - k + l
          /\ src = at + L
      BY <1>2, <1>4, <1>11
    <2>2. /\ ahead \in Nat /\ k \in Nat /\ l \in Nat /\ L \in Nat /\ r \in Nat
          /\ l <= ahead /\ left = L + ahead + r
      BY <1>1, <1>3
    <2>3. at \in Int /\ src \in Int /\ dst \in Int
      BY <1>4
    <2> QED BY <2>1, <2>2, <2>3
  <1>13. AccessesAllowed'
    <2>1. 1 \in {1, 4, 8} /\ 1 * k = k /\ 1 * l = l /\ src % 1 = 0 /\ dst % 1 = 0
      BY <1>3, <1>4
    <2>2. call.s <= src /\ call.d <= dst /\ dst + k <= call.d + call.n
      <3>1. src = at + L /\ L \in Nat /\ at \in Int /\ call.s <= at /\ call.s \in Int
        BY <1>3, <1>4, <1>5
      <3> QED BY <1>5, <3>1
    <2>3. call.s \in Int /\ call.d \in Int /\ call.n \in Int
      BY <1>4
    <2>4. \A x \in Words(src, l, 1) : Aligned(x) /\ Inside(x, call.s, call.n)
      BY <1>3, <1>4, <1>5, <2>1, <2>2, <2>3, WordsFit
    <2>5. \A x \in Words(dst, k, 1) : Aligned(x) /\ Inside(x, call.d, call.n)
      BY <1>3, <1>4, <2>1, <2>2, <2>3, WordsFit
    <2> QED BY <1>2, <2>4, <2>5 DEF AccessesAllowed
  <1>14. TypeOK'
    BY <1>1, <1>2, <1>12 DEF TypeOK, Machine64
  <1>15. CASE held' = << >>
    <2>1. pc' = "tail" /\ size' = size \div 2
      BY <1>2, <1>15
    <2>2. Len(held') = 0
      BY <1>15
    <2>3. l = 0 /\ ahead' = 0
      BY <1>1, <1>2, <1>3, <1>11, <2>2
    <2>4. r = left - k /\ src' = From(call, r) + 0
      BY <1>3, <1>4, <1>5, <1>12, <2>2, <2>3
    <2>5. /\ (IF size \div 2 = 0 THEN 0 ELSE n % (2 * (size \div 2))) = r
          /\ size \div 2 \in Sizes \cup {0}
      BY <1>1, Bits DEF r
    <2>6. Rest' = r
      BY <1>2, <2>1, <2>5, Zenon DEF Rest
    <2>7. Forward(Rest, 0)'
      BY <1>2, <1>8, <2>4, <2>6 DEF Forward
    <2>8. MemmoveOK' /\ Progress64'
      BY <2>1, <2>5, <2>7 DEF MemmoveOK, Progress64, AlignOK, WordsOK, MergeOK, TailOK
    <2> QED BY <1>13, <1>14, <2>8 DEF IInv, Machine64
  <1>16. CASE held' # << >>
    <2>1. pc' = "unrolled" /\ size' = size
      BY <1>1, <1>2, <1>16
    <2>2. Len(held') > 0
      BY <1>10, <1>11, <1>16
    <2>3. Forward(Len(held) + ahead + (n % size), Len(held))'
      <3>1. Len(held') + ahead' + (n' % size') = left - k
        BY <1>2, <1>12, <2>1 DEF r
      <3> QED BY <1>2, <1>5, <1>8, <1>12, <3>1 DEF Forward
    <2>4. \A i \in 1..Len(held') : held'[i] = Before[src' - Len(held') + i - 1]
      <3>1. src' - Len(held') = at + k
        <4>1. at \in Int /\ k \in Int /\ Len(held') \in Int /\ src' = at + k + Len(held')
          BY <1>3, <1>4, <1>11, <1>12
        <4> QED BY <4>1
      <3> QED BY <1>10, <1>11, <3>1 DEF Held
    <2>5. TailOK'
      <3>1. size' \in Sizes /\ ahead' \in Nat /\ held' \in Seq(Byte) /\ pc' # "tail"
        BY <1>1, <1>10, <1>12, <2>1
      <3> QED BY <2>2, <2>3, <2>4, <3>1 DEF TailOK
    <2>6. MemmoveOK' /\ Progress64'
      BY <2>1, <2>5 DEF MemmoveOK, Progress64, AlignOK, WordsOK, MergeOK
    <2> QED BY <1>13, <1>14, <2>6 DEF IInv, Machine64
  <1> QED BY <1>15, <1>16

\* Whatever routine the machine runs.
LEMMA StepInv == IInv /\ [NextGuest]_<<vars, machine>> => IInv'
  <1> SUFFICES ASSUME IInv, [NextGuest]_<<vars, machine>> PROVE IInv'
    OBVIOUS
  <1>1. CASE UNCHANGED <<vars, machine>> \/ (Returned /\ UNCHANGED <<merge, tail, machine>>)
    <2>1. UNCHANGED <<call, pc, mem, dst, src, n, loads, stores, machine, size, held, ahead, case, word>>
      BY <1>1 DEF vars, Returned, mvars, regs, merge, tail
    <2> QED BY <2>1 DEF IInv, TypeOK, MemmoveOK, Forward, Backward, Progress32, Progress64,
                       AlignOK, WordsOK, MergeOK, TailOK, Rest, AccessesAllowed
  <1>2. CASE machine = "rv64im" /\ Next /\ UNCHANGED machine
    BY <1>1, <1>2, MemmoveInv, BackwardByteInv, Memcpy64Inv, AlignSourceInv, DispatchInv,
       WordLoopInv, LastWordsInv, StoreFirstBytesInv, MergeWordsInv, NextTailInv,
       UnrolledBytesInv DEF Next, Machine64, merge, tail
  <1>3. CASE machine = "rv32im" /\ M32!Next /\ UNCHANGED <<merge, tail>> /\ UNCHANGED machine
    BY <1>3, Next32Inv DEF Machine32
  <1> QED BY <1>1, <1>2, <1>3 DEF NextGuest

LEMMA Invariant == SpecGuest => []IInv
  BY InitIInv, StepInv, PTL DEF SpecGuest

-----------------------------------------------------------------------------
\* memcpy and memmove of the three guests never trap on a misaligned word and
\* never leave their areas, for every call and every memory.
THEOREM MemcpyAccessesAllowed == SpecGuest => []AccessesAllowed
  <1>1. IInv => AccessesAllowed
    BY DEF IInv
  <1> QED BY <1>1, Invariant, PTL

\* No step but the last returns, and the call it returns from is the one made.
LEMMA StepOfCall ==
    ASSUME NextGuest
    PROVE  call' = call /\ (pc = "done" => pc' = pc /\ mem' = mem)
  <1>1. CASE Next
    BY <1>1 DEF Next, Memmove, BackwardByte, Returned, Memcpy, AlignSource, Dispatch, WordLoop,
                LastWords, StoreFirstBytes, MergeWords, NextTail, UnrolledBytes, mvars
  <1>2. CASE M32!Next
    BY <1>2 DEF M32!Next, M32!Memmove, M32!BackwardByte, M32!Returned, M32!Memcpy, M32!CopyWord,
                M32!CopyByte, M32!mvars
  <1> QED BY <1>1, <1>2 DEF NextGuest

\* Safety half of Implements: nothing is promised before the call returns, and
\* it returns once with the destination holding the source as it was and every
\* other byte as before.
THEOREM MemcpyImplementsCopy ==
    SpecGuest => Promise!Init /\ [][Promise!Copy]_(Promise!mvars)
  <1>1. InitGuest => Promise!Init
    <2> SUFFICES ASSUME InitGuest PROVE Promise!Init
      OBVIOUS
    <2>1. pc # "done"
      BY CallFacts DEF InitGuest, Init, InitCall
    <2> QED BY <2>1 DEF Promise!Init
  <1>2. IInv /\ IInv' /\ [NextGuest]_<<vars, machine>> => [Promise!Copy]_(Promise!mvars)
    <2> SUFFICES ASSUME IInv, IInv', [NextGuest]_<<vars, machine>>
                 PROVE  [Promise!Copy]_(Promise!mvars)
      OBVIOUS
    <2>1. CASE UNCHANGED <<vars, machine>>
      BY <2>1 DEF vars, mvars, Promise!mvars
    <2>2. CASE NextGuest
      <3>1. call' = call /\ (pc = "done" => pc' = pc /\ mem' = mem)
        BY <2>2, StepOfCall
      <3>2. CASE pc = "done" \/ pc' # "done"
        BY <3>1, <3>2 DEF Promise!mvars
      <3>3. CASE pc # "done" /\ pc' = "done"
        <4>1. mem' = Moved(Before, call.d, call.s, call.n)
          BY <3>1, <3>3 DEF IInv, MemmoveOK
        <4> QED BY <3>1, <3>3, <4>1 DEF Promise!Copy, Promise!Moved, Moved
      <3> QED BY <3>2, <3>3
    <2> QED BY <2>1, <2>2
  <1> QED BY <1>1, <1>2, Invariant, PTL DEF SpecGuest

=============================================================================
