-------------------------- MODULE PacketStreamProofs --------------------------
(***************************************************************************)
(* Proofs about PacketStream: reads stay inside their block (ReadFits), and   *)
(* packets are handled in order, ungarbled, and answered in order (InOrder).  *)
(*                                                                          *)
(* What lies between the two coroutines is one stream: the bytes of the block *)
(* not yet parsed, the wire, the buffers not yet written.  Writes and reads    *)
(* cut it anywhere but leave it as it is; TakePacket adds a packet at its end  *)
(* and Parse takes one off its front.  Whole says, byte by byte, that the      *)
(* stream is a row of whole packets.                                          *)
(***************************************************************************)
EXTENDS PacketStream, FiniteSetTheorems, SequenceTheorems, TLAPS

Positive == Nat \ {0}
Byte   == Nat \X Nat
Packet == [block : Blocks, pos : Nat]

TypeOK ==
    /\ sent \in Seq(Messages) /\ sendQue \in Seq(Nat)
    /\ bufs \in Seq(Seq(Byte)) /\ Len(bufs) <= 2
    /\ wire \in Seq(Byte)
    /\ data \in [Blocks -> Seq(Byte)]
    /\ curBlock \in Blocks \cup {NoBlock} /\ head \in Nat
    /\ rpc \in {"buffer", "read", "parse"}
    /\ sesQue \in Seq(Packet) /\ handled \in Seq(Nat) /\ answers \in Seq(Nat)
    /\ lost \in BOOLEAN /\ open \subseteq Sides

\* Recv reads and parses only with a block, parses no further than it has read,
\* and reads only when a packet of the largest size fits.
BlockOK ==
    /\ rpc \in {"read", "parse"} => curBlock \in Blocks
    /\ curBlock \in Blocks => head <= Len(data[curBlock])
    /\ rpc = "read" => Len(data[curBlock]) + PacketSize <= MaxSize

\* Send takes the packets in order.
Taken == Len(sent) - Len(sendQue)

QueueOK ==
    /\ Len(sendQue) <= Len(sent)
    /\ \A k \in 1 .. Len(sendQue) : sendQue[k] = Taken + k

\* The stream between PacketHelper and GetNetMessage.
Unread == IF curBlock = NoBlock THEN <<>>
          ELSE SubSeq(data[curBlock], head + 1, Len(data[curBlock]))
Stream == (Unread \o wire) \o FlattenSeq(bufs)
Sizes  == [i \in 1 .. Len(sent) |-> HeaderSize + sent[i].body]

\* Byte j of s is byte k of packet i; the rest of the packet follows, and then the
\* next packet unless this was the last, hi.
ByteOK(s, hi, z, j, i, k) ==
    /\ \A d \in 0 .. z[i] - 1 - k : j + d <= Len(s) /\ s[j + d] = <<i, k + d>>
    /\ LET n == j + z[i] - k
       IN  IF n <= Len(s) THEN i < hi /\ s[n] = <<i + 1, 0>> ELSE i = hi

\* s is made of the packets lo + 1 .. hi, whose sizes are in z.
Whole(s, lo, hi, z) ==
    /\ lo <= hi /\ hi <= Len(z)
    /\ s = <<>> => lo = hi
    /\ s # <<>> => lo < hi /\ s[1] = <<lo + 1, 0>>
    /\ \A j \in 1 .. Len(s) : \E i \in 1 .. hi : \E k \in 0 .. z[i] - 1 : ByteOK(s, hi, z, j, i, k)

Posted   == Len(handled) + Len(sesQue)
StreamOK == Whole(Stream, Posted, Taken, Sizes)

\* The header of packet i, at a position of a block.
HeaderAt(block, pos, i) ==
    \A k \in 1 .. HeaderSize : /\ pos + k <= Len(data[block])
                               /\ data[block][pos + k] = <<i, k - 1>>

HandledOK ==
    /\ \A q \in 1 .. Len(handled) : handled[q] = q
    /\ \A q \in 1 .. Len(sesQue) : HeaderAt(sesQue[q].block, sesQue[q].pos, Len(handled) + q)

AnswersOK ==
    /\ \A j, k \in 1 .. Len(answers) : j < k => answers[j] < answers[k]
    /\ \E n \in 0 .. Len(handled) :
          /\ \A i \in Nat : (\E j \in 1 .. Len(answers) : answers[j] = i)
                            <=> (i \in 1 .. n /\ Handles(sent[i].type))
          /\ "recv" \in open => n = Len(handled)

OrderOK == lost \/ (StreamOK /\ HandledOK /\ AnswersOK)

IInv == TypeOK /\ BlockOK /\ QueueOK /\ OrderOK

-----------------------------------------------------------------------------
(* Sequences of at most two parts, and FlattenSeq on them                    *)

\* Short sequences and their parts.
LEMMA ShortSequences ==
    ASSUME NEW S, NEW a \in S, NEW b \in S
    PROVE  /\ <<a>> \in Seq(S) /\ Len(<<a>>) = 1 /\ <<a>>[1] = a
           /\ <<a, b>> \in Seq(S) /\ Len(<<a, b>>) = 2 /\ <<a, b>>[1] = a /\ <<a, b>>[2] = b
           /\ <<a>> \o <<b>> = <<a, b>>
           /\ SubSeq(<<a, b>>, 1, 1) = <<a>> /\ SubSeq(<<a, b>>, 2, 2) = <<b>>
<1>1. /\ <<a>> \in Seq(S) /\ Len(<<a>>) = 1 /\ <<a>>[1] = a
      /\ <<b>> \in Seq(S) /\ Len(<<b>>) = 1 /\ <<b>>[1] = b
      /\ <<a, b>> \in Seq(S) /\ Len(<<a, b>>) = 2 /\ <<a, b>>[1] = a /\ <<a, b>>[2] = b
  OBVIOUS
<1>2. <<a>> \o <<b>> = <<a, b>>
  <2> DEFINE l == <<a>>  r == <<b>>  t == <<a, b>>
  <2>1. l \o r \in Seq(S) /\ Len(l \o r) = 2 /\ (l \o r)[1] = l[1] /\ (l \o r)[2] = r[1]
    <3> HIDE DEF l, r
    <3> QED BY <1>1, ConcatProperties DEF l, r
  <2>2. \A i \in 1 .. 2 : (l \o r)[i] = t[i]
    <3>1. \A i \in 1 .. 2 : i = 1 \/ i = 2
      OBVIOUS
    <3> HIDE DEF l, r, t
    <3> QED BY <3>1, <2>1, <1>1 DEF l, r, t
  <2> HIDE DEF l, r, t
  <2>3. l \o r = t
    BY <2>1, <2>2, <1>1, SeqEqual DEF t
  <2> QED BY <2>3 DEF l, r, t
<1>3. ASSUME NEW i \in {1, 2}
      PROVE  SubSeq(<<a, b>>, i, i) = <<IF i = 1 THEN a ELSE b>>
  <2> DEFINE t == <<a, b>>  x == IF i = 1 THEN a ELSE b  l == <<x>>
  <2>0. l \in Seq(S) /\ Len(l) = 1 /\ l[1] = x
    OBVIOUS
  <2>1. t[i] = x /\ t[i] \in S /\ i \in Int
    BY <1>1
  <2> HIDE DEF t, l, x
  <2>2. \A k \in i .. i : t[k] \in S
    BY <2>1
  <2>3. SubSeq(t, i, i) \in Seq(S) /\ Len(SubSeq(t, i, i)) = 1 /\ SubSeq(t, i, i)[1] = x
    BY <2>1, <2>2, SubSeqProperties
  <2>4. \A k \in 1 .. 1 : SubSeq(t, i, i)[k] = l[k]
    BY <2>0, <2>3
  <2>5. SubSeq(t, i, i) = l
    BY <2>0, <2>3, <2>4, SeqEqual
  <2> QED BY <2>5 DEF t, l, x
<1> QED BY <1>1, <1>2, <1>3

LEMMA FlattenNone == FlattenSeq(<<>>) = <<>>
BY DEF FlattenSeq

LEMMA FlattenOne == ASSUME NEW a PROVE FlattenSeq(<<a>>) = a
<1> DEFINE s == <<a>>
           F == CHOOSE F : F = [i \in 1 .. Len(s) |-> IF i = 1 THEN s[i] ELSE F[i-1] \o s[i]]
<1>1. FlattenSeq(s) = F[Len(s)]
  BY DEF FlattenSeq
<1>2. \E f : f = [i \in 1 .. Len(s) |-> IF i = 1 THEN s[i] ELSE f[i-1] \o s[i]]
  <2> DEFINE g == [i \in 1 .. 1 |-> a]
  <2>1. g = [i \in 1 .. 1 |-> IF i = 1 THEN s[i] ELSE g[i-1] \o s[i]]
    OBVIOUS
  <2> QED BY <2>1
<1>3. F = [i \in 1 .. Len(s) |-> IF i = 1 THEN s[i] ELSE F[i-1] \o s[i]]
  BY <1>2
<1> QED BY <1>1, <1>3

LEMMA FlattenTwo == ASSUME NEW a, NEW b PROVE FlattenSeq(<<a, b>>) = a \o b
<1> DEFINE s == <<a, b>>
           F == CHOOSE F : F = [i \in 1 .. Len(s) |-> IF i = 1 THEN s[i] ELSE F[i-1] \o s[i]]
<1>1. FlattenSeq(s) = F[Len(s)]
  BY DEF FlattenSeq
<1>2. Len(s) = 2 /\ s[1] = a /\ s[2] = b
  OBVIOUS
<1>3. \E f : f = [i \in 1 .. Len(s) |-> IF i = 1 THEN s[i] ELSE f[i-1] \o s[i]]
  <2> DEFINE g == [i \in 1 .. 2 |-> IF i = 1 THEN a ELSE a \o b]
  <2> HIDE DEF s
  <2>1. g[1] = a
    OBVIOUS
  <2>2. g = [i \in 1 .. 2 |-> IF i = 1 THEN s[i] ELSE g[i-1] \o s[i]]
    <3>1. ASSUME NEW i \in 1 .. 2
          PROVE  g[i] = IF i = 1 THEN s[i] ELSE g[i-1] \o s[i]
      <4>1. CASE i = 1
        BY <4>1, <1>2
      <4>2. CASE i = 2
        <5>1. g[i - 1] = a
          BY <4>2
        <5>2. g[i] = a \o b /\ s[i] = b
          BY <4>2, <1>2
        <5> QED BY <5>1, <5>2, <4>2
      <4> QED BY <4>1, <4>2
    <3> QED BY <3>1
  <2> QED BY <2>2, <1>2
<1>4. F = [i \in 1 .. Len(s) |-> IF i = 1 THEN s[i] ELSE F[i-1] \o s[i]]
  BY <1>3
<1>5. F[1] = a /\ F[2] = F[1] \o b
  <2>1. ASSUME NEW f, NEW t, Len(t) = 2, t[1] = a, t[2] = b,
               f = [i \in 1 .. Len(t) |-> IF i = 1 THEN t[i] ELSE f[i-1] \o t[i]]
        PROVE  f[1] = a /\ f[2] = f[1] \o b
    <3>1. \A i \in 1 .. 2 : f[i] = IF i = 1 THEN t[i] ELSE f[i-1] \o t[i]
      BY <2>1
    <3>2. f[1] = a
      BY <2>1, <3>1
    <3>3. \A i : i = 2 => i - 1 = 1 /\ i # 1
      OBVIOUS
    <3>4. \A i \in 1 .. 2 : i = 2 => f[i] = f[i-1] \o t[i]
      BY ONLY <3>1, <3>3, Zenon
    <3>5. \A i \in 1 .. 2 : i = 2 => f[i] = f[1] \o b
      BY ONLY <2>1, <3>3, <3>4, Zenon
    <3>6. 2 \in 1 .. 2
      OBVIOUS
    <3> QED BY ONLY <3>2, <3>5, <3>6, Zenon
  <2> HIDE DEF s, F
  <2> QED BY <1>2, <1>4, <2>1
<1> QED BY <1>1, <1>2, <1>5

-----------------------------------------------------------------------------
(* PacketHelper::Update                                                      *)

LEMMA WrittenOne ==
    ASSUME NEW S, NEW a \in Seq(S), NEW n \in 1 .. Len(a)
    PROVE  Written(<<a>>, n) = IF n < Len(a) THEN <<SubSeq(a, n + 1, Len(a))>> ELSE <<>>
<1> DEFINE bs == <<a>>
           before(k) == Len(FlattenSeq(SubSeq(bs, 1, k - 1)))
           kept == {k \in DOMAIN bs : before(k) + Len(bs[k]) > n}
           rest == SubSeq(a, n + 1, Len(a))
<1>1. Len(a) \in Nat
  BY LenProperties
<1>2. Len(bs) = 1 /\ bs[1] = a /\ DOMAIN bs = {1}
  OBVIOUS
<1>3. SubSeq(bs, 1, 1 - 1) = <<>> /\ SubSeq(bs, 1 + 1, 1) = <<>>
  BY SubSeqEmpty
<1>4. before(1) = 0
  <2>1. FlattenSeq(SubSeq(bs, 1, 1 - 1)) = <<>>
    BY ONLY <1>3, FlattenNone, Zenon
  <2>2. Len(<<>>) = 0
    OBVIOUS
  <2> QED BY ONLY <2>1, <2>2, Zenon
<1>5. kept = IF n < Len(a) THEN {1} ELSE {}
  <2>1. kept = {k \in {1} : before(k) + Len(bs[k]) > n}
    BY <1>2
  <2>2. \A k \in {1} : before(k) + Len(bs[k]) > n <=> n < Len(a)
    <3>1. \A k \in {1} : before(k) = 0 /\ Len(bs[k]) = Len(a)
      BY <1>2, <1>4
    <3> HIDE DEF before, bs
    <3> QED BY <1>1, <3>1
  <2> HIDE DEF kept, before, bs
  <2> QED BY <2>1, <2>2
<1>6. Min({1}) = 1
  BY DEF Min
<1>7. Written(bs, n) = IF kept = {} THEN <<>>
        ELSE LET k == Min(kept)
             IN  <<SubSeq(bs[k], n - before(k) + 1, Len(bs[k]))>> \o SubSeq(bs, k + 1, Len(bs))
  BY DEF Written
<1> HIDE DEF kept, before
<1>8. CASE n < Len(a)
  <2>1. n - before(1) + 1 = n + 1
    BY <1>4
  <2>2. rest \in Seq(S)
    BY <1>1, LenProperties, ElementOfSeq, SubSeqProperties
  <2>3. <<rest>> \o <<>> = <<rest>>
    <3> HIDE DEF rest
    <3>1. <<rest>> \in Seq(Seq(S))
      BY <2>2, ShortSequences
    <3> QED BY <3>1, ConcatEmptySeq
  <2>4. kept # {} /\ Min(kept) = 1
    BY <1>5, <1>6, <1>8
  <2>5. Written(bs, n) = <<rest>>
    BY <1>2, <1>3, <1>7, <2>1, <2>3, <2>4
  <2> QED BY <2>5, <1>8
<1>9. CASE ~(n < Len(a))
  BY <1>5, <1>7, <1>9
<1> QED
  BY <1>8, <1>9

LEMMA WrittenTwo ==
    ASSUME NEW S, NEW a \in Seq(S), NEW b \in Seq(S), NEW n \in 1 .. Len(a) + Len(b)
    PROVE  Written(<<a, b>>, n) =
             IF n < Len(a) THEN <<SubSeq(a, n + 1, Len(a)), b>>
             ELSE IF n < Len(a) + Len(b) THEN <<SubSeq(b, n - Len(a) + 1, Len(b))>> ELSE <<>>
<1> DEFINE bs == <<a, b>>
           before(k) == Len(FlattenSeq(SubSeq(bs, 1, k - 1)))
           kept == {k \in DOMAIN bs : before(k) + Len(bs[k]) > n}
           restA == SubSeq(a, n + 1, Len(a))
           restB == SubSeq(b, n - Len(a) + 1, Len(b))
<1>1. Len(a) \in Nat /\ Len(b) \in Nat
  BY LenProperties
<1>2. Len(bs) = 2 /\ bs[1] = a /\ bs[2] = b /\ DOMAIN bs = {1, 2}
  OBVIOUS
<1>3. /\ SubSeq(bs, 1, 1 - 1) = <<>> /\ SubSeq(bs, 1, 2 - 1) = <<a>>
      /\ SubSeq(bs, 1 + 1, 2) = <<b>> /\ SubSeq(bs, 2 + 1, 2) = <<>>
  <2>1. SubSeq(bs, 1, 1 - 1) = <<>> /\ SubSeq(bs, 2 + 1, 2) = <<>>
    BY SubSeqEmpty
  <2>2. SubSeq(bs, 1, 1) = <<a>> /\ SubSeq(bs, 2, 2) = <<b>>
    BY ShortSequences
  <2>3. 2 - 1 = 1 /\ 1 + 1 = 2
    OBVIOUS
  <2> QED BY <2>1, <2>2, <2>3
<1>4. before(1) = 0 /\ before(2) = Len(a)
  <2>1. FlattenSeq(SubSeq(bs, 1, 1 - 1)) = <<>> /\ FlattenSeq(SubSeq(bs, 1, 2 - 1)) = a
    BY ONLY <1>3, FlattenNone, FlattenOne, Zenon
  <2>2. Len(<<>>) = 0
    OBVIOUS
  <2> QED BY ONLY <2>1, <2>2, Zenon
<1>5. kept = {k \in {1, 2} : IF k = 1 THEN n < Len(a) ELSE n < Len(a) + Len(b)}
  <2>1. kept = {k \in {1, 2} : before(k) + Len(bs[k]) > n}
    BY <1>2
  <2>2. \A k \in {1, 2} : before(k) + Len(bs[k]) > n
                          <=> IF k = 1 THEN n < Len(a) ELSE n < Len(a) + Len(b)
    <3>1. \A k \in {1, 2} : /\ before(k) = IF k = 1 THEN 0 ELSE Len(a)
                            /\ Len(bs[k]) = IF k = 1 THEN Len(a) ELSE Len(b)
      BY <1>2, <1>4
    <3> HIDE DEF before, bs
    <3> QED BY <1>1, <3>1
  <2> HIDE DEF kept, before, bs
  <2> QED BY <2>1, <2>2
<1>7. Written(bs, n) = IF kept = {} THEN <<>>
        ELSE LET k == Min(kept)
             IN  <<SubSeq(bs[k], n - before(k) + 1, Len(bs[k]))>> \o SubSeq(bs, k + 1, Len(bs))
  BY DEF Written
<1>8. restA \in Seq(S) /\ (~(n < Len(a)) => restB \in Seq(S))
  BY <1>1, LenProperties, ElementOfSeq, SubSeqProperties
<1> HIDE DEF kept, before
<1>9. CASE n < Len(a)
  <2>1. n - before(1) + 1 = n + 1
    BY <1>4
  <2>2. <<restA>> \o <<b>> = <<restA, b>>
    <3> HIDE DEF restA
    <3> QED BY <1>8, ShortSequences
  <2>3. kept # {} /\ Min(kept) = 1
    <3>1. 1 \in kept /\ \A y \in kept : 1 <= y
      BY <1>5, <1>9
    <3>2. Min(kept) \in kept /\ \A y \in kept : Min(kept) <= y
      BY <3>1 DEF Min
    <3>3. Min(kept) \in {1, 2} /\ Min(kept) <= 1
      BY <3>1, <3>2, <1>5
    <3> QED BY <3>1, <3>3
  <2>4. Written(bs, n) = <<restA, b>>
    BY <1>2, <1>3, <1>7, <2>1, <2>2, <2>3
  <2> QED BY <2>4, <1>9
<1>10. CASE ~(n < Len(a)) /\ n < Len(a) + Len(b)
  <2>1. n - before(2) + 1 = n - Len(a) + 1
    BY <1>4
  <2>2. <<restB>> \o <<>> = <<restB>>
    <3> HIDE DEF restB
    <3>1. <<restB>> \in Seq(Seq(S))
      BY <1>8, <1>10, ShortSequences
    <3> QED BY <3>1, ConcatEmptySeq
  <2>3. kept # {} /\ Min(kept) = 2
    <3>1. kept = {2}
      BY <1>5, <1>10
    <3>2. Min({2}) = 2
      BY DEF Min
    <3> QED BY <3>1, <3>2
  <2>4. Written(bs, n) = <<restB>>
    BY <1>2, <1>3, <1>7, <2>1, <2>2, <2>3
  <2> QED BY <2>4, <1>10
<1>11. CASE ~(n < Len(a)) /\ ~(n < Len(a) + Len(b))
  <2>1. kept = {}
    BY <1>1, <1>5, <1>11
  <2> QED
    BY <1>7, <1>11, <2>1
<1> QED
  BY <1>9, <1>10, <1>11

\* A sequence of at most two sequences.
LEMMA AtMostTwo ==
    ASSUME NEW S, NEW bs \in Seq(S), Len(bs) <= 2
    PROVE  \/ bs = <<>>
           \/ \E a \in S : bs = <<a>>
           \/ \E a \in S, b \in S : bs = <<a, b>>
<1>1. Len(bs) = 0 \/ Len(bs) = 1 \/ Len(bs) = 2
  <2>1. Len(bs) \in Nat
    BY LenProperties
  <2>2. \A n \in Nat : n <= 2 => n = 0 \/ n = 1 \/ n = 2
    OBVIOUS
  <2> QED BY ONLY <2>1, <2>2, Len(bs) <= 2, Zenon
<1>2. CASE Len(bs) = 0
  <2>1. bs # <<>> => Len(bs) \in Nat \ {0}
    BY EmptySeq
  <2> QED BY <1>2, <2>1
<1>3. CASE Len(bs) = 1
  <2> DEFINE a == bs[1]  t == <<a>>
  <2>1. a \in S
    BY <1>3, ElementOfSeq
  <2>2. t \in Seq(S) /\ Len(t) = 1 /\ t[1] = a
    BY <2>1, ShortSequences
  <2>3. bs = t
    <3>1. \A i \in 1 .. Len(bs) : bs[i] = t[i]
      <4>1. \A i \in 1 .. 1 : i = 1
        OBVIOUS
      <4> HIDE DEF t
      <4> QED BY <1>3, <2>2, <4>1
    <3> HIDE DEF t
    <3> QED BY <1>3, <2>2, <3>1, SeqEqual
  <2> QED BY <2>1, <2>3
<1>4. CASE Len(bs) = 2
  <2> DEFINE a == bs[1]  b == bs[2]  t == <<a, b>>
  <2>1. a \in S /\ b \in S
    BY <1>4, ElementOfSeq
  <2>2. t \in Seq(S) /\ Len(t) = 2 /\ t[1] = a /\ t[2] = b
    BY <2>1, ShortSequences
  <2>3. bs = t
    <3>1. \A i \in 1 .. Len(bs) : bs[i] = t[i]
      <4>1. \A i \in 1 .. 2 : i = 1 \/ i = 2
        OBVIOUS
      <4> HIDE DEF t
      <4> QED BY <1>4, <2>2, <4>1
    <3> HIDE DEF t
    <3> QED BY <1>4, <2>2, <3>1, SeqEqual
  <2> QED BY <2>1, <2>3
<1> QED
  BY <1>1, <1>2, <1>3, <1>4

\* SubSeq up to the end.
LEMMA Suffix ==
    ASSUME NEW S, NEW s \in Seq(S), NEW n \in 0 .. Len(s)
    PROVE  /\ SubSeq(s, n + 1, Len(s)) \in Seq(S)
           /\ Len(SubSeq(s, n + 1, Len(s))) = Len(s) - n
           /\ \A i \in 1 .. Len(s) - n : SubSeq(s, n + 1, Len(s))[i] = s[n + i]
<1>1. Len(s) \in Nat /\ n + 1 \in Int /\ Len(s) \in Int
  BY LenProperties
<1>2. \A i \in n + 1 .. Len(s) : s[i] \in S
  BY <1>1, ElementOfSeq
<1>3. SubSeq(s, n + 1, Len(s)) \in Seq(S)
  BY <1>1, <1>2, SubSeqProperties
<1>4. Len(SubSeq(s, n + 1, Len(s))) = Len(s) - n
  <2>1. Len(SubSeq(s, n + 1, Len(s))) = IF n + 1 <= Len(s) THEN Len(s) - (n + 1) + 1 ELSE 0
    BY <1>1, <1>2, SubSeqProperties
  <2> QED BY <2>1, <1>1
<1>5. \A i \in 1 .. Len(s) - (n + 1) + 1 : SubSeq(s, n + 1, Len(s))[i] = s[n + 1 + i - 1]
  BY <1>1, <1>2, SubSeqProperties
<1>6. \A i \in 1 .. Len(s) - n : SubSeq(s, n + 1, Len(s))[i] = s[n + i]
  <2>1. SUFFICES ASSUME NEW i \in 1 .. Len(s) - n
                 PROVE  SubSeq(s, n + 1, Len(s))[i] = s[n + i]
    OBVIOUS
  <2>2. i \in 1 .. Len(s) - (n + 1) + 1 /\ n + 1 + i - 1 = n + i
    BY <1>1
  <2> QED BY <1>5, <2>2
<1> QED
  BY <1>3, <1>4, <1>6

LEMMA FlattenType ==
    ASSUME NEW S, NEW bs \in Seq(Seq(S)), Len(bs) <= 2
    PROVE  FlattenSeq(bs) \in Seq(S)
<1>1. CASE bs = <<>>
  <2>1. FlattenSeq(bs) = <<>> /\ <<>> \in Seq(S)
    BY ONLY <1>1, FlattenNone, EmptySeq, Zenon
  <2> QED BY ONLY <2>1, Zenon
<1>2. ASSUME NEW a \in Seq(S), bs = <<a>> PROVE FlattenSeq(bs) \in Seq(S)
  BY <1>2, FlattenOne
<1>3. ASSUME NEW a \in Seq(S), NEW b \in Seq(S), bs = <<a, b>> PROVE FlattenSeq(bs) \in Seq(S)
  <2>1. a \o b \in Seq(S)
    BY ConcatProperties
  <2>2. FlattenSeq(bs) = a \o b
    BY ONLY <1>3, FlattenTwo, Zenon
  <2> QED BY ONLY <2>1, <2>2, Zenon
<1> QED
  BY <1>1, <1>2, <1>3, AtMostTwo

\* PacketHelper::Update leaves what has not been written.
LEMMA WrittenLeavesTheRest ==
    ASSUME NEW S, NEW bs \in Seq(Seq(S)), Len(bs) <= 2, NEW n \in 1 .. Len(FlattenSeq(bs))
    PROVE  /\ Written(bs, n) \in Seq(Seq(S)) /\ Len(Written(bs, n)) <= 2
           /\ FlattenSeq(Written(bs, n)) = SubSeq(FlattenSeq(bs), n + 1, Len(FlattenSeq(bs)))
<1> DEFINE Goal == /\ Written(bs, n) \in Seq(Seq(S)) /\ Len(Written(bs, n)) <= 2
                   /\ FlattenSeq(Written(bs, n)) = SubSeq(FlattenSeq(bs), n + 1, Len(FlattenSeq(bs)))
<1>0. n \in Nat /\ n >= 1
  BY FlattenType, LenProperties
<1>1. CASE bs = <<>>
  <2>1. Len(FlattenSeq(bs)) = 0
    <3>1. FlattenSeq(bs) = <<>> /\ Len(<<>>) = 0
      BY ONLY <1>1, FlattenNone, EmptySeq, Zenon
    <3> QED BY ONLY <3>1, Zenon
  <2> QED BY <2>1
<1>2. ASSUME NEW a \in Seq(S), bs = <<a>> PROVE Goal
  <2>1. FlattenSeq(bs) = a /\ Len(a) \in Nat /\ n \in 1 .. Len(a)
    BY <1>2, FlattenOne, LenProperties
  <2>2. Written(bs, n) = IF n < Len(a) THEN <<SubSeq(a, n + 1, Len(a))>> ELSE <<>>
    BY <1>2, <2>1, WrittenOne
  <2>3. CASE n < Len(a)
    <3>1. SubSeq(a, n + 1, Len(a)) \in Seq(S)
      BY <2>1, <2>3, Suffix
    <3>2. <<SubSeq(a, n + 1, Len(a))>> \in Seq(Seq(S)) /\ Len(<<SubSeq(a, n + 1, Len(a))>>) = 1
      BY <3>1, ShortSequences
    <3>3. FlattenSeq(<<SubSeq(a, n + 1, Len(a))>>) = SubSeq(a, n + 1, Len(a))
      BY FlattenOne
    <3>4. Written(bs, n) = <<SubSeq(a, n + 1, Len(a))>>
      BY <2>2, <2>3
    <3>5. 1 <= 2
      OBVIOUS
    <3> QED BY ONLY <2>1, <3>2, <3>3, <3>4, <3>5, Zenon
  <2>4. CASE ~(n < Len(a))
    <3>1. Written(bs, n) = <<>>
      BY <2>2, <2>4
    <3>2. SubSeq(a, n + 1, Len(a)) = <<>>
      BY <2>1, <2>4, SubSeqEmpty
    <3>3. <<>> \in Seq(Seq(S)) /\ Len(<<>>) <= 2
      BY EmptySeq
    <3>4. FlattenSeq(Written(bs, n)) = SubSeq(FlattenSeq(bs), n + 1, Len(FlattenSeq(bs)))
      BY ONLY <2>1, <3>1, <3>2, FlattenNone, Zenon
    <3> QED BY ONLY <3>1, <3>3, <3>4, Zenon
  <2> QED BY <2>3, <2>4
<1>3. ASSUME NEW a \in Seq(S), NEW b \in Seq(S), bs = <<a, b>> PROVE Goal
  <2> DEFINE w == SubSeq(a \o b, n + 1, Len(a \o b))
             restA == SubSeq(a, n + 1, Len(a))
             restB == SubSeq(b, n - Len(a) + 1, Len(b))
  <2>1. /\ FlattenSeq(bs) = a \o b /\ Len(a) \in Nat /\ Len(b) \in Nat
        /\ a \o b \in Seq(S) /\ Len(a \o b) = Len(a) + Len(b) /\ n \in 1 .. Len(a) + Len(b)
    BY <1>3, FlattenTwo, LenProperties, ConcatProperties
  <2>2. Written(bs, n) = IF n < Len(a) THEN <<restA, b>>
                         ELSE IF n < Len(a) + Len(b) THEN <<restB>> ELSE <<>>
    BY <1>3, <2>1, WrittenTwo
  <2>3. \A i \in 1 .. Len(a) + Len(b) : (a \o b)[i] = IF i <= Len(a) THEN a[i] ELSE b[i - Len(a)]
    BY ConcatProperties
  <2>4. /\ w \in Seq(S) /\ Len(w) = Len(a) + Len(b) - n
        /\ \A i \in 1 .. Len(a) + Len(b) - n : w[i] = (a \o b)[n + i]
    <3>1. n \in 0 .. Len(a \o b)
      BY <2>1
    <3> QED BY <2>1, <3>1, Suffix
  <2>5. CASE n < Len(a)
    <3>1. /\ restA \in Seq(S) /\ Len(restA) = Len(a) - n
          /\ \A i \in 1 .. Len(a) - n : restA[i] = a[n + i]
      BY <2>1, <2>5, Suffix
    <3>2. <<restA, b>> \in Seq(Seq(S)) /\ Len(<<restA, b>>) = 2
      <4> HIDE DEF restA
      <4> QED BY <3>1, ShortSequences
    <3>3. FlattenSeq(<<restA, b>>) = restA \o b
      BY FlattenTwo
    <3> HIDE DEF restA, w
    <3>4. /\ restA \o b \in Seq(S) /\ Len(restA \o b) = Len(restA) + Len(b)
          /\ \A i \in 1 .. Len(restA) + Len(b) :
               (restA \o b)[i] = IF i <= Len(restA) THEN restA[i] ELSE b[i - Len(restA)]
      BY <3>1, ConcatProperties
    <3>5. \A i \in 1 .. Len(w) : w[i] = (restA \o b)[i]
      <4>1. SUFFICES ASSUME NEW i \in 1 .. Len(w) PROVE w[i] = (restA \o b)[i]
        OBVIOUS
      <4>2. i \in 1 .. Len(a) + Len(b) - n /\ n + i \in 1 .. Len(a) + Len(b)
            /\ i \in 1 .. Len(restA) + Len(b)
        BY <2>1, <2>4, <2>5, <3>1
      <4>3. w[i] = IF n + i <= Len(a) THEN a[n + i] ELSE b[n + i - Len(a)]
        BY <2>3, <2>4, <4>2
      <4>4. CASE n + i <= Len(a)
        <5>1. i \in 1 .. Len(a) - n /\ i <= Len(restA)
          BY <2>1, <3>1, <4>2, <4>4
        <5> QED BY <3>1, <3>4, <4>2, <4>3, <4>4, <5>1
      <4>5. CASE ~(n + i <= Len(a))
        <5>1. ~(i <= Len(restA)) /\ i - Len(restA) = n + i - Len(a)
          BY <2>1, <3>1, <4>2, <4>5
        <5> QED BY <3>4, <4>2, <4>3, <4>5, <5>1
      <4> QED BY <4>4, <4>5
    <3>6. w = restA \o b
      <4>1. Len(w) = Len(restA \o b)
        BY <2>1, <2>4, <3>1, <3>4
      <4> QED BY <2>4, <3>4, <3>5, <4>1, SeqEqual
    <3>7. Written(bs, n) = <<restA, b>> /\ 2 <= 2
      BY <2>2, <2>5
    <3>8. FlattenSeq(Written(bs, n)) = w
      BY ONLY <3>3, <3>6, <3>7, Zenon
    <3> QED BY ONLY <2>1, <3>2, <3>7, <3>8, Zenon DEF w
  <2>6. CASE ~(n < Len(a)) /\ n < Len(a) + Len(b)
    <3> DEFINE m == n - Len(a)
    <3>0. m \in 0 .. Len(b)
      BY <2>1, <2>6
    <3>1. /\ restB \in Seq(S) /\ Len(restB) = Len(b) - m
          /\ \A i \in 1 .. Len(b) - m : restB[i] = b[m + i]
      BY <3>0, Suffix
    <3>2. <<restB>> \in Seq(Seq(S)) /\ Len(<<restB>>) = 1
      <4> HIDE DEF restB
      <4> QED BY <3>1, ShortSequences
    <3>3. FlattenSeq(<<restB>>) = restB
      BY FlattenOne
    <3> HIDE DEF restB, w
    <3>4. \A i \in 1 .. Len(w) : w[i] = restB[i]
      <4>1. SUFFICES ASSUME NEW i \in 1 .. Len(w) PROVE w[i] = restB[i]
        OBVIOUS
      <4>2. /\ i \in 1 .. Len(a) + Len(b) - n /\ n + i \in 1 .. Len(a) + Len(b)
            /\ i \in 1 .. Len(b) - m /\ ~(n + i <= Len(a)) /\ n + i - Len(a) = m + i
        BY <2>1, <2>4, <2>6
      <4>3. w[i] = b[n + i - Len(a)]
        BY <2>3, <2>4, <4>2
      <4> QED BY <3>1, <4>2, <4>3
    <3>5. w = restB
      <4>1. Len(w) = Len(restB)
        BY <2>1, <2>4, <3>1
      <4> QED BY <2>4, <3>1, <3>4, <4>1, SeqEqual
    <3>7. Written(bs, n) = <<restB>> /\ 1 <= 2
      BY <2>2, <2>6
    <3>8. FlattenSeq(Written(bs, n)) = w
      BY ONLY <3>3, <3>5, <3>7, Zenon
    <3> QED BY ONLY <2>1, <3>2, <3>7, <3>8, Zenon DEF w
  <2>7. CASE ~(n < Len(a)) /\ ~(n < Len(a) + Len(b))
    <3>1. Written(bs, n) = <<>>
      BY <2>2, <2>7
    <3>2. w = <<>>
      BY <2>1, <2>7, SubSeqEmpty
    <3>3. <<>> \in Seq(Seq(S)) /\ Len(<<>>) <= 2
      BY EmptySeq
    <3>4. FlattenSeq(Written(bs, n)) = w
      BY ONLY <3>1, <3>2, FlattenNone, Zenon
    <3> QED BY ONLY <2>1, <3>1, <3>3, <3>4, Zenon
  <2> QED BY <2>5, <2>6, <2>7
<1> QED
  BY <1>1, <1>2, <1>3, AtMostTwo

-----------------------------------------------------------------------------
(* Rows of whole packets                                                     *)

\* Parse takes the first packet.
LEMMA WholeDrop ==
    ASSUME NEW s \in Seq(Byte), s # <<>>, NEW lo \in Nat, NEW hi \in Nat,
           NEW z \in Seq(Positive), Whole(s, lo, hi, z)
    PROVE  /\ lo < hi /\ lo + 1 \in 1 .. Len(z) /\ z[lo + 1] \in Positive
           /\ z[lo + 1] <= Len(s)
           /\ \A d \in 0 .. z[lo + 1] - 1 : s[1 + d] = <<lo + 1, d>>
           /\ Whole(SubSeq(s, z[lo + 1] + 1, Len(s)), lo + 1, hi, z)
<1> DEFINE m == z[lo + 1]
           t == SubSeq(s, m + 1, Len(s))
<1>1. Len(s) \in Nat /\ Len(s) >= 1 /\ Len(z) \in Nat
  <2>1. Len(s) \in Nat \ {0}
    BY EmptySeq
  <2> QED BY <2>1, LenProperties
<1>2. lo < hi /\ hi <= Len(z) /\ s[1] = <<lo + 1, 0>>
  BY DEF Whole
<1>3. m \in Positive /\ m >= 1 /\ \A i \in 1 .. hi : z[i] \in Positive
  <2>1. \A i \in 1 .. hi : z[i] \in Positive
    BY <1>1, <1>2, ElementOfSeq
  <2> QED BY <2>1, <1>2 DEF Positive
<1>4. ByteOK(s, hi, z, 1, lo + 1, 0)
  <2>1. PICK i \in 1 .. hi : \E k \in 0 .. z[i] - 1 : ByteOK(s, hi, z, 1, i, k)
    BY <1>1 DEF Whole
  <2>2. PICK k \in 0 .. z[i] - 1 : ByteOK(s, hi, z, 1, i, k)
    BY <2>1
  <2>3. s[1 + 0] = <<i, k + 0>>
    <3>1. 0 \in 0 .. z[i] - 1 - k
      BY <1>3 DEF Positive
    <3> QED BY <2>2, <3>1 DEF ByteOK
  <2>4. i = lo + 1 /\ k = 0
    <3>1. 1 + 0 = 1 /\ k + 0 = k
      OBVIOUS
    <3>2. <<i, k>> = <<lo + 1, 0>>
      BY ONLY <1>2, <2>3, <3>1, Zenon
    <3> QED BY <3>2
  <2> QED BY ONLY <2>2, <2>4, Zenon
<1>5. \A d \in 0 .. m - 1 : 1 + d <= Len(s) /\ s[1 + d] = <<lo + 1, d>>
  <2>1. \A d \in 0 .. m - 1 - 0 : 1 + d <= Len(s) /\ s[1 + d] = <<lo + 1, 0 + d>>
    BY <1>4, Zenon DEF ByteOK
  <2>2. m - 1 - 0 = m - 1 /\ \A d \in 0 .. m - 1 : 0 + d = d
    BY <1>3 DEF Positive
  <2> QED BY ONLY <2>1, <2>2, Zenon
<1>6. m <= Len(s)
  <2>1. m - 1 \in 0 .. m - 1 /\ 1 + (m - 1) = m
    BY <1>3 DEF Positive
  <2> QED BY <1>5, <2>1
<1>7. IF 1 + m <= Len(s) THEN lo + 1 < hi /\ s[1 + m] = <<lo + 1 + 1, 0>> ELSE lo + 1 = hi
  <2>1. 1 + m - 0 = 1 + m
    BY <1>3 DEF Positive
  <2>2. LET n == 1 + m - 0
        IN  IF n <= Len(s) THEN lo + 1 < hi /\ s[n] = <<lo + 1 + 1, 0>> ELSE lo + 1 = hi
    BY <1>4, Zenon DEF ByteOK
  <2> QED BY ONLY <2>1, <2>2, Zenon
<1>8. /\ t \in Seq(Byte) /\ Len(t) = Len(s) - m
      /\ \A i \in 1 .. Len(s) - m : t[i] = s[m + i]
  <2>1. m \in 0 .. Len(s)
    BY <1>1, <1>3, <1>6 DEF Positive
  <2> QED BY <2>1, Suffix
<1>9. t = <<>> => lo + 1 = hi
  <2>1. SUFFICES ASSUME t = <<>> PROVE lo + 1 = hi
    OBVIOUS
  <2>2. Len(t) = 0
    BY ONLY <2>1, EmptySeq, Zenon
  <2> HIDE DEF t
  <2>3. ~(1 + m <= Len(s))
    BY <1>1, <1>3, <1>8, <2>2 DEF Positive
  <2> QED BY <1>7, <2>3
<1>10. t # <<>> => lo + 1 < hi /\ t[1] = <<lo + 1 + 1, 0>>
  <2>1. SUFFICES ASSUME t # <<>> PROVE lo + 1 < hi /\ t[1] = <<lo + 1 + 1, 0>>
    OBVIOUS
  <2>2. Len(t) \in Nat \ {0}
    BY <1>8, <2>1, EmptySeq
  <2> HIDE DEF t
  <2>3. 1 \in 1 .. Len(s) - m /\ 1 + m <= Len(s) /\ m + 1 = 1 + m
    BY <1>1, <1>3, <1>8, <2>2 DEF Positive
  <2>4. t[1] = s[1 + m]
    BY ONLY <1>8, <2>3, Zenon
  <2> QED BY ONLY <1>7, <2>3, <2>4, Zenon
<1>11. ASSUME NEW j \in 1 .. Len(t)
       PROVE  \E i \in 1 .. hi : \E k \in 0 .. z[i] - 1 : ByteOK(t, hi, z, j, i, k)
  <2> HIDE DEF m, t
  <2>1. j \in 1 .. Len(s) - m /\ m + j \in 1 .. Len(s) /\ j \in Nat /\ m \in Nat
    BY <1>1, <1>3, <1>8, <1>11 DEF Positive
  <2>2. PICK i \in 1 .. hi : \E k \in 0 .. z[i] - 1 : ByteOK(s, hi, z, m + j, i, k)
    BY <2>1 DEF Whole
  <2>3. PICK k \in 0 .. z[i] - 1 : ByteOK(s, hi, z, m + j, i, k)
    BY <2>2
  <2>4. z[i] \in Nat /\ z[i] >= 1 /\ k \in Nat /\ k <= z[i] - 1
    BY <1>3 DEF Positive
  <2>5. ASSUME NEW d \in 0 .. z[i] - 1 - k
        PROVE  j + d <= Len(t) /\ t[j + d] = <<i, k + d>>
    <3>1. m + j + d <= Len(s) /\ s[m + j + d] = <<i, k + d>>
      BY ONLY <2>3, <2>5, Zenon DEF ByteOK
    <3>2. j + d \in 1 .. Len(s) - m /\ j + d <= Len(t) /\ m + (j + d) = m + j + d
      BY <1>1, <1>8, <2>1, <2>4, <3>1
    <3> QED BY ONLY <1>8, <3>1, <3>2, Zenon
  <2>6. LET n == j + z[i] - k
        IN  IF n <= Len(t) THEN i < hi /\ t[n] = <<i + 1, 0>> ELSE i = hi
    <3> DEFINE n == j + z[i] - k
               q == m + j + z[i] - k
    <3>1. IF q <= Len(s) THEN i < hi /\ s[q] = <<i + 1, 0>> ELSE i = hi
      BY <2>3, Zenon DEF ByteOK
    <3>2. q = m + n /\ (n <= Len(t) <=> q <= Len(s)) /\ n \in Nat /\ n >= 1
      <4>1. ASSUME NEW c \in Nat, c >= 1, k <= c - 1
            PROVE  m + j + c - k = m + (j + c - k) /\ j + c - k \in Nat /\ j + c - k >= 1
        BY <2>1, <2>4, <4>1
      <4>2. q = m + n /\ n \in Nat /\ n >= 1
        BY <2>4, <4>1
      <4>3. Len(t) = Len(s) - m
        BY <1>8
      <4> HIDE DEF n, q
      <4>4. n <= Len(t) <=> q <= Len(s)
        BY <1>1, <2>1, <4>2, <4>3
      <4> QED BY ONLY <4>2, <4>4, Zenon
    <3>3. n <= Len(t) => n \in 1 .. Len(s) - m
      BY <1>1, <1>8, <2>1, <3>2
    <3> HIDE DEF n, q
    <3>4. n <= Len(t) => t[n] = s[q]
      BY ONLY <1>8, <3>2, <3>3, Zenon
    <3> QED BY ONLY <3>1, <3>2, <3>4, Zenon DEF n
  <2>7. ByteOK(t, hi, z, j, i, k)
    BY ONLY <2>5, <2>6, Zenon DEF ByteOK
  <2> QED BY <2>7
<1>12. lo + 1 <= hi /\ hi <= Len(z)
  BY <1>2
<1>13. Whole(t, lo + 1, hi, z)
  <2> HIDE DEF t
  <2> QED BY ONLY <1>9, <1>10, <1>11, <1>12, Zenon DEF Whole
<1>14. lo + 1 \in 1 .. Len(z)
  BY <1>1, <1>2
<1>15. lo < hi
  BY <1>2
<1> QED
  BY ONLY <1>3, <1>5, <1>6, <1>13, <1>14, <1>15, Zenon

\* Packets that are queued later do not matter.
LEMMA WholeSizes ==
    ASSUME NEW s, NEW lo \in Nat, NEW hi \in Nat, NEW z, NEW y, Whole(s, lo, hi, z),
           hi <= Len(y), \A i \in 1 .. hi : y[i] = z[i]
    PROVE  Whole(s, lo, hi, y)
<1>1. ASSUME NEW j \in 1 .. Len(s)
      PROVE  \E i \in 1 .. hi : \E k \in 0 .. y[i] - 1 : ByteOK(s, hi, y, j, i, k)
  <2>1. PICK i \in 1 .. hi : \E k \in 0 .. z[i] - 1 : ByteOK(s, hi, z, j, i, k)
    BY DEF Whole
  <2>2. PICK k \in 0 .. z[i] - 1 : ByteOK(s, hi, z, j, i, k)
    BY <2>1
  <2>3. y[i] = z[i]
    OBVIOUS
  <2>4. k \in 0 .. y[i] - 1 /\ ByteOK(s, hi, y, j, i, k)
    BY ONLY <2>2, <2>3, k \in 0 .. z[i] - 1, Zenon DEF ByteOK
  <2> QED BY <2>4
<1> QED
  BY <1>1, Zenon DEF Whole

\* TakePacket adds the next packet.
LEMMA WholeAdd ==
    ASSUME NEW s \in Seq(Byte), NEW p \in Seq(Byte), NEW lo \in Nat, NEW hi \in Nat,
           NEW z \in Seq(Positive), Whole(s, lo, hi, z), hi + 1 <= Len(z),
           Len(p) = z[hi + 1], \A k \in 1 .. Len(p) : p[k] = <<hi + 1, k - 1>>
    PROVE  Whole(s \o p, lo, hi + 1, z)
<1> DEFINE u == s \o p
           l == Len(s)
           m == z[hi + 1]
<1>1. l \in Nat /\ Len(z) \in Nat /\ m \in Nat /\ m >= 1 /\ \A i \in 1 .. hi + 1 : z[i] \in Nat /\ z[i] >= 1
  <2>1. l \in Nat /\ Len(z) \in Nat
    BY LenProperties
  <2>2. \A i \in 1 .. hi + 1 : z[i] \in Positive
    BY <2>1, ElementOfSeq
  <2> QED BY <2>1, <2>2 DEF Positive
<1>2. /\ u \in Seq(Byte) /\ Len(u) = l + m
      /\ \A j \in 1 .. l : u[j] = s[j]
      /\ \A j \in l + 1 .. l + m : u[j] = <<hi + 1, j - l - 1>>
  <2>1. /\ u \in Seq(Byte) /\ Len(u) = l + Len(p)
        /\ \A j \in 1 .. l + Len(p) : u[j] = IF j <= l THEN s[j] ELSE p[j - l]
    BY ConcatProperties
  <2> HIDE DEF u, l, m
  <2>2. ASSUME NEW j \in 1 .. l PROVE u[j] = s[j]
    <3>1. j \in 1 .. l + Len(p) /\ j <= l
      BY <1>1, <2>2 DEF m
    <3> QED BY ONLY <2>1, <3>1, Zenon
  <2>3. ASSUME NEW j \in l + 1 .. l + m PROVE u[j] = <<hi + 1, j - l - 1>>
    <3>1. j \in 1 .. l + Len(p) /\ ~(j <= l) /\ j - l \in 1 .. Len(p)
      BY <1>1, <2>3 DEF m
    <3>2. u[j] = p[j - l]
      BY ONLY <2>1, <3>1, Zenon
    <3> QED BY <3>1, <3>2
  <2> QED BY <2>1, <2>2, <2>3 DEF m
<1> HIDE DEF u, m, l
<1>3. u # <<>>
  BY <1>1, <1>2, EmptySeq
<1>4. lo <= hi
  BY DEF Whole
<1>5. u[1] = <<lo + 1, 0>>
  <2>1. CASE s = <<>>
    <3>1. l = 0
      BY ONLY <2>1, EmptySeq, Zenon DEF l
    <3>2. lo = hi
      BY <2>1 DEF Whole
    <3>3. 1 \in l + 1 .. l + m /\ 1 - l - 1 = 0
      BY <1>1, <3>1
    <3>4. u[1] = <<hi + 1, 1 - l - 1>>
      BY ONLY <1>2, <3>3, Zenon
    <3> QED BY ONLY <3>2, <3>3, <3>4, Zenon
  <2>2. CASE s # <<>>
    <3>1. l \in Nat \ {0}
      BY <2>2, EmptySeq DEF l
    <3>2. 1 \in 1 .. l
      BY <3>1
    <3>3. s[1] = <<lo + 1, 0>>
      BY <2>2 DEF Whole
    <3> QED BY ONLY <1>2, <3>2, <3>3, Zenon
  <2> QED BY <2>1, <2>2
<1>6. ASSUME NEW j \in 1 .. Len(u)
      PROVE  \E i \in 1 .. hi + 1 : \E k \in 0 .. z[i] - 1 : ByteOK(u, hi + 1, z, j, i, k)
  <2>1. CASE j <= l
    <3>0. j \in 1 .. l /\ j \in Nat
      BY <1>1, <1>6, <2>1
    <3>1. PICK i \in 1 .. hi : \E k \in 0 .. z[i] - 1 : ByteOK(s, hi, z, j, i, k)
      BY <3>0 DEF Whole, l
    <3>2. PICK k \in 0 .. z[i] - 1 : ByteOK(s, hi, z, j, i, k)
      BY <3>1
    <3>3. /\ z[i] \in Nat /\ k \in Nat /\ k <= z[i] - 1 /\ i \in 1 .. hi + 1
          /\ i < hi + 1 /\ i \in Nat
      <4>1. i \in 1 .. hi + 1 /\ i < hi + 1 /\ i \in Nat
        OBVIOUS
      <4> QED BY <1>1, <4>1
    <3>4. \A d \in 0 .. z[i] - 1 - k : j + d <= l /\ s[j + d] = <<i, k + d>>
      BY ONLY <3>2, Zenon DEF ByteOK, l
    <3>5. ASSUME NEW d \in 0 .. z[i] - 1 - k
          PROVE  j + d <= Len(u) /\ u[j + d] = <<i, k + d>>
      <4>1. j + d <= l /\ s[j + d] = <<i, k + d>>
        BY ONLY <3>4, <3>5, Zenon
      <4>2. j + d \in 1 .. l /\ j + d <= Len(u)
        BY <1>1, <1>2, <3>0, <3>3, <4>1
      <4> QED BY ONLY <1>2, <4>1, <4>2, Zenon
    <3>6. LET n == j + z[i] - k
          IN  IF n <= Len(u) THEN i < hi + 1 /\ u[n] = <<i + 1, 0>> ELSE i = hi + 1
      <4> DEFINE n == j + z[i] - k
      <4>1. IF n <= l THEN i < hi /\ s[n] = <<i + 1, 0>> ELSE i = hi
        BY ONLY <3>2, Zenon DEF ByteOK, l
      <4>2. n \in Nat /\ n >= 1 /\ n <= l + 1
        <5>1. z[i] - 1 - k \in 0 .. z[i] - 1 - k
          BY <3>3
        <5>2. j + (z[i] - 1 - k) <= l
          BY ONLY <3>4, <5>1, Zenon
        <5>3. ASSUME NEW c \in Nat, k <= c - 1, j + (c - 1 - k) <= l
              PROVE  j + c - k \in Nat /\ j + c - k >= 1 /\ j + c - k <= l + 1
          BY <1>1, <3>0, <3>3, <5>3
        <5> QED BY <3>3, <5>2, <5>3
      <4> HIDE DEF n
      <4>3. n <= Len(u)
        BY <1>1, <1>2, <4>2
      <4>4. u[n] = <<i + 1, 0>>
        <5>1. CASE n <= l
          <6>1. n \in 1 .. l
            BY <1>1, <4>2, <5>1
          <6> QED BY ONLY <1>2, <4>1, <5>1, <6>1, Zenon
        <5>2. CASE ~(n <= l)
          <6>1. n = l + 1 /\ n \in l + 1 .. l + m /\ n - l - 1 = 0
            BY <1>1, <4>2, <5>2
          <6>2. u[n] = <<hi + 1, n - l - 1>> /\ i = hi
            BY ONLY <1>2, <4>1, <5>2, <6>1, Zenon
          <6> QED BY ONLY <6>1, <6>2, Zenon
        <5> QED BY <5>1, <5>2
      <4> QED BY ONLY <3>3, <4>3, <4>4, Zenon DEF n
    <3>7. ByteOK(u, hi + 1, z, j, i, k)
      BY ONLY <3>5, <3>6, Zenon DEF ByteOK
    <3> QED BY <3>3, <3>7
  <2>2. CASE ~(j <= l)
    <3> DEFINE i == hi + 1
               k == j - l - 1
    <3>1. /\ j \in Nat /\ k \in Nat /\ k <= m - 1 /\ j = l + 1 + k
          /\ i \in 1 .. hi + 1 /\ k \in 0 .. z[i] - 1
      BY <1>1, <1>2, <1>6, <2>2 DEF m
    <3>2. ASSUME NEW d \in 0 .. z[i] - 1 - k
          PROVE  j + d <= Len(u) /\ u[j + d] = <<i, k + d>>
      <4>1. z[i] = m /\ d \in 0 .. m - 1 - k
        BY <3>2 DEF m
      <4> DEFINE x == j + d
      <4> HIDE DEF k
      <4>2. x \in l + 1 .. l + m /\ x - l - 1 = k + d /\ x <= Len(u)
        BY <1>1, <1>2, <3>1, <4>1
      <4> HIDE DEF x
      <4>3. u[x] = <<i, x - l - 1>>
        BY ONLY <1>2, <4>2, Zenon
      <4> QED BY ONLY <4>2, <4>3, Zenon DEF x
    <3>3. LET n == j + z[i] - k
          IN  IF n <= Len(u) THEN i < hi + 1 /\ u[n] = <<i + 1, 0>> ELSE i = hi + 1
      <4>1. z[i] = m
        BY DEF m
      <4>2. ~(j + m - k <= Len(u))
        <5> HIDE DEF k
        <5> QED BY <1>1, <1>2, <3>1
      <4> QED BY ONLY <4>1, <4>2, Zenon
    <3>4. ByteOK(u, hi + 1, z, j, i, k)
      BY ONLY <3>2, <3>3, Zenon DEF ByteOK
    <3> HIDE DEF i, k
    <3> QED BY <3>1, <3>4
  <2> QED BY <2>1, <2>2
<1>7. lo <= hi + 1 /\ lo < hi + 1
  BY <1>4
<1>8. Whole(u, lo, hi + 1, z)
  BY ONLY <1>3, <1>5, <1>6, <1>7, hi + 1 <= Len(z), Zenon DEF Whole
<1> QED
  BY <1>8 DEF u

-----------------------------------------------------------------------------
(* Constants, and sequences cut in two                                       *)

LEMMA Constants ==
    /\ HeaderSize \in Nat /\ HeaderSize >= 1 /\ PacketSize \in Nat /\ PacketSize >= 1
    /\ Factor \in Nat /\ Factor >= 1 /\ MaxSize \in Nat /\ MaxSize >= PacketSize
    /\ \A m \in Messages : m.body \in Nat
<1>1. /\ HeaderSize \in Nat \ {0} /\ PacketSize \in Nat \ {0} /\ Factor \in Nat \ {0}
      /\ \A m \in Messages : m.body \in Nat
  BY SizesAssumption
<1>2. ASSUME NEW f \in Nat, f >= 1, NEW p \in Nat PROVE f * p \in Nat /\ f * p >= p
  <2>1. f * p = p + (f - 1) * p /\ (f - 1) * p \in Nat
    BY <1>2
  <2> QED BY <1>2, <2>1
<1>3. MaxSize \in Nat /\ MaxSize >= PacketSize
  BY <1>1, <1>2 DEF MaxSize
<1> QED
  BY <1>1, <1>3

\* A sequence cut in two, and a suffix of a concatenation.
LEMMA Cut ==
    ASSUME NEW S, NEW s \in Seq(S), NEW n \in 1 .. Len(s)
    PROVE  /\ SubSeq(s, 1, n) \in Seq(S) /\ Len(SubSeq(s, 1, n)) = n
           /\ SubSeq(s, n + 1, Len(s)) \in Seq(S)
           /\ SubSeq(s, 1, n) \o SubSeq(s, n + 1, Len(s)) = s
<1>1. Len(s) \in Nat /\ 1 \in Int /\ n \in Int /\ n >= 1
  BY LenProperties
<1>2. \A i \in 1 .. n : s[i] \in S
  BY <1>1, ElementOfSeq
<1>3. SubSeq(s, 1, n) \in Seq(S)
  BY <1>1, <1>2, SubSeqProperties
<1>4. Len(SubSeq(s, 1, n)) = n
  <2>1. Len(SubSeq(s, 1, n)) = IF 1 <= n THEN n - 1 + 1 ELSE 0
    BY <1>1, <1>2, SubSeqProperties
  <2> QED BY <1>1, <2>1
<1>5. SubSeq(s, n + 1, Len(s)) \in Seq(S)
  <2>1. n \in 0 .. Len(s)
    BY <1>1
  <2> QED BY <2>1, Suffix
<1>6. SubSeq(s, 1, n) \o SubSeq(s, n + 1, Len(s)) = s
  <2>1. 1 \in 1 .. Len(s) + 1 /\ n \in 1 - 1 .. Len(s) /\ Len(s) \in n .. Len(s)
    BY <1>1
  <2>2. SubSeq(s, 1, n) \o SubSeq(s, n + 1, Len(s)) = SubSeq(s, 1, Len(s))
    BY <2>1, ConcatAdjacentSubSeq
  <2> QED BY <2>2, SubSeqFull
<1> QED
  BY <1>3, <1>4, <1>5, <1>6

LEMMA SuffixOfConcat ==
    ASSUME NEW S, NEW s \in Seq(S), NEW t \in Seq(S), NEW n \in 0 .. Len(s)
    PROVE  SubSeq(s \o t, n + 1, Len(s \o t)) = SubSeq(s, n + 1, Len(s)) \o t
<1> DEFINE u == s \o t
           a == SubSeq(u, n + 1, Len(u))
           b == SubSeq(s, n + 1, Len(s))
<1>1. Len(s) \in Nat /\ Len(t) \in Nat
  BY LenProperties
<1>2. /\ u \in Seq(S) /\ Len(u) = Len(s) + Len(t)
      /\ \A i \in 1 .. Len(s) + Len(t) : u[i] = IF i <= Len(s) THEN s[i] ELSE t[i - Len(s)]
  BY ConcatProperties
<1> HIDE DEF u
<1>3. n \in 0 .. Len(u)
  BY <1>1, <1>2
<1>4. a \in Seq(S) /\ Len(a) = Len(u) - n /\ \A i \in 1 .. Len(u) - n : a[i] = u[n + i]
  BY <1>2, <1>3, Suffix
<1>5. b \in Seq(S) /\ Len(b) = Len(s) - n /\ \A i \in 1 .. Len(s) - n : b[i] = s[n + i]
  BY Suffix
<1> HIDE DEF a, b
<1>6. /\ b \o t \in Seq(S) /\ Len(b \o t) = Len(b) + Len(t)
      /\ \A i \in 1 .. Len(b) + Len(t) : (b \o t)[i] = IF i <= Len(b) THEN b[i] ELSE t[i - Len(b)]
  BY <1>5, ConcatProperties
<1>7. Len(a) = Len(b \o t)
  BY <1>1, <1>2, <1>4, <1>5, <1>6
<1>8. ASSUME NEW i \in 1 .. Len(a) PROVE a[i] = (b \o t)[i]
  <2> DEFINE x == n + i
  <2>1. /\ i \in 1 .. Len(u) - n /\ i \in 1 .. Len(b) + Len(t) /\ x \in 1 .. Len(s) + Len(t)
        /\ i \in Nat /\ n \in Nat
    BY <1>1, <1>2, <1>4, <1>5, <1>8
  <2>2. (b \o t)[i] = IF i <= Len(b) THEN b[i] ELSE t[i - Len(b)]
    BY <1>6, <2>1
  <2>3. CASE i <= Len(b)
    <3>1. i \in 1 .. Len(s) - n /\ x <= Len(s)
      BY <1>1, <1>5, <2>1, <2>3
    <3> HIDE DEF x
    <3>2. u[x] = s[x]
      BY ONLY <1>2, <2>1, <3>1, Zenon
    <3> QED BY ONLY <1>4, <1>5, <2>1, <2>2, <2>3, <3>1, <3>2, Zenon DEF x
  <2>4. CASE ~(i <= Len(b))
    <3>1. ~(x <= Len(s)) /\ x - Len(s) = i - Len(b)
      BY <1>1, <1>5, <2>1, <2>4
    <3> HIDE DEF x
    <3>2. u[x] = t[i - Len(b)]
      BY ONLY <1>2, <2>1, <3>1, Zenon
    <3> QED BY ONLY <1>4, <2>1, <2>2, <2>4, <3>2, Zenon DEF x
  <2> QED BY <2>3, <2>4
<1>9. a = b \o t
  BY <1>4, <1>6, <1>7, <1>8, SeqEqual
<1> QED
  BY <1>9 DEF a, b, u

LEMMA SuffixOfSuffix ==
    ASSUME NEW S, NEW s \in Seq(S), NEW m \in 0 .. Len(s), NEW n \in 0 .. Len(s) - m
    PROVE  SubSeq(SubSeq(s, m + 1, Len(s)), n + 1, Len(SubSeq(s, m + 1, Len(s)))) = SubSeq(s, m + n + 1, Len(s))
<1> DEFINE b == SubSeq(s, m + 1, Len(s))
           a == SubSeq(b, n + 1, Len(b))
           mn == m + n
           c == SubSeq(s, mn + 1, Len(s))
<1>1. Len(s) \in Nat /\ m \in Nat /\ n \in Nat
  BY LenProperties
<1>2. b \in Seq(S) /\ Len(b) = Len(s) - m /\ \A i \in 1 .. Len(s) - m : b[i] = s[m + i]
  BY Suffix
<1>3. mn \in 0 .. Len(s) /\ n \in 0 .. Len(b)
  BY <1>1, <1>2
<1> HIDE DEF b, mn
<1>4. a \in Seq(S) /\ Len(a) = Len(b) - n /\ \A i \in 1 .. Len(b) - n : a[i] = b[n + i]
  BY <1>2, <1>3, Suffix
<1>5. c \in Seq(S) /\ Len(c) = Len(s) - mn /\ \A i \in 1 .. Len(s) - mn : c[i] = s[mn + i]
  BY <1>3, Suffix
<1> HIDE DEF a, c
<1>6. Len(a) = Len(c)
  BY <1>1, <1>2, <1>4, <1>5 DEF mn
<1>7. ASSUME NEW i \in 1 .. Len(a) PROVE a[i] = c[i]
  <2> DEFINE x == n + i
  <2>1. /\ i \in 1 .. Len(b) - n /\ i \in 1 .. Len(s) - mn /\ x \in 1 .. Len(s) - m
        /\ m + x = mn + i
    BY <1>1, <1>2, <1>4, <1>5, <1>7 DEF mn
  <2>2. a[i] = b[x]
    BY <1>4, <2>1
  <2> HIDE DEF x
  <2> QED BY ONLY <1>2, <1>5, <2>1, <2>2, Zenon
<1>8. a = c
  BY <1>4, <1>5, <1>6, <1>7, SeqEqual
<1>9. mn + 1 = m + n + 1
  BY <1>1 DEF mn
<1> QED
  BY <1>8, <1>9 DEF a, b, c

-----------------------------------------------------------------------------
(* Types, blocks and the send queue                                          *)

\* SendPacket::data lays a packet's bytes out.
LEMMA PacketBytes ==
    ASSUME sent \in Seq(Messages), NEW i \in 1 .. Len(sent)
    PROVE  /\ GetBufs(i) \in Seq(Seq(Byte)) /\ Len(GetBufs(i)) = 2
           /\ FlattenSeq(GetBufs(i)) \in Seq(Byte)
           /\ Len(FlattenSeq(GetBufs(i))) = HeaderSize + sent[i].body
           /\ \A k \in 1 .. HeaderSize + sent[i].body : FlattenSeq(GetBufs(i))[k] = <<i, k - 1>>
<1> DEFINE h == [k \in 1 .. HeaderSize |-> <<i, 0 + k - 1>>]
           b == [k \in 1 .. sent[i].body |-> <<i, HeaderSize + k - 1>>]
           m == sent[i].body
<1>0. \A n \in Nat : \A f \in [1 .. n -> Byte] : f \in Seq(Byte) /\ Len(f) = n
  OBVIOUS
<1>1. m \in Nat /\ HeaderSize \in Nat /\ i \in Nat
  <2>1. sent[i] \in Messages
    BY ElementOfSeq
  <2> QED BY <2>1, Constants, LenProperties
<1>2. GetBufs(i) = <<h, b>>
  BY DEF GetBufs
<1>3. h \in Seq(Byte) /\ Len(h) = HeaderSize /\ \A k \in 1 .. HeaderSize : h[k] = <<i, 0 + k - 1>>
  <2>1. \A k \in 1 .. HeaderSize : <<i, 0 + k - 1>> \in Byte
    BY <1>1 DEF Byte
  <2>2. h \in [1 .. HeaderSize -> Byte] /\ \A k \in 1 .. HeaderSize : h[k] = <<i, 0 + k - 1>>
    BY ONLY <2>1, Zenon
  <2> HIDE DEF h
  <2> QED BY ONLY <1>0, <1>1, <2>2, Zenon
<1>4. b \in Seq(Byte) /\ Len(b) = m /\ \A k \in 1 .. m : b[k] = <<i, HeaderSize + k - 1>>
  <2>1. \A k \in 1 .. m : <<i, HeaderSize + k - 1>> \in Byte
    BY <1>1 DEF Byte
  <2>2. b \in [1 .. m -> Byte] /\ \A k \in 1 .. m : b[k] = <<i, HeaderSize + k - 1>>
    BY ONLY <2>1, Zenon
  <2> HIDE DEF b
  <2> QED BY ONLY <1>0, <1>1, <2>2, Zenon
<1> HIDE DEF h, b, m
<1>5. <<h, b>> \in Seq(Seq(Byte)) /\ Len(<<h, b>>) = 2
  BY <1>3, <1>4, ShortSequences
<1>6. FlattenSeq(<<h, b>>) = h \o b
  BY FlattenTwo
<1>7. /\ h \o b \in Seq(Byte) /\ Len(h \o b) = HeaderSize + m
      /\ \A k \in 1 .. HeaderSize + m : (h \o b)[k] = IF k <= HeaderSize THEN h[k] ELSE b[k - HeaderSize]
  BY <1>3, <1>4, ConcatProperties
<1>8. ASSUME NEW k \in 1 .. HeaderSize + m PROVE (h \o b)[k] = <<i, k - 1>>
  <2>1. CASE k <= HeaderSize
    <3>1. k \in 1 .. HeaderSize /\ 0 + k - 1 = k - 1
      BY <1>1, <2>1
    <3>2. h[k] = <<i, 0 + k - 1>>
      BY <1>3, <3>1
    <3>3. (h \o b)[k] = h[k]
      BY ONLY <1>7, <1>8, <2>1, Zenon
    <3> QED BY ONLY <3>1, <3>2, <3>3, Zenon
  <2>2. CASE ~(k <= HeaderSize)
    <3> DEFINE x == k - HeaderSize
    <3>1. x \in 1 .. m /\ HeaderSize + x - 1 = k - 1
      BY <1>1, <2>2
    <3>2. (h \o b)[k] = b[x]
      BY ONLY <1>7, <1>8, <2>2, Zenon
    <3> HIDE DEF x
    <3>3. b[x] = <<i, HeaderSize + x - 1>>
      BY <1>4, <3>1
    <3> QED BY ONLY <3>1, <3>2, <3>3, Zenon
  <2> QED BY <2>1, <2>2
<1> QED
  BY ONLY <1>2, <1>5, <1>6, <1>7, <1>8, Zenon DEF m

Shape == TypeOK /\ BlockOK /\ QueueOK

LEMMA ShapeInit == Init => Shape
<1> SUFFICES ASSUME Init PROVE Shape
  OBVIOUS
<1>1. TypeOK
  <2>1. \A S : <<>> \in Seq(S)
    BY EmptySeq
  <2>2. Len(<<>>) <= 2
    BY EmptySeq
  <2> QED BY <2>1, <2>2, Zenon DEF Init, TypeOK, Sides
<1>2. BlockOK
  BY BlocksAssumption DEF Init, BlockOK
<1>3. QueueOK
  BY EmptySeq DEF Init, QueueOK
<1> QED
  BY <1>1, <1>2, <1>3 DEF Shape

LEMMA ShapeStep == Shape /\ [Next]_vars => Shape'
<1> SUFFICES ASSUME Shape, [Next]_vars PROVE Shape'
  OBVIOUS
<1> USE DEF Shape
<1>0. /\ Len(sent) \in Nat /\ Len(sendQue) \in Nat
      /\ \A c \in Blocks : data[c] \in Seq(Byte) /\ Len(data[c]) \in Nat
  BY LenProperties DEF TypeOK
<1>1. ASSUME NEW m \in Messages, Send(m) PROVE Shape'
  <2>1. /\ sent' = Append(sent, m) /\ sendQue' = Append(sendQue, Len(sent) + 1)
        /\ UNCHANGED <<bufs, wire, data, curBlock, head, rpc, sesQue, handled, answers, lost, open>>
    BY <1>1 DEF Send, receiver, session
  <2>2. sent' \in Seq(Messages) /\ Len(sent') = Len(sent) + 1
    BY <2>1, AppendProperties DEF TypeOK
  <2>3. /\ sendQue' \in Seq(Nat) /\ Len(sendQue') = Len(sendQue) + 1
        /\ \A k \in 1 .. Len(sendQue) : sendQue'[k] = sendQue[k]
        /\ sendQue'[Len(sendQue) + 1] = Len(sent) + 1
    BY <1>0, <2>1, AppendProperties DEF TypeOK
  <2>4. TypeOK'
    BY <2>1, <2>2, <2>3, Zenon DEF TypeOK
  <2>5. BlockOK'
    BY <2>1, Zenon DEF BlockOK
  <2>6. QueueOK'
    <3>1. Len(sendQue') <= Len(sent') /\ Taken' = Taken
      BY <1>0, <2>2, <2>3 DEF QueueOK, Taken
    <3>2. ASSUME NEW k \in 1 .. Len(sendQue') PROVE sendQue'[k] = Taken' + k
      <4>1. CASE k = Len(sendQue) + 1
        <5>1. Taken + k = Len(sent) + 1
          BY <1>0, <4>1 DEF Taken
        <5> QED BY ONLY <2>3, <3>1, <4>1, <5>1, Zenon
      <4>2. CASE k # Len(sendQue) + 1
        <5>1. k \in 1 .. Len(sendQue)
          BY <1>0, <2>3, <4>2
        <5>2. sendQue'[k] = sendQue[k] /\ sendQue[k] = Taken + k
          BY ONLY <2>3, <5>1, QueueOK, Zenon DEF QueueOK
        <5> QED BY ONLY <3>1, <5>2, Zenon
      <4> QED BY <4>1, <4>2
    <3> QED BY ONLY <3>1, <3>2, Zenon DEF QueueOK
  <2> QED BY <2>4, <2>5, <2>6
<1>2. ASSUME TakePacket PROVE Shape'
  <2>1. /\ sendQue # <<>> /\ bufs' = GetBufs(Head(sendQue)) /\ sendQue' = Tail(sendQue)
        /\ UNCHANGED <<sent, wire, data, curBlock, head, rpc, sesQue, handled, answers, lost, open>>
    BY <1>2 DEF TakePacket, receiver, session
  <2>2. /\ sendQue' \in Seq(Nat) /\ Len(sendQue') = Len(sendQue) - 1
        /\ \A k \in 1 .. Len(sendQue') : sendQue'[k] = sendQue[k + 1]
    BY <2>1, HeadTailProperties DEF TypeOK
  <2>3. Len(sendQue) >= 1 /\ Head(sendQue) = sendQue[1]
    BY <2>1, EmptySeq DEF TypeOK
  <2>4. Head(sendQue) \in 1 .. Len(sent)
    BY <1>0, <2>3 DEF QueueOK, Taken
  <2>5. bufs' \in Seq(Seq(Byte)) /\ Len(bufs') <= 2
    <3>1. sent \in Seq(Messages) /\ 2 <= 2
      BY DEF TypeOK
    <3>2. \A i \in 1 .. Len(sent) : GetBufs(i) \in Seq(Seq(Byte)) /\ Len(GetBufs(i)) = 2
      BY <3>1, PacketBytes
    <3> QED BY ONLY <2>1, <2>4, <3>1, <3>2, Zenon
  <2>6. TypeOK'
    BY <2>1, <2>2, <2>5, Zenon DEF TypeOK
  <2>7. BlockOK'
    BY <2>1, Zenon DEF BlockOK
  <2>8. QueueOK'
    BY <1>0, <2>1, <2>2, <2>3 DEF QueueOK, Taken
  <2> QED BY <2>6, <2>7, <2>8
<1>3. ASSUME NEW n, WriteSome(n) PROVE Shape'
  <2>1. /\ n \in 1 .. Len(FlattenSeq(bufs))
        /\ wire' = wire \o SubSeq(FlattenSeq(bufs), 1, n) /\ bufs' = Written(bufs, n)
        /\ UNCHANGED <<sent, sendQue, data, curBlock, head, rpc, sesQue, handled, answers, lost, open>>
    BY <1>3 DEF WriteSome, receiver, session
  <2>2. FlattenSeq(bufs) \in Seq(Byte)
    BY FlattenType DEF TypeOK
  <2>3. bufs' \in Seq(Seq(Byte)) /\ Len(bufs') <= 2
    BY <2>1, WrittenLeavesTheRest DEF TypeOK
  <2>4. wire' \in Seq(Byte)
    <3>1. SubSeq(FlattenSeq(bufs), 1, n) \in Seq(Byte)
      BY <2>1, <2>2, Cut
    <3> QED BY <2>1, <3>1, ConcatProperties DEF TypeOK
  <2>5. TypeOK'
    BY <2>1, <2>3, <2>4, Zenon DEF TypeOK
  <2>6. BlockOK' /\ QueueOK'
    BY <2>1, Zenon DEF BlockOK, QueueOK, Taken
  <2> QED BY <2>5, <2>6
<1>4. ASSUME GetBufInfo PROVE Shape'
  <2>1. /\ rpc' = "read"
        /\ UNCHANGED <<sent, sendQue, bufs, wire, sesQue, handled, answers, open>>
    BY <1>4 DEF GetBufInfo, sender, session
  <2>2. CASE ~NeedsBlock /\ UNCHANGED <<curBlock, head, data, lost>>
    <3>1. curBlock \in Blocks /\ Len(data[curBlock]) + PacketSize <= MaxSize
      <4>1. curBlock # NoBlock
        BY <2>2, Constants DEF NeedsBlock, RemainSize
      <4>2. curBlock \in Blocks
        BY <4>1 DEF TypeOK
      <4> QED BY <1>0, <2>2, <4>1, <4>2, Constants DEF NeedsBlock, RemainSize
    <3>2. TypeOK'
      BY <2>1, <2>2, Zenon DEF TypeOK
    <3>3. BlockOK'
      BY <2>1, <2>2, <3>1, Zenon DEF BlockOK
    <3>4. QueueOK'
      BY <2>1, Zenon DEF QueueOK, Taken
    <3> QED BY <3>2, <3>3, <3>4
  <2>3. CASE NeedsBlock /\ ~(~NeedsBlock /\ UNCHANGED <<curBlock, head, data, lost>>)
    <3> DEFINE b == CHOOSE b \in Free : TRUE
    <3>1. /\ Free # {} /\ curBlock' = b /\ head' = 0 /\ data' = [data EXCEPT ![b] = <<>>]
          /\ lost' = (lost \/ (curBlock # NoBlock /\ DataSize > 0))
      BY <1>4, <2>3 DEF GetBufInfo
    <3>2. b \in Blocks
      BY <3>1 DEF Free
    <3> HIDE DEF b
    <3>3. <<>> \in Seq(Byte) /\ Len(<<>>) = 0
      BY EmptySeq
    <3>4. data' \in [Blocks -> Seq(Byte)] /\ data'[b] = <<>>
      <4>1. data \in [Blocks -> Seq(Byte)]
        BY DEF TypeOK
      <4> QED BY ONLY <3>1, <3>2, <3>3, <4>1, Zenon
    <3>5. lost' \in BOOLEAN
      BY <3>1, Zenon DEF TypeOK
    <3>6. TypeOK'
      <4>1. 0 \in Nat
        OBVIOUS
      <4> QED BY <2>1, <3>1, <3>2, <3>4, <3>5, <4>1, Zenon DEF TypeOK
    <3>7. BlockOK'
      <4>1. Len(data'[curBlock']) = 0
        BY ONLY <3>1, <3>3, <3>4, Zenon
      <4>2. 0 <= 0 /\ 0 + PacketSize <= MaxSize
        BY Constants
      <4> QED BY ONLY <3>1, <3>2, <4>1, <4>2, Zenon DEF BlockOK
    <3>8. QueueOK'
      BY <2>1, Zenon DEF QueueOK, Taken
    <3> QED BY <3>6, <3>7, <3>8
  <2> QED BY <1>4, <2>2, <2>3 DEF GetBufInfo
<1>5. ASSUME NEW n, ReadSome(n) PROVE Shape'
  <2>1. /\ rpc = "read" /\ n \in 1 .. Len(wire) /\ n <= PacketSize
        /\ data' = [data EXCEPT ![curBlock] = @ \o SubSeq(wire, 1, n)]
        /\ wire' = SubSeq(wire, n + 1, Len(wire)) /\ rpc' = "parse"
        /\ UNCHANGED <<sent, sendQue, bufs, curBlock, head, sesQue, handled, answers, lost, open>>
    BY <1>5 DEF ReadSome, sender, session
  <2>2. curBlock \in Blocks
    BY <2>1 DEF BlockOK
  <2>3. wire' \in Seq(Byte) /\ SubSeq(wire, 1, n) \in Seq(Byte) /\ Len(SubSeq(wire, 1, n)) = n /\ n \in Nat
    BY <2>1, Cut, LenProperties DEF TypeOK
  <2> DEFINE d == data[curBlock] \o SubSeq(wire, 1, n)
  <2>4. d \in Seq(Byte) /\ Len(d) = Len(data[curBlock]) + n
    BY <1>0, <2>2, <2>3, ConcatProperties
  <2>5. data' \in [Blocks -> Seq(Byte)] /\ data'[curBlock] = d
    <3>1. data \in [Blocks -> Seq(Byte)] /\ data' = [data EXCEPT ![curBlock] = d]
      BY <2>1 DEF TypeOK
    <3> HIDE DEF d
    <3> QED BY ONLY <2>2, <2>4, <3>1, Zenon
  <2> HIDE DEF d
  <2>6. TypeOK'
    BY <2>1, <2>3, <2>5, Zenon DEF TypeOK
  <2>7. BlockOK'
    <3>1. head <= Len(d)
      BY <1>0, <2>2, <2>3, <2>4 DEF BlockOK, TypeOK
    <3>2. "parse" # "read"
      OBVIOUS
    <3> QED BY ONLY <2>1, <2>2, <2>5, <3>1, <3>2, Zenon DEF BlockOK
  <2>8. QueueOK'
    BY <2>1, Zenon DEF QueueOK, Taken
  <2> QED BY <2>6, <2>7, <2>8
<1>6. ASSUME Parse PROVE Shape'
  <2>1. /\ rpc = "parse"
        /\ UNCHANGED <<sent, sendQue, bufs, wire, data, curBlock, handled, answers, lost, open>>
    BY <1>6 DEF Parse, sender
  <2>2. curBlock \in Blocks
    BY <2>1 DEF BlockOK
  <2>3. QueueOK'
    BY <2>1, Zenon DEF QueueOK, Taken
  <2>4. CASE rpc' = "buffer" /\ UNCHANGED <<head, sesQue>>
    <3>1. TypeOK'
      BY <2>1, <2>4, Zenon DEF TypeOK
    <3>2. "buffer" # "read"
      OBVIOUS
    <3>3. BlockOK'
      BY <2>1, <2>2, <2>4, <3>2, Zenon DEF BlockOK
    <3> QED BY <2>3, <3>1, <3>3
  <2>5. ASSUME NEW size \in SizesAt(curBlock, head), Complete(size), rpc' = rpc,
               HandleMsg([block |-> curBlock, pos |-> head]), head' = head + size + HeaderSize
        PROVE  Shape'
    <3>1. size \in Nat
      <4>1. CASE size \in Bodies
        BY <4>1, Constants DEF Bodies
      <4>2. CASE ~(size \in Bodies)
        <5>1. PacketAt(curBlock, head) # 0 /\ size = sent[PacketAt(curBlock, head)].body
          BY <2>5, <4>2 DEF SizesAt
        <5>2. PacketAt(curBlock, head) \in DOMAIN sent
          BY <5>1 DEF PacketAt
        <5>3. sent[PacketAt(curBlock, head)] \in Messages
          <6>1. PacketAt(curBlock, head) \in 1 .. Len(sent)
            BY <5>2, LenProperties DEF TypeOK
          <6> QED BY <6>1, ElementOfSeq DEF TypeOK
        <5> QED BY <5>1, <5>3, Constants
      <4> QED BY <4>1, <4>2
    <3>2. /\ head \in Nat /\ head' \in Nat /\ head' <= Len(data[curBlock])
      BY <1>0, <2>2, <2>5, <3>1, Constants DEF TypeOK, Complete, DataSize
    <3>3. sesQue' \in Seq(Packet)
      <4>1. [block |-> curBlock, pos |-> head] \in Packet
        BY <2>2, <3>2 DEF Packet
      <4> QED BY <2>5, <4>1, AppendProperties DEF HandleMsg, TypeOK
    <3>4. TypeOK'
      BY <2>1, <2>5, <3>2, <3>3, Zenon DEF TypeOK
    <3>5. BlockOK'
      <4>1. "parse" # "read"
        OBVIOUS
      <4> QED BY ONLY <2>1, <2>2, <2>5, <3>2, <4>1, Zenon DEF BlockOK
    <3> QED BY <2>3, <3>4, <3>5
  <2> QED BY <1>6, <2>4, <2>5 DEF Parse
<1>7. ASSUME NEW side, Disconnect(side) PROVE Shape'
  <2>1. /\ open' = open \ {side}
        /\ UNCHANGED <<sent, sendQue, bufs, wire, data, curBlock, head, rpc, sesQue, handled, answers, lost>>
    BY <1>7 DEF Disconnect, sender, receiver, session
  <2>2. open' \subseteq Sides
    BY <2>1 DEF TypeOK
  <2>3. TypeOK'
    BY <2>1, <2>2, Zenon DEF TypeOK
  <2>4. BlockOK' /\ QueueOK'
    BY <2>1, Zenon DEF BlockOK, QueueOK, Taken
  <2> QED BY <2>3, <2>4
<1>8. ASSUME Handle PROVE Shape'
  <2> DEFINE i == PacketAt(Head(sesQue).block, Head(sesQue).pos)
  <2>1. /\ sesQue # <<>> /\ handled' = Append(handled, i) /\ sesQue' = Tail(sesQue)
        /\ answers' = Append(answers, i) \/ answers' = answers
        /\ UNCHANGED <<sent, sendQue, bufs, wire, data, curBlock, head, rpc, lost, open>>
    BY <1>8 DEF Handle, Dispatch, Answer, sender, receiver
  <2>2. i \in Nat
    <3>1. i = 0 \/ i \in DOMAIN sent
      BY DEF PacketAt
    <3>2. DOMAIN sent = 1 .. Len(sent)
      BY LenProperties DEF TypeOK
    <3> HIDE DEF i
    <3> QED BY <1>0, <3>1, <3>2
  <2> HIDE DEF i
  <2>3. handled' \in Seq(Nat) /\ answers' \in Seq(Nat)
    <3>1. \A s \in Seq(Nat) : Append(s, i) \in Seq(Nat)
      BY <2>2, AppendProperties
    <3>2. handled \in Seq(Nat) /\ answers \in Seq(Nat)
      BY DEF TypeOK
    <3> QED BY ONLY <2>1, <3>1, <3>2, Zenon
  <2>4. sesQue' \in Seq(Packet)
    BY <2>1, HeadTailProperties DEF TypeOK
  <2>5. TypeOK'
    BY <2>1, <2>3, <2>4, Zenon DEF TypeOK
  <2>6. BlockOK' /\ QueueOK'
    BY <2>1, Zenon DEF BlockOK, QueueOK, Taken
  <2> QED BY <2>5, <2>6
<1>9. ASSUME UNCHANGED vars PROVE Shape'
  BY <1>9, Zenon DEF vars, sender, receiver, session, TypeOK, BlockOK, QueueOK, Taken
<1> QED
  BY <1>1, <1>2, <1>3, <1>4, <1>5, <1>6, <1>7, <1>8, <1>9, Zenon DEF Next

-----------------------------------------------------------------------------
(* Order: what the steps have in common                                      *)

Ordered == StreamOK /\ HandledOK /\ AnswersOK

LEMMA StreamParts ==
    ASSUME Shape
    PROVE  /\ Unread \in Seq(Byte) /\ wire \in Seq(Byte) /\ FlattenSeq(bufs) \in Seq(Byte)
           /\ Unread \o wire \in Seq(Byte) /\ Stream \in Seq(Byte)
           /\ Stream = Unread \o (wire \o FlattenSeq(bufs)) /\ wire \o FlattenSeq(bufs) \in Seq(Byte)
           /\ Len(sent) \in Nat /\ Len(sendQue) \in Nat /\ Len(handled) \in Nat /\ Len(sesQue) \in Nat
           /\ Taken \in Nat /\ Taken <= Len(sent) /\ Posted \in Nat
           /\ Sizes \in Seq(Positive) /\ Len(Sizes) = Len(sent)
           /\ \A i \in 1 .. Len(sent) : Sizes[i] = HeaderSize + sent[i].body /\ sent[i].body \in Nat
<1> USE DEF Shape
<1>1. wire \in Seq(Byte) /\ FlattenSeq(bufs) \in Seq(Byte)
  BY FlattenType DEF TypeOK
<1>2. Unread \in Seq(Byte)
  <2>1. CASE curBlock = NoBlock
    BY <2>1, EmptySeq, Zenon DEF Unread
  <2>2. CASE curBlock # NoBlock
    <3>1. curBlock \in Blocks
      BY <2>2 DEF TypeOK
    <3>2. data[curBlock] \in Seq(Byte) /\ Len(data[curBlock]) \in Nat
      BY <3>1, LenProperties DEF TypeOK
    <3>3. head \in 0 .. Len(data[curBlock])
      BY <3>1, <3>2 DEF TypeOK, BlockOK
    <3>4. SubSeq(data[curBlock], head + 1, Len(data[curBlock])) \in Seq(Byte)
      BY <3>2, <3>3, Suffix
    <3> QED BY ONLY <2>2, <3>4, Zenon DEF Unread
  <2> QED BY <2>1, <2>2
<1>3. Unread \o wire \in Seq(Byte) /\ Stream \in Seq(Byte) /\ wire \o FlattenSeq(bufs) \in Seq(Byte)
  BY ONLY <1>1, <1>2, ConcatProperties, Zenon DEF Stream
<1>4. Stream = Unread \o (wire \o FlattenSeq(bufs))
  <2>1. \A s, t, u \in Seq(Byte) : (s \o t) \o u = s \o (t \o u)
    BY ConcatAssociative
  <2> QED BY ONLY <1>1, <1>2, <2>1, Zenon DEF Stream
<1>5. Len(sent) \in Nat /\ Len(sendQue) \in Nat /\ Len(handled) \in Nat /\ Len(sesQue) \in Nat
  BY LenProperties DEF TypeOK
<1>6. Taken \in Nat /\ Taken <= Len(sent) /\ Posted \in Nat
  <2>1. Len(sendQue) <= Len(sent)
    BY DEF QueueOK
  <2> QED BY ONLY <1>5, <2>1 DEF Taken, Posted
<1>7. \A i \in 1 .. Len(sent) : sent[i].body \in Nat
  <2>1. \A i \in 1 .. Len(sent) : sent[i] \in Messages
    BY ElementOfSeq DEF TypeOK
  <2> QED BY <2>1, Constants
<1>8. /\ Sizes \in Seq(Positive) /\ Len(Sizes) = Len(sent)
      /\ \A i \in 1 .. Len(sent) : Sizes[i] = HeaderSize + sent[i].body
  <2>1. \A i \in 1 .. Len(sent) : HeaderSize + sent[i].body \in Positive
    BY <1>7, Constants DEF Positive
  <2>2. \A n \in Nat : \A f \in [1 .. n -> Positive] : f \in Seq(Positive) /\ Len(f) = n
    OBVIOUS
  <2>3. Sizes \in [1 .. Len(sent) -> Positive]
    BY ONLY <2>1, Zenon DEF Sizes
  <2>4. \A i \in 1 .. Len(sent) : Sizes[i] = HeaderSize + sent[i].body
    BY ONLY Zenon DEF Sizes
  <2> QED BY ONLY <1>5, <2>2, <2>3, <2>4, Zenon
<1> QED
  BY ONLY <1>1, <1>2, <1>3, <1>4, <1>5, <1>6, <1>7, <1>8, Zenon

\* What Recv has not parsed lies in its block from head on.
LEMMA UnreadBytes ==
    ASSUME Shape, curBlock \in Blocks
    PROVE  /\ data[curBlock] \in Seq(Byte) /\ Len(data[curBlock]) \in Nat
           /\ head \in 0 .. Len(data[curBlock])
           /\ Unread = SubSeq(data[curBlock], head + 1, Len(data[curBlock]))
           /\ Len(Unread) = DataSize /\ DataSize \in Nat
           /\ \A k \in 1 .. DataSize : Unread[k] = data[curBlock][head + k]
<1>1. data[curBlock] \in Seq(Byte) /\ Len(data[curBlock]) \in Nat
  BY LenProperties DEF Shape, TypeOK
<1>2. head \in 0 .. Len(data[curBlock])
  BY <1>1 DEF Shape, TypeOK, BlockOK
<1>3. Unread = SubSeq(data[curBlock], head + 1, Len(data[curBlock]))
  BY BlocksAssumption, Zenon DEF Unread
<1>4. /\ Len(Unread) = Len(data[curBlock]) - head
      /\ \A k \in 1 .. Len(data[curBlock]) - head : Unread[k] = data[curBlock][head + k]
  BY <1>1, <1>2, <1>3, Suffix
<1>5. DataSize = Len(data[curBlock]) - head /\ DataSize \in Nat
  BY <1>1, <1>2 DEF DataSize
<1> QED
  BY ONLY <1>1, <1>2, <1>3, <1>4, <1>5, Zenon

\* Packets waiting for the session are not disturbed when the bytes read stay.
LEMMA HandledKept ==
    ASSUME Shape, HandledOK, handled' = handled, sesQue' = sesQue,
           \A q \in 1 .. Len(sesQue) : LET b == sesQue[q].block IN
              /\ Len(data[b]) <= Len(data'[b]) /\ Len(data'[b]) \in Nat
              /\ \A k \in 1 .. Len(data[b]) : data'[b][k] = data[b][k]
    PROVE  HandledOK'
<1>1. ASSUME NEW q \in 1 .. Len(sesQue)
      PROVE  HeaderAt(sesQue[q].block, sesQue[q].pos, Len(handled) + q)'
  <2> DEFINE b == sesQue[q].block  p == sesQue[q].pos  i == Len(handled) + q
  <2>1. b \in Blocks /\ p \in Nat /\ Len(data[b]) \in Nat
    <3>1. sesQue[q] \in Packet
      BY ElementOfSeq DEF Shape, TypeOK
    <3>2. b \in Blocks /\ p \in Nat
      BY <3>1 DEF Packet
    <3> HIDE DEF b
    <3> QED BY <3>2, LenProperties DEF Shape, TypeOK
  <2>2. HeaderAt(b, p, i)
    BY DEF HandledOK
  <2>3. /\ Len(data[b]) <= Len(data'[b]) /\ Len(data'[b]) \in Nat
        /\ \A k \in 1 .. Len(data[b]) : data'[b][k] = data[b][k]
    BY Zenon
  <2> HIDE DEF b, p, i
  <2>4. ASSUME NEW k \in 1 .. HeaderSize
        PROVE  p + k <= Len(data'[b]) /\ data'[b][p + k] = <<i, k - 1>>
    <3> DEFINE x == p + k
    <3>1. x <= Len(data[b]) /\ data[b][x] = <<i, k - 1>>
      BY <2>2, <2>4, Zenon DEF HeaderAt
    <3>2. x \in 1 .. Len(data[b]) /\ x <= Len(data'[b])
      BY <2>1, <2>3, <3>1, Constants
    <3> HIDE DEF x
    <3>3. x <= Len(data'[b]) /\ data'[b][x] = <<i, k - 1>>
      BY ONLY <2>3, <3>1, <3>2, Zenon
    <3> QED BY ONLY <3>3, Zenon DEF x
  <2>5. /\ (sesQue[q].block)' = b /\ (sesQue[q].pos)' = p /\ (Len(handled) + q)' = i
    BY Zenon DEF b, p, i
  <2> QED BY ONLY <2>4, <2>5, Zenon DEF HeaderAt
<1>2. (\A q \in 1 .. Len(handled) : handled[q] = q)'
  BY Zenon DEF HandledOK
<1> QED
  BY <1>1, <1>2, Zenon DEF HandledOK

LEMMA AnswersKept ==
    ASSUME AnswersOK, UNCHANGED <<sent, handled, answers, open>>
    PROVE  AnswersOK'
BY Zenon DEF AnswersOK

LEMMA StreamKept ==
    ASSUME StreamOK, Stream' = Stream, UNCHANGED <<sent, sendQue, handled, sesQue>>
    PROVE  StreamOK'
<1>1. Posted' = Posted /\ Taken' = Taken /\ Sizes' = Sizes
  BY Zenon DEF Posted, Taken, Sizes
<1> QED
  BY ONLY <1>1, StreamOK, Stream' = Stream, Zenon DEF StreamOK

-----------------------------------------------------------------------------
(* Order: sending                                                            *)

LEMMA OrderedInit == Init => Ordered
<1> SUFFICES ASSUME Init PROVE Ordered
  OBVIOUS
<1>0. /\ sent = <<>> /\ sendQue = <<>> /\ bufs = <<>> /\ wire = <<>> /\ curBlock = NoBlock
      /\ sesQue = <<>> /\ handled = <<>> /\ answers = <<>>
  BY DEF Init
<1>1. Len(sent) = 0 /\ Len(sendQue) = 0 /\ Len(handled) = 0 /\ Len(sesQue) = 0 /\ Len(answers) = 0
  BY <1>0
<1>2. Stream = <<>>
  <2>1. FlattenSeq(bufs) = <<>> /\ Unread = <<>> /\ wire = <<>>
    BY ONLY <1>0, FlattenNone, Zenon DEF Unread
  <2>2. <<>> \o <<>> = <<>>
    BY EmptySeq, ConcatEmptySeq
  <2> QED BY ONLY <2>1, <2>2, Zenon DEF Stream
<1>3. Posted = 0 /\ Taken = 0
  BY <1>1 DEF Posted, Taken
<1>4. Len(Sizes) = 0
  <2>1. Shape
    BY ShapeInit
  <2> QED BY <1>1, <2>1, StreamParts
<1>5. Whole(<<>>, 0, 0, Sizes)
  <2>1. 0 <= 0 /\ 0 <= Len(Sizes) /\ \A j \in 1 .. Len(<<>>) : FALSE
    BY <1>4
  <2> QED BY ONLY <2>1, Zenon DEF Whole
<1>6. StreamOK
  BY ONLY <1>2, <1>3, <1>5, Zenon DEF StreamOK
<1>7. HandledOK
  <2>1. \A j \in 1 .. 0 : FALSE
    OBVIOUS
  <2> QED BY ONLY <1>1, <2>1, Zenon DEF HandledOK
<1>8. AnswersOK
  <2>1. (\A j \in 1 .. 0 : FALSE) /\ 0 \in 0 .. 0
    OBVIOUS
  <2> QED BY ONLY <1>1, <2>1, Zenon DEF AnswersOK
<1> QED
  BY <1>6, <1>7, <1>8 DEF Ordered

LEMMA SizesNext ==
    Shape' => (/\ Len(Sizes) = Len(sent)
               /\ \A i \in 1 .. Len(sent) : Sizes[i] = HeaderSize + sent[i].body)'
<1>1. Shape => /\ Len(Sizes) = Len(sent)
               /\ \A i \in 1 .. Len(sent) : Sizes[i] = HeaderSize + sent[i].body
  BY StreamParts
<1> QED
  BY <1>1, PTL

LEMMA OrderedSend ==
    ASSUME Shape, Shape', Ordered, NEW m \in Messages, Send(m)
    PROVE  Ordered'
<1>1. /\ sent' = Append(sent, m) /\ sendQue' = Append(sendQue, Len(sent) + 1)
      /\ UNCHANGED <<bufs, wire, data, curBlock, head, rpc, sesQue, handled, answers, lost, open>>
  BY DEF Send, receiver, session
<1>2. Len(sent') = Len(sent) + 1 /\ \A i \in 1 .. Len(sent) : sent'[i] = sent[i]
  BY <1>1, AppendProperties DEF Shape, TypeOK
<1>3. Len(sendQue') = Len(sendQue) + 1
  <2>1. Len(sent) + 1 \in Nat
    BY LenProperties DEF Shape, TypeOK
  <2> QED BY <1>1, <2>1, AppendProperties DEF Shape, TypeOK
<1>4. Stream' = Stream /\ Posted' = Posted
  BY <1>1, Zenon DEF Stream, Unread, Posted
<1>5. Taken' = Taken
  BY <1>2, <1>3, StreamParts DEF Taken
<1>6. StreamOK'
  <2>1. Len(Sizes') = Len(sent) + 1 /\ \A i \in 1 .. Len(sent) : Sizes'[i] = Sizes[i]
    <3>1. Len(Sizes') = Len(sent') /\ \A i \in 1 .. Len(sent') : Sizes'[i] = HeaderSize + sent'[i].body
      BY SizesNext
    <3>2. \A i \in 1 .. Len(sent) : Sizes[i] = HeaderSize + sent[i].body
      BY StreamParts
    <3>3. \A i \in 1 .. Len(sent) : i \in 1 .. Len(sent')
      BY <1>2, StreamParts
    <3> QED BY ONLY <1>2, <3>1, <3>2, <3>3, Zenon
  <2>2. Whole(Stream, Posted, Taken, Sizes)
    BY DEF Ordered, StreamOK
  <2>3. Taken <= Len(Sizes') /\ \A i \in 1 .. Taken : Sizes'[i] = Sizes[i]
    <3>1. \A i \in 1 .. Taken : i \in 1 .. Len(sent)
      BY StreamParts
    <3>2. Taken <= Len(Sizes')
      BY <2>1, StreamParts
    <3> QED BY ONLY <2>1, <3>1, <3>2, Zenon
  <2>4. Taken \in Nat /\ Posted \in Nat
    BY StreamParts
  <2>5. Whole(Stream, Posted, Taken, Sizes')
    BY <2>2, <2>3, <2>4, WholeSizes
  <2> QED BY ONLY <1>4, <1>5, <2>5, Zenon DEF StreamOK
<1>7. HandledOK'
  BY <1>1, Zenon DEF Ordered, HandledOK, HeaderAt
<1>8. AnswersOK'
  <2>1. /\ \A j, k \in 1 .. Len(answers') : j < k => answers'[j] < answers'[k]
    BY <1>1, Zenon DEF Ordered, AnswersOK
  <2>2. PICK n \in 0 .. Len(handled) :
          /\ \A i \in Nat : (\E j \in 1 .. Len(answers) : answers[j] = i)
                            <=> (i \in 1 .. n /\ Handles(sent[i].type))
          /\ "recv" \in open => n = Len(handled)
    BY Zenon DEF Ordered, AnswersOK
  <2>3. \A i \in 1 .. n : sent'[i] = sent[i]
    <3>1. Posted <= Taken
      BY DEF Ordered, StreamOK, Whole
    <3>2. \A i \in 1 .. n : i \in 1 .. Len(sent)
      BY <3>1, StreamParts DEF Posted
    <3> QED BY <1>2, <3>2
  <2>4. \A i \in Nat : (\E j \in 1 .. Len(answers') : answers'[j] = i)
                       <=> (i \in 1 .. n /\ Handles(sent'[i].type))
    BY ONLY <1>1, <2>2, <2>3, Zenon
  <2>5. n \in 0 .. Len(handled') /\ ("recv" \in open' => n = Len(handled'))
    BY ONLY <1>1, <2>2, Zenon
  <2> QED BY ONLY <2>1, <2>4, <2>5, Zenon DEF AnswersOK
<1> QED
  BY <1>6, <1>7, <1>8 DEF Ordered

LEMMA OrderedTake ==
    ASSUME Shape, Ordered, TakePacket
    PROVE  Ordered'
<1> DEFINE i == Head(sendQue)
           p == FlattenSeq(GetBufs(i))
<1>1. /\ sendQue # <<>> /\ bufs = <<>> /\ bufs' = GetBufs(i) /\ sendQue' = Tail(sendQue)
      /\ UNCHANGED <<sent, wire, data, curBlock, head, rpc, sesQue, handled, answers, lost, open>>
  BY DEF TakePacket, receiver, session
<1>2. Len(sendQue') = Len(sendQue) - 1 /\ Len(sendQue) >= 1 /\ i = sendQue[1]
  BY <1>1, HeadTailProperties, EmptySeq DEF Shape, TypeOK
<1>3. i = Taken + 1 /\ i \in 1 .. Len(sent) /\ Taken + 1 <= Len(sent)
  <2>1. i = Taken + 1
    BY <1>2, StreamParts DEF Shape, QueueOK
  <2>2. Taken + 1 <= Len(sent)
    BY <1>2, StreamParts DEF Taken
  <2> HIDE DEF i
  <2> QED BY <2>1, <2>2, StreamParts
<1>4. Taken' = Taken + 1
  BY <1>1, <1>2, StreamParts DEF Taken
<1> HIDE DEF i
<1>5. /\ p \in Seq(Byte) /\ Len(p) = HeaderSize + sent[i].body
      /\ \A k \in 1 .. HeaderSize + sent[i].body : p[k] = <<i, k - 1>>
  BY <1>3, PacketBytes DEF Shape, TypeOK
<1> HIDE DEF p
<1>6. Stream' = Stream \o p
  <2>1. FlattenSeq(bufs') = p /\ Unread' = Unread /\ wire' = wire
    BY ONLY <1>1, Zenon DEF p, Unread
  <2>2. Stream = Unread \o wire
    <3>1. (Unread \o wire) \o <<>> = Unread \o wire
      BY StreamParts, ConcatEmptySeq
    <3> QED BY ONLY <1>1, <3>1, FlattenNone, Zenon DEF Stream
  <2> QED BY ONLY <2>1, <2>2, Zenon DEF Stream
<1>7. StreamOK'
  <2>1. Whole(Stream, Posted, Taken, Sizes)
    BY DEF Ordered, StreamOK
  <2>2. /\ Stream \in Seq(Byte) /\ Posted \in Nat /\ Taken \in Nat /\ Sizes \in Seq(Positive)
        /\ Taken + 1 <= Len(Sizes)
    BY <1>3, StreamParts
  <2>3. Len(p) = Sizes[Taken + 1] /\ \A k \in 1 .. Len(p) : p[k] = <<Taken + 1, k - 1>>
    <3>1. Sizes[i] = HeaderSize + sent[i].body
      BY <1>3, StreamParts
    <3> QED BY ONLY <1>3, <1>5, <3>1, Zenon
  <2>4. Whole(Stream \o p, Posted, Taken + 1, Sizes)
    BY <1>5, <2>1, <2>2, <2>3, WholeAdd
  <2>5. Posted' = Posted /\ Sizes' = Sizes
    BY <1>1, Zenon DEF Posted, Sizes
  <2> QED BY ONLY <1>4, <1>6, <2>4, <2>5, Zenon DEF StreamOK
<1>8. HandledOK'
  BY <1>1, Zenon DEF Ordered, HandledOK, HeaderAt
<1>9. AnswersOK'
  BY <1>1, AnswersKept DEF Ordered
<1> QED
  BY <1>7, <1>8, <1>9 DEF Ordered

LEMMA OrderedWrite ==
    ASSUME Shape, Ordered, NEW n, WriteSome(n)
    PROVE  Ordered'
<1> DEFINE F == FlattenSeq(bufs)
           a == SubSeq(F, 1, n)
           b == SubSeq(F, n + 1, Len(F))
<1>1. /\ n \in 1 .. Len(F) /\ wire' = wire \o a /\ bufs' = Written(bufs, n)
      /\ UNCHANGED <<sent, sendQue, data, curBlock, head, rpc, sesQue, handled, answers, lost, open>>
  BY DEF WriteSome, receiver, session
<1>2. FlattenSeq(Written(bufs, n)) = b
  BY <1>1, WrittenLeavesTheRest DEF Shape, TypeOK
<1>3. F \in Seq(Byte) /\ Unread \in Seq(Byte) /\ wire \in Seq(Byte) /\ Unread \o wire \in Seq(Byte)
  BY StreamParts
<1> HIDE DEF F
<1>4. a \in Seq(Byte) /\ b \in Seq(Byte) /\ a \o b = F
  BY <1>1, <1>3, Cut
<1> HIDE DEF a, b
<1>5. Stream' = Stream
  <2>1. FlattenSeq(bufs') = b /\ Unread' = Unread /\ wire' = wire \o a
    BY ONLY <1>1, <1>2, Zenon DEF Unread
  <2>0. \A s, t, u \in Seq(Byte) : (s \o t) \o u = s \o (t \o u)
    BY ConcatAssociative
  <2>2. (Unread \o wire) \o a = Unread \o (wire \o a)
    <3>1. Unread \in Seq(Byte) /\ wire \in Seq(Byte) /\ a \in Seq(Byte)
      BY <1>3, <1>4
    <3> QED BY ONLY <2>0, <3>1, Zenon
  <2>3. ((Unread \o wire) \o a) \o b = (Unread \o wire) \o (a \o b)
    BY ONLY <1>3, <1>4, <2>0, Zenon
  <2> QED BY ONLY <1>4, <2>1, <2>2, <2>3, Zenon DEF Stream, F
<1>6. StreamOK'
  BY <1>1, <1>5, StreamKept DEF Ordered
<1>7. HandledOK'
  BY <1>1, Zenon DEF Ordered, HandledOK, HeaderAt
<1>8. AnswersOK'
  BY <1>1, AnswersKept DEF Ordered
<1> QED
  BY <1>6, <1>7, <1>8 DEF Ordered

-----------------------------------------------------------------------------
(* Order: GetBufInfo, reads and the end of a connection                      *)

LEMMA OrderedGet ==
    ASSUME Shape, Ordered, GetBufInfo, ~lost'
    PROVE  Ordered'
<1>1. UNCHANGED <<sent, sendQue, bufs, wire, sesQue, handled, answers, open>>
  BY DEF GetBufInfo, sender, session
<1>2. AnswersOK'
  BY <1>1, AnswersKept DEF Ordered
<1>3. CASE ~NeedsBlock /\ UNCHANGED <<curBlock, head, data, lost>>
  <2>1. Stream' = Stream
    BY <1>1, <1>3, Zenon DEF Stream, Unread
  <2>2. StreamOK'
    BY <1>1, <2>1, StreamKept DEF Ordered
  <2>3. HandledOK'
    BY <1>1, <1>3, Zenon DEF Ordered, HandledOK, HeaderAt
  <2> QED BY <1>2, <2>2, <2>3 DEF Ordered
<1>4. CASE ~(~NeedsBlock /\ UNCHANGED <<curBlock, head, data, lost>>)
  <2> DEFINE b == CHOOSE b \in Free : TRUE
  <2>1. /\ Free # {} /\ curBlock' = b /\ head' = 0 /\ data' = [data EXCEPT ![b] = <<>>]
        /\ lost' = (lost \/ (curBlock # NoBlock /\ DataSize > 0))
    BY <1>4 DEF GetBufInfo
  <2>2. b \in Blocks /\ b \notin Referenced
    BY <2>1 DEF Free
  <2> HIDE DEF b
  <2>3. data'[b] = <<>> /\ \A c \in Blocks : c # b => data'[c] = data[c]
    <3>1. data \in [Blocks -> Seq(Byte)]
      BY DEF Shape, TypeOK
    <3> QED BY ONLY <2>1, <2>2, <3>1, Zenon
  <2>4. Unread = <<>>
    <3>1. CASE curBlock = NoBlock
      BY <3>1 DEF Unread
    <3>2. CASE curBlock # NoBlock
      <4>1. curBlock \in Blocks
        BY <3>2 DEF Shape, TypeOK
      <4>2. ~(DataSize > 0)
        BY ONLY <2>1, <3>2, ~lost', Zenon
      <4>3. Len(Unread) = 0
        BY <4>1, <4>2, UnreadBytes
      <4>4. Unread # <<>> => Len(Unread) \in Nat \ {0}
        BY StreamParts, EmptySeq
      <4> QED BY <4>3, <4>4
    <3> QED BY <3>1, <3>2
  <2>5. Unread' = <<>>
    <3>1. Unread' = SubSeq(data'[b], 0 + 1, Len(data'[b]))
      <4>1. b # NoBlock
        BY <2>2, BlocksAssumption
      <4> QED BY ONLY <2>1, <4>1, Zenon DEF Unread
    <3>2. SubSeq(<<>>, 0 + 1, Len(<<>>)) = <<>>
      <4>1. Len(<<>>) \in Int /\ 0 + 1 \in Int /\ Len(<<>>) < 0 + 1
        BY EmptySeq
      <4> QED BY <4>1, SubSeqEmpty
    <3> QED BY ONLY <2>3, <3>1, <3>2, Zenon
  <2>6. Stream' = Stream
    BY ONLY <1>1, <2>4, <2>5, Zenon DEF Stream
  <2>7. StreamOK'
    BY <1>1, <2>6, StreamKept DEF Ordered
  <2>8. HandledOK'
    <3>1. ASSUME NEW q \in 1 .. Len(sesQue)
          PROVE  LET c == sesQue[q].block IN
                   /\ Len(data[c]) <= Len(data'[c]) /\ Len(data'[c]) \in Nat
                   /\ \A k \in 1 .. Len(data[c]) : data'[c][k] = data[c][k]
      <4> DEFINE c == sesQue[q].block
      <4>1. c \in Referenced
        <5>1. q \in DOMAIN sesQue
          BY LenProperties DEF Shape, TypeOK
        <5> QED BY <5>1 DEF Referenced
      <4>2. c \in Blocks
        <5>1. sesQue[q] \in Packet
          BY ElementOfSeq DEF Shape, TypeOK
        <5> QED BY <5>1 DEF Packet
      <4> HIDE DEF c
      <4>3. data'[c] = data[c]
        BY ONLY <2>2, <2>3, <4>1, <4>2, Zenon
      <4>4. Len(data[c]) \in Nat
        BY <4>2, LenProperties DEF Shape, TypeOK
      <4>5. Len(data[c]) <= Len(data[c])
        BY <4>4
      <4>6. /\ Len(data[c]) <= Len(data'[c]) /\ Len(data'[c]) \in Nat
            /\ \A k \in 1 .. Len(data[c]) : data'[c][k] = data[c][k]
        BY ONLY <4>3, <4>4, <4>5, Zenon
      <4> QED BY <4>6 DEF c
    <3>2. HandledOK /\ handled' = handled /\ sesQue' = sesQue
      BY <1>1 DEF Ordered
    <3> QED BY <3>1, <3>2, HandledKept
  <2> QED BY <1>2, <2>7, <2>8 DEF Ordered
<1> QED
  BY <1>3, <1>4

LEMMA OrderedRead ==
    ASSUME Shape, Ordered, NEW n, ReadSome(n)
    PROVE  Ordered'
<1> DEFINE a == SubSeq(wire, 1, n)
           b == SubSeq(wire, n + 1, Len(wire))
           d == data[curBlock] \o a
           F == FlattenSeq(bufs)
<1>1. /\ n \in 1 .. Len(wire) /\ data' = [data EXCEPT ![curBlock] = d] /\ wire' = b
      /\ UNCHANGED <<sent, sendQue, bufs, curBlock, head, sesQue, handled, answers, lost, open>>
  BY DEF ReadSome, sender, session
<1>2. curBlock \in Blocks
  BY DEF ReadSome, Shape, BlockOK
<1>3. F \in Seq(Byte) /\ Unread \in Seq(Byte) /\ wire \in Seq(Byte)
  BY StreamParts
<1>4. a \in Seq(Byte) /\ b \in Seq(Byte) /\ a \o b = wire
  BY <1>1, <1>3, Cut
<1>5. /\ data[curBlock] \in Seq(Byte) /\ Len(data[curBlock]) \in Nat
      /\ head \in 0 .. Len(data[curBlock])
      /\ Unread = SubSeq(data[curBlock], head + 1, Len(data[curBlock]))
  BY <1>2, UnreadBytes
<1> HIDE DEF a, b, F
<1>6. /\ d \in Seq(Byte) /\ Len(d) \in Nat /\ Len(data[curBlock]) <= Len(d)
      /\ \A k \in 1 .. Len(data[curBlock]) : d[k] = data[curBlock][k]
  <2>1. /\ d \in Seq(Byte) /\ Len(d) = Len(data[curBlock]) + Len(a) /\ Len(a) \in Nat
        /\ \A k \in 1 .. Len(data[curBlock]) + Len(a) :
             d[k] = IF k <= Len(data[curBlock]) THEN data[curBlock][k] ELSE a[k - Len(data[curBlock])]
    BY <1>4, <1>5, ConcatProperties, LenProperties
  <2>2. \A k \in 1 .. Len(data[curBlock]) : k \in 1 .. Len(data[curBlock]) + Len(a) /\ k <= Len(data[curBlock])
    BY <1>5, <2>1
  <2>3. Len(d) \in Nat /\ Len(data[curBlock]) <= Len(d)
    BY <1>5, <2>1
  <2> HIDE DEF d
  <2> QED BY ONLY <2>1, <2>2, <2>3, Zenon
<1>7. SubSeq(d, head + 1, Len(d)) = Unread \o a
  BY <1>4, <1>5, SuffixOfConcat
<1> HIDE DEF d
<1>8. data'[curBlock] = d /\ \A c \in Blocks : c # curBlock => data'[c] = data[c]
  <2>1. data \in [Blocks -> Seq(Byte)]
    BY DEF Shape, TypeOK
  <2> QED BY ONLY <1>1, <1>2, <2>1, Zenon
<1>9. Unread' = Unread \o a
  <2>1. curBlock # NoBlock
    BY <1>2, BlocksAssumption
  <2>2. Unread' = SubSeq(data'[curBlock], head + 1, Len(data'[curBlock]))
    BY ONLY <1>1, <2>1, Zenon DEF Unread
  <2> QED BY ONLY <1>7, <1>8, <2>2, Zenon
<1>10. Stream' = Stream
  <2>0. \A s, t, u \in Seq(Byte) : (s \o t) \o u = s \o (t \o u)
    BY ConcatAssociative
  <2>1. (Unread \o a) \o b = Unread \o (a \o b)
    BY ONLY <1>3, <1>4, <2>0, Zenon
  <2>2. wire' = b /\ FlattenSeq(bufs') = FlattenSeq(bufs)
    BY ONLY <1>1, Zenon
  <2> QED BY ONLY <1>4, <1>9, <2>1, <2>2, Zenon DEF Stream
<1>11. StreamOK'
  BY <1>1, <1>10, StreamKept DEF Ordered
<1>12. HandledOK'
  <2>1. ASSUME NEW q \in 1 .. Len(sesQue)
        PROVE  LET c == sesQue[q].block IN
                 /\ Len(data[c]) <= Len(data'[c]) /\ Len(data'[c]) \in Nat
                 /\ \A k \in 1 .. Len(data[c]) : data'[c][k] = data[c][k]
    <3> DEFINE c == sesQue[q].block
    <3>1. c \in Blocks
      <4>1. sesQue[q] \in Packet
        BY ElementOfSeq DEF Shape, TypeOK
      <4> QED BY <4>1 DEF Packet
    <3> HIDE DEF c
    <3>2. Len(data[c]) \in Nat
      BY <3>1, LenProperties DEF Shape, TypeOK
    <3>3. Len(data[c]) <= Len(data[c])
      BY <3>2
    <3>4. /\ Len(data[c]) <= Len(data'[c]) /\ Len(data'[c]) \in Nat
          /\ \A k \in 1 .. Len(data[c]) : data'[c][k] = data[c][k]
      BY ONLY <1>6, <1>8, <3>1, <3>2, <3>3, Zenon
    <3> QED BY <3>4 DEF c
  <2>2. HandledOK /\ handled' = handled /\ sesQue' = sesQue
    BY <1>1 DEF Ordered
  <2> QED BY <2>1, <2>2, HandledKept
<1>13. AnswersOK'
  BY <1>1, AnswersKept DEF Ordered
<1> QED
  BY <1>11, <1>12, <1>13 DEF Ordered

LEMMA OrderedDisconnect ==
    ASSUME Shape, Ordered, NEW side, Disconnect(side)
    PROVE  Ordered'
<1>1. /\ open' = open \ {side}
      /\ UNCHANGED <<sent, sendQue, bufs, wire, data, curBlock, head, rpc, sesQue, handled, answers, lost>>
  BY DEF Disconnect, sender, receiver, session
<1>2. Stream' = Stream
  BY <1>1, Zenon DEF Stream, Unread
<1>3. StreamOK'
  BY <1>1, <1>2, StreamKept DEF Ordered
<1>4. HandledOK'
  BY <1>1, Zenon DEF Ordered, HandledOK, HeaderAt
<1>5. AnswersOK'
  <2>1. "recv" \in open' => "recv" \in open
    BY <1>1
  <2> QED BY ONLY <1>1, <2>1, Ordered, Zenon DEF Ordered, AnswersOK
<1> QED
  BY <1>3, <1>4, <1>5 DEF Ordered

-----------------------------------------------------------------------------
(* Order: parsing                                                            *)

\* A header that lies in a block whole tells which packet it is.
LEMMA HeaderPacket ==
    ASSUME Shape, NEW i \in 1 .. Len(sent), NEW block \in Blocks, NEW pos \in Nat,
           HeaderAt(block, pos, i)
    PROVE  PacketAt(block, pos) = i
<1> DEFINE found == {x \in DOMAIN sent : \A k \in 1 .. HeaderSize :
                       pos + k \in DOMAIN data[block] /\ data[block][pos + k] = <<x, k - 1>>}
<1>1. DOMAIN sent = 1 .. Len(sent) /\ DOMAIN data[block] = 1 .. Len(data[block])
  BY LenProperties DEF Shape, TypeOK
<1>2. \A k \in 1 .. HeaderSize : pos + k \in DOMAIN data[block] /\ data[block][pos + k] = <<i, k - 1>>
  <2>1. ASSUME NEW k \in 1 .. HeaderSize
        PROVE  pos + k \in DOMAIN data[block] /\ data[block][pos + k] = <<i, k - 1>>
    <3> DEFINE x == pos + k
    <3>1. x <= Len(data[block]) /\ data[block][x] = <<i, k - 1>>
      BY <2>1, Zenon DEF HeaderAt
    <3>2. x \in Nat /\ x >= 1
      BY Constants
    <3>3. Len(data[block]) \in Nat
      BY LenProperties DEF Shape, TypeOK
    <3>4. x \in 1 .. Len(data[block])
      <4> HIDE DEF x
      <4> QED BY ONLY <3>1, <3>2, <3>3
    <3> HIDE DEF x
    <3>5. x \in DOMAIN data[block] /\ data[block][x] = <<i, k - 1>>
      BY ONLY <1>1, <3>1, <3>4, Zenon
    <3> QED BY ONLY <3>5, Zenon DEF x
  <2> QED BY <2>1
<1>3. i \in found
  BY ONLY <1>1, <1>2, i \in 1 .. Len(sent), Zenon
<1>4. ASSUME NEW x \in found PROVE x = i
  <2>1. 1 \in 1 .. HeaderSize
    BY Constants
  <2>2. data[block][pos + 1] = <<x, 1 - 1>> /\ data[block][pos + 1] = <<i, 1 - 1>>
    BY ONLY <1>2, <1>4, <2>1, Zenon
  <2>3. <<x, 1 - 1>> = <<i, 1 - 1>>
    BY ONLY <2>2, Zenon
  <2> QED BY <2>3
<1>5. PacketAt(block, pos) = IF found = {} THEN 0 ELSE CHOOSE x \in found : TRUE
  BY DEF PacketAt
<1> HIDE DEF found
<1> QED
  BY <1>3, <1>4, <1>5

LEMMA OrderedParse ==
    ASSUME Shape, Ordered, Parse
    PROVE  Ordered'
<1>1. UNCHANGED <<sent, sendQue, bufs, wire, data, curBlock, handled, answers, lost, open>>
  BY DEF Parse, sender
<1>2. AnswersOK'
  BY <1>1, AnswersKept DEF Ordered
<1>3. CASE UNCHANGED <<head, sesQue>>
  <2>1. Stream' = Stream
    BY <1>1, <1>3, Zenon DEF Stream, Unread
  <2>2. StreamOK'
    BY <1>1, <1>3, <2>1, StreamKept DEF Ordered
  <2>3. HandledOK'
    BY <1>1, <1>3, Zenon DEF Ordered, HandledOK, HeaderAt
  <2> QED BY <1>2, <2>2, <2>3 DEF Ordered
<1>4. ASSUME ~(DataSize < HeaderSize), NEW size \in SizesAt(curBlock, head), Complete(size),
             HandleMsg([block |-> curBlock, pos |-> head]), head' = head + size + HeaderSize
      PROVE  Ordered'
  <2> DEFINE i == Posted + 1
             m == Sizes[i]
             X == wire \o FlattenSeq(bufs)
             d == data[curBlock]
  <2>1. curBlock \in Blocks /\ curBlock # NoBlock
    BY BlocksAssumption DEF Parse, Shape, BlockOK
  <2>2. /\ d \in Seq(Byte) /\ Len(d) \in Nat /\ head \in 0 .. Len(d) /\ head \in Nat
        /\ Unread = SubSeq(d, head + 1, Len(d)) /\ Len(Unread) = DataSize /\ DataSize \in Nat
        /\ \A k \in 1 .. DataSize : Unread[k] = d[head + k]
    BY <2>1, UnreadBytes
  <2>3. DataSize = Len(d) - head /\ DataSize >= HeaderSize /\ HeaderSize \in Nat /\ HeaderSize >= 1
    BY <1>4, <2>2, Constants DEF DataSize
  <2>4. Unread \in Seq(Byte) /\ X \in Seq(Byte) /\ Stream = Unread \o X /\ Stream \in Seq(Byte)
    BY StreamParts
  <2> HIDE DEF d, X
  <2>5. /\ Len(Stream) = DataSize + Len(X) /\ Len(X) \in Nat
        /\ \A k \in 1 .. DataSize : Stream[k] = Unread[k]
    <3>1. /\ Len(Unread \o X) = Len(Unread) + Len(X) /\ Len(X) \in Nat
          /\ \A k \in 1 .. Len(Unread) + Len(X) :
               (Unread \o X)[k] = IF k <= Len(Unread) THEN Unread[k] ELSE X[k - Len(Unread)]
      BY <2>4, ConcatProperties, LenProperties
    <3>2. \A k \in 1 .. DataSize : k \in 1 .. Len(Unread) + Len(X) /\ k <= Len(Unread)
      BY <2>2, <3>1
    <3> QED BY ONLY <2>2, <2>4, <3>1, <3>2, Zenon
  <2>6. Stream # <<>>
    BY <2>3, <2>5
  <2>7. /\ Posted < Taken /\ i \in 1 .. Len(Sizes) /\ m \in Positive /\ m <= Len(Stream)
        /\ \A x \in 0 .. m - 1 : Stream[1 + x] = <<i, x>>
        /\ Whole(SubSeq(Stream, m + 1, Len(Stream)), i, Taken, Sizes)
    <3>1. /\ Posted \in Nat /\ Taken \in Nat /\ Sizes \in Seq(Positive)
          /\ Whole(Stream, Posted, Taken, Sizes)
      BY StreamParts DEF Ordered, StreamOK
    <3> QED BY <2>4, <2>6, <3>1, WholeDrop
  <2>8. i \in 1 .. Len(sent) /\ m = HeaderSize + sent[i].body /\ sent[i].body \in Nat
    <3>1. i \in 1 .. Len(sent)
      BY <2>7, StreamParts
    <3> HIDE DEF i
    <3> QED BY <3>1, StreamParts
  <2>9. HeaderAt(curBlock, head, i)
    <3>1. ASSUME NEW k \in 1 .. HeaderSize PROVE head + k <= Len(d) /\ d[head + k] = <<i, k - 1>>
      <4> HIDE DEF i, m
      <4>1. k \in 1 .. DataSize /\ head + k <= Len(d)
        BY <2>2, <2>3
      <4>2. d[head + k] = Stream[k]
        BY <2>2, <2>5, <4>1
      <4> DEFINE x == k - 1
      <4>3. x \in 0 .. m - 1 /\ 1 + x = k
        BY <2>3, <2>8
      <4> HIDE DEF x
      <4>4. Stream[k] = <<i, x>>
        BY ONLY <2>7, <4>3, Zenon
      <4> QED BY ONLY <4>1, <4>2, <4>4, Zenon DEF x
    <3> QED BY ONLY <3>1, Zenon DEF HeaderAt, d
  <2>10. PacketAt(curBlock, head) = i /\ i # 0
    <3>1. i # 0
      BY <2>8
    <3> HIDE DEF i
    <3>2. PacketAt(curBlock, head) = i
      BY <2>1, <2>2, <2>8, <2>9, HeaderPacket
    <3> QED BY <3>1, <3>2
  <2>11. size = sent[i].body
    <3> HIDE DEF i
    <3> QED BY <1>4, <2>10 DEF SizesAt
  <2> HIDE DEF i, m
  <2>12. m \in 0 .. DataSize /\ head' = head + m /\ m \in Nat
    <3>1. DataSize >= size + HeaderSize
      BY <1>4 DEF Complete
    <3>2. size \in Nat /\ m = HeaderSize + size
      BY <2>8, <2>11
    <3>3. m \in 0 .. DataSize /\ m \in Nat
      BY <2>2, <2>3, <3>1, <3>2
    <3>4. head' = head + m
      BY <1>4, <2>2, <2>3, <3>2
    <3> QED BY <3>3, <3>4
  <2>13. Unread' = SubSeq(Unread, m + 1, Len(Unread)) /\ Unread' \in Seq(Byte)
    <3>1. Unread' = SubSeq(d, head' + 1, Len(d))
      BY ONLY <1>1, <2>1, Zenon DEF Unread, d
    <3>2. SubSeq(Unread, m + 1, Len(Unread)) = SubSeq(d, head + m + 1, Len(d))
      BY <2>2, <2>3, <2>12, SuffixOfSuffix
    <3>3. SubSeq(Unread, m + 1, Len(Unread)) \in Seq(Byte)
      BY <2>2, <2>4, <2>12, Suffix
    <3> QED BY ONLY <2>12, <3>1, <3>2, <3>3, Zenon
  <2>14. Stream' = SubSeq(Stream, m + 1, Len(Stream))
    <3>1. SubSeq(Unread \o X, m + 1, Len(Unread \o X)) = SubSeq(Unread, m + 1, Len(Unread)) \o X
      BY <2>2, <2>4, <2>12, SuffixOfConcat
    <3>2. Stream' = Unread' \o X
      <4>1. \A s, t, u \in Seq(Byte) : (s \o t) \o u = s \o (t \o u)
        BY ConcatAssociative
      <4>2. wire \in Seq(Byte) /\ FlattenSeq(bufs) \in Seq(Byte)
        BY StreamParts
      <4>3. (Unread' \o wire) \o FlattenSeq(bufs) = Unread' \o (wire \o FlattenSeq(bufs))
        BY ONLY <2>13, <4>1, <4>2, Zenon
      <4>4. Stream' = (Unread' \o wire) \o FlattenSeq(bufs)
        BY ONLY <1>1, Zenon DEF Stream
      <4> QED BY ONLY <4>3, <4>4, Zenon DEF X
    <3> QED BY ONLY <2>4, <2>13, <3>1, <3>2, Zenon
  <2>15. /\ Len(sesQue') = Len(sesQue) + 1 /\ Len(sesQue) \in Nat
         /\ \A q \in 1 .. Len(sesQue) : sesQue'[q] = sesQue[q]
         /\ sesQue'[Len(sesQue) + 1] = [block |-> curBlock, pos |-> head]
    <3>1. [block |-> curBlock, pos |-> head] \in Packet
      BY <2>1, <2>2 DEF Packet
    <3>2. sesQue' = Append(sesQue, [block |-> curBlock, pos |-> head]) /\ sesQue \in Seq(Packet)
      BY <1>4 DEF HandleMsg, Shape, TypeOK
    <3> QED BY <3>1, <3>2, AppendProperties, LenProperties
  <2>16. StreamOK'
    <3>1. Posted' = i
      BY <1>1, <2>15, StreamParts DEF Posted, i
    <3>2. Taken' = Taken /\ Sizes' = Sizes
      BY <1>1, Zenon DEF Taken, Sizes
    <3> QED BY ONLY <2>7, <2>14, <3>1, <3>2, Zenon DEF StreamOK
  <2>17. HandledOK'
    <3>1. ASSUME NEW q \in 1 .. Len(sesQue')
          PROVE  HeaderAt(sesQue'[q].block, sesQue'[q].pos, Len(handled) + q)
      <4>1. CASE q = Len(sesQue) + 1
        <5>1. Len(handled) + q = i
          BY <2>15, <4>1, StreamParts DEF i, Posted
        <5>2. sesQue'[q].block = curBlock /\ sesQue'[q].pos = head
          BY <2>15, <4>1
        <5> QED BY ONLY <2>9, <5>1, <5>2, Zenon
      <4>2. CASE q # Len(sesQue) + 1
        <5>1. q \in 1 .. Len(sesQue)
          BY <2>15, <4>2
        <5> QED BY ONLY <2>15, <5>1, Ordered, Zenon DEF Ordered, HandledOK
      <4> QED BY <4>1, <4>2
    <3>2. \A q \in 1 .. Len(sesQue') : HeaderAt(sesQue[q].block, sesQue[q].pos, Len(handled) + q)'
      BY ONLY <1>1, <3>1, Zenon DEF HeaderAt
    <3> QED BY ONLY <1>1, <3>2, Ordered, Zenon DEF Ordered, HandledOK
  <2> QED BY <1>2, <2>16, <2>17 DEF Ordered
<1> QED
  BY <1>3, <1>4 DEF Parse

-----------------------------------------------------------------------------
(* Order: handling, and the theorems                                         *)

LEMMA OrderedHandle ==
    ASSUME Shape, Ordered, Handle
    PROVE  Ordered'
<1> DEFINE p == Head(sesQue)
           i == Len(handled) + 1
<1>1. /\ sesQue # <<>> /\ handled' = Append(handled, PacketAt(p.block, p.pos)) /\ sesQue' = Tail(sesQue)
      /\ \E t \in IF PacketAt(p.block, p.pos) = 0 THEN Types ELSE {sent[PacketAt(p.block, p.pos)].type} :
           Dispatch(PacketAt(p.block, p.pos), t)
      /\ UNCHANGED <<sent, sendQue, bufs, wire, data, curBlock, head, rpc, lost, open>>
  BY DEF Handle, sender, receiver
<1>2. /\ Len(sesQue') = Len(sesQue) - 1 /\ Len(sesQue) \in Nat /\ Len(sesQue) >= 1 /\ p = sesQue[1]
      /\ \A q \in 1 .. Len(sesQue') : sesQue'[q] = sesQue[q + 1]
  BY <1>1, HeadTailProperties, EmptySeq DEF Shape, TypeOK
<1>3. p.block \in Blocks /\ p.pos \in Nat
  <2>1. sesQue[1] \in Packet
    BY <1>2, ElementOfSeq DEF Shape, TypeOK
  <2> HIDE DEF p
  <2> QED BY <1>2, <2>1 DEF Packet
<1> HIDE DEF p
<1>4. Len(handled) \in Nat /\ i \in Nat /\ i \in 1 .. Len(sent) /\ i # 0 /\ Posted <= Taken
  <2>1. Posted <= Taken
    BY DEF Ordered, StreamOK, Whole
  <2> QED BY <1>2, <2>1, StreamParts DEF Posted
<1> HIDE DEF i
<1>5. PacketAt(p.block, p.pos) = i
  <2>1. 1 \in 1 .. Len(sesQue)
    BY <1>2
  <2>2. HeaderAt(p.block, p.pos, i)
    BY ONLY <1>2, <2>1, Ordered, Zenon DEF Ordered, HandledOK, i
  <2> QED BY <1>3, <1>4, <2>2, HeaderPacket
<1>6. /\ Len(handled') = i
      /\ \A q \in 1 .. Len(handled) : handled'[q] = handled[q]
      /\ handled'[i] = i
  <2>1. handled \in Seq(Nat) /\ handled' = Append(handled, i)
    BY <1>1, <1>5 DEF Shape, TypeOK
  <2> QED BY <1>4, <2>1, AppendProperties DEF i
<1>7. StreamOK'
  <2>1. Posted' = Posted
    BY <1>2, <1>4, <1>6 DEF Posted, i
  <2>2. Stream' = Stream /\ Taken' = Taken /\ Sizes' = Sizes
    BY <1>1, Zenon DEF Stream, Unread, Taken, Sizes
  <2> QED BY ONLY <2>1, <2>2, Ordered, Zenon DEF Ordered, StreamOK
<1>8. HandledOK'
  <2>1. ASSUME NEW q \in 1 .. Len(handled') PROVE handled'[q] = q
    <3>1. q = i \/ q \in 1 .. Len(handled)
      BY <1>4, <1>6, <2>1 DEF i
    <3>2. \A x \in 1 .. Len(handled) : handled[x] = x
      BY Zenon DEF Ordered, HandledOK
    <3> QED BY ONLY <1>6, <3>1, <3>2, Zenon
  <2>2. ASSUME NEW q \in 1 .. Len(sesQue')
        PROVE  HeaderAt(sesQue'[q].block, sesQue'[q].pos, Len(handled') + q)
    <3> DEFINE x == q + 1
    <3>1. x \in 1 .. Len(sesQue) /\ Len(handled) + x = Len(handled') + q
      BY <1>2, <1>4, <1>6, <2>2 DEF i
    <3>2. sesQue'[q] = sesQue[x]
      BY <1>2, <2>2
    <3> HIDE DEF x
    <3> QED BY ONLY <3>1, <3>2, Ordered, Zenon DEF Ordered, HandledOK
  <2>3. \A q \in 1 .. Len(sesQue') : HeaderAt(sesQue[q].block, sesQue[q].pos, Len(handled) + q)'
    BY ONLY <1>1, <2>2, Zenon DEF HeaderAt
  <2> QED BY ONLY <2>1, <2>3, Zenon DEF HandledOK
<1>9. AnswersOK'
  <2>1. PICK n \in 0 .. Len(handled) :
          /\ \A x \in Nat : (\E j \in 1 .. Len(answers) : answers[j] = x)
                            <=> (x \in 1 .. n /\ Handles(sent[x].type))
          /\ "recv" \in open => n = Len(handled)
    BY Zenon DEF Ordered, AnswersOK
  <2>2. \A j, k \in 1 .. Len(answers) : j < k => answers[j] < answers[k]
    BY Zenon DEF Ordered, AnswersOK
  <2>3. Dispatch(i, sent[i].type)
    BY ONLY <1>1, <1>4, <1>5, Zenon
  <2>4. answers \in Seq(Nat) /\ Len(answers) \in Nat /\ \A j \in 1 .. Len(answers) : answers[j] \in Nat
    BY ElementOfSeq, LenProperties DEF Shape, TypeOK
  <2>5. sent' = sent /\ open' = open
    BY <1>1
  <2>6. CASE Handles(sent[i].type) /\ "recv" \in open
    <3>1. /\ Len(answers') = Len(answers) + 1
          /\ \A j \in 1 .. Len(answers) : answers'[j] = answers[j]
          /\ answers'[Len(answers) + 1] = i
      <4>1. answers' = Append(answers, i)
        BY <2>3, <2>6 DEF Dispatch, Answer
      <4> QED BY <1>4, <2>4, <4>1, AppendProperties
    <3>2. n = Len(handled) /\ i = n + 1 /\ n \in Nat
      BY <1>4, <2>1, <2>6 DEF i
    <3>3. \A j \in 1 .. Len(answers) : answers[j] \in 1 .. n
      BY ONLY <2>1, <2>4, Zenon
    <3>4. ASSUME NEW j \in 1 .. Len(answers'), NEW k \in 1 .. Len(answers'), j < k
          PROVE  answers'[j] < answers'[k]
      <4>1. j \in 1 .. Len(answers)
        BY <2>4, <3>1, <3>4
      <4>2. CASE k = Len(answers) + 1
        <5>1. answers[j] < i
          BY <3>2, <3>3, <4>1
        <5> QED BY ONLY <3>1, <4>1, <4>2, <5>1, Zenon
      <4>3. CASE k # Len(answers) + 1
        <5>1. k \in 1 .. Len(answers)
          BY <2>4, <3>1, <4>3
        <5> QED BY ONLY <2>2, <3>1, <3>4, <4>1, <5>1, Zenon
      <4> QED BY <4>2, <4>3
    <3>5. ASSUME NEW x \in Nat
          PROVE  (\E j \in 1 .. Len(answers') : answers'[j] = x)
                 <=> (x \in 1 .. i /\ Handles(sent[x].type))
      <4>1. (\E j \in 1 .. Len(answers') : answers'[j] = x)
            <=> (x = i \/ \E j \in 1 .. Len(answers) : answers[j] = x)
        <5>1. \A j \in 1 .. Len(answers') : j \in 1 .. Len(answers) \/ j = Len(answers) + 1
          BY <2>4, <3>1
        <5>2. Len(answers) + 1 \in 1 .. Len(answers') /\ \A j \in 1 .. Len(answers) : j \in 1 .. Len(answers')
          BY <2>4, <3>1
        <5> QED BY ONLY <3>1, <5>1, <5>2, Zenon
      <4>2. x \in 1 .. i <=> (x = i \/ x \in 1 .. n)
        BY <1>4, <3>2
      <4> QED BY ONLY <2>1, <2>6, <4>1, <4>2, Zenon
    <3>6. i \in 0 .. Len(handled') /\ i = Len(handled')
      BY <1>4, <1>6
    <3> QED BY ONLY <2>5, <3>4, <3>5, <3>6, Zenon DEF AnswersOK
  <2>7. CASE ~(Handles(sent[i].type) /\ "recv" \in open)
    <3>1. answers' = answers
      BY <2>3, <2>7, Zenon DEF Dispatch, Answer
    <3>2. CASE "recv" \in open
      <4>1. n = Len(handled) /\ i = n + 1 /\ n \in Nat
        BY <1>4, <2>1, <3>2 DEF i
      <4>2. ~Handles(sent[i].type)
        BY <2>7, <3>2
      <4>3. \A x \in Nat : x \in 1 .. i <=> (x = i \/ x \in 1 .. n)
        BY <1>4, <4>1
      <4>4. \A x \in Nat : (\E j \in 1 .. Len(answers') : answers'[j] = x)
                           <=> (x \in 1 .. i /\ Handles(sent'[x].type))
        BY ONLY <2>1, <2>5, <3>1, <4>2, <4>3, Zenon
      <4>5. i \in 0 .. Len(handled') /\ i = Len(handled')
        BY <1>4, <1>6
      <4> QED BY ONLY <2>2, <3>1, <4>4, <4>5, Zenon DEF AnswersOK
    <3>3. CASE "recv" \notin open
      <4>1. n \in 0 .. Len(handled')
        BY <1>4, <1>6, <2>1 DEF i
      <4> QED BY ONLY <2>1, <2>2, <2>5, <3>1, <3>3, <4>1, Zenon DEF AnswersOK
    <3> QED BY <3>2, <3>3
  <2> QED BY <2>6, <2>7
<1> QED
  BY <1>7, <1>8, <1>9 DEF Ordered

LEMMA OrderedStep ==
    ASSUME Shape, Shape', OrderOK, [Next]_vars
    PROVE  OrderOK'
<1>1. lost => lost'
  <2>1. CASE GetBufInfo
    BY <2>1 DEF GetBufInfo
  <2>2. CASE UNCHANGED vars
    BY <2>2, Zenon DEF vars
  <2>3. CASE ~GetBufInfo /\ Next
    BY <2>3 DEF Next, Send, TakePacket, WriteSome, ReadSome, Parse, Disconnect, Handle
  <2> QED BY <2>1, <2>2, <2>3
<1>2. SUFFICES ASSUME ~lost' PROVE Ordered'
  BY Zenon DEF OrderOK, Ordered
<1>3. Ordered
  BY ONLY <1>1, <1>2, OrderOK, Zenon DEF OrderOK, Ordered
<1>4. CASE \E m \in Messages : Send(m)
  BY <1>3, <1>4, OrderedSend
<1>5. CASE TakePacket
  BY <1>3, <1>5, OrderedTake
<1>6. CASE \E n \in 1 .. PacketSize : WriteSome(n)
  BY <1>3, <1>6, OrderedWrite
<1>7. CASE GetBufInfo
  BY <1>2, <1>3, <1>7, OrderedGet
<1>8. CASE \E n \in 1 .. PacketSize : ReadSome(n)
  BY <1>3, <1>8, OrderedRead
<1>9. CASE Parse
  BY <1>3, <1>9, OrderedParse
<1>10. CASE \E side \in Sides : Disconnect(side)
  BY <1>3, <1>10, OrderedDisconnect
<1>11. CASE Handle
  BY <1>3, <1>11, OrderedHandle
<1>12. CASE UNCHANGED vars
  <2>1. UNCHANGED <<sent, sendQue, bufs, wire, data, curBlock, head, rpc, sesQue, handled, answers, lost, open>>
    BY <1>12, Zenon DEF vars, sender, receiver, session
  <2>2. Stream' = Stream
    BY <2>1, Zenon DEF Stream, Unread
  <2>3. StreamOK'
    BY <1>3, <2>1, <2>2, StreamKept DEF Ordered
  <2>4. HandledOK'
    BY <1>3, <2>1, Zenon DEF Ordered, HandledOK, HeaderAt
  <2>5. AnswersOK'
    BY <1>3, <2>1, AnswersKept DEF Ordered
  <2> QED BY <2>3, <2>4, <2>5 DEF Ordered
<1> QED
  BY ONLY <1>4, <1>5, <1>6, <1>7, <1>8, <1>9, <1>10, <1>11, <1>12, [Next]_vars, Zenon DEF Next

LEMMA Invariant == Spec => []IInv
<1>1. Init => IInv
  BY ShapeInit, OrderedInit, Zenon DEF IInv, Shape, OrderOK, Ordered
<1>2. IInv /\ [Next]_vars => IInv'
  <2> SUFFICES ASSUME IInv, [Next]_vars PROVE IInv'
    OBVIOUS
  <2>1. Shape /\ OrderOK
    BY Zenon DEF IInv, Shape
  <2>2. Shape'
    BY <2>1, ShapeStep
  <2>3. OrderOK'
    BY <2>1, <2>2, OrderedStep
  <2> QED BY ONLY <2>2, <2>3, Zenon DEF IInv, Shape
<1> QED
  BY <1>1, <1>2, PTL DEF Spec

\* The buffer handed to AsyncReadSome lies inside the block that NetworkMessage
\* holds, whatever was read before (DataBlock::Update never refuses).
THEOREM ReadsInsideTheBlock == Spec => []ReadFits
<1>1. IInv => ReadFits
  BY DEF IInv, BlockOK, ReadFits
<1> QED
  BY <1>1, Invariant, PTL

LEMMA OrderedPackets ==
    ASSUME Shape, Ordered
    PROVE  PacketsInOrder
<1> DEFINE w == [i \in DOMAIN sesQue |-> PacketAt(sesQue[i].block, sesQue[i].pos)]
           h == handled \o w
           t == [i \in DOMAIN sent |-> i]
<1>1. /\ Len(sent) \in Nat /\ Len(handled) \in Nat /\ Len(sesQue) \in Nat
      /\ Len(handled) + Len(sesQue) <= Len(sent)
      /\ DOMAIN sesQue = 1 .. Len(sesQue) /\ DOMAIN sent = 1 .. Len(sent)
  <2>1. Posted <= Taken
    BY DEF Ordered, StreamOK, Whole
  <2>2. DOMAIN sesQue = 1 .. Len(sesQue) /\ DOMAIN sent = 1 .. Len(sent)
    BY LenProperties DEF Shape, TypeOK
  <2> QED BY <2>1, <2>2, StreamParts DEF Posted
<1>2. ASSUME NEW q \in 1 .. Len(sesQue) PROVE PacketAt(sesQue[q].block, sesQue[q].pos) = Len(handled) + q
  <2>1. HeaderAt(sesQue[q].block, sesQue[q].pos, Len(handled) + q)
    BY ONLY <1>2, Ordered, Zenon DEF Ordered, HandledOK
  <2>2. sesQue[q] \in Packet
    BY ElementOfSeq DEF Shape, TypeOK
  <2>3. sesQue[q].block \in Blocks /\ sesQue[q].pos \in Nat
    BY <2>2 DEF Packet
  <2>4. Len(handled) + q \in 1 .. Len(sent)
    BY <1>1
  <2> QED BY <2>1, <2>3, <2>4, HeaderPacket
<1>3. \A n \in Nat : \A f \in [1 .. n -> Nat] : f \in Seq(Nat) /\ Len(f) = n
  OBVIOUS
<1>4. w \in Seq(Nat) /\ Len(w) = Len(sesQue) /\ \A q \in 1 .. Len(sesQue) : w[q] = Len(handled) + q
  <2>1. \A q \in 1 .. Len(sesQue) : Len(handled) + q \in Nat
    BY <1>1
  <2>2. w \in [1 .. Len(sesQue) -> Nat] /\ \A q \in 1 .. Len(sesQue) : w[q] = Len(handled) + q
    BY ONLY <1>1, <1>2, <2>1, Zenon
  <2> QED BY ONLY <1>1, <1>3, <2>2, Zenon
<1>5. t \in Seq(Nat) /\ Len(t) = Len(sent) /\ \A q \in 1 .. Len(sent) : t[q] = q
  <2>1. \A q \in 1 .. Len(sent) : q \in Nat
    BY <1>1
  <2>2. t \in [1 .. Len(sent) -> Nat] /\ \A q \in 1 .. Len(sent) : t[q] = q
    BY ONLY <1>1, <2>1, Zenon
  <2> QED BY ONLY <1>1, <1>3, <2>2, Zenon
<1> HIDE DEF w, t
<1>6. h \in Seq(Nat) /\ Len(h) = Len(handled) + Len(sesQue) /\ \A q \in 1 .. Len(h) : h[q] = q
  <2>1. handled \in Seq(Nat) /\ \A q \in 1 .. Len(handled) : handled[q] = q
    BY DEF Shape, TypeOK, Ordered, HandledOK
  <2>2. /\ h \in Seq(Nat) /\ Len(h) = Len(handled) + Len(w)
        /\ \A q \in 1 .. Len(handled) + Len(w) : h[q] = IF q <= Len(handled) THEN handled[q] ELSE w[q - Len(handled)]
    BY <1>4, <2>1, ConcatProperties
  <2> HIDE DEF h
  <2>3. ASSUME NEW q \in 1 .. Len(h) PROVE h[q] = q
    <3>1. CASE q <= Len(handled)
      <4>1. q \in 1 .. Len(handled) /\ q \in 1 .. Len(handled) + Len(w)
        BY <1>1, <1>4, <2>2, <3>1
      <4> QED BY ONLY <2>1, <2>2, <3>1, <4>1, Zenon
    <3>2. CASE ~(q <= Len(handled))
      <4> DEFINE x == q - Len(handled)
      <4>1. x \in 1 .. Len(sesQue) /\ q \in 1 .. Len(handled) + Len(w) /\ Len(handled) + x = q
        BY <1>1, <1>4, <2>2, <3>2
      <4>2. h[q] = w[x]
        BY ONLY <2>2, <3>2, <4>1, Zenon
      <4> HIDE DEF x
      <4>3. w[x] = Len(handled) + x
        BY <1>4, <4>1
      <4> QED BY ONLY <4>1, <4>2, <4>3, Zenon
    <3> QED BY <3>1, <3>2
  <2> QED BY <1>4, <2>2, <2>3
<1> HIDE DEF h
<1>7. Len(h) \in Nat /\ Len(h) <= Len(t)
  BY <1>1, <1>5, <1>6
<1>8. SubSeq(h, 1, Len(h)) = SubSeq(t, 1, Len(h))
  <2>1. SubSeq(h, 1, Len(h)) = h
    BY <1>6, SubSeqFull
  <2>2. 1 \in Int /\ Len(h) \in Int /\ \A q \in 1 .. Len(h) : t[q] \in Nat /\ q \in 1 .. Len(t) /\ t[q] = q
    BY <1>1, <1>5, <1>6, <1>7
  <2>3. /\ SubSeq(t, 1, Len(h)) \in Seq(Nat)
        /\ Len(SubSeq(t, 1, Len(h))) = IF 1 <= Len(h) THEN Len(h) - 1 + 1 ELSE 0
        /\ \A q \in 1 .. Len(h) - 1 + 1 : SubSeq(t, 1, Len(h))[q] = t[1 + q - 1]
    BY <2>2, SubSeqProperties
  <2>4. Len(SubSeq(t, 1, Len(h))) = Len(h)
    BY <1>7, <2>3
  <2>5. ASSUME NEW q \in 1 .. Len(h) PROVE h[q] = SubSeq(t, 1, Len(h))[q]
    <3>1. q \in 1 .. Len(h) - 1 + 1 /\ 1 + q - 1 = q
      BY <1>7
    <3>2. SubSeq(t, 1, Len(h))[q] = t[q]
      BY <2>3, <3>1
    <3> QED BY ONLY <1>6, <2>2, <2>5, <3>2, Zenon
  <2>6. h = SubSeq(t, 1, Len(h))
    BY <1>6, <2>3, <2>4, <2>5, SeqEqual
  <2> QED BY ONLY <2>1, <2>6, Zenon
<1> QED
  BY ONLY <1>7, <1>8, Zenon DEF PacketsInOrder, IsPrefix, h, w, t

LEMMA OrderedAnswers ==
    ASSUME Shape, Ordered
    PROVE  AnswersInOrder
<1>1. /\ answers \in Seq(Nat) /\ DOMAIN answers = 1 .. Len(answers)
      /\ handled \in Seq(Nat) /\ Len(handled) \in Nat
      /\ \A q \in 1 .. Len(handled) : handled[q] = q
  BY LenProperties DEF Shape, TypeOK, Ordered, HandledOK
<1>2. \A j, k \in DOMAIN answers : j < k => answers[j] < answers[k]
  BY ONLY <1>1, Ordered, Zenon DEF Ordered, AnswersOK
<1>3. PICK n \in 0 .. Len(handled) :
        /\ \A x \in Nat : (\E j \in 1 .. Len(answers) : answers[j] = x)
                          <=> (x \in 1 .. n /\ Handles(sent[x].type))
        /\ "recv" \in open => n = Len(handled)
  BY Zenon DEF Ordered, AnswersOK
<1> DEFINE s == SubSeq(handled, 1, n)
<1>4. Range(s) = 1 .. n
  <2>1. n \in Nat /\ 1 \in Int /\ n \in Int /\ \A q \in 1 .. n : handled[q] \in Nat /\ handled[q] = q
    BY <1>1, ElementOfSeq
  <2>2. /\ s \in Seq(Nat) /\ Len(s) = IF 1 <= n THEN n - 1 + 1 ELSE 0
        /\ \A q \in 1 .. n - 1 + 1 : s[q] = handled[1 + q - 1]
    BY <2>1, SubSeqProperties
  <2> HIDE DEF s
  <2>3. Len(s) = n
    BY <2>1, <2>2
  <2>4. ASSUME NEW q \in 1 .. n PROVE s[q] = q
    <3>1. q \in 1 .. n - 1 + 1 /\ 1 + q - 1 = q
      BY <2>1
    <3>2. s[q] = handled[q]
      BY <2>2, <3>1
    <3> QED BY ONLY <2>1, <2>4, <3>2, Zenon
  <2>5. DOMAIN s = 1 .. n
    BY <2>2, <2>3, LenProperties
  <2> QED BY ONLY <2>4, <2>5, Zenon DEF Range
<1>5. Range(answers) = {i \in Range(s) : Handles(sent[i].type)}
  <2>1. \A j \in 1 .. Len(answers) : answers[j] \in Nat
    BY <1>1, ElementOfSeq
  <2>2. \A i \in 1 .. n : i \in Nat
    OBVIOUS
  <2> HIDE DEF s
  <2>3. \A i : i \in Range(answers) <=> \E j \in 1 .. Len(answers) : answers[j] = i
    BY ONLY <1>1, Zenon DEF Range
  <2>4. \A i : i \in Range(answers) => i \in Nat
    BY ONLY <2>1, <2>3, Zenon
  <2>5. \A i : i \in Range(answers) <=> i \in 1 .. n /\ Handles(sent[i].type)
    BY ONLY <1>3, <2>2, <2>3, <2>4, Zenon
  <2> QED BY ONLY <1>4, <2>5, Zenon
<1> QED
  BY ONLY <1>2, <1>3, <1>5, Zenon DEF AnswersInOrder

\* However Send's writes and Recv's reads cut the stream, packets are parsed,
\* posted and handled in the order of Connection::Send, with their bytes intact, and
\* the registered handler answers them in that order; the one exception is the copy
\* in GetBufInfo, which lost records.
THEOREM PacketsArriveInOrder == Spec => []InOrder
<1>1. IInv => InOrder
  BY OrderedPackets, OrderedAnswers, Zenon DEF IInv, Shape, OrderOK, Ordered, InOrder
<1> QED
  BY <1>1, Invariant, PTL
=============================================================================
