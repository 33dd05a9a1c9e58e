--------------------------- MODULE ProtocolProofs ---------------------------
(***************************************************************************)
(* Whatever sizes the sockets cut the bytes of Protocol into, the server   *)
(* serves what the client asked, in that order and each once, and the      *)
(* client parses what the server wrote, in that order, until its buffer    *)
(* loses bytes; and what lets it lose them.  What a caller decodes is the  *)
(* entity it asked for, and a creature is made as the call describes it.   *)
(* For any numbers of requests and connections, any entities, soils and    *)
(* calls of the right kind.                                                *)
(*                                                                         *)
(* The argument, from below: digits read back are the number they were     *)
(* made from, with its sign; fields written into an array apart from each  *)
(* other are all still there; so an entity, a list of pieces of soil and   *)
(* a blueprint are read as they were serialised.  A parser makes of a      *)
(* frame's bytes that frame; the loop that takes frames off a buffer takes *)
(* off a line of frames those that are whole, wherever the bytes that      *)
(* arrived end; what the interpreters and the adapters build are frames    *)
(* that can be written, and the response to a call's request is one its    *)
(* caller decodes to what it asked for.  The invariant then says that the  *)
(* bytes in a buffer and on the way to it are the line of the frames that  *)
(* were written and not yet parsed, and that every response bears the id   *)
(* of a call and means its answer.                                         *)
(***************************************************************************)
EXTENDS Protocol, Tallies, TLAPS

-----------------------------------------------------------------------------
(* Numbers and their digits. *)

\* g goes on from a by one step after another.
Goes(g, S, a, G) == g \in [Nat -> S] /\ g[0] = a /\ \A k \in Nat : g[k + 1] = G[k][g[k]]

\* Iteration exists.
LEMMA Iterates ==
    ASSUME NEW S, NEW a \in S, NEW G \in [Nat -> [S -> S]]
    PROVE  \E g : Goes(g, S, a, G)
<1> DEFINE Upto(h, n) == /\ h \in [Nat -> S] /\ h[0] = a
                         /\ \A k \in Nat : k < n => h[k + 1] = G[k][h[k]]
           T == {n \in Nat : \E h : Upto(h, n)}
<1>1. 0 \in T
  <2>1. Upto([k \in Nat |-> a], 0)
    OBVIOUS
  <2> QED BY <2>1
<1>2. ASSUME NEW n \in T PROVE n + 1 \in T
  <2>1. n \in Nat /\ n + 1 \in Nat
    OBVIOUS
  <2>2. PICK h : Upto(h, n)
    OBVIOUS
  <2> DEFINE x == G[n][h[n]]
             g == [k \in Nat |-> IF k = n + 1 THEN x ELSE h[k]]
  <2>3. x \in S
    BY <2>1, <2>2
  <2>4. g \in [Nat -> S] /\ g[0] = a
    BY <2>1, <2>2, <2>3
  <2>5. ASSUME NEW k \in Nat, k < n + 1 PROVE g[k + 1] = G[k][g[k]]
    <3>1. k # n + 1 /\ g[k] = h[k]
      BY <2>1, <2>5
    <3>2. CASE k = n
      BY <3>1, <3>2, <2>1
    <3>3. CASE k # n
      <4>1. k < n /\ k + 1 # n + 1 /\ k + 1 \in Nat
        BY <2>1, <2>5, <3>3
      <4>2. g[k + 1] = h[k + 1] /\ h[k + 1] = G[k][h[k]]
        BY <2>2, <4>1
      <4> QED BY <3>1, <4>2
    <3> QED BY <3>2, <3>3
  <2>6. Upto(g, n + 1)
    <3> HIDE DEF g
    <3> QED BY <2>4, <2>5
  <2> QED BY <2>1, <2>6
<1>3. T = Nat
  <2>1. T \in SUBSET Nat
    OBVIOUS
  <2> HIDE DEF T
  <2> QED BY <1>1, <1>2, <2>1, NaturalInduction
<1> DEFINE H(n) == CHOOSE h : Upto(h, n)
<1>4. \A n \in Nat : Upto(H(n), n)
  BY <1>3
<1>5. ASSUME NEW h, NEW i, NEW n \in Nat, NEW m \in Nat, n <= m, Upto(h, n), Upto(i, m)
      PROVE  h[n] = i[n]
  <2> DEFINE U == {k \in Nat : k <= n => h[k] = i[k]}
  <2>1. 0 \in U
    BY <1>5
  <2>2. ASSUME NEW k \in U PROVE k + 1 \in U
    <3>1. CASE k + 1 <= n
      <4>1. k \in Nat /\ k < n /\ k < m /\ k <= n
        BY <1>5, <3>1
      <4>2. h[k] = i[k]
        BY <4>1
      <4>3. h[k + 1] = G[k][h[k]] /\ i[k + 1] = G[k][i[k]]
        BY <1>5, <4>1
      <4> QED BY <4>1, <4>2, <4>3
    <3>2. CASE ~ (k + 1 <= n)
      BY <3>2
    <3> QED BY <3>1, <3>2
  <2>3. U = Nat
    <3>1. U \in SUBSET Nat
      OBVIOUS
    <3> HIDE DEF U
    <3> QED BY <2>1, <2>2, <3>1, NaturalInduction
  <2>4. n \in U
    BY <2>3
  <2> QED BY <2>4
<1> DEFINE g == [n \in Nat |-> H(n)[n]]
<1>6. g \in [Nat -> S] /\ g[0] = a
  <2> HIDE DEF H
  <2> QED BY <1>4
<1>7. ASSUME NEW k \in Nat PROVE g[k + 1] = G[k][g[k]]
  <2> HIDE DEF H, T
  <2>1. k + 1 \in Nat /\ k <= k + 1 /\ k < k + 1
    OBVIOUS
  <2>2. Upto(H(k), k) /\ Upto(H(k + 1), k + 1)
    BY <1>4, <2>1
  <2>3. H(k)[k] = H(k + 1)[k]
    <3> HIDE DEF Upto
    <3> QED BY <1>5, <2>1, <2>2
  <2>4. H(k + 1)[k + 1] = G[k][H(k + 1)[k]]
    BY <2>1, <2>2
  <2> QED BY <2>1, <2>3, <2>4
<1> QED
  <2> HIDE DEF g
  <2> QED BY <1>6, <1>7 DEF Goes

\* The provers take an interval of numbers for the list of its members.
LEMMA ByteIs == \A b : b \in Byte <=> b \in Nat /\ b <= 255
  BY DEF Byte

\* The bytes of a number: the last is its remainder, those before it are the
\* bytes of what is left.
LEMMA DigitsAre ==
    /\ \A v \in Int : Digits[0][v] = <<>>
    /\ \A w \in Nat, v \in Int : Digits[w + 1][v] = Append(Digits[w][v \div 256], v % 256)
    /\ \A w \in Nat, v \in Int : Digits[w][v] \in Bytes /\ Len(Digits[w][v]) = w
<1> DEFINE S == [Int -> Bytes]
           G == [w \in Nat |-> [d \in S |-> [v \in Int |-> Append(d[v \div 256], v % 256)]]]
           a == [v \in Int |-> <<>>]
<1>1. a \in S
  BY DEF Bytes
<1>2. \A v \in Int : v \div 256 \in Int /\ v % 256 \in Byte
  BY ByteIs
<1>3. G \in [Nat -> [S -> S]]
  BY <1>2 DEF Bytes
<1>4. PICK D : D \in [Nat -> S] /\ D[0] = a /\ \A w \in Nat : D[w + 1] = G[w][D[w]]
  <2> HIDE DEF S, G, a
  <2>1. \E g : Goes(g, S, a, G)
    BY <1>1, <1>3, Iterates
  <2> QED BY <2>1 DEF Goes
<1> DEFINE E(g) == [w \in Nat |-> [v \in Int |-> IF w = 0 THEN <<>> ELSE Append(g[w - 1][v \div 256], v % 256)]]
           g == [w \in Nat |-> [v \in Int |-> D[w][v]]]
<1>5. ASSUME NEW w \in Nat, NEW v \in Int PROVE D[w + 1][v] = Append(D[w][v \div 256], v % 256)
  <2>1. D[w] \in S /\ D[w + 1] = G[w][D[w]]
    BY <1>4
  <2>2. \A d \in S : G[w][d][v] = Append(d[v \div 256], v % 256)
    BY DEF S
  <2> HIDE DEF S, G
  <2> QED BY <2>1, <2>2, ZenonT(90)
<1>6. g = E(g)
  <2>1. ASSUME NEW w \in Nat, NEW v \in Int
        PROVE  D[w][v] = IF w = 0 THEN <<>> ELSE Append(g[w - 1][v \div 256], v % 256)
    <3>1. CASE w = 0
      BY <1>4, <3>1
    <3>2. CASE w # 0
      <4>1. PICK x \in Nat : x + 1 = w /\ w - 1 = x
        BY <3>2
      <4>2. D[w][v] = Append(D[w - 1][v \div 256], v % 256)
        <5>1. D[x + 1][v] = Append(D[x][v \div 256], v % 256)
          BY <1>5, ZenonT(60)
        <5> QED BY <4>1, <5>1, ZenonT(90)
      <4>3. g[w - 1][v \div 256] = D[w - 1][v \div 256]
        <5>1. w - 1 \in Nat
          BY <4>1
        <5> QED BY <1>2, <5>1
      <4> QED BY <3>2, <4>2, <4>3
    <3> QED BY <3>1, <3>2
  <2> QED BY <2>1, ZenonT(90)
<1>7. Digits = E(Digits)
  <2>1. Digits = CHOOSE h : h = E(h)
    BY DEF Digits
  <2> HIDE DEF E, g
  <2> QED BY <1>6, <2>1
<1>8. \A w \in Nat, v \in Int : Digits[w][v] = IF w = 0 THEN <<>> ELSE Append(Digits[w - 1][v \div 256], v % 256)
  <2> DEFINE d == Digits
  <2>1. d = E(d)
    BY <1>7
  <2> HIDE DEF d, g
  <2>2. ASSUME NEW w \in Nat, NEW v \in Int
        PROVE  d[w][v] = IF w = 0 THEN <<>> ELSE Append(d[w - 1][v \div 256], v % 256)
    <3>1. E(d)[w] = [u \in Int |-> IF w = 0 THEN <<>> ELSE Append(d[w - 1][u \div 256], u % 256)]
      BY Zenon
    <3>2. d[w] = [u \in Int |-> IF w = 0 THEN <<>> ELSE Append(d[w - 1][u \div 256], u % 256)]
      <4> HIDE DEF E
      <4> QED BY <2>1, <3>1
    <3> QED BY <3>2, ZenonT(90)
  <2> QED BY <2>2 DEF d
<1> HIDE DEF E, g, G, S, a
<1>9. \A v \in Int : Digits[0][v] = <<>>
  BY <1>8
<1>10. \A w \in Nat, v \in Int : Digits[w + 1][v] = Append(Digits[w][v \div 256], v % 256)
  <2>1. ASSUME NEW w \in Nat, NEW v \in Int PROVE Digits[w + 1][v] = Append(Digits[w][v \div 256], v % 256)
    <3>1. PICK x \in Nat : x = w + 1 /\ x # 0 /\ x - 1 = w
      OBVIOUS
    <3>2. Digits[x][v] = Append(Digits[x - 1][v \div 256], v % 256)
      <4>1. x \in Nat /\ v \in Int
        BY <3>1
      <4>2. Digits[x][v] = IF x = 0 THEN <<>> ELSE Append(Digits[x - 1][v \div 256], v % 256)
        BY <1>8, <4>1, ZenonT(90)
      <4> QED BY <3>1, <4>2, Zenon
    <3> QED BY <3>1, <3>2
  <2> QED BY <2>1
<1> DEFINE T == {w \in Nat : \A v \in Int : Digits[w][v] \in Bytes /\ Len(Digits[w][v]) = w}
<1>11. 0 \in T
  <2>1. <<>> \in Bytes /\ Len(<<>>) = 0
    BY DEF Bytes
  <2> QED BY <1>9, <2>1
<1>12. ASSUME NEW w \in T PROVE w + 1 \in T
  <2>1. ASSUME NEW v \in Int PROVE Digits[w + 1][v] \in Bytes /\ Len(Digits[w + 1][v]) = w + 1
    <3>1. Digits[w][v \div 256] \in Bytes /\ Len(Digits[w][v \div 256]) = w /\ v % 256 \in Byte
      BY <1>2
    <3>2. Digits[w + 1][v] = Append(Digits[w][v \div 256], v % 256)
      BY <1>10, ZenonT(90)
    <3> QED BY <3>1, <3>2 DEF Bytes
  <2> QED BY <2>1
<1>13. T = Nat
  <2>1. T \in SUBSET Nat
    OBVIOUS
  <2> HIDE DEF T
  <2> QED BY <1>11, <1>12, <2>1, NaturalInduction
<1> QED BY <1>9, <1>10, <1>13

\* The digits of a number are bytes, as many as are asked for.
LEMMA DigitsOf == ASSUME NEW w \in Nat, NEW v \in Int PROVE Digits[w][v] \in Bytes /\ Len(Digits[w][v]) = w
  BY DigitsAre

-----------------------------------------------------------------------------
(* Digits read back. *)

\* One step of Horner's rule.
Saturating(n, b) == IF n >= Huge \div 256 THEN Huge ELSE 256 * n + b

\* u holds what Horner's rule makes of the first bytes.
Horner(u, start, bytes) ==
    /\ u \in [0..Len(bytes) -> Int] /\ u[0] = start
    /\ \A k \in Nat : k < Len(bytes) => u[k + 1] = Saturating(u[k], bytes[k + 1])

\* A step of it gives a number.
LEMMA SaturatingIsInt ==
    ASSUME NEW n \in Int, NEW b \in Int PROVE Saturating(n, b) \in Int
  BY DEF Saturating, Huge

\* The recursive function of Accumulate exists.
LEMMA HornerIs ==
    ASSUME NEW start \in Int, NEW bytes \in Bytes
    PROVE  \E u : Horner(u, start, bytes) /\ Accumulate(start, bytes) = u[Len(bytes)]
<1> DEFINE at(k) == IF k < Len(bytes) THEN bytes[k + 1] ELSE 0
           G == [k \in Nat |-> [n \in Int |-> Saturating(n, at(k))]]
           E(f) == [k \in 0..Len(bytes) |->
                       IF k = 0 THEN start
                       ELSE LET n == f[k - 1] IN IF n >= Huge \div 256 THEN Huge ELSE 256 * n + bytes[k]]
           upTo == CHOOSE f : f = E(f)
<1>0. Len(bytes) \in Nat /\ \A i \in 1..Len(bytes) : bytes[i] \in Int
  BY ByteIs DEF Bytes
<1>1. ASSUME NEW k \in Nat PROVE at(k) \in Int
  <2>1. CASE k < Len(bytes)
    <3>1. k + 1 \in 1..Len(bytes)
      BY <1>0, <2>1
    <3> QED BY <1>0, <2>1, <3>1
  <2> QED BY <2>1
<1>2. G \in [Nat -> [Int -> Int]]
  <2> HIDE DEF at
  <2> QED BY <1>1, SaturatingIsInt
<1>3. PICK g : g \in [Nat -> Int] /\ g[0] = start /\ \A k \in Nat : g[k + 1] = G[k][g[k]]
  <2>1. \E g : Goes(g, Int, start, G)
    <3> HIDE DEF G
    <3> QED BY <1>2, Iterates
  <2> QED BY <2>1 DEF Goes
<1> DEFINE u == [k \in 0..Len(bytes) |-> g[k]]
<1>4. ASSUME NEW k \in Nat, k < Len(bytes) PROVE g[k + 1] = Saturating(g[k], bytes[k + 1])
  BY <1>3, <1>4
<1>5. Horner(u, start, bytes)
  <2>1. ASSUME NEW k \in Nat, k < Len(bytes) PROVE u[k + 1] = Saturating(u[k], bytes[k + 1])
    BY <1>0, <1>4, <2>1
  <2>2. u \in [0..Len(bytes) -> Int] /\ u[0] = start
    BY <1>0, <1>3
  <2> HIDE DEF u
  <2> QED BY <2>1, <2>2 DEF Horner
<1>6. u = E(u)
  <2>1. ASSUME NEW k \in 0..Len(bytes)
        PROVE  u[k] = IF k = 0 THEN start ELSE Saturating(u[k - 1], bytes[k])
    <3>1. CASE k = 0
      BY <1>3, <2>1, <3>1
    <3>2. CASE k # 0
      <4>1. PICK j \in Nat : j = k - 1 /\ j + 1 = k /\ j < Len(bytes)
        BY <1>0, <2>1, <3>2
      <4>2. u[j + 1] = Saturating(u[j], bytes[j + 1])
        BY <1>5, <4>1 DEF Horner
      <4> QED BY <3>2, <4>1, <4>2
    <3> QED BY <3>1, <3>2
  <2>2. u = [k \in 0..Len(bytes) |-> u[k]]
    OBVIOUS
  <2> HIDE DEF u
  <2> QED BY <2>1, <2>2 DEF Saturating
<1>7. upTo = E(upTo)
  <2> HIDE DEF u, E
  <2> QED BY <1>6
<1>8. Horner(upTo, start, bytes)
  <2> DEFINE v == upTo
  <2>1. v = E(v)
    BY <1>7
  <2> HIDE DEF v
  <2>2. ASSUME NEW k \in 0..Len(bytes)
        PROVE  v[k] = IF k = 0 THEN start ELSE Saturating(v[k - 1], bytes[k])
    BY <2>1 DEF Saturating
  <2>3. v[0] = start
    BY <1>0, <2>2
  <2>4. ASSUME NEW k \in Nat, k < Len(bytes) PROVE v[k + 1] = Saturating(v[k], bytes[k + 1])
    <3>1. PICK j \in 0..Len(bytes) : j = k + 1 /\ j # 0 /\ j - 1 = k
      BY <1>0, <2>4
    <3>2. v[j] = Saturating(v[j - 1], bytes[j])
      BY <2>2, <3>1, Zenon
    <3> QED BY <3>1, <3>2
  <2> DEFINE T == {k \in Nat : k <= Len(bytes) => v[k] \in Int}
  <2>5. T = Nat
    <3>1. 0 \in T
      BY <2>3
    <3>2. ASSUME NEW k \in T PROVE k + 1 \in T
      <4>1. CASE k < Len(bytes)
        <5>1. k \in Nat /\ k <= Len(bytes) /\ k + 1 \in 1..Len(bytes)
          BY <1>0, <4>1
        <5>4. v[k] \in Int /\ bytes[k + 1] \in Int
          BY <1>0, <5>1
        <5>2. v[k + 1] = Saturating(v[k], bytes[k + 1])
          BY <2>4, <4>1, <5>1
        <5>3. v[k + 1] \in Int
          BY <5>4, <5>2, SaturatingIsInt
        <5> QED BY <5>3
      <4>2. CASE ~ (k < Len(bytes))
        BY <1>0, <4>2
      <4> QED BY <4>1, <4>2
    <3>3. T \in SUBSET Nat
      OBVIOUS
    <3> HIDE DEF T
    <3> QED BY <3>1, <3>2, <3>3, NaturalInduction
  <2>6. v \in [0..Len(bytes) -> Int]
    <3>1. DOMAIN v = 0..Len(bytes) /\ v = [k \in 0..Len(bytes) |-> v[k]]
      BY <2>1
    <3>2. \A k \in 0..Len(bytes) : v[k] \in Int
      BY <1>0, <2>5
    <3> QED BY <3>1, <3>2
  <2> QED BY <2>3, <2>4, <2>6 DEF v, Horner
<1>9. Accumulate(start, bytes) = upTo[Len(bytes)]
  BY DEF Accumulate
<1> QED
  <2> HIDE DEF upTo
  <2> QED BY <1>8, <1>9

\* Horner's rule gives the same on a common beginning.
LEMMA HornerAgrees ==
    ASSUME NEW start, NEW bytes \in Bytes, NEW b \in Byte, NEW u, NEW v,
           Horner(u, start, bytes), Horner(v, start, Append(bytes, b))
    PROVE  u[Len(bytes)] = v[Len(bytes)]
<1> DEFINE T == {k \in Nat : k <= Len(bytes) => u[k] = v[k]}
<1>1. Len(bytes) \in Nat /\ Len(Append(bytes, b)) = Len(bytes) + 1
  BY DEF Bytes
<1>2. ASSUME NEW k \in Nat, k < Len(bytes) PROVE Append(bytes, b)[k + 1] = bytes[k + 1]
  BY <1>1, <1>2 DEF Bytes
<1>3. 0 \in T
  BY DEF Horner
<1>4. ASSUME NEW k \in T PROVE k + 1 \in T
  <2>1. CASE k < Len(bytes)
    <3>1. k \in Nat /\ u[k] = v[k] /\ k < Len(Append(bytes, b))
      BY <1>1, <2>1
    <3>2. /\ u[k + 1] = Saturating(u[k], bytes[k + 1])
          /\ v[k + 1] = Saturating(v[k], Append(bytes, b)[k + 1])
      BY <2>1, <3>1 DEF Horner
    <3>3. u[k + 1] = v[k + 1]
      BY <1>2, <2>1, <3>1, <3>2
    <3> QED BY <3>3
  <2>2. CASE ~ (k < Len(bytes))
    BY <1>1, <2>2
  <2> QED BY <2>1, <2>2
<1>5. T = Nat
  <2>1. T \in SUBSET Nat
    OBVIOUS
  <2> HIDE DEF T
  <2> QED BY <1>3, <1>4, <2>1, NaturalInduction
<1>6. Len(bytes) \in T
  BY <1>1, <1>5
<1> QED BY <1>1, <1>6

\* The value of a sequence of bytes, byte by byte.
LEMMA ValueIs ==
    /\ Value(<<>>) = 0
    /\ \A bytes \in Bytes : Value(bytes) \in Int
    /\ \A bytes \in Bytes, b \in Byte : Value(Append(bytes, b)) = Saturating(Value(bytes), b)
<1>1. <<>> \in Bytes /\ Len(<<>>) = 0
  BY DEF Bytes
<1>2. Value(<<>>) = 0
  <2>1. PICK u : Horner(u, 0, <<>>) /\ Accumulate(0, <<>>) = u[Len(<<>>)]
    BY <1>1, HornerIs
  <2> QED BY <1>1, <2>1 DEF Horner, Value
<1>3. ASSUME NEW bytes \in Bytes PROVE Value(bytes) \in Int
  <2>1. PICK u : Horner(u, 0, bytes) /\ Accumulate(0, bytes) = u[Len(bytes)]
    BY HornerIs
  <2>2. Len(bytes) \in 0..Len(bytes)
    BY DEF Bytes
  <2> QED BY <2>1, <2>2 DEF Horner, Value
<1>4. ASSUME NEW bytes \in Bytes, NEW b \in Byte
      PROVE  Value(Append(bytes, b)) = Saturating(Value(bytes), b)
  <2> DEFINE more == Append(bytes, b)
  <2>1. more \in Bytes /\ Len(bytes) \in Nat /\ Len(more) = Len(bytes) + 1 /\ more[Len(bytes) + 1] = b
    BY DEF Bytes
  <2>2. PICK u : Horner(u, 0, bytes) /\ Accumulate(0, bytes) = u[Len(bytes)]
    BY HornerIs
  <2>3. PICK v : Horner(v, 0, more) /\ Accumulate(0, more) = v[Len(more)]
    <3> HIDE DEF more
    <3> QED BY <2>1, HornerIs
  <2>4. u[Len(bytes)] = v[Len(bytes)]
    BY <2>2, <2>3, HornerAgrees
  <2>5. v[Len(bytes) + 1] = Saturating(v[Len(bytes)], more[Len(bytes) + 1])
    <3> HIDE DEF more
    <3> QED BY <2>1, <2>3 DEF Horner
  <2> HIDE DEF more
  <2> QED BY <2>1, <2>2, <2>3, <2>4, <2>5 DEF Value, more
<1> QED BY <1>2, <1>3, <1>4

\* A byte is its own value.
LEMMA ValueOfOne == ASSUME NEW b \in Byte PROVE Value(<<b>>) = b
<1>1. <<>> \in Bytes /\ <<b>> = Append(<<>>, b)
  BY DEF Bytes
<1>2. Value(Append(<<>>, b)) = Saturating(0, b)
  BY <1>1, ValueIs
<1>3. b \in Nat
  BY ByteIs
<1>4. Saturating(0, b) = b
  BY <1>3, SMT DEF Saturating, Huge
<1> QED BY <1>1, <1>2, <1>4

\* One digit more.
LEMMA OneDigitMore ==
    ASSUME NEW w \in Nat, NEW v \in Nat, v < Huge, Value(Digits[w][v \div 256]) = v \div 256
    PROVE  Value(Digits[w + 1][v]) = v
<1>1. v \in Int /\ v \div 256 \in Nat /\ v % 256 \in Byte /\ v \div 256 < Huge \div 256
      /\ v = 256 * (v \div 256) + (v % 256)
  BY ByteIs, SMT DEF Huge
<1>2. Digits[w + 1][v] = Append(Digits[w][v \div 256], v % 256)
  <2>1. \A x \in Nat, y \in Int : Digits[x + 1][y] = Append(Digits[x][y \div 256], y % 256)
    BY DigitsAre
  <2> QED BY <1>1, <2>1, ZenonT(90)
<1>4. Digits[w][v \div 256] \in Bytes
  <2> DEFINE d == v \div 256
  <2>1. d \in Int
    BY <1>1
  <2> HIDE DEF d
  <2>2. Digits[w][d] \in Bytes
    BY <2>1, DigitsAre
  <2> QED BY <2>2 DEF d
<1>3. Value(Digits[w + 1][v]) = Saturating(v \div 256, v % 256)
  BY <1>1, <1>2, <1>4, ValueIs, SMTT(40)
<1> QED BY <1>1, <1>3, SMT DEF Saturating, Huge

\* Numbers below Huge have four digits; further digits are zeros.
LEMMA FourDigits ==
    ASSUME NEW w \in Nat, Value(Digits[w][0]) = 0, NEW v \in Nat, v < Huge
    PROVE  Value(Digits[w + 4][v]) = v
<1> DEFINE a == v \div 256
           b == a \div 256
           c == b \div 256
<1>1. a \in Nat /\ a < 4194304
  BY SMT DEF Huge
<1>2. b \in Nat /\ b < 16384
  <2> HIDE DEF a
  <2> QED BY <1>1, SMT
<1>3. c \in Nat /\ c < 64 /\ c \div 256 = 0
  <2> HIDE DEF b
  <2> QED BY <1>2
<1> HIDE DEF a, b, c
<1>4. a < Huge /\ b < Huge /\ c < Huge
  BY <1>1, <1>2, <1>3, SMT DEF Huge
<1>5. Value(Digits[w + 1][c]) = c
  BY <1>3, <1>4, OneDigitMore
<1>6. Value(Digits[(w + 1) + 1][b]) = b
  BY <1>2, <1>4, <1>5, OneDigitMore DEF c
<1>7. Value(Digits[((w + 1) + 1) + 1][a]) = a
  BY <1>1, <1>4, <1>6, OneDigitMore DEF b
<1>8. Value(Digits[(((w + 1) + 1) + 1) + 1][v]) = v
  BY <1>4, <1>7, OneDigitMore DEF a
<1>9. (((w + 1) + 1) + 1) + 1 = w + 4
  OBVIOUS
<1> QED BY <1>8, <1>9

\* A size is read as it was written, and so is an id.
LEMMA ValueOfDigits ==
    ASSUME NEW v \in Nat, v < Huge
    PROVE  Value(Digits[4][v]) = v /\ Value(Digits[8][v]) = v
<1>1. 0 \in Nat /\ 0 < Huge
  BY SMT DEF Huge
<1>2. Value(Digits[0][0]) = 0
  <2>1. Digits[0][0] = <<>>
    BY DigitsAre
  <2> QED BY <2>1, ValueIs
<1>3. Value(Digits[4][0]) = 0 /\ Value(Digits[4][v]) = v
  BY <1>1, <1>2, FourDigits
<1>4. Value(Digits[8][v]) = v
  BY <1>3, FourDigits
<1> QED BY <1>3, <1>4

-----------------------------------------------------------------------------
(* Parts of sequences, and fields read from a buffer. *)

\* The first and the second part of a concatenation.
LEMMA PartsOf ==
    ASSUME NEW S, NEW s \in Seq(S), NEW t \in Seq(S)
    PROVE  /\ s \o t \in Seq(S) /\ Len(s \o t) = Len(s) + Len(t) /\ Len(s) \in Nat /\ Len(t) \in Nat
           /\ \A i \in 1..Len(s) : (s \o t)[i] = s[i]
           /\ \A i \in 1..Len(t) : (s \o t)[Len(s) + i] = t[i]
  OBVIOUS

\* A part of a sequence.
LEMMA PartIs ==
    ASSUME NEW S, NEW s \in Seq(S), NEW m \in Nat, NEW n \in Nat, m + n <= Len(s)
    PROVE  /\ SubSeq(s, m + 1, m + n) \in Seq(S)
           /\ Len(SubSeq(s, m + 1, m + n)) = n
           /\ \A i \in 1..n : SubSeq(s, m + 1, m + n)[i] = s[m + i]
<1>1. Len(s) \in Nat
  OBVIOUS
<1>2. \A i \in (m + 1)..(m + n) : s[i] \in S
  BY <1>1
<1>3. SubSeq(s, m + 1, m + n) \in Seq(S)
  BY <1>2, SubSeqProperties
<1>4. Len(SubSeq(s, m + 1, m + n)) = n
  BY <1>1, SubSeqProperties
<1> QED BY <1>1, <1>3, <1>4, SubSeqProperties

\* Where two sequences agree, so do their parts.
LEMMA SamePart ==
    ASSUME NEW S, NEW s \in Seq(S), NEW t \in Seq(S), NEW m \in Nat, NEW n \in Nat, m + n <= Len(s),
           n = Len(t), \A i \in 1..n : s[m + i] = t[i]
    PROVE  SubSeq(s, m + 1, m + n) = t
<1> DEFINE p == SubSeq(s, m + 1, m + n)
<1>1. p \in Seq(S) /\ Len(p) = n /\ \A i \in 1..n : p[i] = s[m + i]
  BY PartIs
<1> HIDE DEF p
<1>2. p = t
  BY <1>1, SeqEqual
<1> QED BY <1>2 DEF p

\* What an exception is not.
LEMMA ThrownIsNot ==
    /\ \A x \in Int : x # Thrown
    /\ \A x \in Names : x # Thrown
    /\ \A x \in Bytes : x # Thrown
    /\ \A x \in RequestFrames : x # Thrown
    /\ \A x \in ResponseFrames : x # Thrown
  BY ThrownAssumption

\* A field inside the buffer is read.
LEMMA ReadIs ==
    ASSUME NEW bytes \in Bytes, NEW o \in Nat, NEW w \in Nat, o + w <= Len(bytes)
    PROVE  Read(bytes, o, w) = Value(SubSeq(bytes, o + 1, o + w))
<1>1. Len(bytes) \in Nat /\ ~ (Len(bytes) - o < w)
  BY DEF Bytes
<1>2. SubSeq(bytes, o + 1, o + w) \in Bytes
  BY PartIs DEF Bytes
<1>3. Slice(bytes, o, w) = SubSeq(bytes, o + 1, o + w)
  BY <1>1 DEF Slice
<1>4. Slice(bytes, o, w) # Thrown
  BY <1>2, <1>3, ThrownIsNot
<1> QED BY <1>3, <1>4 DEF Read

\* A byte inside the buffer is read.
LEMMA ReadByte ==
    ASSUME NEW bytes \in Bytes, NEW o \in Nat, o < Len(bytes)
    PROVE  Read(bytes, o, 1) = bytes[o + 1] /\ bytes[o + 1] \in Byte
<1>1. Len(bytes) \in Nat /\ o + 1 <= Len(bytes)
  BY DEF Bytes
<1>2. bytes[o + 1] \in Byte
  BY <1>1 DEF Bytes
<1>3. <<bytes[o + 1]>> \in Bytes /\ Len(<<bytes[o + 1]>>) = 1 /\ <<bytes[o + 1]>>[1] = bytes[o + 1]
  BY <1>2 DEF Bytes
<1>4. \A i \in 1..1 : bytes[o + i] = <<bytes[o + 1]>>[i]
  BY <1>3
<1>5. SubSeq(bytes, o + 1, o + 1) = <<bytes[o + 1]>>
  BY <1>1, <1>3, <1>4, SamePart DEF Bytes
<1>6. Read(bytes, o, 1) = Value(SubSeq(bytes, o + 1, o + 1))
  BY <1>1, ReadIs
<1> QED BY <1>2, <1>5, <1>6, ValueOfOne

\* A number is read where its digits lie.
LEMMA ReadNumber ==
    ASSUME NEW bytes \in Bytes, NEW o \in Nat, NEW w \in {4, 8}, NEW v \in Nat, v < Huge,
           o + w <= Len(bytes), \A i \in 1..w : bytes[o + i] = Digits[w][v][i]
    PROVE  Read(bytes, o, w) = v
<1>1. w \in Nat /\ v \in Int
  OBVIOUS
<1>2. Digits[w][v] \in Bytes /\ Len(Digits[w][v]) = w
  BY <1>1, DigitsAre
<1>3. SubSeq(bytes, o + 1, o + w) = Digits[w][v]
  BY <1>1, <1>2, SamePart DEF Bytes
<1>4. Value(Digits[w][v]) = v
  BY ValueOfDigits
<1> QED BY <1>1, <1>3, <1>4, ReadIs, ZenonT(90)

\* A code that stands for one name is that name's.
LEMMA NamedIs ==
    ASSUME NEW codes, NEW name \in DOMAIN codes, \A n \in DOMAIN codes : codes[n] = codes[name] => n = name
    PROVE  Named(codes, codes[name]) = name
  BY DEF Named

\* No two names of the contract have one code.
LEMMA CodesDiffer ==
    \A codes \in {TypeCode, OperationCode, ResourceCode, TargetCode, ResponseCode, CardinalityCode, ErrorCode} :
        \A m, n \in DOMAIN codes : codes[m] = codes[n] => m = n
<1>1. \A m, n \in DOMAIN TypeCode : TypeCode[m] = TypeCode[n] => m = n
  BY DEF TypeCode
<1>2. \A m, n \in DOMAIN OperationCode : OperationCode[m] = OperationCode[n] => m = n
  BY DEF OperationCode
<1>3. \A m, n \in DOMAIN ResourceCode : ResourceCode[m] = ResourceCode[n] => m = n
  BY DEF ResourceCode
<1>4. \A m, n \in DOMAIN TargetCode : TargetCode[m] = TargetCode[n] => m = n
  BY DEF TargetCode
<1>5. \A m, n \in DOMAIN ResponseCode : ResponseCode[m] = ResponseCode[n] => m = n
  BY DEF ResponseCode
<1>6. \A m, n \in DOMAIN CardinalityCode : CardinalityCode[m] = CardinalityCode[n] => m = n
  BY DEF CardinalityCode
<1>7. \A m, n \in DOMAIN ErrorCode : ErrorCode[m] = ErrorCode[n] => m = n
  BY DEF ErrorCode
<1> QED BY <1>1, <1>2, <1>3, <1>4, <1>5, <1>6, <1>7

-----------------------------------------------------------------------------
(* Whole frames and pieces of frames. *)

\* A frame with the header of its type and sub type, which says how long it is.
Headed(raw, type, sub, id) ==
    /\ raw \in Bytes
    /\ type \in {"Request", "Response"} /\ sub \in DOMAIN CodesOf[type]
    /\ Len(raw) >= HeaderSize(type, sub) /\ Len(raw) < Huge
    /\ \A i \in 1..4 : raw[i] = Digits[4][Len(raw) - SizeEnd][i]
    /\ raw[5] = TypeCode[type] /\ raw[6] = CodesOf[type][sub]
    /\ id \in Nat /\ id < Huge
    /\ \A i \in 1..8 : raw[6 + i] = Digits[8][id][i]

\* The sizes of the headers.
LEMMA HeaderSizes ==
    ASSUME NEW type \in {"Request", "Response"}, NEW sub
    PROVE  HeaderSize(type, sub) \in {15, 16}
  BY DEF HeaderSize, IdEnd

\* The codes of a type are those of the contract.
LEMMA CodesAre ==
    ASSUME NEW type \in {"Request", "Response"}, NEW sub \in DOMAIN CodesOf[type]
    PROVE  /\ Named(TypeCode, TypeCode[type]) = type
           /\ Named(CodesOf[type], CodesOf[type][sub]) = sub
           /\ type \in Names /\ sub \in Names
<1>1. Named(TypeCode, TypeCode[type]) = type /\ type \in Names
  <2>1. type \in DOMAIN TypeCode
    BY DEF TypeCode
  <2>2. type \in Names
    BY <2>1 DEF Names
  <2> QED BY <2>1, <2>2, CodesDiffer, NamedIs
<1>2. CASE type = "Request"
  <2>1. CodesOf[type] = OperationCode
    BY <1>2 DEF CodesOf
  <2>2. sub \in Names
    BY <2>1 DEF Names
  <2> QED BY <1>1, <1>2, <2>1, <2>2, CodesDiffer, NamedIs
<1>3. CASE type = "Response"
  <2>1. CodesOf[type] = ResponseCode
    BY <1>3 DEF CodesOf
  <2>2. sub \in Names
    BY <2>1 DEF Names
  <2> QED BY <1>1, <1>3, <2>1, <2>2, CodesDiffer, NamedIs
<1> QED BY <1>2, <1>3

\* What begins as a frame is taken for it: the frame as soon as it is whole,
\* whatever comes behind it, and until then no frame.
LEMMA BeginsAs ==
    ASSUME NEW raw, NEW type, NEW sub, NEW id, Headed(raw, type, sub, id),
           NEW bytes \in Bytes, Len(bytes) >= 6,
           \A i \in 1..Len(bytes) : i <= Len(raw) => bytes[i] = raw[i]
    PROVE  /\ GetType(bytes) = type /\ GetSubType(bytes) = sub
           /\ Read(bytes, 0, 4) = Len(raw) - SizeEnd
           /\ HasFrame(bytes) = IF Len(bytes) >= Len(raw) THEN "YES" ELSE "INCOMPLETE"
           /\ Len(bytes) >= Len(raw) => GetFrame(bytes) = raw
<1> USE DEF SizeEnd, TypeEnd, SubTypeEnd
<1>1. /\ raw \in Bytes /\ Len(raw) \in Nat /\ Len(bytes) \in Nat /\ Len(raw) >= 15 /\ Len(raw) < Huge
      /\ Len(raw) >= HeaderSize(type, sub) /\ HeaderSize(type, sub) \in Int
      /\ type \in {"Request", "Response"} /\ sub \in DOMAIN CodesOf[type]
      /\ \A i \in 1..4 : raw[i] = Digits[4][Len(raw) - 4][i]
      /\ raw[5] = TypeCode[type] /\ raw[6] = CodesOf[type][sub]
  <2>1. Headed(raw, type, sub, id)
    OBVIOUS
  <2>2. /\ raw \in Bytes /\ Len(raw) < Huge
        /\ Len(raw) >= HeaderSize(type, sub)
        /\ type \in {"Request", "Response"} /\ sub \in DOMAIN CodesOf[type]
        /\ \A i \in 1..4 : raw[i] = Digits[4][Len(raw) - 4][i]
        /\ raw[5] = TypeCode[type] /\ raw[6] = CodesOf[type][sub]
    BY <2>1 DEF Headed
  <2>3. Len(raw) \in Nat /\ Len(bytes) \in Nat
    BY <2>2 DEF Bytes
  <2>4. HeaderSize(type, sub) \in Int /\ Len(raw) >= 15
    <3>1. HeaderSize(type, sub) = 15 \/ HeaderSize(type, sub) = 16
      BY <2>2, HeaderSizes
    <3> QED BY <2>2, <2>3, <3>1
  <2> QED BY <2>2, <2>3, <2>4
<1>2. GetType(bytes) = type
  <2>1. Read(bytes, 4, 1) = bytes[5] /\ bytes[5] \in Byte
    BY <1>1, ReadByte
  <2>2. bytes[5] = TypeCode[type]
    BY <1>1
  <2>3. bytes[5] # Thrown
    BY <2>1, ByteIs, ThrownIsNot
  <2> QED BY <1>1, <2>1, <2>2, <2>3, CodesAre DEF GetType
<1>3. GetSubType(bytes) = sub
  <2>1. Read(bytes, 5, 1) = bytes[6] /\ bytes[6] \in Byte
    BY <1>1, ReadByte
  <2>2. bytes[6] = CodesOf[type][sub]
    BY <1>1
  <2>3. bytes[6] # Thrown /\ type # Thrown
    BY <1>1, <2>1, ByteIs, CodesAre, ThrownIsNot
  <2> QED BY <1>1, <1>2, <2>1, <2>2, <2>3, CodesAre DEF GetSubType
<1>4. Read(bytes, 0, 4) = Len(raw) - 4
  <2>1. Len(raw) - 4 \in Nat /\ Len(raw) - 4 < Huge
    BY <1>1, SMT DEF Huge
  <2>2. ASSUME NEW i \in 1..4 PROVE bytes[0 + i] = Digits[4][Len(raw) - 4][i]
    <3>1. i \in 1..Len(bytes) /\ i <= Len(raw) /\ 0 + i = i
      BY <1>1
    <3>2. bytes[i] = raw[i] /\ raw[i] = Digits[4][Len(raw) - 4][i]
      BY <1>1, <3>1
    <3> QED BY <3>1, <3>2
  <2> QED BY <1>1, <2>1, <2>2, ReadNumber
<1>5. HasFrame(bytes) = IF Len(bytes) >= Len(raw) THEN "YES" ELSE "INCOMPLETE"
  <2>1. sub # Thrown
    BY <1>1, CodesAre, ThrownIsNot
  <2>2. ~ (Len(raw) - 4 < DeclaredSize(type, sub, 0))
    BY <1>1, SMT DEF DeclaredSize, SizeEnd
  <2>3. Len(bytes) >= 4 + (Len(raw) - 4) <=> Len(bytes) >= Len(raw)
    BY <1>1
  <2> QED BY <1>1, <1>2, <1>3, <1>4, <2>1, <2>2, <2>3 DEF HasFrame
<1>6. ASSUME Len(bytes) >= Len(raw) PROVE GetFrame(bytes) = raw
  <2>1. FrameSize(bytes) = Len(raw)
    BY <1>1, <1>4 DEF FrameSize
  <2>2. SubSeq(bytes, 0 + 1, 0 + Len(raw)) = raw
    <3>1. \A i \in 1..Len(raw) : bytes[0 + i] = raw[i]
      BY <1>1, <1>6
    <3> QED BY <1>1, <1>6, <3>1, SamePart DEF Bytes
  <2> QED BY <1>1, <1>5, <1>6, <2>1, <2>2 DEF GetFrame
<1> QED BY <1>2, <1>3, <1>4, <1>5, <1>6

-----------------------------------------------------------------------------
(* The bytes of a frame, and what the parsers make of them. *)

\* r is s with t behind it.
Joined(s, t, r) ==
    /\ r \in Bytes /\ Len(r) = Len(s) + Len(t)
    /\ \A i \in 1..Len(s) : r[i] = s[i]
    /\ \A i \in 1..Len(t) : r[Len(s) + i] = t[i]

\* A concatenation of bytes.
LEMMA JoinIs == ASSUME NEW s \in Bytes, NEW t \in Bytes PROVE Joined(s, t, s \o t)
<1>1. s \in Seq(Byte) /\ t \in Seq(Byte)
  BY DEF Bytes
<1>2. /\ s \o t \in Seq(Byte) /\ Len(s \o t) = Len(s) + Len(t)
      /\ \A i \in 1..Len(s) : (s \o t)[i] = s[i]
      /\ \A i \in 1..Len(t) : (s \o t)[Len(s) + i] = t[i]
  BY <1>1, PartsOf
<1> QED BY <1>2 DEF Bytes, Joined

\* Where the parts of a frame lie.
Parts(raw, size, type, sub, id, codes, payload) ==
    /\ raw \in Bytes /\ Len(raw) = 14 + Len(codes) + Len(payload)
    /\ \A i \in 1..4 : raw[i] = size[i]
    /\ raw[5] = type /\ raw[6] = sub
    /\ \A i \in 1..8 : raw[6 + i] = id[i]
    /\ \A i \in 1..Len(codes) : raw[14 + i] = codes[i]
    /\ \A i \in 1..Len(payload) : raw[14 + Len(codes) + i] = payload[i]

\* A frame put together has its parts.
LEMMA Assembled ==
    ASSUME NEW size \in Bytes, Len(size) = 4, NEW type \in Byte, NEW sub \in Byte,
           NEW id \in Bytes, Len(id) = 8, NEW codes \in Bytes, NEW payload \in Bytes,
           NEW raw, raw = size \o <<type, sub>> \o id \o codes \o payload
    PROVE  Parts(raw, size, type, sub, id, codes, payload)
<1> DEFINE kind == <<type, sub>>
           a == size \o kind
           b == a \o id
           c == b \o codes
<1>1. kind \in Bytes /\ Len(kind) = 2 /\ kind[1] = type /\ kind[2] = sub
  BY DEF Bytes
<1>2. Len(codes) \in Nat /\ Len(payload) \in Nat
  BY DEF Bytes
<1>3. raw = c \o payload
  OBVIOUS
<1> HIDE DEF kind
<1>4. /\ a \in Bytes /\ Len(a) = 6 /\ (\A i \in 1..4 : a[i] = size[i])
      /\ \A i \in 1..2 : a[4 + i] = kind[i]
  <2>1. Joined(size, kind, a)
    BY <1>1, JoinIs
  <2> HIDE DEF a
  <2> QED BY <1>1, <2>1 DEF Joined
<1> HIDE DEF a
<1>5. b \in Bytes /\ Len(b) = 14 /\ (\A i \in 1..6 : b[i] = a[i]) /\ \A i \in 1..8 : b[6 + i] = id[i]
  <2>1. Joined(a, id, b)
    BY <1>4, JoinIs
  <2> HIDE DEF b
  <2> QED BY <1>4, <2>1 DEF Joined
<1> HIDE DEF b
<1>6. /\ c \in Bytes /\ Len(c) = 14 + Len(codes) /\ (\A i \in 1..14 : c[i] = b[i])
      /\ \A i \in 1..Len(codes) : c[14 + i] = codes[i]
  <2>1. Joined(b, codes, c)
    BY <1>5, JoinIs
  <2> HIDE DEF c
  <2> QED BY <1>5, <2>1 DEF Joined
<1> HIDE DEF c
<1>7. /\ raw \in Bytes /\ Len(raw) = 14 + Len(codes) + Len(payload)
      /\ (\A i \in 1..(14 + Len(codes)) : raw[i] = c[i])
      /\ \A i \in 1..Len(payload) : raw[14 + Len(codes) + i] = payload[i]
  <2>1. Joined(c, payload, raw)
    BY <1>3, <1>6, JoinIs
  <2> QED BY <1>2, <1>6, <2>1 DEF Joined
<1>8. \A i \in 1..14 : raw[i] = b[i]
  <2>1. \A i \in 1..14 : i \in 1..(14 + Len(codes))
    BY <1>2
  <2> QED BY <1>6, <1>7, <2>1
<1>9. \A i \in 1..6 : raw[i] = a[i]
  <2>1. \A i \in 1..6 : i \in 1..14
    OBVIOUS
  <2> QED BY <1>5, <1>8, <2>1
<1>10. \A i \in 1..4 : raw[i] = size[i]
  <2>1. \A i \in 1..4 : i \in 1..6
    OBVIOUS
  <2> QED BY <1>4, <1>9, <2>1
<1>11. raw[5] = type /\ raw[6] = sub
  <2>1. a[4 + 1] = kind[1] /\ a[4 + 2] = kind[2]
    BY <1>4
  <2>2. 5 \in 1..6 /\ 6 \in 1..6
    OBVIOUS
  <2>3. raw[5] = a[5] /\ raw[6] = a[6]
    BY <1>9, <2>2, Zenon
  <2>4. a[5] = kind[1] /\ a[6] = kind[2]
    BY <2>1
  <2> QED BY <1>1, <2>3, <2>4
<1>12. \A i \in 1..8 : raw[6 + i] = id[i]
  <2>1. \A i \in 1..8 : 6 + i \in 1..14
    OBVIOUS
  <2> QED BY <1>5, <1>8, <2>1
<1>13. \A i \in 1..Len(codes) : raw[14 + i] = codes[i]
  <2>1. \A i \in 1..Len(codes) : 14 + i \in 1..(14 + Len(codes))
    BY <1>2
  <2> QED BY <1>6, <1>7, <2>1
<1> QED BY <1>7, <1>10, <1>11, <1>12, <1>13 DEF Parts

\* The codes of the contract are bytes.
LEMMA CodesAreBytes ==
    /\ \A n \in DOMAIN TypeCode : TypeCode[n] \in Byte
    /\ \A n \in DOMAIN OperationCode : OperationCode[n] \in Byte
    /\ \A n \in DOMAIN ResourceCode : ResourceCode[n] \in Byte
    /\ \A n \in DOMAIN TargetCode : TargetCode[n] \in Byte
    /\ \A n \in DOMAIN ResponseCode : ResponseCode[n] \in Byte
    /\ \A n \in DOMAIN CardinalityCode : CardinalityCode[n] \in Byte
<1>1. 0 \in Byte /\ 1 \in Byte /\ 2 \in Byte /\ 3 \in Byte /\ 4 \in Byte /\ 5 \in Byte /\ 6 \in Byte
  BY ByteIs
<1>2. \A n \in DOMAIN TypeCode : TypeCode[n] \in Byte
  BY <1>1 DEF TypeCode
<1>3. \A n \in DOMAIN OperationCode : OperationCode[n] \in Byte
  BY <1>1 DEF OperationCode
<1>4. \A n \in DOMAIN ResourceCode : ResourceCode[n] \in Byte
  BY <1>1 DEF ResourceCode
<1>5. \A n \in DOMAIN TargetCode : TargetCode[n] \in Byte
  BY <1>1 DEF TargetCode
<1>6. \A n \in DOMAIN ResponseCode : ResponseCode[n] \in Byte
  BY <1>1 DEF ResponseCode
<1>7. \A n \in DOMAIN CardinalityCode : CardinalityCode[n] \in Byte
  BY <1>1 DEF CardinalityCode
<1> QED BY <1>2, <1>3, <1>4, <1>5, <1>6, <1>7

\* Bytes put together as a frame begin with the header of one.
LEMMA RawHeaded ==
    ASSUME NEW type \in {"Request", "Response"}, NEW sub \in DOMAIN CodesOf[type],
           NEW id \in Nat, id < Huge, NEW codes \in Bytes, 14 + Len(codes) = HeaderSize(type, sub),
           NEW payload \in Bytes, 16 + Len(payload) < Huge,
           NEW raw, raw = Digits[4][DeclaredSize(type, sub, Len(payload))]
                          \o <<TypeCode[type], CodesOf[type][sub]>> \o Digits[8][id] \o codes \o payload
    PROVE  /\ Headed(raw, type, sub, id)
           /\ Parts(raw, Digits[4][DeclaredSize(type, sub, Len(payload))], TypeCode[type], CodesOf[type][sub],
                    Digits[8][id], codes, payload)
<1> DEFINE n == DeclaredSize(type, sub, Len(payload))
           size == Digits[4][n]
           h == HeaderSize(type, sub)
<1>1. Len(codes) \in Nat /\ Len(payload) \in Nat
  BY DEF Bytes
<1>2. h \in Nat /\ (h = 15 \/ h = 16) /\ 14 + Len(codes) = h
  BY HeaderSizes
<1> HIDE DEF h
<1>3. n = h + Len(payload) - 4 /\ n \in Int
  BY <1>1, <1>2, SMT DEF DeclaredSize, SizeEnd, h
<1> HIDE DEF n
<1>4. size \in Bytes /\ Len(size) = 4 /\ Digits[8][id] \in Bytes /\ Len(Digits[8][id]) = 8
  <2>1. id \in Int
    OBVIOUS
  <2> QED BY <1>3, <2>1, DigitsOf
<1>5. TypeCode[type] \in Byte /\ CodesOf[type][sub] \in Byte
  <2>1. type \in DOMAIN TypeCode
    BY DEF TypeCode
  <2>2. CASE type = "Request"
    <3>1. CodesOf[type] = OperationCode
      BY <2>2 DEF CodesOf
    <3> QED BY <2>1, <3>1, CodesAreBytes
  <2>3. CASE type = "Response"
    <3>1. CodesOf[type] = ResponseCode
      BY <2>3 DEF CodesOf
    <3> QED BY <2>1, <3>1, CodesAreBytes
  <2> QED BY <2>2, <2>3
<1>6. Parts(raw, size, TypeCode[type], CodesOf[type][sub], Digits[8][id], codes, payload)
  <2>1. raw = size \o <<TypeCode[type], CodesOf[type][sub]>> \o Digits[8][id] \o codes \o payload
    BY DEF n
  <2> HIDE DEF size
  <2> QED BY <1>4, <1>5, <2>1, Assembled
<1>7. Len(raw) = h + Len(payload) /\ Len(raw) < Huge /\ Len(raw) >= h
  <2>1. Len(raw) = h + Len(payload)
    BY <1>1, <1>2, <1>6, ZenonT(90) DEF Parts
  <2>2. h + Len(payload) <= 16 + Len(payload) /\ h + Len(payload) >= h /\ h + Len(payload) \in Nat
    BY <1>1, <1>2
  <2>3. h + Len(payload) < Huge
    BY <1>1, <1>2, <2>2, SMTT(40) DEF Huge
  <2> QED BY <2>1, <2>2, <2>3, ZenonT(90)
<1>8. Headed(raw, type, sub, id)
  <2>1. size = Digits[4][Len(raw) - SizeEnd]
    <3>1. Len(raw) - SizeEnd = h + Len(payload) - 4
      <4> DEFINE l == Len(raw)
      <4>1. l = h + Len(payload)
        BY <1>7
      <4> HIDE DEF l
      <4>2. l - SizeEnd = h + Len(payload) - 4
        BY <1>1, <1>2, <4>1 DEF SizeEnd
      <4> QED BY <4>2 DEF l
    <3> QED BY <1>3, <3>1
  <2> HIDE DEF size
  <2> QED BY <1>6, <1>7, <2>1, ZenonT(90) DEF Headed, Parts, h
<1> QED BY <1>6, <1>8 DEF n

\* Where a payload begins and ends.
LEMMA PayloadIs ==
    ASSUME NEW raw, NEW type, NEW sub, NEW id, Headed(raw, type, sub, id),
           NEW payload \in Bytes, Len(raw) = HeaderSize(type, sub) + Len(payload),
           \A i \in 1..Len(payload) : raw[HeaderSize(type, sub) + i] = payload[i]
    PROVE  GetPayload(raw) = payload
<1> DEFINE h == HeaderSize(type, sub)
<1>1. raw \in Bytes /\ Len(raw) \in Nat /\ Len(payload) \in Nat /\ h \in Nat /\ Len(raw) >= 15
  <2>1. raw \in Bytes /\ type \in {"Request", "Response"}
    BY DEF Headed
  <2>2. h = 15 \/ h = 16
    BY <2>1, HeaderSizes
  <2>3. Len(raw) \in Nat /\ Len(payload) \in Nat
    BY <2>1 DEF Bytes
  <2> QED BY <2>1, <2>2, <2>3
<1>2. GetType(raw) = type /\ GetSubType(raw) = sub /\ Read(raw, 0, 4) = Len(raw) - SizeEnd
  BY <1>1, BeginsAs
<1>3. Read(raw, 0, 4) - DeclaredSize(type, sub, 0) = Len(payload)
  BY <1>1, <1>2 DEF DeclaredSize, SizeEnd
<1>4. SubSeq(raw, h + 1, h + Len(payload)) = payload
  <2>1. \A i \in 1..Len(payload) : raw[h + i] = payload[i]
    OBVIOUS
  <2> HIDE DEF h
  <2>2. h + Len(payload) <= Len(raw)
    BY <1>1 DEF h
  <2> QED BY <1>1, <2>1, <2>2, SamePart DEF Bytes
<1>5. ~ (Len(payload) < 0) /\ ~ (h + Len(payload) > Len(raw))
  BY <1>1
<1> QED BY <1>2, <1>3, <1>4, <1>5 DEF GetPayload

\* The id of a frame is read where it was written.
LEMMA IdIs ==
    ASSUME NEW raw, NEW type, NEW sub, NEW id, Headed(raw, type, sub, id)
    PROVE  Read(raw, SubTypeEnd, 8) = id
<1>1. raw \in Bytes /\ Len(raw) \in Nat /\ Len(raw) >= 15 /\ id \in Nat /\ id < Huge
      /\ \A i \in 1..8 : raw[6 + i] = Digits[8][id][i]
  <2>1. /\ raw \in Bytes /\ type \in {"Request", "Response"} /\ id \in Nat /\ id < Huge
        /\ Len(raw) >= HeaderSize(type, sub) /\ \A i \in 1..8 : raw[6 + i] = Digits[8][id][i]
    BY DEF Headed
  <2>2. HeaderSize(type, sub) = 15 \/ HeaderSize(type, sub) = 16
    BY <2>1, HeaderSizes
  <2>3. Len(raw) \in Nat
    BY <2>1 DEF Bytes
  <2> QED BY <2>1, <2>2, <2>3
<1> QED BY <1>1, ReadNumber DEF SubTypeEnd

\* A request that can be written: its size and its id have four and eight bytes
\* to themselves.
WritableRequest(f) ==
    f \in RequestFrames /\ ValidRequest(f) /\ f.id < Huge /\ 16 + Len(f.payload) < Huge

\* What lies behind the id in a request.
CodesOfRequest(f) == <<ResourceCode[f.resource]>> \o (IF f.sub = "SEE" THEN <<TargetCode[f.target]>> ELSE <<>>)

\* The bytes of a request: the header says what it is and how long.
LEMMA RequestRaw ==
    ASSUME NEW f, WritableRequest(f)
    PROVE  /\ Headed(RawBytes(f), "Request", f.sub, f.id)
           /\ Len(RawBytes(f)) = HeaderSize("Request", f.sub) + Len(f.payload)
           /\ RawBytes(f)[15] = ResourceCode[f.resource]
           /\ f.sub = "SEE" => RawBytes(f)[16] = TargetCode[f.target]
           /\ \A i \in 1..Len(f.payload) : RawBytes(f)[HeaderSize("Request", f.sub) + i] = f.payload[i]
<1> DEFINE codes == CodesOfRequest(f)
           raw == RawBytes(f)
           size == Digits[4][DeclaredSize("Request", f.sub, Len(f.payload))]
           h == HeaderSize("Request", f.sub)
<1>1. /\ f.type = "Request" /\ f.sub \in DOMAIN OperationCode /\ f.id \in Nat /\ f.payload \in Bytes
      /\ f.resource \in DOMAIN ResourceCode /\ ValidRequest(f) /\ f.id < Huge /\ 16 + Len(f.payload) < Huge
  BY DEF WritableRequest, RequestFrames
<1>2. codes \in Bytes /\ 14 + Len(codes) = h /\ codes[1] = ResourceCode[f.resource]
  <2>1. ResourceCode[f.resource] \in Byte
    BY <1>1, CodesAreBytes
  <2>2. CASE f.sub = "SEE"
    <3>1. TargetCode[f.target] \in Byte
      BY <1>1, <2>2, CodesAreBytes DEF ValidRequest
    <3> QED BY <2>1, <2>2, <3>1 DEF CodesOfRequest, HeaderSize, IdEnd, Bytes
  <2>3. CASE f.sub # "SEE"
    BY <2>1, <2>3 DEF CodesOfRequest, HeaderSize, IdEnd, Bytes
  <2> QED BY <2>2, <2>3
<1>3. f.sub = "SEE" => codes[2] = TargetCode[f.target] /\ Len(codes) = 2
  BY DEF CodesOfRequest
<1>4. Len(codes) \in Nat /\ Len(codes) >= 1
  <2>1. h = 15 \/ h = 16
    BY HeaderSizes
  <2>2. Len(codes) \in Nat
    BY <1>2 DEF Bytes
  <2> HIDE DEF h, codes
  <2> QED BY <1>2, <2>1, <2>2
<1>5. raw = size \o <<TypeCode["Request"], OperationCode[f.sub]>> \o Digits[8][f.id] \o codes \o f.payload
  <2>1. Valid(f) /\ CodesOf["Request"] = OperationCode
    BY <1>1, SMTT(60) DEF Valid, CodesOf
  <2> QED BY <1>1, <2>1, Zenon DEF RawBytes, CodesOfRequest
<1> HIDE DEF codes, raw
<1>6. /\ Headed(raw, "Request", f.sub, f.id)
      /\ Parts(raw, size, TypeCode["Request"], OperationCode[f.sub], Digits[8][f.id], codes, f.payload)
  <2>1. CodesOf["Request"] = OperationCode
    BY DEF CodesOf
  <2> QED BY <1>1, <1>2, <1>5, <2>1, RawHeaded
<1> HIDE DEF size, h
<1>7. /\ Len(raw) = h + Len(f.payload)
      /\ \A i \in 1..Len(codes) : raw[14 + i] = codes[i]
      /\ \A i \in 1..Len(f.payload) : raw[h + i] = f.payload[i]
  <2>1. /\ Len(raw) = 14 + Len(codes) + Len(f.payload)
        /\ \A i \in 1..Len(codes) : raw[14 + i] = codes[i]
        /\ \A i \in 1..Len(f.payload) : raw[14 + Len(codes) + i] = f.payload[i]
    BY <1>6 DEF Parts
  <2>2. 14 + Len(codes) = h
    BY <1>2
  <2> QED BY <2>1, <2>2
<1>8. raw[15] = ResourceCode[f.resource]
  <2>1. raw[14 + 1] = codes[1]
    BY <1>4, <1>7
  <2> QED BY <1>2, <2>1
<1>9. f.sub = "SEE" => raw[16] = TargetCode[f.target]
  <2>1. ASSUME f.sub = "SEE" PROVE raw[14 + 2] = codes[2]
    <3>0. Len(codes) = 2
      BY <1>3, <2>1, Zenon
    <3>1. 2 \in 1..Len(codes)
      BY <3>0
    <3> QED BY <1>7, <3>1
  <2> QED BY <1>3, <2>1
<1> QED BY <1>6, <1>7, <1>8, <1>9 DEF raw, h

\* A request is parsed to what it was made from.
THEOREM RequestParsed ==
    ASSUME NEW f, WritableRequest(f)
    PROVE  ParseRequest(RawBytes(f)) = f /\ f # Thrown
<1> DEFINE raw == RawBytes(f)
           g == [type |-> "Request", sub |-> GetSubType(raw), id |-> Read(raw, SubTypeEnd, 8),
                 resource |-> Named(ResourceCode, Read(raw, IdEnd, 1)),
                 target   |-> IF GetSubType(raw) = "SEE" THEN Named(TargetCode, Read(raw, IdEnd + 1, 1))
                              ELSE "NoTarget",
                 payload  |-> GetPayload(raw)]
<1>1. /\ f \in RequestFrames
      /\ f.type = "Request" /\ f.sub \in DOMAIN OperationCode /\ f.id \in Nat /\ f.payload \in Bytes
      /\ f.resource \in DOMAIN ResourceCode /\ ValidRequest(f) /\ f.id < Huge
      /\ f.target \in DOMAIN TargetCode \cup {"NoTarget"}
  BY DEF WritableRequest, RequestFrames
<1>2. /\ Headed(raw, "Request", f.sub, f.id)
      /\ Len(raw) = HeaderSize("Request", f.sub) + Len(f.payload)
      /\ raw[15] = ResourceCode[f.resource]
      /\ f.sub = "SEE" => raw[16] = TargetCode[f.target]
      /\ \A i \in 1..Len(f.payload) : raw[HeaderSize("Request", f.sub) + i] = f.payload[i]
  BY RequestRaw
<1> HIDE DEF raw
<1>3. /\ raw \in Bytes /\ Len(raw) \in Nat /\ Len(raw) >= 15
      /\ f.sub = "SEE" => Len(raw) >= 16
  <2>1. raw \in Bytes /\ Len(raw) >= HeaderSize("Request", f.sub)
    BY <1>2 DEF Headed
  <2>2. HeaderSize("Request", f.sub) = IF f.sub = "SEE" THEN 16 ELSE 15
    BY DEF HeaderSize, IdEnd
  <2> QED BY <2>1, <2>2 DEF Bytes
<1>4. GetSubType(raw) = f.sub /\ GetType(raw) = "Request"
  BY <1>2, <1>3, BeginsAs
<1>5. Read(raw, SubTypeEnd, 8) = f.id
  BY <1>2, IdIs
<1>6. Named(ResourceCode, Read(raw, IdEnd, 1)) = f.resource
  <2>1. Read(raw, 14, 1) = raw[14 + 1]
    BY <1>3, ReadByte
  <2> QED BY <1>1, <1>2, <2>1, CodesDiffer, NamedIs DEF IdEnd
<1>7. (IF f.sub = "SEE" THEN Named(TargetCode, Read(raw, IdEnd + 1, 1)) ELSE "NoTarget") = f.target
  <2>1. CASE f.sub = "SEE"
    <3>1. Read(raw, 15, 1) = raw[15 + 1]
      BY <1>3, <2>1, ReadByte
    <3>2. f.target \in DOMAIN TargetCode
      BY <1>1, <2>1 DEF ValidRequest
    <3> QED BY <1>2, <2>1, <3>1, <3>2, CodesDiffer, NamedIs DEF IdEnd
  <2>2. CASE f.sub # "SEE"
    BY <1>1, <2>2 DEF ValidRequest
  <2> QED BY <2>1, <2>2
<1>8. GetPayload(raw) = f.payload
  <2>1. /\ Headed(raw, "Request", f.sub, f.id) /\ f.payload \in Bytes
        /\ Len(raw) = HeaderSize("Request", f.sub) + Len(f.payload)
        /\ \A i \in 1..Len(f.payload) : raw[HeaderSize("Request", f.sub) + i] = f.payload[i]
    BY <1>1, <1>2
  <2> DEFINE p == f.payload
             s == f.sub
             d == f.id
  <2>2. /\ Headed(raw, "Request", s, d) /\ p \in Bytes /\ Len(raw) = HeaderSize("Request", s) + Len(p)
        /\ \A i \in 1..Len(p) : raw[HeaderSize("Request", s) + i] = p[i]
    BY <2>1
  <2> HIDE DEF p, s, d
  <2>3. GetPayload(raw) = p
    BY <2>2, PayloadIs
  <2> QED BY <2>3 DEF p
<1>9. g = f
  <2>1. g = [type |-> "Request", sub |-> f.sub, id |-> f.id, resource |-> f.resource, target |-> f.target,
             payload |-> f.payload]
    BY <1>4, <1>5, <1>6, <1>7, <1>8
  <2> QED BY <1>1, <2>1 DEF RequestFrames
<1>10. ~ \E k \in DOMAIN f : f[k] = Thrown
  <2>1. DOMAIN f = {"type", "sub", "id", "resource", "target", "payload"}
    BY <1>1 DEF RequestFrames
  <2>2. f.type \in Names /\ f.sub \in Names /\ f.resource \in Names /\ f.target \in Names
    <3>1. "Request" \in DOMAIN TypeCode
      BY DEF TypeCode
    <3> QED BY <1>1, <3>1 DEF Names
  <2> QED BY <1>1, <2>1, <2>2, ThrownIsNot
<1>11. Valid(f)
  BY <1>1 DEF Valid
<1>12. ParseRequest(raw) =
           IF GetType(raw) # "Request" \/ (\E k \in DOMAIN g : g[k] = Thrown) \/ ~Valid(g) THEN Thrown ELSE g
  BY Zenon DEF ParseRequest
<1> HIDE DEF g
<1> QED BY <1>1, <1>4, <1>9, <1>10, <1>11, <1>12, ThrownIsNot DEF raw

\* A response that can be written.
WritableResponse(f) ==
    f \in ResponseFrames /\ ValidResponse(f) /\ f.id < Huge /\ 16 + Len(f.payload) < Huge

\* The bytes of a response: the header says what it is and how long.
LEMMA ResponseRaw ==
    ASSUME NEW f, WritableResponse(f)
    PROVE  /\ Headed(RawBytes(f), "Response", f.sub, f.id)
           /\ Len(RawBytes(f)) = HeaderSize("Response", f.sub) + Len(f.payload)
           /\ RawBytes(f)[15] = CardinalityCode[f.cardinality]
           /\ \A i \in 1..Len(f.payload) : RawBytes(f)[HeaderSize("Response", f.sub) + i] = f.payload[i]
<1> DEFINE codes == <<CardinalityCode[f.cardinality]>>
           raw == RawBytes(f)
           size == Digits[4][DeclaredSize("Response", f.sub, Len(f.payload))]
           h == HeaderSize("Response", f.sub)
<1>1. /\ f.type = "Response" /\ f.sub \in DOMAIN ResponseCode /\ f.id \in Nat /\ f.payload \in Bytes
      /\ f.cardinality \in DOMAIN CardinalityCode /\ ValidResponse(f) /\ f.id < Huge
      /\ 16 + Len(f.payload) < Huge
  BY DEF WritableResponse, ResponseFrames
<1>2. codes \in Bytes /\ 14 + Len(codes) = h /\ codes[1] = CardinalityCode[f.cardinality] /\ Len(codes) = 1
  <2>1. CardinalityCode[f.cardinality] \in Byte
    BY <1>1, CodesAreBytes
  <2> QED BY <2>1 DEF HeaderSize, IdEnd, Bytes
<1>3. raw = size \o <<TypeCode["Response"], ResponseCode[f.sub]>> \o Digits[8][f.id] \o codes \o f.payload
  <2>1. Valid(f) /\ CodesOf["Response"] = ResponseCode
    BY <1>1 DEF Valid, CodesOf
  <2>2. "Response" # "Request"
    BY ZenonT(60)
  <2> QED BY <1>1, <2>1, <2>2, Zenon DEF RawBytes
<1> HIDE DEF codes, raw
<1>4. /\ Headed(raw, "Response", f.sub, f.id)
      /\ Parts(raw, size, TypeCode["Response"], ResponseCode[f.sub], Digits[8][f.id], codes, f.payload)
  <2>1. CodesOf["Response"] = ResponseCode
    BY DEF CodesOf
  <2> QED BY <1>1, <1>2, <1>3, <2>1, RawHeaded
<1> HIDE DEF size, h
<1>5. /\ Len(raw) = h + Len(f.payload)
      /\ \A i \in 1..Len(codes) : raw[14 + i] = codes[i]
      /\ \A i \in 1..Len(f.payload) : raw[h + i] = f.payload[i]
  <2>1. /\ Len(raw) = 14 + Len(codes) + Len(f.payload)
        /\ \A i \in 1..Len(codes) : raw[14 + i] = codes[i]
        /\ \A i \in 1..Len(f.payload) : raw[14 + Len(codes) + i] = f.payload[i]
    BY <1>4 DEF Parts
  <2>2. 14 + Len(codes) = h
    BY <1>2
  <2> QED BY <2>1, <2>2
<1>6. raw[15] = CardinalityCode[f.cardinality]
  <2>1. raw[14 + 1] = codes[1]
    BY <1>2, <1>5
  <2> QED BY <1>2, <2>1
<1> QED BY <1>4, <1>5, <1>6 DEF raw, h

\* A response is parsed to what it was made from.
THEOREM ResponseParsed ==
    ASSUME NEW f, WritableResponse(f)
    PROVE  ParseFrame(RawBytes(f)) = f /\ ParseAnswer(RawBytes(f)) = f /\ f # Thrown
<1> DEFINE raw == RawBytes(f)
           g == [type |-> "Response", sub |-> GetSubType(raw), id |-> Read(raw, SubTypeEnd, 8),
                 cardinality |-> Named(CardinalityCode, Read(raw, IdEnd, 1)),
                 payload |-> GetPayload(raw)]
<1>1. /\ f \in ResponseFrames
      /\ f.type = "Response" /\ f.sub \in DOMAIN ResponseCode /\ f.id \in Nat /\ f.payload \in Bytes
      /\ f.cardinality \in DOMAIN CardinalityCode /\ ValidResponse(f) /\ f.id < Huge
  BY DEF WritableResponse, ResponseFrames
<1>2. /\ Headed(raw, "Response", f.sub, f.id)
      /\ Len(raw) = HeaderSize("Response", f.sub) + Len(f.payload)
      /\ raw[15] = CardinalityCode[f.cardinality]
      /\ \A i \in 1..Len(f.payload) : raw[HeaderSize("Response", f.sub) + i] = f.payload[i]
  BY ResponseRaw
<1> HIDE DEF raw
<1>3. raw \in Bytes /\ Len(raw) \in Nat /\ Len(raw) >= 15
  <2>1. raw \in Bytes /\ Len(raw) >= HeaderSize("Response", f.sub)
    BY <1>2 DEF Headed
  <2>2. HeaderSize("Response", f.sub) = 15
    BY DEF HeaderSize, IdEnd
  <2> QED BY <2>1, <2>2 DEF Bytes
<1>4. GetSubType(raw) = f.sub /\ GetType(raw) = "Response"
  BY <1>2, <1>3, BeginsAs
<1>5. Read(raw, SubTypeEnd, 8) = f.id
  BY <1>2, IdIs
<1>6. Named(CardinalityCode, Read(raw, IdEnd, 1)) = f.cardinality
  <2>1. Read(raw, 14, 1) = raw[14 + 1]
    BY <1>3, ReadByte
  <2> QED BY <1>1, <1>2, <2>1, CodesDiffer, NamedIs DEF IdEnd
<1>7. GetPayload(raw) = f.payload
  <2> DEFINE p == f.payload
             s == f.sub
             d == f.id
  <2>1. /\ Headed(raw, "Response", s, d) /\ p \in Bytes /\ Len(raw) = HeaderSize("Response", s) + Len(p)
        /\ \A i \in 1..Len(p) : raw[HeaderSize("Response", s) + i] = p[i]
    BY <1>1, <1>2
  <2> HIDE DEF p, s, d
  <2>2. GetPayload(raw) = p
    BY <2>1, PayloadIs
  <2> QED BY <2>2 DEF p
<1>8. g = f
  <2>1. g = [type |-> "Response", sub |-> f.sub, id |-> f.id, cardinality |-> f.cardinality,
             payload |-> f.payload]
    BY <1>4, <1>5, <1>6, <1>7
  <2> QED BY <1>1, <2>1 DEF ResponseFrames
<1>9. ~ \E k \in DOMAIN f : f[k] = Thrown
  <2>1. DOMAIN f = {"type", "sub", "id", "cardinality", "payload"}
    BY <1>1 DEF ResponseFrames
  <2>2. f.type \in Names /\ f.sub \in Names /\ f.cardinality \in Names
    <3>1. "Response" \in DOMAIN TypeCode
      BY DEF TypeCode
    <3> QED BY <1>1, <3>1 DEF Names
  <2> QED BY <1>1, <2>1, <2>2, ThrownIsNot
<1>10. Valid(f)
  BY <1>1 DEF Valid
<1>11. ParseResponse(raw) = IF (\E k \in DOMAIN g : g[k] = Thrown) \/ ~Valid(g) THEN Thrown ELSE g
  BY Zenon DEF ParseResponse
<1> HIDE DEF g
<1>12. ParseFrame(raw) = ParseResponse(raw)
  <2>1. "Response" # "Request" /\ "Response" # "Error"
    OBVIOUS
  <2>2. "Response" # Thrown
    <3>1. "Response" \in DOMAIN TypeCode
      BY DEF TypeCode
    <3> QED BY <3>1, ThrownIsNot DEF Names
  <2> QED BY <1>4, <2>1, <2>2, Zenon DEF ParseFrame
<1>13. ParseAnswer(raw) = ParseFrame(raw)
  BY <1>4 DEF ParseAnswer
<1> QED BY <1>1, <1>8, <1>9, <1>10, <1>11, <1>12, <1>13, ThrownIsNot DEF raw

-----------------------------------------------------------------------------
(* Frames lined up in a stream of bytes. *)

\* What the clients and the server write.
Frames == {f \in RequestFrames : WritableRequest(f)} \cup {f \in ResponseFrames : WritableResponse(f)}

\* The bytes of a frame have a header.
LEMMA RawIs ==
    ASSUME NEW f \in Frames
    PROVE  /\ RawBytes(f) \in Bytes /\ Len(RawBytes(f)) \in Nat /\ Len(RawBytes(f)) >= 15
           /\ \E type, sub, id : Headed(RawBytes(f), type, sub, id)
<1>1. \E type, sub, id : Headed(RawBytes(f), type, sub, id)
  <2>1. CASE f \in RequestFrames /\ WritableRequest(f)
    BY <2>1, RequestRaw
  <2>2. CASE f \in ResponseFrames /\ WritableResponse(f)
    BY <2>2, ResponseRaw
  <2> QED BY <2>1, <2>2 DEF Frames
<1> DEFINE raw == RawBytes(f)
<1> HIDE DEF raw
<1>2. PICK type, sub, id : Headed(raw, type, sub, id)
  BY <1>1 DEF raw
<1>3. raw \in Bytes /\ type \in {"Request", "Response"} /\ Len(raw) >= HeaderSize(type, sub)
  BY <1>2 DEF Headed
<1>4. HeaderSize(type, sub) = 15 \/ HeaderSize(type, sub) = 16
  BY <1>3, HeaderSizes
<1>5. Len(raw) \in Nat
  BY <1>3 DEF Bytes
<1>6. Len(raw) >= 15
  BY <1>3, <1>4, <1>5
<1> QED BY <1>1, <1>3, <1>5, <1>6 DEF raw

\* off says where the frames begin, the first of which is the one behind the m-th.
Marks(off, bytes, fs, m) ==
    /\ off \in [Nat -> Int] /\ off[m] = 0 /\ off[Len(fs)] = Len(bytes)
    /\ \A i, j \in Nat : m <= i /\ i <= j /\ j <= Len(fs) => off[i] <= off[j]
    /\ \A i \in Nat : m <= i /\ i < Len(fs) => off[i + 1] = off[i] + Len(RawBytes(fs[i + 1]))
    /\ \A i \in Nat : m <= i /\ i < Len(fs) =>
          \A k \in 1..Len(RawBytes(fs[i + 1])) : bytes[off[i] + k] = RawBytes(fs[i + 1])[k]

\* The bytes are those of the frames behind the m-th.
Lined(bytes, fs, m) ==
    /\ bytes \in Bytes /\ fs \in Seq(Frames) /\ m \in Nat /\ m <= Len(fs)
    /\ \E off : Marks(off, bytes, fs, m)

\* Behind the last frame is nothing.
LEMMA LineEnds ==
    ASSUME NEW fs \in Seq(Frames)
    PROVE  /\ Lined(<<>>, fs, Len(fs))
           /\ \A bytes : Lined(bytes, fs, Len(fs)) => bytes = <<>>
<1> DEFINE n == Len(fs)
           off == [i \in Nat |-> 0]
<1>1. n \in Nat
  OBVIOUS
<1>2. <<>> \in Bytes /\ Len(<<>>) = 0
  BY DEF Bytes
<1> HIDE DEF n
<1>3. Marks(off, <<>>, fs, n)
  BY <1>1, <1>2 DEF Marks, n
<1>4. ASSUME NEW bytes, Lined(bytes, fs, n) PROVE bytes = <<>>
  <2>1. bytes \in Bytes
    BY <1>4 DEF Lined
  <2>2. Len(bytes) = 0
    BY <1>4 DEF Lined, Marks, n
  <2> QED BY <2>1, <2>2 DEF Bytes
<1>5. Lined(<<>>, fs, n)
  <2> HIDE DEF off
  <2> QED BY <1>1, <1>2, <1>3 DEF Lined, n
<1> QED BY <1>4, <1>5 DEF n

\* A frame put behind.
LEMMA LineGrows ==
    ASSUME NEW bytes, NEW fs, NEW m, Lined(bytes, fs, m), NEW f \in Frames
    PROVE  Lined(bytes \o RawBytes(f), Append(fs, f), m)
<1> DEFINE raw == RawBytes(f)
           gs == Append(fs, f)
           n == Len(fs)
           all == bytes \o raw
<1>1. /\ bytes \in Bytes /\ Len(bytes) \in Nat /\ fs \in Seq(Frames) /\ n \in Nat /\ m \in Nat /\ m <= n
  BY DEF Lined, Bytes
<1>2. PICK off : Marks(off, bytes, fs, m)
  BY DEF Lined
<1>3. /\ gs \in Seq(Frames) /\ Len(gs) = n + 1 /\ gs[n + 1] = f
      /\ \A i \in Nat : i < n => gs[i + 1] = fs[i + 1] /\ fs[i + 1] \in Frames
  BY <1>1
<1>4. raw \in Bytes /\ Len(raw) \in Nat
  BY RawIs
<1>5. /\ all \in Bytes /\ Len(all) = Len(bytes) + Len(raw)
      /\ \A i \in 1..Len(bytes) : all[i] = bytes[i]
      /\ \A i \in 1..Len(raw) : all[Len(bytes) + i] = raw[i]
  <2>1. Joined(bytes, raw, all)
    BY <1>1, <1>4, JoinIs
  <2> HIDE DEF all, raw
  <2> QED BY <2>1 DEF Joined
<1> DEFINE end == [i \in Nat |-> IF i = n + 1 THEN Len(all) ELSE off[i]]
<1>6. /\ off \in [Nat -> Int] /\ off[m] = 0 /\ off[n] = Len(bytes)
      /\ \A i, j \in Nat : m <= i /\ i <= j /\ j <= n => off[i] <= off[j]
      /\ \A i \in Nat : m <= i /\ i < n => off[i + 1] = off[i] + Len(RawBytes(fs[i + 1]))
      /\ \A i \in Nat : m <= i /\ i < n =>
            \A k \in 1..Len(RawBytes(fs[i + 1])) : bytes[off[i] + k] = RawBytes(fs[i + 1])[k]
  BY <1>2 DEF Marks
<1> HIDE DEF all, raw, gs, n
<1>7. Marks(end, all, gs, m)
  <2>1. /\ end \in [Nat -> Int] /\ end[m] = 0 /\ end[n + 1] = Len(all)
        /\ \A i \in Nat : i <= n => end[i] = off[i]
    BY <1>1, <1>4, <1>5, <1>6, SMTT(60)
  <2> HIDE DEF end
  <2>2. ASSUME NEW i \in Nat, NEW j \in Nat, m <= i, i <= j, j <= n + 1 PROVE end[i] <= end[j]
    <3>1. CASE j <= n
      <4>1. i <= n /\ m \in Nat /\ n \in Nat
        BY <1>1, <2>2, <3>1
      <4>2. off[i] <= off[j]
        BY <1>6, <2>2, <3>1
      <4>3. end[i] = off[i] /\ end[j] = off[j]
        BY <2>1, <3>1, <4>1
      <4> QED BY <4>2, <4>3
    <3>2. CASE j = n + 1 /\ i <= n
      <4>1. off[i] <= off[n]
        BY <1>1, <1>6, <2>2, <3>2
      <4>2. off[i] \in Int /\ off[n] = Len(bytes)
        BY <1>6
      <4>3. end[i] = off[i] /\ end[j] = Len(all)
        BY <2>1, <3>2
      <4>4. Len(all) >= Len(bytes) /\ Len(all) \in Int
        BY <1>1, <1>4, <1>5
      <4> QED BY <1>1, <4>1, <4>2, <4>3, <4>4
    <3>3. CASE i = n + 1
      <4>1. j = i /\ end[i] \in Int
        BY <1>1, <2>1, <2>2, <3>3
      <4> QED BY <4>1
    <3> QED BY <1>1, <2>2, <3>1, <3>2, <3>3
  <2>3. ASSUME NEW i \in Nat, m <= i, i < n + 1
        PROVE  /\ end[i + 1] = end[i] + Len(RawBytes(gs[i + 1]))
               /\ \A k \in 1..Len(RawBytes(gs[i + 1])) : all[end[i] + k] = RawBytes(gs[i + 1])[k]
    <3>1. CASE i < n
      <4> DEFINE r == RawBytes(fs[i + 1])
      <4>1. gs[i + 1] = fs[i + 1] /\ r \in Bytes /\ Len(r) \in Nat
        BY <1>3, <3>1, RawIs
      <4>2. /\ end[i] = off[i] /\ end[i + 1] = off[i + 1] /\ off[i + 1] = off[i] + Len(r)
            /\ off[i] \in Int /\ off[m] <= off[i] /\ off[i + 1] <= off[n]
            /\ \A k \in 1..Len(r) : bytes[off[i] + k] = r[k]
        <5>1. i + 1 \in Nat /\ i + 1 <= n /\ i <= n /\ m <= i + 1 /\ m <= m /\ n <= n
          BY <1>1, <2>3, <3>1
        <5>2. off[m] <= off[i] /\ off[i + 1] <= off[n]
          BY <1>1, <1>6, <2>3, <5>1
        <5> QED BY <1>1, <1>6, <2>1, <2>3, <3>1, <5>1, <5>2
      <4> HIDE DEF r
      <4>3. ASSUME NEW k \in 1..Len(r) PROVE all[end[i] + k] = r[k]
        <5>0. off[m] = 0 /\ off[n] = Len(bytes)
          BY <1>6
        <5>1. off[i] + k \in 1..Len(bytes)
          <6> DEFINE x == off[i]
                     b == Len(bytes)
                     q == Len(r)
          <6>1. x \in Int /\ 0 <= x /\ x + q <= b /\ b \in Nat /\ q \in Nat /\ k \in 1..q
            BY <1>1, <4>1, <4>2, <4>3, <5>0
          <6> HIDE DEF x, b, q
          <6>2. x + k \in 1..b
            BY <6>1
          <6> QED BY <6>2 DEF x, b
        <5> QED BY <1>5, <4>2, <4>3, <5>1
      <4> QED BY <4>1, <4>2, <4>3 DEF r
    <3>2. CASE i = n
      <4>1. gs[i + 1] = f /\ end[i] = Len(bytes) /\ end[i + 1] = Len(bytes) + Len(raw)
        BY <1>1, <1>3, <1>5, <1>6, <2>1, <3>2
      <4> QED BY <1>5, <4>1 DEF raw
    <3> QED BY <1>1, <2>3, <3>1, <3>2
  <2> QED BY <1>1, <1>3, <2>1, <2>2, <2>3 DEF Marks
<1>8. Lined(all, gs, m)
  <2> HIDE DEF end
  <2>1. m <= Len(gs)
    BY <1>1, <1>3
  <2> QED BY <1>1, <1>3, <1>5, <1>7, <2>1 DEF Lined
<1> QED BY <1>8 DEF all, raw, gs

\* The frame in front, and what is behind it.
LEMMA LineShrinks ==
    ASSUME NEW bytes, NEW fs, NEW m, Lined(bytes, fs, m), m # Len(fs)
    PROVE  LET raw == RawBytes(fs[m + 1])
           IN  /\ fs[m + 1] \in Frames /\ Len(raw) <= Len(bytes)
               /\ \A k \in 1..Len(raw) : bytes[k] = raw[k]
               /\ Lined(SubSeq(bytes, Len(raw) + 1, Len(bytes)), fs, m + 1)
<1> DEFINE raw == RawBytes(fs[m + 1])
           n == Len(fs)
           l == Len(raw)
           rest == SubSeq(bytes, l + 1, Len(bytes))
<1>1. /\ bytes \in Bytes /\ Len(bytes) \in Nat /\ fs \in Seq(Frames) /\ n \in Nat /\ m \in Nat /\ m < n
  BY DEF Lined, Bytes
<1>2. PICK off : Marks(off, bytes, fs, m)
  BY DEF Lined
<1>3. /\ off \in [Nat -> Int] /\ off[m] = 0 /\ off[n] = Len(bytes)
      /\ \A i, j \in Nat : m <= i /\ i <= j /\ j <= n => off[i] <= off[j]
      /\ \A i \in Nat : m <= i /\ i < n => off[i + 1] = off[i] + Len(RawBytes(fs[i + 1]))
      /\ \A i \in Nat : m <= i /\ i < n =>
            \A k \in 1..Len(RawBytes(fs[i + 1])) : bytes[off[i] + k] = RawBytes(fs[i + 1])[k]
  BY <1>2 DEF Marks
<1>4. fs[m + 1] \in Frames /\ raw \in Bytes /\ l \in Nat
  BY <1>1, RawIs
<1>5. off[m + 1] = l /\ l <= Len(bytes) /\ \A k \in 1..l : bytes[k] = raw[k]
  <2>1. off[m + 1] = l /\ off[m + 1] <= off[n]
    BY <1>1, <1>3, <1>4
  <2>2. \A k \in 1..l : bytes[0 + k] = raw[k]
    BY <1>1, <1>3, SMTT(40)
  <2> HIDE DEF l, raw
  <2> QED BY <1>1, <1>3, <1>4, <2>1, <2>2
<1> HIDE DEF l, raw, n
<1>6. /\ rest \in Bytes /\ Len(rest) = Len(bytes) - l
      /\ \A k \in 1..(Len(bytes) - l) : rest[k] = bytes[l + k]
  <2> DEFINE d == Len(bytes) - l
  <2>1. d \in Nat /\ l + d = Len(bytes)
    BY <1>1, <1>4, <1>5
  <2> HIDE DEF d
  <2>2. /\ SubSeq(bytes, l + 1, l + d) \in Bytes /\ Len(SubSeq(bytes, l + 1, l + d)) = d
        /\ \A k \in 1..d : SubSeq(bytes, l + 1, l + d)[k] = bytes[l + k]
    BY <1>1, <1>4, <2>1, PartIs DEF Bytes
  <2> QED BY <2>1, <2>2 DEF d
<1> HIDE DEF rest
<1> DEFINE cut == [i \in Nat |-> off[i] - l]
<1>7. Marks(cut, rest, fs, m + 1)
  <2>1. cut \in [Nat -> Int] /\ \A i \in Nat : cut[i] = off[i] - l
    BY <1>3, <1>4
  <2> HIDE DEF cut
  <2>2. cut[m + 1] = 0 /\ cut[n] = Len(rest)
    <3>1. m + 1 \in Nat /\ n \in Nat
      BY <1>1
    <3>2. cut[m + 1] = off[m + 1] - l /\ cut[n] = off[n] - l
      BY <2>1, <3>1
    <3> QED BY <1>3, <1>4, <1>5, <1>6, <3>2
  <2>3. ASSUME NEW i \in Nat, NEW j \in Nat, m + 1 <= i, i <= j, j <= n PROVE cut[i] <= cut[j]
    <3>1. off[i] <= off[j] /\ off[i] \in Int /\ off[j] \in Int
      BY <1>1, <1>3, <2>3, SMTT(40)
    <3> QED BY <1>4, <2>1, <3>1
  <2>4. ASSUME NEW i \in Nat, m + 1 <= i, i < n
        PROVE  /\ cut[i + 1] = cut[i] + Len(RawBytes(fs[i + 1]))
               /\ \A k \in 1..Len(RawBytes(fs[i + 1])) : rest[cut[i] + k] = RawBytes(fs[i + 1])[k]
    <3> DEFINE r == RawBytes(fs[i + 1])
    <3>1. r \in Bytes /\ Len(r) \in Nat
      <4>1. fs[i + 1] \in Frames
        BY <1>1, <2>4 DEF n
      <4> QED BY <4>1, RawIs
    <3>2. /\ off[i + 1] = off[i] + Len(r) /\ off[i] \in Int /\ off[i + 1] \in Int
          /\ off[m + 1] <= off[i] /\ off[i + 1] <= off[n]
          /\ \A k \in 1..Len(r) : bytes[off[i] + k] = r[k]
      <4>1. m <= i /\ i + 1 \in Nat /\ m + 1 \in Nat /\ m <= m + 1 /\ i + 1 <= n /\ i <= n /\ m <= i + 1 /\ n <= n
        BY <1>1, <2>4
      <4>2. off[m + 1] <= off[i] /\ off[i + 1] <= off[n]
        BY <1>1, <1>3, <2>4, <4>1
      <4> QED BY <1>3, <2>4, <4>1, <4>2
    <3> HIDE DEF r
    <3>3. cut[i + 1] = cut[i] + Len(r)
      <4>1. i + 1 \in Nat
        OBVIOUS
      <4>2. cut[i] = off[i] - l /\ cut[i + 1] = off[i + 1] - l
        BY <2>1, <4>1
      <4>3. off[i + 1] = off[i] + Len(r) /\ off[i] \in Int /\ Len(r) \in Nat /\ l \in Nat
        BY <1>4, <3>1, <3>2
      <4> QED BY <4>2, <4>3, SMTT(60)
    <3>4. ASSUME NEW k \in 1..Len(r) PROVE rest[cut[i] + k] = r[k]
      <4> DEFINE x == off[i]
                 b == Len(bytes)
                 q == Len(r)
      <4>0. x \in Int /\ b \in Nat /\ q \in Nat /\ l \in Nat /\ l <= x /\ x + q <= b /\ cut[i] = x - l /\ k \in 1..q
        <5>1. off[m + 1] = l /\ off[n] = b
          BY <1>3, <1>5
        <5> QED BY <1>1, <1>4, <2>1, <3>1, <3>2, <3>4, <5>1
      <4> HIDE DEF x, b, q
      <4>1. cut[i] + k \in 1..(b - l) /\ l + (cut[i] + k) = x + k
        BY <4>0
      <4> USE DEF x, b
      <4> QED BY <1>6, <3>2, <3>4, <4>1
    <3> QED BY <3>3, <3>4 DEF r
  <2> QED BY <1>1, <2>1, <2>2, <2>3, <2>4 DEF Marks, n
<1>8. Lined(rest, fs, m + 1)
  <2> HIDE DEF cut
  <2>1. m + 1 \in Nat /\ m + 1 <= Len(fs)
    BY <1>1 DEF n
  <2> QED BY <1>1, <1>6, <1>7, <2>1 DEF Lined
<1> QED BY <1>4, <1>5, <1>8 DEF rest, l, raw

-----------------------------------------------------------------------------
(* Frames taken off the front of a buffer. *)

\* One step of taking frames.
TakeStep(before) ==
    LET frame == GetFrame(before.rest)
    IN IF HasFrame(before.rest) # "YES" THEN before
       ELSE [frames |-> Append(before.frames, frame),
             rest   |-> SubSeq(before.rest, Len(frame) + 1, Len(before.rest))]

\* f holds what the first steps leave.
Takes(f, buffer, n) ==
    /\ f[0] = [frames |-> <<>>, rest |-> buffer]
    /\ \A k \in Nat : k < n => f[k + 1] = TakeStep(f[k])

\* The recursive function of Taken exists.
LEMMA TakenIs ==
    ASSUME NEW buffer, NEW n \in Nat
    PROVE  \E f : Takes(f, buffer, n) /\ Taken(buffer, n) = f[n]
<1> DEFINE a == [frames |-> <<>>, rest |-> buffer]
           E(f, m) == [k \in 0..m |-> IF k = 0 THEN a ELSE TakeStep(f[k - 1])]
           T == {m \in Nat : \E f : f = E(f, m)}
           taken == CHOOSE f : f = E(f, n)
<1>1. 0 \in T
  <2> DEFINE f == [k \in 0..0 |-> a]
  <2>1. f = E(f, 0)
    OBVIOUS
  <2> HIDE DEF f, E
  <2> QED BY <2>1
<1>2. ASSUME NEW m \in T PROVE m + 1 \in T
  <2>1. m \in Nat /\ m + 1 \in Nat
    OBVIOUS
  <2>2. PICK f : f = E(f, m)
    OBVIOUS
  <2> DEFINE x == TakeStep(f[m])
             g == [k \in 0..(m + 1) |-> IF k = m + 1 THEN x ELSE f[k]]
  <2>3. \A k \in 0..m : f[k] = IF k = 0 THEN a ELSE TakeStep(f[k - 1])
    <3> HIDE DEF a
    <3> QED BY <2>2
  <2>4. ASSUME NEW k \in 0..(m + 1) PROVE g[k] = IF k = 0 THEN a ELSE TakeStep(g[k - 1])
    <3> HIDE DEF a, x
    <3>1. CASE k = m + 1
      <4>1. k # 0 /\ k - 1 = m /\ m \in 0..(m + 1) /\ m # m + 1
        BY <2>1, <3>1
      <4>2. g[k] = x /\ g[k - 1] = f[m]
        BY <3>1, <4>1
      <4> QED BY <4>1, <4>2 DEF x
    <3>2. CASE k # m + 1 /\ k = 0
      BY <2>1, <2>3, <3>2
    <3>3. CASE k # m + 1 /\ k # 0
      <4>1. k \in 0..m /\ k - 1 \in 0..(m + 1) /\ k - 1 # m + 1
        BY <2>1, <3>3
      <4>2. g[k] = f[k] /\ g[k - 1] = f[k - 1]
        BY <3>3, <4>1
      <4> QED BY <2>3, <3>3, <4>1, <4>2
    <3> QED BY <3>1, <3>2, <3>3
  <2>5. g = E(g, m + 1)
    <3>1. g = [k \in 0..(m + 1) |-> g[k]]
      OBVIOUS
    <3> HIDE DEF g, a
    <3> QED BY <2>4, <3>1
  <2> HIDE DEF g, E
  <2> QED BY <2>1, <2>5
<1>3. taken = E(taken, n)
  <2>1. T = Nat
    <3>1. T \in SUBSET Nat
      OBVIOUS
    <3> HIDE DEF T
    <3> QED BY <1>1, <1>2, <3>1, NaturalInduction
  <2>2. \E f : f = E(f, n)
    <3>1. n \in T
      BY <2>1
    <3> HIDE DEF E
    <3> QED BY <3>1
  <2> HIDE DEF E
  <2> QED BY <2>2
<1>4. Taken(buffer, n) = taken[n]
  BY Zenon DEF Taken, TakeStep
<1>5. \A k \in 0..n : taken[k] = IF k = 0 THEN a ELSE TakeStep(taken[k - 1])
  <2> DEFINE t == taken
  <2>1. t = E(t, n)
    BY <1>3
  <2> HIDE DEF t, a
  <2>2. \A k \in 0..n : t[k] = IF k = 0 THEN a ELSE TakeStep(t[k - 1])
    BY <2>1
  <2> QED BY <2>2 DEF t
<1> HIDE DEF taken
<1>6. taken[0] = a
  BY <1>5
<1>7. ASSUME NEW k \in Nat, k < n PROVE taken[k + 1] = TakeStep(taken[k])
  <2> HIDE DEF a
  <2>1. k + 1 \in 0..n /\ k + 1 # 0 /\ (k + 1) - 1 = k
    BY <1>7
  <2> QED BY <1>5, <2>1
<1> QED BY <1>4, <1>6, <1>7 DEF Takes

\* raw is the frame in front of which rest holds the first bytes, or all.
HeldAhead(rest, beyond, fs, p, raw) ==
    /\ HasFrame(rest) = IF rest = <<>> THEN "NO" ELSE IF Len(rest) >= Len(raw) THEN "YES" ELSE "INCOMPLETE"
    /\ Len(rest) >= Len(raw) =>
         /\ GetFrame(rest) = raw
         /\ SubSeq(rest, Len(raw) + 1, Len(rest)) \in Bytes
         /\ Len(SubSeq(rest, Len(raw) + 1, Len(rest))) = Len(rest) - Len(raw)
         /\ Lined(SubSeq(rest, Len(raw) + 1, Len(rest)) \o beyond, fs, p + 1)

\* The bytes in front of a line of frames: no frame, a piece of the next one or
\* all of it, which comes off whole.
LEMMA FrontIs ==
    ASSUME NEW rest \in Bytes, NEW beyond \in Bytes, NEW fs, NEW p, Lined(rest \o beyond, fs, p)
    PROVE  /\ p = Len(fs) => rest = <<>> /\ HasFrame(rest) = "NO"
           /\ p # Len(fs) => fs[p + 1] \in Frames /\ HeldAhead(rest, beyond, fs, p, RawBytes(fs[p + 1]))
<1> DEFINE all == rest \o beyond
<1>1. /\ Len(rest) \in Nat /\ Len(beyond) \in Nat /\ Len(all) = Len(rest) + Len(beyond) /\ all \in Bytes
      /\ \A i \in 1..Len(rest) : all[i] = rest[i]
      /\ \A i \in 1..Len(beyond) : all[Len(rest) + i] = beyond[i]
  <2>1. Joined(rest, beyond, all)
    BY JoinIs
  <2> HIDE DEF all
  <2> QED BY <2>1 DEF Joined, Bytes
<1>2. fs \in Seq(Frames) /\ Lined(all, fs, p) /\ p \in Nat
  BY DEF Lined
<1> HIDE DEF all
<1>3. ASSUME rest = <<>> PROVE HasFrame(rest) = "NO"
  <2>1. Len(rest) = 0
    BY <1>3
  <2> QED BY <2>1 DEF HasFrame
<1>4. ASSUME p = Len(fs) PROVE rest = <<>>
  <2>1. all = <<>>
    BY <1>2, <1>4, LineEnds
  <2>2. Len(rest) = 0
    BY <1>1, <2>1
  <2> QED BY <2>2 DEF Bytes
<1>5. ASSUME p # Len(fs) PROVE fs[p + 1] \in Frames /\ HeldAhead(rest, beyond, fs, p, RawBytes(fs[p + 1]))
  <2> DEFINE raw == RawBytes(fs[p + 1])
             l == Len(raw)
             behind == SubSeq(all, l + 1, Len(all))
             left == SubSeq(rest, l + 1, Len(rest))
  <2>1. /\ fs[p + 1] \in Frames /\ l <= Len(all)
        /\ \A k \in 1..l : all[k] = raw[k]
        /\ Lined(behind, fs, p + 1)
    BY <1>2, <1>5, LineShrinks
  <2>2. raw \in Bytes /\ l \in Nat /\ l >= 15 /\ \E type, sub, id : Headed(raw, type, sub, id)
    BY <2>1, RawIs
  <2> HIDE DEF raw
  <2>3. PICK type, sub, id : Headed(raw, type, sub, id)
    BY <2>2
  <2>4. CASE Len(rest) < 6
    <3>1. ~ (Len(rest) >= l)
      BY <1>1, <2>2, <2>4
    <3>2. rest # <<>> => HasFrame(rest) = "INCOMPLETE"
      <4>1. rest # <<>> => Len(rest) # 0
        BY DEF Bytes
      <4> QED BY <2>4, <4>1 DEF HasFrame, SubTypeEnd
    <3> QED BY <1>3, <2>1, <3>1, <3>2 DEF raw, HeldAhead
  <2>5. CASE Len(rest) >= 6
    <3>1. rest # <<>>
      BY <2>5
    <3>2. \A i \in 1..Len(rest) : i <= Len(raw) => rest[i] = raw[i]
      <4> HIDE DEF l
      <4>1. ASSUME NEW i \in 1..Len(rest), i <= l PROVE rest[i] = raw[i]
        <5>1. i \in 1..l
          BY <2>2, <4>1
        <5> QED BY <1>1, <2>1, <5>1
      <4> QED BY <4>1 DEF l
    <3>3. /\ HasFrame(rest) = IF Len(rest) >= Len(raw) THEN "YES" ELSE "INCOMPLETE"
          /\ Len(rest) >= Len(raw) => GetFrame(rest) = raw
      BY <2>3, <2>5, <3>2, BeginsAs
    <3>4. ASSUME Len(rest) >= l
          PROVE  left \in Bytes /\ Len(left) = Len(rest) - l /\ left \o beyond = behind
      <4> DEFINE d == Len(rest) - l
                 e == Len(all) - l
      <4>1. d \in Nat /\ l + d = Len(rest) /\ e \in Nat /\ l + e = Len(all) /\ e = d + Len(beyond)
        BY <1>1, <2>2, <3>4
      <4> HIDE DEF d, e, l, all
      <4>2. /\ SubSeq(rest, l + 1, l + d) \in Bytes /\ Len(SubSeq(rest, l + 1, l + d)) = d
            /\ \A k \in 1..d : SubSeq(rest, l + 1, l + d)[k] = rest[l + k]
        BY <2>2, <4>1, PartIs DEF Bytes
      <4>3. left \in Bytes /\ Len(left) = d /\ \A k \in 1..d : left[k] = rest[l + k]
        BY <4>1, <4>2
      <4>4. /\ SubSeq(all, l + 1, l + e) \in Bytes /\ Len(SubSeq(all, l + 1, l + e)) = e
            /\ \A k \in 1..e : SubSeq(all, l + 1, l + e)[k] = all[l + k]
        BY <1>1, <2>2, <4>1, PartIs DEF Bytes
      <4>5. behind \in Bytes /\ Len(behind) = e /\ \A k \in 1..e : behind[k] = all[l + k]
        BY <4>1, <4>4
      <4> HIDE DEF left, behind
      <4>6. Joined(left, beyond, left \o beyond)
        BY <4>3, JoinIs
      <4> DEFINE both == left \o beyond
      <4>7. /\ both \in Bytes /\ Len(both) = e
            /\ \A k \in 1..d : both[k] = rest[l + k]
            /\ \A k \in 1..Len(beyond) : both[d + k] = beyond[k]
        BY <4>1, <4>3, <4>6 DEF Joined
      <4> HIDE DEF both
      <4>8. ASSUME NEW k \in 1..e PROVE both[k] = behind[k]
        <5>1. CASE k <= d
          <6>1. k \in 1..d /\ l + k \in 1..Len(rest)
            BY <1>1, <2>2, <4>1, <5>1
          <6> QED BY <1>1, <4>5, <4>7, <6>1
        <5>2. CASE k > d
          <6>1. PICK j \in 1..Len(beyond) : k = d + j
            BY <1>1, <4>1, <5>2
          <6>2. Len(rest) + j = l + k
            <7> DEFINE q == Len(rest)
            <7>1. q \in Nat /\ l + d = q /\ d \in Nat /\ l \in Nat /\ j \in Nat /\ k = d + j
              BY <1>1, <2>2, <4>1, <6>1
            <7> HIDE DEF q
            <7>2. q + j = l + k
              BY <7>1
            <7> QED BY <7>2 DEF q
          <6>3. both[k] = beyond[j]
            BY <4>7, <6>1
          <6>4. all[l + k] = beyond[j]
            BY <1>1, <6>1, <6>2
          <6> QED BY <4>5, <6>3, <6>4
        <5> QED BY <4>1, <5>1, <5>2
      <4>9. both = behind
        BY <4>5, <4>7, <4>8, SeqEqual DEF Bytes
      <4> QED BY <4>3, <4>9 DEF both, d
    <3>5. HasFrame(rest) = IF rest = <<>> THEN "NO" ELSE IF Len(rest) >= l THEN "YES" ELSE "INCOMPLETE"
      BY <3>1, <3>3
    <3>6. Len(rest) >= l => /\ GetFrame(rest) = raw /\ left \in Bytes /\ Len(left) = Len(rest) - l
                            /\ Lined(left \o beyond, fs, p + 1)
      <4> HIDE DEF left, behind
      <4> QED BY <2>1, <3>3, <3>4
    <3> QED BY <2>1, <3>5, <3>6, Zenon DEF raw, HeldAhead
  <2> QED BY <1>1, <2>4, <2>5 DEF raw
<1> QED BY <1>3, <1>4, <1>5 DEF all

\* What steps have taken: the frames behind the m-th up to the p-th.
Stage(s, k, size, beyond, fs, m, p) ==
    /\ m \in Nat /\ p \in Nat /\ m <= p /\ p <= Len(fs)
    /\ s.frames \in Seq(Bytes) /\ Len(s.frames) = p - m
    /\ \A i \in 1..(p - m) : s.frames[i] = RawBytes(fs[m + i])
    /\ s.rest \in Bytes /\ Lined(s.rest \o beyond, fs, p)
    /\ HasFrame(s.rest) # "YES" \/ Len(s.rest) + 14 * k <= size

\* A step takes the next frame when it is whole.
LEMMA NextStage ==
    ASSUME NEW s, NEW k \in Nat, NEW size \in Nat, NEW beyond \in Bytes, NEW fs, NEW m, NEW p,
           Stage(s, k, size, beyond, fs, m, p)
    PROVE  \E q : Stage(TakeStep(s), k + 1, size, beyond, fs, m, q)
<1> DEFINE rest == s.rest
           raw == RawBytes(fs[p + 1])
           left == SubSeq(rest, Len(raw) + 1, Len(rest))
           t == TakeStep(s)
<1>1. /\ m \in Nat /\ p \in Nat /\ m <= p /\ p <= Len(fs)
      /\ s.frames \in Seq(Bytes) /\ Len(s.frames) = p - m
      /\ \A i \in 1..(p - m) : s.frames[i] = RawBytes(fs[m + i])
      /\ rest \in Bytes /\ Lined(rest \o beyond, fs, p)
      /\ HasFrame(rest) # "YES" \/ Len(rest) + 14 * k <= size
  BY DEF Stage
<1>2. Len(rest) \in Nat /\ fs \in Seq(Frames)
  BY <1>1 DEF Bytes, Lined
<1> HIDE DEF rest
<1>3. CASE HasFrame(rest) # "YES"
  <2>1. t = s
    BY <1>3 DEF TakeStep, rest
  <2>2. Stage(s, k + 1, size, beyond, fs, m, p)
    BY <1>1, <1>3 DEF Stage, rest
  <2> QED BY <2>1, <2>2
<1>4. CASE HasFrame(rest) = "YES"
  <2>1. p # Len(fs)
    <3>1. p = Len(fs) => HasFrame(rest) = "NO"
      BY <1>1, FrontIs
    <3> QED BY <1>4, <3>1
  <2>2. fs[p + 1] \in Frames /\ HeldAhead(rest, beyond, fs, p, raw)
    BY <1>1, <2>1, FrontIs
  <2>3. raw \in Bytes /\ Len(raw) \in Nat /\ Len(raw) >= 15
    BY <2>2, RawIs
  <2> HIDE DEF raw
  <2>4. Len(rest) >= Len(raw)
    BY <1>4, <2>2 DEF HeldAhead
  <2>5. GetFrame(rest) = raw /\ left \in Bytes /\ Len(left) = Len(rest) - Len(raw) /\ Lined(left \o beyond, fs, p + 1)
    BY <2>2, <2>4 DEF HeldAhead
  <2> HIDE DEF left
  <2>6. t = [frames |-> Append(s.frames, raw), rest |-> left]
    BY <1>4, <2>5 DEF TakeStep, rest, left
  <2> HIDE DEF t
  <2> DEFINE gs == Append(s.frames, raw)
  <2>7. gs \in Seq(Bytes) /\ Len(gs) = (p + 1) - m /\ \A i \in 1..((p + 1) - m) : gs[i] = RawBytes(fs[m + i])
    <3>1. gs \in Seq(Bytes) /\ Len(gs) = (p + 1) - m
      BY <1>1, <2>3
    <3>2. ASSUME NEW i \in 1..((p + 1) - m) PROVE gs[i] = RawBytes(fs[m + i])
      <4>1. CASE i \in 1..(p - m)
        <5>1. gs[i] = s.frames[i]
          BY <1>1, <2>3, <4>1
        <5> QED BY <1>1, <4>1, <5>1
      <4>2. CASE i = p - m + 1
        <5>1. m + i = p + 1
          BY <1>1, <4>2
        <5>2. gs[i] = raw
          BY <1>1, <2>3, <4>2
        <5> QED BY <5>1, <5>2 DEF raw
      <4> QED BY <1>1, <4>1, <4>2
    <3> QED BY <3>1, <3>2
  <2> HIDE DEF gs
  <2>8. t.frames = gs /\ t.rest = left
    BY <2>6 DEF gs
  <2>9. p + 1 \in Nat /\ m <= p + 1 /\ p + 1 <= Len(fs)
    BY <1>1, <1>2, <2>1
  <2>10. Len(left) + 14 * (k + 1) <= size
    <3> DEFINE x == Len(rest)
               y == Len(raw)
    <3>1. x + 14 * k <= size /\ x \in Nat /\ y \in Nat /\ y >= 15 /\ Len(left) = x - y
      BY <1>1, <1>2, <1>4, <2>3, <2>5
    <3> HIDE DEF x, y
    <3> QED BY <3>1
  <2>11. Stage(t, k + 1, size, beyond, fs, m, p + 1)
    BY <1>1, <2>5, <2>7, <2>8, <2>9, <2>10 DEF Stage
  <2> QED BY <2>11 DEF t
<1> QED BY <1>3, <1>4

\* What taking frames off a buffer gives: the frames that are whole, and a piece
\* of the next one or nothing.
Took(taken, beyond, fs, m, p) ==
    /\ m \in Nat /\ p \in Nat /\ m <= p /\ p <= Len(fs)
    /\ taken.frames \in Seq(Bytes) /\ Len(taken.frames) = p - m
    /\ \A i \in 1..(p - m) : taken.frames[i] = RawBytes(fs[m + i])
    /\ taken.rest \in Bytes /\ Lined(taken.rest \o beyond, fs, p)
    /\ taken.threw = FALSE
    /\ p = Len(fs) => taken.rest = <<>>
    /\ p # Len(fs) => Len(taken.rest) < Len(RawBytes(fs[p + 1]))

\* However a line of frames is cut, the buffer gives them in their order.
THEOREM FramesTaken ==
    ASSUME NEW buffer \in Bytes, NEW beyond \in Bytes, NEW fs, NEW m, Lined(buffer \o beyond, fs, m)
    PROVE  \E p : Took(TakeFrames(buffer), beyond, fs, m, p)
<1> DEFINE n == Len(buffer)
           w == n \div 14
<1>1. n \in Nat /\ m \in Nat /\ m <= Len(fs) /\ fs \in Seq(Frames) /\ w \in Nat /\ n < 14 * w + 14
  <2>1. n \in Nat /\ m \in Nat /\ m <= Len(fs) /\ fs \in Seq(Frames)
    BY DEF Bytes, Lined
  <2> HIDE DEF n
  <2> QED BY <2>1
<1> HIDE DEF n, w
<1>2. PICK f : Takes(f, buffer, w) /\ Taken(buffer, w) = f[w]
  BY <1>1, TakenIs
<1> DEFINE T == {k \in Nat : k <= w => \E p : Stage(f[k], k, n, beyond, fs, m, p)}
<1>3. 0 \in T
  <2> DEFINE a == [frames |-> <<>>, rest |-> buffer]
  <2>1. f[0] = a
    BY <1>2 DEF Takes
  <2>2. a.frames = <<>> /\ a.rest = buffer
    OBVIOUS
  <2> HIDE DEF a
  <2>3. <<>> \in Seq(Bytes) /\ Len(<<>>) = m - m /\ \A i \in 1..(m - m) : <<>>[i] = RawBytes(fs[m + i])
    BY <1>1
  <2>4. Len(buffer) + 14 * 0 <= n
    BY <1>1 DEF n
  <2>5. Stage(a, 0, n, beyond, fs, m, m)
    BY <1>1, <2>2, <2>3, <2>4 DEF Stage
  <2> QED BY <2>1, <2>5
<1>4. ASSUME NEW k \in T PROVE k + 1 \in T
  <2>1. k \in Nat /\ k + 1 \in Nat
    OBVIOUS
  <2>2. ASSUME k + 1 <= w PROVE \E p : Stage(f[k + 1], k + 1, n, beyond, fs, m, p)
    <3>1. k <= w /\ k < w
      BY <1>1, <2>1, <2>2
    <3>2. PICK p : Stage(f[k], k, n, beyond, fs, m, p)
      BY <3>1
    <3>3. f[k + 1] = TakeStep(f[k])
      BY <1>2, <2>1, <3>1 DEF Takes
    <3>4. \E q : Stage(TakeStep(f[k]), k + 1, n, beyond, fs, m, q)
      BY <1>1, <2>1, <3>2, NextStage
    <3> QED BY <3>3, <3>4
  <2> QED BY <2>1, <2>2
<1>5. w \in T
  <2>1. T \in SUBSET Nat
    OBVIOUS
  <2> HIDE DEF T
  <2> QED BY <1>1, <1>3, <1>4, <2>1, NaturalInduction
<1> DEFINE s == f[w]
           rest == s.rest
<1>6. PICK p : Stage(s, w, n, beyond, fs, m, p)
  BY <1>1, <1>5
<1> HIDE DEF s, T
<1>7. /\ m \in Nat /\ p \in Nat /\ m <= p /\ p <= Len(fs)
      /\ s.frames \in Seq(Bytes) /\ Len(s.frames) = p - m
      /\ \A i \in 1..(p - m) : s.frames[i] = RawBytes(fs[m + i])
      /\ rest \in Bytes /\ Lined(rest \o beyond, fs, p)
      /\ HasFrame(rest) # "YES" \/ Len(rest) + 14 * w <= n
  BY <1>6 DEF Stage
<1> HIDE DEF rest
<1>8. Len(rest) \in Nat /\ (rest = <<>> <=> Len(rest) = 0)
  BY <1>7 DEF Bytes
<1>9. /\ p = Len(fs) => rest = <<>> /\ HasFrame(rest) = "NO"
      /\ p # Len(fs) => fs[p + 1] \in Frames /\ HeldAhead(rest, beyond, fs, p, RawBytes(fs[p + 1]))
  BY <1>7, FrontIs
<1>10. "NO" # Thrown /\ "INCOMPLETE" # Thrown
  <2>1. "NO" \in Names /\ "INCOMPLETE" \in Names
    BY DEF Names
  <2> QED BY <2>1, ThrownIsNot
<1>11. p # Len(fs) => HasFrame(rest) # Thrown /\ Len(rest) < Len(RawBytes(fs[p + 1]))
  <2> SUFFICES ASSUME p # Len(fs) PROVE HasFrame(rest) # Thrown /\ Len(rest) < Len(RawBytes(fs[p + 1]))
    OBVIOUS
  <2> DEFINE raw == RawBytes(fs[p + 1])
             l == Len(raw)
  <2>1. l \in Nat /\ l >= 15
    BY <1>9, RawIs
  <2>2. HasFrame(rest) = IF rest = <<>> THEN "NO" ELSE IF Len(rest) >= l THEN "YES" ELSE "INCOMPLETE"
    BY <1>9 DEF HeldAhead
  <2> HIDE DEF raw, l
  <2>3. ~ (Len(rest) >= l)
    <3> SUFFICES ASSUME Len(rest) >= l PROVE FALSE
      OBVIOUS
    <3>1. rest # <<>>
      BY <1>8, <2>1
    <3>2. HasFrame(rest) = "YES"
      BY <2>2, <3>1
    <3>3. Len(rest) + 14 * w <= n
      BY <1>7, <3>2
    <3> QED BY <1>1, <1>8, <2>1, <3>3
  <2>4. HasFrame(rest) \in {"NO", "INCOMPLETE"}
    BY <2>2, <2>3
  <2> QED BY <1>8, <1>10, <2>1, <2>3, <2>4 DEF raw, l
<1> DEFINE taken == TakeFrames(buffer)
<1>12. taken.frames = s.frames /\ taken.rest = rest /\ taken.threw = (HasFrame(rest) = Thrown)
  BY <1>2 DEF TakeFrames, MostFrames, IdEnd, n, w, s, rest
<1> HIDE DEF taken
<1>13. taken.threw = FALSE
  BY <1>9, <1>10, <1>11, <1>12
<1>14. Took(taken, beyond, fs, m, p)
  BY <1>7, <1>9, <1>11, <1>12, <1>13 DEF Took
<1> QED BY <1>14 DEF taken

-----------------------------------------------------------------------------
(* Fields written into an array. *)

\* The fields that lie inside an array of a size.
FieldsIn(size) == {f \in Nat \X Bytes : f[1] + Len(f[2]) <= size}

\* A field inside.
LEMMA FieldIs ==
    ASSUME NEW size \in Nat, NEW o \in Nat, NEW b \in Bytes, o + Len(b) <= size
    PROVE  <<o, b>> \in FieldsIn(size)
  BY DEF FieldsIn

\* A field inside is written, and the array keeps its size.
LEMMA PutIs ==
    ASSUME NEW buffer \in Bytes, NEW f \in FieldsIn(Len(buffer))
    PROVE  Put(buffer, f[1], f[2]) \in Bytes /\ Len(Put(buffer, f[1], f[2])) = Len(buffer)
<1> DEFINE n == Len(buffer)
           o == f[1]
           b == f[2]
           w == Len(b)
           head == SubSeq(buffer, 1, o)
           tail == SubSeq(buffer, o + w + 1, n)
<1>1. n \in Nat /\ o \in Nat /\ b \in Bytes /\ w \in Nat /\ o + w <= n
  BY DEF FieldsIn, Bytes
<1> HIDE DEF n, o, b, w
<1>2. head \in Bytes /\ Len(head) = o
  <2>1. 0 + o <= Len(buffer)
    BY <1>1 DEF n
  <2>2. SubSeq(buffer, 0 + 1, 0 + o) \in Bytes /\ Len(SubSeq(buffer, 0 + 1, 0 + o)) = o
    BY <1>1, <2>1, PartIs DEF Bytes
  <2>3. 0 + 1 = 1 /\ 0 + o = o
    BY <1>1
  <2> QED BY <2>2, <2>3
<1>3. tail \in Bytes /\ Len(tail) = n - (o + w)
  <2> DEFINE x == o + w
             d == n - x
  <2>1. x \in Nat /\ d \in Nat /\ x + d = n
    BY <1>1
  <2> HIDE DEF x, d
  <2>2. SubSeq(buffer, x + 1, x + d) \in Bytes /\ Len(SubSeq(buffer, x + 1, x + d)) = d
    BY <2>1, PartIs DEF Bytes, n
  <2> QED BY <2>1, <2>2 DEF x, d
<1> HIDE DEF head, tail
<1>4. head \o b \in Bytes /\ Len(head \o b) = o + w
  <2>1. Joined(head, b, head \o b)
    BY <1>1, <1>2, JoinIs
  <2> DEFINE s == head \o b
  <2> HIDE DEF s
  <2>2. s \in Bytes /\ Len(s) = o + w
    BY <1>2, <2>1 DEF Joined, s, w
  <2> QED BY <2>2 DEF s
<1> DEFINE s == head \o b
           t == s \o tail
<1>5. t \in Bytes /\ Len(t) = n
  <2> HIDE DEF s
  <2>1. s \in Bytes /\ Len(s) = o + w
    BY <1>4 DEF s
  <2>2. Joined(s, tail, t)
    BY <1>3, <2>1, JoinIs
  <2> HIDE DEF t
  <2>3. Len(t) = (o + w) + (n - (o + w)) /\ t \in Bytes
    BY <1>3, <2>1, <2>2 DEF Joined
  <2> QED BY <1>1, <2>3
<1>6. ~ (o + w > n)
  BY <1>1
<1>7. Put(buffer, o, b) = t
  BY <1>6, OutsideAssumption, Zenon DEF Put, head, tail, n, w
<1> HIDE DEF t
<1> QED BY <1>5, <1>7 DEF n, o, b

\* g holds what the first fields make of the array.
Puts(g, buffer, fields) ==
    /\ g[0] = buffer
    /\ \A k \in Nat : k < Len(fields) => g[k + 1] = Put(g[k], fields[k + 1][1], fields[k + 1][2])

\* The recursive function of PutAll exists.
LEMMA PutAllRecurs ==
    ASSUME NEW buffer, NEW S, NEW fields \in Seq(S)
    PROVE  \E g : Puts(g, buffer, fields) /\ PutAll(buffer, fields) = g[Len(fields)]
<1> DEFINE n == Len(fields)
           Wrote(h, k) == Put(h[k - 1], fields[k][1], fields[k][2])
           E(h, m) == [k \in 0..m |-> IF k = 0 THEN buffer ELSE Wrote(h, k)]
           T == {m \in Nat : \E h : h = E(h, m)}
           put == CHOOSE h : h = E(h, n)
<1>0. n \in Nat
  OBVIOUS
<1> HIDE DEF n
<1>1. 0 \in T
  <2> DEFINE f == [k \in 0..0 |-> buffer]
  <2>1. f = E(f, 0)
    OBVIOUS
  <2> HIDE DEF f, E
  <2> QED BY <2>1
<1>2. ASSUME NEW m \in T PROVE m + 1 \in T
  <2>1. m \in Nat /\ m + 1 \in Nat
    OBVIOUS
  <2>2. PICK f : f = E(f, m)
    OBVIOUS
  <2> DEFINE x == Put(f[m], fields[m + 1][1], fields[m + 1][2])
             g == [k \in 0..(m + 1) |-> IF k = m + 1 THEN x ELSE f[k]]
  <2>3. \A k \in 0..m : f[k] = IF k = 0 THEN buffer ELSE Put(f[k - 1], fields[k][1], fields[k][2])
    BY <2>2
  <2>4. ASSUME NEW k \in 0..(m + 1)
        PROVE  g[k] = IF k = 0 THEN buffer ELSE Put(g[k - 1], fields[k][1], fields[k][2])
    <3> HIDE DEF x
    <3>1. CASE k = m + 1
      <4>1. k # 0 /\ k - 1 = m /\ m \in 0..(m + 1) /\ m # m + 1
        BY <2>1, <3>1
      <4>2. g[k] = x /\ g[k - 1] = f[m]
        BY <3>1, <4>1
      <4>3. x = Put(f[m], fields[k][1], fields[k][2])
        BY <3>1, Zenon DEF x
      <4> QED BY <4>1, <4>2, <4>3
    <3>2. CASE k # m + 1 /\ k = 0
      BY <2>1, <2>3, <3>2
    <3>3. CASE k # m + 1 /\ k # 0
      <4>1. k \in 0..m /\ k - 1 \in 0..(m + 1) /\ k - 1 # m + 1
        BY <2>1, <3>3
      <4>2. g[k] = f[k] /\ g[k - 1] = f[k - 1]
        BY <3>3, <4>1
      <4> QED BY <2>3, <3>3, <4>1, <4>2
    <3> QED BY <3>1, <3>2, <3>3
  <2>5. g = E(g, m + 1)
    <3>1. g = [k \in 0..(m + 1) |-> g[k]]
      OBVIOUS
    <3> HIDE DEF g
    <3> QED BY <2>4, <3>1
  <2> HIDE DEF g, E
  <2> QED BY <2>1, <2>5
<1>3. put = E(put, n)
  <2>1. T = Nat
    <3>1. T \in SUBSET Nat
      OBVIOUS
    <3> HIDE DEF T
    <3> QED BY <1>1, <1>2, <3>1, NaturalInduction
  <2>2. \E f : f = E(f, n)
    <3>1. n \in T
      BY <1>0, <2>1
    <3> HIDE DEF E
    <3> QED BY <3>1
  <2> HIDE DEF E
  <2> QED BY <2>2
<1>4. PutAll(buffer, fields) = put[n]
  BY Zenon DEF PutAll, n
<1>5. \A k \in 0..n : put[k] = IF k = 0 THEN buffer ELSE Put(put[k - 1], fields[k][1], fields[k][2])
  <2> DEFINE t == put
  <2>1. t = E(t, n)
    BY <1>3
  <2> HIDE DEF t
  <2>2. \A k \in 0..n : t[k] = IF k = 0 THEN buffer ELSE Put(t[k - 1], fields[k][1], fields[k][2])
    BY <2>1
  <2> QED BY <2>2 DEF t
<1> HIDE DEF put
<1>6. put[0] = buffer
  BY <1>0, <1>5
<1>7. ASSUME NEW k \in Nat, k < n PROVE put[k + 1] = Put(put[k], fields[k + 1][1], fields[k + 1][2])
  <2>1. k + 1 \in 0..n /\ k + 1 # 0 /\ (k + 1) - 1 = k
    BY <1>0, <1>7
  <2> QED BY <1>5, <2>1
<1> QED BY <1>4, <1>6, <1>7 DEF Puts, n

\* Fields inside are written, and the array keeps its size.
LEMMA PutAllIs ==
    ASSUME NEW buffer \in Bytes, NEW size, size = Len(buffer), NEW fields \in Seq(FieldsIn(size))
    PROVE  PutAll(buffer, fields) \in Bytes /\ Len(PutAll(buffer, fields)) = size
<1> DEFINE n == Len(fields)
           S == FieldsIn(size)
<1>1. n \in Nat /\ \A k \in 1..n : fields[k] \in FieldsIn(Len(buffer))
  OBVIOUS
<1>2. PICK g : Puts(g, buffer, fields) /\ PutAll(buffer, fields) = g[n]
  <2> HIDE DEF S
  <2>1. fields \in Seq(S)
    BY DEF S
  <2> QED BY <2>1, PutAllRecurs
<1>3. g[0] = buffer /\ \A k \in Nat : k < n => g[k + 1] = Put(g[k], fields[k + 1][1], fields[k + 1][2])
  BY <1>2 DEF Puts
<1> DEFINE T == {k \in Nat : k <= n => g[k] \in Bytes /\ Len(g[k]) = Len(buffer)}
<1> HIDE DEF n
<1>4. 0 \in T
  BY <1>3
<1>5. ASSUME NEW k \in T PROVE k + 1 \in T
  <2>1. k \in Nat /\ k + 1 \in Nat
    OBVIOUS
  <2>2. ASSUME k + 1 <= n PROVE g[k + 1] \in Bytes /\ Len(g[k + 1]) = Len(buffer)
    <3>1. k < n /\ k <= n /\ k + 1 \in 1..n
      BY <1>1, <2>1, <2>2
    <3>2. g[k] \in Bytes /\ Len(g[k]) = Len(buffer)
      BY <3>1
    <3>3. fields[k + 1] \in FieldsIn(Len(g[k]))
      BY <1>1, <3>1, <3>2
    <3>4. Put(g[k], fields[k + 1][1], fields[k + 1][2]) \in Bytes
          /\ Len(Put(g[k], fields[k + 1][1], fields[k + 1][2])) = Len(g[k])
      BY <3>2, <3>3, PutIs
    <3> QED BY <1>3, <2>1, <3>1, <3>2, <3>4
  <2> QED BY <2>1, <2>2
<1>6. n \in T
  <2>1. T \in SUBSET Nat
    OBVIOUS
  <2> HIDE DEF T
  <2> QED BY <1>1, <1>4, <1>5, <2>1, NaturalInduction
<1> QED BY <1>1, <1>2, <1>6

-----------------------------------------------------------------------------
(* What is serialised. *)

\* The numbers that are read back are numbers.
LEMMA NumbersAre ==
    /\ \A v \in Numbers : v \in Int
    /\ \A v \in IdNumbers : v \in Int /\ v \in Nat /\ v < Huge
<1>0. Huge \in Int
  BY SMT DEF Huge
<1>1. \A v \in Numbers : v \in Int
  BY <1>0 DEF Numbers
<1>2. \A v \in IdNumbers : v \in Int /\ v \in Nat /\ v < Huge
  BY <1>0 DEF IdNumbers
<1> QED BY <1>1, <1>2

\* What the parts of the entities are.
LEMMA EntitiesAre ==
    /\ \A c \in Creatures : /\ c.gender \in DOMAIN GenderByte /\ c.specie \in DOMAIN SpecieValue
                             /\ c.x \in Int /\ c.y \in Int /\ c.id \in Int /\ c.name \in Bytes
    /\ \A c \in Corpses : /\ c.id \in Int /\ c.rawMeat \in Int /\ c.x \in Int /\ c.y \in Int
                           /\ c.width \in Int /\ c.height \in Int
    /\ Territory.width \in Int /\ Territory.height \in Int
<1>1. ASSUME NEW c \in Creatures
      PROVE  /\ c.gender \in DOMAIN GenderByte /\ c.specie \in DOMAIN SpecieValue
             /\ c.x \in Int /\ c.y \in Int /\ c.id \in Int /\ c.name \in Bytes
  <2>1. /\ c.gender \in DOMAIN GenderByte /\ c.specie \in DOMAIN SpecieValue
        /\ c.x \in Numbers /\ c.y \in Numbers /\ c.id \in IdNumbers /\ c.name \in Bytes
    BY EntitiesAssumption
  <2> QED BY <2>1, NumbersAre
<1>2. ASSUME NEW c \in Corpses
      PROVE  /\ c.id \in Int /\ c.rawMeat \in Int /\ c.x \in Int /\ c.y \in Int
             /\ c.width \in Int /\ c.height \in Int
  <2>1. /\ c.id \in IdNumbers /\ c.rawMeat \in Numbers /\ c.x \in Numbers /\ c.y \in Numbers
        /\ c.width \in Numbers /\ c.height \in Numbers
    BY EntitiesAssumption
  <2> QED BY <2>1, NumbersAre
<1>3. Territory.width \in Int /\ Territory.height \in Int
  <2>1. Territory.width \in Numbers /\ Territory.height \in Numbers
    BY EntitiesAssumption
  <2> QED BY <2>1, NumbersAre
<1> QED BY <1>1, <1>2, <1>3

\* What the arguments of a call are.
LEMMA CallsAre ==
    ASSUME NEW call \in Calls
    PROVE  \/ call.op \in {"see_creature", "see_corpse", "see_soil"} /\ call.id \in Int
           \/ call.op \in {"see_all_soils", "see_territory"}
           \/ /\ call.op = "make_creature"
              /\ call.gender = Nothing \/ call.gender \in DOMAIN GenderByte
              /\ call.specie = Nothing \/ call.specie \in DOMAIN SpecieValue
              /\ call.position = Nothing \/ (call.position[1] \in Int /\ call.position[2] \in Int)
              /\ call.name = Nothing \/ (call.name \in Bytes /\ 22 + Len(call.name) <= CreateSize)
<1>1. call.id \in IdNumbers => call.id \in Int
  BY NumbersAre
<1>2. call.position \in Numbers \X Numbers => call.position[1] \in Int /\ call.position[2] \in Int
  BY NumbersAre
<1> QED BY <1>1, <1>2, CallsAssumption, Zenon

\* A single byte, and two of them.
LEMMA ByteAlone ==
    /\ \A b \in Byte : <<b>> \in Bytes /\ Len(<<b>>) = 1
    /\ \A b, c \in Byte : <<b, c>> \in Bytes /\ Len(<<b, c>>) = 2
    /\ <<>> \in Bytes /\ Len(<<>>) = 0
  BY DEF Bytes

\* The length of what is put together.
LEMMA JoinLength ==
    ASSUME NEW s \in Bytes, NEW t \in Bytes PROVE s \o t \in Bytes /\ Len(s \o t) = Len(s) + Len(t)
<1> DEFINE r == s \o t
<1>1. Joined(s, t, r)
  BY JoinIs
<1> HIDE DEF r
<1>2. r \in Bytes /\ Len(r) = Len(s) + Len(t)
  BY <1>1 DEF Joined
<1> QED BY <1>2 DEF r

\* The same byte many times.
LEMMA Filled ==
    ASSUME NEW n \in Nat, NEW b \in Byte
    PROVE  [i \in 1..n |-> b] \in Bytes /\ Len([i \in 1..n |-> b]) = n
  BY DEF Bytes

\* An array of zeros.
LEMMA ZerosAre == ASSUME NEW n \in Nat PROVE Zeros(n) \in Bytes /\ Len(Zeros(n)) = n
<1>1. 0 \in Byte
  BY ByteIs
<1> QED BY <1>1, Filled DEF Zeros

\* Positions and sizes.
LEMMA PairsAre ==
    ASSUME NEW x \in Int, NEW y \in Int
    PROVE  /\ SerializeVec(x, y) \in Bytes /\ Len(SerializeVec(x, y)) = 16
           /\ SerializeSize(x, y) \in Bytes /\ Len(SerializeSize(x, y)) = 16
<1>1. Digits[8][x] \in Bytes /\ Len(Digits[8][x]) = 8 /\ Digits[8][y] \in Bytes /\ Len(Digits[8][y]) = 8
  BY DigitsOf
<1> DEFINE s == Digits[8][x]
           t == Digits[8][y]
<1> HIDE DEF s, t
<1>2. s \o t \in Bytes /\ Len(s \o t) = 8 + 8
  BY <1>1, JoinLength DEF s, t
<1> QED BY <1>2 DEF SerializeVec, SerializeSize, s, t

\* The numbers of the enums are bytes.
LEMMA EnumsAreBytes ==
    /\ \A g \in DOMAIN GenderByte : GenderByte[g] \in Byte
    /\ \A s \in DOMAIN SpecieValue : SpecieValue[s] \in Byte
    /\ \A s \in DOMAIN SoilTypeValue : SoilTypeValue[s] \in Byte
    /\ \A p \in DOMAIN PropertyByte : PropertyByte[p] \in Byte
    /\ \A m \in DOMAIN MoveValue : MoveValue[m] \in Byte
<1>1. 0 \in Byte /\ 1 \in Byte /\ 2 \in Byte /\ 3 \in Byte
  BY ByteIs
<1>2. \A g \in DOMAIN GenderByte : GenderByte[g] \in Byte
  BY <1>1 DEF GenderByte
<1>3. \A s \in DOMAIN SpecieValue : SpecieValue[s] \in Byte
  BY <1>1 DEF SpecieValue
<1>4. \A s \in DOMAIN SoilTypeValue : SoilTypeValue[s] \in Byte
  BY <1>1 DEF SoilTypeValue
<1>5. \A p \in DOMAIN PropertyByte : PropertyByte[p] \in Byte
  BY <1>1 DEF PropertyByte
<1>6. \A m \in DOMAIN MoveValue : MoveValue[m] \in Byte
  BY <1>1 DEF MoveValue
<1> QED BY <1>2, <1>3, <1>4, <1>5, <1>6

\* Fields of one byte, of a number and of a pair of numbers.
LEMMA ByteField ==
    ASSUME NEW size \in Nat, NEW o \in Nat, NEW b \in Byte, o + 1 <= size
    PROVE  <<o, <<b>> >> \in FieldsIn(size)
<1> DEFINE s == <<b>>
<1>1. s \in Bytes /\ Len(s) = 1
  BY ByteAlone
<1> HIDE DEF s
<1>2. <<o, s>> \in FieldsIn(size)
  BY <1>1, FieldIs
<1> QED BY <1>2 DEF s

\* A number inside an array.
LEMMA NumberField ==
    ASSUME NEW size \in Nat, NEW o \in Nat, NEW w \in Nat, NEW v \in Int, o + w <= size
    PROVE  <<o, Digits[w][v]>> \in FieldsIn(size)
<1> DEFINE s == Digits[w][v]
<1>1. s \in Bytes /\ Len(s) = w
  BY DigitsOf
<1> HIDE DEF s
<1>2. <<o, s>> \in FieldsIn(size)
  BY <1>1, FieldIs
<1> QED BY <1>2 DEF s

\* A position or a size inside an array.
LEMMA PairField ==
    ASSUME NEW size \in Nat, NEW o \in Nat, NEW x \in Int, NEW y \in Int, o + 16 <= size
    PROVE  <<o, SerializeVec(x, y)>> \in FieldsIn(size) /\ <<o, SerializeSize(x, y)>> \in FieldsIn(size)
<1> DEFINE s == SerializeVec(x, y)
           t == SerializeSize(x, y)
<1>1. s \in Bytes /\ Len(s) = 16 /\ t \in Bytes /\ Len(t) = 16
  BY PairsAre
<1> HIDE DEF s, t
<1>2. <<o, s>> \in FieldsIn(size) /\ <<o, t>> \in FieldsIn(size)
  BY <1>1, FieldIs
<1> QED BY <1>2 DEF s, t

\* A corpse is serialised.
LEMMA CorpseIs ==
    ASSUME NEW c \in Corpses
    PROVE  SerializeCorpse(c) \in Bytes /\ Len(SerializeCorpse(c)) = CorpseSize
<1> DEFINE F == FieldsIn(44)
           f1 == <<0, Digits[8][c.id]>>
           f2 == <<8, Digits[4][c.rawMeat]>>
           f3 == <<12, SerializeVec(c.x, c.y)>>
           f4 == <<28, SerializeSize(c.width, c.height)>>
<1>1. /\ c.id \in Int /\ c.rawMeat \in Int /\ c.x \in Int /\ c.y \in Int
      /\ c.width \in Int /\ c.height \in Int
  BY EntitiesAre
<1>2. /\ 44 \in Nat /\ 0 \in Nat /\ 4 \in Nat /\ 8 \in Nat /\ 12 \in Nat /\ 28 \in Nat
      /\ 0 + 8 <= 44 /\ 8 + 4 <= 44 /\ 12 + 16 <= 44 /\ 28 + 16 <= 44
  OBVIOUS
<1>3. f1 \in F /\ f2 \in F /\ f3 \in F /\ f4 \in F
  BY <1>1, <1>2, PairField, NumberField, Zenon
<1>4. SerializeCorpse(c) = PutAll(Zeros(44), <<f1, f2, f3, f4>>)
  BY Zenon DEF SerializeCorpse, CorpseSize
<1> HIDE DEF f1, f2, f3, f4, F
<1> DEFINE fields == <<f1, f2, f3, f4>>
<1>5. fields \in Seq(F)
  BY <1>3
<1> HIDE DEF fields
<1>6. PutAll(Zeros(44), fields) \in Bytes /\ Len(PutAll(Zeros(44), fields)) = 44
  <2>1. Zeros(44) \in Bytes /\ 44 = Len(Zeros(44)) /\ fields \in Seq(FieldsIn(44))
    BY <1>5, ZerosAre DEF F
  <2> QED BY <2>1, PutAllIs
<1> QED BY <1>4, <1>6 DEF CorpseSize, fields

-----------------------------------------------------------------------------
(* Signed numbers read back. *)

\* What Horner's rule makes of a sequence of bytes, byte by byte.
LEMMA AccumulateIs ==
    ASSUME NEW start \in Int
    PROVE  /\ Accumulate(start, <<>>) = start
           /\ \A bytes \in Bytes : Accumulate(start, bytes) \in Int
           /\ \A bytes \in Bytes, b \in Byte :
                  Accumulate(start, Append(bytes, b)) = Saturating(Accumulate(start, bytes), b)
<1>1. <<>> \in Bytes /\ Len(<<>>) = 0
  BY DEF Bytes
<1>2. Accumulate(start, <<>>) = start
  <2>1. PICK u : Horner(u, start, <<>>) /\ Accumulate(start, <<>>) = u[Len(<<>>)]
    BY <1>1, HornerIs
  <2> QED BY <1>1, <2>1 DEF Horner
<1>3. ASSUME NEW bytes \in Bytes PROVE Accumulate(start, bytes) \in Int
  <2>1. PICK u : Horner(u, start, bytes) /\ Accumulate(start, bytes) = u[Len(bytes)]
    BY HornerIs
  <2>2. Len(bytes) \in 0..Len(bytes)
    BY DEF Bytes
  <2> QED BY <2>1, <2>2 DEF Horner
<1>4. ASSUME NEW bytes \in Bytes, NEW b \in Byte
      PROVE  Accumulate(start, Append(bytes, b)) = Saturating(Accumulate(start, bytes), b)
  <2> DEFINE more == Append(bytes, b)
  <2>1. more \in Bytes /\ Len(bytes) \in Nat /\ Len(more) = Len(bytes) + 1 /\ more[Len(bytes) + 1] = b
    BY DEF Bytes
  <2>2. PICK u : Horner(u, start, bytes) /\ Accumulate(start, bytes) = u[Len(bytes)]
    BY HornerIs
  <2>3. PICK v : Horner(v, start, more) /\ Accumulate(start, more) = v[Len(more)]
    <3> HIDE DEF more
    <3> QED BY <2>1, HornerIs
  <2>4. u[Len(bytes)] = v[Len(bytes)]
    BY <2>2, <2>3, HornerAgrees
  <2>5. v[Len(bytes) + 1] = Saturating(v[Len(bytes)], more[Len(bytes) + 1])
    <3> HIDE DEF more
    <3> QED BY <2>1, <2>3 DEF Horner
  <2> HIDE DEF more
  <2> QED BY <2>1, <2>2, <2>3, <2>4, <2>5 DEF more
<1> QED BY <1>2, <1>3, <1>4

\* Horner's rule makes this value of the bytes.
Makes(start, bytes, v) == Accumulate(start, bytes) = v

\* One digit more, of a number that may be negative.
LEMMA OneSignedDigitMore ==
    ASSUME NEW start \in Int, NEW w \in Nat, NEW v \in Int, v < Huge, NEW q, q = v \div 256,
           Makes(start, Digits[w][q], q)
    PROVE  Makes(start, Digits[w + 1][v], v)
<1> DEFINE b == v % 256
           d == Digits[w][q]
<1>1. q \in Int /\ b \in Byte /\ q < Huge \div 256 /\ v = 256 * q + b
  BY ByteIs, SMT DEF Huge
<1>2. Digits[w + 1][v] = Append(d, b)
  <2>1. Digits[w + 1][v] = Append(Digits[w][v \div 256], v % 256)
    BY DigitsAre, ZenonT(90)
  <2> QED BY <2>1, Zenon
<1>3. d \in Bytes
  <2>1. \A x \in Nat, y \in Int : Digits[x][y] \in Bytes
    BY DigitsAre, ZenonT(90)
  <2> QED BY <1>1, <2>1
<1> HIDE DEF b, d
<1>4. Accumulate(start, Append(d, b)) = Saturating(Accumulate(start, d), b)
  BY <1>1, <1>3, AccumulateIs
<1>5. Accumulate(start, d) = q
  BY DEF Makes, d
<1>6. Saturating(q, b) = v
  BY <1>1, SMT DEF Saturating, Huge
<1> QED BY <1>2, <1>4, <1>5, <1>6, Zenon DEF Makes

\* A number of four digits and a sign; further digits repeat the sign.
LEMMA FourSignedDigits ==
    ASSUME NEW sign \in {0, -1}, NEW w \in Nat, Accumulate(sign, Digits[w][sign]) = sign,
           NEW v \in Int, -Huge <= v, v < Huge, v < 0 <=> sign = -1
    PROVE  Accumulate(sign, Digits[w + 4][v]) = v
<1> DEFINE a == v \div 256
           b == a \div 256
           c == b \div 256
<1>1. a \in Int /\ -4194304 <= a /\ a < 4194304 /\ (a < 0 <=> sign = -1)
  BY SMT DEF Huge
<1>2. b \in Int /\ -16384 <= b /\ b < 16384 /\ (b < 0 <=> sign = -1)
  <2> HIDE DEF a
  <2> QED BY <1>1, SMT
<1>3. c \in Int /\ -64 <= c /\ c < 64 /\ (c < 0 <=> sign = -1)
  <2> HIDE DEF b
  <2> QED BY <1>2, SMT
<1>10. c \div 256 = sign
  <2> HIDE DEF c
  <2> QED BY <1>3, SMT
<1> HIDE DEF a, b, c
<1>4. a \in Int /\ b \in Int /\ c \in Int /\ a < Huge /\ b < Huge /\ c < Huge /\ sign \in Int
  BY <1>1, <1>2, <1>3, SMT DEF Huge
<1>5. Makes(sign, Digits[w + 1][c], c)
  <2>1. Makes(sign, Digits[w][sign], sign)
    BY DEF Makes
  <2> QED BY <1>4, <1>10, <2>1, OneSignedDigitMore
<1>11. w + 1 \in Nat /\ (w + 1) + 1 \in Nat /\ ((w + 1) + 1) + 1 \in Nat
  OBVIOUS
<1>6. Makes(sign, Digits[(w + 1) + 1][b], b)
  <2>1. c = b \div 256
    BY DEF c
  <2> QED BY <1>4, <1>5, <1>11, <2>1, OneSignedDigitMore
<1>7. Makes(sign, Digits[((w + 1) + 1) + 1][a], a)
  <2>1. b = a \div 256
    BY DEF b
  <2> QED BY <1>4, <1>6, <1>11, <2>1, OneSignedDigitMore
<1>8. Makes(sign, Digits[(((w + 1) + 1) + 1) + 1][v], v)
  <2>1. a = v \div 256
    BY DEF a
  <2> QED BY <1>4, <1>7, <1>11, <2>1, OneSignedDigitMore
<1>9. (((w + 1) + 1) + 1) + 1 = w + 4
  OBVIOUS
<1> QED BY <1>8, <1>9 DEF Makes

\* The first digit of a number.
FirstIs(w, v, h) == Digits[w][v][1] = h

\* It is that of what is left of it, and the only one of a number of one digit.
LEMMA FirstOfDigits ==
    ASSUME NEW v \in Int, NEW h
    PROVE  /\ FirstIs(1, v, v % 256)
           /\ \A w \in Nat : FirstIs(w + 1, v \div 256, h) => FirstIs((w + 1) + 1, v, h)
<1> DEFINE d == v \div 256
           e == v % 256
<1>1. d \in Int /\ e \in Byte
  BY ByteIs
<1>2. ASSUME NEW w \in Nat PROVE Digits[w + 1][v] = Append(Digits[w][d], e)
  <2>1. \A x \in Nat, y \in Int : Digits[x + 1][y] = Append(Digits[x][y \div 256], y % 256)
    BY DigitsAre
  <2> QED BY <2>1, ZenonT(90)
<1> HIDE DEF d, e
<1>3. \A w \in Nat : Digits[w][d] \in Bytes /\ Len(Digits[w][d]) = w
  BY <1>1, DigitsAre, Zenon
<1>4. FirstIs(1, v, e)
  <2>1. 0 \in Nat /\ 0 + 1 = 1
    OBVIOUS
  <2>2. Digits[0 + 1][v] = Append(Digits[0][d], e)
    BY <1>2, <2>1, Zenon
  <2>3. Digits[0][d] = <<>>
    BY <1>1, DigitsAre, Zenon
  <2>4. Append(<<>>, e)[1] = e
    OBVIOUS
  <2> QED BY <2>1, <2>2, <2>3, <2>4 DEF FirstIs
<1>5. ASSUME NEW w \in Nat, FirstIs(w + 1, d, h) PROVE FirstIs((w + 1) + 1, v, h)
  <2> DEFINE n == w + 1
             s == Digits[n][d]
  <2>1. n \in Nat /\ n >= 1
    OBVIOUS
  <2> HIDE DEF n
  <2>2. Digits[n + 1][v] = Append(s, e)
    BY <1>2, <2>1, Zenon
  <2>3. s \in Seq(Byte) /\ Len(s) = n
    BY <1>3, <2>1 DEF Bytes
  <2>4. s[1] = h
    BY <1>5 DEF FirstIs, n
  <2> HIDE DEF s
  <2>5. Append(s, e)[1] = h
    BY <1>1, <2>1, <2>3, <2>4
  <2>6. FirstIs(n + 1, v, h)
    BY <2>2, <2>5, Zenon DEF FirstIs
  <2> QED BY <2>6 DEF n
<1> QED BY <1>4, <1>5, Zenon DEF d, e

\* Of a number of four digits or more.
LEMMA FirstOfFour ==
    ASSUME NEW w \in Nat, NEW v \in Int, NEW h, FirstIs(w + 1, ((v \div 256) \div 256) \div 256, h)
    PROVE  FirstIs(w + 4, v, h)
<1> DEFINE a == v \div 256
           b == a \div 256
<1>1. a \in Int /\ b \in Int /\ w + 1 \in Nat /\ (w + 1) + 1 \in Nat
  OBVIOUS
<1>2. FirstIs(w + 1, b \div 256, h)
  OBVIOUS
<1> HIDE DEF a, b
<1>3. FirstIs((w + 1) + 1, b, h)
  BY <1>1, <1>2, FirstOfDigits, Zenon
<1>4. FirstIs(((w + 1) + 1) + 1, a, h)
  BY <1>1, <1>3, FirstOfDigits, Zenon DEF b
<1>5. FirstIs((((w + 1) + 1) + 1) + 1, v, h)
  BY <1>1, <1>4, FirstOfDigits, Zenon DEF a
<1>6. (((w + 1) + 1) + 1) + 1 = w + 4
  OBVIOUS
<1> QED BY <1>5, <1>6

\* The first of four digits, or of eight, tells the sign.
LEMMA FirstTellsSign ==
    ASSUME NEW v \in Int, -Huge <= v, v < Huge
    PROVE  /\ Digits[4][v][1] \in Int /\ (Digits[4][v][1] >= 128 <=> v < 0)
           /\ Digits[8][v][1] \in Int /\ (Digits[8][v][1] >= 128 <=> v < 0)
<1> DEFINE a == v \div 256
           b == a \div 256
           c == b \div 256
           d == c \div 256
<1>1. a \in Int /\ -4194304 <= a /\ a < 4194304 /\ (a < 0 <=> v < 0)
  BY SMT DEF Huge
<1>2. b \in Int /\ -16384 <= b /\ b < 16384 /\ (b < 0 <=> v < 0)
  <2> HIDE DEF a
  <2> QED BY <1>1, SMT
<1>3. c \in Int /\ -64 <= c /\ c < 64 /\ (c < 0 <=> v < 0)
  <2> HIDE DEF b
  <2> QED BY <1>2, SMT
<1>4. d \in Int /\ (d = 0 \/ d = -1) /\ (d < 0 <=> v < 0)
  <2> HIDE DEF c
  <2> QED BY <1>3, SMT
<1>5. c = ((v \div 256) \div 256) \div 256
  OBVIOUS
<1>6. d = ((d \div 256) \div 256) \div 256
  <2> HIDE DEF d
  <2> QED BY <1>4, SMT
<1> HIDE DEF a, b, c, d
<1>7. 0 \in Nat /\ 4 \in Nat /\ 3 \in Nat /\ 0 + 4 = 4 /\ 0 + 1 = 1 /\ 4 + 4 = 8 /\ (3 + 1) + 1 = 4 + 1 /\ 3 + 1 = 4
  OBVIOUS
<1>8. c \in Int /\ d \in Int
  BY <1>3, <1>4, SMT
<1>9. FirstIs(4, v, c % 256)
  <2>1. FirstIs(0 + 1, c, c % 256)
    BY <1>7, <1>8, FirstOfDigits
  <2>2. FirstIs(0 + 4, v, c % 256)
    BY <1>5, <1>7, <2>1, FirstOfFour
  <2> QED BY <1>7, <2>2
<1>10. FirstIs(8, v, d % 256)
  <2>1. FirstIs(0 + 1, d, d % 256)
    BY <1>7, <1>8, FirstOfDigits
  <2>2. FirstIs(0 + 4, d, d % 256)
    BY <1>6, <1>7, <1>8, <2>1, FirstOfFour
  <2>3. FirstIs(3 + 1, c \div 256, d % 256)
    BY <1>7, <2>2 DEF d
  <2>4. FirstIs((3 + 1) + 1, c, d % 256)
    BY <1>7, <1>8, <2>3, FirstOfDigits, Zenon
  <2>5. FirstIs(4 + 1, ((v \div 256) \div 256) \div 256, d % 256)
    BY <1>5, <1>7, <2>4
  <2>6. FirstIs(4 + 4, v, d % 256)
    BY <1>7, <2>5, FirstOfFour, Zenon
  <2> QED BY <1>7, <2>6
<1>11. c % 256 \in Int /\ (c % 256 >= 128 <=> v < 0)
  BY <1>3, SMT
<1>12. d % 256 \in Int /\ (d % 256 >= 128 <=> v < 0)
  BY <1>4, SMT
<1> QED BY <1>9, <1>10, <1>11, <1>12 DEF FirstIs

\* A signed number is read as it was written.
LEMMA SignedValueOfDigits ==
    ASSUME NEW v \in Numbers
    PROVE  SignedValue(Digits[4][v]) = v /\ SignedValue(Digits[8][v]) = v
<1> DEFINE sign == IF v < 0 THEN -1 ELSE 0
<1>1. v \in Int /\ -Huge <= v /\ v < Huge
  <2>1. Huge \in Int
    BY SMT DEF Huge
  <2> QED BY <2>1 DEF Numbers
<1>2. sign \in {0, -1} /\ (v < 0 <=> sign = -1) /\ sign \in Int /\ 0 \in Nat /\ 4 \in Nat /\ -Huge <= sign
      /\ sign < Huge /\ (sign < 0 <=> sign = -1) /\ 0 + 4 = 4 /\ 4 + 4 = 8
  BY <1>1, SMT DEF Huge
<1>3. /\ SignedValue(Digits[4][v]) = Accumulate(sign, Digits[4][v])
      /\ SignedValue(Digits[8][v]) = Accumulate(sign, Digits[8][v])
  <2>1. \A s : Head(s) = s[1]
    OBVIOUS
  <2> QED BY <1>1, <2>1, FirstTellsSign DEF SignedValue
<1> HIDE DEF sign
<1>4. Digits[0][sign] = <<>>
  BY <1>2, DigitsAre
<1>5. Accumulate(sign, Digits[0][sign]) = sign
  BY <1>2, <1>4, AccumulateIs, Zenon
<1>6. Accumulate(sign, Digits[0 + 4][sign]) = sign /\ Accumulate(sign, Digits[0 + 4][v]) = v
  BY <1>1, <1>2, <1>5, FourSignedDigits, Zenon
<1>7. Accumulate(sign, Digits[4 + 4][v]) = v
  BY <1>1, <1>2, <1>6, FourSignedDigits, Zenon
<1> QED BY <1>2, <1>3, <1>6, <1>7

\* The count of a list is read as it was written.
LEMMA ValueOfCount ==
    ASSUME NEW n \in Nat, n <= MaxListSize
    PROVE  Value(Digits[2][n]) = n
<1> DEFINE a == n \div 256
<1>1. a \in Nat /\ a < Huge /\ n < Huge /\ a \div 256 = 0 /\ 0 \in Nat /\ 1 \in Nat /\ 0 + 1 = 1 /\ 1 + 1 = 2
  BY SMT DEF Huge, MaxListSize
<1> HIDE DEF a
<1>2. Value(Digits[0][0]) = 0
  <2>1. Digits[0][0] = <<>>
    BY DigitsAre
  <2> QED BY <2>1, ValueIs
<1>3. Value(Digits[0 + 1][a]) = a
  BY <1>1, <1>2, OneDigitMore, ZenonT(90)
<1>4. Value(Digits[1 + 1][n]) = n
  BY <1>1, <1>3, OneDigitMore, ZenonT(90) DEF a
<1> QED BY <1>1, <1>4

-----------------------------------------------------------------------------
(* What lies where in an array of bytes. *)

\* The part lies in the bytes from the offset on.
Holds(bytes, o, part) ==
    /\ bytes \in Bytes /\ part \in Bytes /\ o \in Nat /\ o + Len(part) <= Len(bytes)
    /\ \A i \in 1..Len(part) : bytes[o + i] = part[i]

\* An array holds itself.
LEMMA HoldsItself == ASSUME NEW bytes \in Bytes PROVE Holds(bytes, 0, bytes)
<1>1. Len(bytes) \in Nat /\ 0 \in Nat
  BY DEF Bytes
<1> QED BY <1>1 DEF Holds

\* A part of a part.
LEMMA HoldsPart ==
    ASSUME NEW bytes, NEW o, NEW part, Holds(bytes, o, part), NEW p, NEW inner, Holds(part, p, inner)
    PROVE  Holds(bytes, o + p, inner)
<1>1. /\ bytes \in Bytes /\ part \in Bytes /\ inner \in Bytes /\ o \in Nat /\ p \in Nat
      /\ o + Len(part) <= Len(bytes) /\ p + Len(inner) <= Len(part)
      /\ \A i \in 1..Len(part) : bytes[o + i] = part[i]
      /\ \A i \in 1..Len(inner) : part[p + i] = inner[i]
  BY DEF Holds
<1>2. Len(bytes) \in Nat /\ Len(part) \in Nat /\ Len(inner) \in Nat
  BY <1>1 DEF Bytes
<1>3. ASSUME NEW i \in 1..Len(inner) PROVE bytes[(o + p) + i] = inner[i]
  <2>1. p + i \in 1..Len(part) /\ o + (p + i) = (o + p) + i
    BY <1>1, <1>2
  <2>2. bytes[o + (p + i)] = part[p + i]
    BY <1>1, <2>1
  <2> QED BY <1>1, <2>1, <2>2
<1>4. o + p \in Nat /\ (o + p) + Len(inner) <= Len(bytes)
  BY <1>1, <1>2
<1> QED BY <1>1, <1>3, <1>4 DEF Holds

\* The two parts of what was put together.
LEMMA HoldsJoined ==
    ASSUME NEW s \in Bytes, NEW t \in Bytes
    PROVE  Holds(s \o t, 0, s) /\ Holds(s \o t, Len(s), t)
<1>1. /\ s \o t \in Bytes /\ Len(s \o t) = Len(s) + Len(t) /\ Len(s) \in Nat /\ Len(t) \in Nat
      /\ \A i \in 1..Len(s) : (s \o t)[i] = s[i]
      /\ \A i \in 1..Len(t) : (s \o t)[Len(s) + i] = t[i]
  BY PartsOf DEF Bytes
<1> DEFINE r == s \o t
<1> HIDE DEF r
<1>2. /\ r \in Bytes /\ Len(r) = Len(s) + Len(t)
      /\ \A i \in 1..Len(s) : r[i] = s[i]
      /\ \A i \in 1..Len(t) : r[Len(s) + i] = t[i]
  BY <1>1 DEF r
<1>3. Holds(r, 0, s)
  BY <1>1, <1>2 DEF Holds
<1>4. Holds(r, Len(s), t)
  BY <1>1, <1>2 DEF Holds
<1> QED BY <1>3, <1>4 DEF r

\* A part is cut out.
LEMMA SliceHeld ==
    ASSUME NEW bytes, NEW o, NEW part, Holds(bytes, o, part)
    PROVE  Slice(bytes, o, Len(part)) = part /\ part # Thrown
<1>1. /\ bytes \in Bytes /\ part \in Bytes /\ o \in Nat /\ o + Len(part) <= Len(bytes)
      /\ \A i \in 1..Len(part) : bytes[o + i] = part[i]
  BY DEF Holds
<1>2. Len(bytes) \in Nat /\ Len(part) \in Nat
  BY <1>1 DEF Bytes
<1>3. SubSeq(bytes, o + 1, o + Len(part)) = part
  BY <1>1, <1>2, SamePart DEF Bytes
<1>4. ~ (Len(bytes) - o < Len(part))
  BY <1>1, <1>2
<1> QED BY <1>1, <1>3, <1>4, ThrownIsNot DEF Slice

\* A signed number that lies there is read.
LEMMA ReadsSigned ==
    ASSUME NEW bytes, NEW o, NEW w \in {4, 8}, NEW v \in Numbers, Holds(bytes, o, Digits[w][v])
    PROVE  ReadSigned(bytes, o, w) = v
<1>1. w \in Nat /\ v \in Int
  BY NumbersAre
<1>2. Len(Digits[w][v]) = w
  BY <1>1, DigitsOf
<1> DEFINE part == Digits[w][v]
<1>3. SignedValue(part) = v
  BY SignedValueOfDigits
<1> HIDE DEF part
<1>4. Slice(bytes, o, Len(part)) = part /\ part # Thrown
  BY SliceHeld DEF part
<1>5. Len(part) = w
  BY <1>2 DEF part
<1> QED BY <1>3, <1>4, <1>5, Zenon DEF ReadSigned

\* An id that lies there is read.
LEMMA ReadsId ==
    ASSUME NEW bytes, NEW o, NEW v \in IdNumbers, Holds(bytes, o, Digits[8][v])
    PROVE  ReadId(bytes, o) = v
<1>1. 8 \in Nat /\ v \in Int /\ v \in Nat /\ v < Huge
  BY NumbersAre
<1>2. Len(Digits[8][v]) = 8
  BY <1>1, DigitsOf
<1> DEFINE part == Digits[8][v]
<1>3. Value(part) = v
  BY <1>1, ValueOfDigits
<1> HIDE DEF part
<1>4. Slice(bytes, o, Len(part)) = part /\ part # Thrown
  BY SliceHeld DEF part
<1>5. Len(part) = 8
  BY <1>2 DEF part
<1> QED BY <1>3, <1>4, <1>5, Zenon DEF Read, ReadId

\* A byte that lies there is read.
LEMMA ReadsByte ==
    ASSUME NEW bytes, NEW o, NEW b \in Byte, Holds(bytes, o, <<b>>)
    PROVE  /\ Read(bytes, o, 1) = b /\ At(bytes, o) = b /\ b # Thrown /\ b # Outside /\ b \in Int
<1> DEFINE part == <<b>>
<1>1. Len(part) = 1 /\ part[1] = b /\ 1 \in 1..1
  OBVIOUS
<1>2. b \in Int
  BY ByteIs
<1> HIDE DEF part
<1>3. /\ bytes \in Bytes /\ o \in Nat /\ o + 1 <= Len(bytes) /\ bytes[o + 1] = b
  <2>1. Holds(bytes, o, part)
    BY DEF part
  <2> QED BY <1>1, <2>1, Zenon DEF Holds
<1>4. o < Len(bytes)
  <2>1. Len(bytes) \in Nat
    BY <1>3 DEF Bytes
  <2> QED BY <1>3, <2>1
<1>5. Read(bytes, o, 1) = b
  BY <1>3, <1>4, ReadByte
<1>6. At(bytes, o) = b
  BY <1>3, <1>4 DEF At
<1>7. b # Thrown /\ b # Outside
  BY <1>2, ThrownIsNot, OutsideAssumption
<1> QED BY <1>2, <1>5, <1>6, <1>7

-----------------------------------------------------------------------------
(* Fields that stay as they were written. *)

\* Two fields that do not overlap.
Apart(f, g) == f[1] + Len(f[2]) <= g[1] \/ g[1] + Len(g[2]) <= f[1]

\* The fields that leave a field as it is.
Sparing(f, size) == {x \in FieldsIn(size) : x = f \/ Apart(f, x)}

\* What a field that is written leaves as it was, and what it does not.
LEMMA PutWrites ==
    ASSUME NEW buffer \in Bytes, NEW f \in FieldsIn(Len(buffer))
    PROVE  LET r == Put(buffer, f[1], f[2])
           IN  /\ \A i \in 1..f[1] : r[i] = buffer[i]
               /\ \A i \in 1..Len(f[2]) : r[f[1] + i] = f[2][i]
               /\ \A i \in (f[1] + Len(f[2]) + 1)..Len(buffer) : r[i] = buffer[i]
<1> DEFINE n == Len(buffer)
           o == f[1]
           b == f[2]
           w == Len(b)
           head == SubSeq(buffer, 1, o)
           tail == SubSeq(buffer, o + w + 1, n)
<1>1. n \in Nat /\ o \in Nat /\ b \in Bytes /\ w \in Nat /\ o + w <= n
  BY DEF FieldsIn, Bytes
<1> HIDE DEF n, o, b, w
<1>2. head \in Bytes /\ Len(head) = o /\ \A i \in 1..o : head[i] = buffer[i]
  <2>1. 0 + o <= Len(buffer) /\ 0 \in Nat
    BY <1>1 DEF n
  <2>2. /\ SubSeq(buffer, 0 + 1, 0 + o) \in Bytes /\ Len(SubSeq(buffer, 0 + 1, 0 + o)) = o
        /\ \A i \in 1..o : SubSeq(buffer, 0 + 1, 0 + o)[i] = buffer[0 + i]
    BY <1>1, <2>1, PartIs DEF Bytes
  <2>3. 0 + 1 = 1 /\ 0 + o = o /\ \A i \in 1..o : 0 + i = i
    BY <1>1
  <2> QED BY <2>2, <2>3
<1> DEFINE x == o + w
           d == n - x
<1>3. x \in Nat /\ d \in Nat /\ x + d = n
  BY <1>1
<1>4. tail \in Bytes /\ Len(tail) = d /\ \A i \in 1..d : tail[i] = buffer[x + i]
  <2> HIDE DEF x, d
  <2>1. /\ SubSeq(buffer, x + 1, x + d) \in Bytes /\ Len(SubSeq(buffer, x + 1, x + d)) = d
        /\ \A i \in 1..d : SubSeq(buffer, x + 1, x + d)[i] = buffer[x + i]
    BY <1>3, PartIs DEF Bytes, n
  <2> QED BY <1>3, <2>1 DEF x
<1>5. ~ (o + w > n)
  BY <1>1
<1>6. Put(buffer, o, b) = (head \o b) \o tail
  BY <1>5, OutsideAssumption, Zenon DEF Put, head, tail, n, w
<1> HIDE DEF head, tail, x, d
<1> DEFINE s == head \o b
           r == s \o tail
<1>7. /\ s \in Bytes /\ Len(s) = x
      /\ \A i \in 1..o : s[i] = head[i] 
      /\ \A i \in 1..w : s[o + i] = b[i]
  <2>1. Joined(head, b, s)
    BY <1>1, <1>2, JoinIs
  <2> HIDE DEF s
  <2> QED BY <1>2, <2>1 DEF Joined, x, w
<1> HIDE DEF s
<1>8. /\ \A i \in 1..x : r[i] = s[i]
      /\ \A i \in 1..d : r[x + i] = tail[i]
  <2>1. /\ \A i \in 1..Len(s) : (s \o tail)[i] = s[i]
        /\ \A i \in 1..Len(tail) : (s \o tail)[Len(s) + i] = tail[i]
    BY <1>4, <1>7, PartsOf DEF Bytes
  <2> HIDE DEF r
  <2> QED BY <1>4, <1>7, <2>1, Zenon DEF r
<1> HIDE DEF r
<1>9. ASSUME NEW i \in 1..o PROVE r[i] = buffer[i]
  <2>1. i \in 1..x
    BY <1>1, <1>9 DEF x
  <2> QED BY <1>2, <1>7, <1>8, <2>1
<1>10. ASSUME NEW i \in 1..w PROVE r[o + i] = b[i]
  <2>1. o + i \in 1..x
    BY <1>1, <1>10 DEF x
  <2> QED BY <1>7, <1>8, <2>1
<1>11. ASSUME NEW i \in (x + 1)..n PROVE r[i] = buffer[i]
  <2> DEFINE j == i - x
  <2>1. j \in 1..d /\ x + j = i
    BY <1>3, <1>11
  <2> HIDE DEF j
  <2>2. r[x + j] = tail[j] /\ tail[j] = buffer[x + j]
    BY <1>4, <1>8, <2>1
  <2> QED BY <2>1, <2>2
<1>12. Put(buffer, o, b) = r
  BY <1>6 DEF r, s
<1> QED BY <1>9, <1>10, <1>11, <1>12, Zenon DEF x, w, o, b, n

\* A field that is written is held, and stays where another does not reach it.
LEMMA PutHolds ==
    ASSUME NEW buffer \in Bytes, NEW f \in FieldsIn(Len(buffer))
    PROVE  /\ Holds(Put(buffer, f[1], f[2]), f[1], f[2])
           /\ \A g : Holds(buffer, g[1], g[2]) /\ Apart(g, f) => Holds(Put(buffer, f[1], f[2]), g[1], g[2])
<1> DEFINE r == Put(buffer, f[1], f[2])
<1>1. r \in Bytes /\ Len(r) = Len(buffer)
  BY PutIs
<1>2. /\ \A i \in 1..f[1] : r[i] = buffer[i]
      /\ \A i \in 1..Len(f[2]) : r[f[1] + i] = f[2][i]
      /\ \A i \in (f[1] + Len(f[2]) + 1)..Len(buffer) : r[i] = buffer[i]
  BY PutWrites
<1>3. f[1] \in Nat /\ f[2] \in Bytes /\ f[1] + Len(f[2]) <= Len(buffer) /\ Len(f[2]) \in Nat /\ Len(buffer) \in Nat
  BY DEF FieldsIn, Bytes
<1> HIDE DEF r
<1>4. Holds(r, f[1], f[2])
  BY <1>1, <1>2, <1>3 DEF Holds
<1>5. ASSUME NEW g, Holds(buffer, g[1], g[2]), Apart(g, f) PROVE Holds(r, g[1], g[2])
  <2>1. /\ g[1] \in Nat /\ g[2] \in Bytes /\ g[1] + Len(g[2]) <= Len(buffer)
        /\ \A i \in 1..Len(g[2]) : buffer[g[1] + i] = g[2][i]
    BY <1>5 DEF Holds
  <2>2. Len(g[2]) \in Nat
    BY <2>1 DEF Bytes
  <2>3. ASSUME NEW i \in 1..Len(g[2]) PROVE r[g[1] + i] = buffer[g[1] + i]
    <3> DEFINE fo == f[1]
               fw == Len(f[2])
               go == g[1]
               gw == Len(g[2])
               n == Len(buffer)
    <3>1. /\ fo \in Nat /\ fw \in Nat /\ go \in Nat /\ gw \in Nat /\ n \in Nat /\ go + gw <= n /\ i \in 1..gw
          /\ go + gw <= fo \/ fo + fw <= go
      BY <1>3, <1>5, <2>1, <2>2, Zenon DEF Apart
    <3> HIDE DEF fo, fw, go, gw, n
    <3>2. go + i \in 1..fo \/ go + i \in (fo + fw + 1)..n
      BY <3>1
    <3>3. g[1] + i \in 1..f[1] \/ g[1] + i \in (f[1] + Len(f[2]) + 1)..Len(buffer)
      BY <3>2, Zenon DEF fo, fw, go, gw, n
    <3> QED BY <1>2, <3>3, Zenon
  <2> QED BY <1>1, <2>1, <2>3 DEF Holds
<1> QED BY <1>4, <1>5, Zenon DEF r

\* A field that is held stays through fields that spare it, and so does one that is
\* written among them.
LEMMA FieldsHold ==
    ASSUME NEW buffer \in Bytes, NEW size, size = Len(buffer), NEW f, NEW fields \in Seq(Sparing(f, size)),
           Holds(buffer, f[1], f[2]) \/ \E j \in 1..Len(fields) : fields[j] = f
    PROVE  Holds(PutAll(buffer, fields), f[1], f[2])
<1> DEFINE n == Len(fields)
           S == Sparing(f, size)
<1>1. /\ n \in Nat
      /\ \A k \in 1..n : fields[k] \in FieldsIn(size) /\ (fields[k] = f \/ Apart(f, fields[k]))
  BY DEF Sparing
<1>2. PICK g : Puts(g, buffer, fields) /\ PutAll(buffer, fields) = g[n]
  <2> HIDE DEF S
  <2>1. fields \in Seq(S)
    BY DEF S
  <2> QED BY <2>1, PutAllRecurs
<1>3. g[0] = buffer /\ \A k \in Nat : k < n => g[k + 1] = Put(g[k], fields[k + 1][1], fields[k + 1][2])
  BY <1>2 DEF Puts
<1> DEFINE done(k) == Holds(buffer, f[1], f[2]) \/ \E j \in 1..k : fields[j] = f
           T == {k \in Nat : k <= n => /\ g[k] \in Bytes /\ Len(g[k]) = size
                                       /\ done(k) => Holds(g[k], f[1], f[2])}
<1>7. done(n)
  OBVIOUS
<1> HIDE DEF n
<1>4. 0 \in T
  <2>1. done(0) => Holds(buffer, f[1], f[2])
    OBVIOUS
  <2> HIDE DEF done
  <2> QED BY <1>3, <2>1
<1>5. ASSUME NEW k \in T PROVE k + 1 \in T
  <2>1. k \in Nat /\ k + 1 \in Nat
    OBVIOUS
  <2>2. ASSUME k + 1 <= n PROVE g[k + 1] \in Bytes /\ Len(g[k + 1]) = size /\ (done(k + 1) => Holds(g[k + 1], f[1], f[2]))
    <3> DEFINE x == fields[k + 1]
               b == g[k]
               r == Put(b, x[1], x[2])
    <3>1. k < n /\ k <= n /\ k + 1 \in 1..n
      BY <1>1, <2>1, <2>2
    <3>2. b \in Bytes /\ Len(b) = size /\ (done(k) => Holds(b, f[1], f[2]))
      BY <3>1
    <3>3. x \in FieldsIn(Len(b)) /\ (x = f \/ Apart(f, x))
      BY <1>1, <3>1, <3>2
    <3>4. g[k + 1] = r
      BY <1>3, <2>1, <3>1
    <3>5. done(k + 1) => done(k) \/ x = f
      BY <2>1
    <3> HIDE DEF x, b, done, T
    <3>6. r \in Bytes /\ Len(r) = size
      BY <3>2, <3>3, PutIs
    <3>7. Holds(r, x[1], x[2]) /\ (Holds(b, f[1], f[2]) /\ Apart(f, x) => Holds(r, f[1], f[2]))
      BY <3>2, <3>3, PutHolds, Zenon
    <3> HIDE DEF r
    <3>8. done(k + 1) => Holds(r, f[1], f[2])
      BY <3>2, <3>3, <3>5, <3>7, Zenon
    <3> QED BY <3>4, <3>6, <3>8
  <2> HIDE DEF done
  <2> QED BY <2>1, <2>2
<1>6. n \in T
  <2>1. T \in SUBSET Nat
    OBVIOUS
  <2> HIDE DEF T
  <2> QED BY <1>1, <1>4, <1>5, <2>1, NaturalInduction
<1>8. n <= n
  BY <1>1
<1>9. done(n) => Holds(g[n], f[1], f[2])
  <2> HIDE DEF done
  <2> QED BY <1>6, <1>8
<1> QED BY <1>2, <1>7, <1>9

\* An array of that size that holds every field.
Laid(bytes, fields, size) ==
    /\ bytes \in Bytes /\ Len(bytes) = size
    /\ \A j \in 1..Len(fields) : Holds(bytes, fields[j][1], fields[j][2])

\* In a layout whose fields do not overlap, each is held.
LEMMA LayoutHolds ==
    ASSUME NEW buffer \in Bytes, NEW size, size = Len(buffer), NEW F, F \subseteq FieldsIn(size),
           NEW fields \in Seq(F), \A f, g \in F : f = g \/ Apart(f, g)
    PROVE  Laid(PutAll(buffer, fields), fields, size)
<1>1. fields \in Seq(FieldsIn(size))
  <2> DEFINE S == FieldsIn(size)
  <2> HIDE DEF S
  <2>1. F \subseteq S
    BY DEF S
  <2>2. \A k \in 1..Len(fields) : fields[k] \in S
    BY <2>1
  <2>3. fields \in Seq(S)
    BY <2>2
  <2> QED BY <2>3 DEF S
<1>2. PutAll(buffer, fields) \in Bytes /\ Len(PutAll(buffer, fields)) = size
  BY <1>1, PutAllIs
<1>3. ASSUME NEW j \in 1..Len(fields) PROVE Holds(PutAll(buffer, fields), fields[j][1], fields[j][2])
  <2> DEFINE f == fields[j]
             S == Sparing(f, size)
  <2>1. \A k \in 1..Len(fields) : fields[k] \in S
    BY DEF Sparing
  <2> HIDE DEF S
  <2>2. fields \in Seq(S)
    BY <2>1
  <2>3. \E i \in 1..Len(fields) : fields[i] = f
    OBVIOUS
  <2> HIDE DEF f
  <2>4. Holds(PutAll(buffer, fields), f[1], f[2])
    BY <2>2, <2>3, FieldsHold, Zenon DEF S
  <2> QED BY <2>4 DEF f
<1> QED BY <1>2, <1>3 DEF Laid

-----------------------------------------------------------------------------
(* Entities that are read as they were serialised. *)

\* What a reader gets whole is neither an exception nor beyond the buffer.
Said(x) == x # Thrown /\ x # Outside

\* What says something.
LEMMA WhatIsSaid ==
    /\ \A x \in Int : Said(x)
    /\ \A x \in Words : Said(x)
    /\ \A x \in Bytes : Said(x)
    /\ \A x \in Seq(Words) : Said(x)
    /\ \A x, y \in Int : Said(<<x, y>>)
    /\ Said(Nothing)
<1>1. \A x \in Int : Said(x)
  BY ThrownAssumption, OutsideAssumption, Zenon DEF Said
<1>2. \A x \in Bytes : Said(x)
  BY ThrownAssumption, OutsideAssumption, Zenon DEF Said
<1>3. \A x, y \in Int : Said(<<x, y>>)
  <2>1. \A x, y \in Int : <<x, y>> \in Seq(Int)
    OBVIOUS
  <2> QED BY <2>1, ThrownAssumption, OutsideAssumption, Zenon DEF Said
<1>4. \A x \in {Thrown, Outside} : x \notin Words /\ x \notin Seq(Words) /\ x # Nothing
  BY WordsAssumption, Zenon
<1>5. (\A x \in Words : Said(x)) /\ (\A x \in Seq(Words) : Said(x)) /\ Said(Nothing)
  BY <1>4, Zenon DEF Said
<1> QED BY <1>1, <1>2, <1>3, <1>5, Zenon

\* A reading of which every field says something, and one of which a field threw.
LEMMA CompleteIs ==
    ASSUME NEW value
    PROVE  /\ (\A k \in DOMAIN value : Said(value[k])) => Complete(value) = value
           /\ (\A k \in DOMAIN value : value[k] # Outside) /\ (\E k \in DOMAIN value : value[k] = Thrown)
                  => Complete(value) = Thrown
  BY Zenon DEF Complete, Said

\* The names of the enums are words, no two of a kind with one number.
LEMMA EnumsDiffer ==
    /\ \A codes \in {GenderValue, SpecieValue, SoilTypeValue, MoveValue} :
           /\ DOMAIN codes \subseteq Words
           /\ \A m, n \in DOMAIN codes : codes[m] = codes[n] => m = n
           /\ \A n \in DOMAIN codes : codes[n] \in Byte
    /\ "DANGEROUS" \in Words
<1>1. \A m, n \in DOMAIN GenderValue : GenderValue[m] = GenderValue[n] => m = n
  BY DEF GenderValue
<1>2. \A m, n \in DOMAIN SpecieValue : SpecieValue[m] = SpecieValue[n] => m = n
  BY DEF SpecieValue
<1>3. \A m, n \in DOMAIN SoilTypeValue : SoilTypeValue[m] = SoilTypeValue[n] => m = n
  BY DEF SoilTypeValue
<1>4. \A m, n \in DOMAIN MoveValue : MoveValue[m] = MoveValue[n] => m = n
  BY DEF MoveValue
<1>5. /\ DOMAIN GenderValue \subseteq Words /\ DOMAIN SpecieValue \subseteq Words
      /\ DOMAIN SoilTypeValue \subseteq Words /\ DOMAIN MoveValue \subseteq Words
      /\ DOMAIN PropertyValue \subseteq Words
  BY DEF Words
<1>6. "DANGEROUS" \in DOMAIN PropertyValue
  BY DEF PropertyValue
<1>7. \A n \in DOMAIN GenderValue : GenderValue[n] \in Byte
  BY ByteIs DEF GenderValue
<1> QED BY <1>1, <1>2, <1>3, <1>4, <1>5, <1>6, <1>7, EnumsAreBytes

\* The name of a number that lies there is read.
LEMMA ReadsName ==
    ASSUME NEW codes \in {GenderValue, SpecieValue, SoilTypeValue, MoveValue}, NEW name \in DOMAIN codes,
           NEW bytes, NEW o, Holds(bytes, o, <<codes[name]>>)
    PROVE  NamedAt(codes, bytes, o) = name /\ Said(name) /\ Named(codes, codes[name]) = name
<1>1. codes[name] \in Byte /\ (\A n \in DOMAIN codes : codes[n] = codes[name] => n = name) /\ name \in Words
  BY EnumsDiffer
<1>2. At(bytes, o) = codes[name] /\ codes[name] # Outside
  BY <1>1, ReadsByte, Zenon
<1>3. Named(codes, codes[name]) = name
  BY <1>1, NamedIs
<1> QED BY <1>1, <1>2, <1>3, WhatIsSaid DEF NamedAt

\* The two numbers of a position, or of a size.
LEMMA PairHolds ==
    ASSUME NEW bytes, NEW o, NEW x \in Numbers, NEW y \in Numbers,
           Holds(bytes, o, SerializeVec(x, y)) \/ Holds(bytes, o, SerializeSize(x, y))
    PROVE  ReadSigned(bytes, o, 8) = x /\ ReadSigned(bytes, o + 8, 8) = y
<1> DEFINE s == Digits[8][x]
           t == Digits[8][y]
<1>1. s \in Bytes /\ Len(s) = 8 /\ t \in Bytes /\ Len(t) = 8
  BY NumbersAre, DigitsOf
<1>2. Holds(bytes, o, s \o t)
  BY DEF SerializeVec, SerializeSize
<1> HIDE DEF s, t
<1>3. Holds(s \o t, 0, s) /\ Holds(s \o t, 8, t)
  <2>1. Holds(s \o t, 0, s) /\ Holds(s \o t, Len(s), t)
    BY <1>1, HoldsJoined
  <2> QED BY <1>1, <2>1
<1>4. Holds(bytes, o + 0, s) /\ Holds(bytes, o + 8, t)
  BY <1>2, <1>3, HoldsPart
<1>5. o + 0 = o
  BY <1>2 DEF Holds
<1>6. Holds(bytes, o, s)
  BY <1>4, <1>5
<1>7. 8 \in {4, 8}
  OBVIOUS
<1> QED BY <1>4, <1>6, <1>7, ReadsSigned, Zenon DEF s, t

\* Where the parts of a creature lie, unless its name is too long.
LEMMA CreatureLaid ==
    ASSUME NEW c \in Creatures, SerializeCreature(c) # Thrown
    PROVE  LET bytes == SerializeCreature(c)
           IN  /\ bytes \in Bytes /\ Len(bytes) = CreatureSize /\ Len(c.name) \in Byte
               /\ Holds(bytes, 0, <<GenderByte[c.gender]>>) /\ Holds(bytes, 1, <<SpecieValue[c.specie]>>)
               /\ Holds(bytes, 2, SerializeVec(c.x, c.y)) /\ Holds(bytes, 18, <<Len(c.name)>> \o c.name)
               /\ Holds(bytes, 83, Digits[8][c.id])
<1> DEFINE name == SerializeName(c.name)
           f1 == <<0, <<GenderByte[c.gender]>> >>
           f2 == <<1, <<SpecieValue[c.specie]>> >>
           f3 == <<2, SerializeVec(c.x, c.y)>>
           f4 == <<18, name>>
           f5 == <<83, Digits[8][c.id]>>
           F == {f1, f2, f3, f4, f5}
           fields == <<f1, f2, f3, f4, f5>>
           bytes == SerializeCreature(c)
<1>1. /\ c.gender \in DOMAIN GenderByte /\ c.specie \in DOMAIN SpecieValue
      /\ c.x \in Int /\ c.y \in Int /\ c.id \in Int /\ c.name \in Bytes
  BY EntitiesAre
<1>2. name # Thrown
  BY DEF SerializeCreature
<1> DEFINE l == Len(c.name)
<1>3. l \in Nat /\ l <= 64 /\ name = <<l>> \o c.name
  BY <1>1, <1>2 DEF SerializeName, MaxNameSize, Bytes
<1>4. l \in Byte
  BY <1>3, ByteIs
<1>5. name \in Bytes /\ Len(name) = 1 + l
  <2> DEFINE s == <<l>>
             t == c.name
  <2>1. s \in Bytes /\ Len(s) = 1 /\ t \in Bytes /\ Len(t) = l /\ name = s \o t
    BY <1>1, <1>3, <1>4, ByteAlone
  <2> HIDE DEF s, t, l, name
  <2>2. s \o t \in Bytes /\ Len(s \o t) = 1 + l
    BY <1>3, <2>1, JoinLength
  <2> QED BY <2>1, <2>2
<1> HIDE DEF l, name
<1>6. /\ 91 \in Nat /\ 0 \in Nat /\ 1 \in Nat /\ 2 \in Nat /\ 8 \in Nat /\ 18 \in Nat /\ 83 \in Nat
      /\ 0 + 1 <= 91 /\ 1 + 1 <= 91 /\ 2 + 16 <= 91 /\ 83 + 8 <= 91 /\ 18 + Len(name) <= 91
  BY <1>3, <1>5
<1>7. f1 \in FieldsIn(91) /\ f2 \in FieldsIn(91) /\ f3 \in FieldsIn(91) /\ f4 \in FieldsIn(91) /\ f5 \in FieldsIn(91)
  <2>1. f4 \in FieldsIn(91)
    BY <1>5, <1>6, FieldIs, Zenon
  <2> QED BY <1>1, <1>6, <2>1, EnumsAreBytes, ByteField, PairField, NumberField, Zenon
<1>8. bytes = PutAll(Zeros(91), fields)
  BY <1>2, Zenon DEF SerializeCreature, CreatureSize, name
<1>9. /\ f1[1] = 0 /\ Len(f1[2]) = 1 /\ f2[1] = 1 /\ Len(f2[2]) = 1 /\ f3[1] = 2 /\ Len(f3[2]) = 16
      /\ f4[1] = 18 /\ Len(f4[2]) = 1 + l /\ f5[1] = 83 /\ Len(f5[2]) = 8
  BY <1>1, <1>5, <1>6, PairsAre, DigitsOf
<1>10. /\ f1[2] = <<GenderByte[c.gender]>> /\ f2[2] = <<SpecieValue[c.specie]>> /\ f3[2] = SerializeVec(c.x, c.y)
       /\ f4[2] = name /\ f5[2] = Digits[8][c.id]
  OBVIOUS
<1> HIDE DEF f1, f2, f3, f4, f5, bytes
<1>11. \A f, g \in F : f = g \/ Apart(f, g)
  <2>1. Apart(f1, f2) /\ Apart(f1, f3) /\ Apart(f1, f4) /\ Apart(f1, f5)
    BY <1>3, <1>9 DEF Apart
  <2>2. Apart(f2, f3) /\ Apart(f2, f4) /\ Apart(f2, f5)
    BY <1>3, <1>9 DEF Apart
  <2>3. Apart(f3, f4) /\ Apart(f3, f5) /\ Apart(f4, f5)
    BY <1>3, <1>9 DEF Apart
  <2>4. \A f, g : Apart(f, g) => Apart(g, f)
    BY Zenon DEF Apart
  <2>5. \A f \in F : f = f1 \/ f = f2 \/ f = f3 \/ f = f4 \/ f = f5
    OBVIOUS
  <2> HIDE DEF F
  <2> QED BY <2>1, <2>2, <2>3, <2>4, <2>5, Zenon
<1>12. F \subseteq FieldsIn(91)
  BY <1>7
<1>13. /\ fields \in Seq(F) /\ Len(fields) = 5
       /\ fields[1] = f1 /\ fields[2] = f2 /\ fields[3] = f3 /\ fields[4] = f4 /\ fields[5] = f5
  OBVIOUS
<1> HIDE DEF F, fields
<1>14. bytes \in Bytes /\ Len(bytes) = 91 /\ \A j \in 1..5 : Holds(bytes, fields[j][1], fields[j][2])
  <2>1. Zeros(91) \in Bytes /\ 91 = Len(Zeros(91))
    BY <1>6, ZerosAre
  <2>2. Laid(PutAll(Zeros(91), fields), fields, 91)
    BY <1>11, <1>12, <1>13, <2>1, LayoutHolds, ZenonT(90)
  <2> QED BY <1>8, <1>13, <2>2 DEF Laid
<1>15. /\ Holds(bytes, f1[1], f1[2]) /\ Holds(bytes, f2[1], f2[2]) /\ Holds(bytes, f3[1], f3[2])
       /\ Holds(bytes, f4[1], f4[2]) /\ Holds(bytes, f5[1], f5[2])
  BY <1>13, <1>14
<1>16. /\ Holds(bytes, 0, <<GenderByte[c.gender]>>) /\ Holds(bytes, 1, <<SpecieValue[c.specie]>>)
       /\ Holds(bytes, 2, SerializeVec(c.x, c.y)) /\ Holds(bytes, 18, name) /\ Holds(bytes, 83, Digits[8][c.id])
  BY <1>9, <1>10, <1>15
<1> QED BY <1>3, <1>4, <1>14, <1>16 DEF bytes, l, CreatureSize

\* A name is read with the size before it.
LEMMA NameRead ==
    ASSUME NEW name \in Bytes, Len(name) \in Byte, NEW bytes, NEW o, Holds(bytes, o, <<Len(name)>> \o name)
    PROVE  ReadName(bytes, o) = name
<1> DEFINE l == Len(name)
           s == <<l>>
<1>1. s \in Bytes /\ Len(s) = 1
  BY ByteAlone
<1>2. o \in Nat /\ o + 0 = o
  BY DEF Holds
<1>3. Holds(bytes, o, s \o name)
  OBVIOUS
<1> HIDE DEF s
<1>4. Holds(s \o name, 0, s) /\ Holds(s \o name, 1, name)
  <2>1. Holds(s \o name, 0, s) /\ Holds(s \o name, Len(s), name)
    BY <1>1, HoldsJoined
  <2> QED BY <1>1, <2>1
<1>5. Holds(bytes, o + 0, s) /\ Holds(bytes, o + 1, name)
  BY <1>3, <1>4, HoldsPart
<1>6. Holds(bytes, o, <<l>>)
  BY <1>2, <1>5 DEF s
<1> HIDE DEF l
<1>7. Read(bytes, o, 1) = l /\ l # Thrown
  BY <1>6, ReadsByte DEF l
<1>8. Slice(bytes, o + 1, l) = name
  BY <1>5, SliceHeld DEF l
<1> QED BY <1>7, <1>8, Zenon DEF ReadName

\* A creature is read as it was serialised, but a male one not at all.
LEMMA CreatureRead ==
    ASSUME NEW c \in Creatures, SerializeCreature(c) # Thrown
    PROVE  ReadCreature(SerializeCreature(c), 0) = IF c.gender = "MALE" THEN Thrown ELSE c
<1> DEFINE bytes == SerializeCreature(c)
           r == [gender |-> NamedAt(GenderValue, bytes, 0), specie |-> NamedAt(SpecieValue, bytes, 0 + 1),
                 x |-> ReadSigned(bytes, 0 + 2, 8), y |-> ReadSigned(bytes, 0 + 10, 8),
                 name |-> ReadName(bytes, 0 + 18), id |-> ReadId(bytes, 0 + 83)]
<1>1. /\ c = [gender |-> c.gender, specie |-> c.specie, x |-> c.x, y |-> c.y, name |-> c.name, id |-> c.id]
      /\ c.gender \in DOMAIN GenderByte /\ c.specie \in DOMAIN SpecieValue /\ c.x \in Numbers /\ c.y \in Numbers
      /\ c.name \in Bytes /\ c.id \in IdNumbers
  BY EntitiesAssumption
<1>2. /\ Len(c.name) \in Byte
      /\ Holds(bytes, 0, <<GenderByte[c.gender]>>) /\ Holds(bytes, 1, <<SpecieValue[c.specie]>>)
      /\ Holds(bytes, 2, SerializeVec(c.x, c.y)) /\ Holds(bytes, 18, <<Len(c.name)>> \o c.name)
      /\ Holds(bytes, 83, Digits[8][c.id])
  BY CreatureLaid
<1>3. ReadCreature(bytes, 0) = Complete(r)
  BY DEF ReadCreature
<1> HIDE DEF bytes
<1>4. 0 + 1 = 1 /\ 0 + 2 = 2 /\ 0 + 10 = 2 + 8 /\ 0 + 18 = 18 /\ 0 + 83 = 83
  OBVIOUS
<1>5. NamedAt(SpecieValue, bytes, 0 + 1) = c.specie /\ Said(c.specie)
  <2>1. NamedAt(SpecieValue, bytes, 1) = c.specie /\ Said(c.specie)
    BY <1>1, <1>2, ReadsName
  <2> QED BY <1>4, <2>1
<1>6. ReadSigned(bytes, 0 + 2, 8) = c.x /\ ReadSigned(bytes, 0 + 10, 8) = c.y
  <2>1. ReadSigned(bytes, 2, 8) = c.x /\ ReadSigned(bytes, 2 + 8, 8) = c.y
    BY <1>1, <1>2, PairHolds
  <2> QED BY <1>4, <2>1
<1>7. ReadName(bytes, 0 + 18) = c.name
  <2>1. ReadName(bytes, 18) = c.name
    BY <1>1, <1>2, NameRead, Zenon
  <2> QED BY <1>4, <2>1
<1>8. ReadId(bytes, 0 + 83) = c.id
  <2>1. ReadId(bytes, 83) = c.id
    BY <1>1, <1>2, ReadsId, Zenon
  <2> QED BY <1>4, <2>1
<1>9. Said(c.x) /\ Said(c.y) /\ Said(c.name) /\ Said(c.id)
  BY <1>1, NumbersAre, WhatIsSaid
<1>10. CASE c.gender = "MALE"
  <2>1. GenderByte[c.gender] = 2 /\ 2 \in Byte
    BY <1>10, ByteIs DEF GenderByte
  <2>2. At(bytes, 0) = 2 /\ 2 # Outside
    BY <1>2, <2>1, ReadsByte
  <2>3. \A n \in DOMAIN GenderValue : GenderValue[n] # 2
    BY DEF GenderValue
  <2>4. NamedAt(GenderValue, bytes, 0) = Thrown
    BY <2>2, <2>3, Zenon DEF NamedAt, Named
  <2>5. Thrown # Outside
    BY OutsideAssumption, Zenon
  <2>6. r = [gender |-> Thrown, specie |-> c.specie, x |-> c.x, y |-> c.y, name |-> c.name, id |-> c.id]
    BY <1>5, <1>6, <1>7, <1>8, <2>4
  <2> HIDE DEF r
  <2>7. r.gender = Thrown /\ "gender" \in DOMAIN r /\ \A k \in DOMAIN r : r[k] # Outside
    BY <1>5, <1>9, <2>5, <2>6 DEF Said
  <2>8. \E k \in DOMAIN r : r[k] = Thrown
    BY <2>7
  <2> QED BY <1>3, <1>10, <2>7, <2>8, CompleteIs, Zenon DEF bytes
<1>11. CASE c.gender # "MALE"
  <2>1. c.gender = "FEMALE" /\ c.gender \in DOMAIN GenderValue /\ GenderByte[c.gender] = GenderValue[c.gender]
    BY <1>1, <1>11 DEF GenderByte, GenderValue
  <2>2. NamedAt(GenderValue, bytes, 0) = c.gender /\ Said(c.gender)
    BY <1>2, <2>1, ReadsName
  <2>3. r = c
    BY <1>1, <1>5, <1>6, <1>7, <1>8, <2>2
  <2>4. \A k \in DOMAIN c : Said(c[k])
    BY <1>1, <1>5, <1>9, <2>2
  <2> HIDE DEF r
  <2>5. Complete(r) = c
    BY <2>3, <2>4, CompleteIs, Zenon
  <2> QED BY <1>3, <1>11, <2>5, Zenon DEF bytes
<1> QED BY <1>10, <1>11

\* A corpse is read as it was serialised.
LEMMA CorpseRead ==
    ASSUME NEW c \in Corpses
    PROVE  ReadCorpse(SerializeCorpse(c), 0) = c
<1> DEFINE f1 == <<0, Digits[8][c.id]>>
           f2 == <<8, Digits[4][c.rawMeat]>>
           f3 == <<12, SerializeVec(c.x, c.y)>>
           f4 == <<28, SerializeSize(c.width, c.height)>>
           F == {f1, f2, f3, f4}
           fields == <<f1, f2, f3, f4>>
           zeros == Zeros(44)
           bytes == SerializeCorpse(c)
           r == [id |-> ReadId(bytes, 0), rawMeat |-> ReadSigned(bytes, 0 + 8, 4),
                 x |-> ReadSigned(bytes, 0 + 12, 8), y |-> ReadSigned(bytes, 0 + 20, 8),
                 width |-> ReadSize(bytes, 0 + 28).width, height |-> ReadSize(bytes, 0 + 28).height]
<1>1. /\ c = [id |-> c.id, rawMeat |-> c.rawMeat, x |-> c.x, y |-> c.y, width |-> c.width, height |-> c.height]
      /\ c.id \in IdNumbers /\ c.rawMeat \in Numbers /\ c.x \in Numbers /\ c.y \in Numbers
      /\ c.width \in Numbers /\ c.height \in Numbers
  BY EntitiesAssumption
<1>2. c.id \in Int /\ c.rawMeat \in Int /\ c.x \in Int /\ c.y \in Int /\ c.width \in Int /\ c.height \in Int
  BY EntitiesAre
<1>3. /\ 44 \in Nat /\ 0 \in Nat /\ 4 \in Nat /\ 8 \in Nat /\ 12 \in Nat /\ 28 \in Nat
      /\ 0 + 8 <= 44 /\ 8 + 4 <= 44 /\ 12 + 16 <= 44 /\ 28 + 16 <= 44
  OBVIOUS
<1>4. f1 \in FieldsIn(44) /\ f2 \in FieldsIn(44) /\ f3 \in FieldsIn(44) /\ f4 \in FieldsIn(44)
  BY <1>2, <1>3, PairField, NumberField, Zenon
<1>5. bytes = PutAll(zeros, fields)
  BY Zenon DEF SerializeCorpse, CorpseSize
<1>6. /\ f1[1] = 0 /\ Len(f1[2]) = 8 /\ f2[1] = 8 /\ Len(f2[2]) = 4 /\ f3[1] = 12 /\ Len(f3[2]) = 16
      /\ f4[1] = 28 /\ Len(f4[2]) = 16
  BY <1>2, <1>3, PairsAre, DigitsOf
<1>7. /\ f1[2] = Digits[8][c.id] /\ f2[2] = Digits[4][c.rawMeat] /\ f3[2] = SerializeVec(c.x, c.y)
      /\ f4[2] = SerializeSize(c.width, c.height)
  OBVIOUS
<1>8. ReadCorpse(bytes, 0) = Complete(r)
  BY DEF ReadCorpse
<1>9. zeros \in Bytes /\ 44 = Len(zeros)
  BY <1>3, ZerosAre
<1> HIDE DEF f1, f2, f3, f4, bytes, zeros
<1>10. \A f, g \in F : f = g \/ Apart(f, g)
  <2>1. Apart(f1, f2) /\ Apart(f1, f3) /\ Apart(f1, f4)
    BY <1>6 DEF Apart
  <2>2. Apart(f2, f3) /\ Apart(f2, f4) /\ Apart(f3, f4)
    BY <1>6 DEF Apart
  <2>3. \A f, g : Apart(f, g) => Apart(g, f)
    BY Zenon DEF Apart
  <2>4. \A f \in F : f = f1 \/ f = f2 \/ f = f3 \/ f = f4
    OBVIOUS
  <2> HIDE DEF F
  <2> QED BY <2>1, <2>2, <2>3, <2>4, Zenon
<1>11. F \subseteq FieldsIn(44)
  BY <1>4
<1>12. /\ fields \in Seq(F) /\ Len(fields) = 4
       /\ fields[1] = f1 /\ fields[2] = f2 /\ fields[3] = f3 /\ fields[4] = f4
  OBVIOUS
<1> HIDE DEF F, fields
<1>13. Laid(bytes, fields, 44)
  BY <1>5, <1>9, <1>10, <1>11, <1>12, LayoutHolds, Zenon
<1>14. Holds(bytes, f1[1], f1[2]) /\ Holds(bytes, f2[1], f2[2]) /\ Holds(bytes, f3[1], f3[2]) /\ Holds(bytes, f4[1], f4[2])
  BY <1>12, <1>13 DEF Laid
<1>15. /\ Holds(bytes, 0, Digits[8][c.id]) /\ Holds(bytes, 8, Digits[4][c.rawMeat])
       /\ Holds(bytes, 12, SerializeVec(c.x, c.y)) /\ Holds(bytes, 28, SerializeSize(c.width, c.height))
  BY <1>6, <1>7, <1>14
<1>16. ReadId(bytes, 0) = c.id
  BY <1>1, <1>15, ReadsId, Zenon
<1>17. ReadSigned(bytes, 8, 4) = c.rawMeat
  BY <1>1, <1>15, ReadsSigned
<1>18. ReadSigned(bytes, 12, 8) = c.x /\ ReadSigned(bytes, 12 + 8, 8) = c.y
  BY <1>1, <1>15, PairHolds
<1>19. ReadSigned(bytes, 28, 8) = c.width /\ ReadSigned(bytes, 28 + 8, 8) = c.height
  BY <1>1, <1>15, PairHolds
<1>20. ReadSize(bytes, 28).width = c.width /\ ReadSize(bytes, 28).height = c.height
  BY <1>19 DEF ReadSize
<1>21. 0 + 8 = 8 /\ 0 + 12 = 12 /\ 0 + 20 = 12 + 8 /\ 0 + 28 = 28
  OBVIOUS
<1>22. r = c
  BY <1>1, <1>16, <1>17, <1>18, <1>20, <1>21
<1>23. \A k \in DOMAIN c : Said(c[k])
  <2>1. /\ Said(c.id) /\ Said(c.rawMeat) /\ Said(c.x) /\ Said(c.y) /\ Said(c.width) /\ Said(c.height)
    BY <1>2, WhatIsSaid
  <2> QED BY <1>1, <2>1
<1> HIDE DEF r
<1> QED BY <1>8, <1>22, <1>23, CompleteIs, Zenon DEF bytes

\* The territory is read as it was serialised.
LEMMA TerritoryRead == ReadTerritory(SerializeTerritory(Territory), 0) = Territory
<1> DEFINE bytes == SerializeTerritory(Territory)
           r == ReadSize(bytes, 0)
<1>1. /\ Territory = [width |-> Territory.width, height |-> Territory.height]
      /\ Territory.width \in Numbers /\ Territory.height \in Numbers
  BY EntitiesAssumption
<1>2. Territory.width \in Int /\ Territory.height \in Int
  BY EntitiesAre
<1>3. bytes = SerializeSize(Territory.width, Territory.height)
  BY DEF SerializeTerritory
<1>4. bytes \in Bytes
  BY <1>2, <1>3, PairsAre
<1> HIDE DEF bytes
<1>5. Holds(bytes, 0, SerializeSize(Territory.width, Territory.height))
  BY <1>3, <1>4, HoldsItself
<1>6. ReadSigned(bytes, 0, 8) = Territory.width /\ ReadSigned(bytes, 0 + 8, 8) = Territory.height
  BY <1>1, <1>5, PairHolds
<1>7. r = Territory
  BY <1>1, <1>6 DEF ReadSize
<1>8. \A k \in DOMAIN Territory : Said(Territory[k])
  <2>1. Said(Territory.width) /\ Said(Territory.height)
    BY <1>2, WhatIsSaid
  <2> QED BY <1>1, <2>1
<1>9. ReadTerritory(bytes, 0) = Complete(r)
  BY DEF ReadTerritory
<1> HIDE DEF r
<1> QED BY <1>7, <1>8, <1>9, CompleteIs, Zenon DEF bytes

-----------------------------------------------------------------------------
(* Soil that is read as it was serialised. *)

\* What the parts of a piece of soil are that GenTerrain lays.
LEMMA PieceIs ==
    ASSUME NEW s, s = GenSoilPiece(s.type, s.radius, s.x, s.y, s.id), s.type \in DOMAIN SoilBlueprints
    PROVE  /\ s.type \in DOMAIN SoilTypeValue /\ s.damage = Nothing /\ s.movementCost \in {1, 2}
           /\ s.properties = <<>> \/ s.properties = <<"DANGEROUS">>
           /\ s.required = <<>> \/ s.required = <<"WALK">> \/ s.required = <<"SWIMM">>
           /\ s = [damage |-> s.damage, movementCost |-> s.movementCost, id |-> s.id, radius |-> s.radius,
                   x |-> s.x, y |-> s.y, type |-> s.type, properties |-> s.properties, required |-> s.required]
<1> DEFINE b == SoilBlueprints[s.type]
           p == GenSoilPiece(s.type, s.radius, s.x, s.y, s.id)
<1>1. p = [type |-> s.type, properties |-> b.properties, required |-> b.required, damage |-> b.damage,
           movementCost |-> b.movementCost, radius |-> s.radius, x |-> s.x, y |-> s.y, id |-> s.id]
  BY DEF GenSoilPiece
<1>2. s = p
  OBVIOUS
<1>3. /\ b.damage = Nothing /\ b.movementCost \in {1, 2}
      /\ b.properties = <<>> \/ b.properties = <<"DANGEROUS">>
      /\ b.required = <<>> \/ b.required = <<"WALK">> \/ b.required = <<"SWIMM">>
  BY DEF SoilBlueprints, Blueprint
<1>4. s.type \in DOMAIN SoilTypeValue
  BY DEF SoilBlueprints, SoilTypeValue
<1> HIDE DEF p, b
<1>5. s = [type |-> s.type, properties |-> b.properties, required |-> b.required, damage |-> b.damage,
           movementCost |-> b.movementCost, radius |-> s.radius, x |-> s.x, y |-> s.y, id |-> s.id]
  BY <1>1, <1>2
<1>6. s.properties = b.properties /\ s.required = b.required /\ s.damage = b.damage /\ s.movementCost = b.movementCost
  BY <1>5
<1> QED BY <1>3, <1>4, <1>5, <1>6

\* An array of zeros holds a zero everywhere.
LEMMA ZerosHold == ASSUME NEW n \in Nat, NEW o \in Nat, o < n PROVE Holds(Zeros(n), o, <<0>>)
<1> DEFINE z == Zeros(n)
           b == <<0>>
<1>1. z \in Bytes /\ Len(z) = n
  BY ZerosAre
<1>2. b \in Bytes /\ Len(b) = 1
  BY ByteIs, ByteAlone
<1>3. b[1] = 0
  OBVIOUS
<1>4. \A i \in 1..n : z[i] = 0
  BY DEF Zeros
<1> HIDE DEF z, b
<1>5. o + 1 \in 1..n /\ o + Len(b) <= Len(z)
  BY <1>1, <1>2
<1> QED BY <1>1, <1>2, <1>3, <1>4, <1>5 DEF Holds, z, b

\* A flag is read.
LEMMA ReadsFlag ==
    ASSUME NEW bytes, NEW o, NEW b \in {0, 1}, Holds(bytes, o, <<b>>)
    PROVE  (b = 1 => ReadBool(bytes, o) = TRUE) /\ (b = 0 => ReadBool(bytes, o) = FALSE)
<1>1. b \in Byte
  BY ByteIs
<1>2. At(bytes, o) = b /\ b # Outside
  BY <1>1, ReadsByte
<1>3. b = 0 \/ b = 1
  OBVIOUS
<1>4. CASE b = 0
  <2>1. At(bytes, o) = 0 /\ 0 # Outside /\ 0 # 1
    BY <1>2, <1>4
  <2>2. ReadBool(bytes, o) = FALSE
    BY <2>1, Zenon DEF ReadBool
  <2> QED BY <1>4, <2>2
<1>5. CASE b = 1
  <2>1. At(bytes, o) = 1 /\ 1 # Outside /\ 1 # 0
    BY <1>2, <1>5
  <2>2. ReadBool(bytes, o) = TRUE
    BY <2>1, Zenon DEF ReadBool
  <2> QED BY <1>5, <2>2
<1> QED BY <1>3, <1>4, <1>5

\* What may be there is serialised in five bytes and read as it was.
LEMMA OptionalRead ==
    ASSUME NEW v, v = Nothing \/ v \in Numbers
    PROVE  /\ SerializeOptional(v) \in Bytes /\ Len(SerializeOptional(v)) = 5
           /\ Said(v)
           /\ \A bytes, o : Holds(bytes, o, SerializeOptional(v)) => ReadOptional(bytes, o) = v
<1> DEFINE part == SerializeOptional(v)
<1>1. Said(v)
  BY NumbersAre, WhatIsSaid
<1>2. CASE v = Nothing
  <2>1. part = Zeros(5) /\ 5 \in Nat /\ 0 \in Nat /\ 0 < 5
    BY <1>2 DEF SerializeOptional
  <2> HIDE DEF part
  <2>2. part \in Bytes /\ Len(part) = 5 /\ Holds(part, 0, <<0>>)
    BY <2>1, ZerosAre, ZerosHold
  <2>3. ASSUME NEW bytes, NEW o, Holds(bytes, o, part) PROVE ReadOptional(bytes, o) = v
    <3>1. o \in Nat /\ o + 0 = o
      BY <2>3 DEF Holds
    <3>2. Holds(bytes, o + 0, <<0>>)
      BY <2>2, <2>3, HoldsPart
    <3>3. 0 \in {0, 1} /\ 0 # 1
      OBVIOUS
    <3>4. ReadBool(bytes, o) = FALSE
      BY <3>1, <3>2, <3>3, ReadsFlag
    <3> QED BY <1>2, <3>4 DEF ReadOptional
  <2> QED BY <1>1, <2>2, <2>3 DEF part
<1>3. CASE v # Nothing
  <2> DEFINE x == <<1>>
             y == Digits[4][v]
  <2>1. x \in Bytes /\ Len(x) = 1 /\ y \in Bytes /\ Len(y) = 4
    <3>1. 1 \in Byte /\ v \in Int
      BY <1>3, ByteIs, NumbersAre
    <3> QED BY <3>1, ByteAlone, DigitsOf
  <2>2. part = x \o y
    BY <1>3 DEF SerializeOptional
  <2> HIDE DEF part, x, y
  <2>3. part \in Bytes /\ Len(part) = 5
    <3>1. x \o y \in Bytes /\ Len(x \o y) = 1 + 4
      BY <2>1, JoinLength
    <3> QED BY <2>2, <3>1
  <2>4. Holds(part, 0, x) /\ Holds(part, 1, y)
    <3>1. Holds(x \o y, 0, x) /\ Holds(x \o y, Len(x), y)
      BY <2>1, HoldsJoined
    <3> QED BY <2>1, <2>2, <3>1
  <2>5. ASSUME NEW bytes, NEW o, Holds(bytes, o, part) PROVE ReadOptional(bytes, o) = v
    <3>1. o \in Nat /\ o + 0 = o
      BY <2>5 DEF Holds
    <3>2. Holds(bytes, o + 0, x) /\ Holds(bytes, o + 1, y)
      BY <2>4, <2>5, HoldsPart
    <3>3. 1 \in {0, 1}
      OBVIOUS
    <3>4. ReadBool(bytes, o) = TRUE
      BY <3>1, <3>2, <3>3, ReadsFlag DEF x
    <3>5. ReadSigned(bytes, o + 1, 4) = v
      BY <1>3, <3>2, ReadsSigned DEF y
    <3> QED BY <3>4, <3>5 DEF ReadOptional
  <2> QED BY <1>1, <2>3, <2>5 DEF part
<1> QED BY <1>2, <1>3

\* The properties of a piece: their count, and a zero that is read as DANGEROUS.
LEMMA PropertiesLaid ==
    ASSUME NEW p, p = <<>> \/ p = <<"DANGEROUS">>
    PROVE  LET bytes == SerializeProperties(p)
           IN  /\ Len(p) = 0 \/ Len(p) = 1
               /\ bytes \in Bytes /\ Len(bytes) = 9 /\ Holds(bytes, 0, <<Len(p)>>) /\ Holds(bytes, 1, <<0>>)
<1> DEFINE n == Len(p)
           rest == IF p = <<>> THEN <<>> ELSE Tail(p)
           written == [i \in 1..Len(rest) |-> <<i, <<PropertyByte[rest[i]]>> >>]
           first == <<0, <<n>> >>
           zero == <<1, <<0>> >>
           F == {first, zero}
           fields == <<first>> \o <<>>
           zeros == Zeros(9)
<1>1. n = 0 \/ n = 1
  <2>1. Len(<<>>) = 0 /\ Len(<<"DANGEROUS">>) = 1
    OBVIOUS
  <2> QED BY <2>1, Zenon
<1>2. written = <<>>
  <2>1. rest = <<>>
    <3>1. Tail(<<"DANGEROUS">>) = <<>>
      OBVIOUS
    <3> QED BY <3>1, Zenon
  <2> HIDE DEF rest
  <2>2. 1..Len(rest) = {}
    BY <2>1
  <2> QED BY <2>2
<1>3. SerializeProperties(p) = PutAll(zeros, fields)
  BY <1>2, Zenon DEF SerializeProperties
<1> HIDE DEF n
<1>4. first \in FieldsIn(9) /\ zero \in FieldsIn(9)
  <2>1. n \in Byte /\ 0 \in Byte
    BY <1>1, ByteIs
  <2>2. 0 \in Nat /\ 1 \in Nat /\ 9 \in Nat /\ 0 + 1 <= 9 /\ 1 + 1 <= 9
    OBVIOUS
  <2> QED BY <2>1, <2>2, ByteField, Zenon
<1>5. /\ first[1] = 0 /\ Len(first[2]) = 1 /\ zero[1] = 1 /\ Len(zero[2]) = 1
      /\ first[2] = <<n>> /\ zero[2] = <<0>>
  OBVIOUS
<1>6. zeros \in Bytes /\ 9 = Len(zeros) /\ Holds(zeros, 1, <<0>>)
  <2>1. 9 \in Nat /\ 1 \in Nat /\ 1 < 9
    OBVIOUS
  <2> QED BY <2>1, ZerosAre, ZerosHold
<1> HIDE DEF first, zero, zeros
<1>7. Apart(zero, first)
  BY <1>5 DEF Apart
<1>8. fields = <<first>> /\ Len(fields) = 1 /\ fields[1] = first
  OBVIOUS
<1> DEFINE S == Sparing(zero, 9)
           A == FieldsIn(9)
<1>9. first \in S
  BY <1>4, <1>7 DEF Sparing
<1>10. first \in A
  BY <1>4
<1> HIDE DEF S, A
<1>11. fields \in Seq(S) /\ fields \in Seq(A)
  BY <1>9, <1>10
<1> HIDE DEF fields
<1> DEFINE bytes == PutAll(zeros, fields)
<1>12. Holds(zeros, zero[1], zero[2])
  BY <1>5, <1>6
<1>13. Holds(bytes, zero[1], zero[2])
  BY <1>6, <1>11, <1>12, FieldsHold, Zenon DEF S
<1>14. bytes \in Bytes /\ Len(bytes) = 9
  BY <1>6, <1>11, PutAllIs, Zenon DEF A
<1> DEFINE R == Sparing(first, 9)
<1>15. first \in R
  BY <1>4 DEF Sparing
<1> HIDE DEF R
<1>16. fields \in Seq(R) /\ \E j \in 1..Len(fields) : fields[j] = first
  BY <1>8, <1>15
<1>17. Holds(bytes, first[1], first[2])
  BY <1>6, <1>16, FieldsHold, Zenon DEF R
<1>18. Holds(bytes, 0, <<n>>) /\ Holds(bytes, 1, <<0>>)
  BY <1>5, <1>13, <1>17
<1> QED BY <1>1, <1>3, <1>14, <1>18 DEF n

\* The properties are read as they were serialised.
LEMMA PropertiesRead ==
    ASSUME NEW p, p = <<>> \/ p = <<"DANGEROUS">>, NEW bytes, NEW o, Holds(bytes, o, SerializeProperties(p))
    PROVE  ReadProperties(bytes, o) = p /\ Said(p)
<1> DEFINE n == Len(p)
           part == SerializeProperties(p)
           r == [i \in 1..n |-> IF At(bytes, o + i) = PropertyValue["DANGEROUS"] THEN "DANGEROUS" ELSE Outside]
<1>1. (n = 0 \/ n = 1) /\ Holds(part, 0, <<n>>) /\ Holds(part, 1, <<0>>)
  BY PropertiesLaid
<1> HIDE DEF part
<1>2. o \in Nat /\ o + 0 = o
  BY DEF Holds, part
<1>3. Holds(bytes, o + 0, <<n>>) /\ Holds(bytes, o + 1, <<0>>)
  BY <1>1, HoldsPart DEF part
<1>4. n \in Byte /\ 0 \in Byte
  <2> HIDE DEF n
  <2> QED BY <1>1, ByteIs
<1>5. Read(bytes, o, 1) = n /\ n # Thrown /\ At(bytes, o + 1) = 0
  <2> HIDE DEF n
  <2> QED BY <1>2, <1>3, <1>4, ReadsByte
<1>6. ~ (n * 2 > 9)
  <2> HIDE DEF n
  <2> QED BY <1>1
<1>7. ReadProperties(bytes, o) = r
  <2> HIDE DEF n
  <2> QED BY <1>5, <1>6, Zenon DEF ReadProperties, r
<1>8. PropertyValue["DANGEROUS"] = 0
  BY DEF PropertyValue
<1>9. r = p
  <2>1. CASE p = <<>>
    <3>1. n = 0
      BY <2>1
    <3> HIDE DEF n
    <3>2. r = <<>>
      BY <3>1
    <3> QED BY <2>1, <3>2
  <2>2. CASE p = <<"DANGEROUS">>
    <3>1. n = 1
      BY <2>2
    <3> HIDE DEF n
    <3>2. r = [i \in 1..1 |-> "DANGEROUS"]
      BY <1>5, <1>8, <3>1
    <3>3. [i \in 1..1 |-> "DANGEROUS"] = <<"DANGEROUS">>
      OBVIOUS
    <3> QED BY <2>2, <3>2, <3>3
  <2> QED BY <2>1, <2>2
<1>10. p \in Seq(Words)
  <2> DEFINE W == Words
  <2>1. "DANGEROUS" \in W
    BY EnumsDiffer
  <2> HIDE DEF W
  <2>2. <<>> \in Seq(W) /\ <<"DANGEROUS">> \in Seq(W)
    BY <2>1
  <2> QED BY <2>2 DEF W
<1> QED BY <1>7, <1>9, <1>10, WhatIsSaid

\* Two sequences of one element.
LEMMA TwoJoined == ASSUME NEW x, NEW y PROVE <<x>> \o <<y>> = <<x, y>>
<1> DEFINE S == {x, y}
           s == <<x>>
           t == <<y>>
           u == <<x, y>>
           v == s \o t
<1>1. s \in Seq(S) /\ t \in Seq(S) /\ u \in Seq(S) /\ Len(s) = 1 /\ Len(t) = 1 /\ Len(u) = 2
  OBVIOUS
<1>2. s[1] = x /\ t[1] = y /\ u[1] = x /\ u[2] = y
  OBVIOUS
<1> HIDE DEF s, t, u, S
<1>3. v \in Seq(S) /\ Len(v) = 2 /\ \A i \in 1..2 : v[i] = IF i <= 1 THEN s[i] ELSE t[i - 1]
  <2>1. /\ v \in Seq(S) /\ Len(v) = Len(s) + Len(t)
        /\ \A i \in 1..Len(s) + Len(t) : v[i] = IF i <= Len(s) THEN s[i] ELSE t[i - Len(s)]
    BY <1>1, ConcatProperties
  <2> HIDE DEF v
  <2> QED BY <1>1, <2>1
<1> HIDE DEF v
<1>4. v[1] = x /\ v[2] = y
  BY <1>2, <1>3
<1>5. \A i \in 1..2 : v[i] = u[i]
  BY <1>2, <1>4
<1>6. v = u
  BY <1>1, <1>3, <1>5, SeqEqual
<1> QED BY <1>6 DEF v, s, t, u

\* The capabilities a piece requires: their count, and each behind it.
LEMMA RequiredLaid ==
    ASSUME NEW q, q = <<>> \/ q = <<"WALK">> \/ q = <<"SWIMM">>
    PROVE  LET bytes == SerializeRequired(q)
           IN  /\ Len(q) = 0 \/ (Len(q) = 1 /\ q[1] \in DOMAIN MoveValue)
               /\ bytes \in Bytes /\ Len(bytes) = 11 /\ Holds(bytes, 0, <<Len(q)>>)
               /\ Len(q) = 1 => Holds(bytes, 1, <<0>>) /\ Holds(bytes, 2, <<MoveValue[q[1]]>>)
<1> DEFINE n == Len(q)
           all == [i \in 1..n |-> <<2 * i - 1, SerializeCapability(q[i])>>]
           first == <<0, <<n>> >>
           only == <<1, SerializeCapability(q[1])>>
           zeros == Zeros(11)
           fields == <<first>> \o all
           bytes == PutAll(zeros, fields)
<1>1. n = 0 \/ (n = 1 /\ q[1] \in DOMAIN MoveValue)
  <2>1. Len(<<>>) = 0 /\ Len(<<"WALK">>) = 1 /\ Len(<<"SWIMM">>) = 1
    OBVIOUS
  <2>2. "WALK" \in DOMAIN MoveValue /\ "SWIMM" \in DOMAIN MoveValue
    BY DEF MoveValue
  <2>3. <<"WALK">>[1] = "WALK" /\ <<"SWIMM">>[1] = "SWIMM"
    OBVIOUS
  <2> QED BY <2>1, <2>2, <2>3, Zenon
<1>2. SerializeRequired(q) = bytes
  <2>1. ~ (n > 11)
    <3> HIDE DEF n
    <3> QED BY <1>1
  <2> QED BY <2>1, Zenon DEF SerializeRequired
<1> HIDE DEF n
<1>3. n \in Byte /\ n \in Nat
  BY <1>1, ByteIs
<1>4. first \in FieldsIn(11) /\ first[1] = 0 /\ Len(first[2]) = 1 /\ first[2] = <<n>>
  <2>1. 0 \in Nat /\ 11 \in Nat /\ 0 + 1 <= 11
    OBVIOUS
  <2>2. first \in FieldsIn(11)
    BY <1>3, <2>1, ByteField, Zenon
  <2> QED BY <2>2
<1>5. zeros \in Bytes /\ 11 = Len(zeros)
  <2>1. 11 \in Nat
    OBVIOUS
  <2> QED BY <2>1, ZerosAre
<1> HIDE DEF first, zeros
<1>6. CASE n = 0
  <2> DEFINE F == {first}
  <2>1. all = <<>>
    BY <1>6
  <2>2. fields = <<first>> /\ Len(fields) = 1 /\ fields[1] = first
    <3> HIDE DEF all
    <3> QED BY <2>1
  <2>3. F \subseteq FieldsIn(11) /\ \A f, g \in F : f = g \/ Apart(f, g)
    BY <1>4
  <2> HIDE DEF fields, all
  <2>4. fields \in Seq(F)
    BY <2>2
  <2> HIDE DEF F
  <2>5. Laid(bytes, fields, 11)
    BY <1>5, <2>3, <2>4, LayoutHolds, Zenon
  <2>6. Holds(bytes, first[1], first[2]) /\ bytes \in Bytes /\ Len(bytes) = 11
    BY <2>2, <2>5 DEF Laid
  <2> HIDE DEF bytes
  <2> QED BY <1>1, <1>2, <1>4, <1>6, <2>6 DEF n
<1>7. CASE n # 0
  <2> DEFINE m == MoveValue[q[1]]
             c == SerializeCapability(q[1])
             a == <<0>>
             b == <<m>>
             F == {first, only}
  <2>1. n = 1 /\ m \in Byte /\ 0 \in Byte /\ c = <<0, m>>
    BY <1>1, <1>7, ByteIs, EnumsAreBytes DEF SerializeCapability
  <2>2. a \in Bytes /\ Len(a) = 1 /\ b \in Bytes /\ Len(b) = 1 /\ a \o b = <<0, m>>
    <3> HIDE DEF m
    <3>1. <<0>> \o <<m>> = <<0, m>>
      BY TwoJoined
    <3> QED BY <2>1, <3>1, ByteAlone
  <2> HIDE DEF a, b, c
  <2>3. c \in Bytes /\ Len(c) = 2 /\ Holds(c, 0, a) /\ Holds(c, 1, b)
    <3>1. c = a \o b
      BY <2>1, <2>2
    <3>2. a \o b \in Bytes /\ Len(a \o b) = 1 + 1
      BY <2>2, JoinLength
    <3>3. Holds(a \o b, 0, a) /\ Holds(a \o b, Len(a), b)
      BY <2>2, HoldsJoined
    <3> QED BY <2>2, <3>1, <3>2, <3>3
  <2>4. only \in FieldsIn(11) /\ only[1] = 1 /\ only[2] = c /\ Len(only[2]) = 2
    <3>1. 1 \in Nat /\ 11 \in Nat /\ 1 + Len(c) <= 11 /\ only = <<1, c>>
      BY <2>3 DEF c
    <3>2. <<1, c>> \in FieldsIn(11)
      BY <2>3, <3>1, FieldIs, Zenon
    <3> HIDE DEF only
    <3> QED BY <2>3, <3>1, <3>2
  <2>5. all = <<only>>
    <3>1. all = [i \in 1..1 |-> <<2 * i - 1, SerializeCapability(q[i])>>]
      BY <2>1
    <3>2. all = [i \in 1..1 |-> only]
      <4>1. \A i \in 1..1 : i = 1 /\ 2 * i - 1 = 1
        OBVIOUS
      <4>2. ASSUME NEW i \in 1..1 PROVE <<2 * i - 1, SerializeCapability(q[i])>> = only
        BY <4>1
      <4> QED BY <3>1, <4>2
    <3> HIDE DEF all, only
    <3> QED BY <3>2
  <2> HIDE DEF all, only
  <2>6. fields = <<first, only>> /\ Len(fields) = 2 /\ fields[1] = first /\ fields[2] = only
    BY <2>5, TwoJoined
  <2>7. \A f, g \in F : f = g \/ Apart(f, g)
    <3>1. Apart(first, only) /\ Apart(only, first)
      BY <1>4, <2>4 DEF Apart
    <3> QED BY <3>1
  <2>8. F \subseteq FieldsIn(11)
    BY <1>4, <2>4
  <2> HIDE DEF fields
  <2>9. fields \in Seq(F)
    BY <2>6
  <2> HIDE DEF F
  <2>10. Laid(bytes, fields, 11)
    BY <1>5, <2>7, <2>8, <2>9, LayoutHolds, Zenon
  <2> HIDE DEF bytes
  <2>11. /\ Holds(bytes, first[1], first[2]) /\ Holds(bytes, only[1], only[2])
         /\ bytes \in Bytes /\ Len(bytes) = 11
    BY <2>6, <2>10 DEF Laid
  <2>12. Holds(bytes, 0, <<n>>) /\ Holds(bytes, 1, c)
    BY <1>4, <2>4, <2>11
  <2>13. Holds(bytes, 1 + 0, a) /\ Holds(bytes, 1 + 1, b)
    BY <2>3, <2>12, HoldsPart
  <2>14. 1 + 0 = 1 /\ 1 + 1 = 2
    OBVIOUS
  <2>15. Holds(bytes, 1, a) /\ Holds(bytes, 2, b)
    BY <2>13, <2>14
  <2> QED BY <1>1, <1>2, <2>1, <2>11, <2>12, <2>15 DEF n, a, b
<1> QED BY <1>6, <1>7

\* The capabilities are read as they were serialised.
LEMMA RequiredRead ==
    ASSUME NEW q, q = <<>> \/ q = <<"WALK">> \/ q = <<"SWIMM">>, NEW bytes, NEW o, Holds(bytes, o, SerializeRequired(q))
    PROVE  ReadRequired(bytes, o) = q /\ Said(q)
<1> DEFINE n == Len(q)
           part == SerializeRequired(q)
           r == [i \in 1..n |-> ReadCapability(bytes, o + 2 * i - 1)]
<1>1. /\ n = 0 \/ (n = 1 /\ q[1] \in DOMAIN MoveValue)
      /\ Holds(part, 0, <<n>>)
      /\ n = 1 => Holds(part, 1, <<0>>) /\ Holds(part, 2, <<MoveValue[q[1]]>>)
  BY RequiredLaid
<1> HIDE DEF part
<1>2. o \in Nat /\ o + 0 = o
  BY DEF Holds, part
<1>3. /\ Holds(bytes, o + 0, <<n>>)
      /\ n = 1 => Holds(bytes, o + 1, <<0>>) /\ Holds(bytes, o + 2, <<MoveValue[q[1]]>>)
  BY <1>1, HoldsPart DEF part
<1>4. Read(bytes, o, 1) = n /\ n # Thrown
  <2> HIDE DEF n
  <2>1. n \in Byte
    BY <1>1, ByteIs
  <2> QED BY <1>2, <1>3, <2>1, ReadsByte
<1>5. r = q /\ \A i \in 1..n : r[i] # Thrown
  <2>1. CASE n = 0
    <3>1. q = <<>>
      <4>1. Len(<<"WALK">>) = 1 /\ Len(<<"SWIMM">>) = 1
        OBVIOUS
      <4>2. 0 # 1
        OBVIOUS
      <4> QED BY <2>1, <4>1, <4>2, Zenon
    <3> HIDE DEF n
    <3>2. r = <<>> /\ \A i \in 1..n : FALSE
      BY <2>1
    <3> QED BY <3>1, <3>2
  <2>2. CASE n = 1
    <3> DEFINE move == q[1]
    <3>1. move \in DOMAIN MoveValue /\ q = <<move>>
      <4>1. Len(<<>>) = 0
        OBVIOUS
      <4>2. 0 # 1
        OBVIOUS
      <4>3. q # <<>>
        BY <2>2, <4>1, <4>2, Zenon
      <4>4. <<"WALK">>[1] = "WALK" /\ <<"SWIMM">>[1] = "SWIMM"
        OBVIOUS
      <4>5. q = <<move>>
        BY <4>3, <4>4, Zenon
      <4> QED BY <1>1, <2>2, <4>2, <4>5, Zenon
    <3> HIDE DEF n, move
    <3>2. 0 \in Byte /\ MoveValue[move] \in Byte
      BY <3>1, ByteIs, EnumsAreBytes
    <3>3. Read(bytes, o + 1, 1) = 0
      BY <1>3, <2>2, <3>2, ReadsByte
    <3>4. Read(bytes, o + 2, 1) = MoveValue[move]
      BY <1>3, <2>2, <3>2, ReadsByte DEF move
    <3>5. Named(MoveValue, MoveValue[move]) = move /\ move # Thrown
      <4>1. Holds(bytes, o + 2, <<MoveValue[move]>>)
        BY <1>3, <2>2 DEF move
      <4> QED BY <3>1, <4>1, ReadsName DEF Said
    <3>6. o + 2 * 1 - 1 = o + 1 /\ (o + 1) + 1 = o + 2
      BY <1>2
    <3>7. ReadCapability(bytes, o + 2 * 1 - 1) = move
      <4>1. Read(bytes, o + 2 * 1 - 1, 1) = 0 /\ Read(bytes, (o + 2 * 1 - 1) + 1, 1) = MoveValue[move]
        BY <3>3, <3>4, <3>6
      <4> QED BY <3>5, <4>1, Zenon DEF ReadCapability, FromRaw
    <3>8. \A i \in 1..1 : i = 1
      OBVIOUS
    <3>9. r = [i \in 1..1 |-> move]
      BY <2>2, <3>7, <3>8
    <3>10. [i \in 1..1 |-> move] = <<move>>
      OBVIOUS
    <3>11. \A i \in 1..1 : <<move>>[i] = move
      OBVIOUS
    <3> HIDE DEF r
    <3> QED BY <2>2, <3>1, <3>5, <3>9, <3>10, <3>11
  <2> QED BY <1>1, <2>1, <2>2
<1>6. ReadRequired(bytes, o) = r
  <2> HIDE DEF n
  <2> QED BY <1>4, <1>5, Zenon DEF ReadRequired, r
<1>7. q \in Seq(Words)
  <2> DEFINE W == Words
  <2>1. "WALK" \in W /\ "SWIMM" \in W
    BY DEF Words, MoveValue
  <2> HIDE DEF W
  <2>2. <<>> \in Seq(W) /\ <<"WALK">> \in Seq(W) /\ <<"SWIMM">> \in Seq(W)
    BY <2>1
  <2> QED BY <2>2 DEF W
<1> QED BY <1>5, <1>6, <1>7, WhatIsSaid

\* A piece of soil that GenTerrain lays.
PieceOfSoil(s) ==
    /\ s = GenSoilPiece(s.type, s.radius, s.x, s.y, s.id) /\ s.type \in DOMAIN SoilBlueprints
    /\ s.radius \in Numbers /\ s.x \in Numbers /\ s.y \in Numbers /\ s.id \in IdNumbers
    /\ s # Thrown

\* The pieces of the registry are what GenTerrain lays.
LEMMA PiecesOfSoil ==
    ASSUME soils \in SoilOrders
    PROVE  /\ soils \in Seq(ToSet(soils)) /\ \A i \in 1..Len(soils) : PieceOfSoil(soils[i])
           /\ \A s \in ToSet(soils) : PieceOfSoil(s)
<1>1. soils \in Seq(ToSet(soils)) /\ \A i \in 1..Len(soils) : PieceOfSoil(soils[i])
  BY SoilsAssumption, Zenon DEF PieceOfSoil
<1>2. DOMAIN soils = 1..Len(soils)
  <2> DEFINE S == ToSet(soils)
  <2>1. soils \in Seq(S)
    BY <1>1
  <2> HIDE DEF S
  <2> QED BY <2>1
<1>3. \A s \in ToSet(soils) : \E i \in 1..Len(soils) : s = soils[i]
  BY <1>2 DEF ToSet
<1> QED BY <1>1, <1>3, Zenon

\* The movement costs are numbers that are read back.
LEMMA SmallNumbers == 1 \in Numbers /\ 2 \in Numbers
<1>1. Huge \in Int /\ -Huge <= 1 /\ 2 <= Huge - 1
  BY SMT DEF Huge
<1> QED BY <1>1 DEF Numbers

\* Where the parts of a piece of soil lie.
LEMMA SoilLaid ==
    ASSUME NEW s, PieceOfSoil(s)
    PROVE  LET bytes == SerializeSoil(s)
           IN  /\ bytes \in Bytes /\ Len(bytes) = SoilSize
               /\ Holds(bytes, 0, <<SoilTypeValue[s.type]>>) /\ Holds(bytes, 1, SerializeProperties(s.properties))
               /\ Holds(bytes, 10, SerializeRequired(s.required)) /\ Holds(bytes, 21, SerializeOptional(s.damage))
               /\ Holds(bytes, 26, SerializeOptional(s.movementCost)) /\ Holds(bytes, 31, Digits[8][s.radius])
               /\ Holds(bytes, 39, SerializeVec(s.x, s.y)) /\ Holds(bytes, 63, Digits[8][s.id])
<1> DEFINE properties == SerializeProperties(s.properties)
           required == SerializeRequired(s.required)
           damage == SerializeOptional(s.damage)
           cost == SerializeOptional(s.movementCost)
           f1 == <<0, <<SoilTypeValue[s.type]>> >>
           f2 == <<1, properties>>
           f3 == <<10, required>>
           f4 == <<21, damage>>
           f5 == <<26, cost>>
           f6 == <<31, Digits[8][s.radius]>>
           f7 == <<39, SerializeVec(s.x, s.y)>>
           f8 == <<63, Digits[8][s.id]>>
           zeros == Zeros(71)
           F == {f1, f2, f3, f4, f5, f6, f7, f8}
           fields == <<f1, f2, f3, f4, f5, f6, f7, f8>>
           bytes == SerializeSoil(s)
<1>1. /\ s.type \in DOMAIN SoilTypeValue /\ s.damage = Nothing /\ s.movementCost \in {1, 2}
      /\ s.properties = <<>> \/ s.properties = <<"DANGEROUS">>
      /\ s.required = <<>> \/ s.required = <<"WALK">> \/ s.required = <<"SWIMM">>
  BY PieceIs DEF PieceOfSoil
<1>2. s.radius \in Int /\ s.x \in Int /\ s.y \in Int /\ s.id \in Int
  BY NumbersAre DEF PieceOfSoil
<1>3. properties \in Bytes /\ Len(properties) = 9 /\ ~ (Len(s.properties) > 9)
  <2>1. properties \in Bytes /\ Len(properties) = 9 /\ (Len(s.properties) = 0 \/ Len(s.properties) = 1)
    BY <1>1, PropertiesLaid
  <2> DEFINE n == Len(s.properties)
  <2>2. n = 0 \/ n = 1
    BY <2>1
  <2> HIDE DEF n
  <2>3. ~ (n > 9)
    BY <2>2
  <2> QED BY <2>1, <2>3 DEF n
<1>4. required \in Bytes /\ Len(required) = 11 /\ required # Thrown
  <2>1. required \in Bytes /\ Len(required) = 11
    BY <1>1, RequiredLaid
  <2> QED BY <2>1, ThrownIsNot
<1>5. damage \in Bytes /\ Len(damage) = 5 /\ cost \in Bytes /\ Len(cost) = 5
  <2>1. 1 \in Numbers /\ 2 \in Numbers
    BY SmallNumbers
  <2> QED BY <1>1, <2>1, OptionalRead
<1>6. bytes = PutAll(zeros, fields)
  BY <1>3, <1>4, Zenon DEF SerializeSoil, SoilSize
<1> HIDE DEF properties, required, damage, cost
<1>7. /\ 71 \in Nat /\ 0 \in Nat /\ 1 \in Nat /\ 8 \in Nat /\ 10 \in Nat /\ 21 \in Nat /\ 26 \in Nat
      /\ 31 \in Nat /\ 39 \in Nat /\ 63 \in Nat
      /\ 0 + 1 <= 71 /\ 31 + 8 <= 71 /\ 39 + 16 <= 71 /\ 63 + 8 <= 71
      /\ 1 + Len(properties) <= 71 /\ 10 + Len(required) <= 71 /\ 21 + Len(damage) <= 71 /\ 26 + Len(cost) <= 71
  BY <1>3, <1>4, <1>5
<1>8. f1 \in FieldsIn(71) /\ f6 \in FieldsIn(71) /\ f7 \in FieldsIn(71) /\ f8 \in FieldsIn(71)
  BY <1>1, <1>2, <1>7, EnumsAreBytes, ByteField, PairField, NumberField, ZenonT(90)
<1>9. f2 \in FieldsIn(71) /\ f3 \in FieldsIn(71) /\ f4 \in FieldsIn(71) /\ f5 \in FieldsIn(71)
  BY <1>3, <1>4, <1>5, <1>7, FieldIs, ZenonT(90)
<1>10. /\ f1[1] = 0 /\ Len(f1[2]) = 1 /\ f2[1] = 1 /\ Len(f2[2]) = 9 /\ f3[1] = 10 /\ Len(f3[2]) = 11
       /\ f4[1] = 21 /\ Len(f4[2]) = 5 /\ f5[1] = 26 /\ Len(f5[2]) = 5 /\ f6[1] = 31 /\ Len(f6[2]) = 8
       /\ f7[1] = 39 /\ Len(f7[2]) = 16 /\ f8[1] = 63 /\ Len(f8[2]) = 8
  BY <1>2, <1>3, <1>4, <1>5, <1>7, PairsAre, DigitsOf
<1>11. /\ f1[2] = <<SoilTypeValue[s.type]>> /\ f2[2] = properties /\ f3[2] = required /\ f4[2] = damage
       /\ f5[2] = cost /\ f6[2] = Digits[8][s.radius] /\ f7[2] = SerializeVec(s.x, s.y) /\ f8[2] = Digits[8][s.id]
  OBVIOUS
<1>12. zeros \in Bytes /\ 71 = Len(zeros)
  BY <1>7, ZerosAre
<1> HIDE DEF f1, f2, f3, f4, f5, f6, f7, f8, zeros, bytes
<1>13. \A f, g \in F : f = g \/ Apart(f, g)
  <2>1. Apart(f1, f2) /\ Apart(f1, f3) /\ Apart(f1, f4) /\ Apart(f1, f5) /\ Apart(f1, f6) /\ Apart(f1, f7) /\ Apart(f1, f8)
    BY <1>10 DEF Apart
  <2>2. Apart(f2, f3) /\ Apart(f2, f4) /\ Apart(f2, f5) /\ Apart(f2, f6) /\ Apart(f2, f7) /\ Apart(f2, f8)
    BY <1>10 DEF Apart
  <2>3. Apart(f3, f4) /\ Apart(f3, f5) /\ Apart(f3, f6) /\ Apart(f3, f7) /\ Apart(f3, f8)
    BY <1>10 DEF Apart
  <2>4. Apart(f4, f5) /\ Apart(f4, f6) /\ Apart(f4, f7) /\ Apart(f4, f8)
    BY <1>10 DEF Apart
  <2>5. Apart(f5, f6) /\ Apart(f5, f7) /\ Apart(f5, f8) /\ Apart(f6, f7) /\ Apart(f6, f8) /\ Apart(f7, f8)
    BY <1>10 DEF Apart
  <2>6. \A f, g : Apart(f, g) => Apart(g, f)
    BY Zenon DEF Apart
  <2>7. \A f \in F : f = f1 \/ f = f2 \/ f = f3 \/ f = f4 \/ f = f5 \/ f = f6 \/ f = f7 \/ f = f8
    OBVIOUS
  <2> HIDE DEF F
  <2> QED BY <2>1, <2>2, <2>3, <2>4, <2>5, <2>6, <2>7, SMTT(60)
<1>14. F \subseteq FieldsIn(71)
  BY <1>8, <1>9
<1>15. /\ fields \in Seq(F) /\ Len(fields) = 8
       /\ fields[1] = f1 /\ fields[2] = f2 /\ fields[3] = f3 /\ fields[4] = f4
       /\ fields[5] = f5 /\ fields[6] = f6 /\ fields[7] = f7 /\ fields[8] = f8
  OBVIOUS
<1> HIDE DEF F, fields
<1>16. Laid(bytes, fields, 71)
  BY <1>6, <1>12, <1>13, <1>14, <1>15, LayoutHolds, Zenon
<1>17. /\ Holds(bytes, f1[1], f1[2]) /\ Holds(bytes, f2[1], f2[2]) /\ Holds(bytes, f3[1], f3[2])
       /\ Holds(bytes, f4[1], f4[2]) /\ Holds(bytes, f5[1], f5[2]) /\ Holds(bytes, f6[1], f6[2])
       /\ Holds(bytes, f7[1], f7[2]) /\ Holds(bytes, f8[1], f8[2]) /\ bytes \in Bytes /\ Len(bytes) = 71
  BY <1>15, <1>16 DEF Laid
<1>18. /\ Holds(bytes, 0, f1[2]) /\ Holds(bytes, 1, properties) /\ Holds(bytes, 10, required) /\ Holds(bytes, 21, damage)
       /\ Holds(bytes, 26, cost) /\ Holds(bytes, 31, f6[2]) /\ Holds(bytes, 39, f7[2]) /\ Holds(bytes, 63, f8[2])
  BY <1>10, <1>11, <1>17
<1> QED BY <1>11, <1>17, <1>18 DEF bytes, properties, required, damage, cost, SoilSize

\* A piece of soil is read as it was serialised, wherever it lies.
LEMMA SoilRead ==
    ASSUME NEW s, PieceOfSoil(s), NEW bytes, NEW o, Holds(bytes, o, SerializeSoil(s))
    PROVE  ReadSoil(bytes, o) = s /\ s # Thrown
<1> DEFINE part == SerializeSoil(s)
           r == [damage |-> ReadOptional(bytes, o + 21), movementCost |-> ReadOptional(bytes, o + 26),
                 id |-> ReadId(bytes, o + 63), radius |-> ReadSigned(bytes, o + 31, 8),
                 x |-> ReadSigned(bytes, o + 39, 8), y |-> ReadSigned(bytes, o + 47, 8),
                 type |-> Named(SoilTypeValue, Read(bytes, o, 1)), properties |-> ReadProperties(bytes, o + 1),
                 required |-> ReadRequired(bytes, o + 10)]
<1>1. /\ s.type \in DOMAIN SoilTypeValue /\ s.damage = Nothing /\ s.movementCost \in {1, 2}
      /\ s.properties = <<>> \/ s.properties = <<"DANGEROUS">>
      /\ s.required = <<>> \/ s.required = <<"WALK">> \/ s.required = <<"SWIMM">>
      /\ s = [damage |-> s.damage, movementCost |-> s.movementCost, id |-> s.id, radius |-> s.radius,
              x |-> s.x, y |-> s.y, type |-> s.type, properties |-> s.properties, required |-> s.required]
  BY PieceIs DEF PieceOfSoil
<1>2. s.radius \in Numbers /\ s.x \in Numbers /\ s.y \in Numbers /\ s.id \in IdNumbers
  BY DEF PieceOfSoil
<1>3. /\ Holds(part, 0, <<SoilTypeValue[s.type]>>) /\ Holds(part, 1, SerializeProperties(s.properties))
      /\ Holds(part, 10, SerializeRequired(s.required)) /\ Holds(part, 21, SerializeOptional(s.damage))
      /\ Holds(part, 26, SerializeOptional(s.movementCost)) /\ Holds(part, 31, Digits[8][s.radius])
      /\ Holds(part, 39, SerializeVec(s.x, s.y)) /\ Holds(part, 63, Digits[8][s.id])
  BY SoilLaid
<1>4. ReadSoil(bytes, o) = Complete(r)
  BY DEF ReadSoil
<1>5. o \in Nat /\ o + 0 = o /\ (o + 39) + 8 = o + 47
  BY DEF Holds
<1>6. Holds(bytes, o, part)
  OBVIOUS
<1> HIDE DEF part
<1>7. /\ Holds(bytes, o + 0, <<SoilTypeValue[s.type]>>) /\ Holds(bytes, o + 1, SerializeProperties(s.properties))
      /\ Holds(bytes, o + 10, SerializeRequired(s.required)) /\ Holds(bytes, o + 21, SerializeOptional(s.damage))
      /\ Holds(bytes, o + 26, SerializeOptional(s.movementCost)) /\ Holds(bytes, o + 31, Digits[8][s.radius])
      /\ Holds(bytes, o + 39, SerializeVec(s.x, s.y)) /\ Holds(bytes, o + 63, Digits[8][s.id])
  BY <1>3, <1>6, HoldsPart, Zenon
<1>8. Named(SoilTypeValue, Read(bytes, o, 1)) = s.type /\ Said(s.type)
  <2>1. SoilTypeValue[s.type] \in Byte /\ Holds(bytes, o, <<SoilTypeValue[s.type]>>)
    BY <1>1, <1>5, <1>7, EnumsDiffer
  <2>2. Read(bytes, o, 1) = SoilTypeValue[s.type]
    BY <2>1, ReadsByte, Zenon
  <2> QED BY <1>1, <2>1, <2>2, ReadsName
<1>9. ReadProperties(bytes, o + 1) = s.properties /\ Said(s.properties)
  BY <1>1, <1>7, PropertiesRead
<1>10. ReadRequired(bytes, o + 10) = s.required /\ Said(s.required)
  BY <1>1, <1>7, RequiredRead
<1>11. /\ ReadOptional(bytes, o + 21) = s.damage /\ Said(s.damage)
       /\ ReadOptional(bytes, o + 26) = s.movementCost /\ Said(s.movementCost)
  <2>1. 1 \in Numbers /\ 2 \in Numbers
    BY SmallNumbers
  <2> QED BY <1>1, <1>7, <2>1, OptionalRead
<1>12. ReadSigned(bytes, o + 31, 8) = s.radius /\ ReadId(bytes, o + 63) = s.id
  <2>1. 8 \in {4, 8}
    OBVIOUS
  <2> QED BY <1>2, <1>7, <2>1, ReadsSigned, ReadsId, Zenon
<1>13. ReadSigned(bytes, o + 39, 8) = s.x /\ ReadSigned(bytes, o + 47, 8) = s.y
  <2>1. ReadSigned(bytes, o + 39, 8) = s.x /\ ReadSigned(bytes, (o + 39) + 8, 8) = s.y
    BY <1>2, <1>7, PairHolds, Zenon
  <2> QED BY <1>5, <2>1
<1>14. Said(s.radius) /\ Said(s.id) /\ Said(s.x) /\ Said(s.y)
  BY <1>2, NumbersAre, WhatIsSaid
<1>15. r = s
  BY <1>1, <1>8, <1>9, <1>10, <1>11, <1>12, <1>13
<1>16. \A k \in DOMAIN s : Said(s[k])
  BY <1>1, <1>8, <1>9, <1>10, <1>11, <1>14
<1> HIDE DEF r
<1>17. s # Thrown
  BY DEF PieceOfSoil
<1> QED BY <1>4, <1>15, <1>16, <1>17, CompleteIs, Zenon

-----------------------------------------------------------------------------
(* The blueprint that is read of a request to create. *)

\* A sequence of fields of one set in which those of another occur.
Gathers(fields, G, H) == fields \in Seq(G) /\ \A f \in H : \E j \in 1..Len(fields) : fields[j] = f

\* What two sequences have, both together have.
LEMMA GathersJoined ==
    ASSUME NEW G, NEW H, NEW K, NEW s, NEW t, Gathers(s, G, H), Gathers(t, G, K)
    PROVE  Gathers(s \o t, G, H \cup K)
<1> DEFINE r == s \o t
<1>1. s \in Seq(G) /\ t \in Seq(G) /\ Len(s) \in Nat /\ Len(t) \in Nat
  BY DEF Gathers
<1>2. /\ r \in Seq(G) /\ Len(r) = Len(s) + Len(t)
      /\ \A i \in 1..Len(s) : r[i] = s[i]
      /\ \A i \in 1..Len(t) : r[Len(s) + i] = t[i]
  BY <1>1, PartsOf
<1> HIDE DEF r
<1>3. ASSUME NEW f \in H PROVE \E j \in 1..Len(r) : r[j] = f
  <2>1. PICK j \in 1..Len(s) : s[j] = f
    BY DEF Gathers
  <2>2. j \in 1..Len(r)
    BY <1>1, <1>2
  <2> QED BY <1>2, <2>1, <2>2
<1>4. ASSUME NEW f \in K PROVE \E j \in 1..Len(r) : r[j] = f
  <2>1. PICK j \in 1..Len(t) : t[j] = f
    BY DEF Gathers
  <2>2. Len(s) + j \in 1..Len(r)
    BY <1>1, <1>2
  <2> QED BY <1>2, <2>1, <2>2
<1> QED BY <1>2, <1>3, <1>4 DEF Gathers, r

\* A field that may be there.
LEMMA GathersOne ==
    ASSUME NEW G, NEW f \in G
    PROVE  Gathers(<<f>>, G, {f}) /\ Gathers(<<>>, G, {})
<1> DEFINE s == <<f>>
           t == <<>>
<1>1. s \in Seq(G) /\ Len(s) = 1 /\ s[1] = f /\ t \in Seq(G)
  OBVIOUS
<1> HIDE DEF s, t
<1> QED BY <1>1 DEF Gathers, s, t

\* Where the parts of the request to create a creature lie.
LEMMA CreateLaid ==
    ASSUME NEW gender, NEW specie, NEW position, NEW name, NEW held \in Byte,
           gender = Nothing \/ gender \in DOMAIN GenderByte,
           specie = Nothing \/ specie \in DOMAIN SpecieValue,
           position = Nothing \/ (position[1] \in Int /\ position[2] \in Int),
           name = Nothing \/ (name \in Bytes /\ 22 + Len(name) <= CreateSize)
    PROVE  LET bytes == MakeCreate(gender, specie, position, name, held)
           IN  /\ bytes \in Bytes /\ Len(bytes) = CreateSize
               /\ Holds(bytes, 0, <<Flag(gender, held)>>) /\ Holds(bytes, 2, <<Flag(specie, held)>>)
               /\ Holds(bytes, 4, <<Flag(position, held)>>) /\ Holds(bytes, 21, <<0>>)
               /\ gender # Nothing => Holds(bytes, 1, <<GenderByte[gender]>>)
               /\ specie # Nothing => Holds(bytes, 3, <<SpecieValue[specie]>>)
               /\ position # Nothing => Holds(bytes, 5, SerializeVec(position[1], position[2]))
<1> DEFINE b2 == <<IF gender = Nothing THEN 0 ELSE GenderByte[gender]>>
           b4 == <<IF specie = Nothing THEN 0 ELSE SpecieValue[specie]>>
           b6 == IF position = Nothing THEN <<>> ELSE SerializeVec(position[1], position[2])
           b8 == IF name = Nothing THEN <<>> ELSE <<Len(name)>>
           b9 == IF name = Nothing THEN <<>> ELSE name
           f1 == <<0, <<Flag(gender, held)>> >>
           f2 == <<1, b2>>
           f3 == <<2, <<Flag(specie, held)>> >>
           f4 == <<3, b4>>
           f5 == <<4, <<Flag(position, held)>> >>
           f6 == <<5, b6>>
           f7 == <<21, <<0>> >>
           f8 == <<22, b8>>
           f9 == <<22, b9>>
           part(v, f) == IF v = Nothing THEN <<>> ELSE << f >>
           there(v, f) == IF v = Nothing THEN {} ELSE {f}
           array == [i \in 1..64 |-> held]
           fields == <<f1>> \o part(gender, f2) \o <<f3>> \o part(specie, f4) \o <<f5>> \o part(position, f6)
                     \o <<f7>> \o part(name, f8) \o part(name, f9)
           bytes == PutAll(array, fields)
           G == {f1, f2, f3, f4, f5, f6, f7, f8, f9}
<1>1. MakeCreate(gender, specie, position, name, held) = bytes
  <2>1. name = Nothing \/ ~ (Len(name) > 64)
    <3>1. CASE name # Nothing
      <4>1. name \in Bytes /\ 22 + Len(name) <= 64 /\ Len(name) \in Nat
        BY <3>1 DEF CreateSize, Bytes
      <4> QED BY <4>1
    <3> QED BY <3>1
  <2> QED BY <2>1, Zenon DEF MakeCreate, MaxNameSize, CreateSize
<1>2. /\ gender # Nothing => b2 = <<GenderByte[gender]>>
      /\ specie # Nothing => b4 = <<SpecieValue[specie]>>
      /\ position # Nothing => b6 = SerializeVec(position[1], position[2])
  BY Zenon
<1>3. b2 \in Bytes /\ Len(b2) = 1 /\ b4 \in Bytes /\ Len(b4) = 1
  <2>1. 0 \in Byte /\ (gender # Nothing => GenderByte[gender] \in Byte) /\ (specie # Nothing => SpecieValue[specie] \in Byte)
    BY ByteIs, EnumsAreBytes
  <2> QED BY <2>1, ByteAlone, Zenon
<1>4. b6 \in Bytes /\ Len(b6) <= 16
  <2>1. CASE position = Nothing
    BY <2>1, ByteAlone
  <2>2. CASE position # Nothing
    <3> DEFINE v == SerializeVec(position[1], position[2])
    <3>1. b6 = v
      BY <2>2, Zenon
    <3>2. v \in Bytes /\ Len(v) = 16
      BY <2>2, PairsAre
    <3> HIDE DEF v, b6
    <3> QED BY <3>1, <3>2
  <2> QED BY <2>1, <2>2
<1>5. b8 \in Bytes /\ Len(b8) <= 1 /\ b9 \in Bytes /\ Len(b9) <= 42
  <2>1. CASE name = Nothing
    BY <2>1, ByteAlone
  <2>2. CASE name # Nothing
    <3>1. name \in Bytes /\ 22 + Len(name) <= 64 /\ Len(name) \in Nat
      BY <2>2 DEF CreateSize, Bytes
    <3>2. Len(name) \in Byte /\ Len(name) <= 42
      BY <3>1, ByteIs
    <3>3. b8 = <<Len(name)>> /\ b9 = name
      BY <2>2, Zenon
    <3> QED BY <3>1, <3>2, <3>3, ByteAlone
  <2> QED BY <2>1, <2>2
<1> HIDE DEF b2, b4, b6, b8, b9
<1>6. Len(b6) \in Nat /\ Len(b8) \in Nat /\ Len(b9) \in Nat
  BY <1>4, <1>5 DEF Bytes
<1>7. \A v : Flag(v, held) \in Byte /\ 0 \in Byte
  BY ByteIs DEF Flag
<1>8. /\ 64 \in Nat /\ 0 \in Nat /\ 1 \in Nat /\ 2 \in Nat /\ 3 \in Nat /\ 4 \in Nat /\ 5 \in Nat /\ 21 \in Nat /\ 22 \in Nat
      /\ 0 + 1 <= 64 /\ 2 + 1 <= 64 /\ 4 + 1 <= 64 /\ 21 + 1 <= 64
      /\ 1 + Len(b2) <= 64 /\ 3 + Len(b4) <= 64 /\ 5 + Len(b6) <= 64 /\ 22 + Len(b8) <= 64 /\ 22 + Len(b9) <= 64
  BY <1>3, <1>4, <1>5, <1>6
<1>9. f1 \in FieldsIn(64) /\ f3 \in FieldsIn(64) /\ f5 \in FieldsIn(64) /\ f7 \in FieldsIn(64)
  BY <1>7, <1>8, ByteField, Zenon
<1>10. f2 \in FieldsIn(64) /\ f4 \in FieldsIn(64) /\ f6 \in FieldsIn(64) /\ f8 \in FieldsIn(64) /\ f9 \in FieldsIn(64)
  BY <1>3, <1>4, <1>5, <1>8, FieldIs, ZenonT(90)
<1>11. /\ f1[1] = 0 /\ Len(f1[2]) = 1 /\ f2[1] = 1 /\ Len(f2[2]) = 1 /\ f3[1] = 2 /\ Len(f3[2]) = 1
       /\ f4[1] = 3 /\ Len(f4[2]) = 1 /\ f5[1] = 4 /\ Len(f5[2]) = 1 /\ f6[1] = 5 /\ f6[2] = b6
       /\ f7[1] = 21 /\ Len(f7[2]) = 1 /\ f8[1] = 22 /\ f8[2] = b8 /\ f9[1] = 22 /\ f9[2] = b9
  BY <1>3
<1>12. /\ f1[2] = <<Flag(gender, held)>> /\ f2[2] = b2 /\ f3[2] = <<Flag(specie, held)>> /\ f4[2] = b4
       /\ f5[2] = <<Flag(position, held)>> /\ f7[2] = <<0>>
  OBVIOUS
<1>13. array \in Bytes /\ 64 = Len(array)
  <2>1. 64 \in Nat
    OBVIOUS
  <2> QED BY <2>1, Filled, ZenonT(90)
<1> HIDE DEF f1, f2, f3, f4, f5, f6, f7, f8, f9, array
<1>14. Gathers(fields, G, {f1} \cup there(gender, f2) \cup {f3} \cup there(specie, f4) \cup {f5} \cup there(position, f6)
                          \cup {f7} \cup there(name, f8) \cup there(name, f9))
  <2>1. f1 \in G /\ f2 \in G /\ f3 \in G /\ f4 \in G /\ f5 \in G /\ f6 \in G /\ f7 \in G /\ f8 \in G /\ f9 \in G
    OBVIOUS
  <2> HIDE DEF G
  <2>2. ASSUME NEW v, NEW f \in G PROVE Gathers(part(v, f), G, there(v, f))
    BY GathersOne, Zenon
  <2>3. /\ Gathers(<<f1>>, G, {f1}) /\ Gathers(<<f3>>, G, {f3}) /\ Gathers(<<f5>>, G, {f5}) /\ Gathers(<<f7>>, G, {f7})
        /\ Gathers(part(gender, f2), G, there(gender, f2)) /\ Gathers(part(specie, f4), G, there(specie, f4))
        /\ Gathers(part(position, f6), G, there(position, f6))
        /\ Gathers(part(name, f8), G, there(name, f8)) /\ Gathers(part(name, f9), G, there(name, f9))
    BY <2>1, <2>2, GathersOne, Zenon
  <2> HIDE DEF part, there
  <2>4. Gathers(<<f1>> \o part(gender, f2) \o <<f3>>, G, {f1} \cup there(gender, f2) \cup {f3})
    BY <2>3, GathersJoined, Zenon
  <2>5. Gathers(<<f1>> \o part(gender, f2) \o <<f3>> \o part(specie, f4) \o <<f5>>, G,
                {f1} \cup there(gender, f2) \cup {f3} \cup there(specie, f4) \cup {f5})
    BY <2>3, <2>4, GathersJoined, Zenon
  <2>6. Gathers(<<f1>> \o part(gender, f2) \o <<f3>> \o part(specie, f4) \o <<f5>> \o part(position, f6) \o <<f7>>, G,
                {f1} \cup there(gender, f2) \cup {f3} \cup there(specie, f4) \cup {f5} \cup there(position, f6) \cup {f7})
    BY <2>3, <2>5, GathersJoined, Zenon
  <2> QED BY <2>3, <2>6, GathersJoined, Zenon
<1> HIDE DEF fields
<1>15. ASSUME NEW f \in G, \A x \in G : x = f \/ Apart(f, x), \E j \in 1..Len(fields) : fields[j] = f
       PROVE  Holds(bytes, f[1], f[2])
  <2> DEFINE S == Sparing(f, 64)
  <2>1. \A x \in G : x \in S
    <3>1. \A x \in G : x \in FieldsIn(64)
      BY <1>9, <1>10
    <3> HIDE DEF G
    <3> QED BY <1>15, <3>1 DEF Sparing
  <2>2. fields \in Seq(G)
    BY <1>14, Zenon DEF Gathers
  <2> HIDE DEF S, G
  <2>3. fields \in Seq(S)
    BY <2>1, <2>2
  <2> QED BY <1>13, <1>15, <2>3, FieldsHold, Zenon DEF S
<1>16. \A x \in G : x = f1 \/ x = f2 \/ x = f3 \/ x = f4 \/ x = f5 \/ x = f6 \/ x = f7 \/ x = f8 \/ x = f9
  OBVIOUS
<1>17. /\ \A x \in G : x = f1 \/ Apart(f1, x)
       /\ \A x \in G : x = f2 \/ Apart(f2, x)
       /\ \A x \in G : x = f3 \/ Apart(f3, x)
       /\ \A x \in G : x = f4 \/ Apart(f4, x)
       /\ \A x \in G : x = f5 \/ Apart(f5, x)
       /\ \A x \in G : x = f6 \/ Apart(f6, x)
       /\ \A x \in G : x = f7 \/ Apart(f7, x)
  <2> DEFINE l == Len(f6[2])
             m == Len(f8[2])
             n == Len(f9[2])
  <2>1. l \in Nat /\ l <= 16 /\ m \in Nat /\ n \in Nat
    BY <1>4, <1>6, <1>11
  <2> HIDE DEF G
  <2>2. Apart(f1, f2) /\ Apart(f1, f3) /\ Apart(f1, f4) /\ Apart(f1, f5) /\ Apart(f1, f6) /\ Apart(f1, f7) /\ Apart(f1, f8) /\ Apart(f1, f9)
    BY <1>11, <2>1 DEF Apart
  <2>3. Apart(f2, f3) /\ Apart(f2, f4) /\ Apart(f2, f5) /\ Apart(f2, f6) /\ Apart(f2, f7) /\ Apart(f2, f8) /\ Apart(f2, f9)
    BY <1>11, <2>1 DEF Apart
  <2>4. Apart(f3, f4) /\ Apart(f3, f5) /\ Apart(f3, f6) /\ Apart(f3, f7) /\ Apart(f3, f8) /\ Apart(f3, f9)
    BY <1>11, <2>1 DEF Apart
  <2>5. Apart(f4, f5) /\ Apart(f4, f6) /\ Apart(f4, f7) /\ Apart(f4, f8) /\ Apart(f4, f9)
    BY <1>11, <2>1 DEF Apart
  <2>6. Apart(f5, f6) /\ Apart(f5, f7) /\ Apart(f5, f8) /\ Apart(f5, f9)
    BY <1>11, <2>1 DEF Apart
  <2>7. Apart(f6, f7) /\ Apart(f6, f8) /\ Apart(f6, f9) /\ Apart(f7, f8) /\ Apart(f7, f9)
    BY <1>11, <2>1 DEF Apart
  <2>8. \A f, g : Apart(f, g) => Apart(g, f)
    BY Zenon DEF Apart
  <2> QED BY <1>16, <2>2, <2>3, <2>4, <2>5, <2>6, <2>7, <2>8, SMTT(60)
<1>18. /\ \E j \in 1..Len(fields) : fields[j] = f1
       /\ gender # Nothing => \E j \in 1..Len(fields) : fields[j] = f2
       /\ \E j \in 1..Len(fields) : fields[j] = f3
       /\ specie # Nothing => \E j \in 1..Len(fields) : fields[j] = f4
       /\ \E j \in 1..Len(fields) : fields[j] = f5
       /\ position # Nothing => \E j \in 1..Len(fields) : fields[j] = f6
       /\ \E j \in 1..Len(fields) : fields[j] = f7
  <2> HIDE DEF G
  <2> QED BY <1>14 DEF Gathers
<1>19. /\ Holds(bytes, f1[1], f1[2]) /\ Holds(bytes, f3[1], f3[2]) /\ Holds(bytes, f5[1], f5[2]) /\ Holds(bytes, f7[1], f7[2])
       /\ gender # Nothing => Holds(bytes, f2[1], f2[2])
       /\ specie # Nothing => Holds(bytes, f4[1], f4[2])
       /\ position # Nothing => Holds(bytes, f6[1], f6[2])
  <2>1. f1 \in G /\ f2 \in G /\ f3 \in G /\ f4 \in G /\ f5 \in G /\ f6 \in G /\ f7 \in G
    OBVIOUS
  <2> HIDE DEF G, bytes
  <2> QED BY <1>15, <1>17, <1>18, <2>1, Zenon
<1>20. bytes \in Bytes /\ Len(bytes) = 64
  <2> DEFINE A == FieldsIn(64)
  <2>1. \A x \in G : x \in A
    BY <1>9, <1>10
  <2>2. fields \in Seq(G)
    BY <1>14, Zenon DEF Gathers
  <2> HIDE DEF A, G
  <2>3. fields \in Seq(A)
    BY <2>1, <2>2
  <2> QED BY <1>13, <2>3, PutAllIs, Zenon DEF A
<1> HIDE DEF bytes
<1>21. /\ Holds(bytes, 0, <<Flag(gender, held)>>) /\ Holds(bytes, 2, <<Flag(specie, held)>>)
       /\ Holds(bytes, 4, <<Flag(position, held)>>) /\ Holds(bytes, 21, <<0>>)
       /\ gender # Nothing => Holds(bytes, 1, b2)
       /\ specie # Nothing => Holds(bytes, 3, b4)
       /\ position # Nothing => Holds(bytes, 5, b6)
  BY <1>11, <1>12, <1>19
<1> QED BY <1>1, <1>2, <1>20, <1>21 DEF CreateSize

\* The blueprint a creature is made from is what the call says, but its name; a male one throws.
LEMMA CreateRead ==
    ASSUME NEW gender, NEW specie, NEW position, NEW name, NEW held \in Byte,
           gender = Nothing \/ gender \in DOMAIN GenderByte,
           specie = Nothing \/ specie \in DOMAIN SpecieValue,
           position = Nothing \/ position \in Numbers \X Numbers,
           name = Nothing \/ (name \in Bytes /\ 22 + Len(name) <= CreateSize)
    PROVE  ReadCreate(MakeCreate(gender, specie, position, name, held)) \in
               {Thrown, [gender |-> gender, specie |-> specie, position |-> position, name |-> Nothing]}
<1> DEFINE bytes == MakeCreate(gender, specie, position, name, held)
           part(flagAt, value) ==
               CASE ReadBool(bytes, flagAt) = TRUE  -> value
                 [] ReadBool(bytes, flagAt) = FALSE -> Nothing
                 [] OTHER -> ReadBool(bytes, flagAt)
           vec == <<ReadSigned(bytes, 5, 8), ReadSigned(bytes, 13, 8)>>
           b == [gender |-> part(0, NamedAt(GenderValue, bytes, 1)), specie |-> part(2, NamedAt(SpecieValue, bytes, 3)),
                 position |-> part(4, vec), name |-> part(21, ReadName(bytes, 22))]
<1>1. /\ Holds(bytes, 0, <<Flag(gender, held)>>) /\ Holds(bytes, 2, <<Flag(specie, held)>>)
      /\ Holds(bytes, 4, <<Flag(position, held)>>) /\ Holds(bytes, 21, <<0>>)
      /\ gender # Nothing => Holds(bytes, 1, <<GenderByte[gender]>>)
      /\ specie # Nothing => Holds(bytes, 3, <<SpecieValue[specie]>>)
      /\ position # Nothing => Holds(bytes, 5, SerializeVec(position[1], position[2]))
  <2>1. position = Nothing \/ (position[1] \in Int /\ position[2] \in Int)
    BY NumbersAre
  <2> HIDE DEF bytes
  <2> QED BY <2>1, CreateLaid DEF bytes
<1>2. ReadCreate(bytes) = Complete(b)
  BY Zenon DEF ReadCreate
<1> HIDE DEF bytes, vec
<1>3. \A v : (v = Nothing => Flag(v, held) = 0) /\ (v # Nothing => Flag(v, held) = 1)
  BY Zenon DEF Flag
<1>4. ASSUME NEW v, NEW o, Holds(bytes, o, <<Flag(v, held)>>), NEW value
      PROVE  (v = Nothing => part(o, value) = v) /\ (v # Nothing => part(o, value) = value)
  <2>1. CASE v = Nothing
    <3>1. Holds(bytes, o, <<0>>)
      BY <1>3, <1>4, <2>1
    <3>2. 0 \in {0, 1}
      OBVIOUS
    <3>3. ReadBool(bytes, o) = FALSE
      BY <3>1, <3>2, ReadsFlag
    <3> QED BY <2>1, <3>3
  <2>2. CASE v # Nothing
    <3>1. Holds(bytes, o, <<1>>)
      BY <1>3, <1>4, <2>2
    <3>2. 1 \in {0, 1}
      OBVIOUS
    <3>3. ReadBool(bytes, o) = TRUE
      BY <3>1, <3>2, ReadsFlag
    <3> QED BY <2>2, <3>3
  <2> QED BY <2>1, <2>2
<1>5. part(21, ReadName(bytes, 22)) = Nothing
  <2>1. Holds(bytes, 21, <<Flag(Nothing, held)>>)
    BY <1>1, <1>3
  <2> QED BY <1>4, <2>1, ZenonT(90)
<1>6. part(2, NamedAt(SpecieValue, bytes, 3)) = specie /\ Said(specie)
  <2>1. CASE specie = Nothing
    <3>1. part(2, NamedAt(SpecieValue, bytes, 3)) = specie
      BY <1>1, <1>4, <2>1, Zenon
    <3> QED BY <2>1, <3>1, WhatIsSaid
  <2>2. CASE specie # Nothing
    <3>1. NamedAt(SpecieValue, bytes, 3) = specie /\ Said(specie)
      <4>1. Holds(bytes, 3, <<SpecieValue[specie]>>) /\ specie \in DOMAIN SpecieValue
        BY <1>1, <2>2
      <4> QED BY <4>1, ReadsName
    <3> QED BY <1>1, <1>4, <2>2, <3>1, ZenonT(90)
  <2> QED BY <2>1, <2>2
<1>7. part(4, vec) = position /\ Said(position)
  <2>1. CASE position = Nothing
    <3>1. part(4, vec) = position
      <4>1. Holds(bytes, 4, <<Flag(position, held)>>)
        BY <1>1
      <4> HIDE DEF part
      <4> QED BY <1>4, <2>1, <4>1
    <3> QED BY <2>1, <3>1, WhatIsSaid
  <2>2. CASE position # Nothing
    <3> DEFINE x == position[1]
               y == position[2]
    <3>1. x \in Numbers /\ y \in Numbers /\ position = <<x, y>>
      BY <2>2
    <3> HIDE DEF x, y
    <3>2. Holds(bytes, 5, SerializeVec(x, y))
      BY <1>1, <2>2 DEF x, y
    <3>3. ReadSigned(bytes, 5, 8) = x /\ ReadSigned(bytes, 5 + 8, 8) = y
      BY <3>1, <3>2, PairHolds, Zenon
    <3>4. vec = <<x, y>>
      <4>1. 5 + 8 = 13
        OBVIOUS
      <4> QED BY <3>3, <4>1 DEF vec
    <3>5. Said(<<x, y>>)
      BY <3>1, NumbersAre, WhatIsSaid
    <3>6. part(4, vec) = vec
      <4>1. Holds(bytes, 4, <<Flag(position, held)>>)
        BY <1>1
      <4> HIDE DEF part
      <4> QED BY <1>4, <2>2, <4>1
    <3> QED BY <3>1, <3>4, <3>5, <3>6
  <2> QED BY <2>1, <2>2
<1> DEFINE g == part(0, NamedAt(GenderValue, bytes, 1))
<1>8. (g = gender /\ Said(gender)) \/ g = Thrown
  <2>1. CASE gender = Nothing
    <3>1. g = gender
      BY <1>1, <1>4, <2>1, Zenon
    <3> QED BY <2>1, <3>1, WhatIsSaid
  <2>2. CASE gender # Nothing
    <3> DEFINE n == NamedAt(GenderValue, bytes, 1)
    <3>1. Holds(bytes, 1, <<GenderByte[gender]>>) /\ gender \in DOMAIN GenderByte
      BY <1>1, <2>2
    <3>2. g = n
      BY <1>1, <1>4, <2>2, Zenon
    <3>3. CASE gender = "FEMALE"
      <4>1. gender \in DOMAIN GenderValue /\ GenderByte[gender] = GenderValue[gender]
        BY <3>3 DEF GenderByte, GenderValue
      <4>2. n = gender /\ Said(gender)
        BY <3>1, <4>1, ReadsName
      <4> HIDE DEF n, g
      <4> QED BY <3>2, <4>2
    <3>4. CASE gender = "MALE"
      <4>1. GenderByte[gender] = 2 /\ 2 \in Byte
        BY <3>4, ByteIs DEF GenderByte
      <4>2. At(bytes, 1) = 2 /\ 2 # Outside
        BY <3>1, <4>1, ReadsByte
      <4>3. \A m \in DOMAIN GenderValue : GenderValue[m] # 2
        BY DEF GenderValue
      <4>4. n = Thrown
        BY <4>2, <4>3, Zenon DEF NamedAt, Named
      <4> HIDE DEF n, g
      <4> QED BY <3>2, <4>4
    <3>5. gender = "FEMALE" \/ gender = "MALE"
      BY <3>1 DEF GenderByte
    <3> QED BY <3>3, <3>4, <3>5
  <2> QED BY <2>1, <2>2
<1> DEFINE blueprint == [gender |-> gender, specie |-> specie, position |-> position, name |-> Nothing]
<1>9. b = [gender |-> g, specie |-> specie, position |-> position, name |-> Nothing]
  <2> HIDE DEF part
  <2> QED BY <1>5, <1>6, <1>7 DEF g
<1>10. Said(Nothing) /\ Thrown # Outside
  BY WhatIsSaid, OutsideAssumption
<1> HIDE DEF b, g
<1>11. CASE g = gender /\ Said(gender)
  <2>1. b = blueprint
    BY <1>9, <1>11
  <2>2. \A k \in DOMAIN b : Said(b[k])
    BY <1>6, <1>7, <1>10, <1>11, <2>1
  <2> HIDE DEF blueprint
  <2>3. Complete(b) = blueprint
    BY <2>1, <2>2, CompleteIs, Zenon
  <2> QED BY <1>2, <2>3 DEF bytes, blueprint
<1>12. CASE g = Thrown
  <2>1. (\A k \in DOMAIN b : b[k] # Outside) /\ \E k \in DOMAIN b : b[k] = Thrown
    <3>1. b.gender = Thrown /\ "gender" \in DOMAIN b
      BY <1>9, <1>12
    <3>2. \A k \in DOMAIN b : b[k] # Outside
      BY <1>6, <1>7, <1>9, <1>10, <1>12 DEF Said
    <3> QED BY <3>1, <3>2
  <2>2. Complete(b) = Thrown
    BY <2>1, CompleteIs, Zenon
  <2> QED BY <1>2, <2>2 DEF bytes
<1> QED BY <1>8, <1>11, <1>12

-----------------------------------------------------------------------------
(* What the client and the server write. *)

\* A call gives a request that can be written, of at most so many bytes.
LEMMA RequestIs ==
    ASSUME NEW call \in Calls, NEW id \in Nat, id < Huge, NEW held \in Held
    PROVE  /\ BuildRequest(call, id, held) \in Frames /\ WritableRequest(BuildRequest(call, id, held))
           /\ Len(RawBytes(BuildRequest(call, id, held))) <= IdEnd + 2 + CreateSize
<1> DEFINE f == BuildRequest(call, id, held)
<1>1. /\ "SEE" \in DOMAIN OperationCode /\ "CREATE" \in DOMAIN OperationCode
      /\ "CREATURE" \in DOMAIN ResourceCode /\ "CORPSE" \in DOMAIN ResourceCode /\ "SOIL" \in DOMAIN ResourceCode
      /\ "TERRITORY" \in DOMAIN ResourceCode /\ "ONE" \in DOMAIN TargetCode /\ "ALL" \in DOMAIN TargetCode
      /\ "SEE" # "CREATE" /\ "SOIL" # "TERRITORY"
  BY DEF OperationCode, ResourceCode, TargetCode
<1>2. ASSUME NEW sub \in DOMAIN OperationCode, NEW resource \in DOMAIN ResourceCode,
             NEW target \in DOMAIN TargetCode \cup {"NoTarget"}, NEW payload \in Bytes, Len(payload) <= 64,
             \/ sub # "SEE" /\ target = "NoTarget"
             \/ sub = "SEE" /\ target \in DOMAIN TargetCode /\ (resource = "TERRITORY" => target = "ONE"),
             f = Request(sub, resource, target, id, payload)
      PROVE  f \in RequestFrames /\ WritableRequest(f) /\ Len(f.payload) <= 64
  <2>1. f = [type |-> "Request", sub |-> sub, id |-> id, resource |-> resource, target |-> target, payload |-> payload]
    BY <1>2 DEF Request
  <2> HIDE DEF f
  <2>2. f \in RequestFrames
    BY <1>2, <2>1 DEF RequestFrames
  <2>3. /\ f.sub = sub /\ f.resource = resource /\ f.target = target /\ f.id = id /\ f.payload = payload
    BY <2>1
  <2>4. ValidRequest(f)
    BY <1>2, <2>3 DEF ValidRequest
  <2>5. Len(payload) \in Nat
    BY <1>2 DEF Bytes
  <2>6. 16 + Len(payload) < Huge
    BY <1>2, <2>5, SMT DEF Huge
  <2> QED BY <1>2, <2>2, <2>3, <2>4, <2>6 DEF WritableRequest
<1>3. f \in RequestFrames /\ WritableRequest(f) /\ Len(f.payload) <= 64
  <2>1. CASE call.op \in {"see_creature", "see_corpse", "see_soil"} /\ call.id \in Int
    <3> DEFINE payload == Digits[8][call.id]
    <3>1. payload \in Bytes /\ Len(payload) <= 64
      BY <2>1, DigitsOf
    <3>2. /\ call.op = "see_creature" => f = Request("SEE", "CREATURE", "ONE", id, payload)
          /\ call.op = "see_corpse" => f = Request("SEE", "CORPSE", "ONE", id, payload)
          /\ call.op = "see_soil" => f = Request("SEE", "SOIL", "ONE", id, payload)
      BY DEF BuildRequest, RequestCreature, RequestCorpse, RequestSoil
    <3> HIDE DEF payload, f
    <3> QED BY <1>1, <1>2, <2>1, <3>1, <3>2
  <2>2. CASE call.op \in {"see_all_soils", "see_territory"}
    <3>1. 0 \in Byte
      BY ByteIs
    <3> DEFINE x == <<0>>
               y == <<>>
    <3>2. x \in Bytes /\ Len(x) <= 64 /\ y \in Bytes /\ Len(y) <= 64
      BY <3>1, ByteAlone
    <3>3. /\ call.op = "see_all_soils" => f = Request("SEE", "SOIL", "ALL", id, x)
          /\ call.op = "see_territory" => f = Request("SEE", "TERRITORY", "ONE", id, y)
      BY DEF BuildRequest, RequestAllSoils, RequestTerritory
    <3> HIDE DEF x, y, f
    <3> QED BY <1>1, <1>2, <2>2, <3>2, <3>3
  <2>3. CASE /\ call.op = "make_creature"
             /\ call.gender = Nothing \/ call.gender \in DOMAIN GenderByte
             /\ call.specie = Nothing \/ call.specie \in DOMAIN SpecieValue
             /\ call.position = Nothing \/ (call.position[1] \in Int /\ call.position[2] \in Int)
             /\ call.name = Nothing \/ (call.name \in Bytes /\ 22 + Len(call.name) <= CreateSize)
    <3> DEFINE payload == MakeCreate(call.gender, call.specie, call.position, call.name, held)
    <3>1. held \in Byte
      BY HeldAssumption
    <3>2. payload \in Bytes /\ Len(payload) = 64
      <4>1. payload \in Bytes /\ Len(payload) = CreateSize
        BY <2>3, <3>1, CreateLaid
      <4> QED BY <4>1 DEF CreateSize
    <3>3. f = Request("CREATE", "CREATURE", "NoTarget", id, payload)
      BY <2>3 DEF BuildRequest, RequestBirth
    <3> HIDE DEF payload, f
    <3>4. Len(payload) <= 64
      BY <3>2
    <3> QED BY <1>1, <1>2, <3>2, <3>3, <3>4, ZenonT(90)
  <2> QED BY <2>1, <2>2, <2>3, CallsAre
<1> HIDE DEF f
<1>4. f \in Frames
  BY <1>3 DEF Frames
<1>5. Len(RawBytes(f)) <= IdEnd + 2 + CreateSize
  <2>1. Len(RawBytes(f)) = HeaderSize("Request", f.sub) + Len(f.payload)
    BY <1>3, RequestRaw
  <2>2. HeaderSize("Request", f.sub) = 15 \/ HeaderSize("Request", f.sub) = 16
    BY HeaderSizes
  <2>3. Len(f.payload) \in Nat
    BY <1>3 DEF RequestFrames, Bytes
  <2> QED BY <1>3, <2>1, <2>2, <2>3 DEF IdEnd, CreateSize
<1> QED BY <1>3, <1>4, <1>5 DEF f

-----------------------------------------------------------------------------
(* What the server answers. *)

\* g holds the first sequences one behind the other.
Flattens(g, seqs) ==
    /\ Len(seqs) > 0 => g[1] = seqs[1]
    /\ \A k \in Nat : k > 0 /\ k < Len(seqs) => g[k + 1] = g[k] \o seqs[k + 1]

\* The recursive function of FlattenSeq exists.
LEMMA FlattenRecurs ==
    ASSUME NEW S, NEW seqs \in Seq(S), Len(seqs) > 0
    PROVE  \E g : Flattens(g, seqs) /\ FlattenSeq(seqs) = g[Len(seqs)]
<1> DEFINE n == Len(seqs)
           E(h, m) == [i \in 1..m |-> IF i = 1 THEN seqs[i] ELSE h[i - 1] \o seqs[i]]
           T == {m \in Nat : \E h : h = E(h, m)}
           flatten == CHOOSE h : h = E(h, n)
<1>0. n \in Nat /\ n # 0
  OBVIOUS
<1> HIDE DEF n
<1>1. 0 \in T
  <2> DEFINE f == [i \in 1..0 |-> seqs[i]]
  <2>1. f = E(f, 0)
    OBVIOUS
  <2> HIDE DEF f, E
  <2> QED BY <2>1
<1>2. ASSUME NEW m \in T PROVE m + 1 \in T
  <2>1. m \in Nat /\ m + 1 \in Nat
    OBVIOUS
  <2>2. PICK f : f = E(f, m)
    OBVIOUS
  <2> DEFINE x == IF m = 0 THEN seqs[1] ELSE f[m] \o seqs[m + 1]
             g == [i \in 1..(m + 1) |-> IF i = m + 1 THEN x ELSE f[i]]
  <2>3. \A i \in 1..m : f[i] = IF i = 1 THEN seqs[i] ELSE f[i - 1] \o seqs[i]
    BY <2>2
  <2>4. ASSUME NEW i \in 1..(m + 1)
        PROVE  g[i] = IF i = 1 THEN seqs[i] ELSE g[i - 1] \o seqs[i]
    <3> HIDE DEF x
    <3>1. CASE i = m + 1 /\ m = 0
      <4>1. g[i] = x /\ i = 1
        BY <3>1
      <4>2. x = seqs[1]
        BY <3>1 DEF x
      <4> QED BY <4>1, <4>2
    <3>2. CASE i = m + 1 /\ m # 0
      <4>1. i # 1 /\ i - 1 = m /\ m \in 1..(m + 1) /\ m # m + 1
        BY <2>1, <3>2
      <4>2. g[i] = x /\ g[i - 1] = f[m]
        BY <3>2, <4>1
      <4>3. x = f[m] \o seqs[i]
        BY <3>2, Zenon DEF x
      <4> QED BY <4>1, <4>2, <4>3
    <3>3. CASE i # m + 1 /\ i = 1
      <4>1. i \in 1..m
        BY <2>1, <3>3
      <4>2. g[i] = f[i]
        BY <3>3, <4>1
      <4> QED BY <2>3, <3>3, <4>1, <4>2
    <3>4. CASE i # m + 1 /\ i # 1
      <4>1. i \in 1..m /\ i - 1 \in 1..(m + 1) /\ i - 1 # m + 1
        BY <2>1, <3>4
      <4>2. g[i] = f[i] /\ g[i - 1] = f[i - 1]
        BY <3>4, <4>1
      <4> QED BY <2>3, <3>4, <4>1, <4>2
    <3> QED BY <3>1, <3>2, <3>3, <3>4
  <2>5. g = E(g, m + 1)
    <3>1. g = [i \in 1..(m + 1) |-> g[i]]
      OBVIOUS
    <3> HIDE DEF g
    <3> QED BY <2>4, <3>1
  <2> HIDE DEF g, E
  <2> QED BY <2>1, <2>5
<1>3. flatten = E(flatten, n)
  <2>1. T = Nat
    <3>1. T \in SUBSET Nat
      OBVIOUS
    <3> HIDE DEF T
    <3> QED BY <1>1, <1>2, <3>1, NaturalInduction
  <2>2. \E f : f = E(f, n)
    <3>1. n \in T
      BY <1>0, <2>1
    <3> HIDE DEF E
    <3> QED BY <3>1
  <2> HIDE DEF E
  <2> QED BY <2>2
<1>4. FlattenSeq(seqs) = flatten[n]
  BY <1>0, Zenon DEF FlattenSeq, n
<1>5. \A i \in 1..n : flatten[i] = IF i = 1 THEN seqs[i] ELSE flatten[i - 1] \o seqs[i]
  <2> DEFINE t == flatten
  <2>1. t = E(t, n)
    BY <1>3, ZenonT(90)
  <2> HIDE DEF t
  <2>2. \A i \in 1..n : t[i] = IF i = 1 THEN seqs[i] ELSE t[i - 1] \o seqs[i]
    BY <2>1
  <2> QED BY <2>2, ZenonT(90) DEF t
<1> HIDE DEF flatten
<1>6. flatten[1] = seqs[1]
  <2>1. 1 \in 1..n
    BY <1>0
  <2> QED BY <1>5, <2>1
<1>7. ASSUME NEW k \in Nat, k > 0, k < n PROVE flatten[k + 1] = flatten[k] \o seqs[k + 1]
  <2>1. k + 1 \in 1..n /\ k + 1 # 1 /\ (k + 1) - 1 = k
    BY <1>0, <1>7
  <2> QED BY <1>5, <2>1
<1> QED BY <1>4, <1>6, <1>7 DEF Flattens, n

\* Blocks of one size, one behind the other.
LEMMA BlocksAre ==
    ASSUME NEW blocks \in Seq(Bytes), \A i \in 1..Len(blocks) : Len(blocks[i]) = 71
    PROVE  FlattenSeq(blocks) \in Bytes /\ Len(FlattenSeq(blocks)) = 71 * Len(blocks)
<1> DEFINE n == Len(blocks)
<1>1. n \in Nat /\ \A i \in 1..n : blocks[i] \in Bytes /\ Len(blocks[i]) = 71
  OBVIOUS
<1>2. CASE n = 0
  <2>1. FlattenSeq(blocks) = blocks /\ blocks = <<>>
    BY <1>2 DEF FlattenSeq
  <2> QED BY <2>1, ByteAlone
<1>3. CASE n # 0
  <2>1. n > 0
    BY <1>1, <1>3
  <2>2. PICK g : Flattens(g, blocks) /\ FlattenSeq(blocks) = g[n]
    BY <2>1, FlattenRecurs
  <2>3. g[1] = blocks[1] /\ \A k \in Nat : k > 0 /\ k < n => g[k + 1] = g[k] \o blocks[k + 1]
    BY <2>1, <2>2 DEF Flattens
  <2> HIDE DEF n
  <2> DEFINE T == {k \in Nat : k > 0 /\ k <= n => g[k] \in Bytes /\ Len(g[k]) = 71 * k}
  <2>4. 0 \in T
    OBVIOUS
  <2>5. ASSUME NEW k \in T PROVE k + 1 \in T
    <3>1. k \in Nat /\ k + 1 \in Nat
      OBVIOUS
    <3>2. ASSUME k + 1 <= n PROVE g[k + 1] \in Bytes /\ Len(g[k + 1]) = 71 * (k + 1)
      <4>1. blocks[k + 1] \in Bytes /\ Len(blocks[k + 1]) = 71
        BY <1>1, <3>1, <3>2
      <4>2. CASE k = 0
        BY <2>3, <4>1, <4>2
      <4>3. CASE k # 0
        <5>1. k > 0 /\ k < n /\ k <= n
          BY <1>1, <3>1, <3>2, <4>3
        <5>2. g[k] \in Bytes /\ Len(g[k]) = 71 * k
          BY <5>1
        <5> DEFINE s == g[k]
                   t == blocks[k + 1]
                   r == g[k + 1]
        <5>3. s \in Bytes /\ Len(s) = 71 * k /\ t \in Bytes /\ Len(t) = 71 /\ r = s \o t
          BY <2>3, <3>1, <4>1, <5>1, <5>2
        <5> HIDE DEF s, t, r
        <5>4. s \o t \in Bytes /\ Len(s \o t) = Len(s) + Len(t)
          BY <5>3, JoinLength
        <5>5. r \in Bytes /\ Len(r) = 71 * (k + 1)
          BY <3>1, <5>3, <5>4
        <5> QED BY <5>5 DEF r
      <4> QED BY <4>2, <4>3
    <3> QED BY <3>1, <3>2
  <2>6. n \in T
    <3>1. T \in SUBSET Nat
      OBVIOUS
    <3> HIDE DEF T
    <3> QED BY <1>1, <2>4, <2>5, <3>1, NaturalInduction
  <2> QED BY <1>1, <2>1, <2>2, <2>6 DEF n
<1> QED BY <1>2, <1>3

\* Blocks of one size, one behind the other, are where a list has its elements.
LEMMA BlocksHold ==
    ASSUME NEW blocks \in Seq(Bytes), \A i \in 1..Len(blocks) : Len(blocks[i]) = 71, Len(blocks) > 0
    PROVE  \A i \in 1..Len(blocks) : Holds(FlattenSeq(blocks), (i - 1) * 71, blocks[i])
<1> DEFINE n == Len(blocks)
           At71(b, i) == Holds(b, (i - 1) * 71, blocks[i])
<1>1. n \in Nat /\ n > 0 /\ \A i \in 1..n : blocks[i] \in Bytes /\ Len(blocks[i]) = 71
  OBVIOUS
<1>2. PICK g : Flattens(g, blocks) /\ FlattenSeq(blocks) = g[n]
  BY <1>1, FlattenRecurs
<1>3. g[1] = blocks[1] /\ \A k \in Nat : k > 0 /\ k < n => g[k + 1] = g[k] \o blocks[k + 1]
  BY <1>1, <1>2 DEF Flattens
<1> HIDE DEF n
<1> DEFINE T == {k \in Nat : k > 0 /\ k <= n => /\ g[k] \in Bytes /\ Len(g[k]) = 71 * k
                                                /\ \A i \in 1..k : At71(g[k], i)}
<1>4. 0 \in T
  OBVIOUS
<1>5. ASSUME NEW k \in T PROVE k + 1 \in T
  <2>1. k \in Nat /\ k + 1 \in Nat
    OBVIOUS
  <2>2. ASSUME k + 1 <= n
        PROVE  g[k + 1] \in Bytes /\ Len(g[k + 1]) = 71 * (k + 1) /\ \A i \in 1..(k + 1) : At71(g[k + 1], i)
    <3> DEFINE r == g[k + 1]
               t == blocks[k + 1]
    <3>1. t \in Bytes /\ Len(t) = 71 /\ At71(t, 1) = Holds(t, 0, blocks[1])
      <4>1. (1 - 1) * 71 = 0
        OBVIOUS
      <4> QED BY <1>1, <2>1, <2>2, <4>1
    <3>2. CASE k = 0
      <4>1. r = t /\ t = blocks[1] /\ k + 1 = 1 /\ \A i \in 1..(k + 1) : i = 1
        BY <1>3, <3>2
      <4> HIDE DEF r, t
      <4>2. Holds(t, 0, blocks[1])
        BY <3>1, <4>1, HoldsItself
      <4>3. At71(t, 1)
        BY <3>1, <4>2
      <4> HIDE DEF At71
      <4>4. r \in Bytes /\ Len(r) = 71 * (k + 1) /\ \A i \in 1..(k + 1) : At71(r, i)
        BY <3>1, <3>2, <4>1, <4>3
      <4> QED BY <4>4 DEF r
    <3>3. CASE k # 0
      <4> DEFINE s == g[k]
                 h == 71 * k
      <4>1. k > 0 /\ k < n /\ k <= n
        BY <1>1, <2>1, <2>2, <3>3
      <4>2. s \in Bytes /\ Len(s) = h /\ (\A i \in 1..k : At71(s, i)) /\ r = s \o t
        BY <1>3, <2>1, <4>1
      <4> HIDE DEF s, r, t
      <4>3. s \o t \in Bytes /\ Len(s \o t) = Len(s) + Len(t) /\ Holds(s \o t, 0, s) /\ Holds(s \o t, Len(s), t)
        BY <3>1, <4>2, JoinLength, HoldsJoined
      <4>4. r \in Bytes /\ Len(r) = h + 71 /\ Holds(r, 0, s) /\ Holds(r, h, t)
        BY <3>1, <4>2, <4>3
      <4>5. ASSUME NEW i \in 1..k PROVE At71(r, i)
        <5> DEFINE o == (i - 1) * 71
        <5>1. Holds(s, o, blocks[i])
          BY <4>2
        <5>2. o \in Nat /\ 0 + o = o
          <6>1. o \in Nat
            BY <2>1
          <6> HIDE DEF o
          <6> QED BY <6>1
        <5> HIDE DEF o
        <5>3. Holds(r, 0 + o, blocks[i])
          <6> DEFINE part == blocks[i]
          <6>1. Holds(r, 0, s) /\ Holds(s, o, part)
            BY <4>4, <5>1
          <6> HIDE DEF part
          <6>2. Holds(r, 0 + o, part)
            BY <6>1, HoldsPart
          <6> QED BY <6>2 DEF part
        <5>4. Holds(r, o, blocks[i])
          BY <5>2, <5>3
        <5> QED BY <5>4 DEF o
      <4>6. At71(r, k + 1)
        <5>1. ((k + 1) - 1) * 71 = h
          BY <2>1
        <5> QED BY <4>4, <5>1 DEF t
      <4>7. \A i \in 1..(k + 1) : i \in 1..k \/ i = k + 1
        BY <2>1
      <4>8. h + 71 = 71 * (k + 1)
        BY <2>1
      <4> HIDE DEF At71, h
      <4>9. \A i \in 1..(k + 1) : At71(r, i)
        BY <4>5, <4>6, <4>7, Zenon
      <4> QED BY <4>4, <4>8, <4>9 DEF r
    <3> QED BY <3>2, <3>3
  <2> HIDE DEF At71
  <2> QED BY <2>1, <2>2
<1>6. n \in T
  <2>1. T \in SUBSET Nat
    OBVIOUS
  <2> HIDE DEF T
  <2> QED BY <1>1, <1>4, <1>5, <2>1, NaturalInduction
<1>7. n <= n
  BY <1>1
<1>8. \A i \in 1..n : At71(g[n], i)
  <2> HIDE DEF At71
  <2> QED BY <1>1, <1>6, <1>7
<1> QED BY <1>2, <1>8 DEF n

\* All pieces of soil are read as they were serialised, in their order.
LEMMA SoilsRead ==
    ASSUME NEW S, NEW pieces \in Seq(S), \A i \in 1..Len(pieces) : PieceOfSoil(pieces[i]),
           SerializeList([i \in DOMAIN pieces |-> SerializeSoil(pieces[i])], SoilSize) # Thrown
    PROVE  ReadAllSoils(SerializeList([i \in DOMAIN pieces |-> SerializeSoil(pieces[i])], SoilSize)) = pieces
<1> DEFINE n == Len(pieces)
           blocks == [i \in DOMAIN pieces |-> SerializeSoil(pieces[i])]
           flat == FlattenSeq(blocks)
           count == Digits[2][n]
           bytes == SerializeList(blocks, SoilSize)
           offsets == DeserializeList(bytes, SoilSize, 0)
<1>1. n \in Nat /\ DOMAIN pieces = 1..n
  OBVIOUS
<1>2. \A i \in 1..n : SerializeSoil(pieces[i]) \in Bytes /\ Len(SerializeSoil(pieces[i])) = 71
  BY SoilLaid DEF SoilSize
<1>3. blocks \in Seq(Bytes) /\ Len(blocks) = n /\ \A i \in 1..n : blocks[i] = SerializeSoil(pieces[i]) /\ Len(blocks[i]) = 71
  <2> DEFINE B == Bytes
  <2> HIDE DEF n
  <2>1. blocks = [i \in 1..n |-> SerializeSoil(pieces[i])]
    BY <1>1
  <2>2. \A i \in 1..n : SerializeSoil(pieces[i]) \in B
    BY <1>2
  <2> HIDE DEF B, blocks
  <2>3. blocks \in Seq(B) /\ Len(blocks) = n /\ \A i \in 1..n : blocks[i] = SerializeSoil(pieces[i])
    BY <1>1, <2>1, <2>2
  <2> QED BY <1>2, <2>3 DEF B
<1> HIDE DEF n, blocks
<1>4. n <= MaxListSize /\ bytes = count \o flat
  <2>1. ~ (Len(blocks) > MaxListSize) /\ bytes = Digits[2][Len(blocks)] \o FlattenSeq(blocks)
    BY Zenon DEF SerializeList, blocks
  <2>2. n <= MaxListSize
    BY <1>1, <1>3, <2>1 DEF MaxListSize
  <2> QED BY <1>3, <2>1, <2>2
<1>5. count \in Bytes /\ Len(count) = 2 /\ Value(count) = n
  <2>1. 2 \in Nat /\ n \in Int
    BY <1>1
  <2>2. Value(Digits[2][n]) = n
    BY <1>1, <1>4, ValueOfCount
  <2> QED BY <2>1, <2>2, DigitsOf, Zenon
<1>6. flat \in Bytes /\ Len(flat) = 71 * n
  BY <1>3, BlocksAre
<1> HIDE DEF bytes, count, flat
<1>7. bytes \in Bytes /\ Len(bytes) = 2 + 71 * n /\ Holds(bytes, 0, count) /\ Holds(bytes, 2, flat)
  <2>1. /\ count \o flat \in Bytes /\ Len(count \o flat) = Len(count) + Len(flat)
        /\ Holds(count \o flat, 0, count) /\ Holds(count \o flat, Len(count), flat)
    BY <1>5, <1>6, JoinLength, HoldsJoined
  <2> QED BY <1>4, <1>5, <1>6, <2>1
<1>8. Read(bytes, 0, 2) = n /\ n # Thrown
  <2>1. Slice(bytes, 0, Len(count)) = count /\ count # Thrown
    BY <1>7, SliceHeld
  <2>2. n # Thrown
    BY <1>1, ThrownIsNot
  <2> QED BY <1>5, <2>1, <2>2, Zenon DEF Read
<1>9. offsets = [i \in 1..n |-> (i - 1) * 71 + 0 + 2] /\ offsets # Thrown
  <2>1. ~ (Len(bytes) - 0 < 2 + n * 71)
    <3> DEFINE l == Len(bytes)
               m == 71 * n
    <3>1. l = 2 + m /\ n * 71 = m /\ m \in Nat
      BY <1>1, <1>7
    <3> HIDE DEF l, m
    <3>2. ~ (l - 0 < 2 + n * 71)
      BY <3>1
    <3> QED BY <3>2 DEF l
  <2>2. offsets = [i \in 1..n |-> (i - 1) * 71 + 0 + 2]
    BY <1>8, <2>1, Zenon DEF DeserializeList, SoilSize
  <2>3. [i \in 1..n |-> (i - 1) * 71 + 0 + 2] \in Seq(Int)
    BY <1>1
  <2> QED BY <2>2, <2>3, ThrownAssumption
<1>10. ASSUME NEW i \in 1..n PROVE ReadSoil(bytes, offsets[i]) = pieces[i] /\ pieces[i] # Thrown
  <2> DEFINE o == (i - 1) * 71
  <2>1. Holds(flat, o, blocks[i])
    <3>1. Len(blocks) > 0
      BY <1>1, <1>3
    <3> QED BY <1>3, <3>1, BlocksHold DEF flat
  <2>2. o \in Nat
    BY <1>1
  <2>3. offsets[i] = o + 0 + 2
    <3> HIDE DEF offsets
    <3> QED BY <1>9
  <2> HIDE DEF o, offsets
  <2>4. Holds(bytes, 2 + o, blocks[i])
    BY <1>7, <2>1, HoldsPart, Zenon
  <2>5. offsets[i] = 2 + o
    BY <2>2, <2>3
  <2>6. Holds(bytes, offsets[i], SerializeSoil(pieces[i])) /\ PieceOfSoil(pieces[i])
    BY <1>3, <2>4, <2>5 DEF n
  <2> QED BY <2>6, SoilRead, Zenon
<1>11. DOMAIN offsets = 1..n
  <2> HIDE DEF offsets
  <2> QED BY <1>9
<1> DEFINE read == [i \in DOMAIN offsets |-> ReadSoil(bytes, offsets[i])]
<1>12. read = [i \in 1..n |-> pieces[i]]
  <2> HIDE DEF offsets
  <2> QED BY <1>10, <1>11
<1>13. [i \in 1..n |-> pieces[i]] = pieces
  BY <1>1
<1>14. read = pieces /\ \A i \in DOMAIN offsets : read[i] # Thrown
  <2>1. read = pieces
    BY <1>12, <1>13, Zenon
  <2> HIDE DEF read, offsets
  <2> QED BY <1>10, <1>11, <2>1
<1>15. ReadAllSoils(bytes) = read
  <2> HIDE DEF bytes
  <2> QED BY <1>9, <1>14, Zenon DEF ReadAllSoils, offsets, read
<1>16. ReadAllSoils(bytes) = pieces
  <2> HIDE DEF read, offsets
  <2> QED BY <1>14, <1>15
<1> QED BY <1>16, Zenon DEF bytes, blocks

\* More than all the soil a list holds, and far below the largest size.
PayloadMax == 5000000

\* What the entities take up is well within that.
LEMMA SizesFit ==
    91 <= PayloadMax /\ 71 <= PayloadMax /\ 44 <= PayloadMax /\ 16 <= PayloadMax /\ 0 <= PayloadMax
BY SMT DEF PayloadMax

\* A response with a payload of a size that is far below the largest.
LEMMA ResponseIs ==
    ASSUME NEW sub \in DOMAIN ResponseCode, NEW id \in Nat, id < Huge, NEW payload \in Bytes, Len(payload) <= PayloadMax,
           NEW cardinality \in DOMAIN CardinalityCode, sub \in {"NONE", "TERRITORY"} => cardinality = "ONE"
    PROVE  /\ Response(sub, id, payload, cardinality) \in Frames
           /\ WritableResponse(Response(sub, id, payload, cardinality))
<1> DEFINE f == Response(sub, id, payload, cardinality)
<1>1. f = [type |-> "Response", sub |-> sub, id |-> id, cardinality |-> cardinality, payload |-> payload]
  BY DEF Response
<1> HIDE DEF f
<1>2. f \in ResponseFrames
  BY <1>1 DEF ResponseFrames
<1>3. f.sub = sub /\ f.id = id /\ f.cardinality = cardinality /\ f.payload = payload
  BY <1>1
<1>4. ValidResponse(f)
  BY <1>3 DEF ValidResponse
<1>5. Len(payload) \in Nat
  BY DEF Bytes
<1>6. 16 + Len(payload) < Huge
  BY <1>5, SMT DEF Huge, PayloadMax
<1>7. WritableResponse(f)
  BY <1>2, <1>3, <1>4, <1>6 DEF WritableResponse
<1> QED BY <1>2, <1>7 DEF Frames, f

\* What a response is to a request that was written: none, as it threw, or one
\* that can be written.
Answerable(response) == response = Thrown \/ (response \in Frames /\ WritableResponse(response))

\* An entity that is looked up and serialised.
LEMMA SeeIs ==
    ASSUME NEW sub \in DOMAIN ResponseCode, sub \notin {"NONE", "TERRITORY"},
           NEW request, request.id \in Nat, request.id < Huge, NEW serialised,
           \A e \in DOMAIN serialised :
               serialised[e] = Thrown \/ (serialised[e] \in Bytes /\ Len(serialised[e]) <= PayloadMax)
    PROVE  Answerable(See(sub, request, serialised))
<1> DEFINE id == ReadId(request.payload, 0)
           found == {e \in DOMAIN serialised : e.id = id}
           e == CHOOSE x \in found : TRUE
           payload == serialised[e]
           answer == See(sub, request, serialised)
<1>1. "NONE" \in DOMAIN ResponseCode /\ "ONE" \in DOMAIN CardinalityCode
  BY DEF ResponseCode, CardinalityCode
<1>2. CASE id = Thrown
  BY <1>2 DEF See, Answerable
<1>3. CASE id # Thrown /\ found = {}
  <2>1. answer = Response("NONE", request.id, <<>>, "ONE")
    BY <1>3, Zenon DEF See
  <2> DEFINE none == <<>>
  <2>2. none \in Bytes /\ Len(none) <= PayloadMax
    BY ByteAlone, SMT DEF PayloadMax
  <2> HIDE DEF answer, none
  <2>3. Response("NONE", request.id, none, "ONE") \in Frames /\ WritableResponse(Response("NONE", request.id, none, "ONE"))
    BY <1>1, <2>2, ResponseIs
  <2> QED BY <2>1, <2>3 DEF Answerable, answer, none
<1>4. CASE id # Thrown /\ found # {}
  <2>1. e \in found
    BY <1>4
  <2>2. payload = Thrown \/ (payload \in Bytes /\ Len(payload) <= PayloadMax)
    <3> HIDE DEF e
    <3> QED BY <2>1
  <2>3. answer = IF payload = Thrown THEN Thrown ELSE Response(sub, request.id, payload, "ONE")
    BY <1>4, Zenon DEF See
  <2> HIDE DEF answer, payload
  <2>4. CASE payload = Thrown
    BY <2>3, <2>4 DEF Answerable, answer
  <2>5. CASE payload # Thrown
    <3>1. Response(sub, request.id, payload, "ONE") \in Frames /\ WritableResponse(Response(sub, request.id, payload, "ONE"))
      BY <1>1, <2>2, <2>5, ResponseIs
    <3> QED BY <2>3, <2>5, <3>1 DEF Answerable, answer
  <2> QED BY <2>4, <2>5
<1> QED BY <1>2, <1>3, <1>4

\* Whatever is asked, the server throws or has a response that can be written.
LEMMA ProcessIs ==
    ASSUME soils \in SoilOrders, NEW request, WritableRequest(request), NEW taken \in BOOLEAN
    PROVE  Answerable(Process(request, taken))
<1>1. request.id \in Nat /\ request.id < Huge
  BY DEF WritableRequest, RequestFrames
<1>2. /\ "CREATURE" \in DOMAIN ResponseCode /\ "CORPSE" \in DOMAIN ResponseCode /\ "SOIL" \in DOMAIN ResponseCode
      /\ "TERRITORY" \in DOMAIN ResponseCode /\ "NONE" \in DOMAIN ResponseCode
      /\ "ONE" \in DOMAIN CardinalityCode /\ "ALL" \in DOMAIN CardinalityCode
      /\ "CREATURE" \notin {"NONE", "TERRITORY"} /\ "CORPSE" \notin {"NONE", "TERRITORY"}
      /\ "SOIL" \notin {"NONE", "TERRITORY"}
  BY DEF ResponseCode, CardinalityCode
<1>3. Answerable(SeeCreature(request))
  <2> DEFINE serialised == [c \in Creatures |-> SerializeCreature(c)]
  <2>1. \A c \in DOMAIN serialised : serialised[c] = Thrown \/ (serialised[c] \in Bytes /\ Len(serialised[c]) <= PayloadMax)
    <3>1. \A c \in Creatures : SerializeCreature(c) = Thrown \/ (SerializeCreature(c) \in Bytes /\ Len(SerializeCreature(c)) = 91)
      BY CreatureLaid, Zenon DEF CreatureSize
    <3>2. ASSUME NEW c \in Creatures
          PROVE  SerializeCreature(c) = Thrown \/ (SerializeCreature(c) \in Bytes /\ Len(SerializeCreature(c)) <= PayloadMax)
      <4> DEFINE k == SerializeCreature(c)
      <4>1. k = Thrown \/ (k \in Bytes /\ Len(k) = 91)
        BY <3>1
      <4> HIDE DEF k
      <4>2. k = Thrown \/ (k \in Bytes /\ Len(k) <= PayloadMax)
        BY <4>1, SizesFit
      <4> QED BY <4>2 DEF k
    <3>3. DOMAIN serialised = Creatures /\ \A c \in Creatures : serialised[c] = SerializeCreature(c)
      OBVIOUS
    <3> HIDE DEF serialised
    <3> QED BY <3>2, <3>3, Zenon
  <2> HIDE DEF serialised
  <2>2. Answerable(See("CREATURE", request, serialised))
    BY <1>1, <1>2, <2>1, SeeIs
  <2> QED BY <2>2 DEF SeeCreature, serialised
<1>4. Answerable(SeeCorpse(request))
  <2> DEFINE serialised == [c \in Corpses |-> SerializeCorpse(c)]
  <2>1. \A c \in DOMAIN serialised : serialised[c] = Thrown \/ (serialised[c] \in Bytes /\ Len(serialised[c]) <= PayloadMax)
    <3>1. \A c \in Corpses : SerializeCorpse(c) \in Bytes /\ Len(SerializeCorpse(c)) = 44
      BY CorpseIs, Zenon DEF CorpseSize
    <3>2. ASSUME NEW c \in Corpses PROVE SerializeCorpse(c) \in Bytes /\ Len(SerializeCorpse(c)) <= PayloadMax
      <4> DEFINE k == SerializeCorpse(c)
      <4>1. k \in Bytes /\ Len(k) = 44
        BY <3>1
      <4> HIDE DEF k
      <4>2. Len(k) <= PayloadMax
        BY <4>1, SizesFit
      <4> QED BY <4>1, <4>2 DEF k
    <3>3. DOMAIN serialised = Corpses /\ \A c \in Corpses : serialised[c] = SerializeCorpse(c)
      OBVIOUS
    <3> HIDE DEF serialised
    <3> QED BY <3>2, <3>3, Zenon
  <2> HIDE DEF serialised
  <2>2. Answerable(See("CORPSE", request, serialised))
    BY <1>1, <1>2, <2>1, SeeIs
  <2> QED BY <2>2 DEF SeeCorpse, serialised
<1>5. /\ soils \in Seq(ToSet(soils))
      /\ \A i \in 1..Len(soils) : SerializeSoil(soils[i]) \in Bytes /\ Len(SerializeSoil(soils[i])) = 71
      /\ \A s \in ToSet(soils) : SerializeSoil(s) \in Bytes /\ Len(SerializeSoil(s)) = 71
  <2>1. \A s : PieceOfSoil(s) => SerializeSoil(s) \in Bytes /\ Len(SerializeSoil(s)) = 71
    BY SoilLaid, Zenon DEF SoilSize
  <2> QED BY <2>1, PiecesOfSoil, Zenon
<1>6. Answerable(SeeSoil(request))
  <2> DEFINE serialised == [s \in ToSet(soils) |-> SerializeSoil(s)]
  <2>1. \A s \in DOMAIN serialised : serialised[s] = Thrown \/ (serialised[s] \in Bytes /\ Len(serialised[s]) <= PayloadMax)
    <3> QED BY <1>5, SizesFit, ZenonT(90)
  <2> HIDE DEF serialised
  <2>2. Answerable(See("SOIL", request, serialised))
    BY <1>1, <1>2, <2>1, SeeIs
  <2> QED BY <2>2 DEF SeeSoil, serialised
<1>7. Answerable(SeeAllSoils(request))
  <2> DEFINE blocks == [i \in DOMAIN soils |-> SerializeSoil(soils[i])]
             payload == SerializeList(blocks, SoilSize)
  <2>1. blocks \in Seq(Bytes) /\ \A i \in 1..Len(blocks) : Len(blocks[i]) = 71
    <3>1. DOMAIN soils = 1..Len(soils) /\ Len(soils) \in Nat
      BY <1>5
    <3>2. \A i \in 1..Len(soils) : SerializeSoil(soils[i]) \in Bytes /\ Len(SerializeSoil(soils[i])) = 71
      BY <1>5
    <3> QED BY <3>1, <3>2
  <2> HIDE DEF blocks
  <2>2. payload = Thrown \/ (payload \in Bytes /\ Len(payload) <= PayloadMax)
    <3> DEFINE n == Len(blocks)
               size == Digits[2][n]
               flat == FlattenSeq(blocks)
    <3>1. n \in Nat
      BY <2>1
    <3>2. CASE n > 65535
      BY <3>2 DEF SerializeList, MaxListSize
    <3>3. CASE ~ (n > 65535)
      <4>1. payload = Thrown \/ payload = size \o flat
        BY <3>3 DEF SerializeList
      <4>2. flat \in Bytes /\ Len(flat) = 71 * n
        BY <2>1, BlocksAre
      <4>5. 2 \in Nat /\ n \in Int
        BY <3>1
      <4>3. size \in Bytes /\ Len(size) = 2
        BY <4>5, DigitsOf, Zenon
      <4> HIDE DEF payload, size, flat, n
      <4>4. size \o flat \in Bytes /\ Len(size \o flat) = Len(size) + Len(flat)
        BY <4>2, <4>3, JoinLength
      <4>6. Len(size \o flat) <= PayloadMax
        BY <3>1, <3>3, <4>2, <4>3, <4>4, SMT DEF PayloadMax
      <4> QED BY <4>1, <4>4, <4>6
    <3> QED BY <3>2, <3>3
  <2>3. SeeAllSoils(request) = IF payload = Thrown THEN Thrown ELSE Response("SOIL", request.id, payload, "ALL")
    BY Zenon DEF SeeAllSoils, blocks
  <2> HIDE DEF payload
  <2>4. CASE payload = Thrown
    BY <2>3, <2>4 DEF Answerable
  <2>5. CASE payload # Thrown
    <3>1. Response("SOIL", request.id, payload, "ALL") \in Frames /\ WritableResponse(Response("SOIL", request.id, payload, "ALL"))
      BY <1>1, <1>2, <2>2, <2>5, ResponseIs
    <3> QED BY <2>3, <2>5, <3>1 DEF Answerable
  <2> QED BY <2>4, <2>5
<1>8. Answerable(SeeTerritory(request))
  <2> DEFINE payload == SerializeTerritory(Territory)
  <2>1. payload \in Bytes /\ Len(payload) <= PayloadMax
    <3>1. Territory.width \in Int /\ Territory.height \in Int
      BY EntitiesAre
    <3>2. payload \in Bytes /\ Len(payload) = 16
      BY <3>1, PairsAre, Zenon DEF SerializeTerritory
    <3> HIDE DEF payload
    <3> QED BY <3>2, SizesFit, ZenonT(90)
  <2> HIDE DEF payload
  <2>2. Response("TERRITORY", request.id, payload, "ONE") \in Frames
        /\ WritableResponse(Response("TERRITORY", request.id, payload, "ONE"))
    BY <1>1, <1>2, <2>1, ResponseIs
  <2> QED BY <2>2 DEF SeeTerritory, Answerable, payload
<1>9. Answerable(CreateCreature(request, taken))
  <2> DEFINE none == <<>>
  <2>1. none \in Bytes /\ Len(none) <= PayloadMax
    BY ByteAlone, SMT DEF PayloadMax
  <2> HIDE DEF none
  <2>2. Response("NONE", request.id, none, "ONE") \in Frames /\ WritableResponse(Response("NONE", request.id, none, "ONE"))
    BY <1>1, <1>2, <2>1, ResponseIs
  <2>3. CreateCreature(request, taken) = Thrown \/ CreateCreature(request, taken) = Response("NONE", request.id, none, "ONE")
    BY Zenon DEF CreateCreature, none
  <2> QED BY <2>2, <2>3 DEF Answerable
<1>10. Answerable(Thrown)
  BY DEF Answerable
<1>11. \/ Process(request, taken) = SeeCreature(request) \/ Process(request, taken) = SeeCorpse(request)
       \/ Process(request, taken) = SeeSoil(request) \/ Process(request, taken) = SeeAllSoils(request)
       \/ Process(request, taken) = SeeTerritory(request) \/ Process(request, taken) = CreateCreature(request, taken)
       \/ Process(request, taken) = Thrown
  BY DEF Process
<1> QED BY <1>3, <1>4, <1>6, <1>7, <1>8, <1>9, <1>10, <1>11, SMTT(40)

-----------------------------------------------------------------------------
(* What the response to a call says. *)

\* The answers a call may have on these pieces of soil: what Answer is of the registry.
Wanted(call, pieces) ==
    CASE call.op = "see_creature"  -> {c \in Creatures : c.id = call.id}
      [] call.op = "see_corpse"    -> {c \in Corpses : c.id = call.id}
      [] call.op = "see_soil"      -> {s \in ToSet(pieces) : s.id = call.id}
      [] call.op = "see_all_soils" -> {pieces}
      [] call.op = "see_territory" -> {Territory}
      [] call.op = "make_creature" -> {}

\* The caller decodes what it wanted, nothing where there is none, and no male creature.
Meets(call, pieces, response) ==
    LET seen   == Decode(call, response)
        wanted == Wanted(call, pieces)
    IN  IF call.op = "see_creature" /\ \E c \in wanted : c.gender = "MALE" THEN seen = Thrown
        ELSE IF wanted = {} THEN seen = Nothing
        ELSE seen \in wanted

\* What is looked up is there or is not.
LEMMA SeeFinds ==
    ASSUME NEW sub, NEW request, NEW serialised, NEW v \in IdNumbers, request.payload = Digits[8][v]
    PROVE  \/ See(sub, request, serialised) = Thrown
           \/ /\ See(sub, request, serialised) = Response("NONE", request.id, <<>>, "ONE")
              /\ {e \in DOMAIN serialised : e.id = v} = {}
           \/ \E e \in DOMAIN serialised :
                  /\ e.id = v /\ serialised[e] # Thrown
                  /\ See(sub, request, serialised) = Response(sub, request.id, serialised[e], "ONE")
<1> DEFINE id == ReadId(request.payload, 0)
           found == {e \in DOMAIN serialised : e.id = id}
           e == CHOOSE x \in found : TRUE
           payload == serialised[e]
<1>1. id = v
  <2>1. v \in Int /\ 8 \in Nat
    BY NumbersAre
  <2>2. Digits[8][v] \in Bytes
    BY <2>1, DigitsOf
  <2>3. Holds(request.payload, 0, Digits[8][v])
    BY <2>2, HoldsItself
  <2> QED BY <2>3, ReadsId, Zenon
<1>2. See(sub, request, serialised) =
          IF id = Thrown THEN Thrown
          ELSE IF found = {} THEN Response("NONE", request.id, <<>>, "ONE")
          ELSE IF payload = Thrown THEN Thrown ELSE Response(sub, request.id, payload, "ONE")
  BY Zenon DEF See
<1>3. found = {} \/ e \in found
  <2>1. found # {} => \E x \in found : TRUE
    BY Zenon
  <2> HIDE DEF found
  <2> QED BY <2>1
<1> HIDE DEF id, e
<1>4. found = {x \in DOMAIN serialised : x.id = v}
  BY <1>1
<1>5. e \in found => e \in DOMAIN serialised /\ e.id = v
  BY <1>4
<1> HIDE DEF found
<1> QED BY <1>2, <1>3, <1>4, <1>5, Zenon DEF payload

\* What the parts of a response are.
LEMMA ResponseParts ==
    ASSUME NEW sub, NEW id, NEW payload, NEW cardinality
    PROVE  LET r == Response(sub, id, payload, cardinality)
           IN  r.sub = sub /\ r.id = id /\ r.payload = payload
  BY DEF Response

\* What the call looks for is decoded from the response to it.
LEMMA CreatureMet ==
    ASSUME NEW call, call.op = "see_creature", call.id \in IdNumbers, NEW id, NEW pieces
    PROVE  LET r == SeeCreature(RequestCreature(call, id))
           IN  r = Thrown \/ (r.id = id /\ Meets(call, pieces, r))
<1> DEFINE request == RequestCreature(call, id)
           serialised == [c \in Creatures |-> SerializeCreature(c)]
           r == SeeCreature(request)
           wanted == {c \in Creatures : c.id = call.id}
<1>1. request.id = id /\ request.payload = Digits[8][call.id]
  BY DEF RequestCreature, Request
<1>2. r = See("CREATURE", request, serialised)
  BY DEF SeeCreature
<1>3. Wanted(call, pieces) = wanted
  BY Zenon DEF Wanted
<1>4. Decode(call, r) = IF r.sub = "NONE" THEN Nothing ELSE ReadCreature(r.payload, 0)
  BY Zenon DEF Decode
<1>5. DOMAIN serialised = Creatures /\ \A c \in Creatures : serialised[c] = SerializeCreature(c)
  OBVIOUS
<1> HIDE DEF serialised, request, r
<1>6. CASE r = Response("NONE", request.id, <<>>, "ONE") /\ {e \in DOMAIN serialised : e.id = call.id} = {}
  <2>1. r.sub = "NONE" /\ r.id = id
    BY <1>1, <1>6, ResponseParts
  <2>2. wanted = {}
    BY <1>5, <1>6
  <2> HIDE DEF wanted
  <2> QED BY <1>3, <1>4, <2>1, <2>2 DEF Meets, r, request
<1>7. CASE \E e \in DOMAIN serialised : /\ e.id = call.id /\ serialised[e] # Thrown
                                        /\ r = Response("CREATURE", request.id, serialised[e], "ONE")
  <2>1. PICK c \in Creatures : /\ c.id = call.id /\ SerializeCreature(c) # Thrown
                               /\ r = Response("CREATURE", request.id, SerializeCreature(c), "ONE")
    BY <1>5, <1>7
  <2>2. r.sub = "CREATURE" /\ r.id = id /\ r.payload = SerializeCreature(c)
    BY <1>1, <2>1, ResponseParts
  <2>3. Decode(call, r) = IF c.gender = "MALE" THEN Thrown ELSE c
    BY <1>4, <2>1, <2>2, CreatureRead
  <2>4. c \in wanted /\ \A d \in wanted : d = c
    BY <2>1, EntitiesAssumption
  <2> HIDE DEF wanted
  <2>5. Meets(call, pieces, r)
    <3>1. wanted # {} /\ ((\E d \in wanted : d.gender = "MALE") <=> c.gender = "MALE")
      BY <2>4, Zenon
    <3>2. Meets(call, pieces, r) =
              IF call.op = "see_creature" /\ \E d \in wanted : d.gender = "MALE" THEN Decode(call, r) = Thrown
              ELSE IF wanted = {} THEN Decode(call, r) = Nothing
              ELSE Decode(call, r) \in wanted
      BY <1>3, Zenon DEF Meets
    <3> QED BY <2>3, <2>4, <3>1, <3>2, Zenon
  <2> QED BY <2>2, <2>5 DEF r, request
<1>8. \/ r = Thrown
      \/ r = Response("NONE", request.id, <<>>, "ONE") /\ {e \in DOMAIN serialised : e.id = call.id} = {}
      \/ \E e \in DOMAIN serialised : /\ e.id = call.id /\ serialised[e] # Thrown
                                       /\ r = Response("CREATURE", request.id, serialised[e], "ONE")
  BY <1>1, <1>2, SeeFinds
<1> QED BY <1>6, <1>7, <1>8 DEF r, request

\* As soon as one answer is wanted and decoded, the response meets the call.
LEMMA MetBy ==
    ASSUME NEW call, call.op # "see_creature", NEW pieces, NEW r
    PROVE  /\ Decode(call, r) \in Wanted(call, pieces) => Meets(call, pieces, r)
           /\ Wanted(call, pieces) = {} /\ Decode(call, r) = Nothing => Meets(call, pieces, r)
<1> DEFINE seen == Decode(call, r)
           wanted == Wanted(call, pieces)
<1>1. Meets(call, pieces, r) = IF wanted = {} THEN seen = Nothing ELSE seen \in wanted
  BY Zenon DEF Meets
<1> HIDE DEF seen, wanted
<1>2. seen \in wanted => wanted # {}
  OBVIOUS
<1> QED BY <1>1, <1>2, Zenon DEF seen, wanted

\* The same of a corpse.
LEMMA CorpseMet ==
    ASSUME NEW call, call.op = "see_corpse", call.id \in IdNumbers, NEW id, NEW pieces
    PROVE  LET r == SeeCorpse(RequestCorpse(call, id))
           IN  r = Thrown \/ (r.id = id /\ Meets(call, pieces, r))
<1> DEFINE request == RequestCorpse(call, id)
           serialised == [c \in Corpses |-> SerializeCorpse(c)]
           r == SeeCorpse(request)
           wanted == {c \in Corpses : c.id = call.id}
<1>1. request.id = id /\ request.payload = Digits[8][call.id]
  BY DEF RequestCorpse, Request
<1>2. r = See("CORPSE", request, serialised)
  BY DEF SeeCorpse
<1>3. Wanted(call, pieces) = wanted
  BY Zenon DEF Wanted
<1>4. Decode(call, r) = IF r.sub = "NONE" THEN Nothing ELSE ReadCorpse(r.payload, 0)
  BY Zenon DEF Decode
<1>5. DOMAIN serialised = Corpses /\ \A c \in Corpses : serialised[c] = SerializeCorpse(c)
  OBVIOUS
<1>6. call.op # "see_creature"
  OBVIOUS
<1> HIDE DEF serialised, request, r
<1>7. CASE r = Response("NONE", request.id, <<>>, "ONE") /\ {e \in DOMAIN serialised : e.id = call.id} = {}
  <2>1. r.sub = "NONE" /\ r.id = id
    BY <1>1, <1>7, ResponseParts
  <2>2. wanted = {}
    BY <1>5, <1>7
  <2> HIDE DEF wanted
  <2> QED BY <1>3, <1>4, <1>6, <2>1, <2>2, MetBy DEF r, request
<1>8. CASE \E e \in DOMAIN serialised : /\ e.id = call.id /\ serialised[e] # Thrown
                                        /\ r = Response("CORPSE", request.id, serialised[e], "ONE")
  <2>1. PICK c \in Corpses : /\ c.id = call.id
                             /\ r = Response("CORPSE", request.id, SerializeCorpse(c), "ONE")
    BY <1>5, <1>8
  <2>2. r.sub = "CORPSE" /\ r.id = id /\ r.payload = SerializeCorpse(c)
    BY <1>1, <2>1, ResponseParts
  <2>3. Decode(call, r) = c
    BY <1>4, <2>2, CorpseRead
  <2>4. c \in wanted
    BY <2>1
  <2> HIDE DEF wanted
  <2> QED BY <1>3, <1>6, <2>2, <2>3, <2>4, MetBy DEF r, request
<1>9. \/ r = Thrown
      \/ r = Response("NONE", request.id, <<>>, "ONE") /\ {e \in DOMAIN serialised : e.id = call.id} = {}
      \/ \E e \in DOMAIN serialised : /\ e.id = call.id /\ serialised[e] # Thrown
                                       /\ r = Response("CORPSE", request.id, serialised[e], "ONE")
  BY <1>1, <1>2, SeeFinds
<1> QED BY <1>7, <1>8, <1>9 DEF r, request

\* The same of a piece of soil.
LEMMA SoilMet ==
    ASSUME soils \in SoilOrders, NEW call, call.op = "see_soil", call.id \in IdNumbers, NEW id
    PROVE  LET r == SeeSoil(RequestSoil(call, id))
           IN  r = Thrown \/ (r.id = id /\ Meets(call, soils, r))
<1> DEFINE request == RequestSoil(call, id)
           serialised == [s \in ToSet(soils) |-> SerializeSoil(s)]
           r == SeeSoil(request)
           wanted == {s \in ToSet(soils) : s.id = call.id}
<1>1. request.id = id /\ request.payload = Digits[8][call.id]
  BY DEF RequestSoil, Request
<1>2. r = See("SOIL", request, serialised)
  BY DEF SeeSoil
<1>3. Wanted(call, soils) = wanted
  BY Zenon DEF Wanted
<1>4. Decode(call, r) = IF r.sub = "NONE" THEN Nothing ELSE ReadSoil(r.payload, 0)
  BY Zenon DEF Decode
<1>5. DOMAIN serialised = ToSet(soils) /\ \A s \in ToSet(soils) : serialised[s] = SerializeSoil(s)
  OBVIOUS
<1>6. call.op # "see_creature"
  OBVIOUS
<1> HIDE DEF serialised, request, r
<1>7. CASE r = Response("NONE", request.id, <<>>, "ONE") /\ {e \in DOMAIN serialised : e.id = call.id} = {}
  <2>1. r.sub = "NONE" /\ r.id = id
    BY <1>1, <1>7, ResponseParts
  <2>2. wanted = {}
    BY <1>5, <1>7
  <2> HIDE DEF wanted
  <2> QED BY <1>3, <1>4, <1>6, <2>1, <2>2, MetBy DEF r, request
<1>8. CASE \E e \in DOMAIN serialised : /\ e.id = call.id /\ serialised[e] # Thrown
                                        /\ r = Response("SOIL", request.id, serialised[e], "ONE")
  <2>1. PICK s \in ToSet(soils) : /\ s.id = call.id
                                  /\ r = Response("SOIL", request.id, SerializeSoil(s), "ONE")
    BY <1>5, <1>8
  <2>2. r.sub = "SOIL" /\ r.id = id /\ r.payload = SerializeSoil(s)
    BY <1>1, <2>1, ResponseParts
  <2>3. Decode(call, r) = s
    <3>1. PieceOfSoil(s)
      BY <2>1, PiecesOfSoil
    <3>2. Holds(SerializeSoil(s), 0, SerializeSoil(s))
      BY <3>1, SoilLaid, HoldsItself
    <3>3. ReadSoil(SerializeSoil(s), 0) = s
      BY <3>1, <3>2, SoilRead, Zenon
    <3> QED BY <1>4, <2>2, <3>3
  <2>4. s \in wanted
    BY <2>1
  <2> HIDE DEF wanted
  <2> QED BY <1>3, <1>6, <2>2, <2>3, <2>4, MetBy DEF r, request
<1>9. \/ r = Thrown
      \/ r = Response("NONE", request.id, <<>>, "ONE") /\ {e \in DOMAIN serialised : e.id = call.id} = {}
      \/ \E e \in DOMAIN serialised : /\ e.id = call.id /\ serialised[e] # Thrown
                                       /\ r = Response("SOIL", request.id, serialised[e], "ONE")
  BY <1>1, <1>2, SeeFinds
<1> QED BY <1>7, <1>8, <1>9 DEF r, request

\* The same of all soil and of the territory.
LEMMA TerrainMet ==
    ASSUME soils \in SoilOrders, NEW call, NEW id
    PROVE  /\ call.op = "see_all_soils" =>
                  LET r == SeeAllSoils(RequestAllSoils(id)) IN r = Thrown \/ (r.id = id /\ Meets(call, soils, r))
           /\ call.op = "see_territory" =>
                  LET r == SeeTerritory(RequestTerritory(id)) IN r.id = id /\ Meets(call, soils, r)
<1>1. ASSUME call.op = "see_all_soils"
      PROVE  LET r == SeeAllSoils(RequestAllSoils(id)) IN r = Thrown \/ (r.id = id /\ Meets(call, soils, r))
  <2> DEFINE request == RequestAllSoils(id)
             payload == SerializeList([i \in DOMAIN soils |-> SerializeSoil(soils[i])], SoilSize)
             r == SeeAllSoils(request)
  <2>1. r = IF payload = Thrown THEN Thrown ELSE Response("SOIL", request.id, payload, "ALL")
    BY Zenon DEF SeeAllSoils
  <2>2. request.id = id /\ Wanted(call, soils) = {soils} /\ call.op # "see_creature"
    <3>1. Wanted(call, soils) = {soils}
      BY <1>1, Zenon DEF Wanted
    <3> QED BY <1>1, <3>1 DEF RequestAllSoils, Request
  <2>3. Decode(call, r) = IF r.sub = "NONE" THEN Nothing ELSE ReadAllSoils(r.payload)
    BY <1>1, Zenon DEF Decode
  <2>4. payload # Thrown => ReadAllSoils(payload) = soils
    <3> DEFINE S == ToSet(soils)
    <3>1. soils \in Seq(S) /\ \A i \in 1..Len(soils) : PieceOfSoil(soils[i])
      BY PiecesOfSoil
    <3> HIDE DEF S
    <3> QED BY <3>1, SoilsRead, Zenon
  <2> HIDE DEF r, request, payload
  <2>5. CASE payload # Thrown
    <3>1. r.sub = "SOIL" /\ r.id = id /\ r.payload = payload
      BY <2>1, <2>2, <2>5, ResponseParts
    <3>2. Decode(call, r) = soils
      BY <2>3, <2>4, <2>5, <3>1
    <3> QED BY <2>2, <3>1, <3>2, MetBy DEF r, request
  <2> QED BY <2>1, <2>5 DEF r, request
<1>2. ASSUME call.op = "see_territory"
      PROVE  LET r == SeeTerritory(RequestTerritory(id)) IN r.id = id /\ Meets(call, soils, r)
  <2> DEFINE request == RequestTerritory(id)
             payload == SerializeTerritory(Territory)
             r == SeeTerritory(request)
  <2>1. r = Response("TERRITORY", request.id, payload, "ONE")
    BY Zenon DEF SeeTerritory
  <2>2. request.id = id /\ Wanted(call, soils) = {Territory} /\ call.op # "see_creature"
    <3>1. Wanted(call, soils) = {Territory}
      BY <1>2, Zenon DEF Wanted
    <3> QED BY <1>2, <3>1 DEF RequestTerritory, Request
  <2>3. Decode(call, r) = IF r.sub = "NONE" THEN Nothing ELSE ReadTerritory(r.payload, 0)
    BY <1>2, Zenon DEF Decode
  <2> HIDE DEF r, request, payload
  <2>4. r.sub = "TERRITORY" /\ r.id = id /\ r.payload = payload
    BY <2>1, <2>2, ResponseParts
  <2>5. Decode(call, r) = Territory
    BY <2>3, <2>4, TerritoryRead DEF payload
  <2> QED BY <2>2, <2>4, <2>5, MetBy DEF r, request
<1> QED BY <1>1, <1>2

\* The blueprint that arrives of a call: its name never does.
BlueprintOf(call) == [gender |-> call.gender, specie |-> call.specie, position |-> call.position, name |-> Nothing]

\* What the processor makes of the request a call becomes: an exception, or the response the
\* call is for; and a creature made is the one the call describes.
ServedWell(call, id, request, r) ==
    /\ r = Thrown \/ (r.id = id /\ Meets(call, soils, r))
    /\ (request.sub = "CREATE" /\ r # Thrown) =>
           call.op = "make_creature" /\ ReadCreate(request.payload) = BlueprintOf(call)

\* A creature is made of what the call says.
LEMMA BirthServed ==
    ASSUME NEW call \in Calls, call.op = "make_creature", NEW id, NEW held \in Held, NEW added
    PROVE  ServedWell(call, id, RequestBirth(call, id, held), CreateCreature(RequestBirth(call, id, held), added))
<1> DEFINE request == RequestBirth(call, id, held)
           payload == MakeCreate(call.gender, call.specie, call.position, call.name, held)
           r == CreateCreature(request, added)
<1>1. request.id = id /\ request.payload = payload
  BY DEF RequestBirth, Request
<1>2. /\ call.gender = Nothing \/ call.gender \in DOMAIN GenderByte
      /\ call.specie = Nothing \/ call.specie \in DOMAIN SpecieValue
      /\ call.position = Nothing \/ call.position \in Numbers \X Numbers
      /\ call.name = Nothing \/ (call.name \in Bytes /\ 22 + Len(call.name) <= CreateSize)
  BY CallsAssumption
<1>3. held \in Byte
  BY HeldAssumption
<1>4. ReadCreate(payload) \in {Thrown, BlueprintOf(call)}
  BY <1>2, <1>3, CreateRead DEF BlueprintOf
<1>5. r = IF ReadCreate(request.payload) \in {Thrown, Outside} \/ ~added THEN Thrown
          ELSE Response("NONE", request.id, <<>>, "ONE")
  BY Zenon DEF CreateCreature
<1> HIDE DEF request, payload, r
<1>6. CASE r = Thrown
  BY <1>6 DEF ServedWell, r, request
<1>7. CASE r # Thrown
  <2>1. r = Response("NONE", request.id, <<>>, "ONE") /\ ReadCreate(payload) # Thrown
    BY <1>1, <1>5, <1>7
  <2>2. r.sub = "NONE" /\ r.id = id
    BY <1>1, <2>1, ResponseParts
  <2>3. Decode(call, r) = Nothing
    BY <2>2, Zenon DEF Decode
  <2>4. Wanted(call, soils) = {}
    BY Zenon DEF Wanted
  <2>5. Meets(call, soils, r)
    BY <2>3, <2>4, MetBy
  <2>6. ReadCreate(request.payload) = BlueprintOf(call)
    BY <1>1, <1>4, <2>1
  <2>7. ServedWell(call, id, request, r)
    BY <2>2, <2>5, <2>6 DEF ServedWell
  <2> QED BY <2>7 DEF r, request
<1> QED BY <1>6, <1>7

\* The request of a call is processed to the response the call is for.
LEMMA CallServed ==
    ASSUME soils \in SoilOrders, NEW call \in Calls, NEW id, NEW held \in Held, NEW added
    PROVE  ServedWell(call, id, BuildRequest(call, id, held), Process(BuildRequest(call, id, held), added))
<1> DEFINE request == BuildRequest(call, id, held)
           r == Process(request, added)
<1>0. r = Process(request, added)
  OBVIOUS
<1>2. ASSUME call.op = "see_creature" /\ call.id \in IdNumbers PROVE ServedWell(call, id, request, r)
  <2> DEFINE q == RequestCreature(call, id)
  <2>1. request = q
    BY <1>2, Zenon DEF BuildRequest
  <2>2. q.sub = "SEE" /\ q.resource = "CREATURE"
    BY DEF RequestCreature, Request
  <2> HIDE DEF q, request, r
  <2>3. Process(q, added) = SeeCreature(q)
    BY <2>2, Zenon DEF Process
  <2>4. SeeCreature(q) = Thrown \/ (SeeCreature(q).id = id /\ Meets(call, soils, SeeCreature(q)))
    BY <1>2, CreatureMet DEF q
  <2> QED BY <1>0, <2>1, <2>2, <2>3, <2>4 DEF ServedWell
<1>3. ASSUME call.op = "see_corpse" /\ call.id \in IdNumbers PROVE ServedWell(call, id, request, r)
  <2> DEFINE q == RequestCorpse(call, id)
  <2>1. request = q
    BY <1>3, Zenon DEF BuildRequest
  <2>2. q.sub = "SEE" /\ q.resource = "CORPSE"
    BY DEF RequestCorpse, Request
  <2> HIDE DEF q, request, r
  <2>3. Process(q, added) = SeeCorpse(q)
    BY <2>2, Zenon DEF Process
  <2>4. SeeCorpse(q) = Thrown \/ (SeeCorpse(q).id = id /\ Meets(call, soils, SeeCorpse(q)))
    BY <1>3, CorpseMet DEF q
  <2> QED BY <1>0, <2>1, <2>2, <2>3, <2>4 DEF ServedWell
<1>4. ASSUME call.op = "see_soil" /\ call.id \in IdNumbers PROVE ServedWell(call, id, request, r)
  <2> DEFINE q == RequestSoil(call, id)
  <2>1. request = q
    BY <1>4, Zenon DEF BuildRequest
  <2>2. q.sub = "SEE" /\ q.resource = "SOIL" /\ q.target = "ONE"
    BY DEF RequestSoil, Request
  <2> HIDE DEF q, request, r
  <2>3. Process(q, added) = SeeSoil(q)
    BY <2>2, Zenon DEF Process
  <2>4. SeeSoil(q) = Thrown \/ (SeeSoil(q).id = id /\ Meets(call, soils, SeeSoil(q)))
    BY <1>4, SoilMet DEF q
  <2> QED BY <1>0, <2>1, <2>2, <2>3, <2>4 DEF ServedWell
<1>5. ASSUME call.op = "see_all_soils" PROVE ServedWell(call, id, request, r)
  <2> DEFINE q == RequestAllSoils(id)
  <2>1. request = q
    BY <1>5, Zenon DEF BuildRequest
  <2>2. q.sub = "SEE" /\ q.resource = "SOIL" /\ q.target # "ONE"
    BY DEF RequestAllSoils, Request
  <2> HIDE DEF q, request, r
  <2>3. Process(q, added) = SeeAllSoils(q)
    BY <2>2, Zenon DEF Process
  <2>4. SeeAllSoils(q) = Thrown \/ (SeeAllSoils(q).id = id /\ Meets(call, soils, SeeAllSoils(q)))
    BY <1>5, TerrainMet DEF q
  <2> QED BY <1>0, <2>1, <2>2, <2>3, <2>4 DEF ServedWell
<1>6. ASSUME call.op = "see_territory" PROVE ServedWell(call, id, request, r)
  <2> DEFINE q == RequestTerritory(id)
  <2>1. request = q
    BY <1>6, Zenon DEF BuildRequest
  <2>2. q.sub = "SEE" /\ q.resource = "TERRITORY"
    BY DEF RequestTerritory, Request
  <2> HIDE DEF q, request, r
  <2>3. Process(q, added) = SeeTerritory(q)
    BY <2>2, Zenon DEF Process
  <2>4. SeeTerritory(q) = Thrown \/ (SeeTerritory(q).id = id /\ Meets(call, soils, SeeTerritory(q)))
    BY <1>6, TerrainMet DEF q
  <2> QED BY <1>0, <2>1, <2>2, <2>3, <2>4 DEF ServedWell
<1>7. ASSUME call.op = "make_creature" PROVE ServedWell(call, id, request, r)
  <2> DEFINE q == RequestBirth(call, id, held)
  <2>1. request = q
    BY <1>7, Zenon DEF BuildRequest
  <2>2. q.sub = "CREATE" /\ q.resource = "CREATURE"
    BY DEF RequestBirth, Request
  <2>4. ServedWell(call, id, q, CreateCreature(q, added))
    BY <1>7, BirthServed
  <2> HIDE DEF q, request, r
  <2>3. Process(q, added) = CreateCreature(q, added)
    BY <2>2, Zenon DEF Process
  <2> QED BY <1>0, <2>1, <2>3, <2>4
<1>8. \/ call.op = "see_creature" /\ call.id \in IdNumbers
      \/ call.op = "see_corpse" /\ call.id \in IdNumbers
      \/ call.op = "see_soil" /\ call.id \in IdNumbers
      \/ call.op = "see_all_soils" \/ call.op = "see_territory" \/ call.op = "make_creature"
  BY CallsAssumption
<1> QED BY <1>2, <1>3, <1>4, <1>5, <1>6, <1>7, <1>8

-----------------------------------------------------------------------------
(* Serving the frames of a chunk. *)

\* What the server writes.
Answers == {f \in ResponseFrames : WritableResponse(f)}

\* The answers to these calls: each bears the id of one, and that one's caller gets from it
\* what there is of it among these pieces of soil and the entities.
Meant(calls, pieces) == {r \in Answers : r.id \in 1..Len(calls) /\ Meets(calls[r.id], pieces, r)}

\* The blueprints of these calls.
Blueprints(calls) == {BlueprintOf(calls[j]) : j \in {k \in 1..Len(calls) : calls[k].op = "make_creature"}}

\* The requests of the calls, as the client wrote them.
Asked(reqs, calls) ==
    /\ reqs \in Seq(Frames) /\ Len(reqs) = Len(calls)
    /\ \A i \in 1..Len(reqs) : WritableRequest(reqs[i]) /\ Len(RawBytes(reqs[i])) <= IdEnd + 2 + CreateSize
    /\ \A i \in 1..Len(reqs) : \E held \in Held : reqs[i] = BuildRequest(calls[i], i, held)

\* The session while it serves: what is served is the beginning of what was asked,
\* n requests of it unless an exception stopped it; what is queued answers the calls,
\* and creatures were made as they say.
Serving(state, calls, reqs, n) ==
    /\ state.served \in Seq(Frames) /\ Len(state.served) <= n
    /\ \A i \in 1..Len(state.served) : state.served[i] = reqs[i]
    /\ state.up \in BOOLEAN /\ (state.up => Len(state.served) = n)
    /\ state.queue \in Seq(Meant(calls, soils)) /\ state.created \in Seq(Blueprints(calls))

\* Serving the next request.
LEMMA ServeStepIs ==
    ASSUME soils \in SoilOrders, NEW state, NEW calls \in Seq(Calls), NEW reqs, Asked(reqs, calls),
           NEW n \in Nat, n < Len(reqs), Serving(state, calls, reqs, n), NEW added \in BOOLEAN
    PROVE  Serving(ServeStep(state, RawBytes(reqs[n + 1]), added), calls, reqs, n + 1)
<1> DEFINE id == n + 1
           request == reqs[id]
           response == Process(request, added)
           end == Served(state, request, response)
           M == Meant(calls, soils)
           B == Blueprints(calls)
<1>1. /\ state.served \in Seq(Frames) /\ Len(state.served) <= n
      /\ \A i \in 1..Len(state.served) : state.served[i] = reqs[i]
      /\ state.up \in BOOLEAN /\ (state.up => Len(state.served) = n)
      /\ state.queue \in Seq(M) /\ state.created \in Seq(B)
  BY DEF Serving
<1>2. /\ Len(state.served) \in Nat /\ id \in Nat /\ id \in 1..Len(calls) /\ calls[id] \in Calls
      /\ request \in Frames /\ WritableRequest(request)
      /\ \E held \in Held : request = BuildRequest(calls[id], id, held)
  BY <1>1 DEF Asked
<1>3. ServedWell(calls[id], id, request, response)
  <2>1. PICK held \in Held : request = BuildRequest(calls[id], id, held)
    BY <1>2
  <2> QED BY <1>2, <2>1, CallServed
<1> HIDE DEF M, B
<1>4. CASE ~ state.up
  <2>1. ServeStep(state, RawBytes(request), added) = state
    BY <1>4, Zenon DEF ServeStep
  <2>2. Len(state.served) <= n + 1
    BY <1>1, <1>2
  <2>3. Serving(state, calls, reqs, n + 1)
    BY <1>1, <1>4, <2>2, Zenon DEF Serving, M, B
  <2> QED BY <2>1, <2>3
<1>5. CASE state.up
  <2>1. ParseRequest(RawBytes(request)) = request /\ request # Thrown
    BY <1>2, RequestParsed
  <2>2. ServeStep(state, RawBytes(request), added) = end
    BY <1>5, <2>1, Zenon DEF ServeStep, Serve
  <2>3. response = Thrown \/ response \in M
    <3>1. response = Thrown \/ response \in Answers
      BY <1>2, ProcessIs DEF Answerable, Answers, WritableResponse
    <3>2. response = Thrown \/ (response.id = id /\ Meets(calls[id], soils, response))
      BY <1>3, Zenon DEF ServedWell
    <3> HIDE DEF response, id
    <3> QED BY <1>2, <3>1, <3>2 DEF Meant, M
  <2>4. request.sub = "CREATE" /\ response # Thrown => ReadCreate(request.payload) \in B
    <3>1. request.sub = "CREATE" /\ response # Thrown =>
              calls[id].op = "make_creature" /\ ReadCreate(request.payload) = BlueprintOf(calls[id])
      BY <1>3, Zenon DEF ServedWell
    <3> HIDE DEF response, id, request
    <3> QED BY <1>2, <3>1 DEF Blueprints, B
  <2> HIDE DEF response
  <2>5. /\ end.up = (response # Thrown) /\ end.served = Append(state.served, request)
        /\ end.queue = state.queue \/ (response # Thrown /\ end.queue = Append(state.queue, response))
        /\ \/ end.created = state.created
           \/ /\ request.sub = "CREATE" /\ response # Thrown
              /\ end.created = Append(state.created, ReadCreate(request.payload))
    BY <2>1 DEF Served
  <2> HIDE DEF request, end
  <2>6. end.served \in Seq(Frames) /\ Len(end.served) = n + 1
    BY <1>1, <1>2, <1>5, <2>5
  <2>7. ASSUME NEW i \in 1..(n + 1) PROVE end.served[i] = reqs[i]
    <3>1. CASE i = n + 1
      BY <1>1, <1>2, <1>5, <2>5, <3>1 DEF request
    <3>2. CASE i # n + 1
      <4>1. i \in 1..Len(state.served)
        BY <1>1, <1>5, <2>7, <3>2
      <4>2. end.served[i] = state.served[i]
        BY <1>1, <1>2, <2>5, <4>1
      <4> QED BY <1>1, <4>1, <4>2
    <3> QED BY <3>1, <3>2
  <2>8. end.queue \in Seq(M)
    <3>1. ASSUME response # Thrown PROVE Append(state.queue, response) \in Seq(M)
      BY <1>1, <2>3, <3>1
    <3> QED BY <1>1, <2>5, <3>1, Zenon
  <2>9. end.created \in Seq(B)
    <3> DEFINE made == ReadCreate(request.payload)
    <3> HIDE DEF made
    <3>1. ASSUME request.sub = "CREATE", response # Thrown PROVE Append(state.created, made) \in Seq(B)
      <4>1. made \in B
        BY <2>4, <3>1 DEF made
      <4> QED BY <1>1, <4>1
    <3> QED BY <1>1, <2>5, <3>1, Zenon DEF made
  <2>10. end.up \in BOOLEAN /\ n + 1 <= n + 1
    BY <1>2, <2>5
  <2>11. Serving(end, calls, reqs, n + 1)
    BY <2>6, <2>7, <2>8, <2>9, <2>10, Zenon DEF Serving, M, B
  <2> QED BY <2>2, <2>11 DEF request
<1> QED BY <1>1, <1>4, <1>5

\* What serving begins with.
Starts == [up |-> TRUE, served |-> served, queue |-> responses, unqueued |-> unqueued, created |-> created]

\* g serves one frame after another.
Serves(g, start, frames, added) ==
    /\ g[0] = start
    /\ \A k \in Nat : k < Len(frames) => g[k + 1] = ServeStep(g[k], frames[k + 1], added)

\* The recursive function of ServerServes exists.
LEMMA ServingRecurs ==
    ASSUME NEW taken, taken.frames \in Seq(Bytes), NEW added, ServerServes(taken, added)
    PROVE  \E g : Serves(g, Starts, taken.frames, added) /\ ServerBecomes(taken, g[Len(taken.frames)])
<1> DEFINE n == Len(taken.frames)
           Serve1(h, k) == ServeStep(h[k - 1], taken.frames[k], added)
           E(h, m) == [k \in 0..m |-> IF k = 0 THEN Starts ELSE Serve1(h, k)]
           T == {m \in Nat : \E h : h = E(h, m)}
           after == CHOOSE h : h = E(h, n)
<1>0. n \in Nat
  OBVIOUS
<1> HIDE DEF n
<1>1. 0 \in T
  <2> DEFINE f == [k \in 0..0 |-> Starts]
  <2>1. f = E(f, 0)
    OBVIOUS
  <2> HIDE DEF f, E
  <2> QED BY <2>1
<1>2. ASSUME NEW m \in T PROVE m + 1 \in T
  <2>1. m \in Nat /\ m + 1 \in Nat
    OBVIOUS
  <2>2. PICK f : f = E(f, m)
    OBVIOUS
  <2> DEFINE x == ServeStep(f[m], taken.frames[m + 1], added)
             g == [k \in 0..(m + 1) |-> IF k = m + 1 THEN x ELSE f[k]]
  <2>3. \A k \in 0..m : f[k] = IF k = 0 THEN Starts ELSE ServeStep(f[k - 1], taken.frames[k], added)
    BY <2>2
  <2>4. ASSUME NEW k \in 0..(m + 1)
        PROVE  g[k] = IF k = 0 THEN Starts ELSE ServeStep(g[k - 1], taken.frames[k], added)
    <3> HIDE DEF x
    <3>1. CASE k = m + 1
      <4>1. k # 0 /\ k - 1 = m /\ m \in 0..(m + 1) /\ m # m + 1
        BY <2>1, <3>1
      <4>2. g[k] = x /\ g[k - 1] = f[m]
        BY <3>1, <4>1
      <4>3. x = ServeStep(f[m], taken.frames[k], added)
        BY <3>1, Zenon DEF x
      <4> QED BY <4>1, <4>2, <4>3
    <3>2. CASE k # m + 1 /\ k = 0
      BY <2>1, <2>3, <3>2
    <3>3. CASE k # m + 1 /\ k # 0
      <4>1. k \in 0..m /\ k - 1 \in 0..(m + 1) /\ k - 1 # m + 1
        BY <2>1, <3>3
      <4>2. g[k] = f[k] /\ g[k - 1] = f[k - 1]
        BY <3>3, <4>1
      <4> QED BY <2>3, <3>3, <4>1, <4>2
    <3> QED BY <3>1, <3>2, <3>3
  <2>5. g = E(g, m + 1)
    <3>1. g = [k \in 0..(m + 1) |-> g[k]]
      OBVIOUS
    <3> HIDE DEF g
    <3> QED BY <2>4, <3>1
  <2> HIDE DEF g, E
  <2> QED BY <2>1, <2>5
<1>3. after = E(after, n)
  <2>1. T = Nat
    <3>1. T \in SUBSET Nat
      OBVIOUS
    <3> HIDE DEF T
    <3> QED BY <1>1, <1>2, <3>1, NaturalInduction
  <2>2. \E f : f = E(f, n)
    <3>1. n \in T
      BY <1>0, <2>1
    <3> HIDE DEF E
    <3> QED BY <3>1
  <2> HIDE DEF E
  <2> QED BY <2>2
<1>4. ServerBecomes(taken, after[n])
  BY Zenon DEF ServerServes, Starts, n
<1>5. \A k \in 0..n : after[k] = IF k = 0 THEN Starts ELSE ServeStep(after[k - 1], taken.frames[k], added)
  <2> DEFINE t == after
  <2>1. t = E(t, n)
    BY <1>3
  <2> HIDE DEF t
  <2>2. \A k \in 0..n : t[k] = IF k = 0 THEN Starts ELSE ServeStep(t[k - 1], taken.frames[k], added)
    BY <2>1
  <2> QED BY <2>2 DEF t
<1> HIDE DEF after
<1>6. after[0] = Starts
  BY <1>0, <1>5
<1>7. ASSUME NEW k \in Nat, k < n PROVE after[k + 1] = ServeStep(after[k], taken.frames[k + 1], added)
  <2>1. k + 1 \in 0..n /\ k + 1 # 0 /\ (k + 1) - 1 = k
    BY <1>0, <1>7
  <2> QED BY <1>5, <2>1
<1> QED BY <1>4, <1>6, <1>7 DEF Serves, n

\* Serving the frames taken off the buffer, which are the requests behind the
\* m-th up to the p-th.
LEMMA ServerServesIs ==
    ASSUME soils \in SoilOrders, NEW taken, NEW beyond, NEW calls \in Seq(Calls), NEW reqs, Asked(reqs, calls),
           NEW m, NEW p, Took(taken, beyond, reqs, m, p), NEW added \in BOOLEAN, ServerServes(taken, added),
           Serving(Starts, calls, reqs, m)
    PROVE  \E end : ServerBecomes(taken, end) /\ Serving(end, calls, reqs, p)
<1> DEFINE frames == taken.frames
           n == Len(frames)
<1>1. /\ m \in Nat /\ p \in Nat /\ m <= p /\ p <= Len(reqs) /\ frames \in Seq(Bytes) /\ n = p - m
      /\ \A i \in 1..(p - m) : frames[i] = RawBytes(reqs[m + i])
  BY DEF Took
<1>2. n \in Nat /\ Len(reqs) \in Nat
  BY <1>1 DEF Asked
<1>3. PICK g : Serves(g, Starts, frames, added) /\ ServerBecomes(taken, g[n])
  BY <1>1, ServingRecurs
<1>4. g[0] = Starts /\ \A k \in Nat : k < n => g[k + 1] = ServeStep(g[k], frames[k + 1], added)
  BY <1>3 DEF Serves
<1> HIDE DEF frames, n
<1> DEFINE T == {k \in Nat : k <= n => Serving(g[k], calls, reqs, m + k)}
<1>5. 0 \in T
  <2>1. m + 0 = m
    BY <1>1
  <2> QED BY <1>4, <2>1
<1>6. ASSUME NEW k \in T PROVE k + 1 \in T
  <2>1. k \in Nat /\ k + 1 \in Nat
    OBVIOUS
  <2>2. ASSUME k + 1 <= n PROVE Serving(g[k + 1], calls, reqs, m + (k + 1))
    <3>1. /\ k < n /\ k <= n /\ k + 1 \in 1..(p - m) /\ m + k \in Nat /\ m + k < Len(reqs)
          /\ m + (k + 1) = (m + k) + 1 /\ (m + k) + 1 \in 1..Len(reqs)
      BY <1>1, <1>2, <2>1, <2>2
    <3>2. Serving(g[k], calls, reqs, m + k)
      BY <3>1
    <3> HIDE DEF T
    <3>3. frames[k + 1] = RawBytes(reqs[(m + k) + 1])
      BY <1>1, <3>1
    <3>4. g[k + 1] = ServeStep(g[k], RawBytes(reqs[(m + k) + 1]), added)
      BY <1>4, <2>1, <3>1, <3>3
    <3>5. Serving(ServeStep(g[k], RawBytes(reqs[(m + k) + 1]), added), calls, reqs, (m + k) + 1)
      BY <3>1, <3>2, ServeStepIs
    <3> QED BY <3>1, <3>4, <3>5
  <2> QED BY <2>1, <2>2
<1>7. n \in T
  <2>1. T \in SUBSET Nat
    OBVIOUS
  <2> HIDE DEF T
  <2>2. T = Nat
    BY <1>5, <1>6, <2>1, NaturalInduction
  <2> QED BY <1>2, <2>2
<1>8. Serving(g[n], calls, reqs, p)
  <2>1. n <= n /\ m + n = p
    BY <1>1, <1>2
  <2> QED BY <1>7, <2>1
<1> QED BY <1>3, <1>8

-----------------------------------------------------------------------------
(* The bytes on their way from one side to the other. *)

\* The buffer holds a piece of the frame behind the m-th, or nothing when there is none.
PieceOf(buffer, fs, m) ==
    /\ m = Len(fs) => buffer = <<>>
    /\ m # Len(fs) => Len(buffer) < Len(RawBytes(fs[m + 1]))

\* The frames behind the m-th are in the buffer and on the way to it.
OnTheWay(buffer, way, fs, m) ==
    buffer \in Bytes /\ way \in Bytes /\ Lined(buffer \o way, fs, m) /\ PieceOf(buffer, fs, m)

\* A new connection.
LEMMA NothingOnTheWay == OnTheWay(<<>>, <<>>, <<>>, 0)
<1> DEFINE e == <<>>
           fs == <<>>
<1>1. e \in Bytes /\ Len(fs) = 0 /\ fs \in Seq(Frames) /\ e \o e = e
  BY ByteAlone
<1> HIDE DEF fs
<1>2. Lined(e, fs, Len(fs))
  BY <1>1, LineEnds
<1> HIDE DEF e
<1>3. PieceOf(e, fs, 0)
  BY <1>1 DEF PieceOf, e
<1>4. OnTheWay(e, e, fs, 0)
  BY <1>1, <1>2, <1>3 DEF OnTheWay
<1> QED BY <1>4 DEF e, fs

\* A frame is written behind the others.
LEMMA FrameLeaves ==
    ASSUME NEW buffer, NEW way, NEW fs, NEW m, OnTheWay(buffer, way, fs, m), NEW f \in Frames
    PROVE  OnTheWay(buffer, way \o RawBytes(f), Append(fs, f), m)
<1> DEFINE raw == RawBytes(f)
           gs == Append(fs, f)
           all == buffer \o way
<1>1. buffer \in Bytes /\ way \in Bytes /\ Lined(all, fs, m) /\ PieceOf(buffer, fs, m)
  BY DEF OnTheWay
<1>2. fs \in Seq(Frames) /\ m \in Nat /\ m <= Len(fs) /\ Len(fs) \in Nat
  BY <1>1 DEF Lined
<1>3. raw \in Bytes /\ Len(raw) \in Nat /\ Len(raw) >= 15
  BY RawIs
<1>4. Lined(all \o raw, gs, m)
  BY <1>1, LineGrows
<1>5. all \o raw = buffer \o (way \o raw)
  BY <1>1, <1>3, ConcatAssociative, SMTT(40) DEF Bytes
<1>6. way \o raw \in Bytes
  BY <1>1, <1>3, JoinLength
<1>7. Len(gs) = Len(fs) + 1 /\ gs[Len(fs) + 1] = f /\ \A i \in 1..Len(fs) : gs[i] = fs[i]
  BY <1>2
<1> HIDE DEF gs
<1>8. PieceOf(buffer, gs, m)
  <2>1. m # Len(gs)
    BY <1>2, <1>7
  <2>2. CASE m = Len(fs)
    <3>1. buffer = <<>>
      BY <1>1, <2>2 DEF PieceOf
    <3>2. Len(buffer) = 0
      BY <3>1
    <3>3. gs[m + 1] = f
      BY <1>7, <2>2
    <3>4. Len(buffer) < Len(raw)
      BY <1>3, <3>2
    <3> QED BY <2>1, <3>3, <3>4 DEF PieceOf
  <2>3. CASE m # Len(fs)
    <3>1. m + 1 \in 1..Len(fs)
      BY <1>2, <2>3
    <3>2. gs[m + 1] = fs[m + 1]
      BY <1>7, <3>1
    <3> QED BY <1>1, <2>1, <2>3, <3>2 DEF PieceOf
  <2> QED BY <2>2, <2>3
<1>9. Lined(buffer \o (way \o raw), gs, m)
  BY <1>4, <1>5
<1> HIDE DEF raw, all
<1>10. OnTheWay(buffer, way \o raw, gs, m)
  BY <1>1, <1>6, <1>8, <1>9 DEF OnTheWay
<1> QED BY <1>10 DEF raw, gs

\* A chunk arrives: the frames that are whole are taken off the buffer.
LEMMA ChunkArrives ==
    ASSUME NEW buffer, NEW way, NEW fs, NEW m, OnTheWay(buffer, way, fs, m), NEW n \in Nat, n <= Len(way)
    PROVE  LET chunk == SubSeq(way, 1, n)
               left  == SubSeq(way, n + 1, Len(way))
               taken == TakeFrames(buffer \o chunk)
           IN  \E p : Took(taken, left, fs, m, p) /\ OnTheWay(taken.rest, left, fs, p)
<1> DEFINE chunk == SubSeq(way, 1, n)
           left == SubSeq(way, n + 1, Len(way))
           taken == TakeFrames(buffer \o chunk)
<1>1. buffer \in Bytes /\ way \in Bytes /\ Lined(buffer \o way, fs, m)
  BY DEF OnTheWay
<1>2. Len(way) \in Nat /\ way \in Seq(Byte)
  BY <1>1, SMTT(40) DEF Bytes
<1>3. chunk \o left = way
  <2>1. /\ 1 \in 1..(Len(way) + 1) /\ n \in (1 - 1)..Len(way) /\ Len(way) \in n..Len(way)
    BY <1>2
  <2>2. chunk \o left = SubSeq(way, 1, Len(way))
    BY <1>2, <2>1, ConcatAdjacentSubSeq
  <2> HIDE DEF chunk, left
  <2>3. SubSeq(way, 1, Len(way)) = way
    BY <1>2, SubSeqFull
  <2> QED BY <2>2, <2>3, ZenonT(90)
<1>4. chunk \in Bytes /\ left \in Bytes
  <2>1. chunk \in Seq(Byte)
    BY <1>2, SubSeqProperties
  <2>2. left \in Seq(Byte)
    BY <1>2, SubSeqProperties
  <2> QED BY <2>1, <2>2 DEF Bytes
<1> HIDE DEF chunk, left
<1>5. (buffer \o chunk) \o left = buffer \o way
  <2>1. buffer \in Seq(Byte) /\ chunk \in Seq(Byte) /\ left \in Seq(Byte)
    BY <1>1, <1>4 DEF Bytes
  <2>2. (buffer \o chunk) \o left = buffer \o (chunk \o left)
    BY <2>1, ConcatAssociative, SMTT(40)
  <2> QED BY <1>3, <2>2, Zenon
<1>6. buffer \o chunk \in Bytes
  BY <1>1, <1>4, JoinLength
<1>7. Lined((buffer \o chunk) \o left, fs, m)
  BY <1>1, <1>5
<1>8. PICK p : Took(taken, left, fs, m, p)
  BY <1>4, <1>6, <1>7, FramesTaken
<1> HIDE DEF taken
<1>9. OnTheWay(taken.rest, left, fs, p)
  BY <1>4, <1>8 DEF Took, OnTheWay, PieceOf
<1> QED BY <1>8, <1>9 DEF chunk, left, taken

\* A chunk does not fit only behind a frame that leaves no room for one.
LEMMA NoRoomMeans ==
    ASSUME NEW buffer, NEW way, NEW fs, NEW m, OnTheWay(buffer, way, fs, m),
           NEW size \in ChunkSizes, NEW n \in Nat, n <= Len(way), n <= size, Overflows(buffer, SubSeq(way, 1, n))
    PROVE  m + 1 \in 1..Len(fs) /\ Len(RawBytes(fs[m + 1])) + size > Capacity
<1> DEFINE chunk == SubSeq(way, 1, n)
           b == Len(buffer)
           r == Len(RawBytes(fs[m + 1]))
<1>1. /\ buffer \in Bytes /\ way \in Bytes /\ m \in Nat /\ m <= Len(fs) /\ fs \in Seq(Frames)
      /\ m = Len(fs) => buffer = <<>>
      /\ m # Len(fs) => b < r
  BY DEF OnTheWay, Lined, PieceOf
<1>2. b \in Nat /\ Len(way) \in Nat /\ Len(fs) \in Nat /\ way \in Seq(Byte)
  BY <1>1 DEF Bytes
<1>3. Capacity \in Nat /\ size \in Nat /\ size <= Capacity
  BY ChunksAssumption
<1>4. Len(chunk) = n
  <2>1. CASE n = 0
    BY <2>1, SubSeqEmpty
  <2>2. CASE n # 0
    BY <1>2, <2>2, SubSeqProperties
  <2> QED BY <2>1, <2>2
<1>5. b + n > Capacity
  BY <1>4 DEF Overflows
<1>6. m # Len(fs)
  <2>1. ASSUME m = Len(fs) PROVE b = 0
    <3>1. buffer = <<>>
      BY <1>1, <2>1
    <3> QED BY <3>1
  <2> HIDE DEF b
  <2> QED BY <1>2, <1>3, <1>5, <2>1
<1>7. m + 1 \in 1..Len(fs)
  BY <1>1, <1>2, <1>6
<1>8. r \in Nat
  <2>1. fs[m + 1] \in Frames
    BY <1>1, <1>7
  <2> QED BY <2>1, RawIs
<1>9. b < r
  BY <1>1, <1>6
<1> HIDE DEF b, r
<1>10. r + size > Capacity
  BY <1>2, <1>3, <1>5, <1>8, <1>9
<1> QED BY <1>7, <1>10 DEF r

-----------------------------------------------------------------------------
(* The inductive invariant. *)

\* The requests that were served, and those on the way as long as the server runs.
RequestsFlow(reqs, done, up, buffer, way) ==
    /\ done \in Seq(Frames) /\ Len(done) <= Len(reqs)
    /\ \A i \in 1..Len(done) : done[i] = reqs[i]
    /\ up => OnTheWay(buffer, way, reqs, Len(done))

\* The responses that were parsed, and those on the way.
AnswersFlow(written, got, reads, buffer, way) ==
    /\ reads = TRUE
    /\ got \in Seq(Answers)
    /\ \A i \in 1..Len(got) : got[i] = written[i]
    /\ OnTheWay(buffer, way, written, Len(got))

\* A response that leaves no room for a chunk was written.
Crowded(written) ==
    \E i \in 1..Len(written) :
        \A n \in ChunkSizes : (\A m \in ChunkSizes : m <= n) => Len(RawBytes(written[i])) + n > Capacity

\* What the variables hold.
Kept ==
    /\ soils \in SoilOrders /\ connects \in Nat /\ connects # 0
    /\ sent \in Seq(Calls) /\ Len(sent) <= MaxSent
    /\ serverUp \in BOOLEAN /\ stale \in BOOLEAN
    /\ responses \in Seq(Meant(sent, soils)) /\ answered \in Seq(Meant(sent, soils))
    /\ created \in Seq(Blueprints(sent))

RequestsInv == \E reqs : Asked(reqs, sent) /\ RequestsFlow(reqs, served, serverUp, requestBuffer, toServer)

AnswersInv == stale \/ AnswersFlow(answered, collected, clientReads, responseBuffer, toClient)

StaleInv == (stale /\ connects = 1) => Crowded(answered)

IInv == Kept /\ RequestsInv /\ AnswersInv /\ StaleInv

\* What is written is made of frames.
LEMMA AnswersAreFrames == ASSUME NEW s \in Seq(Answers) PROVE s \in Seq(Frames)
<1>1. Answers \subseteq Frames
  BY DEF Answers, Frames
<1>2. Len(s) \in Nat /\ DOMAIN s = 1..Len(s) /\ (\A i \in 1..Len(s) : s[i] \in Frames) /\ s = [i \in 1..Len(s) |-> s[i]]
  BY <1>1
<1> QED BY <1>2

\* A sequence of some elements is one of more.
LEMMA SeqGrows == ASSUME NEW S, NEW T, S \subseteq T, NEW s \in Seq(S) PROVE s \in Seq(T)
<1>1. Len(s) \in Nat /\ (\A i \in 1..Len(s) : s[i] \in T) /\ s = [i \in 1..Len(s) |-> s[i]]
  OBVIOUS
<1> QED BY <1>1

\* What the server writes are answers.
LEMMA KeptAnswers == Kept => responses \in Seq(Answers) /\ answered \in Seq(Answers)
<1>1. Meant(sent, soils) \subseteq Answers
  BY DEF Meant
<1> QED BY <1>1, SeqGrows DEF Kept

\* One more call changes nothing of what is said to those before it.
LEMMA MeantGrows ==
    ASSUME NEW calls \in Seq(Calls), NEW call \in Calls, NEW pieces
    PROVE  /\ Meant(calls, pieces) \subseteq Meant(Append(calls, call), pieces)
           /\ Blueprints(calls) \subseteq Blueprints(Append(calls, call))
<1> DEFINE more == Append(calls, call)
<1>1. /\ Len(calls) \in Nat /\ Len(more) = Len(calls) + 1
      /\ \A i \in 1..Len(calls) : i \in 1..Len(more) /\ more[i] = calls[i]
  OBVIOUS
<1> HIDE DEF more
<1>2. ASSUME NEW r \in Meant(calls, pieces) PROVE r \in Meant(more, pieces)
  <2>1. r \in Answers /\ r.id \in 1..Len(calls) /\ Meets(calls[r.id], pieces, r)
    BY DEF Meant
  <2>2. r.id \in 1..Len(more) /\ Meets(more[r.id], pieces, r)
    BY <1>1, <2>1
  <2> QED BY <2>1, <2>2 DEF Meant
<1>3. ASSUME NEW b \in Blueprints(calls) PROVE b \in Blueprints(more)
  <2>1. PICK j \in 1..Len(calls) : calls[j].op = "make_creature" /\ b = BlueprintOf(calls[j])
    BY DEF Blueprints
  <2>2. j \in 1..Len(more) /\ more[j] = calls[j]
    BY <1>1
  <2>3. j \in {k \in 1..Len(more) : more[k].op = "make_creature"} /\ b = BlueprintOf(more[j])
    BY <2>1, <2>2
  <2> QED BY <2>3 DEF Blueprints
<1> QED BY <1>2, <1>3 DEF more

\* A new connection has no requests.
LEMMA NewRequests ==
    ASSUME NEW up
    PROVE  Asked(<<>>, <<>>) /\ RequestsFlow(<<>>, <<>>, up, <<>>, <<>>)
<1> DEFINE e == <<>>
<1>1. e \in Seq(Frames) /\ Len(e) = 0 /\ 1..0 = {}
  OBVIOUS
<1>2. OnTheWay(e, e, e, Len(e))
  BY NothingOnTheWay, <1>1
<1> HIDE DEF e
<1>3. Asked(e, e) /\ RequestsFlow(e, e, up, e, e)
  BY <1>1, <1>2 DEF Asked, RequestsFlow
<1> QED BY <1>3 DEF e

\* A new connection has no answers.
LEMMA NewAnswers == AnswersFlow(<<>>, <<>>, TRUE, <<>>, <<>>)
<1> DEFINE e == <<>>
<1>1. e \in Seq(Answers) /\ Len(e) = 0 /\ 1..0 = {}
  OBVIOUS
<1>2. OnTheWay(e, e, e, Len(e))
  BY NothingOnTheWay, <1>1
<1> HIDE DEF e
<1>3. AnswersFlow(e, e, TRUE, e, e)
  BY <1>1, <1>2 DEF AnswersFlow
<1> QED BY <1>3 DEF e

\* The beginning.
LEMMA InitInv == Init => IInv
<1> SUFFICES ASSUME Init PROVE IInv
  OBVIOUS
<1> USE DEF Init
<1>1. Kept
  <2>1. /\ Len(sent) = 0 /\ sent \in Seq(Calls) /\ created \in Seq(Blueprints(sent))
        /\ responses \in Seq(Meant(sent, soils)) /\ answered \in Seq(Meant(sent, soils))
    OBVIOUS
  <2>2. Len(sent) <= MaxSent
    <3>1. MaxSent \in Nat
      BY SentAssumption
    <3> QED BY <2>1, <3>1
  <2>3. soils \in SoilOrders /\ serverUp \in BOOLEAN /\ stale \in BOOLEAN
    BY Zenon
  <2>4. connects \in Nat /\ connects # 0
    <3>1. connects = 1
      OBVIOUS
    <3> QED BY <3>1
  <2> QED BY <2>1, <2>2, <2>3, <2>4, Zenon DEF Kept
<1>2. RequestsInv
  BY NewRequests, Zenon DEF RequestsInv
<1>3. AnswersInv
  BY NewAnswers, Zenon DEF AnswersInv
<1>4. StaleInv
  BY DEF StaleInv
<1> QED BY <1>1, <1>2, <1>3, <1>4 DEF IInv

\* The client asks.
LEMMA SendInv ==
    ASSUME IInv, NEW call \in Calls, Send(call)
    PROVE  IInv'
<1> DEFINE id == Len(sent) + 1
<1>1. /\ Len(sent) < MaxSent /\ sent' = Append(sent, call)
      /\ UNCHANGED <<soils, connects, requestBuffer, responses, serverUp, toClient, responseBuffer,
                     clientReads, served, answered, collected, created, unqueued, stale>>
  BY DEF Send
<1>2. Kept /\ RequestsInv /\ AnswersInv /\ StaleInv
  BY DEF IInv
<1>3. /\ sent \in Seq(Calls) /\ Len(sent) \in Nat /\ sent' \in Seq(Calls) /\ Len(sent') = id
      /\ sent'[id] = call /\ \A i \in 1..Len(sent) : sent'[i] = sent[i]
  BY <1>1, <1>2 DEF Kept
<1>4. PICK held \in Held : toServer' = toServer \o RawBytes(BuildRequest(call, Len(sent'), held))
  BY DEF Send
<1> DEFINE f == BuildRequest(call, id, held)
<1>5. id \in Nat /\ id <= MaxSent /\ id < Huge
  <2>1. MaxSent \in Nat /\ MaxSent < Huge
    BY SentAssumption
  <2>2. Huge \in Nat
    BY DEF Huge
  <2> QED BY <1>1, <1>3, <2>1, <2>2
<1>6. f \in Frames /\ WritableRequest(f) /\ Len(RawBytes(f)) <= IdEnd + 2 + CreateSize
  BY <1>5, RequestIs
<1>7. toServer' = toServer \o RawBytes(f)
  BY <1>3, <1>4
<1>8. f = BuildRequest(call, id, held)
  OBVIOUS
<1> HIDE DEF f
<1>9. Kept'
  <2>1. /\ responses \in Seq(Meant(sent, soils)) /\ answered \in Seq(Meant(sent, soils))
        /\ created \in Seq(Blueprints(sent))
    BY <1>2 DEF Kept
  <2>2. Meant(sent, soils) \subseteq Meant(sent', soils) /\ Blueprints(sent) \subseteq Blueprints(sent')
    BY <1>1, <1>3, MeantGrows
  <2>3. /\ responses \in Seq(Meant(sent', soils)) /\ answered \in Seq(Meant(sent', soils))
        /\ created \in Seq(Blueprints(sent'))
    BY <2>1, <2>2, SeqGrows
  <2> QED BY <1>1, <1>2, <1>3, <1>5, <2>3 DEF Kept
<1>10. RequestsInv'
  <2>1. PICK reqs : Asked(reqs, sent) /\ RequestsFlow(reqs, served, serverUp, requestBuffer, toServer)
    BY <1>2 DEF RequestsInv
  <2> DEFINE more == Append(reqs, f)
  <2>2. reqs \in Seq(Frames) /\ Len(reqs) = Len(sent)
    BY <2>1 DEF Asked
  <2>3. more \in Seq(Frames) /\ Len(more) = id /\ more[id] = f /\ \A i \in 1..Len(reqs) : more[i] = reqs[i]
    BY <1>3, <1>6, <2>2
  <2>4. ASSUME NEW i \in 1..Len(more)
        PROVE  /\ WritableRequest(more[i]) /\ Len(RawBytes(more[i])) <= IdEnd + 2 + CreateSize
               /\ \E h \in Held : more[i] = BuildRequest(sent'[i], i, h)
    <3> HIDE DEF more
    <3>1. CASE i = id
      <4>1. more[i] = f /\ sent'[i] = call
        BY <1>3, <2>3, <3>1
      <4> QED BY <1>6, <1>8, <3>1, <4>1
    <3>2. CASE i # id
      <4>1. i \in 1..Len(reqs) /\ i \in 1..Len(sent)
        BY <1>3, <2>2, <2>3, <3>2
      <4>2. more[i] = reqs[i] /\ sent'[i] = sent[i]
        BY <1>3, <2>3, <4>1
      <4> QED BY <2>1, <4>1, <4>2 DEF Asked
    <3> QED BY <3>1, <3>2
  <2>5. /\ served \in Seq(Frames) /\ Len(served) <= Len(reqs)
        /\ \A i \in 1..Len(served) : served[i] = reqs[i]
        /\ serverUp => OnTheWay(requestBuffer, toServer, reqs, Len(served))
    BY <2>1 DEF RequestsFlow
  <2>6. serverUp => OnTheWay(requestBuffer, toServer', more, Len(served))
    BY <1>6, <1>7, <2>5, FrameLeaves
  <2> HIDE DEF more
  <2>7. Len(served) <= Len(more) /\ \A i \in 1..Len(served) : served[i] = more[i]
    BY <1>3, <2>2, <2>3, <2>5
  <2>8. Asked(more, sent')
    BY <1>3, <2>3, <2>4 DEF Asked
  <2>9. RequestsFlow(more, served, serverUp, requestBuffer, toServer')
    BY <2>5, <2>6, <2>7 DEF RequestsFlow
  <2> QED BY <1>1, <2>8, <2>9 DEF RequestsInv
<1>11. AnswersInv' /\ StaleInv'
  BY <1>1, <1>2 DEF AnswersInv, StaleInv
<1> QED BY <1>9, <1>10, <1>11 DEF IInv

\* The server reads and serves.
LEMMA ServerReadsInv ==
    ASSUME IInv, NEW size \in ChunkSizes, NEW n, n = IF size < Len(toServer) THEN size ELSE Len(toServer),
           ServerReceive(n)
    PROVE  IInv'
<1> DEFINE chunk == SubSeq(toServer, 1, n)
           left == SubSeq(toServer, n + 1, Len(toServer))
           taken == TakeFrames(requestBuffer \o chunk)
<1>1. Kept /\ RequestsInv /\ AnswersInv /\ StaleInv
  BY DEF IInv
<1>2. PICK reqs : Asked(reqs, sent) /\ RequestsFlow(reqs, served, serverUp, requestBuffer, toServer)
  BY <1>1 DEF RequestsInv
<1>3. /\ serverUp /\ n <= Len(toServer) /\ toServer' = left
      /\ IF Overflows(requestBuffer, chunk)
         THEN UNCHANGED <<requestBuffer, responses, serverUp, served, created, unqueued>>
         ELSE \E added \in BOOLEAN : ServerServes(taken, added)
      /\ UNCHANGED <<soils, connects, toClient, responseBuffer, clientReads, sent, answered, collected, stale>>
  BY Zenon DEF ServerReceive
<1>4. /\ served \in Seq(Frames) /\ Len(served) <= Len(reqs)
      /\ \A i \in 1..Len(served) : served[i] = reqs[i]
      /\ OnTheWay(requestBuffer, toServer, reqs, Len(served))
  BY <1>2, <1>3 DEF RequestsFlow
<1>5. /\ reqs \in Seq(Frames) /\ Len(reqs) = Len(sent)
      /\ \A i \in 1..Len(reqs) : WritableRequest(reqs[i]) /\ Len(RawBytes(reqs[i])) <= IdEnd + 2 + CreateSize
  BY <1>2 DEF Asked
<1>6. n \in Nat /\ n <= size
  <2>1. toServer \in Bytes
    BY <1>4 DEF OnTheWay
  <2>2. Len(toServer) \in Nat
    BY <2>1 DEF Bytes
  <2>3. size \in Nat
    BY ChunksAssumption
  <2> QED BY <2>2, <2>3
<1>7. ~ Overflows(requestBuffer, chunk)
  <2>1. SUFFICES ASSUME Overflows(requestBuffer, chunk) PROVE FALSE
    OBVIOUS
  <2> DEFINE j == Len(served) + 1
             r == Len(RawBytes(reqs[j]))
             most == IdEnd + 2 + CreateSize
  <2>2. j \in 1..Len(reqs) /\ r + size > Capacity
    BY <1>3, <1>4, <1>6, <2>1, NoRoomMeans
  <2>3. r <= most
    BY <1>5, <2>2
  <2>4. r \in Nat
    BY <1>5, <2>2, RawIs
  <2>5. most + size <= Capacity /\ size \in Nat /\ Capacity \in Nat
    BY ChunksAssumption
  <2>6. most \in Nat
    BY DEF IdEnd, CreateSize
  <2> HIDE DEF r, most
  <2> QED BY <2>2, <2>3, <2>4, <2>5, <2>6
<1>8. PICK added \in BOOLEAN : ServerServes(taken, added)
  BY <1>3, <1>7, Zenon
<1>9. PICK p : Took(taken, left, reqs, Len(served), p) /\ OnTheWay(taken.rest, left, reqs, p)
  BY <1>3, <1>4, <1>6, ChunkArrives
<1> HIDE DEF taken, left
<1>10. Serving(Starts, sent, reqs, Len(served))
  <2>1. /\ Starts.served = served /\ Starts.up = TRUE /\ Starts.queue = responses /\ Starts.created = created
    BY DEF Starts
  <2>2. /\ responses \in Seq(Meant(sent, soils)) /\ created \in Seq(Blueprints(sent))
        /\ Len(served) <= Len(served) /\ TRUE \in BOOLEAN
    BY <1>1, <1>4 DEF Kept
  <2> QED BY <1>4, <2>1, <2>2 DEF Serving
<1>11. PICK end : ServerBecomes(taken, end) /\ Serving(end, sent, reqs, p)
  BY <1>1, <1>2, <1>8, <1>9, <1>10, ServerServesIs DEF Kept
<1>12. /\ requestBuffer' = taken.rest /\ responses' = end.queue /\ served' = end.served /\ created' = end.created
       /\ serverUp' = (end.up /\ ~taken.threw)
  BY <1>11 DEF ServerBecomes
<1>13. /\ end.served \in Seq(Frames) /\ Len(end.served) <= p
       /\ \A i \in 1..Len(end.served) : end.served[i] = reqs[i]
       /\ end.up \in BOOLEAN /\ (end.up => Len(end.served) = p)
       /\ end.queue \in Seq(Meant(sent, soils)) /\ end.created \in Seq(Blueprints(sent))
  BY <1>11 DEF Serving
<1>14. Kept'
  <2>1. serverUp' \in BOOLEAN
    BY <1>12
  <2> QED BY <1>1, <1>3, <1>12, <1>13, <2>1 DEF Kept
<1>15. RequestsInv'
  <2>1. Len(served') <= Len(reqs)
    <3>1. p \in Nat /\ p <= Len(reqs)
      BY <1>9 DEF Took
    <3> QED BY <1>5, <1>12, <1>13, <3>1
  <2>2. serverUp' => OnTheWay(requestBuffer', toServer', reqs, Len(served'))
    BY <1>3, <1>9, <1>12, <1>13
  <2>3. RequestsFlow(reqs, served', serverUp', requestBuffer', toServer')
    BY <1>12, <1>13, <2>1, <2>2 DEF RequestsFlow
  <2> QED BY <1>2, <1>3, <2>3 DEF RequestsInv
<1>16. AnswersInv' /\ StaleInv'
  BY <1>1, <1>3 DEF AnswersInv, StaleInv
<1> QED BY <1>14, <1>15, <1>16 DEF IInv

\* The server writes.
LEMMA SendResponseInv ==
    ASSUME IInv, SendResponse
    PROVE  IInv'
<1> DEFINE f == Head(responses)
           raw == RawBytes(f)
<1>1. Kept /\ RequestsInv /\ AnswersInv /\ StaleInv
  BY DEF IInv
<1>2. /\ responses # <<>> /\ answered' = Append(answered, f) /\ toClient' = toClient \o raw
      /\ responses' = Tail(responses)
      /\ UNCHANGED <<soils, connects, toServer, requestBuffer, serverUp, responseBuffer, clientReads,
                     sent, served, collected, created, unqueued, stale>>
  BY DEF SendResponse
<1> DEFINE M == Meant(sent, soils)
<1>3. responses \in Seq(M) /\ answered \in Seq(M)
  BY <1>1 DEF Kept
<1> HIDE DEF M
<1>4. f \in M /\ responses' \in Seq(M)
  BY <1>2, <1>3
<1>5. f \in Frames
  BY <1>4 DEF M, Meant, Answers, Frames
<1> HIDE DEF f, raw
<1>6. /\ answered' \in Seq(M) /\ Len(answered) \in Nat /\ Len(answered') = Len(answered) + 1
      /\ \A i \in 1..Len(answered) : answered'[i] = answered[i]
  BY <1>2, <1>3, <1>4
<1>7. Kept'
  BY <1>1, <1>2, <1>4, <1>6 DEF Kept, M
<1>8. RequestsInv'
  BY <1>1, <1>2 DEF RequestsInv
<1>9. AnswersInv'
  <2>1. CASE stale
    BY <1>2, <2>1 DEF AnswersInv
  <2>2. CASE ~stale
    <3>1. /\ clientReads = TRUE /\ collected \in Seq(Answers)
          /\ \A i \in 1..Len(collected) : collected[i] = answered[i]
          /\ OnTheWay(responseBuffer, toClient, answered, Len(collected))
      BY <1>1, <2>2 DEF AnswersInv, AnswersFlow
    <3>2. OnTheWay(responseBuffer, toClient', answered', Len(collected))
      BY <1>2, <1>5, <3>1, FrameLeaves DEF raw
    <3>3. Len(collected) <= Len(answered) /\ Len(collected) \in Nat
      BY <3>1 DEF OnTheWay, Lined
    <3>4. \A i \in 1..Len(collected) : collected[i] = answered'[i]
      BY <1>6, <3>1, <3>3
    <3>5. AnswersFlow(answered', collected, clientReads, responseBuffer, toClient')
      BY <3>1, <3>2, <3>4, Zenon DEF AnswersFlow
    <3> QED BY <1>2, <3>5 DEF AnswersInv
  <2> QED BY <2>1, <2>2
<1>10. StaleInv'
  <2>1. ASSUME Crowded(answered) PROVE Crowded(answered')
    <3>1. PICK i \in 1..Len(answered) :
             \A n \in ChunkSizes : (\A m \in ChunkSizes : m <= n) => Len(RawBytes(answered[i])) + n > Capacity
      BY <2>1 DEF Crowded
    <3>2. i \in 1..Len(answered') /\ answered'[i] = answered[i]
      BY <1>6
    <3>3. \A n \in ChunkSizes : (\A m \in ChunkSizes : m <= n) => Len(RawBytes(answered'[i])) + n > Capacity
      BY <3>1, <3>2, Zenon
    <3> QED BY <3>2, <3>3, Zenon DEF Crowded
  <2> QED BY <1>1, <1>2, <2>1 DEF StaleInv
<1> QED BY <1>7, <1>8, <1>9, <1>10 DEF IInv

\* The client parses the frames taken off its buffer, which are the responses behind
\* the m-th up to the p-th.
LEMMA ClientTakesFramesIs ==
    ASSUME NEW taken, NEW left, NEW p, ClientTakesFrames(taken), answered \in Seq(Answers),
           collected \in Seq(Answers), \A i \in 1..Len(collected) : collected[i] = answered[i],
           Took(taken, left, answered, Len(collected), p)
    PROVE  /\ responseBuffer' = taken.rest /\ clientReads' = TRUE
           /\ collected' \in Seq(Answers) /\ Len(collected') = p
           /\ \A i \in 1..Len(collected') : collected'[i] = answered[i]
<1> DEFINE m == Len(collected)
           n == Len(taken.frames)
           parsed == [i \in 1..n |-> ParseAnswer(taken.frames[i])]
           Bad(f) == f = Thrown
           bad == SelectInSeq(parsed, LAMBDA f : f = Thrown)
<1>1. /\ m \in Nat /\ p \in Nat /\ m <= p /\ p <= Len(answered) /\ n = p - m
      /\ \A i \in 1..(p - m) : taken.frames[i] = RawBytes(answered[m + i])
      /\ taken.threw = FALSE
  BY DEF Took
<1>2. /\ responseBuffer' = taken.rest
      /\ collected' = collected \o (IF bad = 0 THEN parsed ELSE SubSeq(parsed, 1, bad - 1))
      /\ clientReads' = (bad = 0 /\ ~taken.threw)
  BY Zenon DEF ClientTakesFrames, ClientParses
<1>3. n \in Nat /\ Len(answered) \in Nat
  BY <1>1
<1> HIDE DEF n
<1>4. ASSUME NEW i \in 1..n PROVE parsed[i] = answered[m + i] /\ parsed[i] \in Answers /\ parsed[i] # Thrown
  <2>1. i \in 1..(p - m) /\ m + i \in 1..Len(answered)
    BY <1>1, <1>3
  <2> DEFINE f == answered[m + i]
  <2>2. f \in Answers
    BY <2>1
  <2>3. WritableResponse(f)
    BY <2>2 DEF Answers
  <2>4. ParseAnswer(RawBytes(f)) = f /\ f # Thrown
    BY <2>3, ResponseParsed
  <2>5. parsed[i] = ParseAnswer(taken.frames[i])
    OBVIOUS
  <2>6. taken.frames[i] = RawBytes(f)
    BY <1>1, <2>1
  <2> HIDE DEF f, parsed
  <2>7. parsed[i] = f
    BY <2>4, <2>5, <2>6
  <2> QED BY <2>2, <2>4, <2>7 DEF f
<1>5. Len(parsed) = n /\ parsed \in Seq(Answers)
  <2>1. parsed \in [1..n -> Answers]
    BY <1>4
  <2> HIDE DEF parsed
  <2> QED BY <1>3, <2>1
<1> HIDE DEF parsed, m
<1>6. bad = 0
  <2>1. {i \in 1..Len(parsed) : parsed[i] = Thrown} = {}
    BY <1>4, <1>5
  <2> QED BY <2>1, Zenon DEF SelectInSeq
<1>7. collected' = collected \o parsed /\ clientReads' = TRUE
  BY <1>1, <1>2, <1>6
<1>8. /\ collected' \in Seq(Answers) /\ Len(collected') = m + n
      /\ \A i \in 1..m : collected'[i] = collected[i]
      /\ \A i \in 1..n : collected'[m + i] = parsed[i]
  <2> DEFINE all == collected \o parsed
  <2>1. /\ all \in Seq(Answers) /\ Len(all) = m + n
        /\ \A i \in 1..m : all[i] = collected[i]
        /\ \A i \in 1..n : all[m + i] = parsed[i]
    <3>1. /\ all \in Seq(Answers) /\ Len(all) = Len(collected) + Len(parsed)
          /\ \A i \in 1..Len(collected) : all[i] = collected[i]
          /\ \A i \in 1..Len(parsed) : all[Len(collected) + i] = parsed[i]
      <4>1. collected \in Seq(Answers) /\ parsed \in Seq(Answers)
        BY <1>5
      <4> DEFINE c == collected
      <4>2. c \in Seq(Answers)
        BY <4>1
      <4> HIDE DEF parsed, c
      <4>3. /\ c \o parsed \in Seq(Answers) /\ Len(c \o parsed) = Len(c) + Len(parsed)
            /\ \A i \in 1..Len(c) : (c \o parsed)[i] = c[i]
            /\ \A i \in 1..Len(parsed) : (c \o parsed)[Len(c) + i] = parsed[i]
        BY <4>1, <4>2, PartsOf
      <4> QED BY <4>3 DEF c
    <3> HIDE DEF all
    <3> QED BY <1>5, <3>1, Zenon DEF m
  <2> HIDE DEF all
  <2> QED BY <1>7, <2>1 DEF all
<1>9. m + n = p
  BY <1>1, <1>3
<1>10. ASSUME NEW i \in 1..p PROVE collected'[i] = answered[i]
  <2>1. CASE i \in 1..m
    BY <1>8, <2>1 DEF m
  <2>2. CASE i \notin 1..m
    <3>1. i - m \in 1..n /\ m + (i - m) = i
      BY <1>1, <1>3, <1>9, <2>2
    <3>2. collected'[m + (i - m)] = parsed[i - m] /\ parsed[i - m] = answered[m + (i - m)]
      BY <1>4, <1>8, <3>1
    <3> QED BY <3>1, <3>2
  <2> QED BY <2>1, <2>2
<1> QED BY <1>2, <1>7, <1>8, <1>9, <1>10

\* The client reads.
LEMMA ClientReadsInv ==
    ASSUME IInv, NEW size \in ChunkSizes, NEW n, n = IF size < Len(toClient) THEN size ELSE Len(toClient),
           ClientReceive(n)
    PROVE  IInv'
<1> DEFINE chunk == SubSeq(toClient, 1, n)
           left == SubSeq(toClient, n + 1, Len(toClient))
           fits == ~Overflows(responseBuffer, chunk)
           taken == TakeFrames(responseBuffer \o chunk)
<1>1. Kept /\ RequestsInv /\ AnswersInv /\ StaleInv
  BY DEF IInv
<1>2. /\ toClient' = left /\ stale' = (stale \/ ~fits) /\ n <= Len(toClient)
      /\ fits => ClientTakesFrames(taken)
      /\ UNCHANGED <<soils, connects, toServer, requestBuffer, responses, serverUp, sent, served,
                     answered, created, unqueued>>
  BY Zenon DEF ClientReceive
<1>3. Kept'
  <2>1. stale' \in BOOLEAN
    BY <1>2
  <2> QED BY <1>1, <1>2, <2>1 DEF Kept
<1>4. RequestsInv'
  BY <1>1, <1>2 DEF RequestsInv
<1>5. ASSUME ~stale
      PROVE  /\ collected \in Seq(Answers) /\ answered \in Seq(Answers)
             /\ \A i \in 1..Len(collected) : collected[i] = answered[i]
             /\ OnTheWay(responseBuffer, toClient, answered, Len(collected))
             /\ n \in Nat /\ n <= size
  <2>1. /\ collected \in Seq(Answers) /\ answered \in Seq(Answers)
        /\ \A i \in 1..Len(collected) : collected[i] = answered[i]
        /\ OnTheWay(responseBuffer, toClient, answered, Len(collected))
    BY <1>1, <1>5, KeptAnswers DEF AnswersInv, AnswersFlow
  <2>2. toClient \in Bytes
    BY <2>1 DEF OnTheWay
  <2>3. Len(toClient) \in Nat
    BY <2>2 DEF Bytes
  <2>4. size \in Nat
    BY ChunksAssumption
  <2>5. n \in Nat /\ n <= size
    BY <2>3, <2>4
  <2> QED BY <2>1, <2>5
<1> HIDE DEF left, taken, fits
<1>6. AnswersInv'
  <2>1. CASE stale \/ ~fits
    BY <1>2, <2>1 DEF AnswersInv
  <2>2. CASE ~stale /\ fits
    <3>1. PICK p : Took(taken, left, answered, Len(collected), p) /\ OnTheWay(taken.rest, left, answered, p)
      BY <1>2, <1>5, <2>2, ChunkArrives DEF left, taken
    <3>2. ClientTakesFrames(taken)
      BY <1>2, <2>2
    <3>3. /\ responseBuffer' = taken.rest /\ clientReads' = TRUE
          /\ collected' \in Seq(Answers) /\ Len(collected') = p
          /\ \A i \in 1..Len(collected') : collected'[i] = answered[i]
      BY <1>5, <2>2, <3>1, <3>2, ClientTakesFramesIs
    <3>4. AnswersFlow(answered, collected', clientReads', responseBuffer', toClient')
      BY <1>2, <3>1, <3>3 DEF AnswersFlow
    <3> QED BY <1>2, <3>4 DEF AnswersInv
  <2> QED BY <2>1, <2>2
<1>7. StaleInv'
  <2>1. CASE stale \/ fits
    BY <1>1, <1>2, <2>1 DEF StaleInv
  <2>2. CASE ~stale /\ ~fits
    <3> DEFINE j == Len(collected) + 1
    <3>1. j \in 1..Len(answered) /\ Len(RawBytes(answered[j])) + size > Capacity
      BY <1>2, <1>5, <2>2, NoRoomMeans DEF fits
    <3> HIDE DEF j
    <3>2. ASSUME NEW k \in ChunkSizes, \A c \in ChunkSizes : c <= k
          PROVE  Len(RawBytes(answered[j])) + k > Capacity
      <4>1. size <= k /\ size \in Nat /\ k \in Nat /\ Capacity \in Nat
        BY <3>2, ChunksAssumption
      <4>2. Len(RawBytes(answered[j])) \in Nat
        <5>1. answered \in Seq(Frames)
          BY <1>5, <2>2, AnswersAreFrames
        <5>2. answered[j] \in Frames
          BY <3>1, <5>1
        <5> QED BY <5>2, RawIs
      <4> QED BY <3>1, <4>1, <4>2
    <3>3. Crowded(answered)
      BY <3>1, <3>2, Zenon DEF Crowded
    <3> QED BY <1>2, <3>3 DEF StaleInv
  <2> QED BY <2>1, <2>2
<1> QED BY <1>3, <1>4, <1>6, <1>7 DEF IInv

\* A new connection.
LEMMA ReconnectInv ==
    ASSUME IInv, Reconnect
    PROVE  IInv'
<1>1. Kept /\ RequestsInv /\ AnswersInv /\ StaleInv
  BY DEF IInv
<1>2. /\ connects' = connects + 1
      /\ toServer' = <<>> /\ requestBuffer' = <<>> /\ responses' = <<>> /\ toClient' = <<>>
      /\ sent' = <<>> /\ served' = <<>> /\ answered' = <<>> /\ collected' = <<>> /\ created' = <<>>
      /\ stale' = (stale \/ responseBuffer # <<>>)
      /\ UNCHANGED <<soils, serverUp, clientReads, responseBuffer>>
  BY DEF Reconnect
<1>3. Kept'
  <2>1. connects \in Nat
    BY <1>1 DEF Kept
  <2>2. connects' \in Nat /\ connects' # 0
    BY <1>2, <2>1
  <2>3. /\ sent' \in Seq(Calls) /\ Len(sent') = 0 /\ created' \in Seq(Blueprints(sent'))
        /\ responses' \in Seq(Meant(sent', soils')) /\ answered' \in Seq(Meant(sent', soils'))
    BY <1>2
  <2>4. Len(sent') <= MaxSent
    <3>1. MaxSent \in Nat
      BY SentAssumption
    <3> QED BY <2>3, <3>1
  <2>5. soils' \in SoilOrders /\ serverUp' \in BOOLEAN /\ stale' \in BOOLEAN
    BY <1>1, <1>2 DEF Kept
  <2> QED BY <2>2, <2>3, <2>4, <2>5, Zenon DEF Kept
<1>4. RequestsInv'
  BY <1>2, NewRequests, Zenon DEF RequestsInv
<1>5. AnswersInv'
  <2>1. CASE stale \/ responseBuffer # <<>>
    BY <1>2, <2>1 DEF AnswersInv
  <2>2. CASE ~stale /\ responseBuffer = <<>>
    <3>1. clientReads = TRUE
      BY <1>1, <2>2 DEF AnswersInv, AnswersFlow
    <3> QED BY <1>2, <2>2, <3>1, NewAnswers, Zenon DEF AnswersInv
  <2> QED BY <2>1, <2>2
<1>6. StaleInv'
  <2>1. connects \in Nat /\ connects # 0
    BY <1>1 DEF Kept
  <2>2. connects' # 1
    BY <1>2, <2>1
  <2> QED BY <2>2 DEF StaleInv
<1> QED BY <1>3, <1>4, <1>5, <1>6 DEF IInv

-----------------------------------------------------------------------------
(* The results. *)

\* The inductive invariant: between what one side wrote and what the other parsed lie
\* exactly the bytes of the frames in between, as long as the side that parses runs and
\* its buffer lost nothing.
THEOREM BytesAreKept == Spec => []IInv
<1>1. Init => IInv
  BY InitInv
<1>2. IInv /\ [Next]_vars => IInv'
  <2> SUFFICES ASSUME IInv, [Next]_vars PROVE IInv'
    OBVIOUS
  <2>1. ASSUME NEW call \in Calls, Send(call) PROVE IInv'
    BY <2>1, SendInv
  <2>2. CASE ServerReads
    <3>1. PICK size \in ChunkSizes : ServerReceive(IF size < Len(toServer) THEN size ELSE Len(toServer))
      BY <2>2 DEF ServerReads
    <3> DEFINE n == IF size < Len(toServer) THEN size ELSE Len(toServer)
    <3>2. n = IF size < Len(toServer) THEN size ELSE Len(toServer)
      OBVIOUS
    <3>3. ServerReceive(n)
      BY <3>1
    <3> HIDE DEF n
    <3> QED BY <3>2, <3>3, ServerReadsInv
  <2>3. CASE SendResponse
    BY <2>3, SendResponseInv
  <2>4. CASE ClientReads
    <3>1. PICK size \in ChunkSizes : ClientReceive(IF size < Len(toClient) THEN size ELSE Len(toClient))
      BY <2>4 DEF ClientReads
    <3> DEFINE n == IF size < Len(toClient) THEN size ELSE Len(toClient)
    <3>2. n = IF size < Len(toClient) THEN size ELSE Len(toClient)
      OBVIOUS
    <3>3. ClientReceive(n)
      BY <3>1
    <3> HIDE DEF n
    <3> QED BY <3>2, <3>3, ClientReadsInv
  <2>5. CASE Reconnect
    BY <2>5, ReconnectInv
  <2>6. CASE UNCHANGED vars
    BY <2>6 DEF vars, IInv, Kept, RequestsInv, AnswersInv, StaleInv
  <2> QED BY <2>1, <2>2, <2>3, <2>4, <2>5, <2>6 DEF Next
<1> QED BY <1>1, <1>2, PTL DEF Spec

\* However the sockets cut the bytes, the server serves what the client of this connection
\* asked, in that order and each once, and drops no chunk.
THEOREM RequestsServedInOrder == Spec => []ServedInOrder
<1>1. IInv => ServedInOrder
  <2> SUFFICES ASSUME IInv PROVE ServedInOrder
    OBVIOUS
  <2>1. PICK reqs : Asked(reqs, sent) /\ RequestsFlow(reqs, served, serverUp, requestBuffer, toServer)
    BY DEF IInv, RequestsInv
  <2>2. /\ Len(reqs) = Len(sent) /\ served \in Seq(Frames) /\ Len(served) <= Len(reqs) /\ reqs \in Seq(Frames)
        /\ \A i \in 1..Len(served) : served[i] = reqs[i]
        /\ \A i \in 1..Len(reqs) : \E held \in Held : reqs[i] = BuildRequest(sent[i], i, held)
    BY <2>1 DEF Asked, RequestsFlow
  <2>3. ASSUME NEW i \in 1..Len(served) PROVE \E held \in Held : served[i] = BuildRequest(sent[i], i, held)
    <3>1. i \in 1..Len(reqs)
      BY <2>2
    <3> QED BY <2>2, <3>1
  <2> QED BY <2>2, <2>3 DEF ServedInOrder
<1> QED BY <1>1, BytesAreKept, PTL

\* As long as the client's buffer lost nothing and began empty, the client's parser gives the
\* responses the server wrote, in that order and unharmed.
THEOREM AnswersArriveIntact == Spec => []AnswersIntact
<1>1. IInv => AnswersIntact
  <2> SUFFICES ASSUME IInv, ~stale PROVE collected = SubSeq(answered, 1, Len(collected))
    BY DEF AnswersIntact
  <2> DEFINE n == Len(collected)
  <2>1. /\ answered \in Seq(Answers) /\ collected \in Seq(Answers)
        /\ \A i \in 1..n : collected[i] = answered[i]
        /\ OnTheWay(responseBuffer, toClient, answered, n)
    BY KeptAnswers DEF IInv, AnswersInv, AnswersFlow
  <2>2. n <= Len(answered)
    BY <2>1 DEF OnTheWay, Lined
  <2>3. /\ n \in Nat /\ 0 \in Nat /\ 0 + n <= Len(answered) /\ 0 + 1 = 1 /\ 0 + n = n
        /\ \A i \in 1..n : answered[0 + i] = collected[i]
    BY <2>1, <2>2
  <2>4. SubSeq(answered, 0 + 1, 0 + n) = collected
    BY <2>1, <2>3, SamePart
  <2> QED BY <2>3, <2>4
<1> QED BY <1>1, BytesAreKept, PTL

\* On the first connection the client's buffer loses bytes only behind a response that leaves
\* no room for a chunk.
THEOREM StaleOnlyBehind == Spec => []StaleOnlyAfter
<1>1. IInv => StaleOnlyAfter
  BY DEF IInv, StaleInv, Crowded, StaleOnlyAfter
<1> QED BY <1>1, BytesAreKept, PTL

\* A caller decodes from the answer to its call the entity it asked for, the pieces of soil in
\* the order of the registry, and nothing where there is none; only a male creature it cannot
\* decode: as long as the client's buffer lost nothing and began empty.
THEOREM CallersSeeTheEntity == Spec => []SeesTheEntity
<1>1. IInv => SeesTheEntity
  <2> SUFFICES ASSUME IInv, ~stale, NEW i \in 1..Len(collected)
               PROVE  LET call == sent[collected[i].id]
                          seen == Decode(call, collected[i])
                      IN  IF Undecodable(call) THEN seen = Thrown
                          ELSE IF Answer(call) = {} THEN seen = Nothing
                          ELSE seen \in Answer(call)
    BY Zenon DEF SeesTheEntity
  <2> DEFINE r == collected[i]
             call == sent[r.id]
  <2>1. /\ collected[i] = answered[i] /\ OnTheWay(responseBuffer, toClient, answered, Len(collected))
        /\ answered \in Seq(Meant(sent, soils))
    BY DEF IInv, Kept, AnswersInv, AnswersFlow
  <2>2. i \in 1..Len(answered)
    <3>1. Len(collected) \in Nat /\ Len(collected) <= Len(answered)
      BY <2>1 DEF OnTheWay, Lined
    <3>2. Len(answered) \in Nat
      BY <2>1
    <3> QED BY <3>1, <3>2
  <2>3. r \in Meant(sent, soils)
    BY <2>1, <2>2
  <2>4. Meets(call, soils, r)
    BY <2>3 DEF Meant
  <2>5. Wanted(call, soils) = Answer(call)
    BY Zenon DEF Wanted, Answer
  <2> HIDE DEF r, call
  <2>6. IF Undecodable(call) THEN Decode(call, r) = Thrown
        ELSE IF Answer(call) = {} THEN Decode(call, r) = Nothing
        ELSE Decode(call, r) \in Answer(call)
    BY <2>4, <2>5, Zenon DEF Meets, Undecodable
  <2> QED BY <2>6, Zenon DEF r, call
<1> QED BY <1>1, BytesAreKept, PTL

\* A creature is made from what the client asked for, whatever the bytes of the request that
\* nothing was written to hold; its name never arrives.
THEOREM BlueprintsArrive == Spec => []BlueprintArrives
<1>1. IInv => BlueprintArrives
  <2> SUFFICES ASSUME IInv, NEW i \in 1..Len(created)
               PROVE  \E j \in 1..Len(sent) :
                          /\ sent[j].op = "make_creature"
                          /\ created[i] = [gender |-> sent[j].gender, specie |-> sent[j].specie,
                                           position |-> sent[j].position, name |-> Nothing]
    BY Zenon DEF BlueprintArrives
  <2> DEFINE B == Blueprints(sent)
  <2>1. created \in Seq(B)
    BY DEF IInv, Kept
  <2> HIDE DEF B
  <2>2. created[i] \in B
    BY <2>1
  <2>3. PICK j \in 1..Len(sent) : sent[j].op = "make_creature" /\ created[i] = BlueprintOf(sent[j])
    BY <2>2 DEF B, Blueprints
  <2> QED BY <2>3, Zenon DEF BlueprintOf
<1> QED BY <1>1, BytesAreKept, PTL

=============================================================================
