--------------------------- MODULE RequestsProofs ---------------------------
(***************************************************************************)
(* Proofs about the connections of the exchange, for any number of clients, *)
(* any requests and any cut of the bytes into segments.                     *)
(***************************************************************************)
EXTENDS RequestsProperties, ExchangeProofs

-----------------------------------------------------------------------------
(* Sequences of sequences                                                   *)

\* The partial results FlattenSeq(s) goes through, up to n.
Flattens(h, s, n) == h = [i \in 1..n |-> IF i = 1 THEN s[i] ELSE h[i - 1] \o s[i]]

LEMMA FlattenExists ==
    ASSUME NEW s, NEW n \in Nat
    PROVE  \E h : Flattens(h, s, n)
<1> DEFINE T == {m \in Nat : \E h : Flattens(h, s, m)}
<1>1. 0 \in T
  <2>1. Flattens(<<>>, s, 0)
    BY DEF Flattens
  <2>. QED
    BY <2>1
<1>2. ASSUME NEW m \in T PROVE m + 1 \in T
  <2>1. PICK h : Flattens(h, s, m)
    OBVIOUS
  <2> DEFINE g == [i \in 1..m + 1 |-> IF i = m + 1 THEN (IF i = 1 THEN s[i] ELSE h[m] \o s[i]) ELSE h[i]]
  <2>2. \A i \in 1..m + 1 : g[i] = IF i = 1 THEN s[i] ELSE g[i - 1] \o s[i]
    <3>1. ASSUME NEW i \in 1..m + 1 PROVE g[i] = IF i = 1 THEN s[i] ELSE g[i - 1] \o s[i]
      <4>1. CASE i = m + 1
        <5>1. i # 1 => m \in 1..m + 1 /\ m # m + 1 /\ i - 1 = m
          BY <4>1
        <5>2. i # 1 => g[i - 1] = h[m]
          BY <5>1
        <5>3. g[i] = IF i = 1 THEN s[i] ELSE h[m] \o s[i]
          BY <4>1
        <5> HIDE DEF g
        <5>. QED
          BY <5>2, <5>3
      <4>2. CASE i \in 1..m
        <5>1. h[i] = IF i = 1 THEN s[i] ELSE h[i - 1] \o s[i]
          BY <2>1, <4>2 DEF Flattens
        <5>2. g[i] = h[i] /\ (i # 1 => g[i - 1] = h[i - 1])
          BY <4>2
        <5> HIDE DEF g
        <5>. QED
          BY <5>1, <5>2
      <4>. QED
        BY <4>1, <4>2
    <3>. QED
      BY <3>1
  <2>3. g = [i \in 1..m + 1 |-> g[i]]
    OBVIOUS
  <2> HIDE DEF g
  <2>4. Flattens(g, s, m + 1)
    BY <2>2, <2>3 DEF Flattens
  <2>. QED
    BY <2>4
<1>3. T \in SUBSET Nat
  OBVIOUS
<1>4. n \in T
  <2> HIDE DEF T
  <2>. QED
    BY <1>1, <1>2, <1>3, SetInduction
<1>. QED
  BY <1>4

LEMMA FlattenIs ==
    ASSUME NEW s, Len(s) \in Nat
    PROVE  \E h : Flattens(h, s, Len(s)) /\ FlattenSeq(s) = IF Len(s) = 0 THEN s ELSE h[Len(s)]
<1> DEFINE h == CHOOSE h : Flattens(h, s, Len(s))
<1>1. Flattens(h, s, Len(s))
  BY FlattenExists
<1>2. FlattenSeq(s) = IF Len(s) = 0 THEN s ELSE h[Len(s)]
  BY DEF FlattenSeq, Flattens
<1>. QED
  BY <1>1, <1>2

Joins(h, s, i) == (i = 1 => h[i] = s[i]) /\ (i # 1 => h[i] = h[i - 1] \o s[i])

LEMMA FlattensAt ==
    ASSUME NEW h, NEW s, NEW n, Flattens(h, s, n), NEW i \in 1..n
    PROVE  Joins(h, s, i)
<1> DEFINE G(k) == IF k = 1 THEN s[k] ELSE h[k - 1] \o s[k]
<1>1. h = [k \in 1..n |-> G(k)]
  BY Zenon DEF Flattens
<1> HIDE DEF G
<1>2. h[i] = G(i)
  BY <1>1, Zenon
<1>. QED
  BY <1>2 DEF G, Joins

\* Functions that flatten agree as far as they go.
LEMMA FlattensAgree ==
    ASSUME NEW s, NEW t, NEW m \in Nat, NEW n \in Nat, n =< m, \A i \in 1..n : s[i] = t[i],
           NEW h, NEW g, Flattens(h, s, n), Flattens(g, t, m)
    PROVE  \A i \in 1..n : h[i] = g[i]
<1> DEFINE T == {k \in Nat : k \in 1..n => h[k] = g[k]}
<1>1. 0 \in T
  OBVIOUS
<1>2. ASSUME NEW k \in T PROVE k + 1 \in T
  <2>1. ASSUME k + 1 \in 1..n PROVE h[k + 1] = g[k + 1]
    <3>1. PICK i \in 1..n : i = k + 1
      BY <2>1
    <3>2. i \in 1..m
      OBVIOUS
    <3>3. Joins(h, s, i)
      BY FlattensAt
    <3>4. Joins(g, t, i)
      BY <3>2, FlattensAt
    <3>5. s[i] = t[i] /\ i - 1 = k /\ (i # 1 => h[k] = g[k])
      BY <3>1
    <3>. QED
      BY <3>1, <3>3, <3>4, <3>5 DEF Joins
  <2>. QED
    BY <2>1
<1>3. T \in SUBSET Nat
  OBVIOUS
<1>4. T = Nat
  <2> HIDE DEF T
  <2>. QED
    BY <1>1, <1>2, <1>3, SetInduction
<1>. QED
  BY <1>4

LEMMA FlattenEmpty == FlattenSeq(<<>>) = <<>>
<1>1. Len(<<>>) = 0
  OBVIOUS
<1>. QED
  BY <1>1, FlattenIs

LEMMA FlattenAppend ==
    ASSUME NEW S, NEW s \in Seq(Seq(S)), NEW x \in Seq(S), FlattenSeq(s) \in Seq(S)
    PROVE  FlattenSeq(Append(s, x)) = FlattenSeq(s) \o x
<1>1. PICK t, n : t = Append(s, x) /\ n = Len(s)
  OBVIOUS
<1>2. n \in Nat /\ Len(t) = n + 1 /\ t[n + 1] = x /\ \A i \in 1..n : s[i] = t[i]
  BY <1>1
<1>3. PICK h : Flattens(h, s, n) /\ FlattenSeq(s) = IF n = 0 THEN s ELSE h[n]
  BY <1>1, <1>2, FlattenIs
<1>4. PICK g : Flattens(g, t, n + 1) /\ FlattenSeq(t) = IF n + 1 = 0 THEN t ELSE g[n + 1]
  BY <1>2, FlattenIs
<1>5. (n = 0 => g[n + 1] = x) /\ (n # 0 => g[n + 1] = g[n] \o x)
  <2>1. PICK i \in 1..n + 1 : i = n + 1
    BY <1>2
  <2>2. Joins(g, t, i)
    BY <1>4, FlattensAt
  <2>3. i - 1 = n /\ t[i] = x /\ (i = 1 <=> n = 0)
    BY <1>2, <2>1
  <2>. QED
    BY <2>1, <2>2, <2>3 DEF Joins
<1>6. FlattenSeq(t) = g[n + 1]
  BY <1>2, <1>4
<1>7. CASE n = 0
  <2>1. s = <<>> /\ FlattenSeq(s) = <<>>
    <3>1. s \in Seq(Seq(S)) /\ Len(s) = 0
      BY <1>1, <1>7
    <3>2. s = <<>>
      BY <3>1, EmptySeq
    <3>. QED
      BY <3>2, FlattenEmpty
  <2>2. g[n + 1] = x
    BY <1>5, <1>7
  <2>. QED
    BY <1>1, <1>6, <2>1, <2>2
<1>8. CASE n # 0
  <2>1. n \in 1..n
    BY <1>2, <1>8
  <2>2. h[n] = g[n]
    <3>1. \A i \in 1..n : h[i] = g[i]
      BY <1>2, <1>3, <1>4, FlattensAgree
    <3>. QED
      BY <2>1, <3>1
  <2>3. FlattenSeq(s) = h[n]
    BY <1>3, <1>8
  <2>4. g[n + 1] = g[n] \o x
    BY <1>5, <1>8
  <2>. QED
    BY <1>1, <1>6, <2>2, <2>3, <2>4
<1>. QED
  BY <1>7, <1>8

LEMMA FlattenType ==
    ASSUME NEW S, NEW s \in Seq(Seq(S))
    PROVE  FlattenSeq(s) \in Seq(S)
<1> DEFINE T == {n \in Nat : \A t \in Seq(Seq(S)) : Len(t) = n => FlattenSeq(t) \in Seq(S)}
<1>1. 0 \in T
  <2>1. \A t \in Seq(Seq(S)) : Len(t) = 0 => t = <<>>
    OBVIOUS
  <2>2. <<>> \in Seq(S)
    OBVIOUS
  <2>. QED
    BY <2>1, <2>2, FlattenEmpty
<1>2. ASSUME NEW n \in T PROVE n + 1 \in T
  <2>1. ASSUME NEW t \in Seq(Seq(S)), Len(t) = n + 1 PROVE FlattenSeq(t) \in Seq(S)
    <3>1. PICK u, x : u = SubSeq(t, 1, n) /\ x = t[n + 1]
      OBVIOUS
    <3>2. u \in Seq(Seq(S)) /\ Len(u) = n /\ x \in Seq(S) /\ t = Append(u, x)
      BY <2>1, <3>1
    <3>3. FlattenSeq(u) \in Seq(S)
      BY <3>2
    <3>4. FlattenSeq(t) = FlattenSeq(u) \o x
      BY <3>2, <3>3, FlattenAppend
    <3>. QED
      BY <3>2, <3>3, <3>4
  <2>. QED
    BY <2>1
<1>3. T \in SUBSET Nat
  OBVIOUS
<1>4. T = Nat
  <2> HIDE DEF T
  <2>. QED
    BY <1>1, <1>2, <1>3, SetInduction
<1>. QED
  BY <1>4

\* A sequence cut into single elements.
LEMMA FlattenSingles ==
    ASSUME NEW S, NEW e \in Seq(S)
    PROVE  FlattenSeq([k \in DOMAIN e |-> <<e[k]>>]) = e
<1> DEFINE Cut(f) == [k \in DOMAIN f |-> <<f[k]>>]
           T == {n \in Nat : \A f \in Seq(S) : Len(f) = n => FlattenSeq(Cut(f)) = f}
<1>1. 0 \in T
  <2>1. \A f \in Seq(S) : Len(f) = 0 => f = <<>> /\ Cut(f) = <<>>
    OBVIOUS
  <2>. QED
    BY <2>1, FlattenEmpty
<1>2. ASSUME NEW n \in T PROVE n + 1 \in T
  <2>1. ASSUME NEW f \in Seq(S), Len(f) = n + 1 PROVE FlattenSeq(Cut(f)) = f
    <3>1. PICK u, x : u = SubSeq(f, 1, n) /\ x = f[n + 1]
      OBVIOUS
    <3>2. u \in Seq(S) /\ Len(u) = n /\ x \in S /\ f = Append(u, x)
      BY <2>1, <3>1
    <3>3. Cut(f) = Append(Cut(u), <<x>>) /\ Cut(u) \in Seq(Seq(S)) /\ <<x>> \in Seq(S)
      <4>1. DOMAIN f = 1..n + 1 /\ DOMAIN u = 1..n /\ f[n + 1] = x /\ \A k \in 1..n : f[k] = u[k]
        BY <2>1, <3>1, <3>2
      <4>2. Cut(u) \in Seq(Seq(S)) /\ Len(Cut(u)) = n
        BY <3>2, <4>1
      <4>3. Cut(f) \in Seq(Seq(S)) /\ Len(Cut(f)) = n + 1
        BY <2>1, <4>1
      <4>. QED
        BY <3>2, <4>1, <4>2, <4>3
    <3>4. FlattenSeq(Cut(u)) = u
      BY <3>2
    <3>5. FlattenSeq(Cut(f)) = FlattenSeq(Cut(u)) \o <<x>>
      <4> HIDE DEF Cut
      <4>. QED
        BY <3>2, <3>3, <3>4, FlattenAppend
    <3>6. f = u \o <<x>>
      BY <3>2
    <3> HIDE DEF Cut
    <3>. QED
      BY <3>4, <3>5, <3>6
  <2>. QED
    BY <2>1
<1>3. T \in SUBSET Nat
  OBVIOUS
<1>4. T = Nat
  <2> HIDE DEF T
  <2>. QED
    BY <1>1, <1>2, <1>3, SetInduction
<1>. QED
  BY <1>4
-----------------------------------------------------------------------------
(* Lists                                                                    *)

LEMMA ListOf ==
    ASSUME NEW S, NEW l \in Seq(S)
    PROVE  IsList(l)
BY SeqOfRange DEF IsList

LEMMA ListAppend ==
    ASSUME NEW l, IsList(l), NEW e
    PROVE  /\ IsList(Append(l, e))
           /\ Len(l) \in Nat
           /\ Len(Append(l, e)) = Len(l) + 1
           /\ \A i \in 1..Len(l) : Append(l, e)[i] = l[i]
           /\ Append(l, e)[Len(l) + 1] = e
<1>1. PICK S : S = Range(l) \cup {e}
  OBVIOUS
<1>2. l \in Seq(S) /\ e \in S
  BY <1>1, SeqMonotonic DEF IsList
<1>3. IsList(Append(l, e))
  <2>1. Append(l, e) \in Seq(S)
    BY <1>2
  <2>. QED
    BY <2>1, ListOf, Zenon
<1>. QED
  BY <1>2, <1>3, AppendProperties

LEMMA ListFacts ==
    ASSUME NEW l, IsList(l)
    PROVE  /\ Len(l) \in Nat
           /\ DOMAIN l = 1..Len(l)
           /\ l = <<>> <=> Len(l) = 0
BY EmptySeq DEF IsList

LEMMA ListSingle ==
    ASSUME NEW e
    PROVE  IsList(<<e>>) /\ IsList(<<>>) /\ Len(<<e>>) = 1 /\ <<e>>[1] = e /\ Len(<<>>) = 0
<1>1. <<e>> \in Seq({e})
  OBVIOUS
<1>2. <<>> \in Seq({e})
  OBVIOUS
<1>. QED
  BY <1>1, <1>2, ListOf
-----------------------------------------------------------------------------
(* Bytes                                                                    *)

\* The n-th byte a client sends.
Byte(n) == <<((n - 1) \div Blank) + 1, ((n - 1) % Blank) + 1>>

\* b is what a client sends after d bytes.
BytesFrom(b, d) == \A n \in 1..Len(b) : b[n] = Byte(d + n)

LEMMA ByteOf ==
    ASSUME NEW q \in Nat, NEW j \in 1..Blank
    PROVE  Byte(Blank * q + j) = <<q + 1, j>>
<1>1. ((Blank * q + j) - 1) \div Blank = q /\ ((Blank * q + j) - 1) % Blank = j - 1
  BY SMT DEF Blank
<1>2. (((Blank * q + j) - 1) % Blank) + 1 = j
  BY <1>1, SMT DEF Blank
<1>. QED
  BY <1>1, <1>2 DEF Byte

LEMMA ByteType ==
    ASSUME NEW s \in Nat, NEW n \in 1..Blank * s
    PROVE  Byte(n) \in (1..s) \X (1..Blank)
<1>1. (n - 1) \div Blank \in 0..s - 1 /\ (n - 1) % Blank \in 0..Blank - 1
  BY SMT DEF Blank
<1>2. ((n - 1) \div Blank) + 1 \in 1..s /\ ((n - 1) % Blank) + 1 \in 1..Blank
  BY <1>1, SMT DEF Blank
<1>. QED
  BY <1>2 DEF Byte

\* A request put on the wire.
LEMMA SentBytes ==
    ASSUME NEW s \in Nat, NEW w \in Seq((1..s) \X (1..Blank)), Len(w) =< Blank * s,
           BytesFrom(w, Blank * s - Len(w))
    PROVE  /\ w \o Wire(s + 1) \in Seq((1..s + 1) \X (1..Blank))
           /\ Len(w \o Wire(s + 1)) = Len(w) + Blank
           /\ BytesFrom(w \o Wire(s + 1), Blank * s - Len(w))
<1>1. PICK v, T : v = Wire(s + 1) /\ T = (1..s + 1) \X (1..Blank)
  OBVIOUS
<1>2. v \in Seq(T) /\ Len(v) = Blank /\ \A j \in 1..Blank : v[j] = <<s + 1, j>>
  BY <1>1 DEF Wire, Blank
<1>3. w \in Seq(T)
  <2>1. (1..s) \X (1..Blank) \subseteq T
    BY <1>1
  <2>. QED
    BY <2>1, SeqMonotonic
<1>4. /\ w \o v \in Seq(T)
      /\ Len(w \o v) = Len(w) + Blank
      /\ \A i \in 1..Len(w) : (w \o v)[i] = w[i]
      /\ \A j \in 1..Blank : (w \o v)[Len(w) + j] = v[j]
  <2>1. PICK l \in Nat : l = Len(w)
    BY <1>3
  <2>2. /\ w \o v \in Seq(T) /\ Len(w \o v) = l + Len(v)
        /\ \A i \in 1..l + Len(v) : (w \o v)[i] = IF i =< l THEN w[i] ELSE v[i - l]
    BY <1>2, <1>3, <2>1, ConcatProperties, Zenon
  <2>3. \A i \in 1..l : (w \o v)[i] = w[i]
    <3>1. ASSUME NEW i \in 1..l PROVE (w \o v)[i] = w[i]
      <4>1. i \in 1..l + Len(v) /\ i =< l
        BY <1>2 DEF Blank
      <4>. QED
        BY <2>2, <4>1, Zenon
    <3>. QED
      BY <3>1
  <2>4. \A j \in 1..Blank : l + j \in 1..l + Len(v) /\ ~(l + j =< l) /\ l + j - l = j
    BY <1>2 DEF Blank
  <2>. QED
    BY <1>2, <2>1, <2>2, <2>3, <2>4
<1>5. ASSUME NEW n \in 1..Len(w) + Blank PROVE (w \o v)[n] = Byte(Blank * s - Len(w) + n)
  <2>1. CASE n \in 1..Len(w)
    BY <2>1, <1>4 DEF BytesFrom
  <2>2. CASE n \notin 1..Len(w)
    <3>1. PICK j \in 1..Blank : n = Len(w) + j
      <4>1. n - Len(w) \in 1..Blank /\ n = Len(w) + (n - Len(w))
        <5>1. PICK l \in Nat : l = Len(w)
          BY <1>3
        <5>. QED
          BY <2>2, <5>1 DEF Blank
      <4>. QED
        BY <4>1
    <3>2. Blank * s - Len(w) + n = Blank * s + j
      BY <3>1 DEF Blank
    <3>. QED
      BY <3>1, <3>2, <1>2, <1>4, ByteOf
  <2>. QED
    BY <2>1, <2>2
<1>. QED
  BY <1>1, <1>4, <1>5 DEF BytesFrom

\* A part of what was sent.
LEMMA PartBytes ==
    ASSUME NEW S, NEW b \in Seq(S), NEW d \in Int, BytesFrom(b, d), NEW m \in Nat, NEW n \in 0..Len(b), m =< n
    PROVE  /\ SubSeq(b, m + 1, n) \in Seq(S)
           /\ Len(SubSeq(b, m + 1, n)) = n - m
           /\ BytesFrom(SubSeq(b, m + 1, n), d + m)
<1>1. PICK u : u = SubSeq(b, m + 1, n)
  OBVIOUS
<1>2. u \in Seq(S) /\ Len(u) = n - m /\ \A i \in 1..n - m : u[i] = b[m + i]
  <2>1. \A i \in m + 1..n : b[i] \in S
    OBVIOUS
  <2>. QED
    BY <1>1, <2>1, SubSeqProperties
<1>3. \A i \in 1..n - m : u[i] = Byte(d + m + i)
  <2>1. ASSUME NEW i \in 1..n - m PROVE u[i] = Byte(d + m + i)
    <3>1. m + i \in 1..Len(b) /\ d + (m + i) = d + m + i
      OBVIOUS
    <3>. QED
      BY <3>1, <1>2 DEF BytesFrom
  <2>. QED
    BY <2>1
<1>. QED
  BY <1>1, <1>2, <1>3 DEF BytesFrom

LEMMA RestBytes ==
    ASSUME NEW S, NEW b \in Seq(S), NEW d \in Int, BytesFrom(b, d), Blank =< Len(b)
    PROVE  /\ SubSeq(b, Blank + 1, Len(b)) \in Seq(S)
           /\ Len(SubSeq(b, Blank + 1, Len(b))) = Len(b) - Blank
           /\ BytesFrom(SubSeq(b, Blank + 1, Len(b)), d + Blank)
<1>1. Blank \in Nat /\ Len(b) \in 0..Len(b)
  BY DEF Blank
<1>. QED
  BY <1>1, PartBytes, Zenon

\* The bytes of the next request, as far as they have come.
LEMMA FirstBytes ==
    ASSUME NEW S, NEW b \in Seq(S), NEW q \in Nat, BytesFrom(b, Blank * q)
    PROVE  \A j \in 1..Blank : j =< Len(b) => b[j] = <<q + 1, j>>
BY ByteOf DEF BytesFrom

LEMMA FirstLine ==
    ASSUME NEW S, NEW b \in Seq(S), NEW q \in Nat, BytesFrom(b, Blank * q), Len(b) >= NewLine
    PROVE  FirstLineIndex(b) = NewLine
<1> DEFINE feeds == {j \in DOMAIN b : b[j][2] = NewLine}
<1>1. b[1] = <<q + 1, 1>> /\ b[2] = <<q + 1, 2>>
  BY FirstBytes DEF Blank, NewLine
<1>2. 2 \in feeds /\ 1 \notin feeds /\ feeds \subseteq 1..Len(b)
  BY <1>1 DEF NewLine
<1>3. \A j \in feeds : (\A i \in feeds : j =< i) => j = 2
  BY <1>2
<1>4. \A i \in feeds : 2 =< i
  BY <1>2
<1>5. (CHOOSE j \in feeds : \A i \in feeds : j =< i) = 2
  <2> HIDE DEF feeds
  <2>. QED
    BY <1>2, <1>3, <1>4
<1>6. feeds # {}
  BY <1>2
<1>. QED
  BY <1>5, <1>6 DEF FirstLineIndex, NewLine

\* Of a request cut short only the missing line feed at the end goes unnoticed.
LEMMA ParsedNext ==
    ASSUME NEW S, NEW b \in Seq(S), NEW q \in Nat, BytesFrom(b, Blank * q), b # <<>>
    PROVE  /\ IsNumber(b)
           /\ NextIndex(b) \in Nat
           /\ Parsed(Xml(b)) \subseteq {q + 1}
           /\ Parsed(Xml(b)) # {} => Len(b) >= Blank - 1 /\ NextIndex(b) = Blank
<1>1. PICK l \in Nat : l = Len(b) /\ l >= 1
  BY EmptySeq
<1>2. IsNumber(b)
  BY <1>1, FirstBytes DEF IsNumber, Digits, Blank
<1>3. CASE Len(b) < NewLine
  <2>1. l = 1
    BY <1>1, <1>3 DEF NewLine
  <2>2. FirstLineIndex(b) = 0
    <3>1. b[1][2] = 1 /\ DOMAIN b = {1}
      <4>1. 1 \in 1..Blank /\ 1 =< Len(b)
        BY <1>1 DEF Blank
      <4>2. b[1] = <<q + 1, 1>>
        BY <4>1, FirstBytes
      <4>. QED
        <5>1. b[1][2] = 1
          BY <4>2
        <5>2. DOMAIN b = 1..1
          BY <1>1, <2>1, LenProperties, Zenon
        <5>. QED
          BY <5>1, <5>2
    <3>. QED
      BY <3>1 DEF FirstLineIndex, NewLine
  <2>3. Xml(b) = SubSeq(b, 1, 1)
    BY <1>1, <2>1, <2>2 DEF Xml, Lesser, XmlLength, Blank, NewLine
  <2>4. Len(Xml(b)) = 1
    BY <1>1, <2>1, <2>3
  <2>5. \A k : Len(SubSeq(Wire(k), NewLine + 1, Blank)) = 3 /\ Len(SubSeq(Wire(k), NewLine + 1, Blank - 1)) = 2
    BY DEF Wire, Blank, NewLine
  <2>6. Parsed(Xml(b)) = {}
    <3>1. \A k : Xml(b) # SubSeq(Wire(k), NewLine + 1, Blank) /\ Xml(b) # SubSeq(Wire(k), NewLine + 1, Blank - 1)
      <4>1. \A m \in {2, 3} : m # 1
        OBVIOUS
      <4>2. \A m : Len(m) \in {2, 3} => Xml(b) # m
        BY <2>4, <4>1, Zenon
      <4>3. ASSUME NEW k, NEW u, u \in {SubSeq(Wire(k), NewLine + 1, Blank), SubSeq(Wire(k), NewLine + 1, Blank - 1)}
            PROVE  Xml(b) # u
        <5>1. Len(u) \in {2, 3}
          BY <2>5, <4>3
        <5>. QED
          BY <4>2, <5>1
      <4>. QED
        BY <4>3
    <3>. QED
      BY <3>1, Zenon DEF Parsed
  <2>. QED
    BY <1>2, <2>2, <2>6 DEF NextIndex, XmlLength, Blank, NewLine
<1>4. CASE Len(b) >= NewLine
  <2>1. FirstLineIndex(b) = NewLine
    BY <1>4, FirstLine
  <2>2. PICK n : n = Lesser(Blank, l)
    OBVIOUS
  <2>3. n \in 2..Blank /\ n =< l
    <3>1. l >= 2
      BY <1>1, <1>4 DEF NewLine
    <3>. QED
      BY <2>2, <3>1 DEF Lesser, Blank
  <2>4. Xml(b) = SubSeq(b, 3, n)
    BY <1>1, <2>1, <2>2 DEF Xml, XmlLength, Blank, NewLine
  <2>5. PICK x : x = Xml(b)
    OBVIOUS
  <2>6. Len(x) = n - 2 /\ \A j \in 1..n - 2 : x[j] = <<q + 1, j + 2>>
    <3>1. \A i \in 3..n : b[i] = <<q + 1, i>>
      BY <1>1, <2>3, FirstBytes DEF Blank
    <3>2. \A i \in 3..n : b[i] \in S
      BY <1>1, <2>3 DEF Blank
    <3>3. Len(x) = n - 2 /\ \A j \in 1..n - 2 : x[j] = b[j + 2]
      <4>1. n - 3 + 1 = n - 2 /\ (3 =< n <=> n # 2) /\ \A j : j \in 1..n - 2 => 3 + j - 1 = j + 2
        BY <2>3 DEF Blank
      <4>. QED
        BY <2>3, <2>4, <2>5, <3>2, SubSeqProperties DEF Blank
    <3>. QED
      BY <2>3, <3>1, <3>3 DEF Blank
  <2>7. DOMAIN x = 1..n - 2
    BY <2>3, <2>4, <2>5 DEF Blank
  <2>8. Parsed(x) \subseteq {q + 1}
    BY <2>6, <2>7 DEF Parsed
  <2>9. ASSUME Parsed(x) # {} PROVE n >= 4
    <3>1. \A k : Len(SubSeq(Wire(k), NewLine + 1, Blank)) = 3 /\ Len(SubSeq(Wire(k), NewLine + 1, Blank - 1)) = 2
      BY DEF Wire, Blank, NewLine
    <3>2. Len(x) \in {2, 3}
      BY <2>9, <3>1 DEF Parsed
    <3>. QED
      BY <2>6, <3>2, <2>3 DEF Blank
  <2>10. NextIndex(b) = Blank
    BY <2>1 DEF NextIndex, XmlLength, Blank, NewLine
  <2>. QED
    BY <1>1, <1>2, <2>3, <2>5, <2>8, <2>9, <2>10 DEF Blank
<1>. QED
  BY <1>1, <1>3, <1>4 DEF NewLine
-----------------------------------------------------------------------------
(* The children of a request                                                *)

LEMMA ItemsOfCreate ==
    ASSUME NEW kids, IsList(kids), \A k \in DOMAIN kids : IsCreated(kids[k])
    PROVE  /\ IsList(Items(kids))
           /\ \A k \in 1..Len(Items(kids)) :
                 IsElement(Items(kids)[k]) /\ Items(kids)[k].tag \notin {"order", "query", "cancel"}
<1> DEFINE Symbol(k) == kids[k].tag = "symbol" /\ kids[k].accounts # <<>>
           P == Range(kids) \cup UNION {Range(kids[k].accounts) : k \in {j \in DOMAIN kids : kids[j].tag = "symbol"}}
           E == {e \in P : IsElement(e) /\ e.tag \notin {"order", "query", "cancel"}}
           parts == [j \in DOMAIN kids |-> IF Symbol(j) THEN kids[j].accounts ELSE <<kids[j]>>]
<1>1. DOMAIN kids = 1..Len(kids) /\ Len(kids) \in Nat
  BY ListFacts
<1>2. ASSUME NEW k \in DOMAIN kids PROVE parts[k] \in Seq(E)
  <2>1. IsCreated(kids[k]) /\ IsElement(kids[k]) /\ kids[k].tag \notin {"order", "query", "cancel"}
    BY DEF IsCreated
  <2>2. CASE Symbol(k)
    <3>1. PICK l : l = kids[k].accounts
      OBVIOUS
    <3>2. /\ IsList(l) /\ parts[k] = l
          /\ \A j \in DOMAIN l : IsElement(l[j]) /\ l[j].tag \notin {"order", "query", "cancel"}
      BY <2>1, <2>2, <3>1 DEF IsCreated
    <3>3. l \in Seq(P)
      <4>1. Range(l) \subseteq P
        BY <2>2, <3>1
      <4>2. l \in Seq(Range(l))
        BY <3>2 DEF IsList
      <4>. QED
        BY <4>1, <4>2, SeqMonotonic
    <3>4. DOMAIN l = 1..Len(l) /\ Len(l) \in Nat
      BY <3>2, ListFacts
    <3>5. \A j \in 1..Len(l) : l[j] \in E
      <4> HIDE DEF P
      <4>. QED
        BY <3>2, <3>3, <3>4
    <3>6. l \in Seq(E)
      <4> HIDE DEF E, P
      <4>. QED
        BY <3>3, <3>4, <3>5
    <3>. QED
      BY <3>2, <3>6
  <2>3. CASE ~Symbol(k)
    <3>1. kids[k] \in E
      BY <2>1 DEF Range
    <3>2. parts[k] = <<kids[k]>>
      BY <2>3
    <3> HIDE DEF E, parts
    <3>. QED
      BY <3>1, <3>2
  <2>. QED
    BY <2>2, <2>3
<1>3. parts \in Seq(Seq(E))
  <2>1. parts = [j \in DOMAIN kids |-> parts[j]]
    OBVIOUS
  <2> HIDE DEF parts, E
  <2>. QED
    BY <1>1, <1>2, <2>1
<1>4. FlattenSeq(parts) \in Seq(E)
  <2> HIDE DEF parts, E
  <2>. QED
    BY <1>3, FlattenType
<1>5. Items(kids) = FlattenSeq(parts)
  BY DEF Items
<1>6. ASSUME NEW i \in Seq(E)
      PROVE  /\ IsList(i)
             /\ \A k \in 1..Len(i) : IsElement(i[k]) /\ i[k].tag \notin {"order", "query", "cancel"}
  <2>1. \A k \in 1..Len(i) : i[k] \in E
    <3> HIDE DEF E
    <3>. QED
      OBVIOUS
  <2>2. IsList(i)
    <3> HIDE DEF E
    <3>. QED
      BY ListOf
  <2>. QED
    BY <2>1, <2>2
<1>. QED
  BY <1>4, <1>5, <1>6

LEMMA ItemsOfTransactions ==
    ASSUME NEW kids, IsList(kids), \A k \in DOMAIN kids : IsTransaction(kids[k])
    PROVE  Items(kids) = kids /\ \A k \in 1..Len(kids) : IsElement(kids[k])
<1> DEFINE Part(j) == IF kids[j].tag = "symbol" /\ kids[j].accounts # <<>> THEN kids[j].accounts ELSE <<kids[j]>>
<1>1. DOMAIN kids = 1..Len(kids) /\ Len(kids) \in Nat
  BY ListFacts
<1>2. \A j \in DOMAIN kids : Part(j) = <<kids[j]>>
  BY DEF IsTransaction
<1>3. Items(kids) = FlattenSeq([j \in DOMAIN kids |-> <<kids[j]>>])
  <2>1. [j \in DOMAIN kids |-> Part(j)] = [j \in DOMAIN kids |-> <<kids[j]>>]
    <3> HIDE DEF Part
    <3>. QED
      BY <1>2
  <2>2. Items(kids) = FlattenSeq([j \in DOMAIN kids |-> Part(j)])
    BY DEF Items
  <2>. QED
    BY <2>1, <2>2, Zenon
<1>4. FlattenSeq([j \in DOMAIN kids |-> <<kids[j]>>]) = kids
  BY FlattenSingles DEF IsList
<1>. QED
  BY <1>1, <1>3, <1>4 DEF IsTransaction

LEMMA ItemsOf ==
    ASSUME NEW r, IsRequest(r), r.root \in {"create", "transactions"}
    PROVE  /\ IsList(r.kids)
           /\ IsList(Items(r.kids))
           /\ \A k \in 1..Len(Items(r.kids)) : IsElement(Items(r.kids)[k])
           /\ r.root = "transactions" => Items(r.kids) = r.kids
           /\ r.root = "create" =>
                  \A k \in 1..Len(Items(r.kids)) : Items(r.kids)[k].tag \notin {"order", "query", "cancel"}
<1>1. CASE r.root = "create"
  BY <1>1, ItemsOfCreate DEF IsRequest
<1>2. CASE r.root = "transactions"
  BY <1>2, ItemsOfTransactions, ListFacts DEF IsRequest
<1>. QED
  BY <1>1, <1>2
-----------------------------------------------------------------------------
(* The inductive invariant                                                  *)

\* A request is being handled.
Working == {"children", "match", "select", "order", "executed"}

Domains ==
    /\ DOMAIN sent = Clients /\ DOMAIN wire = Clients /\ DOMAIN thread = Clients
    /\ DOMAIN request_copy = Clients /\ DOMAIN account = Clients /\ DOMAIN children = Clients
    /\ DOMAIN results = Clients /\ DOMAIN myOrder = Clients /\ DOMAIN answers = Clients

\* The types of c's connection.
Sound(c) ==
    /\ sent[c] \in 0..Len(script[c])
    /\ thread[c] \in Steps
    /\ account[c] \in Accounts
    /\ wire[c] \in Seq((1..sent[c]) \X (1..Blank))
    /\ request_copy[c] \in Seq((1..sent[c]) \X (1..Blank))
    /\ IsList(children[c]) /\ \A k \in 1..Len(children[c]) : IsElement(children[c][k])
    /\ IsList(results[c])
    /\ IsList(answers[c]) /\ \A j \in 1..Len(answers[c]) : IsList(answers[c][j])
    /\ thread[c] = "extract" => request_copy[c] # <<>>
    /\ thread[c] \in {"match", "select", "order", "executed"} => children[c] # <<>>

\* At most one thread is inside the transaction of an order.
Turn ==
    /\ matching # {} <=> \E c \in Clients : thread[c] = "match"
    /\ \A c, d \in Clients : thread[c] = "match" /\ thread[d] = "match" => c = d
    /\ up \/ matching = {}

\* Until its thread ends, c's bytes are answered, received or on their way, in the
\* order they were sent.
Aligned(c) ==
    /\ Len(wire[c]) =< Blank * sent[c]
    /\ BytesFrom(wire[c], Blank * sent[c] - Len(wire[c]))
    /\ up /\ thread[c] \in Working \cup {"start", "recv", "extract"} =>
          /\ Blank * Len(answers[c]) + Len(request_copy[c]) + Len(wire[c]) = Blank * sent[c]
          /\ BytesFrom(request_copy[c], Blank * Len(answers[c]))
          /\ thread[c] \in {"start", "recv"} => request_copy[c] = <<>>

\* The response a to the request r.
Responds(r, a) ==
    \/ /\ Len(a) = Len(Items(r.kids))
       /\ \A k \in DOMAIN Items(r.kids) : Fits(Items(r.kids)[k], a[k])
    \/ a = <<Error("create", "Nothing in tag")>> /\ Items(r.kids) = <<>>
    \/ r.root = "transactions" /\ a = <<Error(r.id, "Account does not exist")>>

\* While the children to come are left of the request r, its response is a so far.
Progress(r, left, a) ==
    \/ /\ Len(a) + Len(left) = Len(Items(r.kids))
       /\ \A k \in 1..Len(a) : Fits(Items(r.kids)[k], a[k])
       /\ \A k \in 1..Len(left) : left[k] = Items(r.kids)[Len(a) + k]
    \/ left = <<>> /\ Responds(r, a)

\* c's thread is at the request after those it has answered.
Halfway(c) ==
    up /\ thread[c] \in Working =>
        /\ Len(request_copy[c]) >= Blank - 1 /\ NextIndex(request_copy[c]) = Blank
        /\ Len(answers[c]) < Len(script[c])
        /\ script[c][Len(answers[c]) + 1].root \in {"create", "transactions"}
        /\ script[c][Len(answers[c]) + 1].root = "transactions" =>
               account[c] = script[c][Len(answers[c]) + 1].id
        /\ Progress(script[c][Len(answers[c]) + 1], children[c], results[c])
        /\ thread[c] \in {"match", "select"} => Head(children[c]).tag = "order"
        /\ thread[c] = "order" => Head(children[c]).tag = "cancel"
        /\ thread[c] = "executed" =>
               Head(children[c]).tag \in {"query", "cancel"} /\ myOrder[c].TransID = Head(children[c]).id

Answered(c) == \A j \in 1..Len(answers[c]) : Responds(script[c][j], answers[c][j])

ConnectionInv(c) == Sound(c) /\ Aligned(c) /\ Halfway(c) /\ Answered(c)

RInv ==
    /\ IInv
    /\ script \in Scripts /\ cut \subseteq Rough /\ up \in BOOLEAN
    /\ Domains /\ Turn
    /\ \A c \in Clients : ConnectionInv(c)
-----------------------------------------------------------------------------
(* What a step leaves alone                                                 *)

Same(d) ==
    /\ sent'[d] = sent[d] /\ wire'[d] = wire[d] /\ thread'[d] = thread[d]
    /\ request_copy'[d] = request_copy[d] /\ account'[d] = account[d] /\ children'[d] = children[d]
    /\ results'[d] = results[d] /\ myOrder'[d] = myOrder[d] /\ answers'[d] = answers[d]

\* A step of c's thread, or of c.
Local(c) ==
    /\ script' = script /\ cut' = cut /\ up' \in BOOLEAN /\ (up' => up)
    /\ Domains'
    /\ \A d \in Clients \ {c} : Same(d)

LEMMA Update ==
    ASSUME NEW f, NEW c, NEW m, NEW D, DOMAIN f = D
    PROVE  /\ DOMAIN [f EXCEPT ![c] = m] = D
           /\ \A d \in D \ {c} : [f EXCEPT ![c] = m][d] = f[d]
           /\ c \in D => [f EXCEPT ![c] = m][c] = m
OBVIOUS

LEMMA AnswerLocal ==
    ASSUME Domains, up \in BOOLEAN, NEW c \in Clients, NEW r, Answer(c, r)
    PROVE  Local(c)
BY DEF Answer, Go, Domains, Local, Same

LEMMA ProceedLocal ==
    ASSUME Domains, up \in BOOLEAN, NEW c \in Clients, NEW step, Proceed(c, step),
           UNCHANGED myOrder \/ \E i : ReadRow(c, i)
    PROVE  Local(c)
BY DEF Proceed, ReadRow, Go, Domains, Local, Same

LEMMA SendLocal ==
    ASSUME Domains, up \in BOOLEAN, NEW c \in Clients, Send(c)
    PROVE  Local(c)
BY DEF Send, Domains, Local, Same

LEMMA StartLocal ==
    ASSUME Domains, up \in BOOLEAN, NEW c \in Clients, Start(c) \/ RecvEnds(c)
    PROVE  Local(c)
BY DEF Start, RecvEnds, Go, Domains, Local, Same

LEMMA RecvLocal ==
    ASSUME Domains, up \in BOOLEAN, NEW c \in Clients, Recv(c)
    PROVE  Local(c)
<1>1. PICK b, w : /\ request_copy' = [request_copy EXCEPT ![c] = b]
                  /\ wire' = [wire EXCEPT ![c] = w]
  BY DEF Recv
<1>. QED
  BY <1>1 DEF Recv, Go, Domains, Local, Same

LEMMA ExtractLocal ==
    ASSUME Domains, up \in BOOLEAN, NEW c \in Clients, Extract(c)
    PROVE  Local(c)
<1>1. /\ UNCHANGED account \/ \E a : account' = [account EXCEPT ![c] = a]
      /\ UNCHANGED children \/ \E k : children' = [children EXCEPT ![c] = k]
      /\ UNCHANGED results \/ \E r : results' = [results EXCEPT ![c] = r]
      /\ UNCHANGED thread \/ \E t : thread' = [thread EXCEPT ![c] = t]
  BY Zenon DEF Extract, BeginRequest, Go
<1>2. UNCHANGED <<script, cut, sent, wire, request_copy, myOrder, answers>> /\ (UNCHANGED up \/ up' = FALSE)
  BY Zenon DEF Extract, Terminate
<1>3. DOMAIN account' = Clients /\ \A d \in Clients \ {c} : account'[d] = account[d]
  BY <1>1, Update DEF Domains
<1>4. DOMAIN children' = Clients /\ \A d \in Clients \ {c} : children'[d] = children[d]
  BY <1>1, Update DEF Domains
<1>5. DOMAIN results' = Clients /\ \A d \in Clients \ {c} : results'[d] = results[d]
  BY <1>1, Update DEF Domains
<1>6. DOMAIN thread' = Clients /\ \A d \in Clients \ {c} : thread'[d] = thread[d]
  BY <1>1, Update DEF Domains
<1>7. up' \in BOOLEAN /\ (up' => up)
  <2>1. CASE UNCHANGED up
    BY <2>1
  <2>2. CASE up' = FALSE
    BY <2>2
  <2>. QED
    BY <1>2, <2>1, <2>2
<1>8. \A d \in Clients \ {c} : Same(d)
  BY <1>2, <1>3, <1>4, <1>5, <1>6 DEF Same
<1>9. Domains'
  BY <1>2, <1>3, <1>4, <1>5, <1>6 DEF Domains
<1>. QED
  BY <1>2, <1>7, <1>8, <1>9, Zenon DEF Local

LEMMA RespondLocal ==
    ASSUME Domains, up \in BOOLEAN, NEW c \in Clients, Respond(c)
    PROVE  Local(c)
<1>1. /\ UNCHANGED request_copy \/ \E b : request_copy' = [request_copy EXCEPT ![c] = b]
      /\ UNCHANGED thread \/ \E t : thread' = [thread EXCEPT ![c] = t]
      /\ \E a : answers' = [answers EXCEPT ![c] = a]
  BY Zenon DEF Respond, Go
<1>2. UNCHANGED <<script, cut, sent, wire, account, children, results, myOrder>> /\ (UNCHANGED up \/ up' = FALSE)
  BY Zenon DEF Respond, Terminate
<1>3. DOMAIN request_copy' = Clients /\ \A d \in Clients \ {c} : request_copy'[d] = request_copy[d]
  BY <1>1, Update DEF Domains
<1>4. DOMAIN thread' = Clients /\ \A d \in Clients \ {c} : thread'[d] = thread[d]
  BY <1>1, Update DEF Domains
<1>5. DOMAIN answers' = Clients /\ \A d \in Clients \ {c} : answers'[d] = answers[d]
  BY <1>1, Update DEF Domains
<1>7. up' \in BOOLEAN /\ (up' => up)
  <2>1. CASE UNCHANGED up
    BY <2>1
  <2>2. CASE up' = FALSE
    BY <2>2
  <2>. QED
    BY <1>2, <2>1, <2>2
<1>8. \A d \in Clients \ {c} : Same(d)
  BY <1>2, <1>3, <1>4, <1>5 DEF Same
<1>9. Domains'
  BY <1>2, <1>3, <1>4, <1>5 DEF Domains
<1>. QED
  BY <1>2, <1>7, <1>8, <1>9, Zenon DEF Local

\* What holds of the other connections is not disturbed.
LEMMA OthersKept ==
    ASSUME NEW c \in Clients, Local(c), NEW d \in Clients \ {c}, ConnectionInv(d)
    PROVE  ConnectionInv(d)'
<1>1. Same(d) /\ script' = script /\ (up' => up)
  BY DEF Local
<1>2. Sound(d)'
  BY <1>1 DEF ConnectionInv, Sound, Same
<1>3. Aligned(d)'
  BY <1>1 DEF ConnectionInv, Aligned, Same, BytesFrom
<1>4. Halfway(d)'
  BY <1>1 DEF ConnectionInv, Halfway, Same, Progress, Responds
<1>5. Answered(d)'
  BY <1>1 DEF ConnectionInv, Answered, Same, Responds
<1>. QED
  BY <1>2, <1>3, <1>4, <1>5 DEF ConnectionInv
-----------------------------------------------------------------------------
(* The children                                                             *)

LEMMA NamesOf ==
    ASSUME NEW kid
    PROVE  /\ kid.tag = "account" => Names(kid) = kid.id /\ SuccessTag(kid) = "created"
           /\ kid.tag = "share" => Names(kid) = <<kid.sym, kid.id>> /\ SuccessTag(kid) = "created"
           /\ kid.tag = "symbol" => Names(kid) = kid.sym
           /\ kid.tag = "order" => Names(kid) = kid /\ SuccessTag(kid) = "opened"
           /\ kid.tag = "query" => Names(kid) = kid.id /\ SuccessTag(kid) = "status"
           /\ kid.tag = "cancel" => Names(kid) = kid.id /\ SuccessTag(kid) = "canceled"
           /\ kid.tag = "other" => Names(kid) = "tag"
<1>1. kid.tag = "account" => Names(kid) = kid.id /\ SuccessTag(kid) = "created"
  BY DEF Names, SuccessTag
<1>2. kid.tag = "share" => Names(kid) = <<kid.sym, kid.id>> /\ SuccessTag(kid) = "created"
  BY DEF Names, SuccessTag
<1>3. kid.tag = "symbol" => Names(kid) = kid.sym
  BY DEF Names
<1>4. kid.tag = "order" => Names(kid) = kid /\ SuccessTag(kid) = "opened"
  BY DEF Names, SuccessTag
<1>5. kid.tag = "query" => Names(kid) = kid.id /\ SuccessTag(kid) = "status"
  BY DEF Names, SuccessTag
<1>6. kid.tag = "cancel" => Names(kid) = kid.id /\ SuccessTag(kid) = "canceled"
  BY DEF Names, SuccessTag
<1>7. kid.tag = "other" => Names(kid) = "tag"
  BY DEF Names
<1>. QED
  BY <1>1, <1>2, <1>3, <1>4, <1>5, <1>6, <1>7

\* c's thread is at a child.
Taking(c) == up /\ thread[c] \in Working /\ children[c] # <<>>

\* What the answer e tells is so.
Truthful(c, e) ==
    /\ e.tag = "created" => e.about \in opened' \ opened \/ e.about \in Symbols \X opened
    /\ e.tag = "opened" => thread[c] = "select" /\ e = Opened(Head(children[c]), Len(orders))
    /\ e.tag = "status" =>
           thread[c] = "executed" /\ e = Status(myOrder[c]) /\ myOrder[c].AccountID = account[c]
    /\ e.tag = "canceled" =>
           thread[c] = "executed" /\ e = Canceled(myOrder[c]) /\ Head(children[c]).tag = "cancel"

\* The child is answered by e.
Answering(c, e) ==
    /\ Taking(c) /\ Answer(c, e) /\ Fits(Head(children[c]), e) /\ Truthful(c, e)
    /\ matching = {} /\ matching' = {}

\* The child's order is filed.
Filed(c) ==
    /\ matching = {} /\ matching' # {}
    /\ Len(orders') = Len(orders) + 1
    /\ orders'[Len(orders')].AccountID = account[c]
    /\ orders'[Len(orders')].SymbolName = Head(children[c]).sym
    /\ orders'[Len(orders')].PriceLimit = Head(children[c]).limit
    /\ orders'[Len(orders')].Amount = Head(children[c]).amount

\* The child goes on to its next step.
Proceeding(c, step) ==
    /\ Taking(c) /\ Proceed(c, step)
    /\ step = "select" \/ (thread[c] # "match" /\ matching = {})
    /\ \/ step = "select" /\ thread[c] = "match" /\ Commit /\ UNCHANGED myOrder
       \/ /\ step = "match" /\ thread[c] = "children" /\ Head(children[c]).tag = "order"
          /\ Filed(c) /\ UNCHANGED myOrder
       \/ /\ step = "order" /\ thread[c] = "children" /\ Head(children[c]).tag = "cancel"
          /\ Head(children[c]).id \in DOMAIN orders /\ orders[Head(children[c]).id].AccountID = account[c]
          /\ orders'[Head(children[c]).id].CancelTime # NOTCANCELLED
          /\ orders'[Head(children[c]).id].Amount # 0
          /\ matching' = {} /\ UNCHANGED myOrder
       \/ /\ step = "executed" /\ ReadRow(c, Head(children[c]).id) /\ matching' = {} /\ UNCHANGED vars
          /\ \/ thread[c] = "order"
             \/ /\ thread[c] = "children" /\ Head(children[c]).tag = "query"
                /\ Head(children[c]).id \in DOMAIN orders

\* A child's step is one of the exchange's, and answers the child or goes on with it.
ChildStep(c) ==
    /\ [Next]_vars
    /\ (MatchTurn(c) /\ matching' = matching) \/ (\E e : Answering(c, e)) \/ (\E step : Proceeding(c, step))

LEMMA Refused ==
    ASSUME NEW c, NEW about, NEW msg, Refuse(c, about, msg), Taking(c), matching = {},
           about = Names(Head(children[c]))
    PROVE  ChildStep(c)
<1>1. Fits(Head(children[c]), Error(about, msg)) /\ Truthful(c, Error(about, msg))
  BY DEF Fits, Error, Truthful
<1>2. Answer(c, Error(about, msg)) /\ UNCHANGED vars /\ matching' = {}
  BY DEF Refuse, vars
<1>3. Answering(c, Error(about, msg))
  BY <1>1, <1>2 DEF Answering
<1>. QED
  BY <1>2, <1>3, Zenon DEF ChildStep

LEMMA Taken ==
    ASSUME RInv, NEW c \in Clients, NEW tag, Takes(c, tag)
    PROVE  Taking(c) /\ thread[c] = "children" /\ matching = {} /\ Head(children[c]).tag = tag /\ IsElement(Head(children[c]))
<1>1. Taking(c) /\ thread[c] = "children" /\ matching = {} /\ Head(children[c]).tag = tag
  BY DEF Takes, At, Taking, Working
<1>2. IsList(children[c]) /\ \A k \in 1..Len(children[c]) : IsElement(children[c][k])
  BY DEF RInv, ConnectionInv, Sound
<1>3. Len(children[c]) \in Nat /\ Len(children[c]) # 0
  BY <1>1, <1>2, ListFacts DEF Taking
<1>4. Head(children[c]) = children[c][1]
  BY <1>1, <1>2 DEF IsList, Taking
<1>. QED
  BY <1>1, <1>2, <1>3, <1>4

LEMMA AccountChildStep ==
    ASSUME RInv, NEW c \in Clients, AccountChild(c)
    PROVE  ChildStep(c)
<1>1. PICK o : o = Head(children[c])
  OBVIOUS
<1>2. Takes(c, "account")
  BY DEF AccountChild
<1>3. Taking(c) /\ thread[c] = "children" /\ matching = {} /\ o.tag = "account" /\ IsElement(o)
  BY <1>1, <1>2, Taken, Zenon
<1>4. Names(o) = o.id /\ SuccessTag(o) = "created"
  BY <1>3, NamesOf
<1>5. CASE Refuse(c, o.id, "Account already exists")
  BY <1>1, <1>3, <1>4, <1>5, Refused
<1>6. CASE CreateAccount(o.id, o.balance) /\ Answer(c, Created(o.id))
  <2>1. o.id \in Accounts /\ o.balance \in Deposits
    BY <1>3 DEF IsElement
  <2>2. Next
    BY <1>6, <2>1 DEF Next
  <2>3. Fits(o, Created(o.id))
    BY <1>4 DEF Fits, Created
  <2>4. Truthful(c, Created(o.id)) /\ matching' = {}
    BY <1>3, <1>6 DEF Truthful, Created, CreateAccount
  <2>5. Answering(c, Created(o.id))
    BY <1>1, <1>3, <1>6, <2>3, <2>4 DEF Answering
  <2>. QED
    BY <2>2, <2>5, Zenon DEF ChildStep
<1>. QED
  BY <1>1, <1>5, <1>6, Zenon DEF AccountChild

LEMMA ShareChildStep ==
    ASSUME RInv, NEW c \in Clients, ShareChild(c)
    PROVE  ChildStep(c)
<1>1. PICK o : o = Head(children[c])
  OBVIOUS
<1>2. Takes(c, "share")
  BY DEF ShareChild
<1>3. Taking(c) /\ thread[c] = "children" /\ matching = {} /\ o.tag = "share" /\ IsElement(o)
  BY <1>1, <1>2, Taken, Zenon
<1>4. Names(o) = <<o.sym, o.id>> /\ SuccessTag(o) = "created"
  BY <1>3, NamesOf
<1>5. CASE Refuse(c, <<o.sym, o.id>>, "Account does not exist")
  BY <1>1, <1>3, <1>4, <1>5, Refused
<1>6. CASE CreatePosition(o.id, o.sym, o.amount) /\ Answer(c, Created(<<o.sym, o.id>>))
  <2>1. o.id \in Accounts /\ o.sym \in Symbols /\ o.amount \in Grants
    BY <1>3 DEF IsElement
  <2>2. Next
    BY <1>6, <2>1 DEF Next
  <2>3. Fits(o, Created(<<o.sym, o.id>>))
    BY <1>4 DEF Fits, Created
  <2>4. Truthful(c, Created(<<o.sym, o.id>>)) /\ matching' = {}
    BY <1>3, <1>6, <2>1 DEF Truthful, Created, CreatePosition
  <2>5. Answering(c, Created(<<o.sym, o.id>>))
    BY <1>1, <1>3, <1>6, <2>3, <2>4 DEF Answering
  <2>. QED
    BY <2>2, <2>5, Zenon DEF ChildStep
<1>. QED
  BY <1>1, <1>5, <1>6, Zenon DEF ShareChild

LEMMA EmptySymbolChildStep ==
    ASSUME RInv, NEW c \in Clients, EmptySymbolChild(c)
    PROVE  ChildStep(c)
<1>1. Takes(c, "symbol") /\ Refuse(c, Head(children[c]).sym, "No account specified")
  BY DEF EmptySymbolChild
<1>2. Taking(c) /\ matching = {} /\ Head(children[c]).tag = "symbol"
  BY <1>1, Taken
<1>. QED
  BY <1>1, <1>2, NamesOf, Refused

LEMMA OtherChildStep ==
    ASSUME RInv, NEW c \in Clients, OtherChild(c)
    PROVE  ChildStep(c)
<1>1. Takes(c, "other") /\ Refuse(c, "tag", "Invalid tag")
  BY DEF OtherChild
<1>2. Taking(c) /\ matching = {} /\ Head(children[c]).tag = "other"
  BY <1>1, Taken
<1>. QED
  BY <1>1, <1>2, NamesOf, Refused

LEMMA FiledOrder ==
    ASSUME RInv, NEW c \in Clients, NEW o, o = Head(children[c]), matching = {},
           CreateTransaction(account[c], o.sym, o.amount, o.limit), FetchVectors(o.sym)
    PROVE  Filed(c)
<1>1. orders \in Seq(OrderRow)
  BY DEF RInv, IInv, TypeOK
<1>2. PICK row : /\ row.AccountID = account[c] /\ row.SymbolName = o.sym /\ row.PriceLimit = o.limit
                 /\ row.Amount = o.amount /\ orders' = Append(orders, row)
  BY DEF CreateTransaction
<1>3. IsList(orders)
  BY <1>1, ListOf
<1>4. Len(orders') = Len(orders) + 1 /\ orders'[Len(orders) + 1] = row
  BY <1>2, <1>3, ListAppend
<1>5. matching' # {}
  BY DEF FetchVectors
<1>. QED
  BY <1>2, <1>4, <1>5 DEF Filed

LEMMA OrderChildStep ==
    ASSUME RInv, NEW c \in Clients, OrderChild(c)
    PROVE  ChildStep(c)
<1>1. PICK o, a : o = Head(children[c]) /\ a = account[c]
  OBVIOUS
<1>2. Takes(c, "order")
  BY DEF OrderChild
<1>3. Taking(c) /\ thread[c] = "children" /\ matching = {} /\ o.tag = "order" /\ IsElement(o)
  BY <1>1, <1>2, Taken, Zenon
<1>4. Names(o) = o
  BY <1>3, NamesOf
<1>5. o.sym \in Symbols /\ o.limit \in Prices /\ o.amount \in {0} \cup Amounts \cup {-n : n \in Amounts} /\ a \in Accounts
  BY <1>1, <1>3 DEF IsElement, RInv, ConnectionInv, Sound
<1>6. CASE \E msg : Refuse(c, o, msg)
  BY <1>1, <1>3, <1>4, <1>6, Refused
<1>7. CASE /\ o.amount > 0 /\ BuyOrder(a, o.sym, o.amount, o.limit)
           /\ Proceed(c, "match") /\ UNCHANGED myOrder
  <2>1. o.amount \in Amounts
    BY <1>5, <1>7, NumbersAssumption
  <2>2. Next
    BY <1>5, <1>7, <2>1 DEF Next
  <2>3. Filed(c)
    BY <1>1, <1>3, <1>7, FiledOrder DEF BuyOrder
  <2>4. Proceeding(c, "match")
    BY <1>1, <1>3, <1>7, <2>3 DEF Proceeding
  <2>. QED
    BY <2>2, <2>4, Zenon DEF ChildStep
<1>8. CASE /\ o.amount < 0 /\ SellOrder(a, o.sym, -o.amount, o.limit)
           /\ Proceed(c, "match") /\ UNCHANGED myOrder
  <2>1. -o.amount \in Amounts
    <3>1. PICK m : m = o.amount /\ m \in {0} \cup Amounts \cup {-n : n \in Amounts} /\ m < 0
      BY <1>5, <1>8
    <3>2. PICK n \in Amounts : m = -n
      <4>1. \A n \in Amounts : n \in Nat
        BY NumbersAssumption
      <4>2. m \notin Amounts /\ m \notin {0}
        BY <3>1, <4>1
      <4>3. m \in {-n : n \in Amounts}
        BY <3>1, <4>2, Zenon
      <4>. QED
        BY <4>3
    <3>. QED
      BY <3>1, <3>2, NumbersAssumption
  <2>2. Next
    BY <1>5, <1>8, <2>1 DEF Next
  <2>3. Filed(c)
    <3>1. -(-o.amount) = o.amount
      <4>1. \A n \in Amounts : n \in Int
        BY NumbersAssumption
      <4>2. o.amount \in Int
        BY <1>5, <4>1
      <4>. QED
        BY <4>2
    <3>2. CreateTransaction(account[c], o.sym, o.amount, o.limit) /\ FetchVectors(o.sym)
      BY <1>1, <1>8, <3>1 DEF SellOrder
    <3>. QED
      BY <1>1, <1>3, <3>2, FiledOrder
  <2>4. Proceeding(c, "match")
    BY <1>1, <1>3, <1>8, <2>3 DEF Proceeding
  <2>. QED
    BY <2>2, <2>4, Zenon DEF ChildStep
<1>. QED
  BY <1>1, <1>6, <1>7, <1>8, Zenon DEF OrderChild

\* Inside the transaction of an order.
LEMMA Inside ==
    ASSUME RInv, NEW c \in Clients, thread[c] = "match"
    PROVE  Taking(c) /\ matching # {} /\ Head(children[c]).tag = "order"
<1>1. matching # {} /\ up
  BY DEF RInv, Turn
<1>2. children[c] # <<>> /\ (up => Head(children[c]).tag = "order")
  BY DEF RInv, ConnectionInv, Sound, Halfway, Working
<1>. QED
  BY <1>1, <1>2 DEF Taking, Working

LEMMA MatchTurnStep ==
    ASSUME RInv, NEW c \in Clients, MatchTurn(c)
    PROVE  ChildStep(c)
<1>1. Next /\ matching' = matching
  BY DEF MatchTurn, Next, MatchHeads
<1>. QED
  BY <1>1, Zenon DEF ChildStep

\* Between two steps of a child.
LEMMA Reading ==
    ASSUME RInv, NEW c \in Clients, NEW step \in {"select", "order", "executed"}, At(c, step)
    PROVE  /\ Taking(c) /\ matching = {} /\ thread[c] = step
           /\ step = "select" => Head(children[c]).tag = "order"
           /\ step = "order" => Head(children[c]).tag = "cancel"
           /\ step = "executed" =>
                  Head(children[c]).tag \in {"query", "cancel"} /\ myOrder[c].TransID = Head(children[c]).id
<1>1. up /\ thread[c] = step /\ matching = {} /\ thread[c] \in Working
  BY DEF At, Working
<1>2. children[c] # <<>>
  BY <1>1 DEF RInv, ConnectionInv, Sound
<1>. QED
  BY <1>1, <1>2 DEF RInv, ConnectionInv, Halfway, Taking

LEMMA CommitChildStep ==
    ASSUME RInv, NEW c \in Clients, CommitChild(c)
    PROVE  ChildStep(c)
<1>1. thread[c] = "match" /\ Commit /\ Proceed(c, "select") /\ UNCHANGED myOrder
  BY DEF CommitChild
<1>2. Taking(c)
  BY <1>1, Inside
<1>3. Next
  BY <1>1 DEF Next
<1>4. Proceeding(c, "select")
  BY <1>1, <1>2 DEF Proceeding
<1>. QED
  BY <1>3, <1>4, Zenon DEF ChildStep

LEMMA SelectMaxStep ==
    ASSUME RInv, NEW c \in Clients, SelectMax(c)
    PROVE  ChildStep(c)
<1>1. PICK o : o = Head(children[c])
  OBVIOUS
<1>2. At(c, "select") /\ UNCHANGED vars /\ Answer(c, Opened(o, Len(orders)))
  BY <1>1 DEF SelectMax
<1>3. Taking(c) /\ matching = {} /\ thread[c] = "select" /\ o.tag = "order"
  BY <1>1, <1>2, Reading
<1>4. Names(o) = o /\ SuccessTag(o) = "opened"
  BY <1>3, NamesOf
<1>5. Fits(o, Opened(o, Len(orders)))
  BY <1>4 DEF Fits, Opened
<1>6. Truthful(c, Opened(o, Len(orders)))
  BY <1>1, <1>3 DEF Truthful, Opened
<1>7. matching' = {}
  BY <1>2, <1>3 DEF vars
<1>8. Answering(c, Opened(o, Len(orders)))
  BY <1>1, <1>2, <1>3, <1>5, <1>6, <1>7 DEF Answering
<1>. QED
  BY <1>2, <1>8, Zenon DEF ChildStep

LEMMA QueryChildStep ==
    ASSUME RInv, NEW c \in Clients, QueryChild(c)
    PROVE  ChildStep(c)
<1>1. PICK o, i : o = Head(children[c]) /\ i = o.id
  OBVIOUS
<1>2. Takes(c, "query")
  BY DEF QueryChild
<1>3. Taking(c) /\ thread[c] = "children" /\ matching = {} /\ o.tag = "query"
  BY <1>1, <1>2, Taken, Zenon
<1>4. CASE Refuse(c, i, "TransactionID does not exist")
  BY <1>1, <1>3, <1>4, NamesOf, Refused
<1>5. CASE i \in DOMAIN orders /\ ReadRow(c, i) /\ Proceed(c, "executed") /\ UNCHANGED vars
  <2>1. matching' = {}
    BY <1>3, <1>5 DEF vars
  <2>2. Proceeding(c, "executed")
    BY <1>1, <1>3, <1>5, <2>1 DEF Proceeding
  <2>. QED
    BY <1>5, <2>2, Zenon DEF ChildStep
<1>. QED
  BY <1>1, <1>4, <1>5, Zenon DEF QueryChild

LEMMA CancelChildStep ==
    ASSUME RInv, NEW c \in Clients, CancelChild(c)
    PROVE  ChildStep(c)
<1>1. PICK o, i : o = Head(children[c]) /\ i = o.id
  OBVIOUS
<1>2. Takes(c, "cancel")
  BY DEF CancelChild
<1>3. Taking(c) /\ thread[c] = "children" /\ matching = {} /\ o.tag = "cancel"
  BY <1>1, <1>2, Taken, Zenon
<1>4. CASE \E msg : Refuse(c, i, msg)
  BY <1>1, <1>3, <1>4, NamesOf, Refused
<1>5. CASE /\ i \in DOMAIN orders /\ orders[i].AccountID = account[c] /\ CancelOrder(i)
           /\ Proceed(c, "order") /\ UNCHANGED myOrder
  <2>1. matching' = {}
    BY <1>3, <1>5 DEF CancelOrder
  <2>2. Next
    BY <1>5 DEF Next
  <2>3. orders'[i].CancelTime # NOTCANCELLED /\ orders'[i].Amount # 0
    <3>1. orders \in Seq(OrderRow) /\ orders[i] \in OrderRow /\ clock \in Nat
      BY <1>5 DEF RInv, IInv, TypeOK
    <3>2. orders'[i] = [orders[i] EXCEPT !.CancelTime = clock] /\ orders[i].Amount # 0
      BY <1>5, <3>1, RowUpdates DEF CancelOrder
    <3>. QED
      BY <3>1, <3>2 DEF OrderRow, NOTCANCELLED
  <2>4. Proceeding(c, "order")
    BY <1>1, <1>3, <1>5, <2>1, <2>3 DEF Proceeding
  <2>. QED
    BY <2>2, <2>4, Zenon DEF ChildStep
<1>. QED
  BY <1>1, <1>4, <1>5, Zenon DEF CancelChild

LEMMA ReadCanceledStep ==
    ASSUME RInv, NEW c \in Clients, ReadCanceled(c)
    PROVE  ChildStep(c)
<1>1. At(c, "order") /\ ReadRow(c, Head(children[c]).id) /\ Proceed(c, "executed") /\ UNCHANGED vars
  BY DEF ReadCanceled
<1>2. Taking(c) /\ matching = {} /\ thread[c] = "order"
  BY <1>1, Reading
<1>3. matching' = {}
  BY <1>1, <1>2 DEF vars
<1>4. Proceeding(c, "executed")
  BY <1>1, <1>2, <1>3 DEF Proceeding
<1>. QED
  BY <1>1, <1>4, Zenon DEF ChildStep

LEMMA ReadExecutedStep ==
    ASSUME RInv, NEW c \in Clients, ReadExecuted(c)
    PROVE  ChildStep(c)
<1>1. PICK o, k : o = myOrder[c] /\ k = Head(children[c])
  OBVIOUS
<1>2. At(c, "executed") /\ UNCHANGED vars
  BY DEF ReadExecuted
<1>3. /\ Taking(c) /\ matching = {} /\ thread[c] = "executed"
      /\ k.tag \in {"query", "cancel"} /\ o.TransID = k.id
  BY <1>1, <1>2, Reading, Zenon
<1>4. matching' = {}
  BY <1>2, <1>3 DEF vars
<1>5. Names(k) = k.id
  BY <1>3, NamesOf
<1>6. PICK e : Answer(c, e) /\ Fits(k, e) /\ Truthful(c, e)
  <2>. PICK deny : deny = Error(o.TransID, "Account does not own transaction, access denied")
    OBVIOUS
  <2>4. \/ k.tag = "query" /\ Answer(c, deny)
        \/ k.tag = "query" /\ o.AccountID = account[c] /\ Answer(c, Status(o))
        \/ k.tag = "cancel" /\ Answer(c, Canceled(o))
    BY <1>1 DEF ReadExecuted
  <2>1. CASE k.tag = "query" /\ Answer(c, deny)
    <3>1. deny.tag = "error" /\ deny.about = k.id
      BY <1>3 DEF Error
    <3>2. Fits(k, deny)
      BY <1>5, <3>1 DEF Fits
    <3>3. Truthful(c, deny)
      BY <3>1 DEF Truthful
    <3>. QED
      BY <2>1, <3>2, <3>3
  <2>2. CASE k.tag = "query" /\ o.AccountID = account[c] /\ Answer(c, Status(o))
    <3>1. SuccessTag(k) = "status"
      BY <2>2, NamesOf
    <3>2. Fits(k, Status(o))
      BY <1>3, <1>5, <3>1 DEF Fits, Status
    <3>3. Truthful(c, Status(o))
      BY <1>1, <1>3, <2>2 DEF Truthful, Status
    <3>. QED
      BY <2>2, <3>2, <3>3
  <2>3. CASE k.tag = "cancel" /\ Answer(c, Canceled(o))
    <3>1. SuccessTag(k) = "canceled"
      BY <2>3, NamesOf
    <3>2. Fits(k, Canceled(o))
      BY <1>3, <1>5, <3>1 DEF Fits, Canceled
    <3>3. Truthful(c, Canceled(o))
      BY <1>1, <1>3, <2>3 DEF Truthful, Canceled
    <3>. QED
      BY <2>3, <3>2, <3>3
  <2>. QED
    BY <2>1, <2>2, <2>3, <2>4, Zenon
<1>7. Answering(c, e)
  BY <1>1, <1>3, <1>4, <1>6 DEF Answering
<1>. QED
  BY <1>2, <1>7, Zenon DEF ChildStep

LEMMA ChildSteps ==
    ASSUME RInv, NEW c \in Clients, Child(c)
    PROVE  ChildStep(c)
BY AccountChildStep, ShareChildStep, EmptySymbolChildStep, OtherChildStep, OrderChildStep, MatchTurnStep,
   CommitChildStep, SelectMaxStep, QueryChildStep, CancelChildStep, ReadCanceledStep, ReadExecutedStep, Zenon DEF Child
-----------------------------------------------------------------------------
(* The invariant is kept                                                    *)

LEMMA ListTail ==
    ASSUME NEW l, IsList(l), l # <<>>
    PROVE  /\ IsList(Tail(l)) /\ Len(Tail(l)) = Len(l) - 1 /\ Len(l) \in Nat
           /\ Head(l) = l[1] /\ 1 \in 1..Len(l)
           /\ \A k \in 1..Len(Tail(l)) : Tail(l)[k] = l[k + 1] /\ k + 1 \in 1..Len(l)
<1>1. PICK S : l \in Seq(S)
  BY DEF IsList
<1>2. Tail(l) \in Seq(S) /\ Len(Tail(l)) = Len(l) - 1 /\ Len(l) \in Nat /\ Len(l) >= 1
  BY <1>1, EmptySeq, HeadTailProperties
<1>3. Head(l) = l[1] /\ \A k \in 1..Len(Tail(l)) : Tail(l)[k] = l[k + 1]
  BY <1>1, HeadTailProperties
<1>4. IsList(Tail(l))
  BY <1>2, ListOf
<1>. QED
  BY <1>2, <1>3, <1>4

LEMMA ProgressKept ==
    ASSUME NEW r, NEW left, NEW a, NEW e, IsList(left), IsList(a), left # <<>>,
           Progress(r, left, a), Fits(Head(left), e)
    PROVE  Progress(r, Tail(left), Append(a, e))
<1>1. PICK m, n, i : m = Len(a) /\ n = Len(left) /\ i = Items(r.kids)
  OBVIOUS
<1>2. m \in Nat /\ n \in Nat /\ n >= 1 /\ Len(Tail(left)) = n - 1 /\ Len(Append(a, e)) = m + 1
  BY <1>1, ListTail, ListAppend
<1>3. m + n = Len(i) /\ (\A k \in 1..m : Fits(i[k], a[k])) /\ \A k \in 1..n : left[k] = i[m + k]
  BY <1>1 DEF Progress
<1>4. ASSUME NEW k \in 1..m + 1 PROVE Fits(i[k], Append(a, e)[k])
  <2>1. CASE k \in 1..m
    BY <1>1, <1>3, <2>1, ListAppend
  <2>2. CASE k = m + 1
    <3>1. i[m + 1] = left[1]
      BY <1>2, <1>3
    <3>2. Append(a, e)[m + 1] = e /\ left[1] = Head(left)
      BY <1>1, ListAppend, ListTail
    <3>. QED
      BY <2>2, <3>1, <3>2
  <2>. QED
    BY <1>2, <2>1, <2>2
<1>5. ASSUME NEW k \in 1..n - 1 PROVE Tail(left)[k] = i[m + 1 + k]
  <2>1. Tail(left)[k] = left[k + 1] /\ k + 1 \in 1..n
    BY <1>1, <1>2, ListTail
  <2>2. m + (k + 1) = m + 1 + k
    BY <1>2
  <2>. QED
    BY <1>3, <2>1, <2>2
<1>6. m + 1 + (n - 1) = Len(i)
  BY <1>2, <1>3
<1>. QED
  BY <1>1, <1>2, <1>4, <1>5, <1>6 DEF Progress

LEMMA AnsweringKeeps ==
    ASSUME RInv, NEW c \in Clients, NEW e, Answering(c, e)
    PROVE  ConnectionInv(c)'
<1>1. /\ Sound(c) /\ Aligned(c) /\ Halfway(c) /\ Answered(c) /\ Domains
      /\ up /\ thread[c] \in Working /\ children[c] # <<>> /\ Fits(Head(children[c]), e)
  BY DEF RInv, ConnectionInv, Answering, Taking
<1>2. /\ thread'[c] = "children" /\ results'[c] = Append(results[c], e) /\ children'[c] = Tail(children[c])
      /\ UNCHANGED <<script, up, sent, wire, request_copy, account, answers>>
  BY <1>1 DEF Answering, Answer, Go, Domains
<1>3. Sound(c)'
  <2>1. IsList(results'[c]) /\ IsList(children'[c])
    BY <1>1, <1>2, ListAppend, ListTail DEF Sound
  <2>2. \A k \in 1..Len(children'[c]) : IsElement(children'[c][k])
    BY <1>1, <1>2, ListTail DEF Sound
  <2>3. thread'[c] \in Steps /\ thread'[c] # "extract" /\ thread'[c] \notin {"match", "select", "order", "executed"}
    BY <1>2 DEF Steps
  <2>. QED
    BY <1>1, <1>2, <2>1, <2>2, <2>3 DEF Sound
<1>4. Aligned(c)'
  <2>1. thread[c] \in Working \cup {"start", "recv", "extract"} /\ thread'[c] \notin {"start", "recv"}
    BY <1>1, <1>2
  <2>. QED
    BY <1>1, <1>2, <2>1 DEF Aligned, BytesFrom
<1>5. Halfway(c)'
  <2>1. PICK r : r = script[c][Len(answers[c]) + 1]
    OBVIOUS
  <2>2. Progress(r, children[c], results[c])
    BY <1>1, <2>1 DEF Halfway
  <2>3. Progress(r, Tail(children[c]), Append(results[c], e))
    BY <1>1, <2>2, ProgressKept DEF Sound
  <2>4. Progress(r, children[c], results[c])'
    BY <1>2, <2>1, <2>3 DEF Progress, Responds
  <2>5. thread'[c] \notin {"match", "select", "order", "executed"}
    BY <1>2
  <2>. QED
    BY <1>1, <1>2, <2>1, <2>4, <2>5 DEF Halfway
<1>6. Answered(c)'
  BY <1>1, <1>2 DEF Answered, Responds
<1>. QED
  BY <1>3, <1>4, <1>5, <1>6 DEF ConnectionInv

LEMMA ProceedingKeeps ==
    ASSUME RInv, NEW c \in Clients, NEW step, Proceeding(c, step)
    PROVE  ConnectionInv(c)'
<1>1. /\ Sound(c) /\ Aligned(c) /\ Halfway(c) /\ Answered(c) /\ Domains
      /\ up /\ thread[c] \in Working /\ children[c] # <<>>
  BY DEF RInv, ConnectionInv, Proceeding, Taking
<1>2. /\ thread'[c] = step /\ step \in {"match", "select", "order", "executed"}
      /\ UNCHANGED <<script, up, sent, wire, request_copy, account, children, results, answers>>
  BY <1>1 DEF Proceeding, Proceed, Go, Domains
<1>3. Sound(c)'
  <2>1. thread'[c] \in Steps /\ thread'[c] # "extract"
    BY <1>2 DEF Steps
  <2>. QED
    BY <1>1, <1>2, <2>1 DEF Sound
<1>4. Aligned(c)'
  <2>1. thread[c] \in Working \cup {"start", "recv", "extract"} /\ thread'[c] \notin {"start", "recv"}
    BY <1>1, <1>2
  <2>. QED
    BY <1>1, <1>2, <2>1 DEF Aligned, BytesFrom
<1>5. Halfway(c)'
  <2>1. Progress(script[c][Len(answers[c]) + 1], children[c], results[c])'
    BY <1>1, <1>2 DEF Halfway, Progress, Responds
  <2>2. step \in {"match", "select"} => Head(children[c]).tag = "order"
    BY <1>1 DEF Proceeding, Halfway
  <2>3. step = "order" => Head(children[c]).tag = "cancel"
    BY DEF Proceeding
  <2>4. step = "executed" =>
            Head(children[c]).tag \in {"query", "cancel"} /\ myOrder'[c].TransID = Head(children[c]).id
    BY <1>1 DEF Proceeding, ReadRow, GetOrder, Domains, Halfway
  <2>. QED
    BY <1>1, <1>2, <2>1, <2>2, <2>3, <2>4 DEF Halfway
<1>6. Answered(c)'
  BY <1>1, <1>2 DEF Answered, Responds
<1>. QED
  BY <1>3, <1>4, <1>5, <1>6 DEF ConnectionInv

LEMMA SendKeeps ==
    ASSUME RInv, NEW c \in Clients, Send(c)
    PROVE  ConnectionInv(c)'
<1>1. Sound(c) /\ Aligned(c) /\ Halfway(c) /\ Answered(c) /\ Domains
  BY DEF RInv, ConnectionInv
<1>2. PICK s, w : s = sent[c] /\ w = wire[c]
  OBVIOUS
<1>3. /\ sent'[c] = s + 1 /\ s < Len(script[c]) /\ wire'[c] = w \o Wire(s + 1)
      /\ UNCHANGED <<script, up, thread, request_copy, account, children, results, myOrder, answers>>
  BY <1>1, <1>2 DEF Send, Domains
<1>4. s \in 0..Len(script[c]) /\ Len(script[c]) \in Nat /\ s \in Nat
  <2>1. IsList(script[c])
    BY RequestsAssumption DEF RInv
  <2>2. Len(script[c]) \in Nat
    BY <2>1, ListFacts
  <2>. QED
    BY <1>1, <1>2, <2>2 DEF Sound
<1>5. w \in Seq((1..s) \X (1..Blank)) /\ Len(w) =< Blank * s /\ BytesFrom(w, Blank * s - Len(w)) /\ Len(w) \in Nat
  BY <1>1, <1>2 DEF Sound, Aligned
<1>6. /\ wire'[c] \in Seq((1..s + 1) \X (1..Blank))
      /\ Len(wire'[c]) = Len(w) + Blank
      /\ BytesFrom(wire'[c], Blank * s - Len(w))
  BY <1>3, <1>4, <1>5, SentBytes
<1>7. Blank * (s + 1) = Blank * s + Blank /\ Blank * s \in Nat /\ Blank \in Nat
  BY <1>4 DEF Blank
<1>8. Sound(c)'
  <2>1. request_copy[c] \in Seq((1..s + 1) \X (1..Blank))
    <3>1. (1..s) \X (1..Blank) \subseteq (1..s + 1) \X (1..Blank)
      BY <1>4
    <3>. QED
      BY <1>1, <1>2, <3>1, SeqMonotonic DEF Sound
  <2>2. sent'[c] \in 0..Len(script[c])
    BY <1>3, <1>4
  <2>. QED
    BY <1>1, <1>3, <1>6, <2>1, <2>2 DEF Sound
<1>9. Aligned(c)'
  <2>1. Len(wire'[c]) =< Blank * sent'[c]
    BY <1>3, <1>5, <1>6, <1>7
  <2>2. Blank * sent'[c] - Len(wire'[c]) = Blank * s - Len(w)
    BY <1>3, <1>5, <1>6, <1>7
  <2>3. \A m, n \in Int : m + n + Len(w) = Blank * s => m + n + Len(wire'[c]) = Blank * sent'[c]
    <3>1. PICK z, b, l, t \in Int : z = Blank * s /\ b = Blank /\ l = Len(w) /\ t = Blank * sent'[c]
      BY <1>3, <1>5, <1>7
    <3>2. t = z + b /\ Len(wire'[c]) = l + b
      BY <1>3, <1>6, <1>7, <3>1
    <3>3. \A m, n \in Int : m + n + l = z => m + n + (l + b) = z + b
      BY <3>1
    <3>. QED
      BY <3>1, <3>2, <3>3
  <2>4. BytesFrom(wire'[c], Blank * sent'[c] - Len(wire'[c]))
    BY <1>6, <2>2
  <2>5. Blank * Len(answers[c]) \in Int /\ Len(request_copy[c]) \in Int
    BY <1>1, ListFacts DEF Sound, Blank
  <2>6. Blank * Len(answers[c]) + Len(request_copy[c]) + Len(w) = Blank * s =>
            Blank * Len(answers[c]) + Len(request_copy[c]) + Len(wire'[c]) = Blank * sent'[c]
    BY <2>3, <2>5
  <2>. QED
    BY <1>1, <1>2, <1>3, <2>1, <2>4, <2>6 DEF Aligned, BytesFrom
<1>10. Halfway(c)'
  BY <1>1, <1>3 DEF Halfway, Progress, Responds
<1>11. Answered(c)'
  BY <1>1, <1>3 DEF Answered, Responds
<1>. QED
  BY <1>8, <1>9, <1>10, <1>11 DEF ConnectionInv

LEMMA StartKeeps ==
    ASSUME RInv, NEW c \in Clients, Start(c) \/ RecvEnds(c)
    PROVE  ConnectionInv(c)'
<1>1. Sound(c) /\ Aligned(c) /\ Halfway(c) /\ Answered(c) /\ Domains
  BY DEF RInv, ConnectionInv
<1>2. /\ thread[c] \in {"start", "recv"} /\ thread'[c] \in {"recv", "failed", "closed"}
      /\ thread[c] = "start" \/ thread'[c] \in {"failed", "closed"}
      /\ UNCHANGED <<script, up, sent, wire, request_copy, account, children, results, myOrder, answers>>
  BY <1>1 DEF Start, RecvEnds, At, Go, Domains
<1>3. Sound(c)'
  BY <1>1, <1>2 DEF Sound, Steps
<1>4. Aligned(c)'
  <2>1. thread[c] \in Working \cup {"start", "recv", "extract"}
    BY <1>2
  <2>2. up => request_copy[c] = <<>>
    BY <1>1, <1>2, <2>1 DEF Aligned
  <2>. QED
    BY <1>1, <1>2, <2>1, <2>2 DEF Aligned, BytesFrom
<1>5. Halfway(c)'
  BY <1>2 DEF Halfway, Working
<1>6. Answered(c)'
  BY <1>1, <1>2 DEF Answered, Responds
<1>. QED
  BY <1>3, <1>4, <1>5, <1>6 DEF ConnectionInv

LEMMA RecvKeeps ==
    ASSUME RInv, NEW c \in Clients, Recv(c)
    PROVE  ConnectionInv(c)'
<1>1. Sound(c) /\ Aligned(c) /\ Halfway(c) /\ Answered(c) /\ Domains
  BY DEF RInv, ConnectionInv
<1>2. PICK n \in 1..Len(wire[c]) :
          /\ request_copy' = [request_copy EXCEPT ![c] = SubSeq(wire[c], 1, n)]
          /\ wire' = [wire EXCEPT ![c] = SubSeq(@, n + 1, Len(@))]
  BY DEF Recv
<1>3. PICK w, q, s, l : w = wire[c] /\ q = Len(answers[c]) /\ s = sent[c] /\ l = Len(w)
  OBVIOUS
<1>4. /\ request_copy'[c] = SubSeq(w, 1, n) /\ wire'[c] = SubSeq(w, n + 1, l)
      /\ up /\ thread[c] = "recv" /\ thread'[c] = "extract"
      /\ UNCHANGED <<script, up, sent, account, children, results, myOrder, answers>>
  BY <1>1, <1>2, <1>3 DEF Recv, At, Go, Domains
<1>5. /\ w \in Seq((1..s) \X (1..Blank)) /\ l \in Nat /\ n \in 1..l /\ s \in Nat /\ q \in Nat
      /\ request_copy[c] = <<>> /\ Blank * q + l = Blank * s
      /\ BytesFrom(w, Blank * s - l)
  <2>1. thread[c] \in Working \cup {"start", "recv", "extract"} /\ thread[c] \in {"start", "recv"}
    BY <1>4
  <2>2. w \in Seq((1..s) \X (1..Blank)) /\ l \in Nat /\ s \in Nat /\ q \in Nat
    <3>1. s \in 0..Len(script[c]) /\ IsList(answers[c]) /\ w \in Seq((1..s) \X (1..Blank))
      BY <1>1, <1>3 DEF Sound
    <3>. QED
      BY <1>3, <3>1, ListFacts
  <2>3. request_copy[c] = <<>> /\ Blank * q + Len(request_copy[c]) + l = Blank * s /\ BytesFrom(w, Blank * s - l)
    BY <1>1, <1>3, <1>4, <2>1 DEF Aligned
  <2>4. Blank * q + 0 + l = Blank * q + l
    BY <2>2 DEF Blank
  <2>. QED
    BY <1>2, <1>3, <2>2, <2>3, <2>4, EmptySeq
<1>6. PICK d, z \in Int : d = Blank * q /\ z = Blank * s /\ d + l = z /\ z - l = d
  <2>1. PICK d, z \in Int : d = Blank * q /\ z = Blank * s
    <3>1. q \in Nat /\ s \in Nat
      BY <1>5
    <3>2. Blank * q \in Int /\ Blank * s \in Int
      BY <3>1 DEF Blank
    <3>. QED
      BY <3>2
  <2>2. d + l = z /\ l \in Nat
    BY <1>5, <2>1
  <2>3. z - l = d
    BY <2>1, <2>2
  <2>. QED
    BY <2>1, <2>2, <2>3
<1>. PICK S : S = (1..s) \X (1..Blank)
  OBVIOUS
<1>7. /\ SubSeq(w, 1, n) \in Seq(S) /\ Len(SubSeq(w, 1, n)) = n
      /\ BytesFrom(SubSeq(w, 1, n), d)
  <2>1. /\ SubSeq(w, 0 + 1, n) \in Seq(S) /\ Len(SubSeq(w, 0 + 1, n)) = n - 0
        /\ BytesFrom(SubSeq(w, 0 + 1, n), d + 0)
    <3>1. 0 \in Nat /\ n \in 0..Len(w) /\ 0 =< n /\ BytesFrom(w, d) /\ w \in Seq(S) /\ d \in Int
      BY <1>3, <1>5, <1>6
    <3>. QED
      BY <3>1, PartBytes, Zenon
  <2>2. 0 + 1 = 1 /\ n - 0 = n /\ d + 0 = d
    BY <1>5, <1>6
  <2>. QED
    BY <2>1, <2>2
<1>8. /\ SubSeq(w, n + 1, l) \in Seq(S) /\ Len(SubSeq(w, n + 1, l)) = l - n
      /\ BytesFrom(SubSeq(w, n + 1, l), d + n)
  <2>1. n \in Nat /\ l \in 0..Len(w) /\ n =< l /\ BytesFrom(w, d) /\ w \in Seq(S) /\ d \in Int
    BY <1>3, <1>5, <1>6
  <2>. QED
    BY <2>1, PartBytes, Zenon
<1>9. Sound(c)'
  <2>1. SubSeq(w, 1, n) # <<>>
    <3>1. Len(SubSeq(w, 1, n)) # 0
      BY <1>5, <1>7
    <3>. QED
      BY <3>1, EmptySeq
  <2>. QED
    BY <1>1, <1>3, <1>4, <1>7, <1>8, <2>1 DEF Sound, Steps
<1>10. Aligned(c)'
  <2>1. Len(wire'[c]) = l - n /\ Len(request_copy'[c]) = n
    BY <1>4, <1>7, <1>8
  <2>2. l - n =< z /\ z - (l - n) = d + n /\ d + n + (l - n) = z
    <3>1. d >= 0
      BY <1>5, <1>6 DEF Blank
    <3>. QED
      BY <1>5, <1>6, <3>1
  <2>3. Len(wire'[c]) =< Blank * sent'[c] /\ Blank * sent'[c] - Len(wire'[c]) = d + n
    BY <1>3, <1>4, <1>6, <2>1, <2>2
  <2>4. Blank * Len(answers'[c]) = d /\ Blank * Len(answers'[c]) + Len(request_copy'[c]) + Len(wire'[c]) = Blank * sent'[c]
    BY <1>3, <1>4, <1>6, <2>1, <2>2
  <2>5. thread'[c] \notin {"start", "recv"}
    BY <1>4
  <2>6. BytesFrom(wire'[c], Blank * sent'[c] - Len(wire'[c]))
    BY <1>4, <1>8, <2>3
  <2>7. BytesFrom(request_copy'[c], Blank * Len(answers'[c]))
    BY <1>4, <1>7, <2>4
  <2>8. BytesFrom(wire[c], Blank * sent[c] - Len(wire[c]))' /\ BytesFrom(request_copy[c], Blank * Len(answers[c]))'
    BY <2>6, <2>7 DEF BytesFrom
  <2>. QED
    BY <2>3, <2>4, <2>5, <2>8, Zenon DEF Aligned
<1>11. Halfway(c)'
  BY <1>4 DEF Halfway, Working
<1>12. Answered(c)'
  BY <1>1, <1>4 DEF Answered, Responds
<1>. QED
  BY <1>9, <1>10, <1>11, <1>12 DEF ConnectionInv

\* What the thread has in hand when it is about to look for the next request, or in one.
LEMMA InHand ==
    ASSUME RInv, NEW c \in Clients, up, thread[c] \in Working \cup {"extract"}, request_copy[c] # <<>>
    PROVE  /\ Len(answers[c]) \in Nat /\ sent[c] \in Nat
           /\ request_copy[c] \in Seq((1..sent[c]) \X (1..Blank))
           /\ BytesFrom(request_copy[c], Blank * Len(answers[c]))
           /\ Len(request_copy[c]) >= Blank - 1 =>
                  Len(answers[c]) + 1 \in 1..sent[c] /\ Len(answers[c]) + 1 \in 1..Len(script[c])
<1>1. PICK q, l, n, s : q = Len(answers[c]) /\ l = Len(request_copy[c]) /\ n = Len(wire[c]) /\ s = sent[c]
  OBVIOUS
<1>2. Sound(c) /\ Aligned(c)
  BY DEF RInv, ConnectionInv
<1>3. thread[c] \in Working \cup {"start", "recv", "extract"}
  OBVIOUS
<1>4. Blank * q + l + n = Blank * s /\ BytesFrom(request_copy[c], Blank * q)
  BY <1>1, <1>2, <1>3 DEF Aligned
<1>5. IsList(answers[c]) /\ request_copy[c] \in Seq((1..s) \X (1..Blank)) /\ wire[c] \in Seq((1..s) \X (1..Blank))
  BY <1>1, <1>2 DEF Sound
<1>6. q \in Nat /\ l \in Nat /\ n \in Nat
  BY <1>1, <1>5, ListFacts
<1>7. Len(script[c]) \in Nat /\ s \in 0..Len(script[c])
  <2>1. IsList(script[c])
    BY RequestsAssumption DEF RInv
  <2>2. Len(script[c]) \in Nat
    BY <2>1, ListFacts
  <2>. QED
    BY <1>1, <1>2, <2>2 DEF Sound
<1>8. ASSUME l >= Blank - 1 PROVE q + 1 \in 1..s
  <2>1. s \in Nat /\ q \in Nat /\ l \in Nat /\ n \in Nat /\ 5 * q + l + n = 5 * s /\ l >= 4
    BY <1>4, <1>6, <1>7, <1>8 DEF Blank
  <2>. QED
    BY <2>1
<1>9. ASSUME q + 1 \in 1..s PROVE q + 1 \in 1..Len(script[c])
  BY <1>6, <1>7, <1>9
<1>10. s \in Nat
  BY <1>7
<1>. QED
  BY <1>1, <1>4, <1>5, <1>6, <1>8, <1>9, <1>10

LEMMA BeginKeeps ==
    ASSUME NEW c \in Clients, Domains, NEW r, IsRequest(r), BeginRequest(c, r), IsList(children[c]),
           account[c] \in Accounts
    PROVE  /\ r.root \in {"create", "transactions"}
           /\ account'[c] \in Accounts /\ (r.root = "transactions" => account'[c] = r.id)
           /\ IsList(children'[c]) /\ \A k \in 1..Len(children'[c]) : IsElement(children'[c][k])
           /\ IsList(results'[c])
           /\ Progress(r, children'[c], results'[c])
<1>. PICK i : i = Items(r.kids)
  OBVIOUS
<1>1. r.root \in {"create", "transactions"}
  BY DEF BeginRequest
<1>2. IsList(r.kids) /\ IsList(i) /\ (\A k \in 1..Len(i) : IsElement(i[k])) /\ (r.root = "transactions" => i = r.kids)
  BY <1>1, ItemsOf
<1>3. Len(i) \in Nat /\ DOMAIN i = 1..Len(i)
  BY <1>2, ListFacts
<1>4. Progress(r, i, <<>>)
  BY <1>3, ListSingle DEF Progress
<1>5. IsList(<<>>) /\ Len(<<>>) = 0
  BY ListSingle
<1>6. CASE r.root = "create"
  <2>1. /\ account'[c] = account[c] /\ children'[c] = i
        /\ results'[c] = IF r.kids = <<>> THEN <<Error("create", "Nothing in tag")>> ELSE <<>>
    BY <1>6 DEF BeginRequest, Domains
  <2>2. CASE r.kids = <<>>
    <3>1. i = <<>>
      <4>1. [j \in DOMAIN r.kids |-> IF r.kids[j].tag = "symbol" /\ r.kids[j].accounts # <<>> THEN r.kids[j].accounts
                                     ELSE <<r.kids[j]>>] = <<>>
        BY <2>2
      <4>. QED
        BY <4>1, FlattenEmpty DEF Items
    <3>2. results'[c] = <<Error("create", "Nothing in tag")>>
      BY <2>1, <2>2
    <3>3. Progress(r, children'[c], results'[c])
      BY <2>1, <3>1, <3>2 DEF Progress, Responds
    <3>. QED
      BY <1>1, <1>2, <1>6, <2>1, <3>2, <3>3, ListSingle
  <2>3. CASE r.kids # <<>>
    BY <1>1, <1>2, <1>4, <1>5, <1>6, <2>1, <2>3
  <2>. QED
    BY <2>2, <2>3
<1>7. CASE r.root = "transactions"
  <2>1. /\ account'[c] = r.id
        /\ children'[c] = IF r.id \in opened THEN r.kids ELSE <<>>
        /\ results'[c] = IF r.id \in opened THEN <<>> ELSE <<Error(r.id, "Account does not exist")>>
    BY <1>7 DEF BeginRequest, Domains
  <2>2. r.id \in Accounts
    BY <1>7 DEF IsRequest
  <2>3. CASE r.id \in opened
    BY <1>1, <1>2, <1>4, <1>5, <1>7, <2>1, <2>2, <2>3
  <2>4. CASE r.id \notin opened
    <3>1. children'[c] = <<>> /\ results'[c] = <<Error(r.id, "Account does not exist")>>
      BY <2>1, <2>4
    <3>2. Progress(r, children'[c], results'[c])
      BY <1>7, <3>1 DEF Progress, Responds
    <3>3. \A k \in 1..Len(children'[c]) : IsElement(children'[c][k])
      <4>1. Len(children'[c]) = 0
        BY <1>5, <3>1
      <4>2. 1..0 = {}
        OBVIOUS
      <4>. QED
        BY <4>1, <4>2
    <3>. QED
      BY <1>1, <1>5, <1>7, <2>1, <2>2, <3>1, <3>2, <3>3, ListSingle
  <2>. QED
    BY <2>3, <2>4
<1>. QED
  BY <1>1, <1>6, <1>7

LEMMA ExtractKeeps ==
    ASSUME RInv, NEW c \in Clients, Extract(c)
    PROVE  ConnectionInv(c)'
<1>. PICK b, q : b = request_copy[c] /\ q = Len(answers[c])
  OBVIOUS
<1>1. Sound(c) /\ Aligned(c) /\ Halfway(c) /\ Answered(c) /\ Domains
  BY DEF RInv, ConnectionInv
<1>2. up /\ thread[c] = "extract" /\ matching = {} /\ b # <<>>
  BY <1>1 DEF Extract, At, Sound
<1>3. q \in Nat /\ b \in Seq((1..sent[c]) \X (1..Blank)) /\ BytesFrom(b, Blank * q)
  BY <1>2, InHand
<1>4. IsNumber(b) /\ Parsed(Xml(b)) \subseteq {q + 1} /\ (Parsed(Xml(b)) # {} => Len(b) >= Blank - 1 /\ NextIndex(b) = Blank)
  <2>1. PICK S : S = (1..sent[c]) \X (1..Blank)
    OBVIOUS
  <2>2. b \in Seq(S)
    BY <1>3, <2>1
  <2>. QED
    BY <1>2, <1>3, <2>2, ParsedNext, Zenon
<1>5. UNCHANGED <<script, sent, wire, request_copy, answers>>
  BY DEF Extract
<1>6. Answered(c)'
  BY <1>1, <1>5 DEF Answered, Responds
<1>7. CASE Go(c, "left") /\ UNCHANGED <<up, account, children, results>>
  <2>1. thread'[c] = "left"
    BY <1>1, <1>7 DEF Go, Domains
  <2>2. Sound(c)'
    BY <1>1, <1>5, <1>7, <2>1 DEF Sound, Steps
  <2>3. Aligned(c)'
    BY <1>1, <1>5, <2>1 DEF Aligned, BytesFrom, Working
  <2>4. Halfway(c)'
    BY <2>1 DEF Halfway, Working
  <2>. QED
    BY <1>6, <2>2, <2>3, <2>4 DEF ConnectionInv
<1>8. CASE /\ \E k \in Parsed(Xml(b)) : BeginRequest(c, script[c][k])
           /\ Go(c, "children") /\ UNCHANGED up
  <2>1. BeginRequest(c, script[c][q + 1]) /\ Len(b) >= Blank - 1 /\ NextIndex(b) = Blank
    BY <1>4, <1>8
  <2>2. q + 1 \in 1..Len(script[c])
    BY <1>2, <2>1, InHand
  <2>3. PICK r : r = script[c][q + 1]
    OBVIOUS
  <2>4. IsRequest(r) /\ Len(script[c]) \in Nat
    <3>1. IsList(script[c]) /\ \A k \in DOMAIN script[c] : IsRequest(script[c][k])
      BY RequestsAssumption DEF RInv
    <3>. QED
      BY <2>2, <2>3, <3>1, ListFacts
  <2>5. /\ r.root \in {"create", "transactions"}
        /\ account'[c] \in Accounts /\ (r.root = "transactions" => account'[c] = r.id)
        /\ IsList(children'[c]) /\ \A k \in 1..Len(children'[c]) : IsElement(children'[c][k])
        /\ IsList(results'[c])
        /\ Progress(r, children'[c], results'[c])
    BY <1>1, <2>1, <2>3, <2>4, BeginKeeps DEF Sound
  <2>6. thread'[c] = "children" /\ thread'[c] \in Steps
    BY <1>1, <1>8 DEF Go, Domains, Steps
  <2>7. Sound(c)'
    BY <1>1, <1>5, <2>5, <2>6 DEF Sound
  <2>8. Aligned(c)'
    <3>1. thread[c] \in Working \cup {"start", "recv", "extract"}
      BY <1>2
    <3>. QED
      BY <1>1, <1>2, <1>5, <1>8, <2>6, <3>1 DEF Aligned, BytesFrom
  <2>9. Progress(script[c][Len(answers[c]) + 1], children[c], results[c])'
    BY <1>5, <2>3, <2>5 DEF Progress, Responds
  <2>10. q < Len(script[c])
    BY <1>3, <2>2, <2>4
  <2>11. thread'[c] \notin {"match", "select", "order", "executed"}
    BY <2>6
  <2>12. (Len(request_copy[c]) >= Blank - 1 /\ NextIndex(request_copy[c]) = Blank)'
    BY <1>5, <2>1 DEF NextIndex, FirstLineIndex
  <2>13. Halfway(c)'
    BY <1>5, <2>3, <2>5, <2>9, <2>10, <2>11, <2>12 DEF Halfway
  <2>. QED
    BY <1>6, <2>7, <2>8, <2>13 DEF ConnectionInv
<1>9. (Go(c, "left") /\ UNCHANGED <<up, account, children, results>>) \/
      ((\E k \in Parsed(Xml(b)) : BeginRequest(c, script[c][k])) /\ Go(c, "children") /\ UNCHANGED up)
  BY <1>4, Zenon DEF Extract
<1>. QED
  BY <1>7, <1>8, <1>9, Zenon

LEMMA RespondKeeps ==
    ASSUME RInv, NEW c \in Clients, Respond(c)
    PROVE  ConnectionInv(c)' /\ Responds(script[c][Len(answers[c]) + 1], results[c])
<1>. PICK b, q, r : b = request_copy[c] /\ q = Len(answers[c]) /\ r = script[c][Len(answers[c]) + 1]
  OBVIOUS
<1>1. Sound(c) /\ Aligned(c) /\ Halfway(c) /\ Answered(c) /\ Domains
  BY DEF RInv, ConnectionInv
<1>2. up /\ thread[c] = "children" /\ matching = {} /\ children[c] = <<>>
  BY DEF Respond, At
<1>3. Len(b) >= Blank - 1 /\ NextIndex(b) = Blank /\ r.root \in {"create", "transactions"} /\ q < Len(script[c])
      /\ Progress(r, <<>>, results[c])
  BY <1>1, <1>2 DEF Halfway, Working
<1>4. b # <<>>
  BY <1>3, EmptySeq DEF Blank
<1>5. /\ q \in Nat /\ sent[c] \in Nat
      /\ b \in Seq((1..sent[c]) \X (1..Blank)) /\ BytesFrom(b, Blank * q)
      /\ q + 1 \in 1..sent[c] /\ q + 1 \in 1..Len(script[c])
  BY <1>2, <1>3, <1>4, InHand DEF Working
<1>6. IsList(Items(r.kids))
  <2>1. IsRequest(r)
    <3>1. IsList(script[c]) /\ \A k \in DOMAIN script[c] : IsRequest(script[c][k])
      BY RequestsAssumption DEF RInv
    <3>. QED
      BY <1>5, <3>1, ListFacts
  <2>. QED
    BY <1>3, <2>1, ItemsOf
<1>7. Responds(r, results[c])
  <2>1. IsList(results[c])
    BY <1>1 DEF Sound
  <2>2. PICK i, m : i = Items(r.kids) /\ m = Len(results[c])
    OBVIOUS
  <2>3. m \in Nat /\ Len(i) \in Nat /\ DOMAIN i = 1..Len(i) /\ Len(<<>>) = 0
    BY <1>6, <2>1, <2>2, ListFacts
  <2>4. ASSUME m + Len(<<>>) = Len(i), \A k \in 1..m : Fits(i[k], results[c][k])
        PROVE  Responds(r, results[c])
    <3>1. m = Len(i)
      <4>1. PICK x, y \in Nat : x = m /\ y = Len(i) /\ x + 0 = y
        BY <2>3, <2>4
      <4>. QED
        BY <4>1
    <3>. QED
      BY <2>2, <2>3, <2>4, <3>1 DEF Responds
  <2>. QED
    BY <1>3, <2>2, <2>4 DEF Progress
<1>8. /\ answers'[c] = Append(answers[c], results[c])
      /\ UNCHANGED <<script, sent, wire, account, children, results, myOrder>>
  BY <1>1 DEF Respond, Domains
<1>9. /\ IsList(answers'[c]) /\ Len(answers'[c]) = q + 1
      /\ \A j \in 1..q : answers'[c][j] = answers[c][j]
      /\ answers'[c][q + 1] = results[c]
  BY <1>1, <1>8, ListAppend DEF Sound
<1>10. Answered(c)'
  <2>1. ASSUME NEW j \in 1..q + 1 PROVE Responds(script[c][j], answers'[c][j])
    <3>1. CASE j \in 1..q
      BY <1>1, <1>9, <3>1 DEF Answered
    <3>2. CASE j = q + 1
      BY <1>7, <1>9, <3>2
    <3>. QED
      BY <1>5, <3>1, <3>2
  <2>. QED
    BY <1>8, <1>9, <2>1 DEF Answered, Responds
<1>11. \A j \in 1..q + 1 : IsList(answers'[c][j])
  <2>1. ASSUME NEW j \in 1..q + 1 PROVE IsList(answers'[c][j])
    <3>1. CASE j \in 1..q
      BY <1>1, <1>9, <3>1 DEF Sound
    <3>2. CASE j = q + 1
      BY <1>1, <1>9, <3>2 DEF Sound
    <3>. QED
      BY <1>5, <3>1, <3>2
  <2>. QED
    BY <2>1
<1>12. CASE Terminate /\ UNCHANGED <<thread, request_copy>>
  <2>1. Sound(c)'
    BY <1>1, <1>8, <1>9, <1>11, <1>12 DEF Sound
  <2>2. Aligned(c)'
    BY <1>1, <1>8, <1>12 DEF Aligned, BytesFrom, Terminate
  <2>3. Halfway(c)'
    BY <1>12 DEF Halfway, Terminate
  <2>. QED
    BY <1>7, <1>10, <2>1, <2>2, <2>3 DEF ConnectionInv
<1>13. CASE /\ Blank =< Len(b)
            /\ request_copy' = [request_copy EXCEPT ![c] = SubSeq(b, Blank + 1, Len(b))]
            /\ Go(c, NextStep(request_copy'[c]))
            /\ UNCHANGED up
  <2>0. PICK l, d, z, n \in Int : l = Len(b) /\ d = Blank * q /\ z = Blank * sent[c] /\ n = Len(wire[c])
    <3>1. sent[c] \in Nat /\ q \in Nat
      BY <1>5
    <3>2. Blank * q \in Int /\ Blank * sent[c] \in Int
      BY <3>1 DEF Blank
    <3>3. Len(b) \in Int /\ Len(wire[c]) \in Int
      BY <1>1, <1>5 DEF Sound
    <3>. QED
      BY <3>2, <3>3
  <2>. PICK S : S = (1..sent[c]) \X (1..Blank)
    OBVIOUS
  <2>1. l >= 5 /\ Blank = 5 /\ b \in Seq(S)
    BY <1>5, <2>0, <1>13 DEF Blank
  <2>2. PICK u : u = SubSeq(b, Blank + 1, l)
    OBVIOUS
  <2>3. u \in Seq(S) /\ Len(u) = l - Blank /\ BytesFrom(u, d + Blank)
    <3>1. Blank \in Nat /\ l \in 0..Len(b) /\ Blank =< l /\ BytesFrom(b, d) /\ b \in Seq(S) /\ d \in Int
      BY <1>5, <2>0, <2>1
    <3>2. /\ SubSeq(b, Blank + 1, l) \in Seq(S) /\ Len(SubSeq(b, Blank + 1, l)) = l - Blank
          /\ BytesFrom(SubSeq(b, Blank + 1, l), d + Blank)
      BY <2>0, <2>1, <3>1, RestBytes
    <3>. QED
      BY <2>2, <3>2, Zenon
  <2>4. /\ request_copy'[c] = u
        /\ thread'[c] = IF u = <<>> THEN "recv" ELSE "extract"
    BY <1>1, <1>13, <2>0, <2>2 DEF Go, Domains, NextStep
  <2>5. Sound(c)'
    <3>1. thread'[c] \in Steps /\ (thread'[c] = "extract" => u # <<>>) /\ thread'[c] \notin {"match", "select", "order", "executed"}
      BY <2>4 DEF Steps
    <3>. QED
      BY <1>1, <1>8, <1>9, <1>11, <2>3, <2>4, <3>1 DEF Sound
  <2>6. Aligned(c)'
    <3>1. d + l + n = z /\ n =< z /\ BytesFrom(wire[c], z - n)
      <4>1. thread[c] \in Working \cup {"start", "recv", "extract"}
        BY <1>2 DEF Working
      <4>. QED
        BY <1>1, <1>2, <2>0, <4>1 DEF Aligned
    <3>2. Blank * (q + 1) = d + Blank
      BY <1>5, <2>0 DEF Blank
    <3>3. Blank * (q + 1) + Len(u) + n = z
      <4>1. PICK e, f \in Int : e = Len(u) /\ f = Blank * (q + 1)
        BY <2>1, <2>3, <3>2
      <4>2. e = l - 5 /\ f = d + 5 /\ d + l + n = z
        BY <2>1, <2>3, <3>1, <3>2, <4>1
      <4>3. f + e + n = z
        BY <4>2
      <4>. QED
        BY <4>1, <4>3
    <3>4. thread'[c] \in {"start", "recv"} => u = <<>>
      BY <2>4
    <3>5. (BytesFrom(request_copy[c], Blank * Len(answers[c])) /\ BytesFrom(wire[c], Blank * sent[c] - Len(wire[c])))'
      BY <1>8, <1>9, <2>0, <2>3, <2>4, <3>1, <3>2 DEF BytesFrom
    <3>6. (Blank * Len(answers[c]) + Len(request_copy[c]) + Len(wire[c]) = Blank * sent[c])'
      BY <1>8, <1>9, <2>0, <2>4, <3>3
    <3>7. (Len(wire[c]) =< Blank * sent[c])'
      BY <1>8, <2>0, <3>1
    <3>. QED
      BY <2>4, <3>4, <3>5, <3>6, <3>7 DEF Aligned
  <2>7. Halfway(c)'
    BY <2>4 DEF Halfway, Working
  <2>. QED
    BY <1>7, <1>10, <2>5, <2>6, <2>7 DEF ConnectionInv
<1>14. \/ Terminate /\ UNCHANGED <<thread, request_copy>>
       \/ /\ Blank =< Len(b)
          /\ request_copy' = [request_copy EXCEPT ![c] = SubSeq(b, Blank + 1, Len(b))]
          /\ Go(c, NextStep(request_copy'[c]))
          /\ UNCHANGED up
  BY <1>3 DEF Respond
<1>. QED
  BY <1>12, <1>13, <1>14

\* What a step of c does to the turn.
Turns(c) ==
    \/ thread[c] # "match" /\ thread'[c] # "match" /\ matching = {} /\ matching' = {}
    \/ thread[c] = "match" /\ thread'[c] # "match" /\ matching' = {}
    \/ thread[c] # "match" /\ thread'[c] = "match" /\ matching = {} /\ matching' # {}
    \/ thread'[c] = thread[c] /\ matching' = matching

LEMMA TurnKept ==
    ASSUME Turn, NEW c \in Clients, Local(c), Turns(c), (up' /\ up) \/ matching' = {} \/ (up' = up /\ matching' = matching)
    PROVE  Turn'
<1>1. \A d \in Clients \ {c} : thread'[d] = thread[d]
  BY DEF Local, Same
<1>2. (matching' # {} <=> \E d \in Clients : thread'[d] = "match")
  BY <1>1 DEF Turn, Turns
<1>3. \A d, e \in Clients : thread'[d] = "match" /\ thread'[e] = "match" => d = e
  BY <1>1 DEF Turn, Turns
<1>4. up' \/ matching' = {}
  <2>1. CASE up' = up /\ matching' = matching
    <3>1. CASE up
      BY <2>1, <3>1
    <3>2. CASE ~up
      BY <2>1, <3>2 DEF Turn
    <3>. QED
      BY <3>1, <3>2
  <2>. QED
    BY <2>1
<1>. QED
  BY <1>2, <1>3, <1>4 DEF Turn

LEMMA ClientStep ==
    ASSUME RInv, NEW c \in Clients, Send(c) \/ RecvEnds(c) \/ Serve(c)
    PROVE  Local(c) /\ ConnectionInv(c)' /\ [Next]_vars /\ Turn'
<1>1. Domains /\ up \in BOOLEAN /\ Turn
  BY DEF RInv
<1>2. CASE Send(c)
  <2>1. Local(c) /\ UNCHANGED vars /\ thread' = thread /\ up' = up
    BY <1>1, <1>2, SendLocal DEF Send
  <2>2. matching' = matching
    BY <2>1 DEF vars
  <2>3. Turn'
    BY <1>1, <2>1, <2>2, TurnKept DEF Turns
  <2>. QED
    BY <1>2, <2>1, <2>3, SendKeeps
<1>3. CASE Start(c) \/ RecvEnds(c)
  <2>1. Local(c) /\ UNCHANGED vars
    BY <1>1, <1>3, StartLocal DEF Start, RecvEnds
  <2>2. matching = {} /\ matching' = {} /\ thread[c] # "match" /\ thread'[c] # "match"
    BY <1>1, <1>3, <2>1 DEF vars, Start, RecvEnds, At, Go, Domains
  <2>3. Turn'
    BY <1>1, <2>1, <2>2, TurnKept DEF Turns
  <2>. QED
    BY <1>3, <2>1, <2>3, StartKeeps
<1>4. CASE Recv(c)
  <2>1. Local(c) /\ UNCHANGED vars
    BY <1>1, <1>4, RecvLocal DEF Recv
  <2>2. matching = {} /\ matching' = {} /\ thread[c] # "match" /\ thread'[c] # "match"
    BY <1>1, <1>4, <2>1 DEF vars, Recv, At, Go, Domains
  <2>3. Turn'
    BY <1>1, <2>1, <2>2, TurnKept DEF Turns
  <2>. QED
    BY <1>4, <2>1, <2>3, RecvKeeps
<1>5. CASE Extract(c)
  <2>1. Local(c) /\ UNCHANGED vars
    BY <1>1, <1>5, ExtractLocal DEF Extract
  <2>2. matching = {} /\ thread[c] = "extract" /\ (thread' = thread \/ Go(c, "left") \/ Go(c, "children"))
    BY <1>5 DEF Extract, At
  <2>3. matching' = {} /\ thread[c] # "match" /\ thread'[c] # "match"
    BY <1>1, <2>1, <2>2 DEF vars, Go, Domains
  <2>4. Turn'
    BY <1>1, <2>1, <2>2, <2>3, TurnKept DEF Turns
  <2>. QED
    BY <1>5, <2>1, <2>4, ExtractKeeps
<1>6. CASE Respond(c)
  <2>1. Local(c) /\ UNCHANGED vars
    BY <1>1, <1>6, RespondLocal DEF Respond
  <2>2. matching = {} /\ thread[c] = "children" /\ (thread' = thread \/ \E b : Go(c, NextStep(b)))
    BY <1>6 DEF Respond, At
  <2>3. matching' = {} /\ thread[c] # "match" /\ thread'[c] # "match"
    <3>1. \A b : NextStep(b) # "match"
      BY DEF NextStep
    <3>. QED
      BY <1>1, <2>1, <2>2, <3>1 DEF vars, Go, Domains
  <2>4. Turn'
    BY <1>1, <2>1, <2>2, <2>3, TurnKept DEF Turns
  <2>. QED
    BY <1>6, <2>1, <2>4, RespondKeeps
<1>7. CASE Child(c)
  <2>1. ChildStep(c)
    BY <1>7, ChildSteps
  <2>2. [Next]_vars
    BY <2>1 DEF ChildStep
  <2>3. CASE MatchTurn(c) /\ matching' = matching
    <3>1. /\ UNCHANGED <<script, cut, up, sent, wire, thread, request_copy, account, children, results, myOrder, answers>>
      BY <2>3 DEF MatchTurn, connections
    <3>2. Local(c)
      BY <1>1, <3>1 DEF Local, Domains, Same
    <3>3. ConnectionInv(c)
      BY DEF RInv
    <3>4. Sound(c)' /\ Aligned(c)' /\ Answered(c)'
      BY <3>1, <3>3 DEF ConnectionInv, Sound, Aligned, Answered, BytesFrom, Responds
    <3>5. Halfway(c)'
      BY <3>1, <3>3 DEF ConnectionInv, Halfway, Progress, Responds
    <3>6. Turn'
      BY <1>1, <2>3, <3>1, <3>2, TurnKept DEF Turns
    <3>. QED
      BY <2>2, <3>2, <3>4, <3>5, <3>6 DEF ConnectionInv
  <2>4. ASSUME NEW e, Answering(c, e) PROVE Local(c) /\ ConnectionInv(c)' /\ Turn'
    <3>1. Local(c) /\ up' = up
      BY <1>1, <2>4, AnswerLocal DEF Answering, Answer
    <3>2. matching = {} /\ matching' = {} /\ thread'[c] = "children" /\ thread[c] # "match"
      BY <1>1, <2>4 DEF Answering, Answer, Go, Domains, Turn
    <3>3. Turn'
      BY <1>1, <3>1, <3>2, TurnKept DEF Turns
    <3>. QED
      BY <2>4, <3>1, <3>3, AnsweringKeeps
  <2>5. ASSUME NEW step, Proceeding(c, step) PROVE Local(c) /\ ConnectionInv(c)' /\ Turn'
    <3>1. Proceed(c, step) /\ (UNCHANGED myOrder \/ \E i : ReadRow(c, i))
      BY <2>5, Zenon DEF Proceeding
    <3>2. Local(c) /\ up' = up /\ thread'[c] = step
      BY <1>1, <3>1, ProceedLocal DEF Proceed, Go, Domains
    <3>3. /\ up
          /\ \/ thread[c] # "match" /\ matching = {} /\ step = "match" /\ matching' # {}
             \/ thread[c] # "match" /\ matching = {} /\ step # "match" /\ matching' = {}
             \/ thread[c] = "match" /\ step # "match" /\ matching' = {}
      BY <2>5 DEF Proceeding, Filed, Taking, Commit
    <3>4. Turn'
      BY <1>1, <3>2, <3>3, TurnKept DEF Turns
    <3>. QED
      BY <2>5, <3>2, <3>4, ProceedingKeeps
  <2>. QED
    BY <2>1, <2>2, <2>3, <2>4, <2>5, Zenon DEF ChildStep
<1>. QED
  BY <1>2, <1>3, <1>4, <1>5, <1>6, <1>7, Zenon DEF Serve

LEMMA RequestsNextInv ==
    ASSUME RInv, [RequestsNext]_allvars
    PROVE  RInv' /\ [Next]_vars
<1>1. CASE RequestsNext
  <2>1. PICK c \in Clients : Send(c) \/ RecvEnds(c) \/ Serve(c)
    BY <1>1, Zenon DEF RequestsNext
  <2>2. Local(c) /\ ConnectionInv(c)' /\ [Next]_vars /\ Turn'
    BY <2>1, ClientStep
  <2>3. \A d \in Clients \ {c} : ConnectionInv(d)'
    BY <2>2, OthersKept DEF RInv
  <2>4. \A d \in Clients : ConnectionInv(d)'
    BY <2>2, <2>3, Zenon
  <2>5. IInv'
    BY <2>2, NextInv DEF RInv
  <2>6. script' \in Scripts /\ cut' \subseteq Rough /\ up' \in BOOLEAN /\ Domains'
    BY <2>2 DEF RInv, Local
  <2>. QED
    BY <2>2, <2>4, <2>5, <2>6 DEF RInv
<1>2. CASE UNCHANGED allvars
  <2>1. UNCHANGED vars /\ UNCHANGED connections
    BY <1>2 DEF allvars
  <2>2. IInv'
    BY <2>1, NextInv DEF RInv
  <2>3. /\ UNCHANGED <<script, cut, up, sent, wire, thread, request_copy, account, children, results, myOrder, answers>>
        /\ UNCHANGED matching
    BY <2>1 DEF connections, vars
  <2>4. Domains' /\ Turn' /\ script' \in Scripts /\ cut' \subseteq Rough /\ up' \in BOOLEAN
    BY <2>3 DEF RInv, Domains, Turn
  <2>5. ASSUME NEW c \in Clients PROVE ConnectionInv(c)'
    <3>1. ConnectionInv(c)
      BY DEF RInv
    <3>2. Sound(c)' /\ Aligned(c)' /\ Answered(c)'
      BY <2>3, <3>1 DEF ConnectionInv, Sound, Aligned, Answered, BytesFrom, Responds
    <3>3. Halfway(c)'
      BY <2>3, <3>1 DEF ConnectionInv, Halfway, Progress, Responds
    <3>. QED
      BY <3>2, <3>3 DEF ConnectionInv
  <2>. QED
    BY <2>1, <2>2, <2>4, <2>5 DEF RInv
<1>. QED
  BY <1>1, <1>2

LEMMA RequestsInitInv == RequestsInit => RInv
<1> SUFFICES ASSUME RequestsInit PROVE RInv
  OBVIOUS
<1>1. IInv
  BY InitInv DEF RequestsInit
<1>2. script \in Scripts /\ cut \subseteq Rough /\ up \in BOOLEAN /\ Domains
  BY DEF RequestsInit, Domains
<1>3. Turn
  BY DEF RequestsInit, Init, Turn
<1>4. ASSUME NEW c \in Clients PROVE ConnectionInv(c)
  <2>1. /\ sent[c] = 0 /\ wire[c] = <<>> /\ thread[c] = "start" /\ request_copy[c] = <<>>
        /\ children[c] = <<>> /\ results[c] = <<>> /\ answers[c] = <<>>
    BY DEF RequestsInit
  <2>2. account[c] \in Accounts
    BY RequestsAssumption DEF RequestsInit
  <2>3. IsList(<<>>) /\ Len(<<>>) = 0 /\ 1..0 = {}
    <3>1. IsList(<<>>) /\ Len(<<>>) = 0
      BY ListSingle
    <3>2. 1..0 = {}
      OBVIOUS
    <3>. QED
      BY <3>1, <3>2
  <2>4. 0 \in 0..Len(script[c])
    <3>1. IsList(script[c])
      BY <1>2, RequestsAssumption
    <3>2. Len(script[c]) \in Nat
      BY <3>1, ListFacts
    <3>. QED
      BY <3>2
  <2>5. Sound(c)
    <3>1. <<>> \in Seq((1..sent[c]) \X (1..Blank))
      BY EmptySeq
    <3>2. thread[c] \in Steps /\ thread[c] \notin {"extract", "match", "select", "order", "executed"}
      BY <2>1 DEF Steps
    <3>. QED
      BY <2>1, <2>2, <2>3, <2>4, <3>1, <3>2 DEF Sound
  <2>6. Aligned(c)
    <3>1. Blank * 0 = 0
      BY DEF Blank
    <3>. QED
      BY <2>1, <2>3, <3>1 DEF Aligned, BytesFrom
  <2>7. Halfway(c) /\ Answered(c)
    BY <2>1, <2>3 DEF Halfway, Answered, Working
  <2>. QED
    BY <2>5, <2>6, <2>7 DEF ConnectionInv
<1>. QED
  BY <1>1, <1>2, <1>3, <1>4 DEF RInv

LEMMA RequestsInvariant == RequestsSpec => []RInv
<1>1. RInv /\ [RequestsNext]_allvars => RInv'
  BY RequestsNextInv, Zenon
<1>. QED
  BY <1>1, RequestsInitInv, PTL DEF RequestsSpec

\* Whatever is received is part of what was sent, a thread takes up a child only where
\* there is one, and exactly one thread is inside the transaction of an order while
\* matchOrders runs.
THEOREM RequestsTyped == RequestsSpec => []RequestsTypeOK
<1>1. RInv => RequestsTypeOK
  BY DEF RInv, IInv, Turn, ConnectionInv, Sound, RequestsTypeOK
<1>. QED
  BY <1>1, RequestsInvariant, PTL

\* The j-th response on every connection answers the j-th request, child by child, for
\* any number of clients and any cut of the bytes into segments.
THEOREM ResponsesAnswerTheirRequests == RequestsSpec => []AnswersFitRequests
<1>1. RInv => AnswersFitRequests
  <2> SUFFICES ASSUME RInv, NEW c \in Clients, NEW j \in DOMAIN answers[c]
               PROVE  Responds(script[c][j], answers[c][j])
    BY DEF AnswersFitRequests, Responds
  <2>1. IsList(answers[c]) /\ Answered(c)
    BY DEF RInv, ConnectionInv, Sound
  <2>2. j \in 1..Len(answers[c])
    BY <2>1, ListFacts
  <2>. QED
    BY <2>1, <2>2 DEF Answered
<1>. QED
  BY <1>1, RequestsInvariant, PTL
-----------------------------------------------------------------------------
(* The answers are true                                                     *)

\* What a step does to the tables answers speak of.
LEMMA TableStep ==
    ASSUME IInv, [Next]_vars
    PROVE  /\ opened \subseteq opened'
           /\ Len(orders) \in Nat /\ DOMAIN orders = 1..Len(orders)
           /\ \/ Len(orders') = Len(orders) /\ (matching' = {} \/ matching' = matching)
              \/ Len(orders') = Len(orders) + 1 /\ matching = {} /\ matching' # {}
           /\ \A i \in DOMAIN orders :
                 /\ i \in DOMAIN orders' /\ orders'[i].PriceLimit = orders[i].PriceLimit
                 /\ orders'[i].AccountID = orders[i].AccountID /\ orders'[i].SymbolName = orders[i].SymbolName
<1>0. TypeOK /\ VectorsMirrorBook
  BY DEF IInv
<1>1. orders \in Seq(OrderRow)
  BY <1>0 DEF TypeOK
<1>2. Len(orders) \in Nat /\ DOMAIN orders = 1..Len(orders)
  BY <1>1
<1>3. opened \subseteq opened'
  BY DEF Next, vars, tables, CreateAccount, CreatePosition, BuyOrder, SellOrder, MatchHeads, CancelOrder, Commit, Tick
<1>4. ASSUME NEW a, NEW s, NEW n, NEW p, matching = {}, CreateTransaction(a, s, n, p), FetchVectors(s)
      PROVE  Len(orders') = Len(orders) + 1 /\ matching = {} /\ matching' # {}
  <2>1. PICK o : orders' = Append(orders, o)
    BY <1>4 DEF CreateTransaction
  <2>2. Len(orders') = Len(orders) + 1
    BY <1>1, <2>1, ListOf, ListAppend
  <2>. QED
    BY <1>4, <2>2 DEF FetchVectors
<1>5. ASSUME MatchHeads PROVE matching' = matching /\ Len(orders') = Len(orders)
  <2>1. DOMAIN orders' = DOMAIN orders /\ matching' = matching
    BY <1>0, <1>5, MatchEffect DEF MatchHeads
  <2>2. orders' \in Seq(OrderRow)
    BY <1>0, TypeInvariance DEF TypeOK
  <2>3. Len(orders') = Len(orders)
    BY <1>1, <2>1, <2>2
  <2>. QED
    BY <2>1, <2>3
<1>6. ASSUME NEW i, CancelOrder(i) PROVE matching' = matching /\ Len(orders') = Len(orders)
  <2>1. DOMAIN orders' = DOMAIN orders /\ matching' = matching
    BY <1>6 DEF CancelOrder
  <2>2. orders' \in Seq(OrderRow)
    BY <1>0, TypeInvariance DEF TypeOK
  <2>3. Len(orders') = Len(orders)
    BY <1>1, <2>1, <2>2
  <2>. QED
    BY <2>1, <2>3
<1>7. ASSUME NEW a, NEW s, NEW n, NEW p, BuyOrder(a, s, n, p) \/ SellOrder(a, s, n, p)
      PROVE  Len(orders') = Len(orders) + 1 /\ matching = {} /\ matching' # {}
  BY <1>4, <1>7 DEF BuyOrder, SellOrder
<1>8. \/ Len(orders') = Len(orders) /\ (matching' = {} \/ matching' = matching)
      \/ Len(orders') = Len(orders) + 1 /\ matching = {} /\ matching' # {}
  <2>1. CASE UNCHANGED <<orders, matching>>
    BY <2>1
  <2>2. CASE Commit
    BY <2>2 DEF Commit, tables
  <2>. QED
    BY <1>5, <1>6, <1>7, <2>1, <2>2 DEF Next, vars, tables, CreateAccount, CreatePosition, Tick
<1>. QED
  BY <1>0, <1>2, <1>3, <1>8, LimitsKept

\* e is the k-th answer of c's j-th response, or of the one begun.
Says(c, j, k, e) ==
    \/ j \in 1..Len(answers[c]) /\ k \in 1..Len(answers[c][j]) /\ e = answers[c][j][k]
    \/ /\ up /\ thread[c] \in Working
       /\ j = Len(answers[c]) + 1 /\ k \in 1..Len(results[c]) /\ e = results[c][k]

\* The order of a connection's answers.
Sooner(j, k, i, l) == j < i \/ (j = i /\ k < l)

Asker(c, j) == script[c][j].id

\* Row i is what the order e, in the j-th response to c, asked for.
Asks(c, j, e, i) ==
    /\ orders[i].AccountID = Asker(c, j)
    /\ orders[i].SymbolName = e.about.sym /\ orders[i].PriceLimit = e.about.limit

\* Row i is what the order c's thread is at asks for.
Row(c, i) ==
    /\ orders[i].AccountID = account[c]
    /\ orders[i].SymbolName = Head(children[c]).sym /\ orders[i].PriceLimit = Head(children[c]).limit

\* c has been told of orders before i only.
Past(c, i) == \A j, k, e : Says(c, j, k, e) /\ e.tag = "opened" => e.id < i

\* The order c asked for with its k-th child of its j-th request was filed after all it had
\* been told of, and has the number told or an earlier one.
Own(c, j, k, e) ==
    e.tag = "opened" =>
        \E i \in 1..e.id :
            /\ Asks(c, j, e, i)
            /\ \A h, l, f : Says(c, h, l, f) /\ f.tag = "opened" /\ Sooner(h, l, j, k) => f.id < i

\* What e, said to c in its j-th response, tells of the tables.
Told(c, j, e) ==
    /\ e.tag = "created" => e.about \in opened \cup (Symbols \X opened)
    /\ e.tag = "opened" => e.id \in DOMAIN orders /\ (OnlyTrader(c) => Asks(c, j, e, e.id))
    /\ e.tag \in {"status", "canceled"} => e.id \in DOMAIN orders /\ orders[e.id].AccountID = Asker(c, j)

\* Two answers tell of the same account as new.
Clash(e, f) == e.tag = "created" /\ f.tag = "created" /\ e.about = f.about /\ e.about \in Accounts

\* What c's thread knows of the row its child is about.
Knows(c) ==
    up =>
      /\ thread[c] = "match" => Len(orders) \in DOMAIN orders /\ Row(c, Len(orders)) /\ Past(c, Len(orders))
      /\ thread[c] = "select" =>
             \E i \in DOMAIN orders : Row(c, i) /\ Past(c, i) /\ (OnlyTrader(c) => i = Len(orders))
      /\ thread[c] = "order" =>
             Head(children[c]).id \in DOMAIN orders /\ orders[Head(children[c]).id].AccountID = account[c]
      /\ thread[c] = "executed" =>
             /\ Head(children[c]).id \in DOMAIN orders
             /\ myOrder[c].AccountID = orders[Head(children[c]).id].AccountID
             /\ Head(children[c]).tag = "cancel" => orders[Head(children[c]).id].AccountID = account[c]

TInv ==
    /\ RInv
    /\ \A c \in Clients : Knows(c)
    /\ \A c \in Clients : \A j, k, e : Says(c, j, k, e) => Told(c, j, e) /\ Own(c, j, k, e)
    /\ \A c, d \in Clients : \A j, k, e, i, l, f :
          Says(c, j, k, e) /\ Says(d, i, l, f) /\ Clash(e, f) => c = d /\ j = i /\ k = l

\* A thread's child is an element of one of its client's requests.
LEMMA HeadIsItem ==
    ASSUME RInv, NEW c \in Clients, Taking(c)
    PROVE  \E k \in DOMAIN script[c] : \E n \in DOMAIN Items(script[c][k].kids) :
               Items(script[c][k].kids)[n] = Head(children[c])
<1>0. PICK k, r, i : k = Len(answers[c]) + 1 /\ r = script[c][k] /\ i = Items(r.kids)
  OBVIOUS
<1>1. Sound(c) /\ Halfway(c) /\ up /\ thread[c] \in Working /\ children[c] # <<>>
  BY DEF RInv, ConnectionInv, Taking
<1>2. /\ Len(answers[c]) < Len(script[c]) /\ r.root \in {"create", "transactions"}
      /\ Progress(r, children[c], results[c])
  BY <1>0, <1>1 DEF Halfway
<1>3. k \in DOMAIN script[c] /\ IsRequest(r)
  <2>1. IsList(script[c]) /\ \A n \in DOMAIN script[c] : IsRequest(script[c][n])
    BY RequestsAssumption DEF RInv
  <2>2. Len(answers[c]) \in Nat /\ Len(script[c]) \in Nat /\ DOMAIN script[c] = 1..Len(script[c])
    BY <1>1, <2>1, ListFacts DEF Sound
  <2>3. Len(answers[c]) + 1 \in 1..Len(script[c])
    BY <1>2, <2>2
  <2>. QED
    BY <1>0, <2>1, <2>2, <2>3
<1>4. IsList(i) /\ Len(i) \in Nat /\ DOMAIN i = 1..Len(i)
  BY <1>0, <1>2, <1>3, ItemsOf, ListFacts
<1>5. Head(children[c]) = children[c][1] /\ 1 \in 1..Len(children[c]) /\ Len(children[c]) \in Nat /\ Len(children[c]) >= 1
  BY <1>1, ListTail DEF Sound
<1>6. Len(results[c]) \in Nat
  BY <1>1, ListFacts DEF Sound
<1>7. Len(results[c]) + Len(children[c]) = Len(i) /\ children[c][1] = i[Len(results[c]) + 1]
  BY <1>0, <1>1, <1>2, <1>5 DEF Progress
<1>8. PICK n : n = Len(results[c]) + 1
  OBVIOUS
<1>9. n \in DOMAIN i
  <2>1. PICK x, y, z \in Nat : x = Len(results[c]) /\ y = Len(children[c]) /\ z = Len(i) /\ x + y = z /\ y >= 1
    BY <1>4, <1>5, <1>6, <1>7
  <2>2. x + y = z /\ y >= 1
    BY <2>1
  <2>3. x + 1 \in 1..z
    BY <2>2
  <2>. QED
    BY <1>4, <1>8, <2>1, <2>3
<1>. QED
  BY <1>0, <1>3, <1>5, <1>7, <1>8, <1>9

\* Only orders add rows, so when c is the only one to trade the others add none.
LEMMA TradesAlone ==
    ASSUME script' = script, NEW c
    PROVE  OnlyTrader(c)' <=> OnlyTrader(c)
BY DEF OnlyTrader

LEMMA RowsAdded ==
    ASSUME RInv, NEW c \in Clients, Send(c) \/ RecvEnds(c) \/ Serve(c), NEW d \in Clients \ {c}, OnlyTrader(d)
    PROVE  Len(orders') = Len(orders)
<1>1. IInv /\ [Next]_vars
  BY ClientStep DEF RInv
<1>2. CASE Send(c) \/ Start(c) \/ RecvEnds(c) \/ Recv(c) \/ Extract(c) \/ Respond(c)
  BY <1>2 DEF Send, Start, RecvEnds, Recv, Extract, Respond, vars, tables
<1>3. CASE Child(c)
  <2>1. ChildStep(c)
    BY <1>3, ChildSteps
  <2>2. CASE MatchTurn(c) /\ matching' = matching
    BY <1>1, <2>2, TableStep
  <2>3. ASSUME NEW e, Answering(c, e) PROVE Len(orders') = Len(orders)
    BY <1>1, <2>3, TableStep DEF Answering
  <2>4. ASSUME NEW step, Proceeding(c, step) PROVE Len(orders') = Len(orders)
    <3>1. CASE step = "select"
      BY <2>4, <3>1 DEF Proceeding, Commit, tables
    <3>2. CASE step = "match"
      <4>1. Taking(c) /\ Head(children[c]).tag = "order"
        BY <2>4, <3>2 DEF Proceeding
      <4>. QED
        BY <4>1, HeadIsItem DEF OnlyTrader
    <3>3. CASE matching' = {}
      BY <1>1, <3>3, TableStep
    <3>. QED
      BY <2>4, <3>1, <3>2, <3>3 DEF Proceeding
  <2>. QED
    BY <2>1, <2>2, <2>3, <2>4, Zenon DEF ChildStep
<1>. QED
  BY <1>2, <1>3, Zenon DEF Serve

\* The request a thread at an order, a query or a cancellation is in was sent for the
\* account it acts on.
LEMMA ActsForAsker ==
    ASSUME RInv, NEW c \in Clients, Taking(c), Head(children[c]).tag \in {"order", "query", "cancel"}
    PROVE  Asker(c, Len(answers[c]) + 1) = account[c]
<1>0. PICK r, i : r = script[c][Len(answers[c]) + 1] /\ i = Items(r.kids)
  OBVIOUS
<1>1. Sound(c) /\ Halfway(c) /\ up /\ thread[c] \in Working /\ children[c] # <<>>
  BY DEF RInv, ConnectionInv, Taking
<1>2. /\ Len(answers[c]) < Len(script[c]) /\ r.root \in {"create", "transactions"}
      /\ r.root = "transactions" => account[c] = r.id
      /\ Progress(r, children[c], results[c])
  BY <1>0, <1>1 DEF Halfway
<1>3. IsRequest(r)
  <2>1. IsList(script[c]) /\ \A k \in DOMAIN script[c] : IsRequest(script[c][k])
    BY RequestsAssumption DEF RInv
  <2>2. Len(answers[c]) \in Nat /\ Len(script[c]) \in Nat /\ DOMAIN script[c] = 1..Len(script[c])
    BY <1>1, <2>1, ListFacts DEF Sound
  <2>3. Len(answers[c]) + 1 \in 1..Len(script[c])
    BY <1>2, <2>2
  <2>. QED
    BY <1>0, <2>1, <2>2, <2>3
<1>4. CASE r.root = "create"
  <2>1. IsList(i) /\ \A k \in 1..Len(i) : i[k].tag \notin {"order", "query", "cancel"}
    BY <1>0, <1>3, <1>4, ItemsOf
  <2>2. Head(children[c]) = children[c][1] /\ 1 \in 1..Len(children[c]) /\ Len(children[c]) \in Nat /\ Len(children[c]) >= 1
    BY <1>1, ListTail DEF Sound
  <2>3. Len(results[c]) \in Nat /\ Len(i) \in Nat
    BY <1>1, <2>1, ListFacts DEF Sound
  <2>4. Len(results[c]) + Len(children[c]) = Len(i) /\ children[c][1] = i[Len(results[c]) + 1]
    BY <1>0, <1>1, <1>2, <2>2 DEF Progress
  <2>5. Len(results[c]) + 1 \in 1..Len(i)
    <3>1. PICK x, y, z \in Nat : x = Len(results[c]) /\ y = Len(children[c]) /\ z = Len(i) /\ x + y = z /\ y >= 1
      BY <2>2, <2>3, <2>4
    <3>2. x + y = z /\ y >= 1
      BY <3>1
    <3>3. x + 1 \in 1..z
      BY <3>2
    <3>. QED
      BY <3>1, <3>3
  <2>6. Head(children[c]).tag \notin {"order", "query", "cancel"}
    BY <2>1, <2>2, <2>4, <2>5, Zenon
  <2>. QED
    BY <2>6
<1>5. CASE r.root = "transactions"
  BY <1>0, <1>2, <1>5 DEF Asker
<1>. QED
  BY <1>2, <1>4, <1>5

\* What a thread knows stays so, whatever the others do.
LEMMA StillKnows ==
    ASSUME RInv, [Next]_vars, Turn', NEW d \in Clients, Same(d), up' => up, script' = script, Knows(d),
           thread[d] = "select" /\ OnlyTrader(d) => Len(orders') = Len(orders)
    PROVE  Knows(d)'
<1>1. IInv
  BY DEF RInv
<1>2. ASSUME up', thread[d] = "match" PROVE Len(orders') = Len(orders)
  <2>1. matching # {} /\ matching' # {}
    BY <1>2 DEF RInv, Turn, Same
  <2>. QED
    BY <1>1, <2>1, TableStep
<1>3. \A i \in DOMAIN orders :
          /\ i \in DOMAIN orders' /\ orders'[i].PriceLimit = orders[i].PriceLimit
          /\ orders'[i].AccountID = orders[i].AccountID /\ orders'[i].SymbolName = orders[i].SymbolName
  BY <1>1, TableStep
<1>4. CASE up'
  <2>1. thread'[d] = thread[d] /\ account'[d] = account[d] /\ children'[d] = children[d] /\ myOrder'[d] = myOrder[d] /\ up
    BY <1>4 DEF Same
  <2>4. ASSUME NEW i \in DOMAIN orders, Row(d, i), Past(d, i) PROVE i \in DOMAIN orders' /\ Row(d, i)' /\ Past(d, i)'
    <3>1. Row(d, i)'
      BY <1>3, <2>1, <2>4 DEF Row
    <3>2. \A j, k, e : Says(d, j, k, e)' => Says(d, j, k, e)
      BY <1>4, <2>1 DEF Says, Same
    <3>. QED
      BY <1>3, <2>4, <3>1, <3>2 DEF Past
  <2>5. OnlyTrader(d)' <=> OnlyTrader(d)
    BY TradesAlone
  <2>2. ASSUME thread[d] = "match"
        PROVE  Len(orders') \in DOMAIN orders' /\ Row(d, Len(orders))' /\ Past(d, Len(orders))'
    <3>1. PICK n : n = Len(orders)
      OBVIOUS
    <3>2. n \in DOMAIN orders /\ Row(d, n) /\ Past(d, n)
      BY <2>1, <2>2, <3>1 DEF Knows
    <3>3. n \in DOMAIN orders' /\ Row(d, n)' /\ Past(d, n)'
      BY <2>4, <3>2
    <3>4. Len(orders') = n
      BY <1>2, <1>4, <2>2, <3>1
    <3>. QED
      BY <3>3, <3>4 DEF Row, Past
  <2>6. ASSUME thread[d] = "select"
        PROVE  \E i \in DOMAIN orders' : Row(d, i)' /\ Past(d, i)' /\ (OnlyTrader(d)' => i = Len(orders'))
    <3>1. PICK i \in DOMAIN orders : Row(d, i) /\ Past(d, i) /\ (OnlyTrader(d) => i = Len(orders))
      BY <2>1, <2>6 DEF Knows
    <3>2. i \in DOMAIN orders' /\ Row(d, i)' /\ Past(d, i)'
      BY <2>4, <3>1
    <3>. QED
      BY <2>5, <2>6, <3>1, <3>2
  <2>3. ASSUME thread[d] \in {"order", "executed"} 
        PROVE  /\ Head(children[d]).id \in DOMAIN orders'
               /\ orders'[Head(children[d]).id].AccountID = orders[Head(children[d]).id].AccountID
    BY <1>3, <2>1, <2>3 DEF Knows
  <2>. QED
    BY <2>1, <2>2, <2>3, <2>6 DEF Knows
<1>. QED
  BY <1>4 DEF Knows

LEMMA ProceedingKnows ==
    ASSUME RInv, [Next]_vars, NEW c \in Clients, NEW step, Proceeding(c, step), Knows(c),
           \A j, k, e : Says(c, j, k, e) => Told(c, j, e)
    PROVE  Knows(c)'
<1>1. /\ thread'[c] = step /\ UNCHANGED <<account, children, script>> /\ up
      /\ children[c] # <<>> /\ thread[c] \in Working /\ Domains
      /\ UNCHANGED <<answers, results>>
  BY DEF RInv, Domains, Proceeding, Proceed, Go, Taking
<1>7. \A j, k, e : Says(c, j, k, e)' => Says(c, j, k, e)
  BY <1>1 DEF Says
<1>2. orders \in Seq(OrderRow)
  BY DEF RInv, IInv, TypeOK
<1>3. IInv /\ Len(orders) \in Nat
  BY <1>2 DEF RInv
<1>4. CASE step = "match"
  <2>1. Filed(c)
    BY <1>4 DEF Proceeding
  <2>2. Len(orders') \in DOMAIN orders'
    <3>1. orders' \in Seq(OrderRow)
      BY <1>3, TypeInvariance DEF IInv, TypeOK
    <3>2. Len(orders') = Len(orders) + 1
      BY <2>1 DEF Filed
    <3>. QED
      BY <1>3, <3>1, <3>2
  <2>3. PICK n : n = Len(orders')
    OBVIOUS
  <2>4. Row(c, n)'
    BY <1>1, <2>1, <2>3 DEF Row, Filed
  <2>5. Past(c, n)'
    <3>1. ASSUME NEW j, NEW k, NEW e, Says(c, j, k, e)', e.tag = "opened" PROVE e.id < n
      <4>1. e.id \in DOMAIN orders
        BY <1>7, <3>1 DEF Told
      <4>2. e.id \in 1..Len(orders) /\ n = Len(orders) + 1
        BY <1>2, <2>1, <2>3, <4>1 DEF Filed
      <4>. QED
        BY <1>3, <4>2
    <3>. QED
      BY <3>1 DEF Past
  <2>6. Row(c, Len(orders))' /\ Past(c, Len(orders))'
    BY <2>3, <2>4, <2>5 DEF Row, Past
  <2>. QED
    BY <1>1, <1>4, <2>2, <2>6 DEF Knows
<1>8. CASE step = "select"
  <2>1. thread[c] = "match" /\ orders' = orders
    BY <1>8 DEF Proceeding, Commit, tables
  <2>2. PICK n : n = Len(orders)
    OBVIOUS
  <2>3. n \in DOMAIN orders /\ Row(c, n) /\ Past(c, n)
    BY <1>1, <2>1, <2>2 DEF Knows
  <2>4. Row(c, n)' /\ n \in DOMAIN orders' /\ n = Len(orders')
    BY <1>1, <2>1, <2>2, <2>3 DEF Row
  <2>5. Past(c, n)'
    BY <1>7, <2>3 DEF Past
  <2>. QED
    BY <1>1, <1>8, <2>4, <2>5 DEF Knows
<1>5. CASE step = "order"
  <2>1. Head(children[c]).id \in DOMAIN orders /\ orders[Head(children[c]).id].AccountID = account[c]
    BY <1>5 DEF Proceeding
  <2>2. /\ Head(children[c]).id \in DOMAIN orders'
        /\ orders'[Head(children[c]).id].AccountID = orders[Head(children[c]).id].AccountID
    BY <1>3, <2>1, TableStep
  <2>. QED
    BY <1>1, <1>5, <2>1, <2>2 DEF Knows
<1>6. CASE step = "executed"
  <2>1. /\ ReadRow(c, Head(children[c]).id) /\ UNCHANGED orders
        /\ thread[c] = "order" \/ (Head(children[c]).tag = "query" /\ Head(children[c]).id \in DOMAIN orders)
    BY <1>6 DEF Proceeding, vars, tables
  <2>2. myOrder'[c].AccountID = orders[Head(children[c]).id].AccountID
    BY <1>1, <2>1 DEF ReadRow, GetOrder, Domains
  <2>3. thread[c] = "order" =>
            Head(children[c]).id \in DOMAIN orders /\ orders[Head(children[c]).id].AccountID = account[c]
    BY <1>1 DEF Knows
  <2>. QED
    BY <1>1, <1>6, <2>1, <2>2, <2>3 DEF Knows
<1>. QED
  BY <1>4, <1>5, <1>6, <1>8 DEF Proceeding

\* A thread that is not where an order is begun, cancelled or read knows nothing.
LEMMA KnowsNothing ==
    ASSUME NEW c, thread'[c] \notin {"match", "select", "order", "executed"} \/ ~up'
    PROVE  Knows(c)'
BY DEF Knows

LEMMA ClientKnows ==
    ASSUME RInv, NEW c \in Clients, Send(c) \/ RecvEnds(c) \/ Serve(c), \A d \in Clients : Knows(d),
           \A d \in Clients : \A j, k, e : Says(d, j, k, e) => Told(d, j, e)
    PROVE  \A d \in Clients : Knows(d)'
<1>1. Local(c) /\ [Next]_vars /\ Turn'
  BY ClientStep
<1>2. ASSUME NEW d \in Clients, Same(d), d = c => thread[d] # "select" PROVE Knows(d)'
  <2>1. (up' => up) /\ script' = script
    BY <1>1 DEF Local
  <2>2. thread[d] = "select" /\ OnlyTrader(d) => Len(orders') = Len(orders)
    BY <1>2, RowsAdded
  <2>. QED
    BY <1>1, <1>2, <2>1, <2>2, StillKnows
<1>3. \A d \in Clients \ {c} : Knows(d)'
  BY <1>1, <1>2 DEF Local
<1>4. Domains
  BY DEF RInv
<1>5. CASE Start(c) \/ RecvEnds(c) \/ Recv(c) \/ Extract(c) \/ Respond(c)
  <2>1. thread[c] \in {"start", "recv", "extract", "children"}
    BY <1>5 DEF Start, RecvEnds, Recv, Extract, Respond, At
  <2>2. thread' = thread \/ \E t : Go(c, t) /\ t \notin {"match", "select", "order", "executed"}
    <3>1. \A b : NextStep(b) \notin {"match", "select", "order", "executed"}
      BY DEF NextStep
    <3>. QED
      BY <1>5, <3>1 DEF Start, RecvEnds, Recv, Extract, Respond
  <2>3. thread'[c] \notin {"match", "select", "order", "executed"}
    BY <1>4, <2>1, <2>2 DEF Go, Domains
  <2>. QED
    BY <1>3, <2>3, KnowsNothing
<1>6. CASE Send(c)
  <2>1. UNCHANGED <<script, thread, up, account, children, myOrder, answers, results, vars>>
    BY <1>6 DEF Send
  <2>2. UNCHANGED <<orders>>
    BY <2>1 DEF vars, tables
  <2>3. \A j, k, e : Says(c, j, k, e)' <=> Says(c, j, k, e)
    BY <2>1 DEF Says
  <2>4. \A i : Row(c, i) /\ Past(c, i) => Row(c, i)' /\ Past(c, i)'
    BY <2>1, <2>2, <2>3 DEF Row, Past
  <2>5. OnlyTrader(c)' <=> OnlyTrader(c)
    BY <2>1, TradesAlone
  <2>6. Knows(c)
    OBVIOUS
  <2>7. ASSUME up', thread'[c] = "match"
        PROVE  Len(orders') \in DOMAIN orders' /\ Row(c, Len(orders))' /\ Past(c, Len(orders))'
    <3>1. PICK n : n = Len(orders)
      OBVIOUS
    <3>2. n \in DOMAIN orders /\ Row(c, n) /\ Past(c, n)
      BY <2>1, <2>6, <2>7, <3>1 DEF Knows
    <3>3. n \in DOMAIN orders' /\ Row(c, n)' /\ Past(c, n)' /\ n = Len(orders')
      BY <2>2, <2>4, <3>1, <3>2
    <3>. QED
      BY <3>3 DEF Row, Past
  <2>8. ASSUME up', thread'[c] = "select"
        PROVE  \E i \in DOMAIN orders' : Row(c, i)' /\ Past(c, i)' /\ (OnlyTrader(c)' => i = Len(orders'))
    <3>1. PICK i \in DOMAIN orders : Row(c, i) /\ Past(c, i) /\ (OnlyTrader(c) => i = Len(orders))
      BY <2>1, <2>6, <2>8 DEF Knows
    <3>. QED
      BY <2>2, <2>4, <2>5, <3>1
  <2>9. Knows(c)'
    BY <2>1, <2>2, <2>6, <2>7, <2>8 DEF Knows
  <2>. QED
    BY <1>3, <2>9
<1>7. CASE Child(c)
  <2>1. ChildStep(c)
    BY <1>7, ChildSteps
  <2>2. CASE MatchTurn(c)
    <3>1. Same(c) /\ thread[c] = "match"
      BY <2>2 DEF MatchTurn, connections, Same
    <3>. QED
      BY <1>2, <1>3, <3>1
  <2>3. ASSUME NEW e, Answering(c, e) PROVE Knows(c)'
    <3>1. thread'[c] = "children"
      BY <1>4, <2>3 DEF Answering, Answer, Go, Domains
    <3>. QED
      BY <3>1, KnowsNothing
  <2>4. ASSUME NEW step, Proceeding(c, step) PROVE Knows(c)'
    BY <1>1, <2>4, ProceedingKnows
  <2>. QED
    BY <1>3, <2>1, <2>2, <2>3, <2>4, Zenon DEF ChildStep
<1>. QED
  BY <1>5, <1>6, <1>7, Zenon DEF Serve

\* What is said stays said, and a step adds at most one answer that is no error.
LEMMA NewlySaid ==
    ASSUME RInv, NEW c \in Clients, Send(c) \/ RecvEnds(c) \/ Serve(c),
           NEW d \in Clients, NEW j, NEW k, NEW e, Says(d, j, k, e)'
    PROVE  \/ Says(d, j, k, e)
           \/ e.tag = "error"
           \/ d = c /\ Answering(c, e) /\ j = Len(answers[c]) + 1 /\ k = Len(results[c]) + 1
<1>1. Local(c) /\ Domains
  BY ClientStep DEF RInv
<1>2. CASE d # c
  <2>1. Same(d) /\ (up' => up)
    BY <1>1, <1>2 DEF Local
  <2>. QED
    BY <2>1 DEF Says, Same
<1>3. CASE d = c
  <2>1. IsList(answers[c]) /\ IsList(results[c]) /\ IsList(children[c])
    BY DEF RInv, ConnectionInv, Sound
  <2>2. CASE Send(c) \/ Start(c) \/ RecvEnds(c) \/ Recv(c)
    <3>1. UNCHANGED <<answers, results>> /\ (up' => up)
      BY <1>1, <2>2 DEF Send, Start, RecvEnds, Recv, Local
    <3>2. thread'[c] \in Working => thread[c] \in Working
      BY <1>1, <2>2 DEF Send, Start, RecvEnds, Recv, Go, Domains, Working
    <3>. QED
      BY <1>3, <3>1, <3>2 DEF Says
  <2>3. CASE Extract(c)
    <3>1. UNCHANGED answers
      BY <2>3 DEF Extract
    <3>2. /\ thread[c] = "extract"
          /\ thread' = thread \/ Go(c, "left") \/ (Go(c, "children") /\ \E r : BeginRequest(c, r))
      <4>1. thread' = thread \/ Go(c, "left") \/ (Go(c, "children") /\ \E r : BeginRequest(c, r))
        BY <2>3, Zenon DEF Extract
      <4>. QED
        BY <2>3, <4>1 DEF Extract, At
    <3>3. thread'[c] \in Working => \E r : BeginRequest(c, r)
      BY <1>1, <3>2 DEF Go, Domains, Working
    <3>4. ASSUME thread'[c] \in Working, NEW n \in 1..Len(results'[c]) PROVE results'[c][n].tag = "error"
      <4>1. PICK r : BeginRequest(c, r)
        BY <3>3, <3>4
      <4>2. results'[c] = <<>> \/ \E a, m : results'[c] = <<Error(a, m)>>
        <5>1. PICK v : results' = [results EXCEPT ![c] = v] /\ (v = <<>> \/ \E a, m : v = <<Error(a, m)>>)
          <6>1. CASE r.root = "create"
            <7>1. PICK v : v = IF r.kids = <<>> THEN <<Error("create", "Nothing in tag")>> ELSE <<>>
              OBVIOUS
            <7>2. v = <<>> \/ v = <<Error("create", "Nothing in tag")>>
              BY <7>1
            <7>3. results' = [results EXCEPT ![c] = v]
              BY <4>1, <6>1, <7>1 DEF BeginRequest
            <7>. QED
              BY <7>2, <7>3
          <6>2. CASE r.root = "transactions"
            <7>1. PICK v : v = IF r.id \in opened THEN <<>> ELSE <<Error(r.id, "Account does not exist")>>
              OBVIOUS
            <7>2. v = <<>> \/ v = <<Error(r.id, "Account does not exist")>>
              BY <7>1
            <7>3. results' = [results EXCEPT ![c] = v]
              BY <4>1, <6>2, <7>1 DEF BeginRequest
            <7>. QED
              BY <7>2, <7>3
          <6>. QED
            BY <4>1, <6>1, <6>2 DEF BeginRequest
        <5>. QED
          BY <1>1, <5>1 DEF Domains
      <4>3. \A a, m : Error(a, m).tag = "error"
        BY DEF Error
      <4>4. Len(<<>>) = 0 /\ \A x : Len(<<x>>) = 1 /\ <<x>>[1] = x
        OBVIOUS
      <4>. QED
        BY <3>4, <4>2, <4>3, <4>4
    <3>. QED
      BY <1>3, <3>1, <3>4 DEF Says
  <2>4. CASE Respond(c)
    <3>1. /\ answers'[c] = Append(answers[c], results[c]) /\ thread[c] = "children" /\ up
          /\ thread' = thread \/ \E b : Go(c, NextStep(b))
      BY <1>1, <2>4 DEF Respond, At, Domains
    <3>2. ~(up' /\ thread'[c] \in Working)
      <4>1. CASE Terminate
        BY <4>1 DEF Terminate
      <4>2. CASE \E b : Go(c, NextStep(b))
        <5>1. \A b : NextStep(b) \notin Working
          BY DEF NextStep, Working
        <5>. QED
          BY <1>1, <4>2, <5>1 DEF Go, Domains
      <4>. QED
        BY <2>4, <4>1, <4>2 DEF Respond
    <3>3. j \in 1..Len(answers'[c]) /\ k \in 1..Len(answers'[c][j]) /\ e = answers'[c][j][k]
      BY <1>3, <3>2 DEF Says
    <3>4. /\ Len(answers'[c]) = Len(answers[c]) + 1 /\ Len(answers[c]) \in Nat
          /\ \A n \in 1..Len(answers[c]) : answers'[c][n] = answers[c][n]
          /\ answers'[c][Len(answers[c]) + 1] = results[c]
      BY <2>1, <3>1, ListAppend
    <3>5. CASE j \in 1..Len(answers[c])
      BY <1>3, <3>3, <3>4, <3>5 DEF Says
    <3>6. CASE j = Len(answers[c]) + 1
      BY <1>3, <3>1, <3>3, <3>4, <3>6 DEF Says, Working
    <3>7. j \in 1..Len(answers[c]) \/ j = Len(answers[c]) + 1
      BY <3>3, <3>4
    <3>. QED
      BY <3>5, <3>6, <3>7
  <2>5. CASE Child(c)
    <3>1. ChildStep(c)
      BY <2>5, ChildSteps
    <3>2. CASE MatchTurn(c)
      BY <1>3, <3>2 DEF MatchTurn, connections, Says
    <3>3. ASSUME NEW step, Proceeding(c, step) PROVE Says(d, j, k, e)
      <4>1. UNCHANGED <<answers, results, up>> /\ up /\ thread[c] \in Working
        BY <3>3 DEF Proceeding, Proceed, Taking
      <4>. QED
        BY <1>3, <4>1 DEF Says
    <3>4. ASSUME NEW f, Answering(c, f)
          PROVE  \/ Says(d, j, k, e)
                 \/ Answering(c, e) /\ j = Len(answers[c]) + 1 /\ k = Len(results[c]) + 1
      <4>1. /\ UNCHANGED <<answers, up>> /\ up /\ thread[c] \in Working
            /\ results'[c] = Append(results[c], f)
        BY <1>1, <3>4 DEF Answering, Answer, Taking, Domains
      <4>2. /\ Len(results'[c]) = Len(results[c]) + 1 /\ Len(results[c]) \in Nat
            /\ \A n \in 1..Len(results[c]) : results'[c][n] = results[c][n]
            /\ results'[c][Len(results[c]) + 1] = f
        BY <2>1, <4>1, ListAppend
      <4>3. CASE j \in 1..Len(answers[c]) /\ k \in 1..Len(answers[c][j]) /\ e = answers[c][j][k]
        BY <1>3, <4>3 DEF Says
      <4>4. CASE j = Len(answers[c]) + 1 /\ k \in 1..Len(results[c]) + 1 /\ e = results'[c][k]
        <5>1. CASE k \in 1..Len(results[c])
          BY <1>3, <4>1, <4>2, <4>4, <5>1 DEF Says
        <5>2. CASE k = Len(results[c]) + 1
          BY <3>4, <4>2, <4>4, <5>2
        <5>. QED
          BY <4>2, <4>4, <5>1, <5>2
      <4>. QED
        BY <1>3, <4>1, <4>2, <4>3, <4>4 DEF Says
    <3>. QED
      BY <1>3, <3>1, <3>2, <3>3, <3>4, Zenon DEF ChildStep
  <2>. QED
    BY <2>2, <2>3, <2>4, <2>5, Zenon DEF Serve
<1>. QED
  BY <1>2, <1>3

\* What was told stays so.
LEMMA StillAsks ==
    ASSUME RInv, [Next]_vars, script' = script, NEW c, NEW j, NEW e, NEW i \in DOMAIN orders
    PROVE  Asks(c, j, e, i)' <=> Asks(c, j, e, i)
<1>1. IInv
  BY DEF RInv
<1>2. /\ orders'[i].PriceLimit = orders[i].PriceLimit
      /\ orders'[i].AccountID = orders[i].AccountID /\ orders'[i].SymbolName = orders[i].SymbolName
  BY <1>1, TableStep
<1>. QED
  BY <1>2 DEF Asks, Asker

LEMMA StillTold ==
    ASSUME RInv, [Next]_vars, script' = script, NEW c \in Clients, NEW j, NEW e, Told(c, j, e)
    PROVE  Told(c, j, e)'
<1>1. IInv
  BY DEF RInv
<1>2. /\ opened \subseteq opened'
      /\ \A i \in DOMAIN orders :
            /\ i \in DOMAIN orders' /\ orders'[i].PriceLimit = orders[i].PriceLimit
            /\ orders'[i].AccountID = orders[i].AccountID /\ orders'[i].SymbolName = orders[i].SymbolName
  BY <1>1, TableStep
<1>3. e.tag = "created" => e.about \in opened' \cup (Symbols \X opened')
  BY <1>2 DEF Told
<1>4. ASSUME e.tag = "opened"
      PROVE  e.id \in DOMAIN orders' /\ (OnlyTrader(c)' => Asks(c, j, e, e.id)')
  <2>1. PICK i : i = e.id
    OBVIOUS
  <2>2. i \in DOMAIN orders /\ (OnlyTrader(c) => Asks(c, j, e, i))
    BY <1>4, <2>1 DEF Told
  <2>3. Asks(c, j, e, i)' <=> Asks(c, j, e, i)
    BY <2>2, StillAsks
  <2>4. OnlyTrader(c)' <=> OnlyTrader(c)
    BY TradesAlone
  <2>. QED
    BY <1>2, <2>1, <2>2, <2>3, <2>4
<1>5. e.tag \in {"status", "canceled"} => e.id \in DOMAIN orders' /\ orders'[e.id].AccountID = Asker(c, j)
  BY <1>2 DEF Told
<1>. QED
  BY <1>3, <1>4, <1>5 DEF Told, Asker

LEMMA StillOwn ==
    ASSUME RInv, [Next]_vars, script' = script, NEW c \in Clients, NEW j, NEW k, NEW e,
           Told(c, j, e), Own(c, j, k, e),
           \A h, l, f : Says(c, h, l, f)' /\ f.tag = "opened" /\ Sooner(h, l, j, k) => Says(c, h, l, f)
    PROVE  Own(c, j, k, e)'
<1>1. CASE e.tag = "opened"
  <2>1. PICK i \in 1..e.id : /\ Asks(c, j, e, i)
                            /\ \A h, l, f : Says(c, h, l, f) /\ f.tag = "opened" /\ Sooner(h, l, j, k) => f.id < i
    BY <1>1 DEF Own
  <2>2. orders \in Seq(OrderRow) /\ e.id \in DOMAIN orders
    BY <1>1 DEF RInv, IInv, TypeOK, Told
  <2>3. i \in DOMAIN orders
    BY <2>1, <2>2
  <2>4. Asks(c, j, e, i)'
    BY <2>1, <2>3, StillAsks
  <2>. QED
    BY <2>1, <2>4 DEF Own
<1>. QED
  BY <1>1 DEF Own

\* The order a thread answers is the one it has filed, or one filed later.
LEMMA AnsweringAsks ==
    ASSUME RInv, NEW c \in Clients, Knows(c), NEW e, Answering(c, e), e.tag = "opened",
           NEW j, j = Len(answers[c]) + 1
    PROVE  \E i \in DOMAIN orders : i \in 1..e.id /\ Asks(c, j, e, i) /\ Past(c, i) /\ (OnlyTrader(c) => i = e.id)
<1>1. IInv /\ Taking(c) /\ Truthful(c, e) /\ Halfway(c)
  BY DEF RInv, ConnectionInv, Answering
<1>2. up /\ thread[c] \in Working
  BY <1>1 DEF Taking
<1>3. thread[c] = "select" /\ e.id = Len(orders) /\ e.about = Head(children[c]) /\ Head(children[c]).tag = "order"
  BY <1>1, <1>2 DEF Truthful, Opened, Halfway
<1>4. PICK i \in DOMAIN orders : Row(c, i) /\ Past(c, i) /\ (OnlyTrader(c) => i = Len(orders))
  BY <1>2, <1>3 DEF Knows
<1>5. Asker(c, j) = account[c]
  BY <1>1, <1>3, ActsForAsker
<1>6. orders \in Seq(OrderRow)
  BY <1>1 DEF IInv, TypeOK
<1>7. i \in 1..e.id
  BY <1>3, <1>4, <1>6
<1>8. Asks(c, j, e, i)
  BY <1>3, <1>4, <1>5 DEF Row, Asks
<1>. QED
  BY <1>3, <1>4, <1>7, <1>8

LEMMA AnsweringTold ==
    ASSUME RInv, [Next]_vars, script' = script, NEW c \in Clients, Knows(c), NEW e, Answering(c, e),
           NEW j, j = Len(answers[c]) + 1
    PROVE  Told(c, j, e)'
<1>1. IInv /\ Taking(c) /\ Truthful(c, e) /\ matching' = {} /\ Halfway(c)
  BY DEF RInv, ConnectionInv, Answering
<1>2. /\ opened \subseteq opened'
      /\ \A i \in DOMAIN orders : i \in DOMAIN orders' /\ orders'[i].AccountID = orders[i].AccountID
  BY <1>1, TableStep
<1>3. up /\ thread[c] \in Working
  BY <1>1 DEF Taking
<1>4. e.tag = "created" => e.about \in opened' \cup (Symbols \X opened')
  BY <1>1, <1>2 DEF Truthful
<1>5. ASSUME e.tag = "opened"
      PROVE  e.id \in DOMAIN orders' /\ (OnlyTrader(c)' => Asks(c, j, e, e.id)')
  <2>1. PICK i \in DOMAIN orders : i \in 1..e.id /\ Asks(c, j, e, i) /\ (OnlyTrader(c) => i = e.id)
    BY <1>5, AnsweringAsks
  <2>2. e.id = Len(orders) /\ orders \in Seq(OrderRow)
    BY <1>1, <1>5 DEF Truthful, Opened, IInv, TypeOK
  <2>3. e.id \in DOMAIN orders
    BY <2>1, <2>2
  <2>4. PICK n : n = e.id
    OBVIOUS
  <2>5. OnlyTrader(c) => Asks(c, j, e, n)'
    BY <2>1, <2>3, <2>4, StillAsks
  <2>6. OnlyTrader(c)' <=> OnlyTrader(c)
    BY TradesAlone
  <2>. QED
    BY <1>2, <2>3, <2>4, <2>5, <2>6
<1>6. ASSUME e.tag \in {"status", "canceled"}
      PROVE  e.id \in DOMAIN orders' /\ orders'[e.id].AccountID = Asker(c, j)
  <2>. PICK i : i = Head(children[c]).id
    OBVIOUS
  <2>1. thread[c] = "executed" /\ e.id = myOrder[c].TransID
    BY <1>1, <1>6 DEF Truthful, Status, Canceled
  <2>2. myOrder[c].TransID = i /\ Head(children[c]).tag \in {"query", "cancel"}
    BY <1>1, <1>3, <2>1 DEF Halfway
  <2>3. /\ i \in DOMAIN orders /\ myOrder[c].AccountID = orders[i].AccountID
        /\ Head(children[c]).tag = "cancel" => orders[i].AccountID = account[c]
    BY <1>3, <2>1 DEF Knows
  <2>4. orders[i].AccountID = account[c]
    BY <1>1, <1>6, <2>3 DEF Truthful
  <2>5. Asker(c, j) = account[c]
    BY <1>1, <2>2, ActsForAsker
  <2>. QED
    BY <1>2, <2>1, <2>2, <2>3, <2>4, <2>5
<1>. QED
  BY <1>1, <1>4, <1>5, <1>6 DEF Told, Asker

\* A new answer tells of nothing an earlier one has told of as new.
LEMMA AnsweringClashesNot ==
    ASSUME RInv, NEW c \in Clients, NEW e, Answering(c, e), NEW d \in Clients, NEW j, NEW f, Told(d, j, f)
    PROVE  ~Clash(e, f) /\ ~Clash(f, e)
<1>1. Truthful(c, e)
  BY DEF Answering
<1>2. ASSUME e.tag = "created", f.tag = "created", e.about = f.about, e.about \in Accounts PROVE FALSE
  <2>1. e.about \notin Symbols \X Accounts
    BY <1>2, RequestsAssumption
  <2>2. opened \subseteq Accounts
    BY DEF RInv, IInv, TypeOK
  <2>3. e.about \notin opened
    BY <1>1, <1>2, <2>1, <2>2 DEF Truthful
  <2>4. f.about \in opened \cup (Symbols \X opened)
    BY <1>2 DEF Told
  <2>. QED
    BY <1>2, <2>1, <2>2, <2>3, <2>4
<1>. QED
  BY <1>2 DEF Clash

LEMMA TruthNextInv ==
    ASSUME TInv, [RequestsNext]_allvars
    PROVE  TInv'
<1>1. RInv /\ RInv' /\ [Next]_vars
  BY RequestsNextInv DEF TInv
<1>2. CASE RequestsNext
  <2>1. PICK c \in Clients : Send(c) \/ RecvEnds(c) \/ Serve(c)
    BY <1>2, Zenon DEF RequestsNext
  <2>2. \A d \in Clients : Knows(d)'
    BY <1>1, <2>1, ClientKnows DEF TInv
  <2>3. script' = script
    BY <1>1, <2>1, ClientStep DEF Local
  <2>4. ASSUME NEW d \in Clients, NEW j, NEW k, NEW e, Says(d, j, k, e)' PROVE Told(d, j, e)'
    <3>1. CASE Says(d, j, k, e)
      BY <1>1, <2>3, <3>1, StillTold DEF TInv
    <3>2. CASE e.tag = "error"
      BY <3>2 DEF Told
    <3>3. CASE d = c /\ Answering(c, e) /\ j = Len(answers[c]) + 1
      BY <1>1, <2>3, <3>3, AnsweringTold DEF TInv
    <3>. QED
      BY <1>1, <2>1, <2>4, <3>1, <3>2, <3>3, NewlySaid
  <2>8. ASSUME NEW d \in Clients, NEW j, NEW k, NEW e, Says(d, j, k, e)' PROVE Own(d, j, k, e)'
    <3>1. CASE Says(d, j, k, e)
      <4>1. Told(d, j, e) /\ Own(d, j, k, e)
        BY <3>1 DEF TInv
      <4>2. ASSUME NEW h, NEW l, NEW f, Says(d, h, l, f)', f.tag = "opened", Sooner(h, l, j, k) PROVE Says(d, h, l, f)
        <5>1. Says(d, h, l, f) \/ (d = c /\ h = Len(answers[c]) + 1 /\ l = Len(results[c]) + 1)
          BY <1>1, <2>1, <4>2, NewlySaid
        <5>2. Len(answers[c]) \in Nat /\ Len(results[c]) \in Nat
          BY <1>1, ListFacts DEF RInv, ConnectionInv, Sound
        <5>3. d = c => \/ j \in 1..Len(answers[c])
                       \/ j = Len(answers[c]) + 1 /\ k \in 1..Len(results[c])
          BY <3>1 DEF Says
        <5>. QED
          BY <4>2, <5>1, <5>2, <5>3 DEF Sooner
      <4>. QED
        BY <1>1, <2>3, <4>1, <4>2, StillOwn
    <3>2. CASE e.tag # "opened"
      BY <3>2 DEF Own
    <3>3. CASE d = c /\ Answering(c, e) /\ j = Len(answers[c]) + 1 /\ k = Len(results[c]) + 1 /\ e.tag = "opened"
      <4>1. Knows(c)
        BY DEF TInv
      <4>2. PICK i \in DOMAIN orders : i \in 1..e.id /\ Asks(c, j, e, i) /\ Past(c, i)
        BY <1>1, <3>3, <4>1, AnsweringAsks
      <4>3. Asks(c, j, e, i)'
        BY <1>1, <2>3, <4>2, StillAsks
      <4>4. ASSUME NEW h, NEW l, NEW f, Says(c, h, l, f)', f.tag = "opened", Sooner(h, l, j, k) PROVE f.id < i
        <5>1. Says(c, h, l, f) \/ (h = Len(answers[c]) + 1 /\ l = Len(results[c]) + 1)
          BY <1>1, <2>1, <4>4, NewlySaid
        <5>2. Len(answers[c]) \in Nat /\ Len(results[c]) \in Nat
          BY <1>1, ListFacts DEF RInv, ConnectionInv, Sound
        <5>3. Says(c, h, l, f)
          BY <3>3, <4>4, <5>1, <5>2 DEF Sooner
        <5>. QED
          BY <4>2, <4>4, <5>3 DEF Past
      <4>. QED
        BY <3>3, <4>2, <4>3, <4>4 DEF Own
    <3>4. \/ Says(d, j, k, e) \/ e.tag = "error"
          \/ d = c /\ Answering(c, e) /\ j = Len(answers[c]) + 1 /\ k = Len(results[c]) + 1
      BY <1>1, <2>1, <2>8, NewlySaid
    <3>. QED
      BY <3>1, <3>2, <3>3, <3>4
  <2>5. ASSUME NEW d \in Clients, NEW j, NEW k, NEW e, Says(d, j, k, e)',
               NEW b \in Clients, NEW i, NEW l, NEW f, Says(b, i, l, f)', Clash(e, f)
        PROVE  d = b /\ j = i /\ k = l
    <3>1. e.tag # "error" /\ f.tag # "error"
      BY <2>5 DEF Clash
    <3>2. Says(d, j, k, e) \/ (d = c /\ Answering(c, e) /\ j = Len(answers[c]) + 1 /\ k = Len(results[c]) + 1)
      BY <1>1, <2>1, <2>5, <3>1, NewlySaid
    <3>3. Says(b, i, l, f) \/ (b = c /\ Answering(c, f) /\ i = Len(answers[c]) + 1 /\ l = Len(results[c]) + 1)
      BY <1>1, <2>1, <2>5, <3>1, NewlySaid
    <3>4. CASE Says(d, j, k, e) /\ Says(b, i, l, f)
      BY <2>5, <3>4 DEF TInv
    <3>5. CASE Says(d, j, k, e) /\ Answering(c, f)
      <4>1. Told(d, j, e)
        BY <3>5 DEF TInv
      <4>. QED
        BY <1>1, <2>5, <3>5, <4>1, AnsweringClashesNot
    <3>6. CASE Answering(c, e) /\ Says(b, i, l, f)
      <4>1. Told(b, i, f)
        BY <3>6 DEF TInv
      <4>. QED
        BY <1>1, <2>5, <3>6, <4>1, AnsweringClashesNot
    <3>. QED
      BY <3>2, <3>3, <3>4, <3>5, <3>6
  <2>6. \A d \in Clients : \A j, k, e : Says(d, j, k, e)' => Told(d, j, e)' /\ Own(d, j, k, e)'
    BY <2>4, <2>8
  <2>7. \A d, b \in Clients : \A j, k, e, i, l, f :
            Says(d, j, k, e)' /\ Says(b, i, l, f)' /\ Clash(e, f) => d = b /\ j = i /\ k = l
    BY <2>5
  <2>. QED
    BY <1>1, <2>2, <2>6, <2>7 DEF TInv, Clash
<1>3. CASE UNCHANGED allvars
  <2>1. UNCHANGED vars /\ UNCHANGED connections
    BY <1>3 DEF allvars
  <2>2. /\ UNCHANGED <<script, cut, up, sent, wire, thread, request_copy, account, children, results, myOrder, answers>>
        /\ UNCHANGED <<matching, orders, opened>>
    BY <2>1 DEF connections, vars, tables
  <2>3. \A c \in Clients : Knows(c)'
    <3>1. ASSUME NEW d \in Clients PROVE Knows(d)'
      <4>1. Same(d) /\ Knows(d) /\ (up' => up) /\ script' = script /\ Len(orders') = Len(orders)
        BY <2>2 DEF Same, TInv
      <4>2. Turn'
        BY <1>1 DEF RInv
      <4>. QED
        BY <1>1, <4>1, <4>2, StillKnows
    <3>. QED
      BY <3>1
  <2>4. \A c \in Clients : \A j, k, e : Says(c, j, k, e)' <=> Says(c, j, k, e)
    BY <2>2 DEF Says
  <2>5. ASSUME NEW c \in Clients, NEW j, NEW k, NEW e, Says(c, j, k, e)' PROVE Told(c, j, e)' /\ Own(c, j, k, e)'
    <3>1. Told(c, j, e) /\ Own(c, j, k, e)
      BY <2>4, <2>5 DEF TInv
    <3>2. Told(c, j, e)'
      BY <1>1, <2>2, <3>1, StillTold
    <3>3. Own(c, j, k, e)'
      BY <1>1, <2>2, <2>4, <3>1, StillOwn
    <3>. QED
      BY <3>2, <3>3
  <2>6. \A c, d \in Clients : \A j, k, e, i, l, f :
            Says(c, j, k, e)' /\ Says(d, i, l, f)' /\ Clash(e, f) => c = d /\ j = i /\ k = l
    BY <2>4 DEF TInv
  <2>. QED
    BY <1>1, <2>3, <2>5, <2>6 DEF TInv, Clash
<1>. QED
  BY <1>2, <1>3

LEMMA SaidAtFirst ==
    ASSUME RequestsInit
    PROVE  \A c \in Clients : \A j, k, e : ~Says(c, j, k, e)
<1>1. \A c \in Clients : answers[c] = <<>> /\ thread[c] = "start"
  BY DEF RequestsInit
<1>2. 1..Len(<<>>) = {} /\ "start" \notin Working
  BY DEF Working
<1>. QED
  BY <1>1, <1>2 DEF Says

LEMMA TruthInit == RequestsInit => TInv
<1> SUFFICES ASSUME RequestsInit PROVE TInv
  OBVIOUS
<1>1. RInv
  BY RequestsInitInv
<1>2. \A c \in Clients : Knows(c)
  BY DEF RequestsInit, Knows
<1>. QED
  BY <1>1, <1>2, SaidAtFirst DEF TInv

LEMMA TruthInvariant == RequestsSpec => []TInv
<1>1. TInv /\ [RequestsNext]_allvars => TInv'
  BY TruthNextInv, Zenon
<1>. QED
  BY <1>1, TruthInit, PTL DEF RequestsSpec

\* The answers sent are said.
LEMMA AnswersAreSaid ==
    ASSUME RInv, NEW at \in AnswerAt
    PROVE  at[1] \in Clients /\ at = <<at[1], at[2], at[3]>> /\ Says(at[1], at[2], at[3], The(at))
<1>1. PICK c, j, k : /\ c \in Clients /\ j \in DOMAIN answers[c] /\ k \in DOMAIN answers[c][j]
                     /\ at = <<c, j, k>>
  BY DEF AnswerAt
<1>2. IsList(answers[c])
  BY <1>1 DEF RInv, ConnectionInv, Sound
<1>3. j \in 1..Len(answers[c])
  BY <1>1, <1>2, ListFacts
<1>4. IsList(answers[c][j])
  BY <1>1, <1>3 DEF RInv, ConnectionInv, Sound
<1>5. k \in 1..Len(answers[c][j])
  BY <1>1, <1>4, ListFacts
<1>. QED
  BY <1>1, <1>3, <1>5 DEF Says, The

\* Every answer sent on any connection is true of the tables, then and later: accounts are
\* reported created once, status and cancellations are told to the owner only, and the number
\* of an opened order, which may be another's, is not below that of the order asked for, and is
\* that order's when no one else trades.
THEOREM AnswersTrue == RequestsSpec => []AnswersAreTrue
<1>1. TInv => AnswersAreTrue
  <2> SUFFICES ASSUME TInv PROVE AnswersAreTrue
    OBVIOUS
  <2>1. ASSUME NEW at \in AnswerAt
        PROVE  at[1] \in Clients /\ at = <<at[1], at[2], at[3]>> /\ Says(at[1], at[2], at[3], The(at))
    BY AnswersAreSaid DEF TInv
  <2>2. ASSUME NEW at \in AnswerAt, NEW other \in AnswerAt \ {at} PROVE ~Clash(The(at), The(other))
    BY <2>1 DEF TInv
  <2>3. ASSUME NEW at \in AnswerAt PROVE Told(at[1], at[2], The(at))
    BY <2>1 DEF TInv
  <2>4. ASSUME NEW at \in AnswerAt, The(at).tag = "created"
        PROVE  /\ The(at).about \in opened \cup (Symbols \X opened)
               /\ The(at).about \in Accounts =>
                   \A other \in AnswerAt \ {at} : ~(The(other).tag = "created" /\ The(other).about = The(at).about)
    BY <2>2, <2>3, <2>4 DEF Told, Clash
  <2>5. ASSUME NEW at \in AnswerAt, The(at).tag = "opened"
        PROVE  /\ The(at).id \in DOMAIN orders
               /\ \E i \in 1..The(at).id :
                     /\ AsAsked(i, at)
                     /\ \A first \in AnswerAt : Before(first, at) /\ The(first).tag = "opened" => The(first).id < i
               /\ OnlyTrader(at[1]) => AsAsked(The(at).id, at)
    <3>1. PICK c, j, k, e : c = at[1] /\ j = at[2] /\ k = at[3] /\ e = The(at)
      OBVIOUS
    <3>2. c \in Clients /\ Says(c, j, k, e) /\ e.tag = "opened" /\ Told(c, j, e) /\ Own(c, j, k, e)
      BY <2>1, <2>5, <3>1 DEF TInv
    <3>3. \A i : Asks(c, j, e, i) => AsAsked(i, at)
      BY <3>1 DEF Asks, AsAsked, Asker, For
    <3>4. PICK i \in 1..e.id : /\ Asks(c, j, e, i)
                              /\ \A h, l, f : Says(c, h, l, f) /\ f.tag = "opened" /\ Sooner(h, l, j, k) => f.id < i
      BY <3>2 DEF Own
    <3>5. ASSUME NEW first \in AnswerAt, Before(first, at), The(first).tag = "opened" PROVE The(first).id < i
      <4>1. Says(c, first[2], first[3], The(first)) /\ Sooner(first[2], first[3], j, k)
        BY <2>1, <3>1, <3>5 DEF Before, Sooner
      <4>. QED
        BY <3>4, <3>5, <4>1
    <3>6. e.id \in DOMAIN orders /\ (OnlyTrader(c) => AsAsked(e.id, at))
      BY <3>2, <3>3 DEF Told
    <3>. QED
      BY <3>1, <3>3, <3>4, <3>5, <3>6
  <2>6. ASSUME NEW at \in AnswerAt, The(at).tag \in {"status", "canceled"}
        PROVE  orders[The(at).id].AccountID = For(at)
    BY <2>3, <2>6 DEF Told, Asker, For
  <2>. QED
    BY <2>4, <2>5, <2>6 DEF AnswersAreTrue
<1>. QED
  BY <1>1, TruthInvariant, PTL
-----------------------------------------------------------------------------
(* What answers tell adds up                                                *)

\* What get_order shows of the rows for order i.
ShownOf(rows, i) ==
    [k \in {n \in DOMAIN rows : rows[n].TransID = i} |-> [shares |-> Size(rows[k].Amount), price |-> rows[k].Price]]

LEMMA ExecutedIsShown == \A i : Executed(i) = ShownOf(executed, i)
BY DEF Executed, ShownOf, Size

\* One more row shows its shares.
LEMMA OneShown ==
    ASSUME NEW r \in Seq(ExecRow), NEW z \in ExecRow, NEW i
    PROVE  /\ Append(r, z) \in Seq(ExecRow) /\ SharesIn(ShownOf(r, i)) \in Int
           /\ SharesIn(ShownOf(Append(r, z), i)) =
                  SharesIn(ShownOf(r, i)) + (IF z.TransID = i THEN Size(z.Amount) ELSE 0)
<1> DEFINE D(t) == {n \in DOMAIN t : t[n].TransID = i}
           F(t) == [k \in D(t) |-> Size(t[k].Amount)]
<1>1. /\ DOMAIN r = 1..Len(r) /\ Len(r) \in Nat
      /\ \A k \in DOMAIN r : r[k].Amount \in Int
  <2>1. DOMAIN r = 1..Len(r) /\ Len(r) \in Nat /\ \A k \in DOMAIN r : r[k] \in ExecRow
    OBVIOUS
  <2>2. \A x \in ExecRow : x.Amount \in Int
    BY DEF ExecRow
  <2>. QED
    BY <2>1, <2>2
<1>2. PICK u : u = Append(r, z) /\ u \in Seq(ExecRow)
  BY AppendProperties
<1>3. /\ DOMAIN u = DOMAIN r \cup {Len(r) + 1} /\ Len(r) + 1 \notin DOMAIN r
      /\ u[Len(r) + 1] = z /\ \A k \in DOMAIN r : u[k] = r[k]
  BY <1>1, <1>2
<1>4. \A m \in Int : Size(m) \in Int
  BY DEF Size
<1>5. z.Amount \in Int
  BY DEF ExecRow
<1>6. IsFiniteSet(D(r)) /\ \A k \in D(r) : F(r)[k] \in Int
  <2>1. IsFiniteSet(DOMAIN r)
    BY <1>1, FS_Interval
  <2>. QED
    BY <1>1, <1>4, <2>1, FS_Subset
<1>7. ASSUME NEW t PROVE SharesIn(ShownOf(t, i)) = SumFunction(F(t))
  <2>1. [k \in DOMAIN ShownOf(t, i) |-> ShownOf(t, i)[k].shares] = F(t)
    BY DEF ShownOf
  <2> HIDE DEF F
  <2>. QED
    BY <2>1 DEF SharesIn
<1>8. DOMAIN F(r) = D(r) /\ DOMAIN F(u) = D(u)
  OBVIOUS
<1>9. CASE z.TransID = i
  <2>1. D(u) = D(r) \cup {Len(r) + 1} /\ Len(r) + 1 \notin D(r)
    BY <1>3, <1>9
  <2>2. F(u)[Len(r) + 1] = Size(z.Amount) /\ \A k \in D(r) : F(u)[k] = F(r)[k]
    BY <1>3, <2>1
  <2> HIDE DEF F, D
  <2>3. SumMoves(F(r), F(u), Len(r) + 1)
    BY <1>4, <1>5, <1>6, <1>8, <2>1, <2>2, SumChanged
  <2>4. SumFunction(F(r)) \in Int /\ SumFunction(F(u)) = SumFunction(F(r)) + Size(z.Amount) - 0
    BY <1>8, <2>1, <2>2, <2>3 DEF SumMoves
  <2>5. Size(z.Amount) \in Int
    BY <1>4, <1>5
  <2>. QED
    BY <1>2, <1>7, <1>9, <2>4, <2>5
<1>10. CASE z.TransID # i
  <2>1. D(u) = D(r) /\ \A k \in D(r) : u[k] = r[k]
    BY <1>3, <1>10
  <2>2. F(u) = F(r)
    BY <2>1
  <2> HIDE DEF F, D
  <2>3. SumFunction(F(r)) \in Int
    BY <1>6, <1>8, SumOfSet DEF SumFunction
  <2>. QED
    BY <1>2, <1>7, <1>10, <2>2, <2>3
<1>. QED
  BY <1>9, <1>10

\* The rows a match appends show the shares that changed hands.
LEMMA TwoShown ==
    ASSUME NEW r \in Seq(ExecRow), NEW x \in ExecRow, NEW y \in ExecRow, NEW i
    PROVE  /\ SharesIn(ShownOf(r, i)) \in Int
           /\ SharesIn(ShownOf(r \o <<x, y>>, i)) =
                  SharesIn(ShownOf(r, i)) + (IF x.TransID = i THEN Size(x.Amount) ELSE 0)
                                          + (IF y.TransID = i THEN Size(y.Amount) ELSE 0)
<1>1. PICK one : one = Append(r, x)
  OBVIOUS
<1>2. one \in Seq(ExecRow) /\ SharesIn(ShownOf(r, i)) \in Int
      /\ SharesIn(ShownOf(one, i)) = SharesIn(ShownOf(r, i)) + (IF x.TransID = i THEN Size(x.Amount) ELSE 0)
  BY <1>1, OneShown
<1>3. SharesIn(ShownOf(Append(one, y), i)) = SharesIn(ShownOf(one, i)) + (IF y.TransID = i THEN Size(y.Amount) ELSE 0)
  BY <1>2, OneShown
<1>4. Append(one, y) = r \o <<x, y>>
  BY <1>1
<1>. QED
  BY <1>2, <1>3, <1>4

\* The amount m open, the signed sum f of the executions and the shares h shown for them.
Balanced(m, f, h) ==
    /\ m \in Int /\ f \in Int /\ h \in Int
    /\ (m >= 0 /\ f >= 0 /\ h = f) \/ (m =< 0 /\ f =< 0 /\ h = -f)

Ledger ==
    \A i : IF i \in DOMAIN orders THEN Balanced(orders[i].Amount, Filled(executed, i), SharesIn(Executed(i)))
           ELSE Filled(executed, i) = 0 /\ SharesIn(Executed(i)) = 0

\* What order i was placed with.
Whole(i) == orders[i].Amount + Filled(executed, i)

\* What a step may do to order i.
Moves(i) ==
    /\ i \in DOMAIN orders' /\ orders[i].Amount \in Int /\ orders'[i].Amount \in Int
    /\ Whole(i)' = Whole(i)
    /\ Size(orders'[i].Amount) =< Size(orders[i].Amount)
    /\ DOMAIN Executed(i) \subseteq DOMAIN Executed(i)'
    /\ ~Active(i) => orders'[i] = orders[i] /\ Executed(i)' = Executed(i)

\* A match moves n shares from the open part of a buying or a selling order.
LEMMA SharesMove ==
    ASSUME NEW m, NEW f, NEW h, Balanced(m, f, h), NEW n \in Int, n > 0
    PROVE  /\ n =< m => Balanced(m - n, f + n, h + n) /\ Size(m - n) =< Size(m)
           /\ n =< -m => Balanced(m + n, f - n, h + n) /\ Size(m + n) =< Size(m)
<1>1. m \in Int /\ f \in Int /\ h \in Int
  BY DEF Balanced
<1>2. ASSUME n =< m PROVE Balanced(m - n, f + n, h + n) /\ Size(m - n) =< Size(m)
  <2>1. m > 0 /\ f >= 0 /\ h = f
    BY <1>1, <1>2 DEF Balanced
  <2>. QED
    BY <1>1, <1>2, <2>1 DEF Balanced, Size
<1>3. ASSUME n =< -m PROVE Balanced(m + n, f - n, h + n) /\ Size(m + n) =< Size(m)
  <2>1. m < 0 /\ f =< 0 /\ h = -f
    BY <1>1, <1>3 DEF Balanced
  <2>. QED
    BY <1>1, <1>3, <2>1 DEF Balanced, Size
<1>. QED
  BY <1>2, <1>3

LEMMA LedgerStep ==
    ASSUME IInv, [Next]_vars, Ledger
    PROVE  Ledger' /\ \A i \in DOMAIN orders : Moves(i)
<1>0. /\ TypeOK /\ VectorsMirrorBook /\ orders \in Seq(OrderRow) /\ executed \in Seq(ExecRow)
      /\ orders' \in Seq(OrderRow)
  BY TypeInvariance DEF IInv, TypeOK
<1>1. /\ \A i \in DOMAIN orders : orders[i].Amount \in Int
      /\ \A i \in DOMAIN orders' : orders'[i].Amount \in Int
  BY <1>0, RowFields
<1>2. \A i \in DOMAIN orders : i \in DOMAIN orders'
  BY TableStep
<1>3. OpenAmountsExplained
  BY AmountsExplained
<1>4. \A i \in DOMAIN orders : Balanced(orders[i].Amount, Filled(executed, i), SharesIn(Executed(i)))
  BY DEF Ledger
<1>5. \A i : i \notin DOMAIN orders => Filled(executed, i) = 0 /\ SharesIn(Executed(i)) = 0
  BY DEF Ledger
<1>6. ASSUME \A k \in DOMAIN executed : k \in DOMAIN executed' /\ executed'[k] = executed[k],
             \A i \in DOMAIN orders : Filled(executed', i) \in Int,
             \A i \in DOMAIN orders : Size(orders'[i].Amount) =< Size(orders[i].Amount),
             NEW i \in DOMAIN orders
      PROVE  Moves(i)
  <2>1. Whole(i)' = Whole(i)
    <3>1. PICK m, n, f, g \in Int :
              m = orders[i].Amount /\ n = orders'[i].Amount /\ f = Filled(executed, i) /\ g = Filled(executed', i)
      BY <1>1, <1>2, <1>4, <1>6 DEF Balanced
    <3>2. m - n = g - f
      BY <1>3, <3>1 DEF OpenAmountsExplained
    <3>3. n + g = m + f
      BY <3>2
    <3>. QED
      BY <3>1, <3>3 DEF Whole
  <2>2. DOMAIN Executed(i) = {k \in DOMAIN executed : executed[k].TransID = i}
        /\ DOMAIN Executed(i)' = {k \in DOMAIN executed' : executed'[k].TransID = i}
    BY DEF Executed
  <2>3. DOMAIN Executed(i) \subseteq DOMAIN Executed(i)'
    BY <1>6, <2>2
  <2>4. ASSUME ~Active(i) PROVE orders'[i] = orders[i] /\ Executed(i)' = Executed(i)
    <3>1. /\ orders'[i] = orders[i]
          /\ \A k \in DOMAIN executed' \ DOMAIN executed : executed'[k].TransID # i
      BY <2>4, ClosedStep
    <3>2. {k \in DOMAIN executed' : executed'[k].TransID = i} = {k \in DOMAIN executed : executed[k].TransID = i}
      BY <1>6, <3>1
    <3>3. \A k \in {n \in DOMAIN executed : executed[n].TransID = i} : executed'[k] = executed[k]
      BY <1>6
    <3>. QED
      BY <3>1, <3>2, <3>3 DEF Executed
  <2>. QED
    BY <1>1, <1>2, <1>6, <2>1, <2>3, <2>4 DEF Moves
<1>7. CASE MatchHeads
  <2>1. PICK n, p : n = MatchAmount(buying[1], selling[1]) /\ p = MatchPrice(buying[1], selling[1])
    OBVIOUS
  <2>2. PICK b, a : b = buying[1].TransID /\ a = selling[1].TransID
    OBVIOUS
  <2>3. PICK x, y : x = [TransID |-> b, Amount |-> n, Price |-> p] /\ y = [TransID |-> a, Amount |-> -n, Price |-> p]
    OBVIOUS
  <2>4. PICK s \in matching :
           /\ CanMatch /\ n \in Int /\ n > 0 /\ n =< buying[1].Amount /\ n =< -selling[1].Amount
           /\ b \in Buys(orders, s) /\ a \in Sells(orders, s) /\ b # a
           /\ DOMAIN orders' = DOMAIN orders
           /\ orders'[b] = [orders[b] EXCEPT !.Amount = buying[1].Amount - n]
           /\ orders'[a] = [orders[a] EXCEPT !.Amount = selling[1].Amount + n]
           /\ \A i \in DOMAIN orders \ {a, b} : orders'[i] = orders[i]
    BY <1>0, <1>7, <2>1, <2>2, MatchEffect
  <2>5. /\ buying[1] = ActiveOrderOf(orders, b) /\ selling[1] = ActiveOrderOf(orders, a)
        /\ b \in DOMAIN orders /\ a \in DOMAIN orders
        /\ buying[1] \in ActiveOrder /\ selling[1] \in ActiveOrder
    BY <1>0, <2>2, <2>4, Heads, HeadsType, ActiveRows
  <2>6. /\ buying[1].Amount = orders[b].Amount /\ selling[1].Amount = orders[a].Amount
        /\ orders[b] \in OrderRow /\ orders[a] \in OrderRow
    BY <1>0, <2>5 DEF ActiveOrderOf
  <2>7. orders'[b].Amount = orders[b].Amount - n /\ orders'[a].Amount = orders[a].Amount + n
    BY <2>4, <2>6 DEF OrderRow
  <2>8. x \in ExecRow /\ y \in ExecRow /\ executed' = executed \o <<x, y>>
    BY <1>0, <1>7, <2>1, <2>2, <2>3, <2>4, HeadsType, ActiveFields DEF ExecRow, MatchHeads
  <2>9. x.TransID = b /\ y.TransID = a /\ x.Amount = n /\ y.Amount = -n /\ Size(n) = n /\ Size(-n) = n
    BY <2>3, <2>4 DEF Size
  <2>10. ASSUME NEW i
         PROVE  /\ Filled(executed', i) = Filled(executed, i) + (IF b = i THEN n ELSE 0) + (IF a = i THEN -n ELSE 0)
                /\ SharesIn(Executed(i)') = SharesIn(Executed(i)) + (IF b = i THEN n ELSE 0) + (IF a = i THEN n ELSE 0)
                /\ Filled(executed, i) \in Int /\ SharesIn(Executed(i)) \in Int
    <3>1. Executed(i) = ShownOf(executed, i) /\ Executed(i)' = ShownOf(executed', i)
      BY DEF Executed, ShownOf, Size
    <3>2. Filled(executed', i) = Filled(executed, i) + (IF x.TransID = i THEN x.Amount ELSE 0)
                                                     + (IF y.TransID = i THEN y.Amount ELSE 0)
      BY <1>0, <2>8, TwoExecutions
    <3>3. /\ SharesIn(ShownOf(executed, i)) \in Int
          /\ SharesIn(ShownOf(executed', i)) = SharesIn(ShownOf(executed, i))
                   + (IF x.TransID = i THEN Size(x.Amount) ELSE 0) + (IF y.TransID = i THEN Size(y.Amount) ELSE 0)
      BY <1>0, <2>8, TwoShown
    <3>4. Filled(executed, i) \in Int
      BY <1>0, FilledTyped
    <3>. QED
      BY <2>9, <3>1, <3>2, <3>3, <3>4
  <2>11. ASSUME NEW i \in DOMAIN orders
         PROVE  /\ Balanced(orders'[i].Amount, Filled(executed', i), SharesIn(Executed(i)'))
                /\ Size(orders'[i].Amount) =< Size(orders[i].Amount)
    <3>1. PICK m, f, h : m = orders[i].Amount /\ f = Filled(executed, i) /\ h = SharesIn(Executed(i))
      OBVIOUS
    <3>2. Balanced(m, f, h) /\ m \in Int /\ f \in Int /\ h \in Int
      BY <1>4, <3>1 DEF Balanced
    <3>3. CASE i = b
      <4>1. orders'[i].Amount = m - n /\ n =< m
        BY <2>4, <2>6, <2>7, <3>1, <3>3
      <4>2. Filled(executed', i) = f + n + 0 /\ SharesIn(Executed(i)') = h + n + 0
        BY <2>4, <2>10, <3>1, <3>3
      <4>3. f + n + 0 = f + n /\ h + n + 0 = h + n
        BY <2>4, <3>2
      <4>. QED
        BY <2>4, <3>1, <3>2, <4>1, <4>2, <4>3, SharesMove
    <3>4. CASE i = a
      <4>1. orders'[i].Amount = m + n /\ n =< -m
        BY <2>4, <2>6, <2>7, <3>1, <3>4
      <4>2. Filled(executed', i) = f + 0 + -n /\ SharesIn(Executed(i)') = h + 0 + n
        BY <2>4, <2>10, <3>1, <3>4
      <4>3. f + 0 + -n = f - n /\ h + 0 + n = h + n
        BY <2>4, <3>2
      <4>. QED
        BY <2>4, <3>1, <3>2, <4>1, <4>2, <4>3, SharesMove
    <3>5. CASE i # a /\ i # b
      <4>1. orders'[i] = orders[i]
        BY <2>4, <3>5
      <4>2. Filled(executed', i) = f + 0 + 0 /\ SharesIn(Executed(i)') = h + 0 + 0
        BY <2>10, <3>1, <3>5
      <4>3. f + 0 + 0 = f /\ h + 0 + 0 = h /\ Size(m) =< Size(m)
        BY <3>2 DEF Size
      <4>. QED
        BY <3>1, <3>2, <4>1, <4>2, <4>3
    <3>. QED
      BY <3>3, <3>4, <3>5
  <2>12. ASSUME NEW i, i \notin DOMAIN orders PROVE Filled(executed', i) = 0 /\ SharesIn(Executed(i)') = 0
    <3>1. b # i /\ a # i
      BY <2>5, <2>12
    <3>2. Filled(executed', i) = 0 + 0 + 0 /\ SharesIn(Executed(i)') = 0 + 0 + 0
      BY <1>5, <2>10, <2>12, <3>1
    <3>. QED
      BY <3>2
  <2>13. Ledger'
    BY <2>4, <2>11, <2>12 DEF Ledger
  <2>14. \A k \in DOMAIN executed : k \in DOMAIN executed' /\ executed'[k] = executed[k]
    <3>1. DOMAIN executed = 1..Len(executed) /\ Len(executed) \in Nat
      BY <1>0
    <3>. QED
      BY <1>0, <2>8, <3>1
  <2>15. \A i \in DOMAIN orders : Filled(executed', i) \in Int
    BY <2>11 DEF Balanced
  <2>. QED
    BY <1>6, <2>11, <2>13, <2>14, <2>15
<1>8. CASE ~MatchHeads
  <2>1. executed' = executed
    BY <1>8, OthersExecuteNothing
  <2>2. \A i : Executed(i)' = Executed(i)
    BY <2>1 DEF Executed
  <2>3. ASSUME NEW i \in DOMAIN orders PROVE orders'[i].Amount = orders[i].Amount
    <3>1. PICK m, n, f \in Int : m = orders[i].Amount /\ n = orders'[i].Amount /\ f = Filled(executed, i)
      BY <1>1, <1>2, <1>4 DEF Balanced
    <3>2. m - n = f - f
      BY <1>3, <2>1, <3>1 DEF OpenAmountsExplained
    <3>3. m = n
      BY <3>2
    <3>. QED
      BY <3>1, <3>3
  <2>4. ASSUME NEW i \in DOMAIN orders' \ DOMAIN orders
        PROVE  Balanced(orders'[i].Amount, Filled(executed', i), SharesIn(Executed(i)'))
    <3>1. Filled(executed', i) = 0 /\ SharesIn(Executed(i)') = 0 /\ orders'[i].Amount \in Int
      BY <1>1, <1>5, <2>1, <2>2, <2>4
    <3>2. ASSUME NEW m \in Int PROVE Balanced(m, 0, 0)
      <4>1. (m >= 0 \/ m =< 0) /\ -0 = 0 /\ 0 \in Int /\ 0 >= 0 /\ 0 =< 0
        <5>1. \A f \in Int : -f \in Int /\ -f + f = 0
          OBVIOUS
        <5>2. \A f, g \in Int : g + f = 0 /\ f = 0 => g = 0
          OBVIOUS
        <5>3. 0 \in Int /\ (m >= 0 \/ m =< 0) /\ 0 >= 0 /\ 0 =< 0
          OBVIOUS
        <5>. QED
          BY <5>1, <5>2, <5>3, Zenon
      <4>2. CASE m >= 0
        BY <4>1, <4>2 DEF Balanced
      <4>3. CASE m =< 0
        BY <4>1, <4>3 DEF Balanced
      <4>. QED
        BY <4>1, <4>2, <4>3
    <3>. QED
      BY <3>1, <3>2
  <2>5. ASSUME NEW i \in DOMAIN orders
        PROVE  Balanced(orders'[i].Amount, Filled(executed', i), SharesIn(Executed(i)'))
    BY <1>4, <2>1, <2>2, <2>3
  <2>6. \A i : i \notin DOMAIN orders' => Filled(executed', i) = 0 /\ SharesIn(Executed(i)') = 0
    BY <1>2, <1>5, <2>1, <2>2
  <2>7. Ledger'
    BY <2>4, <2>5, <2>6 DEF Ledger
  <2>8. \A i \in DOMAIN orders : Size(orders'[i].Amount) =< Size(orders[i].Amount) /\ Filled(executed', i) \in Int
    <3>1. \A m \in Int : Size(m) =< Size(m)
      BY DEF Size
    <3>. QED
      BY <1>1, <1>4, <2>1, <2>3, <3>1 DEF Balanced
  <2>. QED
    BY <1>6, <2>1, <2>7, <2>8
<1>. QED
  BY <1>7, <1>8

\* That is what the status of an order adds up to.
LEMMA PlacedIs ==
    ASSUME IInv, Ledger, NEW i \in DOMAIN orders
    PROVE  Placed(i) = Size(Whole(i))
<1>1. PICK m, f, h : m = orders[i].Amount /\ f = Filled(executed, i) /\ h = SharesIn(Executed(i))
  OBVIOUS
<1>2. Balanced(m, f, h)
  BY <1>1 DEF Ledger
<1>3. h = SumFunction([k \in {n \in DOMAIN executed : executed[n].TransID = i} |-> Size(executed[k].Amount)])
  <2>1. PICK rows : rows = {n \in DOMAIN executed : executed[n].TransID = i}
    OBVIOUS
  <2>2. PICK e : e = Executed(i)
    OBVIOUS
  <2>3. e = [k \in rows |-> [shares |-> Size(executed[k].Amount), price |-> executed[k].Price]]
    BY <2>1, <2>2, ExecutedIsShown DEF ShownOf
  <2>4. [k \in DOMAIN e |-> e[k].shares] = [k \in rows |-> Size(executed[k].Amount)]
    BY <2>3
  <2>. QED
    BY <1>1, <2>1, <2>2, <2>4 DEF SharesIn
<1>4. Placed(i) = Size(m) + h
  BY <1>1, <1>3, Zenon DEF Placed
<1>5. Size(m) + h = Size(m + f)
  BY <1>2 DEF Balanced, Size
<1>. QED
  BY <1>1, <1>4, <1>5 DEF Whole

\* What e has told of an order's shares.
Tally(e) ==
    Tells(e) =>
        /\ DOMAIN e.executed \subseteq DOMAIN Executed(e.id)
        /\ e.shares \in Int /\ SharesIn(e.executed) \in Int
        /\ Size(orders[e.id].Amount) =< Size(e.shares)
        /\ e.part = "open" =>
               /\ Size(Whole(e.id)) =< Size(e.shares) + SharesIn(e.executed)
               /\ SharesIn(e.executed) =< Size(Whole(e.id))
        /\ e.part # "open" =>
               /\ Size(Whole(e.id)) = Size(e.shares) + SharesIn(e.executed)
               /\ ~Active(e.id) /\ orders[e.id].Amount = e.shares
               /\ StatusPart(orders[e.id]) = e.part /\ e.executed = Executed(e.id)

\* The order c was told the number of has the shares it asked for.
Sized(c, e) == e.tag = "opened" /\ OnlyTrader(c) => e.about.amount = Whole(e.id)

\* What the row get_order has read has to do with the table and with what was told before.
ReadOf(c, i, o) ==
    /\ o.TransID = i /\ o.Amount \in Int /\ Size(orders[i].Amount) =< Size(o.Amount)
    /\ StatusPart(o) # "open" => orders[i].Amount = o.Amount /\ orders[i].CancelTime = o.CancelTime
    /\ Head(children[c]).tag = "cancel" => StatusPart(o) = "canceled"
    /\ \A j, k, e : Says(c, j, k, e) /\ Tells(e) /\ e.id = i =>
           /\ Size(o.Amount) =< Size(e.shares)
           /\ e.part # "open" => StatusPart(o) = e.part /\ o.Amount = e.shares

Reads(c) ==
    up =>
      /\ thread[c] = "match" \/ (thread[c] = "select" /\ OnlyTrader(c)) =>
             Whole(Len(orders)) = Head(children[c]).amount
      /\ thread[c] = "order" =>
             orders[Head(children[c]).id].CancelTime # NOTCANCELLED /\ orders[Head(children[c]).id].Amount # 0
      /\ thread[c] = "executed" => ReadOf(c, Head(children[c]).id, myOrder[c])

AInv ==
    /\ TInv /\ Ledger
    /\ \A c \in Clients : Reads(c)
    /\ \A c \in Clients : \A j, k, e : Says(c, j, k, e) => Tally(e) /\ Sized(c, e)
    /\ \A c \in Clients : \A j, k, e, i, l, f :
          (/\ Says(c, j, k, e) /\ Says(c, i, l, f) /\ Sooner(j, k, i, l)
           /\ Tells(e) /\ Tells(f) /\ e.id = f.id) => Follows(e, f)

\* A row is closed when its status says so.
LEMMA ClosedPart ==
    ASSUME NEW i
    PROVE  StatusPart(orders[i]) # "open" <=> ~Active(i)
BY DEF StatusPart, Active

LEMMA StillTallies ==
    ASSUME NEW e, Tally(e), Tells(e) => Moves(e.id)
    PROVE  Tally(e)'
<1>2. ASSUME Tells(e)
      PROVE  /\ DOMAIN e.executed \subseteq DOMAIN Executed(e.id)'
             /\ e.shares \in Int /\ SharesIn(e.executed) \in Int
             /\ Size(orders'[e.id].Amount) =< Size(e.shares)
             /\ e.part = "open" =>
                    /\ Size(Whole(e.id)') =< Size(e.shares) + SharesIn(e.executed)
                    /\ SharesIn(e.executed) =< Size(Whole(e.id)')
             /\ e.part # "open" =>
                    /\ Size(Whole(e.id)') = Size(e.shares) + SharesIn(e.executed)
                    /\ ~Active(e.id)' /\ orders'[e.id].Amount = e.shares
                    /\ StatusPart(orders'[e.id]) = e.part /\ e.executed = Executed(e.id)'
  <2>1. Moves(e.id)
    BY <1>2
  <2>2. /\ DOMAIN e.executed \subseteq DOMAIN Executed(e.id)
        /\ e.shares \in Int /\ SharesIn(e.executed) \in Int
        /\ Size(orders[e.id].Amount) =< Size(e.shares)
        /\ e.part = "open" =>
               /\ Size(Whole(e.id)) =< Size(e.shares) + SharesIn(e.executed)
               /\ SharesIn(e.executed) =< Size(Whole(e.id))
        /\ e.part # "open" =>
               /\ Size(Whole(e.id)) = Size(e.shares) + SharesIn(e.executed)
               /\ ~Active(e.id) /\ orders[e.id].Amount = e.shares
               /\ StatusPart(orders[e.id]) = e.part /\ e.executed = Executed(e.id)
    BY <1>2 DEF Tally
  <2>3. /\ Whole(e.id)' = Whole(e.id) /\ DOMAIN Executed(e.id) \subseteq DOMAIN Executed(e.id)'
        /\ ~Active(e.id) => orders'[e.id] = orders[e.id] /\ Executed(e.id)' = Executed(e.id)
    BY <2>1 DEF Moves
  <2>4. Size(orders'[e.id].Amount) =< Size(e.shares)
    <3>1. PICK x, y, z : x = Size(orders'[e.id].Amount) /\ y = Size(orders[e.id].Amount) /\ z = Size(e.shares)
      OBVIOUS
    <3>2. \A m \in Int : Size(m) \in Int
      BY DEF Size
    <3>3. x \in Int /\ y \in Int /\ z \in Int
      BY <2>1, <2>2, <3>1, <3>2 DEF Moves
    <3>4. x =< y /\ y =< z
      BY <2>1, <2>2, <3>1 DEF Moves
    <3>5. x =< z
      BY <3>3, <3>4
    <3>. QED
      BY <3>1, <3>5
  <2>5. ~Active(e.id) => ~Active(e.id)'
    BY <2>3 DEF Active
  <2>. QED
    BY <2>2, <2>3, <2>4, <2>5
<1>. QED
  BY <1>2 DEF Tally

LEMMA StillSized ==
    ASSUME NEW c, NEW e, Sized(c, e), e.tag = "opened" => Moves(e.id), script' = script
    PROVE  Sized(c, e)'
<1>1. OnlyTrader(c)' <=> OnlyTrader(c)
  BY TradesAlone
<1>2. PICK i : i = e.id
  OBVIOUS
<1>3. e.tag = "opened" => Whole(i)' = Whole(i)
  BY <1>2 DEF Moves
<1>. QED
  BY <1>1, <1>2, <1>3 DEF Sized

\* Its own answers apart, what c's thread has read stays right.
LEMMA ReadStays ==
    ASSUME NEW c, NEW i, NEW o, ReadOf(c, i, o), Moves(i), Head(children'[c]).tag = Head(children[c]).tag,
           \A j, k, e : Says(c, j, k, e)' => Says(c, j, k, e)
    PROVE  ReadOf(c, i, o)'
<1>1. Size(orders'[i].Amount) =< Size(o.Amount)
  <2>1. PICK x, y, z : x = Size(orders'[i].Amount) /\ y = Size(orders[i].Amount) /\ z = Size(o.Amount)
    OBVIOUS
  <2>2. \A m \in Int : Size(m) \in Int
    BY DEF Size
  <2>3. x \in Int /\ y \in Int /\ z \in Int /\ x =< y /\ y =< z
    BY <2>1, <2>2 DEF Moves, ReadOf
  <2>4. x =< z
    BY <2>3
  <2>. QED
    BY <2>1, <2>4
<1>2. StatusPart(o) # "open" => orders'[i].Amount = o.Amount /\ orders'[i].CancelTime = o.CancelTime
  <2>1. ASSUME StatusPart(o) # "open" PROVE orders'[i] = orders[i]
    <3>1. orders[i].Amount = o.Amount /\ orders[i].CancelTime = o.CancelTime
      BY <2>1 DEF ReadOf
    <3>2. ~Active(i)
      BY <2>1, <3>1 DEF StatusPart, Active
    <3>. QED
      BY <3>2 DEF Moves
  <2>. QED
    BY <2>1 DEF ReadOf
<1>. QED
  BY <1>1, <1>2 DEF ReadOf

LEMMA StillReads ==
    ASSUME AInv, [Next]_vars, Turn', NEW d \in Clients, Same(d), up' => up, script' = script,
           thread[d] = "select" /\ OnlyTrader(d) => Len(orders') = Len(orders)
    PROVE  Reads(d)'
<1>1. RInv /\ IInv /\ Knows(d) /\ Reads(d) /\ ConnectionInv(d)
  BY DEF AInv, TInv, RInv
<1>2. \A i \in DOMAIN orders : Moves(i)
  BY <1>1, LedgerStep DEF AInv
<1>3. CASE up'
  <2>1. thread'[d] = thread[d] /\ children'[d] = children[d] /\ myOrder'[d] = myOrder[d] /\ up
    BY <1>3 DEF Same
  <2>5. OnlyTrader(d)' <=> OnlyTrader(d)
    BY TradesAlone
  <2>2. ASSUME thread[d] = "match" \/ (thread[d] = "select" /\ OnlyTrader(d))
        PROVE  Whole(Len(orders))' = Head(children[d]).amount
    <3>1. Len(orders') = Len(orders)
      <4>1. thread[d] = "match" => matching # {} /\ matching' # {}
        BY <1>1, <1>3, <2>1, <2>2 DEF RInv, Turn
      <4>. QED
        BY <1>1, <2>2, <4>1, TableStep
    <3>2. Len(orders) \in DOMAIN orders /\ Whole(Len(orders)) = Head(children[d]).amount
      BY <1>1, <2>1, <2>2 DEF Knows, Reads
    <3>3. PICK n : n = Len(orders)
      OBVIOUS
    <3>4. Whole(n)' = Whole(n)
      BY <1>2, <3>2, <3>3 DEF Moves
    <3>. QED
      BY <3>1, <3>2, <3>3, <3>4 DEF Whole
  <2>3. ASSUME thread[d] = "order"
        PROVE  orders'[Head(children[d]).id].CancelTime # NOTCANCELLED /\ orders'[Head(children[d]).id].Amount # 0
    <3>0. PICK i : i = Head(children[d]).id
      OBVIOUS
    <3>1. i \in DOMAIN orders /\ orders[i].CancelTime # NOTCANCELLED /\ orders[i].Amount # 0
      BY <1>1, <2>1, <2>3, <3>0 DEF Knows, Reads
    <3>2. orders'[i] = orders[i]
      BY <1>2, <3>1 DEF Moves, Active
    <3>. QED
      BY <3>0, <3>1, <3>2
  <2>4. ASSUME thread[d] = "executed" PROVE ReadOf(d, Head(children[d]).id, myOrder[d])'
    <3>0. PICK i, o : i = Head(children[d]).id /\ o = myOrder[d]
      OBVIOUS
    <3>1. i \in DOMAIN orders /\ ReadOf(d, i, o)
      BY <1>1, <2>1, <2>4, <3>0 DEF Knows, Reads
    <3>2. \A j, k, e : Says(d, j, k, e)' => Says(d, j, k, e)
      BY <1>3, <2>1 DEF Says, Same
    <3>3. ReadOf(d, i, o)'
      BY <1>2, <2>1, <3>1, <3>2, ReadStays
    <3>. QED
      BY <2>1, <3>0, <3>3
  <2>. QED
    BY <2>1, <2>2, <2>3, <2>4, <2>5 DEF Reads
<1>. QED
  BY <1>3 DEF Reads

LEMMA ProceedingReads ==
    ASSUME AInv, [Next]_vars, NEW c \in Clients, NEW step, Proceeding(c, step)
    PROVE  Reads(c)'
<1>0. PICK i, h : h = Head(children[c]) /\ i = h.id
  OBVIOUS
<1>1. RInv /\ IInv /\ Knows(c) /\ Reads(c) /\ ConnectionInv(c) /\ Ledger
  BY DEF AInv, TInv, RInv
<1>2. /\ thread'[c] = step /\ UNCHANGED <<account, children>> /\ up
      /\ children[c] # <<>> /\ thread[c] \in Working /\ Domains
      /\ UNCHANGED <<answers, results>>
  BY <1>1 DEF RInv, Domains, Proceeding, Proceed, Go, Taking
<1>3. /\ Len(orders) \in Nat /\ DOMAIN orders = 1..Len(orders)
      /\ orders \in Seq(OrderRow)
  BY <1>1 DEF IInv, TypeOK
<1>4. CASE step = "match"
  <2>1. Filed(c)
    BY <1>4 DEF Proceeding
  <2>2. PICK n : n = Len(orders')
    OBVIOUS
  <2>3. n = Len(orders) + 1 /\ orders'[n].Amount = h.amount
    BY <1>0, <2>1, <2>2 DEF Filed
  <2>4. n \notin DOMAIN orders /\ n \in DOMAIN orders'
    <3>1. orders' \in Seq(OrderRow)
      BY <1>1, TypeInvariance DEF IInv, TypeOK
    <3>2. DOMAIN orders' = 1..Len(orders') /\ Len(orders') \in Nat
      BY <3>1
    <3>3. n \in Nat /\ n >= 1 /\ n = Len(orders) + 1
      BY <1>3, <2>3
    <3>4. n \notin 1..Len(orders) /\ n \in 1..n
      BY <1>3, <3>3
    <3>. QED
      BY <1>3, <2>2, <3>2, <3>4
  <2>5. Filled(executed', n) = 0
    <3>1. Filled(executed, n) = 0
      BY <1>1, <2>4 DEF Ledger
    <3>2. ~MatchHeads
      BY <2>1 DEF Filed, MatchHeads
    <3>. QED
      BY <3>1, <3>2, OthersExecuteNothing
  <2>6. orders'[n].Amount \in Int
    <3>1. Ledger'
      BY <1>1, LedgerStep
    <3>. QED
      BY <2>4, <3>1 DEF Ledger, Balanced
  <2>7. orders'[n].Amount + 0 = orders'[n].Amount
    BY <2>6
  <2>8. Whole(Len(orders))' = h.amount
    BY <2>2, <2>3, <2>5, <2>7 DEF Whole
  <2>. QED
    BY <1>0, <1>2, <1>4, <2>8 DEF Reads
<1>7. CASE step = "select"
  <2>1. thread[c] = "match" /\ UNCHANGED <<orders, executed>>
    BY <1>7 DEF Proceeding, Commit, tables
  <2>2. Whole(Len(orders))' = Whole(Len(orders))
    BY <2>1 DEF Whole
  <2>3. Whole(Len(orders)) = h.amount
    BY <1>0, <1>1, <1>2, <2>1 DEF Reads
  <2>. QED
    BY <1>0, <1>2, <1>7, <2>2, <2>3 DEF Reads
<1>5. CASE step = "order"
  <2>1. orders'[i].CancelTime # NOTCANCELLED /\ orders'[i].Amount # 0
    BY <1>0, <1>5 DEF Proceeding
  <2>. QED
    BY <1>0, <1>2, <1>5, <2>1 DEF Reads
<1>6. CASE step = "executed"
  <2>1. /\ ReadRow(c, i) /\ UNCHANGED <<orders, executed>>
        /\ thread[c] = "order" \/ (thread[c] = "children" /\ h.tag = "query" /\ i \in DOMAIN orders)
    BY <1>0, <1>6 DEF Proceeding, vars, tables
  <2>2. PICK o : o = GetOrder(i)
    OBVIOUS
  <2>3. myOrder'[c] = o /\ o.TransID = i /\ o.Amount = orders[i].Amount /\ o.CancelTime = orders[i].CancelTime
    BY <1>2, <2>1, <2>2 DEF ReadRow, GetOrder, Domains
  <2>4. i \in DOMAIN orders /\ (thread[c] = "order" => o.CancelTime # NOTCANCELLED /\ o.Amount # 0)
    BY <1>0, <1>1, <1>2, <2>1, <2>3 DEF Knows, Reads
  <2>5. o.Amount \in Int
    BY <1>3, <2>3, <2>4, RowFields
  <2>6. h.tag = "cancel" => StatusPart(o) = "canceled"
    BY <2>1, <2>4 DEF StatusPart
  <2>7. StatusPart(orders[i]) = StatusPart(o)
    BY <2>3 DEF StatusPart
  <2>8. ASSUME NEW j, NEW k, NEW e, Says(c, j, k, e)', Tells(e), e.id = i
        PROVE  /\ Size(o.Amount) =< Size(e.shares)
               /\ e.part # "open" => StatusPart(o) = e.part /\ o.Amount = e.shares
    <3>1. Says(c, j, k, e)
      BY <1>2, <2>8 DEF Says
    <3>2. Tally(e)
      BY <3>1 DEF AInv
    <3>. QED
      BY <2>3, <2>7, <2>8, <3>2 DEF Tally
  <2>9. Size(orders'[i].Amount) =< Size(o.Amount)
    <3>1. \A m \in Int : Size(m) =< Size(m)
      BY DEF Size
    <3>. QED
      BY <2>1, <2>3, <2>5, <3>1
  <2>10. orders'[i].Amount = o.Amount /\ orders'[i].CancelTime = o.CancelTime /\ Head(children'[c]).tag = h.tag
    BY <1>0, <1>2, <2>1, <2>3
  <2>11. ReadOf(c, i, o)'
    BY <2>3, <2>5, <2>6, <2>8, <2>9, <2>10 DEF ReadOf
  <2>. QED
    BY <1>0, <1>2, <1>6, <2>3, <2>11 DEF Reads
<1>. QED
  BY <1>4, <1>5, <1>6, <1>7 DEF Proceeding

LEMMA ReadsNothing ==
    ASSUME NEW c, thread'[c] \notin {"match", "select", "order", "executed"} \/ ~up'
    PROVE  Reads(c)'
BY DEF Reads

LEMMA ClientReads ==
    ASSUME AInv, NEW c \in Clients, Send(c) \/ RecvEnds(c) \/ Serve(c)
    PROVE  \A d \in Clients : Reads(d)'
<1>0. RInv
  BY DEF AInv, TInv
<1>1. Local(c) /\ [Next]_vars /\ Turn'
  BY <1>0, ClientStep
<1>2. ASSUME NEW d \in Clients, Same(d), d = c => thread[d] # "select" PROVE Reads(d)'
  <2>1. (up' => up) /\ script' = script
    BY <1>1 DEF Local
  <2>2. thread[d] = "select" /\ OnlyTrader(d) => Len(orders') = Len(orders)
    BY <1>0, <1>2, RowsAdded
  <2>. QED
    BY <1>1, <1>2, <2>1, <2>2, StillReads
<1>3. \A d \in Clients \ {c} : Reads(d)'
  BY <1>1, <1>2 DEF Local
<1>4. Domains
  BY <1>0 DEF RInv
<1>5. CASE Start(c) \/ RecvEnds(c) \/ Recv(c) \/ Extract(c) \/ Respond(c)
  <2>1. thread[c] \in {"start", "recv", "extract", "children"}
    BY <1>5 DEF Start, RecvEnds, Recv, Extract, Respond, At
  <2>2. thread' = thread \/ \E t : Go(c, t) /\ t \notin {"match", "select", "order", "executed"}
    <3>1. \A b : NextStep(b) \notin {"match", "select", "order", "executed"}
      BY DEF NextStep
    <3>. QED
      BY <1>5, <3>1 DEF Start, RecvEnds, Recv, Extract, Respond
  <2>3. thread'[c] \notin {"match", "select", "order", "executed"}
    BY <1>4, <2>1, <2>2 DEF Go, Domains
  <2>. QED
    BY <1>3, <2>3, ReadsNothing
<1>6. CASE Send(c)
  <2>1. UNCHANGED <<script, thread, up, account, children, myOrder, answers, results, vars>>
    BY <1>6 DEF Send
  <2>4. OnlyTrader(c)' <=> OnlyTrader(c)
    BY <2>1, TradesAlone
  <2>2. UNCHANGED <<orders, executed>>
    BY <2>1 DEF vars, tables
  <2>3. Reads(c)'
    <3>1. \A j, k, e : Says(c, j, k, e)' <=> Says(c, j, k, e)
      BY <2>1 DEF Says
    <3>2. ASSUME NEW i, NEW o, ReadOf(c, i, o) PROVE ReadOf(c, i, o)'
      BY <2>1, <2>2, <3>1, <3>2 DEF ReadOf
    <3>3. PICK i, o : i = Head(children[c]).id /\ o = myOrder[c]
      OBVIOUS
    <3>4. up /\ thread[c] = "executed" => ReadOf(c, i, o)'
      BY <3>2, <3>3 DEF AInv, Reads
    <3>5. up /\ thread[c] = "executed" => ReadOf(c, Head(children[c]).id, myOrder[c])'
      BY <2>1, <3>3, <3>4
    <3>. QED
      BY <2>1, <2>2, <2>4, <3>5 DEF AInv, Reads, Whole
  <2>. QED
    BY <1>3, <2>3
<1>7. CASE Child(c)
  <2>1. ChildStep(c)
    BY <1>0, <1>7, ChildSteps
  <2>2. CASE MatchTurn(c)
    <3>1. Same(c) /\ thread[c] = "match"
      BY <2>2 DEF MatchTurn, connections, Same
    <3>. QED
      BY <1>2, <1>3, <3>1
  <2>3. ASSUME NEW e, Answering(c, e) PROVE Reads(c)'
    <3>1. thread'[c] = "children"
      BY <1>4, <2>3 DEF Answering, Answer, Go, Domains
    <3>. QED
      BY <3>1, ReadsNothing
  <2>4. ASSUME NEW step, Proceeding(c, step) PROVE Reads(c)'
    BY <1>1, <2>4, ProceedingReads
  <2>. QED
    BY <1>3, <2>1, <2>2, <2>3, <2>4, Zenon DEF ChildStep
<1>. QED
  BY <1>5, <1>6, <1>7, Zenon DEF Serve

\* What is answered adds up when it is.
LEMMA AnsweringTallies ==
    ASSUME AInv, NEW c \in Clients, NEW e, Answering(c, e)
    PROVE  Tally(e) /\ Sized(c, e) /\ (e.tag = "opened" \/ Tells(e) => e.id \in DOMAIN orders)
<1>0. PICK h, o : h = Head(children[c]) /\ o = myOrder[c]
  OBVIOUS
<1>1. /\ RInv /\ Knows(c) /\ Reads(c) /\ Halfway(c) /\ Ledger /\ Truthful(c, e)
      /\ up /\ thread[c] \in Working
  BY DEF AInv, TInv, RInv, ConnectionInv, Answering, Taking
<1>2. CASE e.tag = "opened"
  <2>1. thread[c] = "select" /\ e.about = h /\ e.id = Len(orders)
    BY <1>0, <1>1, <1>2 DEF Truthful, Opened
  <2>2. OnlyTrader(c) => Whole(Len(orders)) = h.amount
    BY <1>0, <1>1, <2>1 DEF Reads
  <2>3. ~Tells(e)
    BY <1>2 DEF Tells
  <2>4. PICK j : j = Len(answers[c]) + 1
    OBVIOUS
  <2>5. e.id \in DOMAIN orders
    <3>1. \E i \in DOMAIN orders : i \in 1..e.id
      BY <1>1, <1>2, <2>4, AnsweringAsks
    <3>2. orders \in Seq(OrderRow)
      BY <1>1 DEF RInv, IInv, TypeOK
    <3>. QED
      BY <2>1, <3>1, <3>2
  <2>. QED
    BY <2>1, <2>2, <2>3, <2>5 DEF Tally, Sized
<1>3. CASE Tells(e)
  <2>1. /\ thread[c] = "executed" /\ e.id = o.TransID /\ e.shares = o.Amount /\ e.executed = Executed(o.TransID)
        /\ e.part = StatusPart(o) \/ (e.part = "canceled" /\ h.tag = "cancel")
    BY <1>0, <1>1, <1>3 DEF Truthful, Tells, Status, Canceled
  <2>2. PICK i : i = h.id
    OBVIOUS
  <2>3. o.TransID = i /\ i \in DOMAIN orders /\ ReadOf(c, i, o)
    BY <1>0, <1>1, <2>1, <2>2 DEF Knows, Reads, Halfway
  <2>4. e.part = StatusPart(o)
    BY <1>0, <2>1, <2>3 DEF ReadOf
  <2>5. PICK m, f, s, n : m = orders[i].Amount /\ f = Filled(executed, i) /\ s = SharesIn(Executed(i)) /\ n = o.Amount
    OBVIOUS
  <2>6. Balanced(m, f, s) /\ n \in Int /\ Size(m) =< Size(n)
    BY <1>1, <2>3, <2>5 DEF Ledger, ReadOf
  <2>7. Size(m + f) = Size(m) + s /\ s =< Size(m + f) /\ s \in Int /\ Size(m) \in Int /\ Size(n) \in Int
    BY <2>6 DEF Balanced, Size
  <2>8. Size(m + f) =< Size(n) + s
    <3>1. PICK x, y, z : x = Size(m) /\ y = Size(n) /\ z = Size(m + f)
      OBVIOUS
    <3>2. x \in Int /\ y \in Int /\ s \in Int /\ z = x + s /\ x =< y
      BY <2>6, <2>7, <3>1
    <3>3. z =< y + s
      BY <3>2
    <3>. QED
      BY <3>1, <3>3
  <2>9. Whole(i) = m + f
    BY <2>5 DEF Whole
  <2>10. ASSUME StatusPart(o) # "open"
         PROVE  m = n /\ StatusPart(orders[i]) = StatusPart(o) /\ ~Active(i)
    <3>1. orders[i].Amount = o.Amount /\ orders[i].CancelTime = o.CancelTime
      BY <2>3, <2>10 DEF ReadOf
    <3>2. StatusPart(orders[i]) = StatusPart(o)
      BY <3>1 DEF StatusPart
    <3>. QED
      BY <2>5, <2>10, <3>1, <3>2, ClosedPart
  <2>11. e.id = i /\ e.shares = n /\ e.executed = Executed(i) /\ SharesIn(e.executed) = s /\ e.tag # "opened"
    BY <1>3, <2>1, <2>3, <2>5 DEF Tells
  <2>. QED
    BY <2>3, <2>4, <2>5, <2>6, <2>7, <2>8, <2>9, <2>10, <2>11 DEF Tally, Sized
<1>4. CASE e.tag # "opened" /\ ~Tells(e)
  BY <1>4 DEF Tally, Sized
<1>. QED
  BY <1>2, <1>3, <1>4

\* It goes on from what was told on this connection before.
LEMMA AnsweringFollows ==
    ASSUME AInv, NEW c \in Clients, NEW f, Answering(c, f), Tells(f),
           NEW j, NEW k, NEW e, Says(c, j, k, e), Tells(e), e.id = f.id
    PROVE  Follows(e, f)
<1>0. PICK h, o, i : h = Head(children[c]) /\ o = myOrder[c] /\ i = h.id
  OBVIOUS
<1>1. /\ Reads(c) /\ Halfway(c) /\ Truthful(c, f) /\ up /\ thread[c] \in Working
  BY DEF AInv, TInv, RInv, ConnectionInv, Answering, Taking
<1>2. /\ thread[c] = "executed" /\ f.id = o.TransID /\ f.shares = o.Amount /\ f.executed = Executed(o.TransID)
      /\ f.part = StatusPart(o) \/ (f.part = "canceled" /\ h.tag = "cancel")
  BY <1>0, <1>1 DEF Truthful, Tells, Status, Canceled
<1>3. o.TransID = i /\ ReadOf(c, i, o)
  BY <1>0, <1>1, <1>2 DEF Reads, Halfway
<1>4. f.part = StatusPart(o)
  BY <1>0, <1>2, <1>3 DEF ReadOf
<1>5. Size(o.Amount) =< Size(e.shares) /\ (e.part # "open" => StatusPart(o) = e.part /\ o.Amount = e.shares)
  BY <1>2, <1>3 DEF ReadOf
<1>6. Tally(e)
  BY DEF AInv
<1>7. DOMAIN e.executed \subseteq DOMAIN Executed(i) /\ (e.part # "open" => e.executed = Executed(i))
  BY <1>2, <1>3, <1>6 DEF Tally
<1>. QED
  BY <1>2, <1>3, <1>4, <1>5, <1>7 DEF Follows

LEMMA AddsUpNextInv ==
    ASSUME AInv, [RequestsNext]_allvars
    PROVE  AInv'
<1>1. TInv /\ RInv /\ IInv /\ Ledger /\ TInv'
  BY TruthNextInv DEF AInv, TInv, RInv
<1>2. [Next]_vars
  BY <1>1, RequestsNextInv
<1>3. Ledger' /\ \A i \in DOMAIN orders : Moves(i)
  BY <1>1, <1>2, LedgerStep
<1>4. CASE RequestsNext
  <2>1. PICK c \in Clients : Send(c) \/ RecvEnds(c) \/ Serve(c)
    BY <1>4, Zenon DEF RequestsNext
  <2>2. \A d \in Clients : Reads(d)'
    BY <2>1, ClientReads
  <2>8. script' = script
    BY <1>1, <2>1, ClientStep DEF Local
  <2>3. ASSUME NEW d, NEW e, Tally(e), Sized(d, e), e.tag = "opened" \/ Tells(e) => e.id \in DOMAIN orders
        PROVE  Tally(e)' /\ Sized(d, e)'
    <3>1. e.tag = "opened" \/ Tells(e) => Moves(e.id)
      BY <1>3, <2>3
    <3>2. Tally(e)'
      BY <2>3, <3>1, StillTallies
    <3>3. Sized(d, e)'
      BY <2>3, <2>8, <3>1, StillSized
    <3>. QED
      BY <3>2, <3>3
  <2>4. ASSUME NEW d \in Clients, NEW j, NEW k, NEW e, Says(d, j, k, e)' PROVE Tally(e)' /\ Sized(d, e)'
    <3>1. CASE Says(d, j, k, e)
      <4>1. Tally(e) /\ Sized(d, e) /\ Told(d, j, e)
        BY <1>1, <3>1 DEF AInv, TInv
      <4>2. e.tag = "opened" \/ Tells(e) => e.id \in DOMAIN orders
        BY <4>1 DEF Told, Tells
      <4>. QED
        BY <2>3, <4>1, <4>2
    <3>2. CASE e.tag = "error"
      BY <3>2 DEF Tally, Tells, Sized
    <3>3. CASE d = c /\ Answering(c, e)
      <4>1. Tally(e) /\ Sized(c, e) /\ (e.tag = "opened" \/ Tells(e) => e.id \in DOMAIN orders)
        BY <3>3, AnsweringTallies
      <4>. QED
        BY <2>3, <3>3, <4>1
    <3>. QED
      BY <1>1, <2>1, <2>4, <3>1, <3>2, <3>3, NewlySaid
  <2>5. ASSUME NEW d \in Clients, NEW j, NEW k, NEW e, Says(d, j, k, e)', Tells(e),
               NEW i, NEW l, NEW f, Says(d, i, l, f)', Tells(f), Sooner(j, k, i, l), e.id = f.id
        PROVE  Follows(e, f)
    <3>1. e.tag # "error" /\ f.tag # "error"
      BY <2>5 DEF Tells
    <3>2. Says(d, j, k, e) \/ (d = c /\ Answering(c, e) /\ j = Len(answers[c]) + 1 /\ k = Len(results[c]) + 1)
      BY <1>1, <2>1, <2>5, <3>1, NewlySaid
    <3>3. Says(d, i, l, f) \/ (d = c /\ Answering(c, f) /\ i = Len(answers[c]) + 1 /\ l = Len(results[c]) + 1)
      BY <1>1, <2>1, <2>5, <3>1, NewlySaid
    <3>4. CASE Says(d, j, k, e) /\ Says(d, i, l, f)
      BY <2>5, <3>4 DEF AInv
    <3>5. CASE Says(d, j, k, e) /\ d = c /\ Answering(c, f)
      BY <2>5, <3>5, AnsweringFollows
    <3>6. CASE d = c /\ j = Len(answers[c]) + 1 /\ k = Len(results[c]) + 1
      <4>1. Len(answers[c]) \in Nat /\ Len(results[c]) \in Nat
        BY <1>1, ListFacts DEF RInv, ConnectionInv, Sound
      <4>2. \/ i \in 1..Len(answers[c])
            \/ i = Len(answers[c]) + 1 /\ l \in 1..Len(results[c])
            \/ i = Len(answers[c]) + 1 /\ l = Len(results[c]) + 1
        BY <3>3, <3>6 DEF Says
      <4>. QED
        BY <2>5, <3>6, <4>1, <4>2 DEF Sooner
    <3>. QED
      BY <3>2, <3>3, <3>4, <3>5, <3>6
  <2>6. \A d \in Clients : \A j, k, e : Says(d, j, k, e)' => Tally(e)' /\ Sized(d, e)'
    BY <2>4
  <2>7. \A d \in Clients : \A j, k, e, i, l, f :
            (/\ Says(d, j, k, e)' /\ Says(d, i, l, f)' /\ Sooner(j, k, i, l)
             /\ Tells(e) /\ Tells(f) /\ e.id = f.id) => Follows(e, f)
    BY <2>5
  <2>. QED
    BY <1>1, <1>3, <2>2, <2>6, <2>7 DEF AInv
<1>5. CASE UNCHANGED allvars
  <2>1. UNCHANGED vars /\ UNCHANGED connections
    BY <1>5 DEF allvars
  <2>2. /\ UNCHANGED <<script, up, thread, children, results, myOrder, answers>>
        /\ UNCHANGED <<orders, executed>>
    BY <2>1 DEF connections, vars, tables
  <2>6. \A c : OnlyTrader(c)' <=> OnlyTrader(c)
    BY <2>2, TradesAlone
  <2>3. \A c \in Clients : \A j, k, e : Says(c, j, k, e)' <=> Says(c, j, k, e)
    BY <2>2 DEF Says
  <2>4. ASSUME NEW c \in Clients PROVE Reads(c)'
    <3>1. PICK i, o : i = Head(children[c]).id /\ o = myOrder[c]
      OBVIOUS
    <3>2. ReadOf(c, i, o) => ReadOf(c, i, o)'
      BY <2>2, <2>3 DEF ReadOf
    <3>3. up /\ thread[c] = "executed" => ReadOf(c, Head(children[c]).id, myOrder[c])'
      BY <2>2, <3>1, <3>2 DEF AInv, Reads
    <3>. QED
      BY <2>2, <2>6, <3>3 DEF AInv, Reads, Whole
  <2>5. \A e : Tally(e) => Tally(e)'
    BY <2>2 DEF Tally, Whole, Executed, Active
  <2>7. \A c, e : Sized(c, e) => Sized(c, e)'
    BY <2>2, <2>6 DEF Sized, Whole
  <2>. QED
    BY <1>1, <1>3, <2>3, <2>4, <2>5, <2>7 DEF AInv
<1>. QED
  BY <1>4, <1>5

LEMMA AddsUpInvariant == RequestsSpec => []AInv
<1>1. RequestsInit => AInv
  <2> SUFFICES ASSUME RequestsInit PROVE AInv
    OBVIOUS
  <2>1. TInv
    BY TruthInit
  <2>2. \A c \in Clients : Reads(c)
    BY DEF RequestsInit, Reads
  <2>3. \A c \in Clients : \A j, k, e : ~Says(c, j, k, e)
    BY SaidAtFirst
  <2>4. Ledger
    <3>1. orders = <<>> /\ executed = <<>>
      BY DEF RequestsInit, Init
    <3>2. ASSUME NEW i PROVE Filled(executed, i) = 0 /\ SharesIn(Executed(i)) = 0
      <4>1. DOMAIN executed = {}
        BY <3>1
      <4>2. ASSUME NEW f, DOMAIN f = {} PROVE SumFunction(f) = 0
        BY <4>2, FS_EmptySet, SumOfSet DEF SumFunction
      <4>3. DOMAIN Executed(i) = {}
        BY <4>1 DEF Executed
      <4>. QED
        BY <4>1, <4>2, <4>3 DEF Filled, SharesIn
    <3>3. DOMAIN orders = {}
      BY <3>1
    <3>. QED
      BY <3>2, <3>3 DEF Ledger
  <2>. QED
    BY <2>1, <2>2, <2>3, <2>4 DEF AInv
<1>2. AInv /\ [RequestsNext]_allvars => AInv'
  BY AddsUpNextInv, Zenon
<1>. QED
  BY <1>1, <1>2, PTL DEF RequestsSpec

\* What clients are told of an order's shares adds up to what was placed, whatever is matched
\* between the two reads of get_order, and on one connection it never goes back; for a client
\* who trades alone it is what was asked for.  So for any clients, requests and order of the
\* steps of Requests, where one order is matched at a time.
THEOREM NoShareUntold == RequestsSpec => []AnswersAddUp
<1>1. AInv => AnswersAddUp
  <2> SUFFICES ASSUME AInv PROVE AnswersAddUp
    OBVIOUS
  <2>1. \A at \in AnswerAt : at[1] \in Clients /\ Says(at[1], at[2], at[3], The(at))
    BY AnswersAreSaid DEF AInv, TInv
  <2>2. ASSUME NEW at \in AnswerAt PROVE Tally(The(at))
    BY <2>1 DEF AInv
  <2>5. ASSUME NEW at \in AnswerAt, The(at).tag = "opened" \/ Tells(The(at))
        PROVE  Placed(The(at).id) = Size(Whole(The(at).id))
    <3>1. Told(at[1], at[2], The(at))
      BY <2>1 DEF AInv, TInv
    <3>2. The(at).id \in DOMAIN orders
      BY <2>5, <3>1 DEF Told, Tells
    <3>3. IInv /\ Ledger
      BY DEF AInv, TInv, RInv
    <3>. QED
      BY <3>2, <3>3, PlacedIs
  <2>3. ASSUME NEW at \in AnswerAt, Tells(The(at)) PROVE AddsUp(The(at))
    BY <2>2, <2>3, <2>5 DEF AddsUp, Tally
  <2>6. ASSUME NEW at \in AnswerAt, The(at).tag = "opened", OnlyTrader(at[1])
        PROVE  Placed(The(at).id) = Size(The(at).about.amount)
    <3>1. Sized(at[1], The(at))
      BY <2>1 DEF AInv
    <3>. QED
      BY <2>5, <2>6, <3>1 DEF Sized
  <2>4. ASSUME NEW at \in AnswerAt, NEW later \in AnswerAt, Before(at, later),
               Tells(The(at)), Tells(The(later)), The(later).id = The(at).id
        PROVE  Follows(The(at), The(later))
    BY <2>1, <2>4 DEF AInv, Before, Sooner
  <2>. QED
    BY <2>3, <2>4, <2>6 DEF AnswersAddUp
<1>. QED
  BY <1>1, AddsUpInvariant, PTL
=============================================================================
