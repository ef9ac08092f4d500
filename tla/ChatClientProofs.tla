--------------------------- MODULE ChatClientProofs ---------------------------
(***************************************************************************)
(* What ChatClient keeps, for any runs and bounds: the types, that what an *)
(* answered request has said stays in the context, that results answer     *)
(* their own calls as long as runs follow one another, that calls and      *)
(* responses are paired in whatever is sent, and that the model does not   *)
(* speak between responses unless late answers and overlapping runs meet.  *)
(***************************************************************************)
EXTENDS ChatClient, TLAPS, FiniteSetTheorems, SequenceTheorems, WellFoundedInduction

------------------------------------------------------------------------------
\* Induction over numbers and over sequences, by sets

LEMMA LeastNat ==
  ASSUME NEW T \in SUBSET Nat, T # {}
  PROVE  \E x \in T : \A y \in T : x <= y
<1>1. IsWellFoundedOn(OpToRel(<, Nat), Nat) BY NatLessThanWellFounded
<1>2. PICK x \in T : \A y \in T : ~ (<<y, x>> \in OpToRel(<, Nat)) BY <1>1, WFMin
<1>3. \A y \in T : ~ (y < x) BY <1>2 DEF OpToRel
<1> QED BY <1>3

LEMMA Climb ==
  ASSUME NEW n \in Nat, NEW T, 0 \in T, \A i \in 1..n : i - 1 \in T => i \in T
  PROVE  \A i \in 0..n : i \in T
<1> DEFINE bad == {i \in 0..n : i \notin T}
<1>1. ASSUME bad # {} PROVE FALSE
  <2>1. bad \in SUBSET Nat OBVIOUS
  <2>2. PICK i \in bad : \A j \in bad : i <= j BY <1>1, <2>1, LeastNat
  <2>3. i \in 1..n BY <2>2
  <2>4. i - 1 \in 0..n /\ i - 1 \notin bad BY <2>2, <2>3
  <2> QED BY <2>2, <2>3, <2>4
<1> QED BY <1>1

\* T has the empty sequence, and with a sequence all that are longer by one.
Grows(X, T) == <<>> \in T /\ \A s \in Seq(X), x \in X : s \in T => Append(s, x) \in T

LEMMA SeqInduction ==
  ASSUME NEW X, NEW T, Grows(X, T)
  PROVE  \A s \in Seq(X) : s \in T
<1> SUFFICES ASSUME NEW s \in Seq(X) PROVE s \in T OBVIOUS
<1> DEFINE pre == [i \in 0..Len(s) |-> SubSeq(s, 1, i)]
<1>1. Len(s) \in Nat OBVIOUS
<1>2. pre[0] = <<>> /\ pre[Len(s)] = s BY <1>1, SubSeqEmpty, SubSeqFull
<1>3. ASSUME NEW i \in 1..Len(s) PROVE pre[i - 1] \in Seq(X) /\ s[i] \in X /\ pre[i] = Append(pre[i - 1], s[i])
  <2>1. SubSeq(s, 1, i - 1) \in Seq(X) /\ s[i] \in X BY <1>3
  <2>2. SubSeq(s, 1, i) = SubSeq(s, 1, i - 1) \o <<s[i]>> BY SubSeqRecursiveSecond
  <2>3. Append(SubSeq(s, 1, i - 1), s[i]) = SubSeq(s, 1, i - 1) \o <<s[i]>> BY <2>1, AppendIsConcat
  <2> QED BY <1>1, <2>1, <2>2, <2>3
<1> HIDE DEF pre
<1> DEFINE P == {i \in 0..Len(s) : pre[i] \in T}
<1>4. 0 \in P BY <1>1, <1>2 DEF Grows
<1>5. ASSUME NEW i \in 1..Len(s), i - 1 \in P PROVE i \in P
  <2>1. pre[i - 1] \in T BY <1>5
  <2>2. Append(pre[i - 1], s[i]) \in T BY <1>3, <2>1 DEF Grows
  <2>3. pre[i] \in T BY <1>3, <2>2
  <2> QED BY <2>3
<1> HIDE DEF P
<1>6. \A i \in 0..Len(s) : i \in P BY <1>1, <1>4, <1>5, Climb
<1> QED BY <1>1, <1>2, <1>6 DEF P

------------------------------------------------------------------------------
\* Without

Keep(kept, x, D) == IF x \in D THEN kept ELSE Append(kept, x)
Keeps(f, n, s, D) == f = [i \in 0..n |-> IF i = 0 THEN <<>> ELSE Keep(f[i - 1], s[i], D)]

LEMMA KeepsExists ==
  ASSUME NEW s, NEW D, NEW n \in Nat PROVE \E f : Keeps(f, n, s, D)
<1> DEFINE T == {k \in 0..n : \E f : Keeps(f, k, s, D)}
<1>1. 0 \in T
  <2> DEFINE none == [i \in 0..0 |-> <<>>]
  <2>1. Keeps(none, 0, s, D) BY DEF Keeps
  <2> QED BY <2>1
<1>2. ASSUME NEW k \in 1..n, k - 1 \in T PROVE k \in T
  <2>1. PICK f : Keeps(f, k - 1, s, D) BY <1>2
  <2> DEFINE g == [i \in 0..k |-> IF i = k THEN Keep(f[k - 1], s[k], D) ELSE f[i]]
  <2>2. \A i \in 0..k : g[i] = IF i = 0 THEN <<>> ELSE Keep(g[i - 1], s[i], D)
    <3>1. ASSUME NEW i \in 0..k PROVE g[i] = IF i = 0 THEN <<>> ELSE Keep(g[i - 1], s[i], D)
      <4>1. CASE i = 0 BY <2>1, <4>1 DEF Keeps
      <4>2. CASE i # 0
        <5>1. g[i - 1] = f[i - 1] BY <4>2
        <5>2. i # k => f[i] = Keep(f[i - 1], s[i], D) BY <2>1, <4>2 DEF Keeps
        <5> QED BY <4>2, <5>1, <5>2
      <4> QED BY <4>1, <4>2
    <3> QED BY <3>1
  <2>3. Keeps(g, k, s, D) BY <2>2 DEF Keeps
  <2> QED BY <2>3
<1> HIDE DEF T
<1>3. \A k \in 0..n : k \in T BY <1>1, <1>2, Climb
<1> QED BY <1>3 DEF T

LEMMA WithoutIs ==
  ASSUME NEW X, NEW s \in Seq(X), NEW D
  PROVE  \E f : /\ Without(s, D) = f[Len(s)] /\ f[0] = <<>>
                /\ \A i \in 1..Len(s) : f[i] = Keep(f[i - 1], s[i], D)
<1> DEFINE f == CHOOSE f : Keeps(f, Len(s), s, D)
<1>1. Len(s) \in Nat OBVIOUS
<1>2. Keeps(f, Len(s), s, D) BY <1>1, KeepsExists
<1>3. Without(s, D) = f[Len(s)] BY DEF Without, Keeps, Keep
<1> HIDE DEF f
<1>4. f[0] = <<>> BY <1>1, <1>2 DEF Keeps
<1>5. \A i \in 1..Len(s) : f[i] = Keep(f[i - 1], s[i], D) BY <1>1, <1>2 DEF Keeps
<1> QED BY <1>3, <1>4, <1>5

LEMMA WithoutAppend ==
  ASSUME NEW X, NEW s \in Seq(X), NEW x \in X, NEW D
  PROVE  Without(Append(s, x), D) = Keep(Without(s, D), x, D)
<1> DEFINE n == Len(s)
<1> DEFINE t == Append(s, x)
<1>1. n \in Nat /\ t \in Seq(X) /\ Len(t) = n + 1 /\ t[n + 1] = x /\ \A i \in 1..n : t[i] = s[i]
  BY AppendProperties
<1> HIDE DEF t
<1>2. PICK f : /\ Without(s, D) = f[n] /\ f[0] = <<>>
               /\ \A i \in 1..n : f[i] = Keep(f[i - 1], s[i], D)
  BY WithoutIs
<1>3. PICK g : /\ Without(t, D) = g[Len(t)] /\ g[0] = <<>>
               /\ \A i \in 1..Len(t) : g[i] = Keep(g[i - 1], t[i], D)
  BY <1>1, WithoutIs
<1> HIDE DEF n
<1> DEFINE T == {i \in 0..n : f[i] = g[i]}
<1>4. 0 \in T /\ \A i \in 1..n : i - 1 \in T => i \in T BY <1>1, <1>2, <1>3
<1> HIDE DEF T
<1>5. \A i \in 0..n : i \in T BY <1>1, <1>4, Climb
<1>6. g[n + 1] = Keep(g[n], x, D) BY <1>1, <1>3
<1>7. g[n] = f[n] BY <1>1, <1>5 DEF T
<1>8. Without(t, D) = Keep(Without(s, D), x, D) BY <1>1, <1>2, <1>3, <1>6, <1>7
<1> QED BY <1>8 DEF t

LEMMA WithoutEmpty == ASSUME NEW D PROVE Without(<<>>, D) = <<>>
<1>1. <<>> \in Seq({}) /\ Len(<<>>) = 0 OBVIOUS
<1>2. PICK f : Without(<<>>, D) = f[Len(<<>>)] /\ f[0] = <<>> BY <1>1, WithoutIs
<1> QED BY <1>1, <1>2

------------------------------------------------------------------------------
\* Messages: the same recursion with another step

Join(a, b) == a \o b

Joins(f, n, s) == f = [i \in 0..n |-> IF i = 0 THEN <<>> ELSE Join(f[i - 1], s[i])]

LEMMA JoinsExists ==
  ASSUME NEW s, NEW n \in Nat PROVE \E f : Joins(f, n, s)
<1> DEFINE T == {k \in 0..n : \E f : Joins(f, k, s)}
<1>1. 0 \in T
  <2> DEFINE none == [i \in 0..0 |-> <<>>]
  <2>1. Joins(none, 0, s) BY DEF Joins
  <2> QED BY <2>1
<1>2. ASSUME NEW k \in 1..n, k - 1 \in T PROVE k \in T
  <2>1. PICK f : Joins(f, k - 1, s) BY <1>2
  <2> DEFINE g == [i \in 0..k |-> IF i = k THEN Join(f[k - 1], s[k]) ELSE f[i]]
  <2>2. ASSUME NEW i \in 0..k
        PROVE  g[i] = IF i = 0 THEN <<>> ELSE Join(g[i - 1], s[i])
    <3>1. CASE i = 0 BY <2>1, <3>1 DEF Joins
    <3>2. CASE i # 0
      <4>1. g[i - 1] = f[i - 1] BY <3>2
      <4>2. i # k => f[i] = Join(f[i - 1], s[i]) BY <2>1, <3>2 DEF Joins
      <4> QED BY <3>2, <4>1, <4>2
    <3> QED BY <3>1, <3>2
  <2>3. Joins(g, k, s) BY <2>2 DEF Joins
  <2> QED BY <2>3
<1> HIDE DEF T
<1>3. \A k \in 0..n : k \in T BY <1>1, <1>2, Climb
<1> QED BY <1>3 DEF T

LEMMA MessagesIs ==
  ASSUME NEW X, NEW s \in Seq(X)
  PROVE  \E f : /\ Messages(s) = f[Len(s)] /\ f[0] = <<>>
                /\ \A i \in 1..Len(s) : f[i] = Join(f[i - 1], s[i])
<1> DEFINE f == CHOOSE f : Joins(f, Len(s), s)
<1>1. Len(s) \in Nat OBVIOUS
<1>2. Joins(f, Len(s), s) BY <1>1, JoinsExists
<1>3. Messages(s) = f[Len(s)] BY DEF Messages, Joins, Join
<1> HIDE DEF f
<1>4. f[0] = <<>> BY <1>1, <1>2 DEF Joins
<1>5. \A i \in 1..Len(s) : f[i] = Join(f[i - 1], s[i]) BY <1>1, <1>2 DEF Joins
<1> QED BY <1>3, <1>4, <1>5

LEMMA MessagesAppend ==
  ASSUME NEW X, NEW s \in Seq(X), NEW x \in X
  PROVE  Messages(Append(s, x)) = Join(Messages(s), x)
<1> DEFINE n == Len(s)
<1> DEFINE t == Append(s, x)
<1>1. n \in Nat /\ t \in Seq(X) /\ Len(t) = n + 1 /\ t[n + 1] = x /\ \A i \in 1..n : t[i] = s[i]
  BY AppendProperties
<1> HIDE DEF t
<1>2. PICK f : /\ Messages(s) = f[n] /\ f[0] = <<>>
               /\ \A i \in 1..n : f[i] = Join(f[i - 1], s[i])
  BY MessagesIs
<1>3. PICK g : /\ Messages(t) = g[Len(t)] /\ g[0] = <<>>
               /\ \A i \in 1..Len(t) : g[i] = Join(g[i - 1], t[i])
  BY <1>1, MessagesIs
<1> HIDE DEF n
<1> DEFINE T == {i \in 0..n : f[i] = g[i]}
<1>4. 0 \in T /\ \A i \in 1..n : i - 1 \in T => i \in T BY <1>1, <1>2, <1>3
<1> HIDE DEF T
<1>5. \A i \in 0..n : i \in T BY <1>1, <1>4, Climb
<1>6. g[n + 1] = Join(g[n], x) BY <1>1, <1>3
<1>7. g[n] = f[n] BY <1>1, <1>5 DEF T
<1>8. Messages(t) = Join(Messages(s), x) BY <1>1, <1>2, <1>3, <1>6, <1>7
<1> QED BY <1>8 DEF t

LEMMA MessagesEmpty == Messages(<<>>) = <<>>
<1>1. <<>> \in Seq({}) /\ Len(<<>>) = 0 OBVIOUS
<1>2. PICK f : Messages(<<>>) = f[Len(<<>>)] /\ f[0] = <<>> BY <1>1, MessagesIs
<1> QED BY <1>1, <1>2

------------------------------------------------------------------------------
\* Added

Adds(f, n, s, rounds) == f = [i \in 0..n |-> IF i = 0 THEN rounds ELSE Unpack(f[i - 1], s[i])]

LEMMA AddsExists ==
  ASSUME NEW s, NEW rounds, NEW n \in Nat PROVE \E f : Adds(f, n, s, rounds)
<1> DEFINE T == {k \in 0..n : \E f : Adds(f, k, s, rounds)}
<1>1. 0 \in T
  <2> DEFINE none == [i \in 0..0 |-> rounds]
  <2>1. Adds(none, 0, s, rounds) BY DEF Adds
  <2> QED BY <2>1
<1>2. ASSUME NEW k \in 1..n, k - 1 \in T PROVE k \in T
  <2>1. PICK f : Adds(f, k - 1, s, rounds) BY <1>2
  <2> DEFINE g == [i \in 0..k |-> IF i = k THEN Unpack(f[k - 1], s[k]) ELSE f[i]]
  <2>2. ASSUME NEW i \in 0..k
        PROVE  g[i] = IF i = 0 THEN rounds ELSE Unpack(g[i - 1], s[i])
    <3>1. CASE i = 0 BY <2>1, <3>1 DEF Adds
    <3>2. CASE i # 0
      <4>1. g[i - 1] = f[i - 1] BY <3>2
      <4>2. i # k => f[i] = Unpack(f[i - 1], s[i]) BY <2>1, <3>2 DEF Adds
      <4> QED BY <3>2, <4>1, <4>2
    <3> QED BY <3>1, <3>2
  <2>3. Adds(g, k, s, rounds) BY <2>2 DEF Adds
  <2> QED BY <2>3
<1> HIDE DEF T
<1>3. \A k \in 0..n : k \in T BY <1>1, <1>2, Climb
<1> QED BY <1>3 DEF T

LEMMA AddedIs ==
  ASSUME NEW X, NEW s \in Seq(X), NEW rounds
  PROVE  \E f : /\ Added(rounds, s) = f[Len(s)] /\ f[0] = rounds
                /\ \A i \in 1..Len(s) : f[i] = Unpack(f[i - 1], s[i])
<1> DEFINE f == CHOOSE f : Adds(f, Len(s), s, rounds)
<1>1. Len(s) \in Nat OBVIOUS
<1>2. Adds(f, Len(s), s, rounds) BY <1>1, AddsExists
<1>3. Added(rounds, s) = f[Len(s)] BY DEF Added, Adds
<1> HIDE DEF f
<1>4. f[0] = rounds BY <1>1, <1>2 DEF Adds
<1>5. \A i \in 1..Len(s) : f[i] = Unpack(f[i - 1], s[i]) BY <1>1, <1>2 DEF Adds
<1> QED BY <1>3, <1>4, <1>5

LEMMA AddedAppend ==
  ASSUME NEW X, NEW s \in Seq(X), NEW x \in X, NEW rounds
  PROVE  Added(rounds, Append(s, x)) = Unpack(Added(rounds, s), x)
<1> DEFINE n == Len(s)
<1> DEFINE t == Append(s, x)
<1>1. n \in Nat /\ t \in Seq(X) /\ Len(t) = n + 1 /\ t[n + 1] = x /\ \A i \in 1..n : t[i] = s[i]
  BY AppendProperties
<1> HIDE DEF t
<1>2. PICK f : /\ Added(rounds, s) = f[n] /\ f[0] = rounds
               /\ \A i \in 1..n : f[i] = Unpack(f[i - 1], s[i])
  BY AddedIs
<1>3. PICK g : /\ Added(rounds, t) = g[Len(t)] /\ g[0] = rounds
               /\ \A i \in 1..Len(t) : g[i] = Unpack(g[i - 1], t[i])
  BY <1>1, AddedIs
<1> HIDE DEF n
<1> DEFINE T == {i \in 0..n : f[i] = g[i]}
<1>4. 0 \in T /\ \A i \in 1..n : i - 1 \in T => i \in T BY <1>1, <1>2, <1>3
<1> HIDE DEF T
<1>5. \A i \in 0..n : i \in T BY <1>1, <1>4, Climb
<1>6. g[n + 1] = Unpack(g[n], x) BY <1>1, <1>3
<1>7. g[n] = f[n] BY <1>1, <1>5 DEF T
<1>8. Added(rounds, t) = Unpack(Added(rounds, s), x) BY <1>1, <1>2, <1>3, <1>6, <1>7
<1> QED BY <1>8 DEF t

LEMMA AddedEmpty == ASSUME NEW rounds PROVE Added(rounds, <<>>) = rounds
<1> DEFINE s == <<>>
<1> DEFINE f == CHOOSE f : Adds(f, Len(s), s, rounds)
<1>1. Len(s) \in Nat /\ Len(s) = 0 OBVIOUS
<1>2. Added(rounds, s) = f[Len(s)] BY DEF Added, Adds
<1> HIDE DEF s
<1>3. Adds(f, Len(s), s, rounds) BY <1>1, AddsExists
<1> HIDE DEF f
<1>4. f[0] = rounds BY <1>1, <1>3 DEF Adds
<1> QED BY <1>1, <1>2, <1>4 DEF s

------------------------------------------------------------------------------
\* Seen

Sees(f, n, s) == f = [i \in 0..n |-> IF i = 0 THEN Unsent ELSE Normal(f[i - 1], s[i])]

LEMMA SeesExists ==
  ASSUME NEW s, NEW n \in Nat PROVE \E f : Sees(f, n, s)
<1> DEFINE T == {k \in 0..n : \E f : Sees(f, k, s)}
<1>1. 0 \in T
  <2> DEFINE none == [i \in 0..0 |-> Unsent]
  <2>1. Sees(none, 0, s) BY DEF Sees
  <2> QED BY <2>1
<1>2. ASSUME NEW k \in 1..n, k - 1 \in T PROVE k \in T
  <2>1. PICK f : Sees(f, k - 1, s) BY <1>2
  <2> DEFINE g == [i \in 0..k |-> IF i = k THEN Normal(f[k - 1], s[k]) ELSE f[i]]
  <2>2. ASSUME NEW i \in 0..k
        PROVE  g[i] = IF i = 0 THEN Unsent ELSE Normal(g[i - 1], s[i])
    <3>1. CASE i = 0 BY <2>1, <3>1 DEF Sees
    <3>2. CASE i # 0
      <4>1. g[i - 1] = f[i - 1] BY <3>2
      <4>2. i # k => f[i] = Normal(f[i - 1], s[i]) BY <2>1, <3>2 DEF Sees
      <4> QED BY <3>2, <4>1, <4>2
    <3> QED BY <3>1, <3>2
  <2>3. Sees(g, k, s) BY <2>2 DEF Sees
  <2> QED BY <2>3
<1> HIDE DEF T
<1>3. \A k \in 0..n : k \in T BY <1>1, <1>2, Climb
<1> QED BY <1>3 DEF T

LEMMA SeenIs ==
  ASSUME NEW X, NEW s \in Seq(X)
  PROVE  \E f : /\ Seen(s) = f[Len(s)] /\ f[0] = Unsent
                /\ \A i \in 1..Len(s) : f[i] = Normal(f[i - 1], s[i])
<1> DEFINE f == CHOOSE f : Sees(f, Len(s), s)
<1>1. Len(s) \in Nat OBVIOUS
<1>2. Sees(f, Len(s), s) BY <1>1, SeesExists
<1>3. Seen(s) = f[Len(s)] BY DEF Seen, Sees
<1> HIDE DEF f
<1>4. f[0] = Unsent BY <1>1, <1>2 DEF Sees
<1>5. \A i \in 1..Len(s) : f[i] = Normal(f[i - 1], s[i]) BY <1>1, <1>2 DEF Sees
<1> QED BY <1>3, <1>4, <1>5

LEMMA SeenAppend ==
  ASSUME NEW X, NEW s \in Seq(X), NEW x \in X
  PROVE  Seen(Append(s, x)) = Normal(Seen(s), x)
<1> DEFINE n == Len(s)
<1> DEFINE t == Append(s, x)
<1>1. n \in Nat /\ t \in Seq(X) /\ Len(t) = n + 1 /\ t[n + 1] = x /\ \A i \in 1..n : t[i] = s[i]
  BY AppendProperties
<1> HIDE DEF t
<1>2. PICK f : /\ Seen(s) = f[n] /\ f[0] = Unsent
               /\ \A i \in 1..n : f[i] = Normal(f[i - 1], s[i])
  BY SeenIs
<1>3. PICK g : /\ Seen(t) = g[Len(t)] /\ g[0] = Unsent
               /\ \A i \in 1..Len(t) : g[i] = Normal(g[i - 1], t[i])
  BY <1>1, SeenIs
<1> HIDE DEF n
<1> DEFINE T == {i \in 0..n : f[i] = g[i]}
<1>4. 0 \in T /\ \A i \in 1..n : i - 1 \in T => i \in T BY <1>1, <1>2, <1>3
<1> HIDE DEF T
<1>5. \A i \in 0..n : i \in T BY <1>1, <1>4, Climb
<1>6. g[n + 1] = Normal(g[n], x) BY <1>1, <1>3
<1>7. g[n] = f[n] BY <1>1, <1>5 DEF T
<1>8. Seen(t) = Normal(Seen(s), x) BY <1>1, <1>2, <1>3, <1>6, <1>7
<1> QED BY <1>8 DEF t

LEMMA SeenEmpty == Seen(<<>>) = Unsent
<1>1. <<>> \in Seq({}) /\ Len(<<>>) = 0 OBVIOUS
<1>2. PICK f : Seen(<<>>) = f[Len(<<>>)] /\ f[0] = Unsent BY <1>1, SeenIs
<1> QED BY <1>1, <1>2

------------------------------------------------------------------------------
\* Elements of a sequence, and elements that are in it once

LEMMA EmptyFacts == ASSUME NEW X PROVE <<>> \in Seq(X) /\ ToSet(<<>>) = {} /\ Len(<<>>) = 0
  BY DEF ToSet

LEMMA AppendFacts ==
  ASSUME NEW X, NEW s \in Seq(X), NEW x \in X
  PROVE  /\ Append(s, x) \in Seq(X) /\ ToSet(Append(s, x)) = ToSet(s) \cup {x}
         /\ ToSet(s) \subseteq X
<1>1. /\ Append(s, x) \in Seq(X) /\ Len(Append(s, x)) = Len(s) + 1 /\ Len(s) \in Nat
      /\ Append(s, x)[Len(s) + 1] = x /\ \A i \in 1..Len(s) : Append(s, x)[i] = s[i]
  BY AppendProperties
<1> DEFINE t == Append(s, x)
<1>2. DOMAIN s = 1..Len(s) /\ DOMAIN t = 1..(Len(s) + 1) BY <1>1
<1> HIDE DEF t
<1>3. ToSet(t) \subseteq ToSet(s) \cup {x}
  <2> SUFFICES ASSUME NEW i \in 1..(Len(s) + 1) PROVE t[i] \in ToSet(s) \cup {x} BY <1>2 DEF ToSet
  <2>1. CASE i = Len(s) + 1 BY <1>1, <2>1 DEF t
  <2>2. CASE i \in 1..Len(s) BY <1>1, <1>2, <2>2 DEF t, ToSet
  <2> QED BY <1>1, <2>1, <2>2
<1>4. ToSet(s) \cup {x} \subseteq ToSet(t)
  <2>1. x \in ToSet(t)
    <3>1. Len(s) + 1 \in DOMAIN t /\ t[Len(s) + 1] = x BY <1>1, <1>2 DEF t
    <3> QED BY <3>1 DEF ToSet
  <2>2. ASSUME NEW i \in 1..Len(s) PROVE s[i] \in ToSet(t)
    <3>1. i \in DOMAIN t /\ t[i] = s[i] BY <1>1, <1>2 DEF t
    <3> QED BY <3>1 DEF ToSet
  <2> QED BY <1>2, <2>1, <2>2 DEF ToSet
<1>5. ToSet(s) \subseteq X BY <1>1, <1>2 DEF ToSet
<1> QED BY <1>1, <1>3, <1>4, <1>5 DEF t

LEMMA Members ==
  ASSUME NEW X, NEW s \in Seq(X) PROVE ToSet(s) \subseteq X /\ \A i \in DOMAIN s : s[i] \in ToSet(s)
  BY DEF ToSet

LEMMA ConcatAppend ==
  ASSUME NEW X, NEW s \in Seq(X), NEW t \in Seq(X), NEW x \in X
  PROVE  s \o Append(t, x) = Append(s \o t, x)
<1>1. <<x>> \in Seq(X) /\ s \o t \in Seq(X) OBVIOUS
<1>2. Append(t, x) = t \o <<x>> /\ Append(s \o t, x) = (s \o t) \o <<x>> BY <1>1, AppendIsConcat
<1>3. s \o (t \o <<x>>) = (s \o t) \o <<x>> BY <1>1, ConcatAssociative
<1> QED BY <1>2, <1>3

LEMMA ConcatSet ==
  ASSUME NEW X, NEW s \in Seq(X)
  PROVE  \A t \in Seq(X) : s \o t \in Seq(X) /\ ToSet(s \o t) = ToSet(s) \cup ToSet(t)
<1> DEFINE T == {t \in Seq(X) : s \o t \in Seq(X) /\ ToSet(s \o t) = ToSet(s) \cup ToSet(t)}
<1>1. <<>> \in T BY EmptyFacts, ConcatEmptySeq
<1>2. ASSUME NEW t \in Seq(X), NEW x \in X, t \in T PROVE Append(t, x) \in T
  <2>1. s \o Append(t, x) = Append(s \o t, x) BY ConcatAppend
  <2> DEFINE u == s \o t
  <2>2. u \in Seq(X) /\ ToSet(u) = ToSet(s) \cup ToSet(t) BY <1>2
  <2>3. s \o Append(t, x) = Append(u, x) BY <2>1
  <2> HIDE DEF u
  <2>4. Append(u, x) \in Seq(X) /\ ToSet(Append(u, x)) = ToSet(u) \cup {x} BY <2>2, AppendFacts
  <2>5. Append(t, x) \in Seq(X) /\ ToSet(Append(t, x)) = ToSet(t) \cup {x} BY AppendFacts
  <2> QED BY <2>2, <2>3, <2>4, <2>5
<1> HIDE DEF T
<1>3. Grows(X, T) BY <1>1, <1>2 DEF Grows
<1>4. \A t \in Seq(X) : t \in T BY <1>3, SeqInduction
<1> QED BY <1>4 DEF T

Once(s, x) == \A i, j \in DOMAIN s : s[i] = x /\ s[j] = x => i = j

LEMMA OnceAppend ==
  ASSUME NEW X, NEW s \in Seq(X), NEW y \in X, NEW x
  PROVE  Once(Append(s, y), x) <=> Once(s, x) /\ (y = x => x \notin ToSet(s))
<1> DEFINE t == Append(s, y)
<1> DEFINE n == Len(s)
<1>1. /\ n \in Nat /\ DOMAIN s = 1..n /\ DOMAIN t = 1..(n + 1)
      /\ t[n + 1] = y /\ \A i \in 1..n : t[i] = s[i]
  BY AppendProperties
<1> HIDE DEF t, n
<1>2. ASSUME Once(t, x) PROVE Once(s, x) /\ (y = x => x \notin ToSet(s))
  <2>1. Once(s, x)
    <3> SUFFICES ASSUME NEW i \in 1..n, NEW j \in 1..n, s[i] = x, s[j] = x PROVE i = j
      BY <1>1 DEF Once
    <3>1. i \in DOMAIN t /\ j \in DOMAIN t /\ t[i] = x /\ t[j] = x BY <1>1
    <3> QED BY <1>2, <3>1 DEF Once
  <2>2. ASSUME y = x, x \in ToSet(s) PROVE FALSE
    <3>1. PICK i \in 1..n : s[i] = x BY <1>1, <2>2 DEF ToSet
    <3>2. i \in DOMAIN t /\ n + 1 \in DOMAIN t /\ t[i] = x /\ t[n + 1] = x /\ i # n + 1
      BY <1>1, <2>2, <3>1
    <3> QED BY <1>2, <3>2 DEF Once
  <2> QED BY <2>1, <2>2
<1>3. ASSUME Once(s, x), y = x => x \notin ToSet(s) PROVE Once(t, x)
  <2> SUFFICES ASSUME NEW i \in 1..(n + 1), NEW j \in 1..(n + 1), t[i] = x, t[j] = x PROVE i = j
    BY <1>1 DEF Once
  <2>1. \A k \in 1..n : t[k] = x => x \in ToSet(s) BY <1>1 DEF ToSet
  <2>2. CASE i = n + 1 /\ j = n + 1 BY <2>2
  <2>3. CASE i = n + 1 /\ j \in 1..n BY <1>1, <1>3, <2>1, <2>3
  <2>4. CASE i \in 1..n /\ j = n + 1 BY <1>1, <1>3, <2>1, <2>4
  <2>5. CASE i \in 1..n /\ j \in 1..n
    <3>1. s[i] = x /\ s[j] = x /\ i \in DOMAIN s /\ j \in DOMAIN s BY <1>1, <2>5
    <3> QED BY <1>3, <3>1 DEF Once
  <2> QED BY <1>1, <2>2, <2>3, <2>4, <2>5
<1> QED BY <1>2, <1>3 DEF t

LEMMA OnceConcat ==
  ASSUME NEW X, NEW s \in Seq(X), NEW x
  PROVE  \A t \in Seq(X) :
           Once(s \o t, x) <=> Once(s, x) /\ Once(t, x) /\ ~(x \in ToSet(s) /\ x \in ToSet(t))
<1> DEFINE Good(t) == Once(s \o t, x) <=> Once(s, x) /\ Once(t, x) /\ ~(x \in ToSet(s) /\ x \in ToSet(t))
<1> DEFINE T == {t \in Seq(X) : Good(t)}
<1>1. <<>> \in T
  <2>1. Once(<<>>, x) BY DEF Once
  <2>2. s \o <<>> = s /\ ToSet(<<>>) = {} /\ <<>> \in Seq(X) BY EmptyFacts, ConcatEmptySeq
  <2> QED BY <2>1, <2>2
<1>2. ASSUME NEW t \in Seq(X), NEW y \in X, t \in T PROVE Append(t, y) \in T
  <2>1. s \o Append(t, y) = Append(s \o t, y) BY ConcatAppend
  <2>2. s \o t \in Seq(X) /\ ToSet(s \o t) = ToSet(s) \cup ToSet(t) BY ConcatSet
  <2>3. Append(t, y) \in Seq(X) /\ ToSet(Append(t, y)) = ToSet(t) \cup {y} BY AppendFacts
  <2>4. Once(Append(s \o t, y), x) <=> Once(s \o t, x) /\ (y = x => x \notin ToSet(s \o t))
    BY <2>2, OnceAppend
  <2>5. Once(Append(t, y), x) <=> Once(t, x) /\ (y = x => x \notin ToSet(t)) BY OnceAppend
  <2>6. Good(t) BY <1>2
  <2>7. Good(Append(t, y)) BY <2>1, <2>2, <2>3, <2>4, <2>5, <2>6
  <2> QED BY <2>3, <2>7
<1> HIDE DEF T
<1>3. Grows(X, T) BY <1>1, <1>2 DEF Grows
<1>4. \A t \in Seq(X) : t \in T BY <1>3, SeqInduction
<1> QED BY <1>4 DEF T

------------------------------------------------------------------------------
\* What Without does

LEMMA WithoutFacts ==
  ASSUME NEW X, NEW D
  PROVE  \A s \in Seq(X) : Without(s, D) \in Seq(X) /\ ToSet(Without(s, D)) = ToSet(s) \ D
<1> DEFINE T == {s \in Seq(X) : Without(s, D) \in Seq(X) /\ ToSet(Without(s, D)) = ToSet(s) \ D}
<1>1. <<>> \in T BY EmptyFacts, WithoutEmpty
<1>2. ASSUME NEW s \in Seq(X), NEW x \in X, s \in T PROVE Append(s, x) \in T
  <2>1. Without(s, D) \in Seq(X) /\ ToSet(Without(s, D)) = ToSet(s) \ D BY <1>2
  <2>2. Without(Append(s, x), D) = Keep(Without(s, D), x, D) BY WithoutAppend
  <2>3. Append(s, x) \in Seq(X) /\ ToSet(Append(s, x)) = ToSet(s) \cup {x} BY AppendFacts
  <2>4. CASE x \in D BY <2>1, <2>2, <2>3, <2>4 DEF Keep
  <2>5. CASE x \notin D
    <3>1. Without(Append(s, x), D) = Append(Without(s, D), x) BY <2>2, <2>5 DEF Keep
    <3>2. /\ Append(Without(s, D), x) \in Seq(X)
          /\ ToSet(Append(Without(s, D), x)) = ToSet(Without(s, D)) \cup {x}
      BY <2>1, AppendFacts
    <3> QED BY <2>1, <2>3, <2>5, <3>1, <3>2
  <2> QED BY <2>4, <2>5
<1> HIDE DEF T
<1>3. Grows(X, T) BY <1>1, <1>2 DEF Grows
<1>4. \A s \in Seq(X) : s \in T BY <1>3, SeqInduction
<1> QED BY <1>4 DEF T

LEMMA WithoutNone ==
  ASSUME NEW X, NEW D PROVE \A s \in Seq(X) : ToSet(s) \cap D = {} => Without(s, D) = s
<1> DEFINE T == {s \in Seq(X) : ToSet(s) \cap D = {} => Without(s, D) = s}
<1>1. <<>> \in T BY EmptyFacts, WithoutEmpty
<1>2. ASSUME NEW s \in Seq(X), NEW x \in X, s \in T PROVE Append(s, x) \in T
  <2>1. Without(Append(s, x), D) = Keep(Without(s, D), x, D) BY WithoutAppend
  <2>2. Append(s, x) \in Seq(X) /\ ToSet(Append(s, x)) = ToSet(s) \cup {x} BY AppendFacts
  <2>3. ASSUME ToSet(Append(s, x)) \cap D = {} PROVE Without(Append(s, x), D) = Append(s, x)
    <3>1. x \notin D /\ ToSet(s) \cap D = {} BY <2>2, <2>3
    <3>2. Without(s, D) = s BY <1>2, <3>1
    <3> QED BY <2>1, <3>1, <3>2 DEF Keep
  <2> QED BY <2>2, <2>3
<1> HIDE DEF T
<1>3. Grows(X, T) BY <1>1, <1>2 DEF Grows
<1>4. \A s \in Seq(X) : s \in T BY <1>3, SeqInduction
<1> QED BY <1>4 DEF T

LEMMA WithoutConcat ==
  ASSUME NEW X, NEW D, NEW s \in Seq(X)
  PROVE  \A t \in Seq(X) : Without(s \o t, D) = Without(s, D) \o Without(t, D)
<1> DEFINE T == {t \in Seq(X) : Without(s \o t, D) = Without(s, D) \o Without(t, D)}
<1>0. Without(s, D) \in Seq(X) BY WithoutFacts
<1>1. <<>> \in T BY <1>0, EmptyFacts, WithoutEmpty, ConcatEmptySeq
<1>2. ASSUME NEW t \in Seq(X), NEW x \in X, t \in T PROVE Append(t, x) \in T
  <2>1. s \o Append(t, x) = Append(s \o t, x) /\ s \o t \in Seq(X) BY ConcatAppend, ConcatSet
  <2>2. Without(Append(s \o t, x), D) = Keep(Without(s \o t, D), x, D) BY <2>1, WithoutAppend
  <2>3. Without(Append(t, x), D) = Keep(Without(t, D), x, D) BY WithoutAppend
  <2>4. Without(s \o t, D) = Without(s, D) \o Without(t, D) BY <1>2
  <2>5. Without(t, D) \in Seq(X) /\ Append(t, x) \in Seq(X) BY WithoutFacts, AppendFacts
  <2>6. Without(s, D) \o Append(Without(t, D), x) = Append(Without(s, D) \o Without(t, D), x)
    BY <1>0, <2>5, ConcatAppend
  <2>7. CASE x \in D BY <2>1, <2>2, <2>3, <2>4, <2>5, <2>7 DEF Keep
  <2>8. CASE x \notin D BY <2>1, <2>2, <2>3, <2>4, <2>5, <2>6, <2>8 DEF Keep
  <2> QED BY <2>7, <2>8
<1> HIDE DEF T
<1>3. Grows(X, T) BY <1>1, <1>2 DEF Grows
<1>4. \A t \in Seq(X) : t \in T BY <1>3, SeqInduction
<1> QED BY <1>4 DEF T

LEMMA WithoutOnce ==
  ASSUME NEW X, NEW D, NEW x PROVE \A s \in Seq(X) : Once(s, x) => Once(Without(s, D), x)
<1> DEFINE T == {s \in Seq(X) : Once(s, x) => Once(Without(s, D), x)}
<1>1. <<>> \in T BY EmptyFacts, WithoutEmpty
<1>2. ASSUME NEW s \in Seq(X), NEW y \in X, s \in T PROVE Append(s, y) \in T
  <2>1. Without(Append(s, y), D) = Keep(Without(s, D), y, D) BY WithoutAppend
  <2>2. Append(s, y) \in Seq(X) BY AppendFacts
  <2>3. ASSUME Once(Append(s, y), x) PROVE Once(Without(Append(s, y), D), x)
    <3>1. Once(s, x) /\ (y = x => x \notin ToSet(s)) BY <2>3, OnceAppend
    <3>2. Once(Without(s, D), x) BY <1>2, <3>1
    <3>3. Without(s, D) \in Seq(X) /\ ToSet(Without(s, D)) = ToSet(s) \ D BY WithoutFacts
    <3>4. Once(Append(Without(s, D), y), x)
      <4>1. y = x => x \notin ToSet(Without(s, D)) BY <3>1, <3>3
      <4> QED BY <3>2, <3>3, <4>1, OnceAppend
    <3>5. CASE y \in D BY <2>1, <3>2, <3>5 DEF Keep
    <3>6. CASE y \notin D BY <2>1, <3>4, <3>6 DEF Keep
    <3> QED BY <3>5, <3>6
  <2> QED BY <2>2, <2>3
<1> HIDE DEF T
<1>3. Grows(X, T) BY <1>1, <1>2 DEF Grows
<1>4. \A s \in Seq(X) : s \in T BY <1>3, SeqInduction
<1> QED BY <1>4 DEF T

------------------------------------------------------------------------------
\* What is in the rounds of a context

Rounds(X) == Seq(Seq(X) \ {<<>>})

LEMMA RoundsAreSeqs == ASSUME NEW X, NEW rs \in Rounds(X) PROVE rs \in Seq(Seq(X))
  BY SeqMonotonic DEF Rounds

LEMMA MessagesFacts ==
  ASSUME NEW X
  PROVE  \A rs \in Seq(Seq(X)) :
           /\ Messages(rs) \in Seq(X)
           /\ \A y : y \in ToSet(Messages(rs)) <=> \E r \in ToSet(rs) : y \in ToSet(r)
<1> DEFINE Good(rs) == /\ Messages(rs) \in Seq(X)
                       /\ \A y : y \in ToSet(Messages(rs)) <=> \E r \in ToSet(rs) : y \in ToSet(r)
<1> DEFINE T == {rs \in Seq(Seq(X)) : Good(rs)}
<1>1. <<>> \in T BY EmptyFacts, MessagesEmpty
<1>2. ASSUME NEW rs \in Seq(Seq(X)), NEW r \in Seq(X), rs \in T PROVE Append(rs, r) \in T
  <2> DEFINE all == Append(rs, r)
  <2>1. Good(rs) BY <1>2
  <2>2. Messages(all) = Messages(rs) \o r BY MessagesAppend DEF Join
  <2>3. all \in Seq(Seq(X)) /\ ToSet(all) = ToSet(rs) \cup {r} BY AppendFacts
  <2> HIDE DEF all
  <2>4. Messages(all) \in Seq(X) /\ ToSet(Messages(all)) = ToSet(Messages(rs)) \cup ToSet(r)
    BY <2>1, <2>2, ConcatSet
  <2>5. Good(all) BY <2>1, <2>3, <2>4
  <2>6. all \in T BY <2>3, <2>5
  <2> QED BY <2>6 DEF all
<1> HIDE DEF T
<1>3. Grows(Seq(X), T) BY <1>1, <1>2 DEF Grows
<1>4. \A rs \in Seq(Seq(X)) : rs \in T BY <1>3, SeqInduction
<1> QED BY <1>4 DEF T

LEMMA MessagesOnce ==
  ASSUME NEW X, NEW x
  PROVE  \A rs \in Seq(Seq(X)) :
           /\ \A i \in 1..Len(rs) : Once(rs[i], x)
           /\ \A i, j \in 1..Len(rs) : x \in ToSet(rs[i]) /\ x \in ToSet(rs[j]) => i = j
           => Once(Messages(rs), x)
<1> DEFINE Apart(rs) == /\ \A i \in 1..Len(rs) : Once(rs[i], x)
                        /\ \A i, j \in 1..Len(rs) : x \in ToSet(rs[i]) /\ x \in ToSet(rs[j]) => i = j
<1> DEFINE T == {rs \in Seq(Seq(X)) : Apart(rs) => Once(Messages(rs), x)}
<1>1. <<>> \in T
  <2>1. Once(<<>>, x) BY DEF Once
  <2>2. <<>> \in Seq(Seq(X)) OBVIOUS
  <2> HIDE DEF Apart
  <2> QED BY <2>1, <2>2, MessagesEmpty
<1>2. ASSUME NEW rs \in Seq(Seq(X)), NEW r \in Seq(X), rs \in T PROVE Append(rs, r) \in T
  <2> DEFINE all == Append(rs, r)
  <2> DEFINE l == Len(rs)
  <2>1. all \in Seq(Seq(X)) /\ Len(all) = l + 1 /\ l \in Nat /\ all[l + 1] = r /\ \A i \in 1..l : all[i] = rs[i]
    BY AppendProperties
  <2>2. Messages(all) = Messages(rs) \o r BY MessagesAppend DEF Join
  <2>3. Messages(rs) \in Seq(X) /\ \A y : y \in ToSet(Messages(rs)) <=> \E q \in ToSet(rs) : y \in ToSet(q)
    BY MessagesFacts
  <2>4. ToSet(rs) = {rs[i] : i \in 1..l} BY DEF ToSet
  <2> HIDE DEF all, l
  <2>5. ASSUME Apart(all) PROVE Once(Messages(rs) \o r, x)
    <3>1. \A i \in 1..l : Once(rs[i], x) BY <2>1, <2>5
    <3>2. \A i, j \in 1..l : x \in ToSet(rs[i]) /\ x \in ToSet(rs[j]) => i = j BY <2>1, <2>5
    <3>3. Once(Messages(rs), x) BY <1>2, <3>1, <3>2 DEF l
    <3>4. Once(r, x) BY <2>1, <2>5
    <3>5. ASSUME x \in ToSet(Messages(rs)), x \in ToSet(r) PROVE FALSE
      <4>1. PICK i \in 1..l : x \in ToSet(rs[i]) BY <2>3, <2>4, <3>5
      <4>2. i \in 1..(l + 1) /\ l + 1 \in 1..(l + 1) /\ i # l + 1 BY <2>1
      <4> QED BY <2>1, <2>5, <3>5, <4>1, <4>2
    <3> QED BY <2>3, <3>3, <3>4, <3>5, OnceConcat
  <2> HIDE DEF Apart
  <2>6. all \in T BY <2>1, <2>2, <2>5
  <2> QED BY <2>6 DEF all
<1> HIDE DEF T
<1>3. Grows(Seq(X), T) BY <1>1, <1>2 DEF Grows
<1>4. \A rs \in Seq(Seq(X)) : rs \in T BY <1>3, SeqInduction
<1> QED BY <1>4 DEF T

LEMMA FrontLast ==
  ASSUME NEW X, NEW s \in Seq(X), s # <<>>
  PROVE  Front(s) \in Seq(X) /\ Last(s) \in X /\ s = Append(Front(s), Last(s)) /\ Len(s) \in Nat \ {0}
<1>1. PICK t \in Seq(X), x \in X : s = Append(t, x) BY SequenceEmptyOrAppend
<1>2. /\ Len(s) = Len(t) + 1 /\ Len(t) \in Nat /\ s[Len(s)] = x
      /\ \A i \in 1..Len(t) : s[i] = t[i]
  BY <1>1, AppendProperties
<1>3. Front(s) = t
  <2>1. Front(s) = SubSeq(s, 1, Len(t)) BY <1>2 DEF Front
  <2>2. CASE Len(t) = 0
    <3>1. t = <<>> BY <2>2, EmptySeq
    <3>2. SubSeq(s, 1, 0) = <<>> BY SubSeqEmpty
    <3> QED BY <2>1, <2>2, <3>1, <3>2
  <2>3. CASE Len(t) # 0
    <3>1. Len(t) \in 1..Len(t) /\ 1 \in 1..Len(t) BY <1>2, <2>3
    <3>2. <<x>> \in Seq(X) /\ s = t \o <<x>> BY <1>1, AppendIsConcat
    <3>3. SubSeq(t \o <<x>>, 1, Len(t)) = SubSeq(t, 1, Len(t)) BY <3>1, <3>2, SubSeqOfConcat1
    <3>4. SubSeq(t, 1, Len(t)) = t BY SubSeqFull
    <3> QED BY <2>1, <3>2, <3>3, <3>4
  <2> QED BY <2>2, <2>3
<1>4. Last(s) = x BY <1>2 DEF Last
<1> QED BY <1>1, <1>2, <1>3, <1>4

LEMMA MessagesFront ==
  ASSUME NEW X, NEW rs \in Seq(Seq(X)), rs # <<>>
  PROVE  Messages(rs) = Messages(Front(rs)) \o Last(rs) /\ Messages(Front(rs)) \in Seq(X)
<1>1. Front(rs) \in Seq(Seq(X)) /\ Last(rs) \in Seq(X) /\ rs = Append(Front(rs), Last(rs)) BY FrontLast
<1> DEFINE f == Front(rs)
<1> DEFINE l == Last(rs)
<1>2. f \in Seq(Seq(X)) /\ l \in Seq(X) /\ rs = Append(f, l) BY <1>1
<1> HIDE DEF f, l
<1>3. Messages(rs) = Messages(f) \o l BY <1>2, MessagesAppend DEF Join
<1>4. Messages(f) \in Seq(X) BY <1>2, MessagesFacts
<1> QED BY <1>3, <1>4 DEF f, l

\* Where one prompt more goes: into a round of its own, or at the end of the last
Starts(rs, p) == rs = <<>> \/ (~IsAssistant(p) /\ IsAssistant(Last(Last(rs))))

Unpacks(X, rs, p) ==
  /\ Starts(rs, p) => Unpack(rs, p) = Append(rs, <<p>>)
  /\ ~Starts(rs, p) => /\ rs # <<>> /\ Front(rs) \in Rounds(X) /\ Last(rs) \in Seq(X) \ {<<>>}
                       /\ rs = Append(Front(rs), Last(rs))
                       /\ Unpack(rs, p) = Append(Front(rs), Append(Last(rs), p))

LEMMA UnpackShape ==
  ASSUME NEW X, NEW rs \in Rounds(X), NEW p \in X PROVE Unpacks(X, rs, p)
<1> DEFINE R == Seq(X) \ {<<>>}
<1>1. rs \in Seq(R) /\ rs \in Seq(Seq(X)) BY RoundsAreSeqs DEF Rounds
<1>2. CASE Starts(rs, p) BY <1>2 DEF Unpacks, Starts, Unpack
<1>3. CASE ~Starts(rs, p)
  <2> DEFINE f == Front(rs)
  <2> DEFINE l == Last(rs)
  <2> DEFINE k == Append(l, p)
  <2>1. rs # <<>> BY <1>3 DEF Starts
  <2>2. f \in Seq(R) /\ l \in R /\ rs = Append(f, l)
    <3> HIDE DEF R
    <3> QED BY <1>1, <2>1, FrontLast
  <2>3. Unpack(rs, p) = [rs EXCEPT ![Len(rs)] = Append(@, p)] BY <1>3 DEF Starts, Unpack
  <2> HIDE DEF f, l
  <2>4. f \in Seq(Seq(X)) /\ l \in Seq(X) BY <2>2, RoundsAreSeqs DEF Rounds
  <2>5. k \in Seq(X) BY <2>4, AppendProperties
  <2> HIDE DEF k
  <2>6. Len(rs) = Len(f) + 1 /\ Len(f) \in Nat /\ rs[Len(rs)] = l /\ \A i \in 1..Len(f) : rs[i] = f[i]
    BY <2>2, <2>4, AppendProperties
  <2>7. Unpack(rs, p) = [rs EXCEPT ![Len(rs)] = k] BY <2>3, <2>6 DEF k
  <2> DEFINE u == [rs EXCEPT ![Len(rs)] = k]
  <2> DEFINE v == Append(f, k)
  <2>8. u \in Seq(Seq(X)) /\ Len(u) = Len(rs)
        /\ \A i \in 1..Len(rs) : u[i] = IF i = Len(rs) THEN k ELSE rs[i]
    BY <1>1, <2>5, <2>6, ExceptSeq
  <2>9. v \in Seq(Seq(X)) /\ Len(v) = Len(f) + 1 /\ v[Len(f) + 1] = k /\ \A i \in 1..Len(f) : v[i] = f[i]
    BY <2>4, <2>5, AppendProperties
  <2> HIDE DEF u, v
  <2>10. \A i \in 1..Len(u) : u[i] = v[i]
    <3> SUFFICES ASSUME NEW i \in 1..(Len(f) + 1) PROVE u[i] = v[i] BY <2>6, <2>8
    <3>1. CASE i = Len(f) + 1 BY <2>6, <2>8, <2>9, <3>1
    <3>2. CASE i \in 1..Len(f) BY <2>6, <2>8, <2>9, <3>2
    <3> QED BY <2>6, <3>1, <3>2
  <2>11. u = v BY <2>6, <2>8, <2>9, <2>10, SeqEqual
  <2>12. Unpack(rs, p) = Append(f, k) BY <2>7, <2>11 DEF u, v
  <2> QED BY <1>3, <2>1, <2>2, <2>12 DEF Unpacks, Rounds, f, l, k
<1> QED BY <1>2, <1>3

LEMMA UnpackFacts ==
  ASSUME NEW X, NEW rs \in Rounds(X), NEW p \in X
  PROVE  Unpack(rs, p) \in Rounds(X) /\ Messages(Unpack(rs, p)) = Append(Messages(rs), p)
<1>0. Unpacks(X, rs, p) BY UnpackShape
<1> DEFINE R == Seq(X) \ {<<>>}
<1>1. rs \in Seq(R) /\ rs \in Seq(Seq(X)) BY RoundsAreSeqs DEF Rounds
<1>2. Messages(rs) \in Seq(X) BY <1>1, MessagesFacts
<1>3. <<p>> \in R /\ <<p>> \in Seq(X) OBVIOUS
<1>4. CASE Starts(rs, p)
  <2>1. Append(rs, <<p>>) \in Seq(R)
    <3> HIDE DEF R
    <3> QED BY <1>1, <1>3, AppendFacts
  <2>2. Messages(Append(rs, <<p>>)) = Messages(rs) \o <<p>> BY <1>1, <1>3, MessagesAppend DEF Join
  <2>3. Messages(rs) \o <<p>> = Append(Messages(rs), p) BY <1>2, AppendIsConcat
  <2>4. Unpack(rs, p) = Append(rs, <<p>>) BY <1>0, <1>4 DEF Unpacks
  <2> QED BY <2>1, <2>2, <2>3, <2>4 DEF Rounds
<1>5. CASE ~Starts(rs, p)
  <2> DEFINE f == Front(rs)
  <2> DEFINE l == Last(rs)
  <2> DEFINE k == Append(l, p)
  <2>1. f \in Seq(R) /\ l \in R /\ rs = Append(f, l) /\ Unpack(rs, p) = Append(f, k)
    BY <1>0, <1>5 DEF Unpacks, Rounds
  <2> HIDE DEF f, l
  <2>2. f \in Seq(Seq(X)) /\ l \in Seq(X) BY <2>1, RoundsAreSeqs DEF Rounds
  <2>3. k \in Seq(X) /\ k \in R BY <2>2, AppendProperties
  <2> HIDE DEF k
  <2>4. Append(f, k) \in Seq(R)
    <3> HIDE DEF R
    <3> QED BY <2>1, <2>3, AppendFacts
  <2>5. Messages(Append(f, k)) = Messages(f) \o k /\ Messages(rs) = Messages(f) \o l
    BY <2>1, <2>2, <2>3, MessagesAppend DEF Join
  <2>6. Messages(f) \in Seq(X) BY <2>2, MessagesFacts
  <2>7. Messages(f) \o k = Append(Messages(f) \o l, p) BY <2>2, <2>6, ConcatAppend DEF k
  <2> QED BY <2>1, <2>4, <2>5, <2>7 DEF Rounds
<1> QED BY <1>4, <1>5

LEMMA AddedFacts ==
  ASSUME NEW X, NEW rs \in Rounds(X)
  PROVE  \A ps \in Seq(X) : /\ Added(rs, ps) \in Rounds(X)
                            /\ Messages(Added(rs, ps)) = Messages(rs) \o ps
<1> DEFINE Good(ps) == Added(rs, ps) \in Rounds(X) /\ Messages(Added(rs, ps)) = Messages(rs) \o ps
<1> DEFINE T == {ps \in Seq(X) : Good(ps)}
<1>0. Messages(rs) \in Seq(X) BY RoundsAreSeqs, MessagesFacts
<1>1. <<>> \in T BY <1>0, EmptyFacts, AddedEmpty, ConcatEmptySeq
<1>2. ASSUME NEW ps \in Seq(X), NEW p \in X, ps \in T PROVE Append(ps, p) \in T
  <2>1. Added(rs, Append(ps, p)) = Unpack(Added(rs, ps), p) BY AddedAppend
  <2>2. Added(rs, ps) \in Rounds(X) /\ Messages(Added(rs, ps)) = Messages(rs) \o ps BY <1>2
  <2>3. /\ Unpack(Added(rs, ps), p) \in Rounds(X)
        /\ Messages(Unpack(Added(rs, ps), p)) = Append(Messages(Added(rs, ps)), p)
    BY <2>2, UnpackFacts
  <2>4. Messages(rs) \o Append(ps, p) = Append(Messages(rs) \o ps, p) BY <1>0, ConcatAppend
  <2>5. Append(ps, p) \in Seq(X) BY AppendFacts
  <2> QED BY <2>1, <2>2, <2>3, <2>4, <2>5
<1> HIDE DEF T
<1>3. Grows(X, T) BY <1>1, <1>2 DEF Grows
<1>4. \A ps \in Seq(X) : ps \in T BY <1>3, SeqInduction
<1> QED BY <1>4 DEF T

LEMMA DiscardedAppend ==
  ASSUME NEW X, NEW D, NEW rs \in Seq(Seq(X)), NEW r \in Seq(X)
  PROVE  Discarded(Append(rs, r), D) = Keep(Discarded(rs, D), Without(r, D), {<<>>})
<1> DEFINE Each(s) == [i \in DOMAIN s |-> Without(s[i], D)]
<1>0. \A s : Discarded(s, D) = Without(Each(s), {<<>>}) BY DEF Discarded
<1> DEFINE all == Append(rs, r)
<1> DEFINE w == Without(r, D)
<1>2. w \in Seq(X) BY WithoutFacts
<1>3. Each(rs) \in Seq(Seq(X)) /\ Len(Each(rs)) = Len(rs) /\ \A i \in 1..Len(rs) : Each(rs)[i] = Without(rs[i], D)
  <2>1. \A i \in 1..Len(rs) : Without(rs[i], D) \in Seq(X) BY WithoutFacts, ElementOfSeq
  <2>2. DOMAIN rs = 1..Len(rs) /\ Len(rs) \in Nat OBVIOUS
  <2> QED BY <2>1, <2>2
<1>4. all \in Seq(Seq(X)) /\ Len(all) = Len(rs) + 1 /\ all[Len(rs) + 1] = r /\ \A i \in 1..Len(rs) : all[i] = rs[i]
  BY AppendProperties
<1> HIDE DEF all
<1>6. Each(all) = Append(Each(rs), w)
  <2> DEFINE u == Each(all)
  <2> DEFINE v == Append(Each(rs), w)
  <2>1. DOMAIN all = 1..(Len(rs) + 1) /\ Len(rs) \in Nat BY <1>4
  <2>2. \A i \in 1..(Len(rs) + 1) : Without(all[i], D) \in Seq(X) BY <1>4, WithoutFacts, ElementOfSeq
  <2>3. u \in Seq(Seq(X)) /\ Len(u) = Len(rs) + 1 /\ \A i \in 1..(Len(rs) + 1) : u[i] = Without(all[i], D)
    BY <2>1, <2>2
  <2>4. v \in Seq(Seq(X)) /\ Len(v) = Len(rs) + 1 /\ v[Len(rs) + 1] = w
        /\ \A i \in 1..Len(rs) : v[i] = Without(rs[i], D)
    <3> HIDE DEF Each, w
    <3> DEFINE e == Each(rs)
    <3>1. e \in Seq(Seq(X)) /\ Len(e) = Len(rs) BY <1>3
    <3> HIDE DEF e
    <3>2. /\ Append(e, w) \in Seq(Seq(X)) /\ Len(Append(e, w)) = Len(rs) + 1
          /\ Append(e, w)[Len(rs) + 1] = w /\ \A i \in 1..Len(rs) : Append(e, w)[i] = e[i]
      BY <1>2, <3>1, AppendProperties
    <3> QED BY <1>3, <3>2 DEF e
  <2> HIDE DEF u, v
  <2>5. \A i \in 1..Len(u) : u[i] = v[i]
    <3> SUFFICES ASSUME NEW i \in 1..(Len(rs) + 1) PROVE u[i] = v[i] BY <2>3
    <3>1. CASE i = Len(rs) + 1 BY <1>4, <2>3, <2>4, <3>1
    <3>2. CASE i \in 1..Len(rs) BY <1>4, <2>3, <2>4, <3>2
    <3> QED BY <2>1, <3>1, <3>2
  <2>6. u = v BY <2>3, <2>4, <2>5, SeqEqual
  <2> QED BY <2>6 DEF u, v
<1> HIDE DEF Each, w
<1>7. Discarded(all, D) = Keep(Discarded(rs, D), w, {<<>>})
  <2> DEFINE e == Each(rs)
  <2>1. Discarded(all, D) = Without(Each(all), {<<>>}) /\ Discarded(rs, D) = Without(e, {<<>>}) BY <1>0
  <2>2. e \in Seq(Seq(X)) /\ Each(all) = Append(e, w) BY <1>3, <1>6
  <2> HIDE DEF e
  <2>3. Without(Append(e, w), {<<>>}) = Keep(Without(e, {<<>>}), w, {<<>>}) BY <1>2, <2>2, WithoutAppend
  <2> QED BY <2>1, <2>2, <2>3
<1> QED BY <1>7 DEF all, w

LEMMA DiscardedFacts ==
  ASSUME NEW X, NEW D
  PROVE  \A rs \in Seq(Seq(X)) : /\ Discarded(rs, D) \in Rounds(X)
                                 /\ Messages(Discarded(rs, D)) = Without(Messages(rs), D)
<1> DEFINE Good(rs) == /\ Discarded(rs, D) \in Rounds(X)
                       /\ Messages(Discarded(rs, D)) = Without(Messages(rs), D)
<1> DEFINE T == {rs \in Seq(Seq(X)) : Good(rs)}
<1>1. <<>> \in T
  <2>1. Discarded(<<>>, D) = <<>>
    <3>1. [i \in DOMAIN <<>> |-> Without(<<>>[i], D)] = <<>> OBVIOUS
    <3> QED BY <3>1, WithoutEmpty DEF Discarded
  <2>2. Good(<<>>) BY <2>1, MessagesEmpty, WithoutEmpty, EmptyFacts DEF Rounds
  <2>3. <<>> \in Seq(Seq(X)) OBVIOUS
  <2> QED BY <2>2, <2>3
<1>2. ASSUME NEW rs \in Seq(Seq(X)), NEW r \in Seq(X), rs \in T PROVE Append(rs, r) \in T
  <2> DEFINE all == Append(rs, r)
  <2> DEFINE w == Without(r, D)
  <2>1. Good(rs) BY <1>2
  <2>2. w \in Seq(X) BY WithoutFacts
  <2>4. all \in Seq(Seq(X)) BY AppendProperties
  <2>5. Messages(all) = Messages(rs) \o r BY MessagesAppend DEF Join
  <2>7. Discarded(all, D) = Keep(Discarded(rs, D), w, {<<>>}) BY DiscardedAppend
  <2> HIDE DEF all
  <2>8. Without(Messages(all), D) = Without(Messages(rs), D) \o w
    BY <2>5, MessagesFacts, WithoutConcat DEF w
  <2>9. Discarded(rs, D) \in Rounds(X) /\ Messages(Discarded(rs, D)) = Without(Messages(rs), D)
    BY <2>1
  <2>10. Without(Messages(rs), D) \in Seq(X) BY MessagesFacts, WithoutFacts
  <2>11. ASSUME w = <<>> PROVE Good(all)
    <3>1. Discarded(all, D) = Discarded(rs, D) BY <2>7, <2>11 DEF Keep
    <3>2. Without(Messages(rs), D) \o w = Without(Messages(rs), D) BY <2>10, <2>11, ConcatEmptySeq
    <3> QED BY <2>4, <2>8, <2>9, <3>1, <3>2
  <2>12. ASSUME w # <<>> PROVE Good(all)
    <3>1. Discarded(all, D) = Append(Discarded(rs, D), w) BY <2>7, <2>12 DEF Keep
    <3>2. Append(Discarded(rs, D), w) \in Rounds(X)
      <4> DEFINE R == Seq(X) \ {<<>>}
      <4>1. w \in R /\ Discarded(rs, D) \in Seq(R) BY <2>2, <2>9, <2>12 DEF Rounds
      <4> HIDE DEF R
      <4>2. Append(Discarded(rs, D), w) \in Seq(R) BY <4>1, AppendFacts
      <4> QED BY <4>2 DEF Rounds, R
    <3>3. Messages(Append(Discarded(rs, D), w)) = Messages(Discarded(rs, D)) \o w
      BY <2>2, <2>9, RoundsAreSeqs, MessagesAppend DEF Join
    <3> QED BY <2>4, <2>8, <2>9, <3>1, <3>2, <3>3
  <2>13. all \in T BY <2>4, <2>11, <2>12
  <2> QED BY <2>13 DEF all
<1> HIDE DEF T
<1>3. Grows(Seq(X), T) BY <1>1, <1>2 DEF Grows
<1>4. \A rs \in Seq(Seq(X)) : rs \in T BY <1>3, SeqInduction
<1> QED BY <1>4 DEF T

------------------------------------------------------------------------------
\* Prompts

\* What a prompt is, by its kind
LEMMA PromptKinds ==
  ASSUME NEW p \in Prompt
  PROVE  /\ p.kind \in {"text", "call", "response", "notice", "reply"}
         /\ p.kind = "text" => p.run \in Run /\ p = Text(p.run)
         /\ p.kind \in {"call", "response", "notice"} => p.call \in CallIds
         /\ p.kind = "call" => p = Call(p.call)
         /\ p.kind = "response" => p.run \in Run
         /\ p.kind = "notice" => p = Notice(p.call)
<1>1. CASE p \in [kind : {"text"}, run : Run] BY <1>1 DEF Text
<1>2. CASE p \in [kind : {"call", "notice"}, call : CallIds] BY <1>2 DEF Call, Notice
<1>3. CASE p \in [kind : {"response"}, call : CallIds, run : Run, n : {1, 2}] BY <1>3
<1>4. CASE p = Reply BY <1>4 DEF Reply
<1> QED BY <1>1, <1>2, <1>3, <1>4 DEF Prompt

LEMMA PromptTypes ==
  /\ \A r \in Run : Text(r) \in Prompt /\ Text(r).kind = "text" /\ Text(r).run = r
  /\ \A c \in CallIds : Call(c) \in Prompt /\ Call(c).kind = "call" /\ Call(c).call = c
  /\ \A c \in CallIds : Notice(c) \in Prompt /\ Notice(c).kind = "notice" /\ Notice(c).call = c
  /\ \A c \in CallIds, r \in Run, n \in {1, 2} :
        /\ Response(c, r, n) \in Prompt /\ Response(c, r, n).kind = "response"
        /\ Response(c, r, n).call = c
  /\ Reply \in Prompt /\ Reply.kind = "reply"
  /\ \A c \in CallIds : Missing(c) \in Sent /\ Missing(c).kind = "missing"
  /\ Prompt \subseteq Sent
<1>1. \A r \in Run : Text(r) \in Prompt /\ Text(r).kind = "text" /\ Text(r).run = r BY DEF Text, Prompt
<1>2. \A c \in CallIds : Call(c) \in Prompt /\ Call(c).kind = "call" /\ Call(c).call = c BY DEF Call, Prompt
<1>3. \A c \in CallIds : Notice(c) \in Prompt /\ Notice(c).kind = "notice" /\ Notice(c).call = c
  BY DEF Notice, Prompt
<1>4. \A c \in CallIds, r \in Run, n \in {1, 2} :
        /\ Response(c, r, n) \in Prompt /\ Response(c, r, n).kind = "response"
        /\ Response(c, r, n).call = c
  BY DEF Response, Prompt
<1>5. Reply \in Prompt /\ Reply.kind = "reply" BY DEF Reply, Prompt
<1>6. \A c \in CallIds : Missing(c) \in Sent /\ Missing(c).kind = "missing" BY DEF Missing, Sent
<1>7. Prompt \subseteq Sent BY DEF Sent
<1> QED BY <1>1, <1>2, <1>3, <1>4, <1>5, <1>6, <1>7

\* The marks of a sequence are those of its elements.
Marked(p) ==
  IF p.kind = "text" THEN {<<"run", p.run>>}
  ELSE IF p.kind \in {"response", "notice"} THEN {<<"result", p.call>>}
  ELSE {}

LEMMA MarksAre ==
  ASSUME NEW s PROVE \A m : m \in Marks(s) <=> \E p \in ToSet(s) : m \in Marked(p)
<1> SUFFICES ASSUME NEW m PROVE m \in Marks(s) <=> \E p \in ToSet(s) : m \in Marked(p) OBVIOUS
<1> DEFINE S == ToSet(s)
<1>1. Marks(s) = {<<"run", p.run>> : p \in {q \in S : q.kind = "text"}}
                    \cup {<<"result", p.call>> : p \in {q \in S : q.kind \in {"response", "notice"}}}
  BY DEF Marks
<1> HIDE DEF S
<1>2. m \in Marks(s) <=> \/ \E p \in S : p.kind = "text" /\ m = <<"run", p.run>>
                        \/ \E p \in S : p.kind \in {"response", "notice"} /\ m = <<"result", p.call>>
  BY <1>1, Zenon
<1>3. \A p \in S : m \in Marked(p) <=> \/ p.kind = "text" /\ m = <<"run", p.run>>
                                       \/ p.kind \in {"response", "notice"} /\ m = <<"result", p.call>>
  BY DEF Marked
<1>4. m \in Marks(s) <=> \E p \in S : m \in Marked(p) BY <1>2, <1>3
<1> QED BY <1>4 DEF S

LEMMA MarksType ==
  ASSUME NEW s \in Seq(Prompt) PROVE Marks(s) \subseteq Mark
<1> SUFFICES ASSUME NEW m \in Marks(s) PROVE m \in Mark OBVIOUS
<1>1. PICK p \in ToSet(s) : m \in Marked(p) BY MarksAre
<1>2. p \in Prompt BY Members
<1> QED BY <1>1, <1>2, PromptKinds DEF Marked, Mark

LEMMA MarksMonotone ==
  ASSUME NEW s, NEW t, ToSet(s) \subseteq ToSet(t) PROVE Marks(s) \subseteq Marks(t)
<1> SUFFICES ASSUME NEW m \in Marks(s) PROVE m \in Marks(t) OBVIOUS
<1>1. PICK p \in ToSet(s) : m \in Marked(p) BY MarksAre
<1> QED BY <1>1, MarksAre

LEMMA MarksEmpty == Marks(<<>>) = {}
<1> SUFFICES ASSUME NEW m \in Marks(<<>>) PROVE FALSE OBVIOUS
<1>1. PICK p \in ToSet(<<>>) : m \in Marked(p) BY MarksAre
<1> QED BY <1>1, EmptyFacts

\* Those that may be discarded: calls, which have no mark, and responses with a notice
Discardable(D, notices) ==
  \A p \in D : \/ p.kind = "call"
               \/ p.kind = "response" /\ Notice(p.call) \in ToSet(notices)

LEMMA MarksKept ==
  ASSUME NEW s \in Seq(Prompt), NEW D, NEW ns, Discardable(D, ns)
  PROVE  Marks(s) \subseteq Marks(Without(s, D)) \cup Marks(ns)
<1> SUFFICES ASSUME NEW m \in Marks(s), m \notin Marks(Without(s, D)) PROVE m \in Marks(ns) OBVIOUS
<1>1. PICK p \in ToSet(s) : m \in Marked(p) BY MarksAre
<1>2. p \in D
  <2>1. ToSet(Without(s, D)) = ToSet(s) \ D BY WithoutFacts
  <2> QED BY <1>1, <2>1, MarksAre
<1>3. p.kind = "response" /\ Notice(p.call) \in ToSet(ns) /\ p.call \in CallIds
  <2>1. p.kind # "call" BY <1>1 DEF Marked
  <2>2. p \in Prompt BY Members
  <2> QED BY <1>2, <2>1, <2>2, PromptKinds DEF Discardable
<1>4. m \in Marked(Notice(p.call)) BY <1>1, <1>3, PromptTypes DEF Marked
<1> QED BY <1>3, <1>4, MarksAre

------------------------------------------------------------------------------
\* Normalisation

LEMMA SetToSeqFacts ==
  ASSUME NEW S, IsFiniteSet(S)
  PROVE  SetToSeq(S) \in Seq(S) /\ (S = {} => SetToSeq(S) = <<>>)
<1> DEFINE n == Cardinality(S)
<1>1. n \in Nat /\ ExistsBijection(1..n, S) BY FS_CardinalityType
<1>2. \E f \in [1..n -> S] : IsInjective(f)
  <2>1. PICK f : f \in Bijection(1..n, S) BY <1>1 DEF ExistsBijection
  <2>2. f \in [1..n -> S] /\ \A a, b \in 1..n : f[a] = f[b] => a = b BY <2>1 DEF Bijection, Injection, IsInjective
  <2> QED BY <2>2 DEF IsInjective
<1>3. SetToSeq(S) \in [1..n -> S] BY <1>2 DEF SetToSeq
<1>4. S = {} => n = 0 BY FS_EmptySet
<1> HIDE DEF n
<1>5. SetToSeq(S) \in Seq(S) /\ Len(SetToSeq(S)) = n BY <1>1, <1>3
<1> QED BY <1>4, <1>5, EmptySeq

\* The record of what a normalisation has seen, and what it may discard
SeenRecord ==
  [sent : Seq(Sent), pending : SUBSET CallIds, orphans : SUBSET Prompt, closed : SUBSET Prompt,
   notices : Seq(Prompt)]

SeenOK(z) ==
  /\ z \in SeenRecord
  /\ Discardable(z.orphans, z.notices) /\ Discardable(z.closed, z.notices)
  /\ \A p \in ToSet(z.notices) : p.kind = "notice"

LEMMA ClosedFacts ==
  ASSUME ChatClientAssumption, NEW z, SeenOK(z)
  PROVE  /\ SeenOK(Closed(z)) /\ Closed(z).pending = {}
         /\ z.pending = {} => Closed(z) = z
<1> DEFINE q == SetToSeq(z.pending)
<1> DEFINE ms == [i \in DOMAIN q |-> Missing(q[i])]
<1> DEFINE cs == {Call(c) : c \in z.pending}
<1>1. z \in SeenRecord /\ z.pending \subseteq CallIds BY DEF SeenOK, SeenRecord
<1>2. IsFiniteSet(z.pending)
  <2>1. IsFiniteSet(CallIds) BY FS_Interval DEF ChatClientAssumption, CallIds
  <2> QED BY <1>1, <2>1, FS_Subset
<1>3. q \in Seq(z.pending) /\ (z.pending = {} => q = <<>>) BY <1>2, SetToSeqFacts
<1> HIDE DEF q
<1>4. ms \in Seq(Sent) /\ (z.pending = {} => ms = <<>>)
  <2>1. q \in Seq(CallIds) BY <1>1, <1>3, SeqMonotonic
  <2>2. DOMAIN q = 1..Len(q) /\ Len(q) \in Nat /\ \A i \in 1..Len(q) : q[i] \in CallIds
    BY <2>1, ElementOfSeq
  <2>3. \A i \in 1..Len(q) : Missing(q[i]) \in Sent BY <2>2, PromptTypes
  <2>4. ms \in [1..Len(q) -> Sent] BY <2>2, <2>3
  <2>5. ms \in Seq(Sent) BY <2>2, <2>4
  <2>6. z.pending = {} => ms = <<>> BY <1>3
  <2> QED BY <2>5, <2>6
<1>5. cs \subseteq Prompt /\ (\A p \in cs : p.kind = "call") /\ (z.pending = {} => cs = {})
  BY <1>1, PromptTypes
<1>6. Closed(z) = [z EXCEPT !.sent = @ \o ms, !.closed = @ \cup cs, !.pending = {}] BY DEF Closed, q
<1> HIDE DEF ms, cs
<1>7. z.sent \o ms \in Seq(Sent) BY <1>1, <1>4, ConcatProperties DEF SeenRecord
<1>8. Closed(z) \in SeenRecord BY <1>1, <1>5, <1>6, <1>7 DEF SeenRecord
<1>9. /\ Closed(z).orphans = z.orphans /\ Closed(z).notices = z.notices
      /\ Closed(z).closed = z.closed \cup cs /\ Closed(z).pending = {}
  BY <1>1, <1>6 DEF SeenRecord
<1>10. SeenOK(Closed(z)) BY <1>5, <1>8, <1>9 DEF SeenOK, Discardable
<1>11. ASSUME z.pending = {} PROVE Closed(z) = z
  <2>1. z.sent \o ms = z.sent BY <1>1, <1>4, <1>11, ConcatEmptySeq DEF SeenRecord
  <2> QED BY <1>1, <1>5, <1>6, <1>11, <2>1, ZenonT(60) DEF SeenRecord
<1> QED BY <1>9, <1>10, <1>11

LEMMA NormalFacts ==
  ASSUME ChatClientAssumption, NEW z, SeenOK(z), NEW p \in Prompt
  PROVE  SeenOK(Normal(z, p))
<1>1. z \in SeenRecord /\ p \in Sent BY PromptTypes DEF SeenOK
<1>2. CASE p.kind = "call"
  <2>1. p.call \in CallIds BY <1>2, PromptKinds
  <2>2. Append(z.sent, p) \in Seq(Sent) BY <1>1, AppendFacts DEF SeenRecord
  <2>3. Normal(z, p) = [z EXCEPT !.sent = Append(@, p), !.pending = @ \cup {p.call}] BY <1>2 DEF Normal
  <2> QED BY <1>1, <2>1, <2>2, <2>3, ZenonT(60) DEF SeenOK, SeenRecord
<1>3. CASE p.kind = "response" /\ p.call \in z.pending
  <2>1. Append(z.sent, p) \in Seq(Sent) BY <1>1, AppendFacts DEF SeenRecord
  <2>2. Normal(z, p) = [z EXCEPT !.sent = Append(@, p), !.pending = @ \ {p.call}] BY <1>3 DEF Normal
  <2> QED BY <1>1, <2>1, <2>2 DEF SeenOK, SeenRecord
<1>4. CASE p.kind = "response" /\ p.call \notin z.pending
  <2> DEFINE w == Closed(z)
  <2> DEFINE n == Notice(p.call)
  <2>1. SeenOK(w) BY ClosedFacts
  <2>2. n \in Prompt /\ n.kind = "notice" BY <1>4, PromptKinds, PromptTypes
  <2>3. Normal(z, p) = [w EXCEPT !.sent = Append(@, n), !.notices = Append(@, n), !.orphans = @ \cup {p}]
    BY <1>4 DEF Normal, Orphaned, Orphaned_open
  <2> HIDE DEF w
  <2>4. w \in SeenRecord BY <2>1 DEF SeenOK
  <2>5. n \in Sent BY <2>2, PromptTypes
  <2> HIDE DEF n
  <2>6. Append(w.sent, n) \in Seq(Sent) BY <2>4, <2>5, AppendFacts DEF SeenRecord
  <2>7. Append(w.notices, n) \in Seq(Prompt) /\ ToSet(Append(w.notices, n)) = ToSet(w.notices) \cup {n}
    BY <2>2, <2>4, AppendFacts DEF SeenRecord
  <2> DEFINE u == Normal(z, p)
  <2>8. /\ u \in SeenRecord /\ u.closed = w.closed /\ u.orphans = w.orphans \cup {p}
        /\ u.notices = Append(w.notices, n)
    BY <2>3, <2>4, <2>6, <2>7, ZenonT(60) DEF SeenRecord
  <2> HIDE DEF u
  <2>9. Discardable(u.closed, u.notices) BY <2>1, <2>7, <2>8 DEF SeenOK, Discardable
  <2>10. Discardable(u.orphans, u.notices)
    <3>1. Discardable(w.orphans, u.notices) BY <2>1, <2>7, <2>8 DEF SeenOK, Discardable
    <3>2. Discardable({p}, u.notices) BY <1>4, <2>7, <2>8 DEF Discardable, n
    <3> QED BY <2>8, <3>1, <3>2 DEF Discardable
  <2>11. \A q \in ToSet(u.notices) : q.kind = "notice" BY <2>1, <2>2, <2>7, <2>8 DEF SeenOK
  <2>12. SeenOK(u) BY <2>8, <2>9, <2>10, <2>11 DEF SeenOK
  <2> QED BY <2>12 DEF u
<1>5. CASE p.kind \notin {"call", "response"}
  <2> DEFINE t == IF IsUser(p) THEN Closed(z) ELSE z
  <2>1. SeenOK(t) BY ClosedFacts
  <2>2. Normal(z, p) = [t EXCEPT !.sent = Append(@, p)] BY <1>5 DEF Normal
  <2> HIDE DEF t
  <2>3. t \in SeenRecord BY <2>1 DEF SeenOK
  <2>4. Append(t.sent, p) \in Seq(Sent) BY <1>1, <2>3, AppendFacts DEF SeenRecord
  <2> QED BY <2>1, <2>2, <2>3, <2>4 DEF SeenOK, SeenRecord
<1> QED BY <1>2, <1>3, <1>4, <1>5

LEMMA SeenFacts ==
  ASSUME ChatClientAssumption PROVE \A m \in Seq(Prompt) : SeenOK(Seen(m))
<1> DEFINE T == {m \in Seq(Prompt) : SeenOK(Seen(m))}
<1>1. <<>> \in T
  <2>1. Unsent \in SeenRecord /\ ToSet(Unsent.notices) = {} /\ Unsent.orphans = {} /\ Unsent.closed = {}
    BY EmptyFacts DEF Unsent, SeenRecord
  <2>2. SeenOK(Unsent) BY <2>1 DEF SeenOK, Discardable
  <2> QED BY <2>2, SeenEmpty
<1>2. ASSUME NEW m \in Seq(Prompt), NEW p \in Prompt, m \in T PROVE Append(m, p) \in T
  <2>1. Seen(Append(m, p)) = Normal(Seen(m), p) BY SeenAppend
  <2>2. SeenOK(Seen(m)) /\ Append(m, p) \in Seq(Prompt) BY <1>2, AppendFacts
  <2>3. SeenOK(Normal(Seen(m), p)) BY <2>2, NormalFacts
  <2> QED BY <2>1, <2>2, <2>3
<1> HIDE DEF T
<1>3. Grows(Prompt, T) BY <1>1, <1>2 DEF Grows
<1>4. \A m \in Seq(Prompt) : m \in T BY <1>3, SeqInduction
<1> QED BY <1>4 DEF T

\* Nothing has lost its call, and only calls of D were closed for want of a response.
CallSet(D) == {Call(c) : c \in D}

Quiet(z, D) ==
  /\ SeenOK(z)
  /\ z.orphans = {} /\ z.notices = <<>> /\ z.closed \subseteq CallSet(D)
  /\ \A p \in ToSet(z.sent) : p.kind # "notice" /\ (p.kind = "missing" => p.call \in D)

Told(m) == {p.call : p \in {q \in ToSet(m) : q.kind = "response"}}

\* The calls of P wait, and perhaps some of D, which are among the first n; the
\* responses among the prompts are to others of these.
Clean(m, P, D, n) ==
  /\ Quiet(Seen(m), D)
  /\ P \subseteq Seen(m).pending /\ Seen(m).pending \subseteq P \cup D
  /\ P \cap D = {} /\ P \cup D \subseteq 1..n /\ Told(m) \subseteq (1..n) \ (P \cup D)

LEMMA QuietClosed ==
  ASSUME ChatClientAssumption, NEW z, SeenOK(z), NEW D
  PROVE  Quiet(Closed(z), D) <=> Quiet(z, D) /\ z.pending \subseteq D
<1> DEFINE q == SetToSeq(z.pending)
<1> DEFINE ms == [i \in DOMAIN q |-> Missing(q[i])]
<1> DEFINE cs == {Call(c) : c \in z.pending}
<1>1. z \in SeenRecord /\ z.pending \subseteq CallIds /\ SeenOK(Closed(z)) BY ClosedFacts DEF SeenOK, SeenRecord
<1>2. q \in Seq(z.pending) /\ q \in Seq(CallIds)
  <2>1. IsFiniteSet(CallIds) BY FS_Interval DEF ChatClientAssumption, CallIds
  <2>2. IsFiniteSet(z.pending) BY <1>1, <2>1, FS_Subset
  <2>3. q \in Seq(z.pending) BY <2>2, SetToSeqFacts
  <2> QED BY <1>1, <2>3, SeqMonotonic
<1> HIDE DEF q
<1>3. ms \in Seq(Sent) /\ \A p \in ToSet(ms) : \E c \in z.pending : p = Missing(c)
  <2>1. DOMAIN q = 1..Len(q) /\ Len(q) \in Nat /\ \A i \in 1..Len(q) : q[i] \in CallIds /\ q[i] \in z.pending
    BY <1>2, ElementOfSeq
  <2>2. \A i \in 1..Len(q) : Missing(q[i]) \in Sent BY <2>1, PromptTypes
  <2>3. ms \in [1..Len(q) -> Sent] BY <2>1, <2>2
  <2> QED BY <2>1, <2>3 DEF ToSet
<1>4. Closed(z) = [z EXCEPT !.sent = @ \o ms, !.closed = @ \cup cs, !.pending = {}] BY DEF Closed, q
<1> HIDE DEF ms
<1> DEFINE u == z.sent \o ms
<1>5. ToSet(u) = ToSet(z.sent) \cup ToSet(ms) BY <1>1, <1>3, ConcatSet DEF SeenRecord
<1>6. /\ Closed(z).sent = u /\ Closed(z).closed = z.closed \cup cs
      /\ Closed(z).orphans = z.orphans /\ Closed(z).notices = z.notices
  BY <1>1, <1>4 DEF SeenRecord
<1> HIDE DEF u
<1>7. cs \subseteq CallSet(D) <=> z.pending \subseteq D
  <2>1. ASSUME cs \subseteq CallSet(D), NEW c \in z.pending PROVE c \in D
    <3>1. Call(c) \in CallSet(D) BY <2>1
    <3>2. PICK d \in D : Call(c) = Call(d) BY <3>1 DEF CallSet
    <3>3. Call(c).call = c /\ Call(d).call = d BY DEF Call
    <3> QED BY <3>2, <3>3
  <2>2. ASSUME z.pending \subseteq D PROVE cs \subseteq CallSet(D) BY <2>2 DEF CallSet
  <2> QED BY <2>1, <2>2
<1> HIDE DEF cs
<1>8. ASSUME z.pending \subseteq D, NEW p \in ToSet(ms)
      PROVE  p.kind # "notice" /\ (p.kind = "missing" => p.call \in D)
  BY <1>3, <1>8 DEF Missing
<1>9. ASSUME Quiet(Closed(z), D) PROVE Quiet(z, D) /\ z.pending \subseteq D
  BY <1>5, <1>6, <1>7, <1>9 DEF Quiet
<1>10. ASSUME Quiet(z, D), z.pending \subseteq D PROVE Quiet(Closed(z), D)
  BY <1>1, <1>5, <1>6, <1>7, <1>8, <1>10 DEF Quiet
<1> QED BY <1>9, <1>10

\* When a prompt leaves it quiet, and which calls then wait
LEMMA QuietStep ==
  ASSUME ChatClientAssumption, NEW z, SeenOK(z), NEW p \in Prompt, NEW D
  PROVE  /\ Quiet(Normal(z, p), D) <=>
              /\ Quiet(z, D) /\ p.kind # "notice"
              /\ p.kind = "response" => p.call \in z.pending
              /\ p.kind = "text" => z.pending \subseteq D
         /\ p.kind = "call" => Normal(z, p).pending = z.pending \cup {p.call}
         /\ p.kind = "response" /\ p.call \in z.pending => Normal(z, p).pending = z.pending \ {p.call}
         /\ p.kind = "text" => Normal(z, p).pending = {}
         /\ p.kind = "reply" => Normal(z, p).pending = z.pending
<1> DEFINE n == Normal(z, p)
<1>1. z \in SeenRecord /\ p \in Sent /\ SeenOK(n) /\ p.kind # "missing"
  BY NormalFacts, PromptTypes, PromptKinds DEF SeenOK
<1>2. ASSUME NEW y \in SeenRecord
      PROVE  Append(y.sent, p) \in Seq(Sent) /\ ToSet(Append(y.sent, p)) = ToSet(y.sent) \cup {p}
  BY <1>1, AppendFacts DEF SeenRecord
<1>3. CASE p.kind = "call"
  <2>1. n = [z EXCEPT !.sent = Append(@, p), !.pending = @ \cup {p.call}] BY <1>3 DEF Normal
  <2>2. /\ n.sent = Append(z.sent, p) /\ n.pending = z.pending \cup {p.call} /\ n.orphans = z.orphans
        /\ n.closed = z.closed /\ n.notices = z.notices
    BY <1>1, <2>1 DEF SeenRecord
  <2> HIDE DEF n
  <2>3. Quiet(n, D) <=> Quiet(z, D) BY <1>1, <1>2, <1>3, <2>2 DEF Quiet
  <2> QED BY <1>3, <2>2, <2>3 DEF n
<1>4. CASE p.kind = "response" /\ p.call \in z.pending
  <2>1. n = [z EXCEPT !.sent = Append(@, p), !.pending = @ \ {p.call}] BY <1>4 DEF Normal
  <2>2. /\ n.sent = Append(z.sent, p) /\ n.pending = z.pending \ {p.call} /\ n.orphans = z.orphans
        /\ n.closed = z.closed /\ n.notices = z.notices
    BY <1>1, <2>1 DEF SeenRecord
  <2> HIDE DEF n
  <2>3. Quiet(n, D) <=> Quiet(z, D) BY <1>1, <1>2, <1>4, <2>2 DEF Quiet
  <2> QED BY <1>4, <2>2, <2>3 DEF n
<1>5. CASE p.kind = "response" /\ p.call \notin z.pending
  <2> DEFINE w == Closed(z)
  <2>1. w \in SeenRecord BY ClosedFacts DEF SeenOK
  <2>2. n = [w EXCEPT !.sent = Append(@, Notice(p.call)), !.notices = Append(@, Notice(p.call)),
                      !.orphans = @ \cup {p}]
    BY <1>5 DEF Normal, Orphaned, Orphaned_open
  <2> HIDE DEF w
  <2>3. n.orphans # {} BY <2>1, <2>2 DEF SeenRecord
  <2> QED BY <1>5, <2>3 DEF Quiet
<1>6. CASE p.kind = "reply"
  <2>1. n = [z EXCEPT !.sent = Append(@, p)] BY <1>6 DEF Normal, IsUser
  <2>2. /\ n.sent = Append(z.sent, p) /\ n.pending = z.pending /\ n.orphans = z.orphans
        /\ n.closed = z.closed /\ n.notices = z.notices
    BY <1>1, <2>1 DEF SeenRecord
  <2> HIDE DEF n
  <2>3. Quiet(n, D) <=> Quiet(z, D) BY <1>1, <1>2, <1>6, <2>2 DEF Quiet
  <2> QED BY <1>6, <2>2, <2>3 DEF n
<1>7. CASE p.kind \in {"text", "notice"}
  <2> DEFINE w == Closed(z)
  <2>1. w \in SeenRecord /\ SeenOK(w) /\ w.pending = {} BY ClosedFacts DEF SeenOK
  <2>2. n = [w EXCEPT !.sent = Append(@, p)] BY <1>7 DEF Normal, IsUser
  <2>3. Quiet(w, D) <=> Quiet(z, D) /\ z.pending \subseteq D BY QuietClosed
  <2> HIDE DEF w
  <2>4. /\ n.sent = Append(w.sent, p) /\ n.pending = {} /\ n.orphans = w.orphans
        /\ n.closed = w.closed /\ n.notices = w.notices
    BY <2>1, <2>2 DEF SeenRecord
  <2> HIDE DEF n
  <2>5. Quiet(n, D) <=> Quiet(w, D) /\ p.kind # "notice" BY <1>1, <1>2, <2>1, <2>4 DEF Quiet
  <2> QED BY <1>7, <2>3, <2>4, <2>5 DEF n
<1>8. p.kind \in {"text", "call", "response", "notice", "reply"} BY PromptKinds
<1> QED BY <1>3, <1>4, <1>5, <1>6, <1>7, <1>8

LEMMA ToldAppend ==
  ASSUME NEW m \in Seq(Prompt), NEW p \in Prompt
  PROVE  Told(Append(m, p)) = Told(m) \cup (IF p.kind = "response" THEN {p.call} ELSE {})
<1> DEFINE t == Append(m, p)
<1>1. ToSet(t) = ToSet(m) \cup {p} BY AppendFacts
<1> HIDE DEF t
<1> QED BY <1>1 DEF Told, t

LEMMA CleanSteps ==
  ASSUME ChatClientAssumption, NEW m \in Seq(Prompt), NEW P, NEW D, NEW n, Clean(m, P, D, n),
         NEW p \in Prompt
  PROVE  LET t == Append(m, p) IN
         /\ p.kind = "call" /\ p.call \in (1..n) \ (Told(m) \cup D) => Clean(t, P \cup {p.call}, D, n)
         /\ p.kind = "response" /\ p.call \in P => Clean(t, P \ {p.call}, D, n)
         /\ p.kind = "text" /\ P = {} => Clean(t, P, D, n)
         /\ p.kind = "reply" => Clean(t, P, D, n)
<1> DEFINE t == Append(m, p)
<1> DEFINE z == Seen(m)
<1>1. SeenOK(z) /\ Seen(t) = Normal(z, p) BY SeenFacts, SeenAppend
<1>2. /\ Quiet(z, D) /\ P \subseteq z.pending /\ z.pending \subseteq P \cup D /\ P \cap D = {}
      /\ P \cup D \subseteq 1..n /\ Told(m) \subseteq (1..n) \ (P \cup D)
  BY DEF Clean
<1>3. Told(t) = Told(m) \cup (IF p.kind = "response" THEN {p.call} ELSE {}) BY ToldAppend
<1> HIDE DEF t, z
<1>4. ASSUME p.kind = "call", p.call \in (1..n) \ (Told(m) \cup D) PROVE Clean(t, P \cup {p.call}, D, n)
  <2>1. Quiet(Seen(t), D) /\ Seen(t).pending = z.pending \cup {p.call} BY <1>1, <1>2, <1>4, QuietStep
  <2> QED BY <1>2, <1>3, <1>4, <2>1 DEF Clean
<1>5. ASSUME p.kind = "response", p.call \in P PROVE Clean(t, P \ {p.call}, D, n)
  <2>1. Quiet(Seen(t), D) /\ Seen(t).pending = z.pending \ {p.call} BY <1>1, <1>2, <1>5, QuietStep
  <2>2. p.call \notin D BY <1>2, <1>5
  <2>3. Told(t) \subseteq (1..n) \ ((P \ {p.call}) \cup D) BY <1>2, <1>3, <1>5, <2>2
  <2> QED BY <1>2, <1>5, <2>1, <2>3 DEF Clean
<1>6. ASSUME p.kind = "text", P = {} PROVE Clean(t, P, D, n)
  <2>1. Quiet(Seen(t), D) /\ Seen(t).pending = {} BY <1>1, <1>2, <1>6, QuietStep
  <2> QED BY <1>2, <1>3, <1>6, <2>1 DEF Clean
<1>7. ASSUME p.kind = "reply" PROVE Clean(t, P, D, n)
  <2>1. Quiet(Seen(t), D) /\ Seen(t).pending = z.pending BY <1>1, <1>2, <1>7, QuietStep
  <2> QED BY <1>2, <1>3, <1>7, <2>1 DEF Clean
<1> QED BY <1>4, <1>5, <1>6, <1>7 DEF t

LEMMA EmptyClean == ASSUME NEW n, NEW D \in SUBSET (1..n) PROVE Clean(<<>>, {}, D, n)
<1>1. /\ Unsent \in SeenRecord /\ ToSet(Unsent.notices) = {} /\ ToSet(Unsent.sent) = {}
      /\ Unsent.orphans = {} /\ Unsent.closed = {} /\ Unsent.pending = {} /\ Unsent.notices = <<>>
  BY EmptyFacts DEF Unsent, SeenRecord
<1>2. Quiet(Unsent, D) BY <1>1 DEF Quiet, SeenOK, Discardable
<1>3. Seen(<<>>) = Unsent /\ Told(<<>>) = {} BY SeenEmpty, EmptyFacts DEF Told
<1> QED BY <1>1, <1>2, <1>3 DEF Clean

\* Calls are let go: they are none that wait to be answered any more.
LEMMA CleanLetGo ==
  ASSUME NEW m, NEW P, NEW D, NEW n, Clean(m, P, D, n), NEW Q \in SUBSET P
  PROVE  Clean(m, Q, D \cup (P \ Q), n)
<1> DEFINE E == D \cup (P \ Q)
<1>1. D \subseteq E OBVIOUS
<1>2. Quiet(Seen(m), E) BY <1>1 DEF Clean, Quiet, CallSet
<1> QED BY <1>2 DEF Clean

LEMMA CleanLater ==
  ASSUME NEW m, NEW P, NEW D, NEW n \in Nat, NEW k \in Nat, n <= k, Clean(m, P, D, n)
  PROVE  Clean(m, P, D, k)
<1>1. 1..n \subseteq 1..k OBVIOUS
<1> QED BY <1>1 DEF Clean

\* Calls that nobody answers may be taken away.
LEMMA QuietWithout ==
  ASSUME ChatClientAssumption, NEW D, NEW C
  PROVE  \A m \in Seq(Prompt) :
           Quiet(Seen(m), D) /\ Told(m) \cap C = {} =>
              LET w == Without(m, CallSet(C)) IN
              Quiet(Seen(w), D) /\ Seen(w).pending = Seen(m).pending \ C
<1> DEFINE K == CallSet(C)
<1> DEFINE Good(m) == Quiet(Seen(m), D) /\ Told(m) \cap C = {} =>
                         /\ Quiet(Seen(Without(m, K)), D)
                         /\ Seen(Without(m, K)).pending = Seen(m).pending \ C
<1> DEFINE T == {m \in Seq(Prompt) : Good(m)}
<1>1. <<>> \in T
  <2>1. Without(<<>>, K) = <<>> /\ <<>> \in Seq(Prompt) BY WithoutEmpty
  <2>2. Seen(<<>>).pending = {} BY SeenEmpty DEF Unsent
  <2> QED BY <2>1, <2>2
<1>2. ASSUME NEW m \in Seq(Prompt), NEW p \in Prompt, m \in T PROVE Append(m, p) \in T
  <2> DEFINE t == Append(m, p)
  <2> DEFINE v == Without(m, K)
  <2> DEFINE w == Without(t, K)
  <2>1. t \in Seq(Prompt) /\ v \in Seq(Prompt) /\ w = Keep(v, p, K) BY AppendFacts, WithoutFacts, WithoutAppend
  <2>2. SeenOK(Seen(m)) /\ SeenOK(Seen(v)) /\ Seen(t) = Normal(Seen(m), p)
        /\ Seen(Append(v, p)) = Normal(Seen(v), p)
    BY <2>1, SeenFacts, SeenAppend
  <2>3. Told(t) = Told(m) \cup (IF p.kind = "response" THEN {p.call} ELSE {}) BY ToldAppend
  <2>4. Good(m) BY <1>2
  <2>5. p \in K <=> p.kind = "call" /\ p.call \in C BY PromptKinds DEF CallSet, Call
  <2> HIDE DEF t, v, w, K
  <2>6. ASSUME Quiet(Seen(t), D), Told(t) \cap C = {}
        PROVE  Quiet(Seen(w), D) /\ Seen(w).pending = Seen(t).pending \ C
    <3>1. /\ Quiet(Seen(m), D) /\ p.kind # "notice"
          /\ p.kind = "response" => p.call \in Seen(m).pending
          /\ p.kind = "text" => Seen(m).pending \subseteq D
      BY <2>2, <2>6, QuietStep
    <3>2. Quiet(Seen(v), D) /\ Seen(v).pending = Seen(m).pending \ C BY <2>3, <2>4, <2>6, <3>1 DEF v
    <3>3. CASE p \in K
      <4>1. w = v BY <2>1, <3>3 DEF Keep
      <4>2. Seen(t).pending = Seen(m).pending \cup {p.call} BY <2>2, <2>5, <3>3, QuietStep
      <4> QED BY <2>5, <3>2, <3>3, <4>1, <4>2
    <3>4. CASE p \notin K
      <4>1. Seen(w) = Normal(Seen(v), p) BY <2>1, <2>2, <3>4 DEF Keep
      <4>2. CASE p.kind = "call"
        <5>1. p.call \notin C BY <2>5, <3>4, <4>2
        <5>2. /\ Quiet(Seen(w), D) /\ Seen(w).pending = Seen(v).pending \cup {p.call}
              /\ Seen(t).pending = Seen(m).pending \cup {p.call}
          BY <2>2, <3>2, <4>1, <4>2, QuietStep
        <5> QED BY <3>2, <5>1, <5>2
      <4>3. CASE p.kind = "response"
        <5>1. p.call \notin C /\ p.call \in Seen(m).pending BY <2>3, <2>6, <3>1, <4>3
        <5>2. p.call \in Seen(v).pending BY <3>2, <5>1
        <5>3. /\ Quiet(Seen(w), D) /\ Seen(w).pending = Seen(v).pending \ {p.call}
              /\ Seen(t).pending = Seen(m).pending \ {p.call}
          BY <2>2, <3>2, <4>1, <4>3, <5>1, <5>2, QuietStep
        <5> QED BY <3>2, <5>3
      <4>4. CASE p.kind = "text"
        <5>1. Seen(v).pending \subseteq D BY <3>1, <3>2, <4>4
        <5>2. Quiet(Seen(w), D) /\ Seen(w).pending = {} /\ Seen(t).pending = {}
          BY <2>2, <3>2, <4>1, <4>4, <5>1, QuietStep
        <5> QED BY <5>2
      <4>5. CASE p.kind = "reply"
        <5>1. /\ Quiet(Seen(w), D) /\ Seen(w).pending = Seen(v).pending /\ Seen(t).pending = Seen(m).pending
          BY <2>2, <3>2, <4>1, <4>5, QuietStep
        <5> QED BY <3>2, <5>1
      <4> QED BY <3>1, <4>2, <4>3, <4>4, <4>5, PromptKinds
    <3> QED BY <3>3, <3>4
  <2>7. Good(t) BY <2>6 DEF w
  <2> HIDE DEF Good
  <2>8. t \in T BY <2>1, <2>7
  <2> QED BY <2>8 DEF t
<1> HIDE DEF T
<1>3. Grows(Prompt, T) BY <1>1, <1>2 DEF Grows
<1>4. \A m \in Seq(Prompt) : m \in T BY <1>3, SeqInduction
<1> QED BY <1>4 DEF T, K

LEMMA CleanWithout ==
  ASSUME ChatClientAssumption, NEW m \in Seq(Prompt), NEW P, NEW D, NEW n, Clean(m, P, D, n),
         NEW K, K \subseteq CallSet(D)
  PROVE  Clean(Without(m, K), P, D, n)
<1> DEFINE C == {c \in D : Call(c) \in K}
<1>1. K = CallSet(C) BY DEF CallSet
<1> DEFINE w == Without(m, K)
<1>2. w \in Seq(Prompt) /\ ToSet(w) \subseteq ToSet(m) BY WithoutFacts
<1>3. Told(w) \subseteq Told(m) BY <1>2 DEF Told
<1>4. Told(m) \cap C = {} BY DEF Clean
<1> HIDE DEF C
<1>5. Quiet(Seen(w), D) /\ Seen(w).pending = Seen(m).pending \ C BY <1>1, <1>4, QuietWithout DEF Clean
<1>6. C \subseteq D BY DEF C
<1> HIDE DEF w
<1> QED BY <1>3, <1>5, <1>6 DEF Clean, w

\* After any prompts that leave the calls of P to wait, ps leaves none but those that
\* were let go, and it has no calls of its own.
Resolves(ps, P) ==
  /\ \A p \in ToSet(ps) : p.kind # "call"
  /\ \A m \in Seq(Prompt), n \in Nat : \A D : Clean(m, P, D, n) => Clean(m \o ps, {}, D, n)

------------------------------------------------------------------------------
\* The results of the calls that are open

OneEach(s, r) == [i \in DOMAIN s |-> <<Response(s[i], r, 1)>>]

LEMMA OneEachFacts ==
  ASSUME NEW r \in Run
  PROVE  \A s \in Seq(CallIds) :
            /\ OneEach(s, r) \in Seq(Seq(Prompt))
            /\ \A c \in CallIds : OneEach(Append(s, c), r) = Append(OneEach(s, r), <<Response(c, r, 1)>>)
<1> SUFFICES ASSUME NEW s \in Seq(CallIds)
             PROVE  /\ OneEach(s, r) \in Seq(Seq(Prompt))
                    /\ \A c \in CallIds :
                          OneEach(Append(s, c), r) = Append(OneEach(s, r), <<Response(c, r, 1)>>)
  OBVIOUS
<1>1. DOMAIN s = 1..Len(s) /\ Len(s) \in Nat /\ \A i \in 1..Len(s) : s[i] \in CallIds BY ElementOfSeq
<1>2. \A c \in CallIds : <<Response(c, r, 1)>> \in Seq(Prompt)
  <2> SUFFICES ASSUME NEW c \in CallIds PROVE <<Response(c, r, 1)>> \in Seq(Prompt) OBVIOUS
  <2>1. Response(c, r, 1) \in Prompt BY PromptTypes
  <2> QED BY <2>1
<1> DEFINE e == OneEach(s, r)
<1>3. e = [i \in 1..Len(s) |-> <<Response(s[i], r, 1)>>] BY <1>1 DEF OneEach
<1>4. e \in Seq(Seq(Prompt)) /\ Len(e) = Len(s) /\ \A i \in 1..Len(s) : e[i] = <<Response(s[i], r, 1)>>
  <2>1. \A i \in 1..Len(s) : <<Response(s[i], r, 1)>> \in Seq(Prompt) BY <1>1, <1>2
  <2> HIDE DEF e
  <2> QED BY <1>1, <1>3, <2>1
<1>5. ASSUME NEW c \in CallIds
      PROVE  OneEach(Append(s, c), r) = Append(OneEach(s, r), <<Response(c, r, 1)>>)
  <2> DEFINE t == Append(s, c)
  <2> DEFINE u == OneEach(t, r)
  <2> DEFINE x == <<Response(c, r, 1)>>
  <2> DEFINE v == Append(e, x)
  <2>1. /\ t \in Seq(CallIds) /\ Len(t) = Len(s) + 1 /\ DOMAIN t = 1..(Len(s) + 1)
        /\ t[Len(s) + 1] = c /\ \A i \in 1..Len(s) : t[i] = s[i]
    BY AppendProperties
  <2> HIDE DEF t
  <2>2. u = [i \in 1..(Len(s) + 1) |-> <<Response(t[i], r, 1)>>] BY <2>1 DEF OneEach
  <2>3. x \in Seq(Prompt) BY <1>2
  <2>4. u[Len(s) + 1] = x BY <1>1, <2>1, <2>2
  <2>5. ASSUME NEW i \in 1..Len(s) PROVE u[i] = e[i]
    <3>1. t[i] = s[i] /\ i \in 1..(Len(s) + 1) BY <1>1, <2>1
    <3>2. u[i] = <<Response(t[i], r, 1)>> BY <2>2, <3>1
    <3>3. e[i] = <<Response(s[i], r, 1)>> BY <1>4
    <3> QED BY <3>1, <3>2, <3>3
  <2> HIDE DEF u, x, e
  <2>6. /\ v \in Seq(Seq(Prompt)) /\ Len(v) = Len(s) + 1 /\ v[Len(s) + 1] = x
        /\ \A i \in 1..Len(s) : v[i] = e[i]
    BY <1>4, <2>3, AppendProperties
  <2> HIDE DEF v
  <2>7. \A i \in 1..(Len(s) + 1) : u[i] \in Seq(Prompt) /\ u[i] = v[i]
    <3> SUFFICES ASSUME NEW i \in 1..(Len(s) + 1) PROVE u[i] \in Seq(Prompt) /\ u[i] = v[i] OBVIOUS
    <3>1. CASE i = Len(s) + 1 BY <2>3, <2>4, <2>6, <3>1
    <3>2. CASE i \in 1..Len(s)
      <4>1. e[i] \in Seq(Prompt) BY <1>4, <3>2, ElementOfSeq
      <4> QED BY <2>5, <2>6, <3>2, <4>1
    <3> QED BY <1>1, <3>1, <3>2
  <2>8. u \in Seq(Seq(Prompt)) /\ Len(u) = Len(s) + 1
    <3>1. DOMAIN u = 1..(Len(s) + 1) /\ u \in [1..(Len(s) + 1) -> Seq(Prompt)] BY <2>2, <2>7
    <3> QED BY <1>1, <3>1
  <2>9. u = v BY <2>6, <2>7, <2>8, SeqEqual
  <2> QED BY <2>9 DEF u, v, t, x, e
<1> QED BY <1>4, <1>5 DEF e

LEMMA OneEachResolves ==
  ASSUME ChatClientAssumption, NEW r \in Run, NEW m \in Seq(Prompt), NEW P, NEW D, NEW n,
         Clean(m, P, D, n)
  PROVE  \A s \in Seq(CallIds) :
           (\A c \in CallIds : Once(s, c)) /\ ToSet(s) \subseteq P =>
              Clean(m \o Messages(OneEach(s, r)), P \ ToSet(s), D, n)
<1> DEFINE ms(s) == Messages(OneEach(s, r))
<1> DEFINE Good(s) == (\A c \in CallIds : Once(s, c)) /\ ToSet(s) \subseteq P =>
                         Clean(m \o ms(s), P \ ToSet(s), D, n)
<1> DEFINE T == {s \in Seq(CallIds) : Good(s)}
<1>1. <<>> \in T
  <2>1. ms(<<>>) = <<>> BY MessagesEmpty DEF OneEach
  <2>2. m \o <<>> = m BY ConcatEmptySeq
  <2>3. P \ ToSet(<<>>) = P BY EmptyFacts
  <2>4. Clean(m \o ms(<<>>), P \ ToSet(<<>>), D, n) BY <2>1, <2>2, <2>3
  <2> QED BY <2>4
<1>2. ASSUME NEW s \in Seq(CallIds), NEW c \in CallIds, s \in T PROVE Append(s, c) \in T
  <2> DEFINE t == Append(s, c)
  <2> DEFINE x == Response(c, r, 1)
  <2>1. t \in Seq(CallIds) /\ ToSet(t) = ToSet(s) \cup {c} BY AppendFacts
  <2>2. x \in Prompt /\ x.kind = "response" /\ x.call = c BY PromptTypes
  <2> HIDE DEF x
  <2>3. OneEach(s, r) \in Seq(Seq(Prompt)) /\ OneEach(t, r) = Append(OneEach(s, r), <<x>>)
    BY OneEachFacts DEF x
  <2>4. <<x>> \in Seq(Prompt) /\ ms(s) \in Seq(Prompt) BY <2>2, <2>3, MessagesFacts
  <2>5. ms(t) = ms(s) \o <<x>> BY <2>3, <2>4, MessagesAppend DEF Join
  <2>6. m \o ms(t) = Append(m \o ms(s), x) /\ m \o ms(s) \in Seq(Prompt)
    <3> HIDE DEF ms
    <3>1. ms(s) \o <<x>> = Append(ms(s), x) BY <2>2, <2>4, AppendIsConcat
    <3>2. m \o Append(ms(s), x) = Append(m \o ms(s), x) BY <2>2, <2>4, ConcatAppend
    <3>3. m \o ms(s) \in Seq(Prompt) BY <2>4, ConcatSet
    <3> QED BY <2>5, <3>1, <3>2, <3>3
  <2>8. ASSUME \A d \in CallIds : Once(t, d), ToSet(t) \subseteq P
        PROVE  Clean(m \o ms(t), P \ ToSet(t), D, n)
    <3>1. \A d \in CallIds : Once(s, d) BY <2>8, OnceAppend
    <3>2. c \notin ToSet(s) BY <2>8, OnceAppend
    <3>3. Good(s) BY <1>2
    <3>4. Clean(m \o ms(s), P \ ToSet(s), D, n) BY <2>1, <2>8, <3>1, <3>3
    <3>5. c \in P \ ToSet(s) BY <2>1, <2>8, <3>2
    <3>6. Clean(Append(m \o ms(s), x), (P \ ToSet(s)) \ {c}, D, n)
      <4> DEFINE y == m \o ms(s)
      <4> DEFINE Q == P \ ToSet(s)
      <4>1. y \in Seq(Prompt) /\ Clean(y, Q, D, n) /\ x.call \in Q BY <2>2, <2>6, <3>4, <3>5
      <4> HIDE DEF y, Q
      <4>2. Clean(Append(y, x), Q \ {x.call}, D, n) BY <2>2, <4>1, CleanSteps
      <4> QED BY <2>2, <4>2 DEF y, Q
    <3>7. (P \ ToSet(s)) \ {c} = P \ ToSet(t) BY <2>1
    <3> QED BY <2>6, <3>6, <3>7
  <2>9. Good(t) BY <2>8
  <2> HIDE DEF Good, t
  <2>10. t \in T BY <2>1, <2>9
  <2> QED BY <2>10 DEF t
<1> HIDE DEF T
<1>3. Grows(CallIds, T) BY <1>1, <1>2 DEF Grows
<1>4. \A s \in Seq(CallIds) : s \in T BY <1>3, SeqInduction
<1> QED BY <1>4 DEF T

OpenInOrder == Without([c \in 1..calls |-> c], (1..calls) \ open)

LEMMA OpenInOrderFacts ==
  ASSUME ChatClientAssumption, calls \in 0..MaxCalls, open \subseteq 1..calls
  PROVE  /\ OpenInOrder \in Seq(CallIds) /\ ToSet(OpenInOrder) = open
         /\ \A c \in CallIds : Once(OpenInOrder, c)
<1> DEFINE all == [c \in 1..calls |-> c]
<1>1. calls \in Nat /\ \A c \in 1..calls : c \in CallIds BY DEF ChatClientAssumption, CallIds
<1>2. all \in Seq(CallIds) /\ DOMAIN all = 1..calls /\ \A c \in 1..calls : all[c] = c BY <1>1
<1>3. OpenInOrder = Without(all, (1..calls) \ open) BY DEF OpenInOrder
<1> HIDE DEF all
<1>4. \A c \in CallIds : Once(all, c) BY <1>2 DEF Once
<1>5. ToSet(all) = 1..calls BY <1>2 DEF ToSet
<1> DEFINE D == (1..calls) \ open
<1>6. D = (1..calls) \ open OBVIOUS
<1> HIDE DEF D
<1>7. Without(all, D) \in Seq(CallIds) /\ ToSet(Without(all, D)) = (1..calls) \ D
  BY <1>2, <1>5, WithoutFacts
<1>8. \A c \in CallIds : Once(Without(all, D), c) BY <1>2, <1>4, WithoutOnce
<1>9. (1..calls) \ D = open BY <1>6
<1> QED BY <1>3, <1>7, <1>8, <1>9 DEF D

LEMMA ResultsFacts ==
  ASSUME ChatClientAssumption, calls \in 0..MaxCalls, open \subseteq 1..calls,
         NEW r \in Run, NEW forced \in BOOLEAN
  PROVE  /\ Results(r, forced) \in Seq(Prompt)
         /\ \A p \in ToSet(Results(r, forced)) :
              p.kind = "response" /\ p.run = r /\ Once(Results(r, forced), p)
         /\ Results(r, forced) = <<>> => open = {}
         /\ ~forced => Results(r, forced) = Messages(OneEach(OpenInOrder, r))
<1> DEFINE s == OpenInOrder
<1> DEFINE e(i) == IF forced THEN <<Response(s[i], r, 1), Response(s[i], r, 2)>>
                   ELSE <<Response(s[i], r, 1)>>
<1> DEFINE all == [i \in DOMAIN s |-> e(i)]
<1>1. s \in Seq(CallIds) /\ ToSet(s) = open /\ \A c \in CallIds : Once(s, c) BY OpenInOrderFacts
<1>2. Results(r, forced) = Messages(all) BY DEF Results, OpenInOrder
<1>3. ~forced => all = OneEach(s, r) BY DEF OneEach
<1> HIDE DEF s
<1>4. DOMAIN s = 1..Len(s) /\ Len(s) \in Nat /\ \A i \in 1..Len(s) : s[i] \in CallIds
  BY <1>1, ElementOfSeq
<1>5. ASSUME NEW i \in 1..Len(s)
      PROVE  /\ e(i) \in Seq(Prompt)
             /\ \A p \in ToSet(e(i)) : p.kind = "response" /\ p.run = r /\ p.call = s[i]
             /\ \A p : Once(e(i), p)
             /\ Response(s[i], r, 1) \in ToSet(e(i))
  <2> DEFINE a == Response(s[i], r, 1)
  <2> DEFINE b == Response(s[i], r, 2)
  <2>1. /\ a \in Prompt /\ a.kind = "response" /\ a.run = r /\ a.call = s[i]
        /\ b \in Prompt /\ b.kind = "response" /\ b.run = r /\ b.call = s[i] /\ a # b
    BY <1>4, PromptTypes DEF Response
  <2>2. e(i) = IF forced THEN <<a, b>> ELSE <<a>> OBVIOUS
  <2> HIDE DEF a, b, e
  <2>3. <<a, b>> \in Seq(Prompt) /\ ToSet(<<a, b>>) = {a, b} BY <2>1 DEF ToSet
  <2>4. <<a>> \in Seq(Prompt) /\ ToSet(<<a>>) = {a} BY <2>1 DEF ToSet
  <2>5. /\ e(i) \in Seq(Prompt)
        /\ \A p \in ToSet(e(i)) : p.kind = "response" /\ p.run = r /\ p.call = s[i]
        /\ a \in ToSet(e(i))
    BY <2>1, <2>2, <2>3, <2>4
  <2>6. \A p : Once(<<a, b>>, p) /\ Once(<<a>>, p) BY <2>1 DEF Once
  <2> QED BY <2>2, <2>5, <2>6 DEF a
<1> HIDE DEF e
<1>6. all \in Seq(Seq(Prompt)) /\ DOMAIN all = 1..Len(s) /\ \A i \in 1..Len(s) : all[i] = e(i)
  <2>1. all \in [1..Len(s) -> Seq(Prompt)] BY <1>4, <1>5
  <2>2. \A i \in 1..Len(s) : all[i] = e(i) BY <1>4
  <2> HIDE DEF all
  <2> QED BY <1>4, <2>1, <2>2
<1> HIDE DEF all
<1>7. /\ Messages(all) \in Seq(Prompt)
      /\ \A y : y \in ToSet(Messages(all)) <=> \E q \in ToSet(all) : y \in ToSet(q)
  BY <1>6, MessagesFacts
<1>8. \A q \in ToSet(all) : \E i \in 1..Len(s) : q = e(i) BY <1>6 DEF ToSet
<1>9. \A p \in ToSet(Messages(all)) : p.kind = "response" /\ p.run = r BY <1>5, <1>7, <1>8
<1>10. ASSUME NEW p \in ToSet(Messages(all)) PROVE Once(Messages(all), p)
  <2>1. ASSUME NEW i \in 1..Len(s), NEW j \in 1..Len(s), p \in ToSet(all[i]), p \in ToSet(all[j]) PROVE i = j
    <3>1. s[i] = p.call /\ s[j] = p.call BY <1>5, <1>6, <2>1
    <3>2. Once(s, p.call) BY <1>1, <1>4, <3>1
    <3> QED BY <1>4, <3>1, <3>2 DEF Once
  <2>2. \A i \in 1..Len(s) : Once(all[i], p) BY <1>5, <1>6
  <2>3. Len(all) = Len(s) BY <1>4, <1>6
  <2> QED BY <1>6, <2>1, <2>2, <2>3, MessagesOnce
<1>11. ASSUME open # {} PROVE Messages(all) # <<>>
  <2>1. PICK i \in 1..Len(s) : TRUE BY <1>1, <1>4, <1>11 DEF ToSet
  <2>2. e(i) \in ToSet(all) BY <1>6, <2>1 DEF ToSet
  <2>3. Response(s[i], r, 1) \in ToSet(Messages(all)) BY <1>5, <1>7, <2>1, <2>2
  <2> QED BY <2>3, EmptyFacts
<1> QED BY <1>2, <1>3, <1>7, <1>9, <1>10, <1>11 DEF s

\* What a run sets out to say answers the calls that are open, each once.
LEMMA QuestionResolves ==
  ASSUME ChatClientAssumption, calls \in 0..MaxCalls, open \subseteq 1..calls,
         NEW r \in Run, NEW forced \in BOOLEAN, forced => Results(r, forced) = <<>>,
         NEW words, words = <<>> \/ words = <<Text(r)>>
  PROVE  Resolves(Question(Results(r, forced), words), open)
<1> DEFINE rs == Results(r, forced)
<1> DEFINE o == OpenInOrder
<1>1. rs \in Seq(Prompt) BY ResultsFacts
<1>2. o \in Seq(CallIds) /\ ToSet(o) = open /\ \A c \in CallIds : Once(o, c) BY OpenInOrderFacts
<1>0. \A p \in ToSet(rs \o words) : p.kind # "call"
  <2>1. \A p \in ToSet(rs) : p.kind = "response" BY ResultsFacts
  <2>2. words \in Seq(Prompt) /\ \A p \in ToSet(words) : p.kind = "text"
    <3> DEFINE x == Text(r)
    <3>1. x \in Prompt /\ x.kind = "text" BY PromptTypes
    <3> HIDE DEF x
    <3>2. <<x>> \in Seq(Prompt) /\ ToSet(<<x>>) = {x} BY <3>1 DEF ToSet
    <3> QED BY <3>1, <3>2, EmptyFacts DEF x
  <2> HIDE DEF rs
  <2>3. ToSet(rs \o words) = ToSet(rs) \cup ToSet(words) BY <1>1, <2>2, ConcatSet
  <2> QED BY <2>1, <2>2, <2>3
<1> SUFFICES ASSUME NEW m \in Seq(Prompt), NEW n \in Nat, NEW D, Clean(m, open, D, n)
             PROVE  Clean(m \o (rs \o words), {}, D, n)
  BY <1>0 DEF Resolves, Question
<1>3. Clean(m \o rs, {}, D, n)
  <2>1. CASE ~forced
    <3>1. rs = Messages(OneEach(o, r)) BY <2>1, ResultsFacts
    <3> HIDE DEF o, rs
    <3>2. Clean(m \o Messages(OneEach(o, r)), open \ ToSet(o), D, n) BY <1>2, OneEachResolves
    <3>3. open \ ToSet(o) = {} BY <1>2
    <3> QED BY <3>1, <3>2, <3>3
  <2>2. CASE forced
    <3>1. rs = <<>> /\ open = {} BY <2>2, ResultsFacts
    <3>2. m \o rs = m BY <3>1, ConcatEmptySeq
    <3> QED BY <3>1, <3>2
  <2> QED BY <2>1, <2>2
<1> HIDE DEF rs
<1> DEFINE y == m \o rs
<1>4. y \in Seq(Prompt) /\ Clean(y, {}, D, n) BY <1>1, <1>3, ConcatSet
<1>5. CASE words = <<>>
  <2>1. rs \o words = rs BY <1>1, <1>5, ConcatEmptySeq
  <2> QED BY <1>3, <2>1
<1>6. CASE words = <<Text(r)>>
  <2> DEFINE x == Text(r)
  <2>1. x \in Prompt /\ x.kind = "text" BY PromptTypes
  <2> HIDE DEF x
  <2>2. rs \o <<x>> = Append(rs, x) /\ m \o Append(rs, x) = Append(m \o rs, x)
    BY <1>1, <2>1, AppendIsConcat, ConcatAppend
  <2>3. m \o (rs \o words) = Append(y, x) BY <1>6, <2>2 DEF x
  <2> HIDE DEF y
  <2>4. Clean(Append(y, x), {}, D, n) BY <1>4, <2>1, CleanSteps
  <2> QED BY <2>3, <2>4
<1> QED BY <1>5, <1>6

------------------------------------------------------------------------------
\* The type invariant, in three parts

Requests == [run : Run, ask : Nat]
UnderWay ==
  [run : Run, ask : Nat, prompts : Seq(Prompt), shared : BOOLEAN, discards : SUBSET Prompt,
   notices : Seq(Prompt)]
Jobs == [prompts : Seq(Prompt), ask : Nat, tries : Nat, got : SUBSET CallIds, asked : SUBSET Mark,
         away : SUBSET CallIds]
Places == {"new", "ask", "asking", "compressing", "nothing", "answered", "done"}

ClientOK ==
  /\ context \in Rounds(Prompt) /\ queue \in Seq(Requests)
  /\ worker = Idle \/ worker \in UnderWay
  /\ payload \in Seq(Sent)

JobsOK ==
  /\ job \in [Run -> Jobs] /\ pc \in [Run -> Places]
  /\ \A r \in Run : /\ job[r].got \subseteq 1..calls /\ job[r].away \subseteq 1..calls
                    /\ pc[r] \in {"new", "done"} => job[r] = NoJob
                    /\ pc[r] \in {"asking", "nothing"} => job[r].tries > 0

CountsOK ==
  /\ open \subseteq 1..calls /\ abandoned \subseteq 1..calls /\ calls \in 0..MaxCalls
  /\ interrupts \in 0..MaxInterrupts /\ faults \in 0..MaxFaults
  /\ react \in Nat /\ failures \in Nat
  /\ said \subseteq Mark /\ lost \subseteq Mark
FlagsOK ==
  /\ first \in BOOLEAN /\ gate \in BOOLEAN /\ suspending \in BOOLEAN
  /\ late \in BOOLEAN /\ unusual \in BOOLEAN

LEMMA TypeParts == TypeOK <=> ClientOK /\ JobsOK /\ CountsOK /\ FlagsOK
<1>1. (\A b \in {first, gate, suspending, late, unusual} : b \in BOOLEAN) <=> FlagsOK BY DEF FlagsOK
<1> QED BY <1>1 DEF TypeOK, ClientOK, JobsOK, CountsOK, Rounds, Requests, UnderWay, Jobs, Places

LEMMA TypePartsNext == TypeOK' <=> ClientOK' /\ JobsOK' /\ CountsOK' /\ FlagsOK'
<1>1. (\A b \in {first', gate', suspending', late', unusual'} : b \in BOOLEAN) <=> FlagsOK' BY DEF FlagsOK
<1> QED BY <1>1 DEF TypeOK, ClientOK, JobsOK, CountsOK, Rounds, Requests, UnderWay, Jobs, Places

LEMMA NoJobType == NoJob \in Jobs /\ NoJob.got = {} /\ NoJob.away = {}
<1>1. <<>> \in Seq(Prompt) OBVIOUS
<1> QED BY <1>1 DEF NoJob, Jobs

LEMMA TypeInit == ASSUME ChatClientAssumption, Init PROVE TypeOK
<1>1. ClientOK BY DEF Init, ClientOK, Rounds
<1>2. JobsOK BY NoJobType DEF Init, JobsOK, Places
<1>3. CountsOK BY DEF Init, CountsOK, ChatClientAssumption
<1>4. FlagsOK BY DEF Init, FlagsOK
<1> QED BY <1>1, <1>2, <1>3, <1>4, TypeParts

\* One run changes its place and its job.
LEMMA JobsStep ==
  ASSUME JobsOK, NEW r \in Run, NEW j \in Jobs, NEW place \in Places,
         job' = [job EXCEPT ![r] = j], Goto(r, place),
         calls \in Nat, calls' \in Nat, calls <= calls', j.got \subseteq 1..calls', j.away \subseteq 1..calls',
         place \in {"new", "done"} => j = NoJob,
         place \in {"asking", "nothing"} => j.tries > 0
  PROVE  JobsOK'
<1>1. job' \in [Run -> Jobs] /\ pc' \in [Run -> Places] BY DEF JobsOK, Goto
<1>2. ASSUME NEW q \in Run
      PROVE  /\ job'[q].got \subseteq 1..calls' /\ job'[q].away \subseteq 1..calls'
             /\ pc'[q] \in {"new", "done"} => job'[q] = NoJob
             /\ pc'[q] \in {"asking", "nothing"} => job'[q].tries > 0
  <2>1. CASE q = r
    <3>1. job'[q] = j /\ pc'[q] = place BY <2>1 DEF JobsOK, Goto
    <3> QED BY <3>1
  <2>2. CASE q # r
    <3>1. job'[q] = job[q] /\ pc'[q] = pc[q] BY <2>2 DEF JobsOK, Goto
    <3>2. 1..calls \subseteq 1..calls' OBVIOUS
    <3> QED BY <3>1, <3>2 DEF JobsOK
  <2> QED BY <2>1, <2>2
<1> QED BY <1>1, <1>2 DEF JobsOK

LEMMA LeaveStep ==
  ASSUME JobsOK, NEW r \in Run, Goto(r, "done"), job' = [job EXCEPT ![r] = NoJob],
         calls \in Nat, calls' = calls
  PROVE  JobsOK'
<1>1. NoJob \in Jobs /\ NoJob.got \subseteq 1..calls' /\ NoJob.away \subseteq 1..calls' /\ "done" \in Places
  BY NoJobType DEF Places
<1>2. calls' \in Nat /\ calls <= calls' OBVIOUS
<1>3. "done" \in {"asking", "nothing"} => NoJob.tries > 0 OBVIOUS
<1> QED BY <1>1, <1>2, <1>3, JobsStep

LEMMA GotoStep ==
  ASSUME JobsOK, NEW r \in Run, NEW place \in Places \ {"new", "done"}, Goto(r, place), job' = job,
         calls \in Nat, calls' = calls, place \in {"asking", "nothing"} => job[r].tries > 0
  PROVE  JobsOK'
<1>1. /\ job' = [job EXCEPT ![r] = job[r]] /\ job[r] \in Jobs
      /\ job[r].got \subseteq 1..calls' /\ job[r].away \subseteq 1..calls'
  BY DEF JobsOK
<1>2. calls' \in Nat /\ calls <= calls' OBVIOUS
<1>3. place \in Places /\ (place \in {"new", "done"} => job[r] = NoJob) OBVIOUS
<1> QED BY <1>1, <1>2, <1>3, JobsStep

LEMMA AgainStep ==
  ASSUME JobsOK, FlagsOK, failures \in Nat, NEW r \in Run, Again(r), calls \in Nat, calls' = calls
  PROVE  JobsOK' /\ gate' \in BOOLEAN /\ failures' \in Nat
<1>1. CASE job[r].tries < MaxAsks /\ ~suspending
  <2>1. Goto(r, "ask") /\ job' = job /\ gate' = gate /\ failures' = failures BY <1>1 DEF Again
  <2>2. "ask" \in Places \ {"new", "done"} /\ "ask" \notin {"asking", "nothing"} BY DEF Places
  <2> QED BY <2>1, <2>2, GotoStep DEF FlagsOK
<1>2. CASE ~(job[r].tries < MaxAsks /\ ~suspending)
  <2>1. Leave(r) /\ failures' = IF suspending THEN failures ELSE failures + 1 BY <1>2 DEF Again
  <2>2. JobsOK' /\ gate' = TRUE BY <2>1, LeaveStep DEF Leave
  <2> QED BY <2>1, <2>2
<1> QED BY <1>1, <1>2

LEMMA CountFaultStep ==
  ASSUME ChatClientAssumption, CountFault, faults \in 0..MaxFaults PROVE faults' \in 0..MaxFaults
  BY DEF CountFault, ChatClientAssumption

\* What a run sets out to say
LEMMA QuestionFacts ==
  ASSUME ChatClientAssumption, CountsOK, NEW r \in Run, NEW forced \in BOOLEAN,
         NEW results, results = <<>> \/ results = Results(r, forced),
         NEW words, words = <<>> \/ words = <<Text(r)>>
  PROVE  /\ Question(results, words) \in Seq(Prompt)
         /\ ToSet(Question(results, words)) = ToSet(results) \cup ToSet(words)
         /\ results \in Seq(Prompt) /\ \A p \in ToSet(results) : p.kind = "response"
         /\ words \in Seq(Prompt) /\ ToSet(words) \subseteq {Text(r)}
<1>1. results \in Seq(Prompt) /\ \A p \in ToSet(results) : p.kind = "response"
  <2>1. CASE results = <<>> BY <2>1, EmptyFacts
  <2>2. CASE results = Results(r, forced)
    <3>1. Results(r, forced) \in Seq(Prompt) /\ \A p \in ToSet(Results(r, forced)) : p.kind = "response"
      BY ResultsFacts DEF CountsOK
    <3> QED BY <2>2, <3>1
  <2> QED BY <2>1, <2>2
<1>2. words \in Seq(Prompt) /\ ToSet(words) \subseteq {Text(r)}
  <2> DEFINE x == Text(r)
  <2>1. x \in Prompt BY PromptTypes
  <2> HIDE DEF x
  <2>2. <<x>> \in Seq(Prompt) /\ ToSet(<<x>>) = {x} BY <2>1 DEF ToSet
  <2> QED BY <2>2, EmptyFacts DEF x
<1> QED BY <1>1, <1>2, ConcatSet DEF Question

------------------------------------------------------------------------------
\* The actions of a run keep the types.

LEMMA TypeBegin ==
  ASSUME ChatClientAssumption, TypeOK, NEW r \in Run, Begin(r) PROVE TypeOK'
<1>1. ClientOK /\ JobsOK /\ CountsOK /\ FlagsOK BY TypeParts
<1>2. calls' = calls /\ calls \in Nat BY <1>1 DEF Begin, CountsOK
<1>3. PICK speaks \in BOOLEAN :
        LET forced == Times(r) >= ReactLimit - 1
            listed == RollsBack /\ open # {}
            results == IF RollsBack THEN <<>> ELSE Results(r, forced)
            words == IF speaks \/ listed THEN <<Text(r)>> ELSE <<>>
            new == Question(results, words)
        IN  /\ IF new = <<>> \/ Times(r) >= ReactLimit
               THEN Leave(r)
               ELSE /\ Goto(r, "ask") /\ gate' = FALSE
                    /\ job' = [job EXCEPT ![r] = [NoJob EXCEPT !.prompts = new, !.asked = Marks(new)]]
            /\ unusual' = (unusual \/ RollsBack \/ (forced /\ results # <<>>)
                                   \/ \E s \in Run : Inside(s))
  BY DEF Begin
<1> DEFINE forced == Times(r) >= ReactLimit - 1
<1> DEFINE results == IF RollsBack THEN <<>> ELSE Results(r, forced)
<1> DEFINE words == IF speaks \/ (RollsBack /\ open # {}) THEN <<Text(r)>> ELSE <<>>
<1> DEFINE new == Question(results, words)
<1> DEFINE j == [NoJob EXCEPT !.prompts = new, !.asked = Marks(new)]
<1>4. \/ Leave(r)
      \/ Goto(r, "ask") /\ gate' = FALSE /\ job' = [job EXCEPT ![r] = j]
  BY <1>3
<1>5. unusual' \in BOOLEAN BY <1>3
<1>6. new \in Seq(Prompt)
  <2>1. results = <<>> \/ results = Results(r, forced) OBVIOUS
  <2>2. words = <<>> \/ words = <<Text(r)>> OBVIOUS
  <2>3. forced \in BOOLEAN OBVIOUS
  <2> HIDE DEF results, words, forced
  <2> QED BY <1>1, <2>1, <2>2, <2>3, QuestionFacts
<1> HIDE DEF new
<1>7. j \in Jobs /\ j.got = {} /\ j.away = {} BY <1>6, NoJobType, MarksType DEF Jobs, NoJob
<1> HIDE DEF j
<1>8. JobsOK' /\ gate' \in BOOLEAN
  <2>1. CASE Leave(r) BY <1>1, <1>2, <2>1, LeaveStep DEF Leave
  <2>2. CASE Goto(r, "ask") /\ gate' = FALSE /\ job' = [job EXCEPT ![r] = j]
    <3>1. "ask" \in Places \ {"new", "done"} /\ "ask" \notin {"asking", "nothing"} BY DEF Places
    <3>2. calls' \in Nat /\ calls <= calls' /\ j.got \subseteq 1..calls' /\ j.away \subseteq 1..calls' BY <1>2, <1>7
    <3>3. JobsOK' BY <1>1, <1>2, <1>7, <2>2, <3>1, <3>2, JobsStep
    <3> QED BY <2>2, <3>3
  <2> QED BY <1>4, <2>1, <2>2
<1>9. /\ context' \in Rounds(Prompt) /\ open' \subseteq 1..calls
      /\ failures' \in Nat /\ said' \subseteq Mark
  <2>1. CASE RollsBack
    <3>1. /\ context' = Front(context) /\ open' = {} /\ failures' = 0 /\ said' \subseteq said
          /\ context # <<>>
      BY <2>1 DEF Begin, RollsBack
    <3> DEFINE R == Seq(Prompt) \ {<<>>}
    <3>2. context \in Seq(R) BY <1>1 DEF ClientOK, Rounds
    <3> HIDE DEF R
    <3>3. Front(context) \in Seq(R) BY <3>1, <3>2, FrontLast
    <3>4. context' \in Rounds(Prompt) BY <3>1, <3>3 DEF Rounds, R
    <3> QED BY <1>1, <3>1, <3>4 DEF CountsOK
  <2>2. CASE ~RollsBack
    <3>1. context' = context /\ open' = open /\ failures' = failures /\ said' = said BY <2>2 DEF Begin
    <3> QED BY <1>1, <3>1 DEF CountsOK, ClientOK
  <2> QED BY <2>1, <2>2
<1>10. react' \in Nat BY <1>1 DEF Begin, Times, CountsOK
<1>11. suspending' \in BOOLEAN BY DEF Begin
<1>12. ClientOK' BY <1>1, <1>9 DEF Begin, ClientOK
<1>13. CountsOK' BY <1>1, <1>2, <1>9, <1>10 DEF Begin, CountsOK
<1>14. FlagsOK' BY <1>1, <1>5, <1>8, <1>11 DEF Begin, FlagsOK
<1> QED BY <1>8, <1>12, <1>13, <1>14, TypePartsNext

LEMMA TypeAsk ==
  ASSUME ChatClientAssumption, TypeOK, NEW r \in Run, Ask(r) PROVE TypeOK'
<1>1. ClientOK /\ JobsOK /\ CountsOK /\ FlagsOK BY TypeParts
<1> DEFINE j == [job[r] EXCEPT !.tries = @ + 1, !.ask = @ + 1]
<1>2. job[r] \in Jobs /\ job[r].got \subseteq 1..calls /\ job[r].away \subseteq 1..calls BY <1>1 DEF JobsOK
<1>3. job' = [job EXCEPT ![r] = j] /\ Goto(r, "asking") BY <1>1 DEF Ask, JobsOK
<1>4. j \in Jobs /\ j.got = job[r].got /\ j.away = job[r].away /\ j.tries > 0 /\ j.ask \in Nat
  <2> DEFINE x == job[r]
  <2>1. x \in Jobs BY <1>2
  <2> HIDE DEF x
  <2>2. x.tries + 1 \in Nat /\ x.tries + 1 > 0 /\ x.ask + 1 \in Nat BY <2>1 DEF Jobs
  <2> DEFINE y == [x EXCEPT !.tries = x.tries + 1, !.ask = x.ask + 1]
  <2>3. y \in Jobs /\ y.got = x.got /\ y.away = x.away /\ y.tries = x.tries + 1 /\ y.ask = x.ask + 1
    BY <2>1, <2>2 DEF Jobs
  <2>4. j = y BY DEF x
  <2> QED BY <2>2, <2>3, <2>4 DEF x
<1>5. job'[r].ask = j.ask BY <1>1, <1>3 DEF JobsOK
<1> HIDE DEF j
<1>6. JobsOK'
  <2>1. /\ calls \in Nat /\ calls' \in Nat /\ calls <= calls'
        /\ j.got \subseteq 1..calls' /\ j.away \subseteq 1..calls'
    BY <1>1, <1>2, <1>4 DEF Ask, CountsOK
  <2>2. "asking" \in Places \ {"new", "done"} BY DEF Places
  <2> QED BY <1>1, <1>3, <1>4, <2>1, <2>2, JobsStep
<1>7. queue' \in Seq(Requests)
  <2> DEFINE q == [run |-> r, ask |-> job'[r].ask]
  <2>1. q \in Requests BY <1>4, <1>5 DEF Requests
  <2>2. queue' = Append(queue, q) BY DEF Ask
  <2> HIDE DEF q
  <2> QED BY <1>1, <2>1, <2>2, AppendFacts DEF ClientOK
<1>8. ClientOK' BY <1>1, <1>7 DEF Ask, ClientOK
<1>9. CountsOK' BY <1>1 DEF Ask, CountsOK, agent, history
<1>10. FlagsOK' BY <1>1 DEF Ask, FlagsOK, agent, history
<1> QED BY <1>6, <1>8, <1>9, <1>10, TypePartsNext

LEMMA OneText ==
  ASSUME NEW r \in Run
  PROVE  /\ <<Text(r)>> \in Seq(Prompt) /\ ToSet(<<Text(r)>>) = {Text(r)}
         /\ {<<"run", r>>} \subseteq Mark /\ <<"run", r>> \in Marks(<<Text(r)>>)
         /\ Once(<<Text(r)>>, Text(r))
<1> DEFINE x == Text(r)
<1>1. x \in Prompt /\ x.kind = "text" /\ x.run = r BY PromptTypes
<1> HIDE DEF x
<1>2. <<x>> \in Seq(Prompt) /\ ToSet(<<x>>) = {x} /\ Once(<<x>>, x) BY <1>1 DEF ToSet, Once
<1>3. <<"run", r>> \in Marked(x) BY <1>1 DEF Marked
<1>4. <<"run", r>> \in Marks(<<x>>) BY <1>2, <1>3, MarksAre
<1> QED BY <1>2, <1>4 DEF x, Mark

LEMMA NotShared ==
  ASSUME NEW A, NEW B, NEW C, NEW D, NEW E, NEW F,
         NEW w \in [run : A, ask : B, prompts : C, shared : D, discards : E, notices : F],
         w.shared = FALSE
  PROVE  [w EXCEPT !.shared = FALSE] = w
OBVIOUS

LEMMA TypeOverflow ==
  ASSUME ChatClientAssumption, TypeOK, NEW r \in Run, Overflow(r) PROVE TypeOK'
<1>1. ClientOK /\ JobsOK /\ CountsOK /\ FlagsOK BY TypeParts
<1> DEFINE j == [job[r] EXCEPT !.tries = @ + 1, !.prompts = <<Text(r)>>, !.asked = {<<"run", r>>},
                               !.away = open]
<1>2. job[r] \in Jobs /\ job[r].got \subseteq 1..calls BY <1>1 DEF JobsOK
<1>0. open \subseteq 1..calls /\ 1..calls \subseteq CallIds BY <1>1 DEF CountsOK, CallIds
<1>3. job' = [job EXCEPT ![r] = j] /\ Goto(r, "compressing") BY <1>1 DEF Overflow, JobsOK
<1>4. j \in Jobs /\ j.got = job[r].got /\ j.away = open
  <2> DEFINE x == job[r]
  <2> DEFINE t == <<Text(r)>>
  <2> DEFINE a == {<<"run", r>>}
  <2>1. x \in Jobs /\ t \in Seq(Prompt) /\ a \subseteq Mark /\ open \subseteq CallIds BY <1>0, <1>2, OneText
  <2>2. j = [x EXCEPT !.tries = x.tries + 1, !.prompts = t, !.asked = a, !.away = open] OBVIOUS
  <2> HIDE DEF x, t, a, j
  <2>3. x.tries + 1 \in Nat BY <2>1 DEF Jobs
  <2>4. j \in Jobs /\ j.got = x.got /\ j.away = open BY <2>1, <2>2, <2>3 DEF Jobs
  <2> QED BY <2>4 DEF x
<1> HIDE DEF j
<1>5. JobsOK'
  <2>1. /\ calls \in Nat /\ calls' \in Nat /\ calls <= calls'
        /\ j.got \subseteq 1..calls' /\ j.away \subseteq 1..calls'
    BY <1>0, <1>1, <1>2, <1>4 DEF Overflow, CountsOK
  <2>2. "compressing" \in Places \ {"new", "done"} /\ "compressing" \notin {"asking", "nothing"} BY DEF Places
  <2> QED BY <1>1, <1>3, <1>4, <2>1, <2>2, JobsStep
<1>6. worker' = Idle \/ worker' \in UnderWay
  <2>1. worker' = worker \/ worker' = [worker EXCEPT !.shared = FALSE] BY DEF Overflow
  <2>2. CASE worker = Idle
    <3>1. Idle \in [run : {"none"}, ask : {0}, prompts : {<<>>}, shared : {FALSE}, discards : {{}},
                    notices : {<<>>}] /\ Idle.shared = FALSE
      BY DEF Idle
    <3>2. [Idle EXCEPT !.shared = FALSE] = Idle BY <3>1, NotShared
    <3> QED BY <2>1, <2>2, <3>2
  <2>3. CASE worker \in UnderWay
    <3>1. [worker EXCEPT !.shared = FALSE] \in UnderWay BY <2>3 DEF UnderWay
    <3> QED BY <2>1, <2>3, <3>1
  <2> QED BY <1>1, <2>2, <2>3 DEF ClientOK
<1>7. ClientOK' BY <1>1, <1>6 DEF Overflow, ClientOK
<1>8. CountsOK'
  <2>1. faults' \in 0..MaxFaults BY <1>1, CountFaultStep DEF Overflow, CountsOK
  <2> QED BY <1>1, <2>1 DEF Overflow, CountsOK, history
<1>9. FlagsOK' BY <1>1 DEF Overflow, FlagsOK, history
<1> QED BY <1>5, <1>7, <1>8, <1>9, TypePartsNext

LEMMA TypeCompressed ==
  ASSUME ChatClientAssumption, TypeOK, NEW r \in Run, Compressed(r) PROVE TypeOK'
<1>1. ClientOK /\ JobsOK /\ CountsOK /\ FlagsOK BY TypeParts
<1>2. JobsOK' /\ gate' \in BOOLEAN /\ failures' \in Nat BY <1>1, AgainStep DEF Compressed, CountsOK
<1>3. <<>> \in Rounds(Prompt) BY DEF Rounds
<1>4. ClientOK' BY <1>1, <1>3 DEF Compressed, Replaced, ClientOK
<1>5. CountsOK' BY <1>1, <1>2 DEF Compressed, Replaced, CountsOK
<1>6. FlagsOK' BY <1>1, <1>2 DEF Compressed, FlagsOK
<1> QED BY <1>2, <1>4, <1>5, <1>6, TypePartsNext

LEMMA TypeCompressionFails ==
  ASSUME ChatClientAssumption, TypeOK, NEW r \in Run, CompressionFails(r) PROVE TypeOK'
<1>1. ClientOK /\ JobsOK /\ CountsOK /\ FlagsOK BY TypeParts
<1>2. JobsOK' /\ gate' = TRUE
  <2>1. Goto(r, "done") /\ gate' = TRUE /\ job' = [job EXCEPT ![r] = NoJob] /\ calls' = calls
    BY DEF CompressionFails, Leave
  <2>2. calls \in Nat BY <1>1 DEF CountsOK
  <2> QED BY <1>1, <2>1, <2>2, LeaveStep
<1>3. faults' \in 0..MaxFaults BY <1>1, CountFaultStep DEF CompressionFails, CountsOK
<1>4. context' \in Rounds(Prompt) /\ said' \subseteq Mark /\ abandoned' \subseteq 1..calls
  <2>1. job[r].away \subseteq 1..calls BY <1>1 DEF JobsOK
  <2>2. <<>> \in Rounds(Prompt) BY DEF Rounds
  <2> QED BY <1>1, <2>1, <2>2 DEF CompressionFails, Replaced, ClientOK, CountsOK
<1>5. ClientOK' BY <1>1, <1>4 DEF CompressionFails, ClientOK
<1>6. CountsOK' BY <1>1, <1>3, <1>4 DEF CompressionFails, CountsOK
<1>7. FlagsOK' BY <1>1, <1>2 DEF CompressionFails, FlagsOK
<1> QED BY <1>2, <1>5, <1>6, <1>7, TypePartsNext

LEMMA TypeUnanswered ==
  ASSUME ChatClientAssumption, TypeOK, NEW r \in Run, Unanswered(r) PROVE TypeOK'
<1>1. ClientOK /\ JobsOK /\ CountsOK /\ FlagsOK BY TypeParts
<1>2. JobsOK' /\ gate' \in BOOLEAN /\ failures' \in Nat
  <2>1. CASE first
    <3> DEFINE o == job[r]
    <3> DEFINE k == o.tries - 1
    <3> DEFINE j == [o EXCEPT !.tries = k]
    <3>1. o \in Jobs /\ o.got \subseteq 1..calls /\ o.away \subseteq 1..calls /\ o.tries > 0
      BY <1>1 DEF JobsOK, Unanswered
    <3>2. job' = [job EXCEPT ![r] = j] /\ Goto(r, "ask") BY <1>1, <2>1 DEF Unanswered, JobsOK
    <3>7. k \in Nat BY <3>1 DEF Jobs
    <3> HIDE DEF o, k
    <3>3. j \in Jobs /\ j.got = o.got /\ j.away = o.away BY <3>1, <3>7 DEF Jobs
    <3> HIDE DEF j
    <3>4. /\ calls \in Nat /\ calls' \in Nat /\ calls <= calls'
          /\ j.got \subseteq 1..calls' /\ j.away \subseteq 1..calls'
      BY <1>1, <3>1, <3>3 DEF Unanswered, CountsOK
    <3>5. "ask" \in Places \ {"new", "done"} /\ "ask" \notin {"asking", "nothing"} BY DEF Places
    <3>6. JobsOK' BY <1>1, <3>2, <3>3, <3>4, <3>5, JobsStep
    <3> QED BY <1>1, <2>1, <3>6 DEF Unanswered, CountsOK, FlagsOK
  <2>2. CASE ~first
    <3>1. Again(r) /\ calls' = calls BY <2>2 DEF Unanswered
    <3> QED BY <1>1, <3>1, AgainStep DEF CountsOK
  <2> QED BY <2>1, <2>2
<1>3. ClientOK' BY <1>1 DEF Unanswered, ClientOK, client
<1>4. CountsOK' BY <1>1, <1>2 DEF Unanswered, CountsOK, history
<1>5. FlagsOK' BY <1>1, <1>2 DEF Unanswered, FlagsOK, history
<1> QED BY <1>2, <1>3, <1>4, <1>5, TypePartsNext

LEMMA TypeTimeout ==
  ASSUME ChatClientAssumption, TypeOK, NEW r \in Run, Timeout(r) PROVE TypeOK'
<1>1. ClientOK /\ JobsOK /\ CountsOK /\ FlagsOK BY TypeParts
<1>2. JobsOK' /\ gate' \in BOOLEAN /\ failures' \in Nat BY <1>1, AgainStep DEF Timeout, CountsOK
<1>3. faults' \in 0..MaxFaults BY <1>1, CountFaultStep DEF Timeout, CountsOK
<1>4. ClientOK' BY <1>1 DEF Timeout, ClientOK, client
<1>5. CountsOK' BY <1>1, <1>2, <1>3 DEF Timeout, CountsOK, history
<1>6. FlagsOK' BY <1>1, <1>2 DEF Timeout, FlagsOK, history
<1> QED BY <1>2, <1>4, <1>5, <1>6, TypePartsNext

LEMMA TypeCancelled ==
  ASSUME ChatClientAssumption, TypeOK, NEW r \in Run, Cancelled(r) PROVE TypeOK'
<1>1. ClientOK /\ JobsOK /\ CountsOK /\ FlagsOK BY TypeParts
<1>2. JobsOK' /\ gate' = TRUE
  <2>1. Goto(r, "done") /\ gate' = TRUE /\ job' = [job EXCEPT ![r] = NoJob] /\ calls' = calls
    BY DEF Cancelled, Leave
  <2>2. calls \in Nat BY <1>1 DEF CountsOK
  <2> QED BY <1>1, <2>1, <2>2, LeaveStep
<1>3. faults' \in 0..MaxFaults BY <1>1, CountFaultStep DEF Cancelled, CountsOK
<1>4. ClientOK' BY <1>1 DEF Cancelled, ClientOK, client
<1>5. CountsOK' BY <1>1, <1>3 DEF Cancelled, CountsOK
<1>6. FlagsOK' BY <1>1, <1>2 DEF Cancelled, FlagsOK
<1> QED BY <1>2, <1>4, <1>5, <1>6, TypePartsNext

LEMMA TypeAnswered ==
  ASSUME ChatClientAssumption, TypeOK, NEW r \in Run, Answered(r) PROVE TypeOK'
<1>1. ClientOK /\ JobsOK /\ CountsOK /\ FlagsOK BY TypeParts
<1>2. JobsOK' /\ gate' = TRUE
  <2>1. Goto(r, "done") /\ gate' = TRUE /\ job' = [job EXCEPT ![r] = NoJob] /\ calls' = calls
    BY DEF Answered, Leave
  <2>2. calls \in Nat BY <1>1 DEF CountsOK
  <2> QED BY <1>1, <2>1, <2>2, LeaveStep
<1>3. open' \subseteq 1..calls /\ abandoned' \subseteq 1..calls /\ faults' \in 0..MaxFaults
  <2>1. PICK tasks \in SUBSET job[r].got :
          /\ open' = tasks /\ abandoned' = abandoned \cup (job[r].got \ tasks)
          /\ UNCHANGED faults \/ CountFault
    BY DEF Answered
  <2>2. job[r].got \subseteq 1..calls BY <1>1 DEF JobsOK
  <2> QED BY <1>1, <2>1, <2>2, CountFaultStep DEF CountsOK
<1>4. ClientOK' BY <1>1 DEF Answered, ClientOK, client
<1>5. CountsOK' BY <1>1, <1>3 DEF Answered, CountsOK
<1>6. FlagsOK' BY <1>1, <1>2 DEF Answered, FlagsOK
<1> QED BY <1>2, <1>4, <1>5, <1>6, TypePartsNext

LEMMA TypeInterrupt ==
  ASSUME ChatClientAssumption, TypeOK, Interrupt PROVE TypeOK'
<1>1. ClientOK /\ JobsOK /\ CountsOK /\ FlagsOK BY TypeParts
<1>2. JobsOK' /\ first' \in BOOLEAN
  <2>1. CASE worker # Idle /\ Waits(worker)
    <3>1. worker.run \in Run BY <1>1, <2>1 DEF ClientOK, UnderWay
    <3>2. pc[worker.run] = "asking" BY <2>1 DEF Waits
    <3>3. job[worker.run].tries > 0 BY <1>1, <3>1, <3>2 DEF JobsOK
    <3>4. Goto(worker.run, "nothing") /\ job' = job /\ first' = FALSE /\ calls' = calls BY <2>1 DEF Interrupt
    <3>5. "nothing" \in Places \ {"new", "done"} BY DEF Places
    <3>6. calls \in Nat BY <1>1 DEF CountsOK
    <3>7. JobsOK' BY <1>1, <3>1, <3>3, <3>4, <3>5, <3>6, GotoStep
    <3> QED BY <3>4, <3>7
  <2>2. CASE ~(worker # Idle /\ Waits(worker))
    <3>1. UNCHANGED <<pc, job, first, calls>> BY <2>2 DEF Interrupt
    <3> QED BY <1>1, <3>1 DEF JobsOK, FlagsOK
  <2> QED BY <2>1, <2>2
<1>3. interrupts' \in 0..MaxInterrupts BY <1>1 DEF Interrupt, CountsOK, ChatClientAssumption
<1>4. ClientOK' BY <1>1 DEF Interrupt, ClientOK, client
<1>5. CountsOK' BY <1>1, <1>3 DEF Interrupt, CountsOK, history
<1>6. FlagsOK' BY <1>1, <1>2 DEF Interrupt, FlagsOK, history
<1> QED BY <1>2, <1>4, <1>5, <1>6, TypePartsNext

------------------------------------------------------------------------------
\* The actions of the worker keep the types.

\* The normalisation of what a request would send
LEMMA NormalisedFacts ==
  ASSUME ChatClientAssumption, NEW rounds \in Rounds(Prompt), NEW ps \in Seq(Prompt)
  PROVE  LET all == Messages(Added(rounds, ps)) IN
         /\ Messages(rounds) \in Seq(Prompt) /\ all = Messages(rounds) \o ps /\ all \in Seq(Prompt)
         /\ SeenOK(Normalised(all))
         /\ Seen(all).pending = {} => Normalised(all) = Seen(all)
<1> DEFINE all == Messages(Added(rounds, ps))
<1>1. Messages(rounds) \in Seq(Prompt) BY RoundsAreSeqs, MessagesFacts
<1>2. all = Messages(rounds) \o ps BY AddedFacts
<1>3. all \in Seq(Prompt) BY <1>1, <1>2, ConcatSet
<1> HIDE DEF all
<1>4. SeenOK(Seen(all)) BY <1>3, SeenFacts
<1> DEFINE z == Seen(all)
<1>5. SeenOK(z) BY <1>4
<1> HIDE DEF z
<1>6. SeenOK(Closed(z)) /\ (z.pending = {} => Closed(z) = z) BY <1>5, ClosedFacts
<1>7. Normalised(all) = Closed(z) BY DEF Normalised, z
<1> QED BY <1>1, <1>2, <1>3, <1>6, <1>7 DEF all, z

LEMMA TypeStart ==
  ASSUME ChatClientAssumption, TypeOK, Start PROVE TypeOK'
<1>1. ClientOK /\ JobsOK /\ CountsOK /\ FlagsOK BY TypeParts
<1>2. Head(queue) \in Requests /\ queue' \in Seq(Requests)
  BY <1>1, HeadTailProperties DEF Start, ClientOK
<1> DEFINE q == Head(queue)
<1>3. context' \in Rounds(Prompt) /\ (worker' = Idle \/ worker' \in UnderWay) /\ payload' \in Seq(Sent)
  <2>1. CASE ~Waits(q)
    <3>1. UNCHANGED <<context, worker, payload>> BY <2>1 DEF Start
    <3> QED BY <1>1, <3>1 DEF ClientOK
  <2>2. CASE Waits(q)
    <3> DEFINE prompts == job[q.run].prompts
    <3> DEFINE normal == Normalised(Messages(Added(context, prompts)))
    <3> DEFINE discards == normal.orphans \cup normal.closed
    <3>1. /\ payload' = normal.sent /\ context' = Discarded(context, discards)
          /\ worker' = [run |-> q.run, ask |-> q.ask, prompts |-> prompts, shared |-> TRUE,
                        discards |-> discards, notices |-> normal.notices]
      BY <2>2 DEF Start
    <3>2. q.run \in Run /\ q.ask \in Nat BY <1>2 DEF Requests
    <3>3. prompts \in Seq(Prompt)
      <4>1. job[q.run] \in Jobs BY <1>1, <3>2 DEF JobsOK
      <4> QED BY <4>1 DEF Jobs
    <3>4. context \in Rounds(Prompt) /\ context \in Seq(Seq(Prompt)) BY <1>1, RoundsAreSeqs DEF ClientOK
    <3> HIDE DEF q, prompts
    <3>5. SeenOK(normal) BY <3>3, <3>4, NormalisedFacts
    <3> HIDE DEF normal
    <3>6. normal \in SeenRecord BY <3>5 DEF SeenOK
    <3>7. normal.sent \in Seq(Sent) /\ discards \subseteq Prompt /\ normal.notices \in Seq(Prompt)
      BY <3>6 DEF SeenRecord
    <3> HIDE DEF discards
    <3>8. context' \in Rounds(Prompt) BY <3>1, <3>4, DiscardedFacts
    <3>9. worker' \in UnderWay BY <3>1, <3>2, <3>3, <3>7 DEF UnderWay
    <3> QED BY <3>1, <3>7, <3>8, <3>9
  <2> QED BY <2>1, <2>2
<1>4. ClientOK' BY <1>2, <1>3 DEF ClientOK
<1>5. JobsOK' BY <1>1 DEF Start, JobsOK
<1>6. CountsOK' BY <1>1 DEF Start, CountsOK, agent, history
<1>7. FlagsOK' BY <1>1 DEF Start, FlagsOK, agent, history
<1> QED BY <1>4, <1>5, <1>6, <1>7, TypePartsNext

LEMMA TypeNothing ==
  ASSUME ChatClientAssumption, TypeOK, Nothing PROVE TypeOK'
<1>1. ClientOK /\ JobsOK /\ CountsOK /\ FlagsOK BY TypeParts
<1>2. worker \in UnderWay /\ job' = job /\ calls' = calls /\ calls \in Nat
  BY <1>1 DEF Nothing, ClientOK, agent, CountsOK
<1>3. worker.run \in Run /\ worker.notices \in Seq(Prompt) BY <1>2 DEF UnderWay
<1>4. JobsOK' /\ faults' \in 0..MaxFaults
  <2>1. CASE Waits(worker)
    <3>1. CountFault /\ Goto(worker.run, "nothing") BY <2>1 DEF Nothing
    <3>2. job[worker.run].tries > 0 BY <1>1, <1>3, <2>1 DEF JobsOK, Waits
    <3>3. "nothing" \in Places \ {"new", "done"} BY DEF Places
    <3>4. JobsOK' BY <1>1, <1>2, <1>3, <3>1, <3>2, <3>3, GotoStep
    <3>5. faults' \in 0..MaxFaults BY <1>1, <3>1, CountFaultStep DEF CountsOK
    <3> QED BY <3>4, <3>5
  <2>2. CASE ~Waits(worker)
    <3>1. UNCHANGED <<faults, pc>> BY <2>2 DEF Nothing
    <3> QED BY <1>1, <1>2, <3>1 DEF JobsOK, CountsOK
  <2> QED BY <2>1, <2>2
<1>5. lost' \subseteq Mark
  <2>1. Marks(worker.notices) \subseteq Mark BY <1>3, MarksType
  <2>2. lost \subseteq Mark /\ lost' = lost \cup Marks(worker.notices) BY <1>1 DEF Nothing, CountsOK
  <2> QED BY <2>1, <2>2
<1>6. first' \in BOOLEAN BY <1>1 DEF Nothing, FlagsOK
<1>7. ClientOK'
  <2>1. worker' = Idle /\ payload' = <<>> /\ context' = context /\ queue' = queue BY DEF Nothing
  <2>2. <<>> \in Seq(Sent) OBVIOUS
  <2> QED BY <1>1, <2>1, <2>2 DEF ClientOK
<1>8. CountsOK' BY <1>1, <1>4, <1>5 DEF Nothing, CountsOK, agent
<1>9. FlagsOK' BY <1>1, <1>6 DEF Nothing, FlagsOK, agent
<1> QED BY <1>4, <1>7, <1>8, <1>9, TypePartsNext

CallsOf(answer) == {p.call : p \in {q \in ToSet(answer) : q.kind = "call"}}

\* After prompts that leave none to wait, ps leaves its own calls to wait, the next k.
Asked(ps, k) ==
  \A m \in Seq(Prompt) : \A D : Clean(m, {}, D, calls) => Clean(m \o ps, CallsOf(ps), D, calls + k)

\* What the model answers: its calls are new, and they are the next numbers.
LEMMA AnswerFacts ==
  ASSUME ChatClientAssumption, calls \in 0..MaxCalls, NEW answer \in Answers
  PROVE  /\ answer \in Seq(Prompt) /\ \A p \in ToSet(answer) : p.kind \in {"call", "reply"}
         /\ calls + Cardinality(CallsOf(answer)) \in calls..MaxCalls
         /\ CallsOf(answer) \subseteq 1..(calls + Cardinality(CallsOf(answer)))
         /\ Asked(answer, Cardinality(CallsOf(answer)))
<1>0. calls \in Nat /\ MaxCalls \in Nat BY DEF ChatClientAssumption
<1>1. CASE answer = <<>>
  <2>1. ToSet(answer) = {} /\ answer \in Seq(Prompt) BY <1>1, EmptyFacts
  <2>2. CallsOf(answer) = {} BY <2>1 DEF CallsOf
  <2>3. Cardinality(CallsOf(answer)) = 0 BY <2>2, FS_EmptySet
  <2> DEFINE k == Cardinality(CallsOf(answer))
  <2> HIDE DEF k
  <2>4. calls + k = calls /\ calls + k \in calls..MaxCalls /\ {} \subseteq 1..(calls + k)
    BY <1>0, <2>3 DEF k
  <2>5. \A m \in Seq(Prompt) : m \o answer = m BY <1>1, ConcatEmptySeq
  <2>6. Asked(answer, k) BY <2>2, <2>4, <2>5 DEF Asked
  <2> QED BY <2>1, <2>2, <2>4, <2>6 DEF k
<1>2. CASE answer = <<Reply>>
  <2> DEFINE x == Reply
  <2>1. x \in Prompt /\ x.kind = "reply" BY PromptTypes
  <2> HIDE DEF x
  <2>2. ToSet(<<x>>) = {x} /\ <<x>> \in Seq(Prompt) BY <2>1 DEF ToSet
  <2>3. answer = <<x>> BY <1>2 DEF x
  <2>4. CallsOf(answer) = {} BY <2>1, <2>2, <2>3 DEF CallsOf
  <2>5. Cardinality(CallsOf(answer)) = 0 BY <2>4, FS_EmptySet
  <2> DEFINE k == Cardinality(CallsOf(answer))
  <2> HIDE DEF k
  <2>6. calls + k = calls /\ calls + k \in calls..MaxCalls /\ {} \subseteq 1..(calls + k)
    BY <1>0, <2>5 DEF k
  <2>7. ASSUME NEW m \in Seq(Prompt), NEW D, Clean(m, {}, D, calls)
        PROVE  Clean(m \o answer, CallsOf(answer), D, calls + k)
    <3>1. m \o answer = Append(m, x) BY <2>1, <2>3, AppendIsConcat
    <3>2. Clean(Append(m, x), {}, D, calls) BY <2>1, <2>7, CleanSteps
    <3> QED BY <2>4, <2>6, <3>1, <3>2
  <2>8. Asked(answer, k) BY <2>7 DEF Asked
  <2> QED BY <2>1, <2>2, <2>3, <2>4, <2>6, <2>8 DEF k
<1>3. ASSUME NEW n \in 1..2, calls + n <= MaxCalls, answer = [i \in 1..n |-> Call(calls + i)]
      PROVE  /\ answer \in Seq(Prompt) /\ \A p \in ToSet(answer) : p.kind \in {"call", "reply"}
             /\ calls + Cardinality(CallsOf(answer)) \in calls..MaxCalls
             /\ CallsOf(answer) \subseteq 1..(calls + Cardinality(CallsOf(answer)))
             /\ Asked(answer, Cardinality(CallsOf(answer)))
  <2>1. \A i \in 1..n : calls + i \in CallIds BY <1>0, <1>3 DEF CallIds
  <2>2. \A i \in 1..n : /\ Call(calls + i) \in Prompt /\ Call(calls + i).kind = "call"
                        /\ Call(calls + i).call = calls + i
    BY <2>1, PromptTypes
  <2>3. /\ DOMAIN answer = 1..n /\ \A i \in 1..n : answer[i] = Call(calls + i)
        /\ answer \in Seq(Prompt)
    <3>1. answer \in [1..n -> Prompt] BY <1>3, <2>2
    <3> QED BY <1>3, <3>1
  <2>4. \A p \in ToSet(answer) : \E i \in 1..n : p = Call(calls + i) BY <2>3 DEF ToSet
  <2>5. \A i \in 1..n : Call(calls + i) \in ToSet(answer) BY <2>3 DEF ToSet
  <2>6. CallsOf(answer) = (calls + 1)..(calls + n)
    <3>1. ASSUME NEW c \in CallsOf(answer) PROVE c \in (calls + 1)..(calls + n)
      <4>1. PICK p \in ToSet(answer) : c = p.call BY DEF CallsOf
      <4>2. PICK i \in 1..n : p = Call(calls + i) BY <2>4
      <4> QED BY <1>0, <2>2, <4>1, <4>2
    <3>2. ASSUME NEW c \in (calls + 1)..(calls + n) PROVE c \in CallsOf(answer)
      <4>1. c - calls \in 1..n /\ calls + (c - calls) = c BY <1>0
      <4>2. Call(c) \in ToSet(answer) /\ Call(c).kind = "call" /\ Call(c).call = c
        BY <2>2, <2>5, <4>1
      <4> QED BY <4>2 DEF CallsOf
    <3> QED BY <3>1, <3>2
  <2>7. Cardinality(CallsOf(answer)) = n
    <3>1. Cardinality((calls + 1)..(calls + n)) = IF calls + 1 > calls + n THEN 0 ELSE (calls + n) - (calls + 1) + 1
      BY <1>0, FS_Interval
    <3> QED BY <1>0, <2>6, <3>1
  <2>8. \A p \in ToSet(answer) : p.kind \in {"call", "reply"} BY <2>2, <2>4
  <2>9. calls + n \in calls..MaxCalls /\ (calls + 1)..(calls + n) \subseteq 1..(calls + n)
    BY <1>0, <1>3
  <2>10. ASSUME NEW m \in Seq(Prompt), NEW D, Clean(m, {}, D, calls)
         PROVE  Clean(m \o answer, CallsOf(answer), D, calls + n)
    <3> DEFINE a == Call(calls + 1)
    <3> DEFINE k == calls + n
    <3>0. k \in Nat /\ calls <= k /\ calls + 1 \in 1..k BY <1>0
    <3>1. a \in Prompt /\ a.kind = "call" /\ a.call = calls + 1 BY <2>2
    <3>2. answer[1] = a BY <2>3
    <3> HIDE DEF a, k
    <3>3. Append(m, a) \in Seq(Prompt) BY <3>1, AppendFacts
    <3>4. Clean(m, {}, D, k) /\ Told(m) \subseteq 1..calls /\ D \subseteq 1..calls
      <4>1. Told(m) \subseteq 1..calls /\ D \subseteq 1..calls BY <2>10 DEF Clean
      <4> QED BY <1>0, <2>10, <3>0, <4>1, CleanLater
    <3>5. Clean(Append(m, a), {calls + 1}, D, k) /\ Told(Append(m, a)) = Told(m)
      <4>1. a.call \in (1..k) \ (Told(m) \cup D) BY <1>0, <3>0, <3>1, <3>4
      <4>2. Clean(Append(m, a), {} \cup {a.call}, D, k) BY <3>1, <3>4, <4>1, CleanSteps
      <4>3. {} \cup {a.call} = {calls + 1} BY <3>1
      <4>4. Told(Append(m, a)) = Told(m) BY <3>1, ToldAppend
      <4> QED BY <4>2, <4>3, <4>4
    <3>6. m \o <<a>> = Append(m, a) BY <3>1, AppendIsConcat
    <3>7. CASE n = 1
      <4>1. answer = <<a>> /\ CallsOf(answer) = {calls + 1} BY <1>0, <2>3, <2>6, <3>2, <3>7
      <4> QED BY <3>5, <3>6, <4>1 DEF k
    <3>8. CASE n = 2
      <4> DEFINE b == Call(calls + 2)
      <4>1. b \in Prompt /\ b.kind = "call" /\ b.call = calls + 2 BY <2>2, <3>8
      <4>2. answer[2] = b BY <2>3, <3>8
      <4> HIDE DEF b
      <4>3. answer = <<a, b>> BY <2>3, <3>2, <3>8, <4>2
      <4>4. <<a, b>> = Append(<<a>>, b) /\ <<a>> \in Seq(Prompt) BY <3>1
      <4>5. m \o Append(<<a>>, b) = Append(Append(m, a), b)
        <5>1. m \o Append(<<a>>, b) = Append(m \o <<a>>, b) BY <4>1, <4>4, ConcatAppend
        <5> QED BY <3>6, <5>1
      <4> DEFINE t == Append(m, a)
      <4>6. t \in Seq(Prompt) /\ Clean(t, {calls + 1}, D, k) /\ Told(t) = Told(m) BY <3>3, <3>5
      <4> HIDE DEF t
      <4>7. b.call \in (1..k) \ (Told(t) \cup D) BY <1>0, <3>4, <3>8, <4>1, <4>6 DEF k
      <4>8. Clean(Append(t, b), {calls + 1} \cup {b.call}, D, k) BY <4>1, <4>6, <4>7, CleanSteps
      <4>9. {calls + 1} \cup {b.call} = CallsOf(answer) BY <1>0, <2>6, <3>8, <4>1
      <4> QED BY <4>3, <4>4, <4>5, <4>8, <4>9 DEF t, k
    <3> QED BY <3>7, <3>8
  <2>11. Asked(answer, n) BY <2>10 DEF Asked
  <2> QED BY <2>3, <2>6, <2>7, <2>8, <2>9, <2>11
<1>4. \/ answer = <<>> \/ answer = <<Reply>>
      \/ \E n \in 1..2 : calls + n <= MaxCalls /\ answer = [i \in 1..n |-> Call(calls + i)]
  BY DEF Answers
<1> QED BY <1>1, <1>2, <1>3, <1>4

\* The prompts of a request as they are kept: without what is discarded, with notices.
LEMMA KeptFacts ==
  ASSUME worker \in UnderWay
  PROVE  /\ Kept(worker.prompts) \in Seq(Prompt)
         /\ worker.run \in Run /\ worker.prompts \in Seq(Prompt) /\ worker.notices \in Seq(Prompt)
         /\ Without(worker.prompts, worker.discards) \in Seq(Prompt)
         /\ ToSet(Kept(worker.prompts)) =
              (ToSet(worker.prompts) \ worker.discards) \cup ToSet(worker.notices)
<1>1. worker.run \in Run /\ worker.prompts \in Seq(Prompt) /\ worker.notices \in Seq(Prompt)
  BY DEF UnderWay
<1>2. /\ Without(worker.prompts, worker.discards) \in Seq(Prompt)
      /\ ToSet(Without(worker.prompts, worker.discards)) = ToSet(worker.prompts) \ worker.discards
  BY <1>1, WithoutFacts
<1> QED BY <1>1, <1>2, ConcatSet DEF Kept

\* What an answer does, for the answer it is
Answered_with(answer) ==
  LET r == worker.run
      prompts == Kept(worker.prompts)
      new == CallsOf(answer)
      mine == IF worker.shared /\ Inside(r) THEN [job EXCEPT ![r].prompts = prompts] ELSE job
  IN  /\ context' = Added(Added(context, prompts), answer)
      /\ calls' = calls + Cardinality(new)
      /\ IF Waits(worker)
         THEN /\ Goto(r, "answered")
              /\ job' = [mine EXCEPT ![r].got = new]
              /\ said' = said \cup job[r].asked
              /\ UNCHANGED late
         ELSE /\ job' = mine /\ late' = TRUE
              /\ UNCHANGED <<pc, said>>

LEMMA AnswerWith ==
  ASSUME Answer PROVE \E answer \in Answers : Answered_with(answer)
  BY DEF Answer, Answered_with, CallsOf

\* How an answer changes the job of its run
LEMMA AnswerJob ==
  ASSUME ChatClientAssumption, TypeOK, worker \in UnderWay, NEW answer \in Answers, Answered_with(answer)
  PROVE  LET r == worker.run
             kept == IF worker.shared /\ Inside(r) THEN Kept(worker.prompts) ELSE job[r].prompts
             got == IF Waits(worker) THEN CallsOf(answer) ELSE job[r].got
             place == IF Waits(worker) THEN "answered" ELSE pc[r]
             j == [job[r] EXCEPT !.prompts = kept, !.got = got]
         IN  job' = [job EXCEPT ![r] = j] /\ Goto(r, place) /\ kept \in Seq(Prompt)
<1>1. ClientOK /\ JobsOK /\ CountsOK /\ FlagsOK BY TypeParts
<1> DEFINE r == worker.run
<1> DEFINE prompts == Kept(worker.prompts)
<1>2. r \in Run /\ prompts \in Seq(Prompt) BY KeptFacts
<1>3. job \in [Run -> Jobs] /\ pc \in [Run -> Places] BY <1>1 DEF JobsOK
<1> DEFINE new == CallsOf(answer)
<1> DEFINE mine == IF worker.shared /\ Inside(r) THEN [job EXCEPT ![r].prompts = prompts] ELSE job
<1> DEFINE kept == IF worker.shared /\ Inside(r) THEN prompts ELSE job[r].prompts
<1>4. /\ Waits(worker) => Goto(r, "answered") /\ job' = [mine EXCEPT ![r].got = new]
      /\ ~Waits(worker) => job' = mine /\ pc' = pc
  BY DEF Answered_with
<1> HIDE DEF r, prompts, new
<1> DEFINE x == job[r]
<1>5. x \in Jobs BY <1>2, <1>3
<1>6. kept \in Seq(Prompt) BY <1>2, <1>5 DEF Jobs
<1>7. mine = [job EXCEPT ![r] = [x EXCEPT !.prompts = kept]]
  <2>1. [x EXCEPT !.prompts = x.prompts] = x
    <3> HIDE DEF x
    <3> QED BY <1>5 DEF Jobs
  <2>2. [job EXCEPT ![r] = x] = job BY <1>2, <1>3
  <2> QED BY <2>1, <2>2
<1> HIDE DEF kept, mine
<1> DEFINE y == [x EXCEPT !.prompts = kept]
<1>8. y \in Jobs /\ y.got = x.got
  <2> HIDE DEF x
  <2> QED BY <1>5, <1>6 DEF Jobs
<1>9. mine \in [Run -> Jobs] /\ mine[r] = y BY <1>2, <1>3, <1>7, <1>8
<1>10. CASE Waits(worker)
  <2>1. job' = [mine EXCEPT ![r] = [y EXCEPT !.got = new]] BY <1>4, <1>9, <1>10
  <2>2. job' = [job EXCEPT ![r] = [y EXCEPT !.got = new]]
    <3> DEFINE w == [y EXCEPT !.got = new]
    <3>1. job' = [mine EXCEPT ![r] = w] BY <2>1
    <3>2. mine = [job EXCEPT ![r] = y] BY <1>7
    <3> HIDE DEF w, y
    <3> QED BY <1>2, <1>3, <3>1, <3>2 DEF w
  <2>3. [y EXCEPT !.got = new] = [x EXCEPT !.prompts = kept, !.got = new]
    <3> HIDE DEF x, kept
    <3> QED BY <1>5 DEF Jobs
  <2> QED BY <1>4, <1>6, <1>10, <2>2, <2>3 DEF r, kept, prompts, new
<1>11. CASE ~Waits(worker)
  <2>1. y = [x EXCEPT !.prompts = kept, !.got = x.got]
    <3> HIDE DEF x, kept
    <3> QED BY <1>5 DEF Jobs
  <2>2. job' = [job EXCEPT ![r] = y] BY <1>4, <1>7, <1>11
  <2>3. Goto(r, pc[r]) BY <1>2, <1>3, <1>4, <1>11 DEF Goto
  <2> QED BY <1>6, <1>11, <2>1, <2>2, <2>3 DEF r, kept, prompts
<1> QED BY <1>10, <1>11

LEMMA TypeAnswer ==
  ASSUME ChatClientAssumption, TypeOK, Answer PROVE TypeOK'
<1>1. ClientOK /\ JobsOK /\ CountsOK /\ FlagsOK BY TypeParts
<1>2. worker \in UnderWay BY <1>1 DEF Answer, ClientOK
<1>3. PICK answer \in Answers : Answered_with(answer) BY AnswerWith
<1> DEFINE r == worker.run
<1> DEFINE prompts == Kept(worker.prompts)
<1> DEFINE new == CallsOf(answer)
<1>4. calls' = calls + Cardinality(new) /\ context' = Added(Added(context, prompts), answer)
  BY <1>3 DEF Answered_with
<1>5. calls \in 0..MaxCalls BY <1>1 DEF CountsOK
<1>6. /\ answer \in Seq(Prompt) /\ calls + Cardinality(new) \in calls..MaxCalls
      /\ new \subseteq 1..(calls + Cardinality(new))
  BY <1>5, AnswerFacts
<1>7. r \in Run /\ prompts \in Seq(Prompt) BY <1>2, KeptFacts
<1> HIDE DEF prompts, new
<1>8. /\ calls \in Nat /\ calls' \in Nat /\ calls <= calls' /\ calls' \in 0..MaxCalls
      /\ new \subseteq 1..calls'
  <2>1. calls' \in calls..MaxCalls /\ new \subseteq 1..calls' BY <1>4, <1>6
  <2>2. MaxCalls \in Nat BY DEF ChatClientAssumption
  <2> QED BY <1>5, <2>1, <2>2
<1>9. context' \in Rounds(Prompt)
  <2>1. context \in Rounds(Prompt) BY <1>1 DEF ClientOK
  <2>2. Added(context, prompts) \in Rounds(Prompt) BY <1>7, <2>1, AddedFacts
  <2> QED BY <1>4, <1>6, <2>2, AddedFacts
<1>10. JobsOK'
  <2> DEFINE x == job[r]
  <2> DEFINE kept == IF worker.shared /\ Inside(r) THEN Kept(worker.prompts) ELSE job[r].prompts
  <2> DEFINE got == IF Waits(worker) THEN CallsOf(answer) ELSE job[r].got
  <2> DEFINE place == IF Waits(worker) THEN "answered" ELSE pc[r]
  <2> DEFINE j == [x EXCEPT !.prompts = kept, !.got = got]
  <2>1. job' = [job EXCEPT ![r] = j] /\ Goto(r, place) /\ kept \in Seq(Prompt)
    BY <1>2, <1>3, AnswerJob
  <2>2. x \in Jobs /\ x.got \subseteq 1..calls /\ x.away \subseteq 1..calls BY <1>1, <1>7 DEF JobsOK
  <2>3. 1..calls \subseteq 1..calls' BY <1>8
  <2>4. got \subseteq 1..calls' BY <1>8, <2>2, <2>3 DEF new
  <2>5. 1..calls' \subseteq CallIds BY <1>8 DEF CallIds
  <2>6. place \in Places BY <1>1, <1>7 DEF JobsOK, Places
  <2>7. place \in {"asking", "nothing"} => x.tries > 0 BY <1>1, <1>7 DEF JobsOK
  <2>8. CASE place \notin {"new", "done"}
    <3> HIDE DEF x, kept, got, place
    <3>1. j \in Jobs /\ j.got = got /\ j.away = x.away /\ j.tries = x.tries BY <2>1, <2>2, <2>4, <2>5 DEF Jobs
    <3> HIDE DEF j
    <3>2. place \in {"asking", "nothing"} => j.tries > 0 BY <2>7, <3>1
    <3>3. j.got \subseteq 1..calls' /\ j.away \subseteq 1..calls' BY <2>2, <2>3, <2>4, <3>1
    <3> QED BY <1>1, <1>7, <1>8, <2>1, <2>6, <2>8, <3>1, <3>2, <3>3, JobsStep
  <2>9. CASE place \in {"new", "done"}
    <3>1. ~Waits(worker) /\ pc[r] \in {"new", "done"} BY <2>9
    <3>2. job' = job /\ pc' = pc BY <1>3, <3>1 DEF Answered_with, Inside
    <3> QED BY <1>1, <2>3, <3>2 DEF JobsOK
  <2> QED BY <2>8, <2>9
<1>11. said' \subseteq Mark
  <2>1. job[r] \in Jobs BY <1>1, <1>7 DEF JobsOK
  <2>2. job[r].asked \subseteq Mark BY <2>1 DEF Jobs
  <2>3. said' = said \cup job[r].asked \/ said' = said BY <1>3 DEF Answered_with
  <2> QED BY <1>1, <2>2, <2>3 DEF CountsOK
<1>12. late' \in BOOLEAN /\ first' \in BOOLEAN BY <1>1, <1>3 DEF Answered_with, Answer, FlagsOK
<1>13. ClientOK'
  <2>1. worker' = Idle /\ payload' = <<>> /\ queue' = queue BY DEF Answer
  <2>2. <<>> \in Seq(Sent) OBVIOUS
  <2> QED BY <1>1, <1>9, <2>1, <2>2 DEF ClientOK
<1>14. CountsOK'
  <2>1. open \subseteq 1..calls /\ abandoned \subseteq 1..calls /\ 1..calls \subseteq 1..calls' BY <1>1, <1>8 DEF CountsOK
  <2> QED BY <1>1, <1>8, <1>11, <2>1 DEF Answer, CountsOK, agent
<1>15. FlagsOK' BY <1>1, <1>12 DEF Answer, FlagsOK, agent
<1> QED BY <1>10, <1>13, <1>14, <1>15, TypePartsNext

LEMMA TypeStep ==
  ASSUME ChatClientAssumption, TypeOK, [Next]_vars PROVE TypeOK'
<1>1. CASE UNCHANGED vars
  <2>1. ClientOK /\ JobsOK /\ CountsOK /\ FlagsOK BY TypeParts
  <2>2. ClientOK' BY <1>1, <2>1 DEF vars, client, ClientOK
  <2>3. JobsOK' BY <1>1, <2>1 DEF vars, JobsOK
  <2>4. CountsOK' BY <1>1, <2>1 DEF vars, agent, history, CountsOK
  <2>5. FlagsOK' BY <1>1, <2>1 DEF vars, agent, history, FlagsOK
  <2> QED BY <2>2, <2>3, <2>4, <2>5, TypePartsNext
<1>2. ASSUME NEW r \in Run,
             Begin(r) \/ Ask(r) \/ Overflow(r) \/ Compressed(r) \/ CompressionFails(r)
                \/ Unanswered(r) \/ Timeout(r) \/ Cancelled(r) \/ Answered(r)
      PROVE  TypeOK'
  BY <1>2, TypeBegin, TypeAsk, TypeOverflow, TypeCompressed, TypeCompressionFails, TypeUnanswered, TypeTimeout,
     TypeCancelled, TypeAnswered
<1>3. CASE Interrupt \/ Start \/ Nothing \/ Answer
  BY <1>3, TypeInterrupt, TypeStart, TypeNothing, TypeAnswer
<1> QED BY <1>1, <1>2, <1>3 DEF Next

\* Every variable keeps its type.
THEOREM TypeCorrect == Spec => []TypeOK
<1>1. Init => TypeOK BY TypeInit, ChatClientAssumption
<1>2. TypeOK /\ [Next]_vars => TypeOK' BY TypeStep, ChatClientAssumption
<1> QED BY <1>1, <1>2, PTL DEF Spec

------------------------------------------------------------------------------
\* What is said stays: the request under way has the question of its run, as long as
\* they share it and the run is in its turn, what it discards has no mark or a notice
\* with the same, and a question comes into the context with its answer.

TextsOf(prompts, r) ==
  (\A p \in ToSet(prompts) : p.kind = "text" => p = Text(r)) /\ Once(prompts, Text(r))

Says(j, r) == j.asked \subseteq Marks(j.prompts) /\ TextsOf(j.prompts, r)

JobSays == \A r \in Run : Says(job[r], r)

RequestSays ==
  /\ Discardable(worker.discards, worker.notices)
  /\ \A p \in ToSet(worker.notices) : p.kind = "notice"
  /\ TextsOf(worker.prompts, worker.run)

RequestShares ==
  /\ pc[worker.run] # "new"
  /\ Inside(worker.run) =>
        /\ worker.ask <= job[worker.run].ask
        /\ worker.shared => worker.prompts = job[worker.run].prompts
  /\ Waits(worker) => worker.shared

SaidWhere == said \subseteq Marks(Messages(context)) \cup Marks(worker.notices) \cup lost

Heard ==
  late \/ \A r \in Run : /\ Once(Messages(context), Text(r))
                         /\ Text(r) \in ToSet(Messages(context)) => pc[r] \in {"answered", "done"}

SaidInv ==
  /\ TypeOK /\ SaidWhere /\ JobSays /\ Heard
  /\ worker # Idle => RequestSays /\ RequestShares

LEMMA NoJobSays == ASSUME NEW r PROVE Says(NoJob, r)
<1>1. ToSet(<<>>) = {} /\ DOMAIN <<>> = {} BY EmptyFacts
<1> QED BY <1>1 DEF Says, NoJob, TextsOf, Once

LEMMA OneTextSays ==
  ASSUME NEW r \in Run PROVE TextsOf(<<Text(r)>>, r)
BY OneText DEF TextsOf

\* What SaidInv needs of a step of one run
LEMMA RunStep ==
  ASSUME SaidInv, NEW r \in Run, NEW j \in Jobs, NEW place \in Places \ {"new"},
         job' = [job EXCEPT ![r] = j], Goto(r, place), worker' = worker,
         pc[r] = "done" => place = "done",
         Says(j, r),
         place # "done" /\ pc[r] # "new" => job[r].ask <= j.ask /\ j.prompts = job[r].prompts,
         place = "asking" => job[r].ask < j.ask
  PROVE  JobSays' /\ (worker' # Idle => (RequestSays /\ RequestShares)')
<1>1. JobsOK /\ ClientOK BY TypeParts DEF SaidInv
<1>2. \A q \in Run : job'[q] = (IF q = r THEN j ELSE job[q]) /\ pc'[q] = (IF q = r THEN place ELSE pc[q])
  BY <1>1 DEF JobsOK, Goto
<1>3. JobSays'
  <2> SUFFICES ASSUME NEW q \in Run PROVE Says(job'[q], q) BY DEF JobSays
  <2>1. Says(job[q], q) BY DEF SaidInv, JobSays
  <2> QED BY <1>2, <2>1
<1>4. ASSUME worker # Idle PROVE RequestSays' /\ RequestShares'
  <2>1. RequestSays /\ RequestShares BY <1>4 DEF SaidInv
  <2>2. RequestSays' BY <2>1 DEF RequestSays
  <2>3. worker \in UnderWay BY <1>1, <1>4 DEF ClientOK
  <2>4. worker.run \in Run /\ worker.ask \in Nat BY <2>3 DEF UnderWay
  <2>5. job[r] \in Jobs BY <1>1 DEF JobsOK
  <2>6. job[r].ask \in Nat /\ j.ask \in Nat BY <2>5 DEF Jobs
  <2>7. CASE worker.run # r
    <3>1. pc'[worker.run] = pc[worker.run] /\ job'[worker.run] = job[worker.run] BY <1>2, <2>4, <2>7
    <3> QED BY <2>1, <2>2, <3>1 DEF RequestShares, Inside, Waits
  <2>8. CASE worker.run = r
    <3>1. pc'[r] = place /\ job'[r] = j BY <1>2
    <3>2. pc[r] # "new" BY <2>1, <2>8 DEF RequestShares
    <3>3. ASSUME place # "done"
          PROVE  /\ worker.ask <= j.ask /\ (worker.shared => worker.prompts = j.prompts)
                 /\ place = "asking" => j.ask # worker.ask
      <4>1. Inside(r) BY <3>2, <3>3 DEF Inside
      <4>2. worker.ask <= job[r].ask /\ (worker.shared => worker.prompts = job[r].prompts)
        BY <2>1, <2>8, <4>1 DEF RequestShares
      <4>3. job[r].ask <= j.ask /\ j.prompts = job[r].prompts BY <3>2, <3>3
      <4> QED BY <2>4, <2>6, <4>2, <4>3
    <3>4. RequestShares' BY <2>8, <3>1, <3>3 DEF RequestShares, Inside, Waits
    <3> QED BY <2>2, <3>4
  <2> QED BY <2>2, <2>7, <2>8
<1> QED BY <1>3, <1>4

\* What is in the context stays, or goes with what was said.
LEMMA ContextStays ==
  ASSUME SaidInv, context' = context, worker' = worker, lost' = lost, said' = said, late => late',
         \A q \in Run : pc[q] \in {"answered", "done"} => pc'[q] \in {"answered", "done"}
  PROVE  SaidWhere' /\ Heard'
<1>1. SaidWhere' BY DEF SaidInv, SaidWhere
<1>2. Heard' BY DEF SaidInv, Heard
<1> QED BY <1>1, <1>2

LEMMA ContextGoes ==
  ASSUME context' = <<>>, said' = {} PROVE SaidWhere' /\ Heard'
<1>1. Messages(context') = <<>> /\ ToSet(<<>>) = {} /\ \A x : Once(<<>>, x) BY MessagesEmpty, EmptyFacts DEF Once
<1> QED BY <1>1 DEF SaidWhere, Heard

LEMMA RoundBack ==
  ASSUME SaidInv, context # <<>>, context' = Front(context), worker' = worker, lost' = lost, late' = late,
         said' = said \cap Marks(Messages(context')),
         \A q \in Run : pc[q] \in {"answered", "done"} => pc'[q] \in {"answered", "done"}
  PROVE  SaidWhere' /\ Heard'
<1>1. context \in Seq(Seq(Prompt)) BY TypeParts, RoundsAreSeqs DEF SaidInv, ClientOK
<1> DEFINE m == Messages(context)
<1> DEFINE n == Messages(Front(context))
<1> DEFINE l == Last(context)
<1>2. m = n \o l /\ n \in Seq(Prompt) /\ l \in Seq(Prompt) BY <1>1, MessagesFront, FrontLast
<1>3. Messages(context)' = n OBVIOUS
<1>4. Heard <=> (late \/ \A r \in Run : Once(m, Text(r)) /\ (Text(r) \in ToSet(m) => pc[r] \in {"answered", "done"}))
  BY DEF Heard
<1> HIDE DEF m, n, l
<1>5. \A r \in Run : (Once(m, Text(r)) => Once(n, Text(r))) /\ ToSet(n) \subseteq ToSet(m)
  BY <1>2, OnceConcat, ConcatSet
<1>6. Heard' BY <1>3, <1>4, <1>5 DEF SaidInv, Heard
<1>7. SaidWhere' BY DEF SaidWhere
<1> QED BY <1>6, <1>7

LEMMA SaidBegin ==
  ASSUME ChatClientAssumption, SaidInv, TypeOK', NEW r \in Run, Begin(r) PROVE SaidInv'
<1>1. ClientOK /\ JobsOK /\ CountsOK /\ FlagsOK BY TypeParts DEF SaidInv
<1>2. PICK speaks \in BOOLEAN :
        LET forced == Times(r) >= ReactLimit - 1
            listed == RollsBack /\ open # {}
            results == IF RollsBack THEN <<>> ELSE Results(r, forced)
            words == IF speaks \/ listed THEN <<Text(r)>> ELSE <<>>
            new == Question(results, words)
        IN  \/ Leave(r)
            \/ /\ Goto(r, "ask")
               /\ job' = [job EXCEPT ![r] = [NoJob EXCEPT !.prompts = new, !.asked = Marks(new)]]
  BY DEF Begin
<1> DEFINE forced == Times(r) >= ReactLimit - 1
<1> DEFINE results == IF RollsBack THEN <<>> ELSE Results(r, forced)
<1> DEFINE words == IF speaks \/ (RollsBack /\ open # {}) THEN <<Text(r)>> ELSE <<>>
<1> DEFINE new == Question(results, words)
<1> DEFINE j == [NoJob EXCEPT !.prompts = new, !.asked = Marks(new)]
<1>3. pc[r] = "new" /\ worker' = worker /\ lost' = lost /\ late' = late BY DEF Begin
<1>4. \/ Leave(r)
      \/ Goto(r, "ask") /\ job' = [job EXCEPT ![r] = j]
  BY <1>2
<1>5. new \in Seq(Prompt) /\ TextsOf(new, r)
  <2>1. results = <<>> \/ results = Results(r, forced) OBVIOUS
  <2>2. words = <<>> \/ words = <<Text(r)>> OBVIOUS
  <2>3. forced \in BOOLEAN OBVIOUS
  <2>4. new = results \o words BY DEF Question
  <2> HIDE DEF results, words, forced
  <2>5. /\ new \in Seq(Prompt) /\ ToSet(new) = ToSet(results) \cup ToSet(words)
        /\ results \in Seq(Prompt) /\ \A p \in ToSet(results) : p.kind = "response"
        /\ words \in Seq(Prompt) /\ ToSet(words) \subseteq {Text(r)}
    BY <1>1, <2>1, <2>2, <2>3, QuestionFacts
  <2>6. Once(words, Text(r)) BY <2>2, OneText DEF Once
  <2>7. Text(r) \notin ToSet(results) BY <2>5, PromptTypes
  <2>8. Once(results, Text(r)) BY <2>5, <2>7, Members DEF Once
  <2>9. Once(new, Text(r)) BY <2>4, <2>5, <2>6, <2>7, <2>8, OnceConcat
  <2>10. \A p \in ToSet(new) : p.kind = "text" => p = Text(r) BY <2>5
  <2> HIDE DEF new
  <2> QED BY <2>5, <2>9, <2>10 DEF TextsOf
<1> HIDE DEF new
<1>6. j \in Jobs /\ Says(j, r)
  <2>1. Marks(new) \subseteq Mark BY <1>5, MarksType
  <2>2. j \in Jobs /\ j.prompts = new /\ j.asked = Marks(new)
    BY <1>5, <2>1, NoJobType DEF Jobs, NoJob
  <2> QED BY <1>5, <2>2 DEF Says
<1> HIDE DEF j
<1>7. JobSays' /\ (worker' # Idle => (RequestSays /\ RequestShares)')
  <2>1. CASE Leave(r)
    <3>1. Goto(r, "done") /\ job' = [job EXCEPT ![r] = NoJob] BY <2>1 DEF Leave
    <3>2. NoJob \in Jobs /\ Says(NoJob, r) /\ "done" \in Places \ {"new"} BY NoJobType, NoJobSays DEF Places
    <3> QED BY <1>3, <3>1, <3>2, RunStep
  <2>2. CASE Goto(r, "ask") /\ job' = [job EXCEPT ![r] = j]
    <3>1. "ask" \in Places \ {"new"} BY DEF Places
    <3> QED BY <1>3, <1>6, <2>2, <3>1, RunStep
  <2> QED BY <1>4, <2>1, <2>2
<1>8. \A q \in Run : pc[q] \in {"answered", "done"} => pc'[q] \in {"answered", "done"}
  BY <1>1, <1>3, <1>4 DEF JobsOK, Leave, Goto
<1>9. SaidWhere' /\ Heard'
  <2>1. CASE RollsBack
    <3>1. context' = Front(context) /\ context # <<>> /\ said' = said \cap Marks(Messages(context'))
      BY <2>1 DEF Begin, RollsBack
    <3> QED BY <1>3, <1>8, <3>1, RoundBack
  <2>2. CASE ~RollsBack
    <3>1. context' = context /\ said' = said BY <2>2 DEF Begin
    <3> QED BY <1>3, <1>8, <3>1, ContextStays
  <2> QED BY <2>1, <2>2
<1> QED BY <1>7, <1>9 DEF SaidInv

LEMMA SaidAsk ==
  ASSUME ChatClientAssumption, SaidInv, TypeOK', NEW r \in Run, Ask(r) PROVE SaidInv'
<1>1. JobsOK /\ JobSays BY TypeParts DEF SaidInv
<1> DEFINE x == job[r]
<1> DEFINE j == [x EXCEPT !.tries = @ + 1, !.ask = @ + 1]
<1>2. x \in Jobs /\ Says(x, r) BY <1>1 DEF JobsOK, JobSays
<1>3. job' = [job EXCEPT ![r] = j] /\ Goto(r, "asking") /\ pc[r] = "ask" /\ worker' = worker
  BY <1>1 DEF Ask, JobsOK
<1>4. j \in Jobs /\ j.prompts = x.prompts /\ j.asked = x.asked /\ x.ask < j.ask
  <2> HIDE DEF x
  <2>1. x.tries + 1 \in Nat /\ x.ask + 1 \in Nat /\ x.ask < x.ask + 1 BY <1>2 DEF Jobs
  <2>2. j = [x EXCEPT !.tries = x.tries + 1, !.ask = x.ask + 1] OBVIOUS
  <2> HIDE DEF j
  <2>3. j \in Jobs /\ j.prompts = x.prompts /\ j.asked = x.asked /\ j.ask = x.ask + 1
    BY <1>2, <2>1, <2>2 DEF Jobs
  <2> QED BY <2>1, <2>3
<1> HIDE DEF j
<1>5. Says(j, r) BY <1>2, <1>4 DEF Says
<1>6. x.ask <= j.ask
  <2>1. x.ask \in Nat /\ j.ask \in Nat BY <1>2, <1>4 DEF Jobs
  <2> QED BY <1>4, <2>1
<1>7. "asking" \in Places \ {"new"} /\ pc[r] # "done" BY <1>3 DEF Places
<1>8. JobSays' /\ (worker' # Idle => (RequestSays /\ RequestShares)')
  BY <1>3, <1>4, <1>5, <1>6, <1>7, RunStep
<1>9. \A q \in Run : pc[q] \in {"answered", "done"} => pc'[q] \in {"answered", "done"}
  BY <1>1, <1>3 DEF JobsOK, Goto
<1>10. SaidWhere' /\ Heard' BY <1>9, ContextStays DEF Ask, history
<1> QED BY <1>8, <1>10 DEF SaidInv

LEMMA SaidOverflow ==
  ASSUME ChatClientAssumption, SaidInv, TypeOK', NEW r \in Run, Overflow(r) PROVE SaidInv'
<1>1. JobsOK /\ ClientOK /\ JobSays BY TypeParts DEF SaidInv
<1> DEFINE x == job[r]
<1> DEFINE j == [x EXCEPT !.tries = @ + 1, !.prompts = <<Text(r)>>, !.asked = {<<"run", r>>}, !.away = open]
<1>2. x \in Jobs BY <1>1 DEF JobsOK
<1>3. job' = [job EXCEPT ![r] = j] /\ pc' = [pc EXCEPT ![r] = "compressing"] /\ pc[r] = "ask"
  BY <1>1 DEF Overflow, JobsOK, Goto
<1>4. worker' = IF worker.run = r THEN [worker EXCEPT !.shared = FALSE] ELSE worker BY DEF Overflow
<1>5. j.prompts = <<Text(r)>> /\ j.asked = {<<"run", r>>} /\ j.ask = x.ask
  <2> DEFINE t == <<Text(r)>>
  <2> DEFINE a == {<<"run", r>>}
  <2>1. j = [x EXCEPT !.tries = x.tries + 1, !.prompts = t, !.asked = a, !.away = open] OBVIOUS
  <2> HIDE DEF x, t, a, j
  <2>2. j.prompts = t /\ j.asked = a /\ j.ask = x.ask BY <1>2, <2>1 DEF Jobs
  <2> QED BY <2>2 DEF t, a
<1> HIDE DEF j
<1>6. Says(j, r) BY <1>5, OneText, OneTextSays DEF Says
<1>7. \A q \in Run : job'[q] = (IF q = r THEN j ELSE job[q]) /\ pc'[q] = (IF q = r THEN "compressing" ELSE pc[q])
  BY <1>1, <1>3 DEF JobsOK
<1>8. JobSays'
  <2> SUFFICES ASSUME NEW q \in Run PROVE Says(job'[q], q) BY DEF JobSays
  <2>1. Says(job[q], q) BY <1>1 DEF JobSays
  <2> QED BY <1>6, <1>7, <2>1
<1>9. worker = Idle => worker' = Idle
  <2>1. Idle \in [run : {"none"}, ask : {0}, prompts : {<<>>}, shared : {FALSE}, discards : {{}},
                  notices : {<<>>}] /\ Idle.shared = FALSE
    BY DEF Idle
  <2>2. [Idle EXCEPT !.shared = FALSE] = Idle BY <2>1, NotShared
  <2> QED BY <1>4, <2>2
<1>10. ASSUME worker # Idle
       PROVE  /\ worker' \in UnderWay /\ worker'.run = worker.run /\ worker'.ask = worker.ask
              /\ worker'.prompts = worker.prompts /\ worker'.discards = worker.discards
              /\ worker'.notices = worker.notices
              /\ worker'.shared => worker.run # r
              /\ worker.run # r => worker' = worker
  <2>1. worker \in UnderWay BY <1>1, <1>10 DEF ClientOK
  <2> DEFINE w == [worker EXCEPT !.shared = FALSE]
  <2>2. /\ w \in UnderWay /\ w.run = worker.run /\ w.ask = worker.ask /\ w.prompts = worker.prompts
        /\ w.discards = worker.discards /\ w.notices = worker.notices /\ w.shared = FALSE
    BY <2>1 DEF UnderWay
  <2> HIDE DEF w
  <2>3. worker' = IF worker.run = r THEN w ELSE worker BY <1>4 DEF w
  <2> QED BY <2>1, <2>2, <2>3
<1>11. ASSUME worker # Idle PROVE RequestSays' /\ RequestShares'
  <2>1. RequestSays /\ RequestShares BY <1>11 DEF SaidInv
  <2>2. RequestSays' BY <1>10, <1>11, <2>1 DEF RequestSays
  <2>3. worker.run \in Run BY <1>1, <1>11 DEF ClientOK, UnderWay
  <2>4. CASE worker.run # r
    <3>1. worker' = worker /\ pc'[worker.run] = pc[worker.run] /\ job'[worker.run] = job[worker.run]
      BY <1>7, <1>10, <1>11, <2>3, <2>4
    <3> QED BY <2>1, <2>2, <3>1 DEF RequestShares, Inside, Waits
  <2>5. CASE worker.run = r
    <3>1. pc'[r] = "compressing" /\ job'[r] = j BY <1>7
    <3>2. Inside(r) BY <1>3 DEF Inside
    <3>3. worker.ask <= j.ask BY <1>5, <2>1, <2>5, <3>2 DEF RequestShares
    <3>4. worker'.run = r /\ worker'.ask = worker.ask /\ ~worker'.shared BY <1>10, <1>11, <2>5
    <3> QED BY <2>2, <3>1, <3>3, <3>4 DEF RequestShares, Waits
  <2> QED BY <2>4, <2>5
<1>12. SaidWhere'
  <2>1. Marks(worker'.notices) = Marks(worker.notices) BY <1>9, <1>10
  <2> QED BY <2>1 DEF Overflow, history, SaidInv, SaidWhere
<1>13. Heard'
  <2>1. \A q \in Run : pc[q] \in {"answered", "done"} => pc'[q] \in {"answered", "done"} BY <1>3, <1>7
  <2> QED BY <2>1 DEF Overflow, history, SaidInv, Heard
<1> QED BY <1>8, <1>9, <1>11, <1>12, <1>13 DEF SaidInv

\* Again and Leave, from inside
LEMMA RunLeaves ==
  ASSUME SaidInv, NEW r \in Run, worker' = worker, Inside(r),
         \/ Goto(r, "ask") /\ job' = job
         \/ Goto(r, "nothing") /\ job' = job
         \/ Goto(r, "done") /\ job' = [job EXCEPT ![r] = NoJob]
  PROVE  /\ JobSays' /\ (worker' # Idle => (RequestSays /\ RequestShares)')
         /\ pc[r] # "answered" \/ Goto(r, "done") =>
              \A q \in Run : pc[q] \in {"answered", "done"} => pc'[q] \in {"answered", "done"}
<1>1. JobsOK /\ JobSays BY TypeParts DEF SaidInv
<1>2. pc[r] \notin {"new", "done"} BY DEF Inside
<1>3. job = [job EXCEPT ![r] = job[r]] /\ job[r] \in Jobs /\ Says(job[r], r) BY <1>1 DEF JobsOK, JobSays
<1>4. NoJob \in Jobs /\ Says(NoJob, r) BY NoJobType, NoJobSays
<1>5. {"ask", "nothing", "done"} \subseteq Places \ {"new"} BY DEF Places
<1>6. job[r].ask <= job[r].ask
  <2>1. job[r].ask \in Nat BY <1>3 DEF Jobs
  <2> QED BY <2>1
<1>7. JobSays' /\ (worker' # Idle => (RequestSays /\ RequestShares)')
  <2>1. CASE Goto(r, "ask") /\ job' = job BY <1>2, <1>3, <1>5, <1>6, <2>1, RunStep
  <2>2. CASE Goto(r, "nothing") /\ job' = job BY <1>2, <1>3, <1>5, <1>6, <2>2, RunStep
  <2>3. CASE Goto(r, "done") /\ job' = [job EXCEPT ![r] = NoJob] BY <1>2, <1>4, <1>5, <2>3, RunStep
  <2> QED BY <2>1, <2>2, <2>3
<1>8. ASSUME pc[r] # "answered" \/ Goto(r, "done"), NEW q \in Run, pc[q] \in {"answered", "done"}
      PROVE  pc'[q] \in {"answered", "done"}
  BY <1>1, <1>2, <1>8 DEF JobsOK, Goto
<1> QED BY <1>7, <1>8

LEMMA AgainLeaves ==
  ASSUME NEW r, Again(r)
  PROVE  \/ Goto(r, "ask") /\ job' = job
         \/ Goto(r, "done") /\ job' = [job EXCEPT ![r] = NoJob]
BY DEF Again, Leave

LEMMA SaidCompressed ==
  ASSUME ChatClientAssumption, SaidInv, TypeOK', NEW r \in Run, Compressed(r) PROVE SaidInv'
<1>1. Inside(r) /\ worker' = worker /\ context' = <<>> /\ said' = {} BY DEF Compressed, Replaced, Inside
<1>2. Again(r) BY DEF Compressed
<1>3. JobSays' /\ (worker' # Idle => (RequestSays /\ RequestShares)') BY <1>1, <1>2, AgainLeaves, RunLeaves
<1>4. SaidWhere' /\ Heard' BY <1>1, ContextGoes
<1> QED BY <1>3, <1>4 DEF SaidInv

LEMMA SaidCompressionFails ==
  ASSUME ChatClientAssumption, SaidInv, TypeOK', NEW r \in Run, CompressionFails(r) PROVE SaidInv'
<1>1. Inside(r) /\ Goto(r, "done") /\ job' = [job EXCEPT ![r] = NoJob]
  BY DEF CompressionFails, Leave, Inside
<1>2. worker' = worker /\ lost' = lost /\ late' = late BY DEF CompressionFails
<1>3. /\ JobSays' /\ (worker' # Idle => (RequestSays /\ RequestShares)')
      /\ \A q \in Run : pc[q] \in {"answered", "done"} => pc'[q] \in {"answered", "done"}
  BY <1>1, <1>2, RunLeaves
<1>4. \/ context' = context /\ said' = said
      \/ context' = <<>> /\ said' = {}
  BY DEF CompressionFails, Replaced
<1>5. SaidWhere' /\ Heard' BY <1>2, <1>3, <1>4, ContextStays, ContextGoes
<1> QED BY <1>3, <1>5 DEF SaidInv

LEMMA SaidUnanswered ==
  ASSUME ChatClientAssumption, SaidInv, TypeOK', NEW r \in Run, Unanswered(r) PROVE SaidInv'
<1>1. Inside(r) /\ pc[r] = "nothing" BY DEF Unanswered, Inside
<1>2. /\ worker' = worker /\ context' = context /\ said' = said /\ lost' = lost /\ late' = late
  BY DEF Unanswered, client, history
<1>3. JobsOK /\ JobSays BY TypeParts DEF SaidInv
<1>4. /\ JobSays' /\ (worker' # Idle => (RequestSays /\ RequestShares)')
      /\ \A q \in Run : pc[q] \in {"answered", "done"} => pc'[q] \in {"answered", "done"}
  <2>1. CASE first
    <3> DEFINE x == job[r]
    <3> DEFINE j == [x EXCEPT !.tries = @ - 1]
    <3>1. x \in Jobs /\ x.tries > 0 /\ Says(x, r) BY <1>1, <1>3 DEF JobsOK, JobSays
    <3>2. job' = [job EXCEPT ![r] = j] /\ Goto(r, "ask") BY <1>3, <2>1 DEF Unanswered, JobsOK
    <3>3. j \in Jobs /\ j.prompts = x.prompts /\ j.asked = x.asked /\ j.ask = x.ask /\ x.ask \in Nat
      <4> HIDE DEF x
      <4>1. x.tries - 1 \in Nat BY <3>1 DEF Jobs
      <4> QED BY <3>1, <4>1 DEF Jobs
    <3> HIDE DEF j
    <3>4. Says(j, r) /\ x.ask <= j.ask BY <3>1, <3>3 DEF Says
    <3>5. "ask" \in Places \ {"new"} BY DEF Places
    <3>6. JobSays' /\ (worker' # Idle => (RequestSays /\ RequestShares)')
      BY <1>1, <1>2, <3>2, <3>3, <3>4, <3>5, RunStep
    <3>7. \A q \in Run : pc[q] \in {"answered", "done"} => pc'[q] \in {"answered", "done"}
      BY <1>1, <1>3, <3>2 DEF JobsOK, Goto
    <3> QED BY <3>6, <3>7
  <2>2. CASE ~first
    <3>1. Again(r) BY <2>2 DEF Unanswered
    <3> QED BY <1>1, <1>2, <3>1, AgainLeaves, RunLeaves
  <2> QED BY <2>1, <2>2
<1>5. SaidWhere' /\ Heard' BY <1>2, <1>4, ContextStays
<1> QED BY <1>4, <1>5 DEF SaidInv

LEMMA SaidTimeout ==
  ASSUME ChatClientAssumption, SaidInv, TypeOK', NEW r \in Run, Timeout(r) PROVE SaidInv'
<1>1. Inside(r) /\ pc[r] = "asking" /\ Again(r) BY DEF Timeout, Inside
<1>2. /\ worker' = worker /\ context' = context /\ said' = said /\ lost' = lost /\ late' = late
  BY DEF Timeout, client, history
<1>3. /\ JobSays' /\ (worker' # Idle => (RequestSays /\ RequestShares)')
      /\ \A q \in Run : pc[q] \in {"answered", "done"} => pc'[q] \in {"answered", "done"}
  BY <1>1, <1>2, AgainLeaves, RunLeaves
<1>4. SaidWhere' /\ Heard' BY <1>2, <1>3, ContextStays
<1> QED BY <1>3, <1>4 DEF SaidInv

LEMMA SaidLeave ==
  ASSUME ChatClientAssumption, SaidInv, TypeOK', NEW r \in Run, Cancelled(r) \/ Answered(r) PROVE SaidInv'
<1>1. Inside(r) /\ Goto(r, "done") /\ job' = [job EXCEPT ![r] = NoJob]
  BY DEF Cancelled, Answered, Leave, Inside
<1>2. worker' = worker /\ context' = context /\ said' = said /\ lost' = lost
  BY DEF Cancelled, Answered, client
<1>0. late => late' BY DEF Cancelled, Answered
<1>3. /\ JobSays' /\ (worker' # Idle => (RequestSays /\ RequestShares)')
      /\ \A q \in Run : pc[q] \in {"answered", "done"} => pc'[q] \in {"answered", "done"}
  BY <1>1, <1>2, RunLeaves
<1>4. SaidWhere' /\ Heard' BY <1>0, <1>2, <1>3, ContextStays
<1> QED BY <1>3, <1>4 DEF SaidInv

LEMMA SaidInterrupt ==
  ASSUME ChatClientAssumption, SaidInv, TypeOK', Interrupt PROVE SaidInv'
<1>1. ClientOK BY TypeParts DEF SaidInv
<1>2. /\ worker' = worker /\ context' = context /\ said' = said /\ lost' = lost /\ late' = late
      /\ job' = job
  BY DEF Interrupt, client, history
<1>3. /\ JobSays' /\ (worker' # Idle => (RequestSays /\ RequestShares)')
      /\ \A q \in Run : pc[q] \in {"answered", "done"} => pc'[q] \in {"answered", "done"}
  <2>1. CASE worker # Idle /\ Waits(worker)
    <3> DEFINE r == worker.run
    <3>1. r \in Run BY <1>1, <2>1 DEF ClientOK, UnderWay
    <3>2. Goto(r, "nothing") /\ pc[r] = "asking" BY <2>1 DEF Interrupt, Waits
    <3> HIDE DEF r
    <3>3. Inside(r) BY <3>2 DEF Inside
    <3> QED BY <1>2, <3>1, <3>2, <3>3, RunLeaves
  <2>2. CASE ~(worker # Idle /\ Waits(worker))
    <3>1. pc' = pc BY <2>2 DEF Interrupt
    <3>2. JobSays' BY <1>2 DEF SaidInv, JobSays
    <3>3. worker' # Idle => (RequestSays /\ RequestShares)'
      BY <1>2, <3>1 DEF SaidInv, RequestSays, RequestShares, Inside, Waits
    <3> QED BY <3>1, <3>2, <3>3
  <2> QED BY <2>1, <2>2
<1>4. SaidWhere' /\ Heard' BY <1>2, <1>3, ContextStays
<1> QED BY <1>3, <1>4 DEF SaidInv

LEMMA SaidStart ==
  ASSUME ChatClientAssumption, SaidInv, TypeOK', Start PROVE SaidInv'
<1>1. ClientOK /\ JobsOK /\ JobSays BY TypeParts DEF SaidInv
<1> DEFINE q == Head(queue)
<1>2. q \in Requests /\ worker = Idle BY <1>1, HeadTailProperties DEF Start, ClientOK
<1>3. pc' = pc /\ job' = job /\ said' = said /\ lost' = lost /\ late' = late BY DEF Start, history
<1>4. JobSays' BY <1>1, <1>3 DEF JobSays
<1>5. CASE ~Waits(q)
  <2>1. context' = context /\ worker' = worker BY <1>5 DEF Start
  <2>2. SaidWhere' /\ Heard' BY <1>3, <2>1, ContextStays
  <2> QED BY <1>2, <1>4, <2>1, <2>2 DEF SaidInv
<1>6. CASE Waits(q)
  <2> DEFINE prompts == job[q.run].prompts
  <2> DEFINE all == Messages(Added(context, prompts))
  <2> DEFINE normal == Normalised(all)
  <2> DEFINE discards == normal.orphans \cup normal.closed
  <2>1. /\ context' = Discarded(context, discards)
        /\ worker' = [run |-> q.run, ask |-> q.ask, prompts |-> prompts, shared |-> TRUE,
                      discards |-> discards, notices |-> normal.notices]
    BY <1>6 DEF Start
  <2>2. q.run \in Run /\ q.ask \in Nat BY <1>2 DEF Requests
  <2>3. prompts \in Seq(Prompt) /\ TextsOf(prompts, q.run)
    <3>1. job[q.run] \in Jobs /\ Says(job[q.run], q.run) BY <1>1, <2>2 DEF JobsOK, JobSays
    <3> QED BY <3>1 DEF Jobs, Says
  <2>4. context \in Rounds(Prompt) /\ context \in Seq(Seq(Prompt)) BY <1>1, RoundsAreSeqs DEF ClientOK
  <2>5. pc[q.run] = "asking" /\ job[q.run].ask = q.ask BY <1>6 DEF Waits
  <2> HIDE DEF prompts
  <2>6. SeenOK(normal) BY <2>3, <2>4, NormalisedFacts
  <2> HIDE DEF all, normal
  <2> HIDE DEF q
  <2>7. Discardable(discards, normal.notices) /\ \A p \in ToSet(normal.notices) : p.kind = "notice"
    BY <2>6 DEF SeenOK, Discardable
  <2> HIDE DEF discards
  <2>8. /\ worker'.run = q.run /\ worker'.ask = q.ask /\ worker'.prompts = prompts /\ worker'.shared
        /\ worker'.discards = discards /\ worker'.notices = normal.notices
    BY <2>1
  <2>9. RequestSays' BY <2>3, <2>7, <2>8 DEF RequestSays
  <2>10. RequestShares'
    <3>1. q.ask <= q.ask BY <2>2
    <3> QED BY <1>3, <2>5, <2>8, <3>1 DEF RequestShares, Inside, Waits, prompts
  <2> DEFINE m == Messages(context)
  <2>11. m \in Seq(Prompt) /\ Messages(context') = Without(m, discards) BY <2>1, <2>4, MessagesFacts, DiscardedFacts
  <2>12. Messages(context)' = Messages(context') OBVIOUS
  <2> HIDE DEF m
  <2>13. SaidWhere'
    <3>1. said \subseteq Marks(m) \cup lost
      <4>1. Marks(worker.notices) = {} BY <1>2, MarksEmpty DEF Idle
      <4> QED BY <4>1 DEF SaidInv, SaidWhere, m
    <3>2. Marks(m) \subseteq Marks(Without(m, discards)) \cup Marks(normal.notices)
      BY <2>7, <2>11, MarksKept
    <3>3. Marks(worker'.notices) = Marks(normal.notices) BY <2>8
    <3> QED BY <1>3, <2>11, <2>12, <3>1, <3>2, <3>3 DEF SaidWhere
  <2>14. Heard'
    <3>1. ToSet(Without(m, discards)) \subseteq ToSet(m) BY <2>11, WithoutFacts
    <3>2. \A r : Once(m, Text(r)) => Once(Without(m, discards), Text(r)) BY <2>11, WithoutOnce
    <3>3. late \/ \A r \in Run : Once(m, Text(r)) /\ (Text(r) \in ToSet(m) => pc[r] \in {"answered", "done"})
      BY DEF SaidInv, Heard, m
    <3> QED BY <1>3, <2>11, <2>12, <3>1, <3>2, <3>3 DEF Heard
  <2> QED BY <1>4, <2>9, <2>10, <2>13, <2>14 DEF SaidInv
<1> QED BY <1>5, <1>6

LEMMA SaidNothing ==
  ASSUME ChatClientAssumption, SaidInv, TypeOK', Nothing PROVE SaidInv'
<1>1. ClientOK /\ JobsOK /\ JobSays BY TypeParts DEF SaidInv
<1>2. worker \in UnderWay /\ worker' = Idle /\ job' = job /\ context' = context /\ said' = said /\ late' = late
  BY <1>1 DEF Nothing, ClientOK, agent
<1>3. lost' = lost \cup Marks(worker.notices) BY DEF Nothing
<1>4. JobSays' BY <1>1, <1>2 DEF JobSays
<1>5. SaidWhere' BY <1>2, <1>3 DEF SaidInv, SaidWhere
<1>6. \A q \in Run : pc[q] \in {"answered", "done"} => pc'[q] \in {"answered", "done"}
  <2>1. CASE Waits(worker)
    <3>1. pc[worker.run] = "asking" /\ Goto(worker.run, "nothing") BY <2>1 DEF Nothing, Waits
    <3>2. worker.run \in Run BY <1>2 DEF UnderWay
    <3> QED BY <1>1, <3>1, <3>2 DEF JobsOK, Goto
  <2>2. CASE ~Waits(worker) BY <2>2 DEF Nothing
  <2> QED BY <2>1, <2>2
<1>7. Heard' BY <1>2, <1>6 DEF SaidInv, Heard
<1> QED BY <1>2, <1>4, <1>5, <1>7 DEF SaidInv

LEMMA OnceAbsent ==
  ASSUME NEW X, NEW s \in Seq(X), NEW x, x \notin ToSet(s) PROVE Once(s, x)
BY Members DEF Once

\* The prompts that are kept say what the request said.
LEMMA KeptSays ==
  ASSUME worker \in UnderWay, RequestSays
  PROVE  /\ Marks(worker.prompts) \subseteq Marks(Kept(worker.prompts))
         /\ Marks(worker.notices) \subseteq Marks(Kept(worker.prompts))
         /\ TextsOf(Kept(worker.prompts), worker.run)
<1> DEFINE ps == worker.prompts
<1> DEFINE D == worker.discards
<1> DEFINE ns == worker.notices
<1> DEFINE r == worker.run
<1>1. /\ Kept(ps) \in Seq(Prompt) /\ r \in Run /\ ps \in Seq(Prompt) /\ ns \in Seq(Prompt)
      /\ Without(ps, D) \in Seq(Prompt)
      /\ ToSet(Kept(ps)) = (ToSet(ps) \ D) \cup ToSet(ns)
  BY KeptFacts
<1>2. Discardable(D, ns) /\ (\A p \in ToSet(ns) : p.kind = "notice") /\ TextsOf(ps, r) BY DEF RequestSays
<1>3. Kept(ps) = Without(ps, D) \o ns BY DEF Kept
<1> HIDE DEF ps, D, ns, r
<1>4. ToSet(Without(ps, D)) = ToSet(ps) \ D BY <1>1, WithoutFacts
<1>5. Marks(Without(ps, D)) \subseteq Marks(Kept(ps)) /\ Marks(ns) \subseteq Marks(Kept(ps))
  BY <1>1, <1>4, MarksMonotone
<1>6. Marks(ps) \subseteq Marks(Without(ps, D)) \cup Marks(ns) BY <1>1, <1>2, MarksKept
<1>7. TextsOf(Kept(ps), r)
  <2>1. \A p \in ToSet(Kept(ps)) : p.kind = "text" => p = Text(r) BY <1>1, <1>2 DEF TextsOf
  <2>2. Once(Without(ps, D), Text(r)) BY <1>1, <1>2, WithoutOnce DEF TextsOf
  <2>3. Text(r) \notin ToSet(ns) BY <1>1, <1>2, PromptTypes
  <2>4. Once(ns, Text(r)) BY <1>1, <2>3, OnceAbsent
  <2>5. Once(Without(ps, D) \o ns, Text(r)) BY <1>1, <2>2, <2>3, <2>4, OnceConcat
  <2> QED BY <1>3, <2>1, <2>5 DEF TextsOf
<1> QED BY <1>5, <1>6, <1>7 DEF ps, ns, r

LEMMA SaidAnswer ==
  ASSUME ChatClientAssumption, SaidInv, TypeOK', Answer PROVE SaidInv'
<1>1. ClientOK /\ JobsOK /\ CountsOK /\ JobSays BY TypeParts DEF SaidInv
<1>2. worker \in UnderWay /\ RequestSays /\ RequestShares BY <1>1 DEF Answer, ClientOK, SaidInv
<1>3. PICK answer \in Answers : Answered_with(answer) BY AnswerWith
<1> DEFINE r == worker.run
<1> DEFINE ps == Kept(worker.prompts)
<1> DEFINE m == Messages(context)
<1> DEFINE n == Messages(context')
<1>4. worker' = Idle /\ lost' = lost BY DEF Answer
<1>5. answer \in Seq(Prompt) /\ \A p \in ToSet(answer) : p.kind \in {"call", "reply"}
  BY <1>1, AnswerFacts DEF CountsOK
<1>6. r \in Run /\ ps \in Seq(Prompt) BY <1>2, KeptFacts
<1>7. /\ Marks(worker.prompts) \subseteq Marks(ps) /\ Marks(worker.notices) \subseteq Marks(ps)
      /\ TextsOf(ps, r)
  BY <1>2, KeptSays
<1>8. /\ Waits(worker) => worker.shared /\ Inside(r)
      /\ worker.shared /\ Inside(r) => worker.prompts = job[r].prompts
  BY <1>2 DEF RequestShares, Waits, Inside
<1>9. Says(job[r], r) BY <1>1, <1>6 DEF JobSays
<1>10. worker.shared /\ Inside(r) => job[r].asked \subseteq Marks(ps) BY <1>7, <1>8, <1>9 DEF Says
<1>11. m \in Seq(Prompt) /\ n = (m \o ps) \o answer /\ m \o ps \in Seq(Prompt)
       /\ ToSet(n) = ToSet(m) \cup ToSet(ps) \cup ToSet(answer)
  <2>1. context \in Rounds(Prompt) BY <1>1 DEF ClientOK
  <2>2. context' = Added(Added(context, ps), answer) BY <1>3 DEF Answered_with
  <2>3. m \in Seq(Prompt) BY <2>1, RoundsAreSeqs, MessagesFacts
  <2> DEFINE mid == Added(context, ps)
  <2> HIDE DEF ps, m
  <2>4. mid \in Rounds(Prompt) /\ Messages(mid) = m \o ps BY <1>6, <2>1, AddedFacts DEF m
  <2>5. context' = Added(mid, answer) BY <2>2
  <2> HIDE DEF mid
  <2>6. n = Messages(mid) \o answer BY <1>5, <2>4, <2>5, AddedFacts
  <2> HIDE DEF n
  <2>7. m \o ps \in Seq(Prompt) /\ ToSet(m \o ps) = ToSet(m) \cup ToSet(ps) BY <1>6, <2>3, ConcatSet
  <2>8. ToSet((m \o ps) \o answer) = ToSet(m \o ps) \cup ToSet(answer)
    <3> DEFINE u == m \o ps
    <3>1. u \in Seq(Prompt) BY <2>7
    <3> HIDE DEF u
    <3>2. ToSet(u \o answer) = ToSet(u) \cup ToSet(answer) BY <1>5, <3>1, ConcatSet
    <3> QED BY <3>2 DEF u
  <2> QED BY <2>3, <2>4, <2>6, <2>7, <2>8
<1>12. Messages(context)' = n OBVIOUS
<1> DEFINE kept == IF worker.shared /\ Inside(r) THEN ps ELSE job[r].prompts
<1> DEFINE got == IF Waits(worker) THEN CallsOf(answer) ELSE job[r].got
<1> DEFINE place == IF Waits(worker) THEN "answered" ELSE pc[r]
<1> DEFINE j == [job[r] EXCEPT !.prompts = kept, !.got = got]
<1>13. job' = [job EXCEPT ![r] = j] /\ Goto(r, place)
  BY <1>2, <1>3, AnswerJob DEF SaidInv
<1>14. j.prompts = kept /\ j.asked = job[r].asked
  <2> DEFINE x == job[r]
  <2>1. x \in Jobs BY <1>1, <1>6 DEF JobsOK
  <2> HIDE DEF x, kept, got
  <2>2. [x EXCEPT !.prompts = kept, !.got = got].prompts = kept BY <2>1 DEF Jobs
  <2>3. [x EXCEPT !.prompts = kept, !.got = got].asked = x.asked BY <2>1 DEF Jobs
  <2> QED BY <2>2, <2>3 DEF x
<1> HIDE DEF j, place, got
<1>15. JobSays'
  <2>1. Says(j, r)
    <3>1. CASE worker.shared /\ Inside(r)
      <4>1. kept = ps BY <3>1
      <4> HIDE DEF kept, ps
      <4> QED BY <1>7, <1>10, <1>14, <3>1, <4>1 DEF Says
    <3>2. CASE ~(worker.shared /\ Inside(r))
      <4>1. kept = job[r].prompts BY <3>2
      <4> HIDE DEF kept
      <4> QED BY <1>9, <1>14, <4>1 DEF Says
    <3> QED BY <3>1, <3>2
  <2>2. \A q \in Run : job'[q] = IF q = r THEN j ELSE job[q] BY <1>1, <1>13 DEF JobsOK
  <2> SUFFICES ASSUME NEW q \in Run PROVE Says(job'[q], q) BY DEF JobSays
  <2>3. Says(job[q], q) BY <1>1 DEF JobSays
  <2> QED BY <2>1, <2>2, <2>3
<1> HIDE DEF kept, ps, m, n
<1>16. SaidWhere'
  <2>1. said \subseteq Marks(m) \cup Marks(worker.notices) \cup lost BY DEF SaidInv, SaidWhere, m
  <2>2. Marks(m) \subseteq Marks(n) /\ Marks(ps) \subseteq Marks(n) BY <1>11, MarksMonotone
  <2>3. said' \subseteq said \cup Marks(ps)
    <3>1. CASE Waits(worker)
      <4>1. said' = said \cup job[r].asked BY <1>3, <3>1 DEF Answered_with
      <4> QED BY <1>8, <1>10, <3>1, <4>1
    <3>2. CASE ~Waits(worker) BY <1>3, <3>2 DEF Answered_with
    <3> QED BY <3>1, <3>2
  <2>4. said' \subseteq Marks(n) \cup lost BY <1>7, <2>1, <2>2, <2>3
  <2> QED BY <1>4, <1>12, <2>4 DEF SaidWhere
<1>17. Heard'
  <2>1. CASE ~Waits(worker) \/ late
    <3>1. late' = TRUE \/ late' = late BY <1>3 DEF Answered_with
    <3>2. ~Waits(worker) => late' = TRUE BY <1>3 DEF Answered_with
    <3>3. late => late' BY <3>1
    <3> QED BY <2>1, <3>2, <3>3 DEF Heard
  <2>2. CASE Waits(worker) /\ ~late
    <3>1. \A q \in Run : /\ Once(m, Text(q))
                         /\ Text(q) \in ToSet(m) => pc[q] \in {"answered", "done"}
      BY <2>2 DEF SaidInv, Heard, m
    <3>2. pc[r] = "asking" /\ Goto(r, "answered") BY <1>3, <2>2 DEF Waits, Answered_with
    <3>3. \A q \in Run : pc'[q] = IF q = r THEN "answered" ELSE pc[q] BY <1>1, <3>2 DEF JobsOK, Goto
    <3>4. ASSUME NEW q \in Run
          PROVE  Once(n, Text(q)) /\ (Text(q) \in ToSet(n) => pc'[q] \in {"answered", "done"})
      <4>1. Text(q).kind = "text" /\ Text(q) \notin ToSet(answer) BY <1>5, PromptTypes
      <4>2. Once(answer, Text(q)) BY <1>5, <4>1, OnceAbsent
      <4>3. CASE q = r
        <5>1. Text(q) \notin ToSet(m) BY <3>1, <3>2, <4>3
        <5>2. Once(ps, Text(q)) BY <1>7, <4>3 DEF TextsOf
        <5>3. Once(m \o ps, Text(q)) BY <1>6, <1>11, <3>1, <5>1, <5>2, OnceConcat
        <5>4. Once(n, Text(q)) BY <1>5, <1>11, <4>1, <4>2, <5>3, OnceConcat
        <5> QED BY <3>3, <4>3, <5>4
      <4>4. CASE q # r
        <5>1. Text(q) # Text(r) BY <1>6, <4>4, PromptTypes
        <5>2. Text(q) \notin ToSet(ps) BY <1>7, <4>1, <5>1 DEF TextsOf
        <5>3. Once(ps, Text(q)) BY <1>6, <5>2, OnceAbsent
        <5>4. Once(m \o ps, Text(q)) BY <1>6, <1>11, <3>1, <5>2, <5>3, OnceConcat
        <5>5. Once(n, Text(q)) BY <1>5, <1>11, <4>1, <4>2, <5>4, OnceConcat
        <5>6. Text(q) \in ToSet(n) => Text(q) \in ToSet(m) BY <1>11, <4>1, <5>2
        <5> QED BY <3>1, <3>3, <4>4, <5>5, <5>6
      <4> QED BY <4>3, <4>4
    <3> QED BY <1>12, <3>4 DEF Heard
  <2> QED BY <2>1, <2>2
<1> QED BY <1>4, <1>15, <1>16, <1>17 DEF SaidInv

LEMMA SaidInit == ASSUME ChatClientAssumption, Init PROVE SaidInv
<1>1. TypeOK BY TypeInit
<1>2. Messages(context) = <<>> /\ ToSet(<<>>) = {} /\ \A x : Once(<<>>, x)
  BY MessagesEmpty, EmptyFacts DEF Init, Once
<1>3. Heard BY <1>2 DEF Heard
<1>4. SaidWhere BY DEF Init, SaidWhere
<1>5. JobSays BY NoJobSays DEF Init, JobSays
<1>6. worker = Idle BY DEF Init
<1> QED BY <1>1, <1>3, <1>4, <1>5, <1>6 DEF SaidInv

LEMMA SaidStep ==
  ASSUME ChatClientAssumption, SaidInv, [Next]_vars PROVE SaidInv'
<1>1. TypeOK' BY TypeStep DEF SaidInv
<1>2. CASE UNCHANGED vars
  <2>1. UNCHANGED <<context, worker, pc, job, said, lost, late>> BY <1>2 DEF vars, client, history
  <2>2. SaidWhere' /\ JobSays' /\ Heard' BY <2>1 DEF SaidInv, SaidWhere, JobSays, Heard
  <2>3. worker' # Idle => (RequestSays /\ RequestShares)'
    BY <2>1 DEF SaidInv, RequestSays, RequestShares, Inside, Waits
  <2> QED BY <1>1, <2>2, <2>3 DEF SaidInv
<1>3. ASSUME NEW r \in Run,
             Begin(r) \/ Ask(r) \/ Overflow(r) \/ Compressed(r) \/ CompressionFails(r)
                \/ Unanswered(r) \/ Timeout(r) \/ Cancelled(r) \/ Answered(r)
      PROVE  SaidInv'
  BY <1>1, <1>3, SaidBegin, SaidAsk, SaidOverflow, SaidCompressed, SaidCompressionFails, SaidUnanswered,
     SaidTimeout, SaidLeave
<1>4. CASE Interrupt \/ Start \/ Nothing \/ Answer
  BY <1>1, <1>4, SaidInterrupt, SaidStart, SaidNothing, SaidAnswer
<1> QED BY <1>2, <1>3, <1>4 DEF Next

LEMMA SaidInvStays == ASSUME SaidInv PROVE SaidStays
<1> DEFINE m == Messages(context)
<1>1. m \in Seq(Prompt) BY TypeParts, RoundsAreSeqs, MessagesFacts DEF SaidInv, ClientOK
<1>2. late \/ \A r \in Run : Once(m, Text(r)) BY DEF SaidInv, Heard
<1>3. said \subseteq Marks(m) \cup Marks(worker.notices) \cup lost BY DEF SaidInv, SaidWhere
<1> HIDE DEF m
<1>4. ASSUME ~late, NEW i \in DOMAIN m, NEW k \in DOMAIN m, m[i].kind = "text", m[i] = m[k] PROVE i = k
  <2>1. m[i] \in Prompt BY <1>1, Members
  <2>2. PICK r \in Run : m[i] = Text(r) BY <1>4, <2>1, PromptKinds
  <2>3. Once(m, Text(r)) BY <1>2, <1>4
  <2> QED BY <1>4, <2>2, <2>3 DEF Once
<1> QED BY <1>3, <1>4 DEF SaidStays, m

\* What an answered request has said, questions and results of calls, stays in the
\* context but for a notice whose request brings nothing, and no question is in it
\* twice unless an answer came for nobody: for any number of runs, requests, calls,
\* faults and interrupts, of rounds and of prompts in them.
THEOREM SaidStaysCorrect == Spec => []SaidStays
<1>1. Init => SaidInv BY SaidInit, ChatClientAssumption
<1>2. SaidInv /\ [Next]_vars => SaidInv' BY SaidStep, ChatClientAssumption
<1>3. SaidInv => SaidStays BY SaidInvStays
<1> QED BY <1>1, <1>2, <1>3, PTL DEF Spec

------------------------------------------------------------------------------
\* Results answer their own calls: as long as runs follow one another and no answer
\* comes late, the calls that wait in the context are those that are open, and some
\* that were let go, and what the run in its turn sets out to say answers each of the
\* open ones.

Alone == \A p, q \in Run : Inside(p) /\ Inside(q) => p = q

ContextClean ==
  /\ (\A r \in Run : pc[r] \notin {"answered", "compressing"}) =>
        Clean(Messages(context), open, abandoned, calls)
  /\ \A r \in Run : pc[r] = "answered" => Clean(Messages(context), job[r].got, abandoned, calls)
  /\ \A r \in Run : pc[r] = "compressing" =>
        open = {} /\ Clean(Messages(context), job[r].away, abandoned, calls)

Prepared ==
  \A r \in Run :
    pc[r] \in {"ask", "asking", "nothing", "compressing"} => Resolves(job[r].prompts, open)

PayloadClean ==
  \A p \in ToSet(payload) : p.kind # "notice" /\ (p.kind = "missing" => p.call \in abandoned)

RequestClean ==
  worker # Idle /\ Waits(worker) => worker.discards \subseteq CallSet(abandoned) /\ worker.notices = <<>>

Orderly == Alone /\ ContextClean /\ Prepared /\ PayloadClean /\ RequestClean

ResultsInv == SaidInv /\ (late \/ unusual \/ Orderly)

\* What Orderly needs of a step of the one run that is in its turn
LEMMA TurnStep ==
  ASSUME TypeOK, TypeOK', PayloadClean, NEW r \in Run, NEW place, place # "answered",
         \A q \in Run \ {r} : ~Inside(q),
         Goto(r, place), payload' = payload, abandoned \subseteq abandoned',
         worker' # Idle /\ worker'.run = r /\ place = "asking" => job'[r].ask # worker'.ask,
         place = "compressing" =>
           open' = {} /\ Clean(Messages(context'), job'[r].away, abandoned', calls'),
         place # "compressing" => Clean(Messages(context'), open', abandoned', calls'),
         place \in {"ask", "asking", "nothing", "compressing"} => Resolves(job'[r].prompts, open')
  PROVE  Orderly'
<1>1. JobsOK /\ ClientOK' BY TypeParts, TypePartsNext
<1>2. pc'[r] = place /\ \A q \in Run \ {r} : pc'[q] = pc[q] /\ pc'[q] \in {"new", "done"}
  BY <1>1 DEF JobsOK, Goto, Inside
<1>3. Alone' BY <1>2 DEF Alone, Inside
<1>4. ContextClean'
  <2>1. \A q \in Run : pc'[q] # "answered" BY <1>2
  <2>2. \A q \in Run : pc'[q] = "compressing" =>
          open' = {} /\ Clean(Messages(context'), job'[q].away, abandoned', calls')
    BY <1>2
  <2>3. (\A q \in Run : pc'[q] \notin {"answered", "compressing"}) =>
          Clean(Messages(context'), open', abandoned', calls')
    BY <1>2
  <2>4. Messages(context)' = Messages(context') OBVIOUS
  <2> QED BY <2>1, <2>2, <2>3, <2>4 DEF ContextClean
<1>5. Prepared'
  <2> SUFFICES ASSUME NEW q \in Run, pc'[q] \in {"ask", "asking", "nothing", "compressing"}
               PROVE  Resolves(job'[q].prompts, open')
    BY DEF Prepared
  <2>1. q = r BY <1>2
  <2> QED BY <1>2, <2>1
<1>6. PayloadClean' BY DEF PayloadClean
<1>7. RequestClean'
  <2> SUFFICES ASSUME worker' # Idle, pc'[worker'.run] = "asking", job'[worker'.run].ask = worker'.ask
               PROVE  FALSE
    BY DEF RequestClean, Waits
  <2>1. worker'.run \in Run BY <1>1 DEF ClientOK, UnderWay
  <2>2. worker'.run = r BY <1>2, <2>1
  <2> QED BY <1>2, <2>2
<1> QED BY <1>3, <1>4, <1>5, <1>6, <1>7 DEF Orderly

\* What is known of the one run in its turn
LEMMA TurnFacts ==
  ASSUME Orderly, NEW r \in Run, Inside(r)
  PROVE  /\ \A q \in Run \ {r} : ~Inside(q)
         /\ pc[r] \notin {"answered", "compressing"} => Clean(Messages(context), open, abandoned, calls)
         /\ pc[r] = "answered" => Clean(Messages(context), job[r].got, abandoned, calls)
         /\ pc[r] = "compressing" => open = {} /\ Clean(Messages(context), job[r].away, abandoned, calls)
         /\ pc[r] \in {"ask", "asking", "nothing", "compressing"} => Resolves(job[r].prompts, open)
<1>1. \A q \in Run \ {r} : ~Inside(q) BY DEF Orderly, Alone
<1>2. \A q \in Run \ {r} : pc[q] \notin {"answered", "compressing"} BY <1>1 DEF Inside
<1>3. pc[r] \notin {"answered", "compressing"} => Clean(Messages(context), open, abandoned, calls)
  BY <1>2 DEF Orderly, ContextClean
<1>4. pc[r] = "answered" => Clean(Messages(context), job[r].got, abandoned, calls) BY DEF Orderly, ContextClean
<1>5. pc[r] = "compressing" => open = {} /\ Clean(Messages(context), job[r].away, abandoned, calls)
  BY DEF Orderly, ContextClean
<1>6. pc[r] \in {"ask", "asking", "nothing", "compressing"} => Resolves(job[r].prompts, open)
  BY DEF Orderly, Prepared
<1> QED BY <1>1, <1>3, <1>4, <1>5, <1>6

LEMMA TextResolves ==
  ASSUME ChatClientAssumption, NEW r \in Run PROVE Resolves(<<Text(r)>>, {})
<1> DEFINE x == Text(r)
<1>1. x \in Prompt /\ x.kind = "text" BY PromptTypes
<1> HIDE DEF x
<1>2. ASSUME NEW m \in Seq(Prompt), NEW n \in Nat, NEW D, Clean(m, {}, D, n)
      PROVE  Clean(m \o <<x>>, {}, D, n)
  <2>1. m \o <<x>> = Append(m, x) BY <1>1, AppendIsConcat
  <2>2. Clean(Append(m, x), {}, D, n) BY <1>1, <1>2, CleanSteps
  <2> QED BY <2>1, <2>2
<1>3. \A p \in ToSet(<<x>>) : p.kind # "call" BY <1>1 DEF ToSet
<1> QED BY <1>2, <1>3 DEF Resolves, x

LEMMA OrderBegin ==
  ASSUME ChatClientAssumption, SaidInv, TypeOK', Orderly, ~unusual', NEW r \in Run, Begin(r) PROVE Orderly'
<1>1. ClientOK /\ JobsOK /\ CountsOK /\ FlagsOK BY TypeParts DEF SaidInv
<1>2. PICK speaks \in BOOLEAN :
        LET forced == Times(r) >= ReactLimit - 1
            listed == RollsBack /\ open # {}
            results == IF RollsBack THEN <<>> ELSE Results(r, forced)
            words == IF speaks \/ listed THEN <<Text(r)>> ELSE <<>>
            new == Question(results, words)
        IN  /\ \/ Leave(r)
               \/ /\ Goto(r, "ask")
                  /\ job' = [job EXCEPT ![r] = [NoJob EXCEPT !.prompts = new, !.asked = Marks(new)]]
            /\ unusual' = (unusual \/ RollsBack \/ (forced /\ results # <<>>)
                                   \/ \E s \in Run : Inside(s))
  BY DEF Begin
<1> DEFINE forced == Times(r) >= ReactLimit - 1
<1> DEFINE results == Results(r, forced)
<1> DEFINE words == IF speaks THEN <<Text(r)>> ELSE <<>>
<1> DEFINE new == Question(results, words)
<1> DEFINE j == [NoJob EXCEPT !.prompts = new, !.asked = Marks(new)]
<1>3. ~RollsBack /\ \A s \in Run : ~Inside(s) BY <1>2
<1>4. forced => results = <<>> BY <1>2, <1>3
<1>5. Leave(r) \/ (Goto(r, "ask") /\ job' = [job EXCEPT ![r] = j]) BY <1>2, <1>3
<1>6. context' = context /\ open' = open /\ abandoned' = abandoned /\ calls' = calls BY <1>3 DEF Begin
<1>7. worker' = worker /\ payload' = payload /\ abandoned \subseteq abandoned' BY DEF Begin
<1>8. Clean(Messages(context), open, abandoned, calls)
  <2>1. \A q \in Run : pc[q] \notin {"answered", "compressing"} BY <1>3 DEF Inside
  <2> QED BY <2>1 DEF Orderly, ContextClean
<1>9. Resolves(new, open)
  <2>1. words = <<>> \/ words = <<Text(r)>> OBVIOUS
  <2>2. forced \in BOOLEAN OBVIOUS
  <2> HIDE DEF words, forced
  <2> QED BY <1>1, <1>4, <2>1, <2>2, QuestionResolves DEF CountsOK
<1> HIDE DEF new
<1>10. Clean(Messages(context'), open', abandoned', calls') BY <1>6, <1>8
<1>11. CASE Leave(r)
  <2>1. Goto(r, "done") BY <1>11 DEF Leave
  <2> QED BY <1>3, <1>7, <1>10, <2>1, TurnStep DEF SaidInv, Orderly
<1>12. CASE Goto(r, "ask") /\ job' = [job EXCEPT ![r] = j]
  <2>1. j.prompts = new BY DEF NoJob
  <2> HIDE DEF j
  <2>2. job'[r] = j BY <1>1, <1>12 DEF JobsOK
  <2>3. Resolves(job'[r].prompts, open') BY <1>6, <1>9, <2>1, <2>2
  <2> QED BY <1>3, <1>7, <1>10, <1>12, <2>3, TurnStep DEF SaidInv, Orderly
<1> QED BY <1>5, <1>11, <1>12

LEMMA OrderAsk ==
  ASSUME ChatClientAssumption, SaidInv, TypeOK', Orderly, NEW r \in Run, Ask(r) PROVE Orderly'
<1>1. ClientOK /\ JobsOK BY TypeParts DEF SaidInv
<1>2. /\ pc[r] = "ask" /\ Goto(r, "asking") /\ worker' = worker /\ payload' = payload /\ open' = open
      /\ context' = context /\ abandoned' = abandoned /\ calls' = calls
  BY DEF Ask, agent, history
<1>3. Inside(r) BY <1>2 DEF Inside
<1>4. /\ \A q \in Run \ {r} : ~Inside(q)
      /\ Clean(Messages(context), open, abandoned, calls) /\ Resolves(job[r].prompts, open)
  BY <1>2, <1>3, TurnFacts
<1> DEFINE x == job[r]
<1>5. x \in Jobs BY <1>1 DEF JobsOK
<1>6. job'[r] = [x EXCEPT !.tries = @ + 1, !.ask = @ + 1] BY <1>1 DEF Ask, JobsOK
<1>7. job'[r].prompts = x.prompts /\ job'[r].ask = x.ask + 1 /\ x.ask \in Nat
  <2> HIDE DEF x
  <2>1. /\ [x EXCEPT !.tries = x.tries + 1, !.ask = x.ask + 1].prompts = x.prompts
        /\ [x EXCEPT !.tries = x.tries + 1, !.ask = x.ask + 1].ask = x.ask + 1
        /\ x.ask \in Nat
    BY <1>5 DEF Jobs
  <2> QED BY <1>6, <2>1
<1>8. ASSUME worker' # Idle, worker'.run = r PROVE job'[r].ask # worker'.ask
  <2>1. worker \in UnderWay /\ worker.ask <= x.ask
    BY <1>1, <1>2, <1>3, <1>8 DEF SaidInv, RequestShares, ClientOK
  <2>2. worker.ask \in Nat BY <2>1 DEF UnderWay
  <2> QED BY <1>2, <1>7, <2>1, <2>2
<1>9. Clean(Messages(context'), open', abandoned', calls') /\ Resolves(job'[r].prompts, open') BY <1>2, <1>4, <1>7
<1> QED BY <1>2, <1>4, <1>8, <1>9, TurnStep DEF SaidInv, Orderly

LEMMA OrderOverflow ==
  ASSUME ChatClientAssumption, SaidInv, TypeOK', Orderly, NEW r \in Run, Overflow(r) PROVE Orderly'
<1>1. JobsOK BY TypeParts DEF SaidInv
<1>2. /\ pc[r] = "ask" /\ Goto(r, "compressing") /\ payload' = payload /\ open' = {}
      /\ UNCHANGED <<context, abandoned, calls>>
  BY DEF Overflow, history
<1>3. Inside(r) BY <1>2 DEF Inside
<1>4. (\A q \in Run \ {r} : ~Inside(q)) /\ Clean(Messages(context), open, abandoned, calls)
  BY <1>2, <1>3, TurnFacts
<1> DEFINE x == job[r]
<1> DEFINE t == <<Text(r)>>
<1> DEFINE a == {<<"run", r>>}
<1>5. x \in Jobs BY <1>1 DEF JobsOK
<1>6. job'[r] = [x EXCEPT !.tries = x.tries + 1, !.prompts = t, !.asked = a, !.away = open]
  BY <1>1 DEF Overflow, JobsOK
<1> HIDE DEF x, t, a
<1>7. job'[r].prompts = t /\ job'[r].away = open BY <1>5, <1>6 DEF Jobs
<1>8. Resolves(job'[r].prompts, open') BY <1>2, <1>7, TextResolves DEF t
<1>9. Clean(Messages(context'), job'[r].away, abandoned', calls') BY <1>2, <1>4, <1>7
<1> QED BY <1>2, <1>4, <1>8, <1>9, TurnStep DEF SaidInv, Orderly

LEMMA OrderCompressed ==
  ASSUME ChatClientAssumption, SaidInv, TypeOK', Orderly, NEW r \in Run, Compressed(r) PROVE Orderly'
<1>1. /\ pc[r] = "compressing" /\ payload' = payload /\ open' = open /\ context' = <<>>
      /\ UNCHANGED <<abandoned, calls>>
  BY DEF Compressed, Replaced
<1>2. Inside(r) BY <1>1 DEF Inside
<1>3. (\A q \in Run \ {r} : ~Inside(q)) /\ open = {} /\ Resolves(job[r].prompts, open)
  BY <1>1, <1>2, TurnFacts
<1>4. Clean(Messages(context'), open', abandoned', calls')
  <2>1. abandoned \subseteq 1..calls BY TypeParts DEF SaidInv, CountsOK
  <2> QED BY <1>1, <1>3, <2>1, MessagesEmpty, EmptyClean
<1>5. (Goto(r, "ask") /\ job' = job) \/ Goto(r, "done") BY AgainLeaves DEF Compressed
<1>6. CASE Goto(r, "ask") /\ job' = job
  <2>1. Resolves(job'[r].prompts, open') BY <1>1, <1>3, <1>6
  <2> QED BY <1>1, <1>3, <1>4, <1>6, <2>1, TurnStep DEF SaidInv, Orderly
<1>7. CASE Goto(r, "done") BY <1>1, <1>3, <1>4, <1>7, TurnStep DEF SaidInv, Orderly
<1> QED BY <1>5, <1>6, <1>7

LEMMA OrderCompressionFails ==
  ASSUME ChatClientAssumption, SaidInv, TypeOK', Orderly, NEW r \in Run, CompressionFails(r) PROVE Orderly'
<1>1. /\ pc[r] = "compressing" /\ payload' = payload /\ open' = open /\ calls' = calls
      /\ Goto(r, "done")
  BY DEF CompressionFails, Leave
<1>2. Inside(r) BY <1>1 DEF Inside
<1>3. /\ (\A q \in Run \ {r} : ~Inside(q)) /\ open = {}
      /\ Clean(Messages(context), job[r].away, abandoned, calls)
  BY <1>1, <1>2, TurnFacts
<1>4. Clean(Messages(context'), open', abandoned', calls') /\ abandoned \subseteq abandoned'
  <2>1. CASE context' = <<>> /\ abandoned' = abandoned
    <3>1. abandoned \subseteq 1..calls BY TypeParts DEF SaidInv, CountsOK
    <3> QED BY <1>1, <1>3, <2>1, <3>1, MessagesEmpty, EmptyClean
  <2>2. CASE context' = context /\ abandoned' = abandoned \cup job[r].away
    <3> DEFINE P == job[r].away
    <3>1. Clean(Messages(context), P, abandoned, calls) BY <1>3
    <3>2. abandoned' = abandoned \cup (P \ {}) BY <2>2
    <3> HIDE DEF P
    <3>3. Clean(Messages(context), {}, abandoned \cup (P \ {}), calls) BY <3>1, CleanLetGo
    <3> QED BY <1>1, <1>3, <2>2, <3>2, <3>3
  <2> QED BY <2>1, <2>2 DEF CompressionFails, Replaced
<1> QED BY <1>1, <1>3, <1>4, TurnStep DEF SaidInv, Orderly

\* The run asks again, is told that there is nothing, or leaves.
LEMMA OrderTurn ==
  ASSUME ChatClientAssumption, SaidInv, TypeOK', Orderly, NEW r \in Run, pc[r] \in {"ask", "asking", "nothing"},
         UNCHANGED <<context, payload, open, abandoned, calls>>,
         \/ (Goto(r, "ask") \/ Goto(r, "nothing")) /\ job'[r].prompts = job[r].prompts
         \/ Goto(r, "done")
  PROVE  Orderly'
<1>1. Inside(r) BY DEF Inside
<1>2. /\ \A q \in Run \ {r} : ~Inside(q)
      /\ Clean(Messages(context), open, abandoned, calls) /\ Resolves(job[r].prompts, open)
  BY <1>1, TurnFacts
<1>3. Clean(Messages(context'), open', abandoned', calls') BY <1>2
<1>4. CASE (Goto(r, "ask") \/ Goto(r, "nothing")) /\ job'[r].prompts = job[r].prompts
  <2>1. Resolves(job'[r].prompts, open') BY <1>2, <1>4
  <2> QED BY <1>2, <1>3, <1>4, <2>1, TurnStep DEF SaidInv, Orderly
<1>5. CASE Goto(r, "done") BY <1>2, <1>3, <1>5, TurnStep DEF SaidInv, Orderly
<1> QED BY <1>4, <1>5

LEMMA OrderUnanswered ==
  ASSUME ChatClientAssumption, SaidInv, TypeOK', Orderly, NEW r \in Run,
         Unanswered(r) \/ Timeout(r) \/ (Cancelled(r) /\ ~late')
  PROVE  Orderly'
<1>1. JobsOK BY TypeParts DEF SaidInv
<1>2. pc[r] \in {"ask", "asking", "nothing"} /\ UNCHANGED <<context, payload, open, abandoned, calls>>
  BY DEF Unanswered, Timeout, Cancelled, client, history
<1>3. \/ (Goto(r, "ask") \/ Goto(r, "nothing")) /\ job'[r].prompts = job[r].prompts
      \/ Goto(r, "done")
  <2>1. CASE Again(r) BY <2>1, AgainLeaves
  <2>2. CASE Leave(r) BY <2>2 DEF Leave
  <2>3. CASE Unanswered(r) /\ first
    <3> DEFINE x == job[r]
    <3>1. x \in Jobs BY <1>1 DEF JobsOK
    <3>2. job'[r] = [x EXCEPT !.tries = @ - 1] /\ Goto(r, "ask") BY <1>1, <2>3 DEF Unanswered, JobsOK
    <3> HIDE DEF x
    <3>3. job'[r].prompts = x.prompts BY <3>1, <3>2 DEF Jobs
    <3> QED BY <3>2, <3>3 DEF x
  <2>4. CASE Unanswered(r) /\ ~first BY <2>1, <2>4 DEF Unanswered
  <2>5. CASE Timeout(r) BY <2>1, <2>5 DEF Timeout
  <2>6. CASE Cancelled(r) BY <2>2, <2>6 DEF Cancelled
  <2> QED BY <2>3, <2>4, <2>5, <2>6
<1> QED BY <1>2, <1>3, OrderTurn

LEMMA OrderAnswered ==
  ASSUME ChatClientAssumption, SaidInv, TypeOK', Orderly, NEW r \in Run, Answered(r) PROVE Orderly'
<1>1. /\ pc[r] = "answered" /\ Goto(r, "done") /\ payload' = payload /\ context' = context
      /\ calls' = calls
  BY DEF Answered, Leave, client
<1>2. PICK tasks \in SUBSET job[r].got :
        open' = tasks /\ abandoned' = abandoned \cup (job[r].got \ tasks)
  BY DEF Answered
<1>3. Inside(r) BY <1>1 DEF Inside
<1>4. (\A q \in Run \ {r} : ~Inside(q)) /\ Clean(Messages(context), job[r].got, abandoned, calls)
  BY <1>1, <1>3, TurnFacts
<1> DEFINE P == job[r].got
<1> HIDE DEF P
<1>5. Clean(Messages(context), tasks, abandoned \cup (P \ tasks), calls) BY <1>2, <1>4, CleanLetGo DEF P
<1>6. Clean(Messages(context'), open', abandoned', calls') BY <1>1, <1>2, <1>5 DEF P
<1>7. abandoned \subseteq abandoned' BY <1>2
<1> QED BY <1>1, <1>4, <1>6, <1>7, TurnStep DEF SaidInv, Orderly

LEMMA OrderInterrupt ==
  ASSUME ChatClientAssumption, SaidInv, TypeOK', Orderly, Interrupt PROVE Orderly'
<1>1. ClientOK BY TypeParts DEF SaidInv
<1>2. UNCHANGED <<context, payload, open, worker, job, abandoned, calls>> BY DEF Interrupt, client, history
<1>3. CASE worker # Idle /\ Waits(worker)
  <2> DEFINE r == worker.run
  <2>1. r \in Run BY <1>1, <1>3 DEF ClientOK, UnderWay
  <2>2. Goto(r, "nothing") /\ pc[r] = "asking" BY <1>3 DEF Interrupt, Waits
  <2> HIDE DEF r
  <2> QED BY <1>2, <2>1, <2>2, OrderTurn
<1>4. CASE ~(worker # Idle /\ Waits(worker))
  <2>1. pc' = pc BY <1>4 DEF Interrupt
  <2> QED BY <1>2, <2>1 DEF Orderly, Alone, Inside, ContextClean, Prepared, PayloadClean, RequestClean, Waits
<1> QED BY <1>3, <1>4

LEMMA OrderNothing ==
  ASSUME ChatClientAssumption, SaidInv, TypeOK', Orderly, Nothing PROVE Orderly'
<1>1. ClientOK BY TypeParts DEF SaidInv
<1>2. worker' = Idle /\ payload' = <<>> /\ UNCHANGED <<context, open, job, abandoned, calls>>
  BY DEF Nothing, agent
<1>3. PayloadClean' BY <1>2, EmptyFacts DEF PayloadClean
<1>4. RequestClean' BY <1>2 DEF RequestClean
<1>5. CASE Waits(worker)
  <2> DEFINE r == worker.run
  <2>1. r \in Run BY <1>1 DEF Nothing, ClientOK, UnderWay
  <2>2. Goto(r, "nothing") /\ pc[r] = "asking" BY <1>5 DEF Nothing, Waits
  <2> HIDE DEF r
  <2>3. Inside(r) BY <2>2 DEF Inside
  <2>4. \A q \in Run : pc'[q] = IF q = r THEN "nothing" ELSE pc[q]
    BY <2>1, <2>2, TypeParts DEF SaidInv, JobsOK, Goto
  <2>5. /\ \A q \in Run \ {r} : ~Inside(q)
        /\ Clean(Messages(context), open, abandoned, calls) /\ Resolves(job[r].prompts, open)
    BY <2>1, <2>2, <2>3, TurnFacts
  <2>6. Alone' BY <2>4, <2>5 DEF Alone, Inside
  <2>7. ContextClean' BY <1>2, <2>4, <2>5 DEF ContextClean, Inside
  <2>8. Prepared' BY <1>2, <2>4, <2>5 DEF Prepared, Inside
  <2> QED BY <1>3, <1>4, <2>6, <2>7, <2>8 DEF Orderly
<1>6. CASE ~Waits(worker)
  <2>1. pc' = pc BY <1>6 DEF Nothing
  <2>2. Alone' /\ ContextClean' /\ Prepared' BY <1>2, <2>1 DEF Orderly, Alone, Inside, ContextClean, Prepared
  <2> QED BY <1>3, <1>4, <2>2 DEF Orderly
<1> QED BY <1>5, <1>6

\* What a request sends, and that the context loses no call that is open
LEMMA StartFacts ==
  ASSUME ChatClientAssumption, SaidInv, Orderly, Start, Waits(Head(queue))
  PROVE  LET r == Head(queue).run
             all == Messages(context) \o job[r].prompts
         IN  /\ r \in Run /\ job[r].prompts \in Seq(Prompt) /\ Messages(context) \in Seq(Prompt)
             /\ payload' = Normalised(all).sent
             /\ Clean(Messages(context'), open, abandoned, calls)
             /\ PayloadClean' /\ RequestClean'
<1>1. ClientOK /\ JobsOK /\ calls \in Nat BY TypeParts DEF SaidInv, CountsOK
<1> DEFINE q == Head(queue)
<1>2. q \in Requests BY <1>1, HeadTailProperties DEF Start, ClientOK
<1> DEFINE r == q.run
<1> DEFINE prompts == job[r].prompts
<1> DEFINE all == Messages(Added(context, prompts))
<1> DEFINE normal == Normalised(all)
<1> DEFINE discards == normal.orphans \cup normal.closed
<1>3. /\ context' = Discarded(context, discards) /\ payload' = normal.sent
      /\ worker' = [run |-> r, ask |-> q.ask, prompts |-> prompts, shared |-> TRUE,
                    discards |-> discards, notices |-> normal.notices]
  BY DEF Start
<1>4. r \in Run /\ pc[r] = "asking" BY <1>2 DEF Requests, Waits
<1>5. Inside(r) BY <1>4 DEF Inside
<1>6. Clean(Messages(context), open, abandoned, calls) /\ Resolves(prompts, open) BY <1>4, <1>5, TurnFacts
<1>7. job[r] \in Jobs BY <1>1, <1>4 DEF JobsOK
<1>8. prompts \in Seq(Prompt) BY <1>7 DEF Jobs
<1>9. context \in Rounds(Prompt) /\ context \in Seq(Seq(Prompt)) BY <1>1, RoundsAreSeqs DEF ClientOK
<1> HIDE DEF r, prompts
<1>10. /\ Messages(context) \in Seq(Prompt) /\ all = Messages(context) \o prompts /\ all \in Seq(Prompt)
  BY <1>8, <1>9, NormalisedFacts
<1> HIDE DEF all
<1>11. Clean(all, {}, abandoned, calls) BY <1>1, <1>6, <1>10 DEF Resolves
<1>12. Quiet(normal, abandoned)
  <2>1. SeenOK(Seen(all)) BY <1>10, SeenFacts
  <2>2. Quiet(Seen(all), abandoned) /\ Seen(all).pending \subseteq abandoned BY <1>11 DEF Clean
  <2> DEFINE z == Seen(all)
  <2> HIDE DEF z
  <2>3. Quiet(Closed(z), abandoned) BY <2>1, <2>2, QuietClosed DEF z
  <2> QED BY <2>3 DEF Normalised, z
<1> HIDE DEF normal
<1>13. discards \subseteq CallSet(abandoned) /\ normal.notices = <<>> BY <1>12 DEF Quiet
<1>14. abandoned' = abandoned BY DEF Start, history
<1>15. PayloadClean' BY <1>3, <1>12, <1>14 DEF PayloadClean, Quiet
<1> HIDE DEF discards
<1>16. RequestClean' BY <1>3, <1>13, <1>14 DEF RequestClean
<1>17. Clean(Messages(context'), open, abandoned, calls)
  <2> DEFINE m == Messages(context)
  <2>1. m \in Seq(Prompt) /\ Messages(context') = Without(m, discards) BY <1>3, <1>9, <1>10, DiscardedFacts
  <2>2. Clean(m, open, abandoned, calls) BY <1>6
  <2> HIDE DEF m
  <2>3. Clean(Without(m, discards), open, abandoned, calls) BY <1>13, <2>1, <2>2, CleanWithout
  <2> QED BY <2>1, <2>3
<1> QED BY <1>3, <1>4, <1>8, <1>10, <1>15, <1>16, <1>17 DEF r, prompts, normal

LEMMA OrderStart ==
  ASSUME ChatClientAssumption, SaidInv, TypeOK', Orderly, Start PROVE Orderly'
<1>1. pc' = pc /\ job' = job /\ open' = open /\ abandoned' = abandoned /\ calls' = calls
  BY DEF Start, agent, history
<1>2. Alone' /\ Prepared' BY <1>1 DEF Orderly, Alone, Inside, Prepared
<1>3. CASE ~Waits(Head(queue))
  <2>1. UNCHANGED <<context, worker, payload>> BY <1>3 DEF Start
  <2>2. ContextClean' /\ PayloadClean' /\ RequestClean'
    BY <1>1, <2>1 DEF Orderly, ContextClean, PayloadClean, RequestClean, Waits
  <2> QED BY <1>2, <2>2 DEF Orderly
<1>4. CASE Waits(Head(queue))
  <2> DEFINE r == Head(queue).run
  <2>1. /\ Clean(Messages(context'), open, abandoned, calls) /\ PayloadClean' /\ RequestClean'
        /\ r \in Run
    BY <1>4, StartFacts
  <2>2. pc[r] = "asking" BY <1>4 DEF Waits
  <2>3. Inside(r) BY <2>2 DEF Inside
  <2>4. \A q \in Run \ {r} : ~Inside(q) BY <2>1, <2>3, TurnFacts
  <2> HIDE DEF r
  <2>5. \A q \in Run : pc'[q] \notin {"answered", "compressing"} BY <1>1, <2>2, <2>4 DEF Inside
  <2>6. Clean(Messages(context'), open', abandoned', calls') BY <1>1, <2>1
  <2>7. ContextClean' BY <2>5, <2>6 DEF ContextClean
  <2> QED BY <1>2, <2>1, <2>7 DEF Orderly
<1> QED BY <1>3, <1>4

\* What an answer leaves in the context
LEMMA AnswerTurn ==
  ASSUME ChatClientAssumption, SaidInv, Orderly, NEW answer \in Answers, Answer, Answered_with(answer), ~late'
  PROVE  LET r == worker.run
             m == Messages(context)
             ps == job[r].prompts
         IN  /\ worker \in UnderWay /\ Waits(worker) /\ r \in Run /\ Inside(r) /\ ps \in Seq(Prompt)
             /\ m \in Seq(Prompt) /\ m \o ps \in Seq(Prompt) /\ answer \in Seq(Prompt)
             /\ Messages(context') = (m \o ps) \o answer
             /\ Clean(m \o ps, {}, abandoned, calls)
             /\ Clean((m \o ps) \o answer, CallsOf(answer), abandoned, calls')
<1>1. ClientOK /\ JobsOK /\ CountsOK BY TypeParts DEF SaidInv
<1>2. worker # Idle /\ worker \in UnderWay /\ RequestShares BY <1>1 DEF Answer, ClientOK, SaidInv
<1> DEFINE r == worker.run
<1> DEFINE ps == Kept(worker.prompts)
<1> DEFINE m == Messages(context)
<1> DEFINE new == CallsOf(answer)
<1>3. Waits(worker) BY DEF Answered_with
<1>4. r \in Run /\ ps \in Seq(Prompt) /\ worker.prompts \in Seq(Prompt) BY <1>2, KeptFacts
<1>5. pc[r] = "asking" /\ Inside(r) BY <1>3 DEF Waits, Inside
<1>6. worker.prompts = job[r].prompts BY <1>2, <1>3, <1>5 DEF RequestShares
<1>7. Clean(m, open, abandoned, calls) /\ Resolves(worker.prompts, open) BY <1>4, <1>5, <1>6, TurnFacts
<1>8. ps = worker.prompts
  <2> DEFINE w == worker.prompts
  <2> DEFINE D == worker.discards
  <2>1. D \subseteq CallSet(abandoned) /\ worker.notices = <<>> BY <1>2, <1>3 DEF Orderly, RequestClean
  <2>2. ps = Without(w, D) \o <<>> BY <2>1 DEF Kept
  <2>3. w \in Seq(Prompt) /\ \A p \in ToSet(w) : p.kind # "call" BY <1>4, <1>7 DEF Resolves
  <2> HIDE DEF w, D
  <2>4. ToSet(w) \cap D = {} BY <2>1, <2>3 DEF CallSet, Call
  <2>5. Without(w, D) = w BY <2>3, <2>4, WithoutNone
  <2> QED BY <2>2, <2>3, <2>5, ConcatEmptySeq DEF w
<1>9. answer \in Seq(Prompt) /\ Asked(answer, Cardinality(new)) /\ calls' = calls + Cardinality(new)
  <2>1. calls \in 0..MaxCalls BY <1>1 DEF CountsOK
  <2> QED BY <2>1, AnswerFacts DEF Answered_with
<1>10. m \in Seq(Prompt) /\ Messages(context') = (m \o ps) \o answer /\ m \o ps \in Seq(Prompt)
  <2>1. context \in Rounds(Prompt) BY <1>1 DEF ClientOK
  <2>2. context' = Added(Added(context, ps), answer) BY DEF Answered_with
  <2>3. m \in Seq(Prompt) BY <2>1, RoundsAreSeqs, MessagesFacts
  <2> DEFINE mid == Added(context, ps)
  <2> HIDE DEF ps, m
  <2>4. mid \in Rounds(Prompt) /\ Messages(mid) = m \o ps BY <1>4, <2>1, AddedFacts DEF m
  <2>5. context' = Added(mid, answer) BY <2>2
  <2> HIDE DEF mid
  <2>6. Messages(context') = Messages(mid) \o answer BY <1>9, <2>4, <2>5, AddedFacts
  <2>7. m \o ps \in Seq(Prompt) BY <1>4, <2>3, ConcatSet
  <2> QED BY <2>3, <2>4, <2>6, <2>7
<1> HIDE DEF ps, m
<1>11. Clean(m \o ps, {}, abandoned, calls) BY <1>1, <1>7, <1>8, <1>10 DEF Resolves, CountsOK
<1>12. Clean((m \o ps) \o answer, new, abandoned, calls')
  <2> DEFINE n == m \o ps
  <2>1. n \in Seq(Prompt) /\ Clean(n, {}, abandoned, calls) BY <1>10, <1>11
  <2> HIDE DEF n
  <2>2. Clean(n \o answer, new, abandoned, calls') BY <1>9, <2>1 DEF Asked
  <2> QED BY <2>2 DEF n
<1>13. ps = job[r].prompts BY <1>6, <1>8
<1> HIDE DEF r, new
<1> QED BY <1>2, <1>3, <1>4, <1>5, <1>9, <1>10, <1>11, <1>12, <1>13 DEF r, m, new

LEMMA OrderAnswer ==
  ASSUME ChatClientAssumption, SaidInv, TypeOK', Orderly, ~late', Answer PROVE Orderly'
<1>1. JobsOK BY TypeParts DEF SaidInv
<1>2. PICK answer \in Answers : Answered_with(answer) BY AnswerWith
<1> DEFINE r == worker.run
<1> DEFINE new == CallsOf(answer)
<1>3. worker' = Idle /\ payload' = <<>> /\ open' = open /\ abandoned' = abandoned BY DEF Answer, agent
<1>4. worker \in UnderWay /\ Waits(worker) /\ r \in Run /\ Inside(r) BY <1>2, AnswerTurn
<1>5. Clean(Messages(context'), new, abandoned', calls') BY <1>2, <1>3, AnswerTurn
<1>6. \A q \in Run \ {r} : ~Inside(q) BY <1>4, TurnFacts
<1>7. pc'[r] = "answered" /\ \A q \in Run \ {r} : pc'[q] = pc[q]
  <2>1. Goto(r, "answered") BY <1>2, <1>4 DEF Answered_with
  <2> QED BY <1>1, <1>4, <2>1 DEF JobsOK, Goto
<1>8. job'[r].got = new
  <2> DEFINE x == job[r]
  <2> DEFINE kept == IF worker.shared /\ Inside(r) THEN Kept(worker.prompts) ELSE job[r].prompts
  <2>1. job' = [job EXCEPT ![r] = [x EXCEPT !.prompts = kept, !.got = new]]
    BY <1>2, <1>4, AnswerJob DEF SaidInv
  <2>2. x \in Jobs /\ job \in [Run -> Jobs] BY <1>1, <1>4 DEF JobsOK
  <2> HIDE DEF x, kept, new, r
  <2>3. job'[r] = [x EXCEPT !.prompts = kept, !.got = new] BY <1>4, <2>1, <2>2
  <2>4. [x EXCEPT !.prompts = kept, !.got = new].got = new BY <2>2 DEF Jobs
  <2> QED BY <2>3, <2>4
<1> HIDE DEF new, r
<1>9. PayloadClean' /\ RequestClean' BY <1>3, EmptyFacts DEF PayloadClean, RequestClean
<1>10. Alone' BY <1>6, <1>7 DEF Alone, Inside
<1>11. Prepared' BY <1>6, <1>7 DEF Prepared, Inside
<1>12. ContextClean' BY <1>4, <1>5, <1>6, <1>7, <1>8 DEF ContextClean, Inside
<1> QED BY <1>9, <1>10, <1>11, <1>12 DEF Orderly

LEMMA OrderInit == ASSUME ChatClientAssumption, Init PROVE Orderly
<1>1. \A r \in Run : pc[r] = "new" BY DEF Init
<1>2. /\ Messages(context) = <<>> /\ open = {} /\ payload = <<>> /\ worker = Idle
      /\ abandoned = {} /\ calls = 0
  BY MessagesEmpty DEF Init
<1>3. Clean(Messages(context), open, abandoned, calls) BY <1>2, EmptyClean
<1>4. Alone /\ Prepared BY <1>1 DEF Alone, Inside, Prepared
<1>5. ContextClean BY <1>1, <1>3 DEF ContextClean
<1>6. PayloadClean /\ RequestClean BY <1>2, EmptyFacts DEF PayloadClean, RequestClean
<1> QED BY <1>4, <1>5, <1>6 DEF Orderly

LEMMA HistoryStays == ASSUME [Next]_vars PROVE (late => late') /\ (unusual => unusual')
<1>1. ASSUME Answer PROVE late => late'
  <2>1. PICK answer \in Answers : Answered_with(answer) BY <1>1, AnswerWith
  <2> QED BY <2>1 DEF Answered_with
<1>2. Answer => unusual' = unusual BY DEF Answer
<1>3. ASSUME NEW r \in Run, Begin(r) PROVE late' = late /\ (unusual => unusual') BY <1>3 DEF Begin
<1>4. ASSUME NEW r \in Run,
             Ask(r) \/ Overflow(r) \/ Compressed(r) \/ CompressionFails(r) \/ Unanswered(r)
                \/ Timeout(r) \/ Cancelled(r) \/ Answered(r)
      PROVE  (late => late') /\ unusual' = unusual
  <2>1. ASSUME \/ Ask(r) \/ Overflow(r) \/ Compressed(r) \/ CompressionFails(r) \/ Unanswered(r)
               \/ Timeout(r) \/ Answered(r)
        PROVE  (late => late') /\ unusual' = unusual
    <3>1. late' = late /\ unusual' = unusual
      BY <2>1 DEF Ask, Overflow, Compressed, CompressionFails, Unanswered, Timeout, Answered, history
    <3> QED BY <3>1, Zenon
  <2>2. ASSUME Cancelled(r) PROVE (late => late') /\ unusual' = unusual
    <3>1. late' = (late \/ pc[r] = "answered") /\ unusual' = unusual BY <2>2 DEF Cancelled
    <3> QED BY <3>1, Zenon
  <2> QED BY <1>4, <2>1, <2>2, Zenon
<1>5. Interrupt \/ Start \/ Nothing => late' = late /\ unusual' = unusual
  BY DEF Interrupt, Start, Nothing, history
<1>6. UNCHANGED vars => late' = late /\ unusual' = unusual BY DEF vars, history
<1> QED BY <1>1, <1>2, <1>3, <1>4, <1>5, <1>6 DEF Next

LEMMA ResultsStep ==
  ASSUME ChatClientAssumption, ResultsInv, [Next]_vars PROVE ResultsInv'
<1>1. SaidInv /\ SaidInv' /\ TypeOK' BY SaidStep DEF ResultsInv, SaidInv
<1>2. (late => late') /\ (unusual => unusual') BY HistoryStays
<1> SUFFICES ASSUME ~late', ~unusual' PROVE Orderly' BY <1>1 DEF ResultsInv
<1>3. Orderly BY <1>2 DEF ResultsInv
<1>4. CASE UNCHANGED vars
  <2>1. UNCHANGED <<context, worker, payload, pc, job, open, abandoned, calls>>
    BY <1>4 DEF vars, client, agent, history
  <2> QED BY <1>3, <2>1 DEF Orderly, Alone, Inside, ContextClean, Prepared, PayloadClean, RequestClean, Waits
<1>5. ASSUME NEW r \in Run,
             Begin(r) \/ Ask(r) \/ Overflow(r) \/ Compressed(r) \/ CompressionFails(r) \/ Unanswered(r)
                \/ Timeout(r) \/ Cancelled(r) \/ Answered(r)
      PROVE  Orderly'
  BY <1>1, <1>3, <1>5, OrderBegin, OrderAsk, OrderOverflow, OrderCompressed, OrderCompressionFails,
     OrderUnanswered, OrderAnswered
<1>6. CASE Interrupt \/ Start \/ Nothing \/ Answer
  BY <1>1, <1>3, <1>6, OrderInterrupt, OrderStart, OrderNothing, OrderAnswer
<1> QED BY <1>4, <1>5, <1>6 DEF Next

\* The normalisation is a last resort: as long as runs follow one another and no
\* answer comes late, failed requests, retries, timeouts and compressions leave each
\* call that waits to be answered by its own response, whatever was asked before.  Only
\* calls that were let go while the context kept them have to be closed.
THEOREM ResultsAreResponsesCorrect == Spec => []ResultsAreResponses
<1>1. Init => ResultsInv BY SaidInit, OrderInit, ChatClientAssumption DEF ResultsInv
<1>2. ResultsInv /\ [Next]_vars => ResultsInv' BY ResultsStep, ChatClientAssumption
<1>3. ResultsInv => ResultsAreResponses
  BY DEF ResultsInv, Orderly, PayloadClean, ResultsAreResponses, ToSet
<1> QED BY <1>1, <1>2, <1>3, PTL DEF Spec

------------------------------------------------------------------------------
\* What is sent is paired

\* EachPaired, with the calls of Q still waiting at the end
Paired(s, Q) ==
  /\ \A i \in DOMAIN s : s[i].kind = "call" =>
       \/ s[i].call \in Q /\ \A k \in i..Len(s) : ~IsUser(s[k])
       \/ \E j \in DOMAIN s :
            /\ j > i /\ IsResponse(s[j]) /\ s[j].call = s[i].call
            /\ \A k \in i..j : ~IsUser(s[k])
  /\ \A i \in DOMAIN s : IsResponse(s[i]) =>
       /\ s[i].call \notin Q
       /\ \E j \in 1..(i - 1) : s[j] = Call(s[i].call)
       /\ \A j \in DOMAIN s : IsResponse(s[j]) /\ s[j].call = s[i].call => j = i
  /\ \A c \in Q : \E i \in DOMAIN s : s[i] = Call(c)

LEMMA PairedAll == ASSUME NEW s PROVE Paired(s, {}) <=> EachPaired(s)
BY DEF Paired, EachPaired

LEMMA AppendIndex ==
  ASSUME NEW X, NEW s \in Seq(X), NEW x \in X
  PROVE  /\ DOMAIN s = 1..Len(s) /\ Len(s) \in Nat
         /\ DOMAIN Append(s, x) = 1..(Len(s) + 1) /\ Len(Append(s, x)) = Len(s) + 1
         /\ \A i \in 1..Len(s) : Append(s, x)[i] = s[i]
         /\ Append(s, x)[Len(s) + 1] = x
OBVIOUS

LEMMA PairedCall ==
  ASSUME NEW s \in Seq(Sent), NEW Q, Paired(s, Q), NEW c \in CallIds, Call(c) \notin ToSet(s)
  PROVE  Paired(Append(s, Call(c)), Q \cup {c})
<1> DEFINE x == Call(c)
<1>1. x \in Sent /\ x.kind = "call" /\ x.call = c BY PromptTypes
<1> HIDE DEF x
<1> DEFINE t == Append(s, x)
<1> DEFINE n == Len(s)
<1>2. /\ DOMAIN s = 1..n /\ n \in Nat /\ DOMAIN t = 1..(n + 1) /\ Len(t) = n + 1
      /\ (\A i \in 1..n : t[i] = s[i]) /\ t[n + 1] = x
  BY <1>1, AppendIndex
<1>3. \A i \in 1..n : s[i] # x BY <1>2 DEF ToSet, x
<1> HIDE DEF t, n
<1>4. ~IsUser(x) /\ ~IsResponse(x) BY <1>1 DEF IsUser, IsResponse
<1>5. ASSUME NEW i \in 1..(n + 1), t[i].kind = "call"
      PROVE  \/ t[i].call \in Q \cup {c} /\ \A k \in i..(n + 1) : ~IsUser(t[k])
             \/ \E j \in 1..(n + 1) :
                  /\ j > i /\ IsResponse(t[j]) /\ t[j].call = t[i].call
                  /\ \A k \in i..j : ~IsUser(t[k])
  <2>1. CASE i = n + 1 BY <1>1, <1>2, <1>4, <2>1
  <2>2. CASE i \in 1..n
    <3>1. \/ s[i].call \in Q /\ \A k \in i..n : ~IsUser(s[k])
          \/ \E j \in 1..n : /\ j > i /\ IsResponse(s[j]) /\ s[j].call = s[i].call
                             /\ \A k \in i..j : ~IsUser(s[k])
      BY <1>2, <1>5, <2>2 DEF Paired, n
    <3>2. CASE s[i].call \in Q /\ \A k \in i..n : ~IsUser(s[k])
      <4>1. \A k \in i..(n + 1) : k \in i..n \/ k = n + 1 BY <1>2, <2>2
      <4> QED BY <1>2, <1>4, <2>2, <3>2, <4>1
    <3>3. ASSUME NEW j \in 1..n, j > i, IsResponse(s[j]), s[j].call = s[i].call,
                 \A k \in i..j : ~IsUser(s[k])
          PROVE  /\ j \in 1..(n + 1) /\ IsResponse(t[j]) /\ t[j].call = t[i].call
                 /\ \A k \in i..j : ~IsUser(t[k])
      BY <1>2, <2>2, <3>3
    <3> QED BY <3>1, <3>2, <3>3
  <2> QED BY <1>2, <2>1, <2>2
<1>6. ASSUME NEW i \in 1..(n + 1), IsResponse(t[i])
      PROVE  /\ t[i].call \notin Q \cup {c}
             /\ \E j \in 1..(i - 1) : t[j] = Call(t[i].call)
             /\ \A j \in 1..(n + 1) : IsResponse(t[j]) /\ t[j].call = t[i].call => j = i
  <2>1. i \in 1..n BY <1>2, <1>4, <1>6
  <2>2. /\ s[i].call \notin Q /\ \E j \in 1..(i - 1) : s[j] = Call(s[i].call)
        /\ \A j \in 1..n : IsResponse(s[j]) /\ s[j].call = s[i].call => j = i
    BY <1>2, <1>6, <2>1 DEF Paired
  <2>3. s[i].call # c BY <1>2, <1>3, <2>1, <2>2 DEF x
  <2> QED BY <1>2, <1>4, <2>1, <2>2, <2>3
<1>7. \A d \in Q \cup {c} : \E i \in 1..(n + 1) : t[i] = Call(d)
  <2>1. \A d \in Q : \E i \in 1..n : s[i] = Call(d) BY <1>2 DEF Paired
  <2>2. t[n + 1] = Call(c) /\ n + 1 \in 1..(n + 1) BY <1>2 DEF x
  <2> QED BY <1>2, <2>1, <2>2
<1>8. Paired(t, Q \cup {c}) BY <1>2, <1>5, <1>6, <1>7 DEF Paired
<1> QED BY <1>8 DEF t, x

LEMMA PairedResponse ==
  ASSUME NEW s \in Seq(Sent), NEW Q, Paired(s, Q), NEW x \in Sent, IsResponse(x), x.call \in Q
  PROVE  Paired(Append(s, x), Q \ {x.call})
<1> DEFINE t == Append(s, x)
<1> DEFINE n == Len(s)
<1> DEFINE c == x.call
<1>2. /\ DOMAIN s = 1..n /\ n \in Nat /\ DOMAIN t = 1..(n + 1) /\ Len(t) = n + 1
      /\ (\A i \in 1..n : t[i] = s[i]) /\ t[n + 1] = x
  BY AppendIndex
<1> HIDE DEF t, n
<1>4. ~IsUser(x) /\ x.kind # "call" BY DEF IsUser, IsResponse
<1>5. ASSUME NEW i \in 1..(n + 1), t[i].kind = "call"
      PROVE  \/ t[i].call \in Q \ {c} /\ \A k \in i..(n + 1) : ~IsUser(t[k])
             \/ \E j \in 1..(n + 1) :
                  /\ j > i /\ IsResponse(t[j]) /\ t[j].call = t[i].call
                  /\ \A k \in i..j : ~IsUser(t[k])
  <2>1. i \in 1..n BY <1>2, <1>4, <1>5
  <2>2. \/ s[i].call \in Q /\ \A k \in i..n : ~IsUser(s[k])
        \/ \E j \in 1..n : /\ j > i /\ IsResponse(s[j]) /\ s[j].call = s[i].call
                           /\ \A k \in i..j : ~IsUser(s[k])
    BY <1>2, <1>5, <2>1 DEF Paired, n
  <2>3. CASE s[i].call \in Q /\ \A k \in i..n : ~IsUser(s[k])
    <3>1. \A k \in i..(n + 1) : k \in i..n \/ k = n + 1 BY <1>2, <2>1
    <3>2. \A k \in i..(n + 1) : ~IsUser(t[k]) BY <1>2, <1>4, <2>1, <2>3, <3>1
    <3>3. CASE s[i].call = c
      <4>1. n + 1 > i /\ n + 1 \in 1..(n + 1) BY <1>2, <2>1
      <4> QED BY <1>2, <2>1, <3>2, <3>3, <4>1
    <3>4. CASE s[i].call # c BY <1>2, <2>1, <2>3, <3>2, <3>4
    <3> QED BY <3>3, <3>4
  <2>4. ASSUME NEW j \in 1..n, j > i, IsResponse(s[j]), s[j].call = s[i].call,
               \A k \in i..j : ~IsUser(s[k])
        PROVE  /\ j \in 1..(n + 1) /\ IsResponse(t[j]) /\ t[j].call = t[i].call
               /\ \A k \in i..j : ~IsUser(t[k])
    BY <1>2, <2>1, <2>4
  <2> QED BY <2>2, <2>3, <2>4
<1>6. ASSUME NEW i \in 1..(n + 1), IsResponse(t[i])
      PROVE  /\ t[i].call \notin Q \ {c}
             /\ \E j \in 1..(i - 1) : t[j] = Call(t[i].call)
             /\ \A j \in 1..(n + 1) : IsResponse(t[j]) /\ t[j].call = t[i].call => j = i
  <2>0. \A j \in 1..n : IsResponse(s[j]) => s[j].call # c BY <1>2 DEF Paired
  <2>1. CASE i \in 1..n
    <3>1. /\ s[i].call \notin Q /\ \E j \in 1..(i - 1) : s[j] = Call(s[i].call)
          /\ \A j \in 1..n : IsResponse(s[j]) /\ s[j].call = s[i].call => j = i
      BY <1>2, <1>6, <2>1 DEF Paired
    <3> QED BY <1>2, <2>0, <2>1, <3>1
  <2>2. CASE i = n + 1
    <3>1. PICK j \in 1..n : s[j] = Call(c) BY <1>2 DEF Paired
    <3>2. j \in 1..(i - 1) /\ t[j] = Call(t[i].call) BY <1>2, <2>2, <3>1
    <3> QED BY <1>2, <2>0, <2>2, <3>2
  <2> QED BY <1>2, <2>1, <2>2
<1>7. \A d \in Q \ {c} : \E i \in 1..(n + 1) : t[i] = Call(d)
  <2>1. \A d \in Q : \E i \in 1..n : s[i] = Call(d) BY <1>2 DEF Paired
  <2> QED BY <1>2, <2>1
<1>8. Paired(t, Q \ {c}) BY <1>2, <1>5, <1>6, <1>7 DEF Paired
<1> QED BY <1>8 DEF t

LEMMA PairedOther ==
  ASSUME NEW s \in Seq(Sent), NEW Q, Paired(s, Q), NEW x \in Sent, x.kind # "call", ~IsResponse(x),
         IsUser(x) => Q = {}
  PROVE  Paired(Append(s, x), Q)
<1> DEFINE t == Append(s, x)
<1> DEFINE n == Len(s)
<1>2. /\ DOMAIN s = 1..n /\ n \in Nat /\ DOMAIN t = 1..(n + 1) /\ Len(t) = n + 1
      /\ (\A i \in 1..n : t[i] = s[i]) /\ t[n + 1] = x
  BY AppendIndex
<1> HIDE DEF t, n
<1>5. ASSUME NEW i \in 1..(n + 1), t[i].kind = "call"
      PROVE  \/ t[i].call \in Q /\ \A k \in i..(n + 1) : ~IsUser(t[k])
             \/ \E j \in 1..(n + 1) :
                  /\ j > i /\ IsResponse(t[j]) /\ t[j].call = t[i].call
                  /\ \A k \in i..j : ~IsUser(t[k])
  <2>1. i \in 1..n BY <1>2, <1>5
  <2>2. \/ s[i].call \in Q /\ \A k \in i..n : ~IsUser(s[k])
        \/ \E j \in 1..n : /\ j > i /\ IsResponse(s[j]) /\ s[j].call = s[i].call
                           /\ \A k \in i..j : ~IsUser(s[k])
    BY <1>2, <1>5, <2>1 DEF Paired, n
  <2>3. CASE s[i].call \in Q /\ \A k \in i..n : ~IsUser(s[k])
    <3>1. \A k \in i..(n + 1) : k \in i..n \/ k = n + 1 BY <1>2, <2>1
    <3>2. ~IsUser(x) BY <2>3
    <3> QED BY <1>2, <2>1, <2>3, <3>1, <3>2
  <2>4. ASSUME NEW j \in 1..n, j > i, IsResponse(s[j]), s[j].call = s[i].call,
               \A k \in i..j : ~IsUser(s[k])
        PROVE  /\ j \in 1..(n + 1) /\ IsResponse(t[j]) /\ t[j].call = t[i].call
               /\ \A k \in i..j : ~IsUser(t[k])
    BY <1>2, <2>1, <2>4
  <2> QED BY <2>2, <2>3, <2>4
<1>6. ASSUME NEW i \in 1..(n + 1), IsResponse(t[i])
      PROVE  /\ t[i].call \notin Q
             /\ \E j \in 1..(i - 1) : t[j] = Call(t[i].call)
             /\ \A j \in 1..(n + 1) : IsResponse(t[j]) /\ t[j].call = t[i].call => j = i
  <2>1. i \in 1..n BY <1>2, <1>6
  <2>2. /\ s[i].call \notin Q /\ \E j \in 1..(i - 1) : s[j] = Call(s[i].call)
        /\ \A j \in 1..n : IsResponse(s[j]) /\ s[j].call = s[i].call => j = i
    BY <1>2, <1>6, <2>1 DEF Paired
  <2> QED BY <1>2, <2>1, <2>2
<1>7. \A d \in Q : \E i \in 1..(n + 1) : t[i] = Call(d)
  <2>1. \A d \in Q : \E i \in 1..n : s[i] = Call(d) BY <1>2 DEF Paired
  <2> QED BY <1>2, <2>1
<1>8. Paired(t, Q) BY <1>2, <1>5, <1>6, <1>7 DEF Paired
<1> QED BY <1>8 DEF t

\* The calls that wait, in some order, each of them once
LEMMA SetToSeqAll ==
  ASSUME NEW S, IsFiniteSet(S)
  PROVE  /\ SetToSeq(S) \in Seq(S) /\ ToSet(SetToSeq(S)) = S
         /\ \A x : Once(SetToSeq(S), x)
<1> DEFINE n == Cardinality(S)
<1> DEFINE s == SetToSeq(S)
<1>1. n \in Nat /\ ExistsBijection(1..n, S) BY FS_CardinalityType
<1>2. \E f \in [1..n -> S] : IsInjective(f)
  <2>1. PICK f : f \in Bijection(1..n, S) BY <1>1 DEF ExistsBijection
  <2>2. f \in [1..n -> S] /\ \A a, b \in 1..n : f[a] = f[b] => a = b BY <2>1 DEF Bijection, Injection, IsInjective
  <2> QED BY <2>2 DEF IsInjective
<1>3. s \in [1..n -> S] /\ IsInjective(s) BY <1>2 DEF SetToSeq
<1>4. s \in Injection(1..n, S) BY <1>3 DEF Injection, IsInjective
<1>5. Cardinality(1..n) = n /\ IsFiniteSet(1..n) BY <1>1, FS_Interval
<1>6. s \in Surjection(1..n, S) BY <1>4, <1>5, FS_Injection
<1> HIDE DEF n, s
<1>7. s \in Seq(S) /\ DOMAIN s = 1..n BY <1>1, <1>3
<1>8. ToSet(s) = S BY <1>6, <1>7 DEF Surjection, ToSet
<1>9. \A x : Once(s, x) BY <1>3 DEF Once, IsInjective
<1> QED BY <1>7, <1>8, <1>9 DEF s

Missings(q) == [i \in DOMAIN q |-> Missing(q[i])]

LEMMA MissingsFacts ==
  \A q \in Seq(CallIds) :
    /\ Missings(q) \in Seq(Sent) /\ \A p \in ToSet(Missings(q)) : p.kind = "missing"
    /\ \A c \in CallIds : Missings(Append(q, c)) = Append(Missings(q), Missing(c))
<1> SUFFICES ASSUME NEW q \in Seq(CallIds)
             PROVE  /\ Missings(q) \in Seq(Sent) /\ \A p \in ToSet(Missings(q)) : p.kind = "missing"
                    /\ \A c \in CallIds : Missings(Append(q, c)) = Append(Missings(q), Missing(c))
  OBVIOUS
<1> DEFINE f == Missings(q)
<1> DEFINE n == Len(q)
<1>1. DOMAIN q = 1..n /\ n \in Nat /\ \A i \in 1..n : q[i] \in CallIds BY ElementOfSeq
<1>2. \A i \in 1..n : Missing(q[i]) \in Sent /\ Missing(q[i]).kind = "missing" BY <1>1, PromptTypes
<1>3. f \in [1..n -> Sent] /\ \A i \in 1..n : f[i] = Missing(q[i]) BY <1>1, <1>2 DEF Missings
<1> HIDE DEF f
<1>4. f \in Seq(Sent) /\ Len(f) = n /\ DOMAIN f = 1..n BY <1>1, <1>3
<1>5. \A p \in ToSet(f) : p.kind = "missing" BY <1>2, <1>3, <1>4 DEF ToSet
<1>6. ASSUME NEW c \in CallIds PROVE Missings(Append(q, c)) = Append(f, Missing(c))
  <2> DEFINE t == Append(q, c)
  <2> DEFINE g == Missings(t)
  <2> DEFINE x == Missing(c)
  <2>1. /\ DOMAIN t = 1..(n + 1) /\ (\A i \in 1..n : t[i] = q[i]) /\ t[n + 1] = c
    BY AppendIndex
  <2>2. x \in Sent BY PromptTypes
  <2>3. DOMAIN g = 1..(n + 1) /\ g = [i \in 1..(n + 1) |-> g[i]] BY <2>1 DEF Missings
  <2>4. \A i \in 1..n : g[i] = f[i] BY <1>1, <1>3, <2>1 DEF Missings
  <2>5. g[n + 1] = x BY <1>1, <2>1 DEF Missings
  <2> HIDE DEF t, g, x
  <2>6. /\ DOMAIN Append(f, x) = 1..(n + 1) /\ (\A i \in 1..n : Append(f, x)[i] = f[i])
        /\ Append(f, x)[n + 1] = x /\ Append(f, x) \in Seq(Sent)
    BY <1>4, <2>2, AppendIndex, AppendFacts
  <2>7. Append(f, x) = [i \in 1..(n + 1) |-> Append(f, x)[i]]
    <3> DEFINE a == Append(f, x)
    <3>1. a \in Seq(Sent) /\ DOMAIN a = 1..(n + 1) BY <2>6
    <3> HIDE DEF a
    <3>2. a = [i \in 1..(n + 1) |-> a[i]] BY <3>1
    <3> QED BY <3>2 DEF a
  <2>8. \A i \in 1..(n + 1) : g[i] = Append(f, x)[i] BY <1>1, <2>4, <2>5, <2>6
  <2>9. g = Append(f, x) BY <2>3, <2>7, <2>8
  <2> QED BY <2>9 DEF t, g, x
<1> QED BY <1>4, <1>5, <1>6 DEF f

LEMMA PairedClosing ==
  ASSUME NEW s \in Seq(Sent), NEW Q \in SUBSET CallIds, Paired(s, Q)
  PROVE  \A q \in Seq(CallIds) :
           (\A c \in CallIds : Once(q, c)) /\ ToSet(q) \subseteq Q =>
              /\ s \o Missings(q) \in Seq(Sent)
              /\ Paired(s \o Missings(q), Q \ ToSet(q))
<1> DEFINE T == {q \in Seq(CallIds) :
                   (\A c \in CallIds : Once(q, c)) /\ ToSet(q) \subseteq Q =>
                      /\ s \o Missings(q) \in Seq(Sent)
                      /\ Paired(s \o Missings(q), Q \ ToSet(q))}
<1>1. <<>> \in T
  <2>1. Missings(<<>>) = <<>> /\ ToSet(<<>>) = {} /\ <<>> \in Seq(CallIds) BY EmptyFacts DEF Missings
  <2>2. s \o <<>> = s /\ Q \ {} = Q BY ConcatEmptySeq
  <2> QED BY <2>1, <2>2
<1>2. ASSUME NEW q \in Seq(CallIds), NEW c \in CallIds, q \in T PROVE Append(q, c) \in T
  <2>1. Append(q, c) \in Seq(CallIds) /\ ToSet(Append(q, c)) = ToSet(q) \cup {c} BY AppendFacts
  <2>2. ASSUME \A d \in CallIds : Once(Append(q, c), d), ToSet(Append(q, c)) \subseteq Q
        PROVE  /\ s \o Missings(Append(q, c)) \in Seq(Sent)
               /\ Paired(s \o Missings(Append(q, c)), Q \ ToSet(Append(q, c)))
    <3>1. \A d \in CallIds : Once(q, d) BY <2>2, OnceAppend
    <3>2. c \notin ToSet(q) BY <2>2, OnceAppend
    <3>3. c \in Q /\ ToSet(q) \subseteq Q BY <2>1, <2>2
    <3> DEFINE u == s \o Missings(q)
    <3> DEFINE x == Missing(c)
    <3>4. u \in Seq(Sent) /\ Paired(u, Q \ ToSet(q)) BY <1>2, <3>1, <3>3
    <3>5. x \in Sent /\ x.kind = "missing" /\ x.call = c BY PromptTypes DEF Missing
    <3>6. Missings(Append(q, c)) = Append(Missings(q), x) /\ Missings(q) \in Seq(Sent) BY MissingsFacts
    <3> HIDE DEF x
    <3>7. s \o Missings(Append(q, c)) = Append(u, x) BY <3>5, <3>6, ConcatAppend
    <3> HIDE DEF u
    <3>8. IsResponse(x) BY <3>5 DEF IsResponse
    <3>9. x.call \in Q \ ToSet(q) BY <3>2, <3>3, <3>5
    <3>10. Paired(Append(u, x), (Q \ ToSet(q)) \ {x.call}) BY <3>4, <3>5, <3>8, <3>9, PairedResponse
    <3>11. (Q \ ToSet(q)) \ {x.call} = Q \ ToSet(Append(q, c)) BY <2>1, <3>5
    <3>12. Append(u, x) \in Seq(Sent) BY <3>4, <3>5, AppendFacts
    <3>13. Paired(Append(u, x), Q \ ToSet(Append(q, c))) BY <3>10, <3>11
    <3> QED BY <3>7, <3>12, <3>13
  <2> QED BY <2>1, <2>2
<1> HIDE DEF T
<1>3. Grows(CallIds, T) BY <1>1, <1>2 DEF Grows
<1>4. \A q \in Seq(CallIds) : q \in T BY <1>3, SeqInduction
<1> QED BY <1>4 DEF T

\* What closing adds to what is sent, and nothing else
LEMMA ClosedSends ==
  ASSUME ChatClientAssumption, NEW z, SeenOK(z)
  PROVE  \E w \in Seq(Sent) :
           /\ Closed(z).sent = z.sent \o w /\ \A p \in ToSet(w) : p.kind = "missing"
           /\ Paired(z.sent, z.pending) => Paired(Closed(z).sent, {})
<1> DEFINE q == SetToSeq(z.pending)
<1> DEFINE w == Missings(q)
<1>1. z \in SeenRecord /\ z.pending \subseteq CallIds /\ z.sent \in Seq(Sent) BY DEF SeenOK, SeenRecord
<1>2. IsFiniteSet(z.pending)
  <2>1. IsFiniteSet(CallIds) BY FS_Interval DEF ChatClientAssumption, CallIds
  <2> QED BY <1>1, <2>1, FS_Subset
<1>3. q \in Seq(z.pending) /\ ToSet(q) = z.pending /\ \A x : Once(q, x) BY <1>2, SetToSeqAll
<1>4. Closed(z).sent = z.sent \o w
  <2>1. Closed(z) = [z EXCEPT !.sent = @ \o w, !.closed = @ \cup {Call(c) : c \in z.pending}, !.pending = {}]
    BY DEF Closed, Missings
  <2> DEFINE n == z.sent \o w
  <2> DEFINE cs == z.closed \cup {Call(c) : c \in z.pending}
  <2>2. Closed(z) = [z EXCEPT !.sent = n, !.closed = cs, !.pending = {}] BY <2>1
  <2> HIDE DEF n, cs
  <2>3. Closed(z).sent = n BY <1>1, <2>2 DEF SeenRecord
  <2> QED BY <2>3 DEF n
<1> HIDE DEF q
<1>5. q \in Seq(CallIds) BY <1>1, <1>3, SeqMonotonic
<1>6. w \in Seq(Sent) /\ \A p \in ToSet(w) : p.kind = "missing" BY <1>5, MissingsFacts
<1>7. ASSUME Paired(z.sent, z.pending) PROVE Paired(z.sent \o w, {})
  <2>1. Paired(z.sent \o w, z.pending \ ToSet(q)) BY <1>1, <1>3, <1>5, <1>7, PairedClosing
  <2>2. z.pending \ ToSet(q) = {} BY <1>3
  <2> QED BY <2>1, <2>2
<1> QED BY <1>4, <1>6, <1>7

\* One prompt more
LEMMA NormalSends ==
  ASSUME ChatClientAssumption, NEW z, SeenOK(z), NEW p \in Prompt
  PROVE  /\ \E w \in Seq(Sent) :
              /\ Normal(z, p).sent = z.sent \o w
              /\ \A x \in ToSet(w) : x = p \/ x.kind \in {"missing", "notice"}
              /\ IsAssistant(p) => w = <<p>>
         /\ Paired(z.sent, z.pending) /\ (p.kind = "call" => p \notin ToSet(z.sent)) =>
              Paired(Normal(z, p).sent, Normal(z, p).pending)
<1> DEFINE s == z.sent
<1> DEFINE Q == z.pending
<1> DEFINE y == Normal(z, p)
<1>1. z \in SeenRecord /\ s \in Seq(Sent) /\ p \in Sent BY PromptTypes DEF SeenOK, SeenRecord
<1>2. <<p>> \in Seq(Sent) /\ ToSet(<<p>>) = {p} /\ Append(s, p) = s \o <<p>>
  BY <1>1, AppendIsConcat DEF ToSet
<1>3. CASE p.kind = "call"
  <2>1. p.call \in CallIds /\ p = Call(p.call) BY <1>3, PromptKinds
  <2>2. y = [z EXCEPT !.sent = Append(s, p), !.pending = Q \cup {p.call}] BY <1>3 DEF Normal
  <2> HIDE DEF y
  <2>3. y.sent = Append(s, p) /\ y.pending = Q \cup {p.call} BY <1>1, <2>2 DEF SeenRecord
  <2>4. Paired(s, Q) /\ p \notin ToSet(s) => Paired(Append(s, p), Q \cup {p.call})
    BY <1>1, <2>1, PairedCall
  <2> HIDE DEF s, Q
  <2> QED BY <1>2, <1>3, <2>3, <2>4 DEF s, Q, y
<1>4. CASE p.kind = "response" /\ p.call \in Q
  <2>1. IsResponse(p) /\ ~IsAssistant(p) BY <1>4 DEF IsResponse, IsAssistant
  <2>2. y = [z EXCEPT !.sent = Append(s, p), !.pending = Q \ {p.call}] BY <1>4 DEF Normal
  <2> HIDE DEF y
  <2>3. y.sent = Append(s, p) /\ y.pending = Q \ {p.call} BY <1>1, <2>2 DEF SeenRecord
  <2>4. Paired(s, Q) => Paired(Append(s, p), Q \ {p.call}) BY <1>1, <1>4, <2>1, PairedResponse
  <2> HIDE DEF s, Q
  <2> QED BY <1>2, <2>1, <2>3, <2>4 DEF s, Q, y
<1>5. CASE p.kind = "response" /\ p.call \notin Q
  <2> DEFINE t == Closed(z)
  <2> DEFINE n == Notice(p.call)
  <2>1. SeenOK(t) /\ t.pending = {} BY ClosedFacts
  <2>2. n \in Sent /\ n.kind = "notice" BY <1>5, PromptKinds, PromptTypes
  <2>3. y = [t EXCEPT !.sent = Append(@, n), !.notices = Append(@, n), !.orphans = @ \cup {p}]
    BY <1>5 DEF Normal, Orphaned, Orphaned_open
  <2>4. PICK w \in Seq(Sent) : /\ t.sent = s \o w /\ \A x \in ToSet(w) : x.kind = "missing"
                               /\ Paired(s, Q) => Paired(t.sent, {})
    BY ClosedSends
  <2> HIDE DEF t, y
  <2>5. t \in SeenRecord /\ t.sent \in Seq(Sent) BY <2>1 DEF SeenOK, SeenRecord
  <2> DEFINE a == Append(t.sent, n)
  <2> DEFINE b == Append(t.notices, n)
  <2> DEFINE o == t.orphans \cup {p}
  <2>6. y = [t EXCEPT !.sent = a, !.notices = b, !.orphans = o] BY <2>3
  <2> HIDE DEF a, b, o
  <2>7. y.sent = a /\ y.pending = {} BY <2>1, <2>5, <2>6 DEF SeenRecord
  <2> HIDE DEF n
  <2>8. a = s \o Append(w, n)
    <3> HIDE DEF s
    <3>1. s \o Append(w, n) = Append(s \o w, n) BY <1>1, <2>2, <2>4, ConcatAppend
    <3>2. s \o w = t.sent BY <2>4
    <3> QED BY <3>1, <3>2 DEF a
  <2>9. Append(w, n) \in Seq(Sent) /\ ToSet(Append(w, n)) = ToSet(w) \cup {n} BY <2>2, AppendFacts
  <2>10. Paired(s, Q) => Paired(a, {})
    <3>1. ~IsResponse(n) /\ n.kind # "call" BY <2>2 DEF IsResponse
    <3> QED BY <2>2, <2>4, <2>5, <3>1, PairedOther DEF a
  <2>11. ~IsAssistant(p) BY <1>5 DEF IsAssistant
  <2> HIDE DEF s, Q
  <2> QED BY <1>5, <2>2, <2>4, <2>7, <2>8, <2>9, <2>10, <2>11 DEF s, Q, y
<1>6. CASE p.kind \notin {"call", "response"}
  <2>0. p.kind \in {"text", "notice", "reply"} BY <1>6, PromptKinds
  <2>1. ~IsResponse(p) /\ (IsAssistant(p) => ~IsUser(p)) BY <2>0 DEF IsResponse, IsAssistant, IsUser
  <2> DEFINE t == IF IsUser(p) THEN Closed(z) ELSE z
  <2>2. y = [t EXCEPT !.sent = Append(@, p)] BY <1>6 DEF Normal
  <2>3. SeenOK(t) /\ (IsUser(p) => t.pending = {}) BY ClosedFacts
  <2>4. \E w \in Seq(Sent) : /\ t.sent = s \o w /\ \A x \in ToSet(w) : x.kind = "missing"
                             /\ Paired(s, Q) => Paired(t.sent, t.pending)
                             /\ IsAssistant(p) => w = <<>>
    <3>1. CASE IsUser(p) BY <2>1, <2>3, <3>1, ClosedSends
    <3>2. CASE ~IsUser(p)
      <4>1. t = z /\ <<>> \in Seq(Sent) /\ ToSet(<<>>) = {} BY <3>2, EmptyFacts
      <4>2. s \o <<>> = s BY <1>1, ConcatEmptySeq
      <4> QED BY <4>1, <4>2
    <3> QED BY <3>1, <3>2
  <2> HIDE DEF t, y
  <2>5. PICK w \in Seq(Sent) : /\ t.sent = s \o w /\ \A x \in ToSet(w) : x.kind = "missing"
                               /\ Paired(s, Q) => Paired(t.sent, t.pending)
                               /\ IsAssistant(p) => w = <<>>
    BY <2>4
  <2>6. t \in SeenRecord /\ t.sent \in Seq(Sent) BY <2>3 DEF SeenOK, SeenRecord
  <2>7. y.sent = Append(t.sent, p) /\ y.pending = t.pending BY <2>2, <2>6 DEF SeenRecord
  <2>8. Append(t.sent, p) = s \o Append(w, p)
    <3> HIDE DEF s
    <3>1. s \o Append(w, p) = Append(s \o w, p) BY <1>1, <2>5, ConcatAppend
    <3>2. s \o w = t.sent BY <2>5
    <3> QED BY <3>1, <3>2
  <2>9. Append(w, p) \in Seq(Sent) /\ ToSet(Append(w, p)) = ToSet(w) \cup {p} BY <1>1, AppendFacts
  <2>10. Paired(t.sent, t.pending) => Paired(Append(t.sent, p), t.pending)
    BY <1>1, <1>6, <2>1, <2>3, <2>6, PairedOther
  <2>11. w = <<>> => Append(w, p) = <<p>> OBVIOUS
  <2> HIDE DEF s, Q
  <2> QED BY <2>5, <2>7, <2>8, <2>9, <2>10, <2>11 DEF s, Q, y
<1> QED BY <1>3, <1>4, <1>5, <1>6

\* A call is in the context once at most.
CallsOnce(m) == \A c \in CallIds : Once(m, Call(c))

LEMMA SeenPaired ==
  ASSUME ChatClientAssumption
  PROVE  \A m \in Seq(Prompt) :
           CallsOnce(m) => /\ Paired(Seen(m).sent, Seen(m).pending)
                           /\ \A c \in CallIds : Call(c) \in ToSet(Seen(m).sent) => Call(c) \in ToSet(m)
<1> DEFINE P(m) == /\ Paired(Seen(m).sent, Seen(m).pending)
                   /\ \A c \in CallIds : Call(c) \in ToSet(Seen(m).sent) => Call(c) \in ToSet(m)
<1> DEFINE T == {m \in Seq(Prompt) : CallsOnce(m) => P(m)}
<1>1. <<>> \in T
  <2>1. Seen(<<>>).sent = <<>> /\ Seen(<<>>).pending = {} BY SeenEmpty DEF Unsent
  <2>2. Paired(<<>>, {}) BY DEF Paired
  <2> QED BY <2>1, <2>2, EmptyFacts
<1>2. ASSUME NEW m \in Seq(Prompt), NEW p \in Prompt, m \in T PROVE Append(m, p) \in T
  <2> DEFINE n == Append(m, p)
  <2> DEFINE z == Seen(m)
  <2>1. n \in Seq(Prompt) /\ ToSet(n) = ToSet(m) \cup {p} /\ Seen(n) = Normal(z, p)
    BY SeenAppend, AppendFacts
  <2>2. SeenOK(z) BY SeenFacts
  <2>3. ASSUME CallsOnce(n) PROVE P(n)
    <3>1. CallsOnce(m) BY <2>3, OnceAppend DEF CallsOnce
    <3>2. Paired(z.sent, z.pending) /\ \A c \in CallIds : Call(c) \in ToSet(z.sent) => Call(c) \in ToSet(m)
      BY <1>2, <3>1
    <3>3. p.kind = "call" => p \notin ToSet(z.sent)
      <4> SUFFICES ASSUME p.kind = "call" PROVE p \notin ToSet(z.sent) OBVIOUS
      <4>1. p.call \in CallIds /\ p = Call(p.call) BY PromptKinds
      <4>2. p \notin ToSet(m) BY <2>3, <4>1, OnceAppend DEF CallsOnce
      <4> QED BY <3>2, <4>1, <4>2
    <3> HIDE DEF z, n
    <3>4. Paired(Seen(n).sent, Seen(n).pending) BY <2>1, <2>2, <3>2, <3>3, NormalSends
    <3>5. PICK w \in Seq(Sent) : /\ Seen(n).sent = z.sent \o w
                                 /\ \A x \in ToSet(w) : x = p \/ x.kind \in {"missing", "notice"}
      <4>1. PICK w \in Seq(Sent) :
              /\ Normal(z, p).sent = z.sent \o w
              /\ \A x \in ToSet(w) : x = p \/ x.kind \in {"missing", "notice"}
              /\ IsAssistant(p) => w = <<p>>
        BY <2>2, NormalSends
      <4>2. Seen(n).sent = z.sent \o w BY <2>1, <4>1
      <4> QED BY <4>1, <4>2
    <3>6. z.sent \in Seq(Sent) BY <2>2 DEF SeenOK, SeenRecord
    <3>7. ToSet(Seen(n).sent) = ToSet(z.sent) \cup ToSet(w) BY <3>5, <3>6, ConcatSet
    <3>8. \A c \in CallIds : Call(c) \in ToSet(w) => Call(c) = p BY <3>5, PromptTypes
    <3> QED BY <2>1, <3>2, <3>4, <3>7, <3>8
  <2> QED BY <2>1, <2>3
<1> HIDE DEF T
<1>3. Grows(Prompt, T) BY <1>1, <1>2 DEF Grows
<1>4. \A m \in Seq(Prompt) : m \in T BY <1>3, SeqInduction
<1> QED BY <1>4 DEF T

LEMMA NormalisedPaired ==
  ASSUME ChatClientAssumption, NEW m \in Seq(Prompt), CallsOnce(m)
  PROVE  EachPaired(Normalised(m).sent)
<1> DEFINE z == Seen(m)
<1>1. SeenOK(z) /\ Paired(z.sent, z.pending) BY SeenFacts, SeenPaired
<1> HIDE DEF z
<1>2. Paired(Closed(z).sent, {}) BY <1>1, ClosedSends
<1> QED BY <1>2, PairedAll DEF Normalised, z

\* Who asks says nothing in the model's name.
Asks(s) == \A p \in ToSet(s) : ~IsAssistant(p)

ContextCalls ==
  /\ CallsOnce(Messages(context))
  /\ \A c \in CallIds : Call(c) \in ToSet(Messages(context)) => c <= calls

Askers ==
  /\ \A r \in Run : Asks(job[r].prompts)
  /\ worker # Idle => Asks(worker.prompts)

PairInv == SaidInv /\ ContextCalls /\ Askers /\ EachPaired(payload)

LEMMA EmptyPaired == EachPaired(<<>>)
BY DEF EachPaired

LEMMA ContextSmaller ==
  ASSUME NEW m \in Seq(Prompt), NEW n \in Seq(Prompt), NEW k \in Nat, NEW l \in Nat, k <= l,
         CallsOnce(m), \A c \in CallIds : Call(c) \in ToSet(m) => c <= k,
         \/ n = <<>>
         \/ \E t \in Seq(Prompt) : m = n \o t
         \/ \E D : n = Without(m, D)
  PROVE  CallsOnce(n) /\ \A c \in CallIds : Call(c) \in ToSet(n) => c <= l
<1>0. CallIds \subseteq Int BY DEF CallIds
<1>1. CASE n = <<>> BY <1>1, EmptyFacts DEF CallsOnce, Once
<1>2. ASSUME NEW t \in Seq(Prompt), m = n \o t
      PROVE  CallsOnce(n) /\ \A c \in CallIds : Call(c) \in ToSet(n) => c <= l
  <2>1. CallsOnce(n) BY <1>2, OnceConcat DEF CallsOnce
  <2>2. ToSet(m) = ToSet(n) \cup ToSet(t) BY <1>2, ConcatSet
  <2> QED BY <1>0, <2>1, <2>2
<1>3. ASSUME NEW D, n = Without(m, D)
      PROVE  CallsOnce(n) /\ \A c \in CallIds : Call(c) \in ToSet(n) => c <= l
  <2>1. CallsOnce(n) BY <1>3, WithoutOnce DEF CallsOnce
  <2>2. ToSet(n) = ToSet(m) \ D BY <1>3, WithoutFacts
  <2> QED BY <1>0, <2>1, <2>2
<1> QED BY <1>1, <1>2, <1>3

\* A step that leaves what waits and what was asked as they are
LEMMA CallsStay ==
  ASSUME ChatClientAssumption, PairInv, TypeOK, TypeOK', calls' = calls,
         context' = context \/ context' = <<>> \/ (context # <<>> /\ context' = Front(context)),
         payload' = payload \/ payload' = <<>>
  PROVE  ContextCalls' /\ EachPaired(payload)'
<1>1. ClientOK /\ CountsOK /\ ClientOK' BY TypeParts, TypePartsNext
<1>2. context \in Seq(Seq(Prompt)) /\ context' \in Seq(Seq(Prompt)) BY <1>1, RoundsAreSeqs DEF ClientOK
<1> DEFINE m == Messages(context)
<1> DEFINE n == Messages(context')
<1>3. m \in Seq(Prompt) /\ n \in Seq(Prompt) BY <1>2, MessagesFacts
<1>4. calls \in Nat BY <1>1 DEF CountsOK, ChatClientAssumption
<1>5. ContextCalls BY DEF PairInv
<1>6. \/ n = m \/ n = <<>> \/ \E t \in Seq(Prompt) : m = n \o t
  <2>1. context' = <<>> => n = <<>> BY MessagesEmpty
  <2>2. ASSUME context # <<>>, context' = Front(context) PROVE \E t \in Seq(Prompt) : m = n \o t
    <3>1. m = n \o Last(context) BY <1>2, <2>2, MessagesFront
    <3>2. Last(context) \in Seq(Prompt) BY <1>2, <2>2, FrontLast
    <3> QED BY <3>1, <3>2
  <2> QED BY <2>1, <2>2
<1> HIDE DEF m, n
<1>7. CallsOnce(m) /\ \A c \in CallIds : Call(c) \in ToSet(m) => c <= calls BY <1>5 DEF ContextCalls, m
<1>8. CallsOnce(n) /\ \A c \in CallIds : Call(c) \in ToSet(n) => c <= calls
  <2>1. CASE n = m BY <1>7, <2>1
  <2>2. CASE n = <<>> \/ \E t \in Seq(Prompt) : m = n \o t
    <3>1. calls <= calls BY <1>4
    <3> QED BY <1>3, <1>4, <1>7, <2>2, <3>1, ContextSmaller
  <2> QED BY <1>6, <2>1, <2>2
<1>9. ContextCalls' BY <1>8 DEF ContextCalls, n
<1>10. EachPaired(payload)' BY EmptyPaired DEF PairInv
<1> QED BY <1>9, <1>10

LEMMA AskersStay ==
  ASSUME PairInv, worker' = worker,
         \A q \in Run : job'[q].prompts = job[q].prompts \/ Asks(job'[q].prompts)
  PROVE  Askers'
<1> SUFFICES ASSUME Askers PROVE Askers' BY DEF PairInv
<1> QED BY DEF Askers

LEMMA NoJobAsks == Asks(NoJob.prompts)
BY EmptyFacts DEF Asks, NoJob

LEMMA CallsBegin ==
  ASSUME ChatClientAssumption, PairInv, TypeOK', NEW r \in Run, Begin(r)
  PROVE  ContextCalls' /\ Askers' /\ EachPaired(payload)'
<1>0. SaidInv /\ TypeOK BY DEF PairInv, SaidInv
<1>1. ClientOK /\ JobsOK /\ CountsOK BY <1>0, TypeParts
<1>2. PICK speaks \in BOOLEAN :
        LET forced == Times(r) >= ReactLimit - 1
            listed == RollsBack /\ open # {}
            results == IF RollsBack THEN <<>> ELSE Results(r, forced)
            words == IF speaks \/ listed THEN <<Text(r)>> ELSE <<>>
            new == Question(results, words)
        IN  \/ Leave(r)
            \/ job' = [job EXCEPT ![r] = [NoJob EXCEPT !.prompts = new, !.asked = Marks(new)]]
  BY DEF Begin
<1> DEFINE forced == Times(r) >= ReactLimit - 1
<1> DEFINE results == IF RollsBack THEN <<>> ELSE Results(r, forced)
<1> DEFINE words == IF speaks \/ (RollsBack /\ open # {}) THEN <<Text(r)>> ELSE <<>>
<1> DEFINE new == Question(results, words)
<1> DEFINE j == [NoJob EXCEPT !.prompts = new, !.asked = Marks(new)]
<1>3. Leave(r) \/ job' = [job EXCEPT ![r] = j] BY <1>2
<1>4. Asks(new)
  <2>1. results = <<>> \/ results = Results(r, forced) OBVIOUS
  <2>2. words = <<>> \/ words = <<Text(r)>> OBVIOUS
  <2>3. forced \in BOOLEAN OBVIOUS
  <2> HIDE DEF results, words, forced, new, j
  <2>4. /\ ToSet(new) = ToSet(results) \cup ToSet(words)
        /\ \A p \in ToSet(results) : p.kind = "response"
        /\ ToSet(words) \subseteq {Text(r)}
    <3>1. CountsOK BY <1>1
    <3>2. /\ ToSet(Question(results, words)) = ToSet(results) \cup ToSet(words)
          /\ \A p \in ToSet(results) : p.kind = "response"
          /\ ToSet(words) \subseteq {Text(r)}
      BY <2>1, <2>2, <2>3, <3>1, QuestionFacts
    <3> QED BY <3>2 DEF new
  <2>5. Text(r).kind = "text" BY PromptTypes
  <2>6. \A p \in ToSet(new) : p.kind \in {"response", "text"} BY <2>4, <2>5
  <2> HIDE DEF new
  <2> QED BY <2>6 DEF Asks, IsAssistant
<1> HIDE DEF new
<1>5. j.prompts = new BY DEF NoJob
<1> HIDE DEF j
<1>6. worker' = worker /\ calls' = calls /\ payload' = payload
      /\ (context' = context \/ (context # <<>> /\ context' = Front(context)))
  BY DEF Begin, RollsBack
<1>7. \A q \in Run : job'[q].prompts = job[q].prompts \/ Asks(job'[q].prompts)
  BY <1>1, <1>3, <1>4, <1>5, NoJobAsks DEF JobsOK, Leave
<1>8. Askers' BY <1>6, <1>7, AskersStay
<1>9. ContextCalls' /\ EachPaired(payload)' BY <1>0, <1>6, CallsStay
<1> QED BY <1>8, <1>9

LEMMA CallsRun ==
  ASSUME ChatClientAssumption, PairInv, TypeOK', NEW r \in Run,
         \/ Ask(r) \/ Compressed(r) \/ CompressionFails(r) \/ Unanswered(r)
         \/ Timeout(r) \/ Cancelled(r) \/ Answered(r)
  PROVE  ContextCalls' /\ Askers' /\ EachPaired(payload)'
<1>0. SaidInv /\ TypeOK BY DEF PairInv, SaidInv
<1>1. JobsOK BY <1>0, TypeParts
<1>2. worker' = worker /\ calls' = calls /\ payload' = payload /\ (context' = context \/ context' = <<>>)
  BY DEF Ask, Compressed, CompressionFails, Replaced, Unanswered, Timeout, Cancelled, Answered, client
<1> DEFINE x == job[r]
<1>3. x \in Jobs /\ job \in [Run -> Jobs] BY <1>1 DEF JobsOK
<1>4. \/ job' = job
      \/ job' = [job EXCEPT ![r] = NoJob]
      \/ job' = [job EXCEPT ![r] = [x EXCEPT !.tries = @ + 1, !.ask = @ + 1]]
      \/ job' = [job EXCEPT ![r] = [x EXCEPT !.tries = @ - 1]]
  <2>1. Again(r) \/ Leave(r) => job' = job \/ job' = [job EXCEPT ![r] = NoJob] BY DEF Again, Leave
  <2>2. Ask(r) => job' = [job EXCEPT ![r] = [x EXCEPT !.tries = @ + 1, !.ask = @ + 1]]
    BY <1>3 DEF Ask
  <2>3. Unanswered(r) => Again(r) \/ job' = [job EXCEPT ![r] = [x EXCEPT !.tries = @ - 1]]
    BY <1>3 DEF Unanswered
  <2>4. Compressed(r) \/ CompressionFails(r) \/ Timeout(r) \/ Cancelled(r) \/ Answered(r)
          => Again(r) \/ Leave(r)
    BY DEF Compressed, CompressionFails, Timeout, Cancelled, Answered
  <2> QED BY <2>1, <2>2, <2>3, <2>4
<1>5. /\ [x EXCEPT !.tries = @ + 1, !.ask = @ + 1].prompts = x.prompts
      /\ [x EXCEPT !.tries = @ - 1].prompts = x.prompts
  <2> HIDE DEF x
  <2> QED BY <1>3 DEF Jobs
<1>6. ASSUME NEW q \in Run PROVE job'[q].prompts = job[q].prompts \/ Asks(job'[q].prompts)
  <2>1. CASE q = r BY <1>3, <1>4, <1>5, <2>1, NoJobAsks
  <2>2. CASE q # r BY <1>3, <1>4, <2>2
  <2> QED BY <2>1, <2>2
<1>7. Askers' BY <1>2, <1>6, AskersStay
<1>8. ContextCalls' /\ EachPaired(payload)' BY <1>0, <1>2, CallsStay
<1> QED BY <1>7, <1>8

LEMMA CallsOverflow ==
  ASSUME ChatClientAssumption, PairInv, TypeOK', NEW r \in Run, Overflow(r)
  PROVE  ContextCalls' /\ Askers' /\ EachPaired(payload)'
<1>0. SaidInv /\ TypeOK BY DEF PairInv, SaidInv
<1>1. JobsOK /\ ClientOK BY <1>0, TypeParts
<1>2. calls' = calls /\ payload' = payload /\ context' = context BY DEF Overflow
<1> DEFINE x == job[r]
<1> DEFINE t == <<Text(r)>>
<1> DEFINE a == {<<"run", r>>}
<1> DEFINE j == [x EXCEPT !.tries = x.tries + 1, !.prompts = t, !.asked = a, !.away = open]
<1>3. x \in Jobs /\ job \in [Run -> Jobs] BY <1>1 DEF JobsOK
<1>4. job' = [job EXCEPT ![r] = j] BY <1>3 DEF Overflow
<1>5. ToSet(t) = {Text(r)} /\ Text(r).kind = "text" BY OneText, PromptTypes
<1>6. Asks(t) BY <1>5 DEF Asks, IsAssistant
<1> HIDE DEF x, t, a
<1>7. j.prompts = t BY <1>3 DEF Jobs
<1> HIDE DEF j
<1>8. \A q \in Run : job'[q].prompts = job[q].prompts \/ Asks(job'[q].prompts)
  BY <1>3, <1>4, <1>6, <1>7
<1>9. worker' # Idle => worker # Idle /\ worker'.prompts = worker.prompts
  <2>1. worker' = IF worker.run = r THEN [worker EXCEPT !.shared = FALSE] ELSE worker BY DEF Overflow
  <2>2. worker = Idle => worker' = Idle
    <3>1. Idle \in [run : {"none"}, ask : {0}, prompts : {<<>>}, shared : {FALSE}, discards : {{}},
                    notices : {<<>>}] /\ Idle.shared = FALSE
      BY DEF Idle
    <3>2. [Idle EXCEPT !.shared = FALSE] = Idle BY <3>1, NotShared
    <3> QED BY <2>1, <3>2
  <2>3. worker # Idle => worker \in UnderWay BY <1>1 DEF ClientOK
  <2>4. worker \in UnderWay => [worker EXCEPT !.shared = FALSE].prompts = worker.prompts BY DEF UnderWay
  <2> QED BY <2>1, <2>2, <2>3, <2>4
<1>10. Askers' BY <1>8, <1>9 DEF PairInv, Askers
<1>11. ContextCalls' /\ EachPaired(payload)' BY <1>0, <1>2, CallsStay
<1> QED BY <1>10, <1>11

LEMMA CallsInterrupt ==
  ASSUME ChatClientAssumption, PairInv, TypeOK', Interrupt \/ Nothing
  PROVE  ContextCalls' /\ Askers' /\ EachPaired(payload)'
<1>0. SaidInv /\ TypeOK BY DEF PairInv, SaidInv
<1>1. calls' = calls /\ context' = context /\ job' = job /\ (payload' = payload \/ payload' = <<>>)
  BY DEF Interrupt, Nothing, client
<1>2. worker' = worker \/ worker' = Idle BY DEF Interrupt, Nothing, client
<1>3. Askers' BY <1>1, <1>2 DEF PairInv, Askers
<1>4. ContextCalls' /\ EachPaired(payload)' BY <1>0, <1>1, CallsStay
<1> QED BY <1>3, <1>4

LEMMA AsksAppend ==
  ASSUME NEW m \in Seq(Prompt), CallsOnce(m), NEW ps \in Seq(Prompt), Asks(ps)
  PROVE  /\ m \o ps \in Seq(Prompt) /\ CallsOnce(m \o ps)
         /\ \A c \in CallIds : Call(c) \in ToSet(m \o ps) => Call(c) \in ToSet(m)
<1>1. \A c \in CallIds : Call(c) \notin ToSet(ps)
  <2>1. \A c \in CallIds : IsAssistant(Call(c)) BY PromptTypes DEF IsAssistant
  <2> QED BY <2>1 DEF Asks
<1>2. m \o ps \in Seq(Prompt) /\ ToSet(m \o ps) = ToSet(m) \cup ToSet(ps) BY ConcatSet
<1>3. \A c \in CallIds : Once(ps, Call(c)) BY <1>1, OnceAbsent
<1>4. CallsOnce(m \o ps) BY <1>1, <1>3, OnceConcat DEF CallsOnce
<1> QED BY <1>1, <1>2, <1>4

LEMMA CallsStart ==
  ASSUME ChatClientAssumption, PairInv, TypeOK', Start
  PROVE  ContextCalls' /\ Askers' /\ EachPaired(payload)'
<1>0. SaidInv /\ TypeOK /\ ContextCalls /\ Askers BY DEF PairInv, SaidInv
<1>1. ClientOK /\ JobsOK /\ CountsOK BY <1>0, TypeParts
<1> DEFINE q == Head(queue)
<1>2. q \in Requests BY <1>1, HeadTailProperties DEF Start, ClientOK
<1>3. job' = job /\ calls' = calls BY DEF Start
<1>4. CASE ~Waits(q)
  <2>1. UNCHANGED <<context, worker, payload>> BY <1>4 DEF Start
  <2> QED BY <1>3, <2>1 DEF PairInv, ContextCalls, Askers
<1>5. CASE Waits(q)
  <2> DEFINE r == q.run
  <2> DEFINE prompts == job[r].prompts
  <2> DEFINE all == Messages(Added(context, prompts))
  <2> DEFINE normal == Normalised(all)
  <2> DEFINE discards == normal.orphans \cup normal.closed
  <2> DEFINE m == Messages(context)
  <2>1. /\ context' = Discarded(context, discards) /\ payload' = normal.sent
        /\ worker' = [run |-> r, ask |-> q.ask, prompts |-> prompts, shared |-> TRUE,
                      discards |-> discards, notices |-> normal.notices]
    BY <1>5 DEF Start
  <2>2. r \in Run BY <1>2 DEF Requests
  <2>3. job[r] \in Jobs BY <1>1, <2>2 DEF JobsOK
  <2>4. prompts \in Seq(Prompt) /\ Asks(prompts) BY <1>0, <2>2, <2>3 DEF Jobs, Askers
  <2>5. context \in Rounds(Prompt) /\ context \in Seq(Seq(Prompt)) BY <1>1, RoundsAreSeqs DEF ClientOK
  <2> HIDE DEF r, prompts
  <2>6. m \in Seq(Prompt) /\ all = m \o prompts /\ all \in Seq(Prompt) BY <2>4, <2>5, NormalisedFacts
  <2>7. CallsOnce(m) /\ \A c \in CallIds : Call(c) \in ToSet(m) => c <= calls BY <1>0 DEF ContextCalls
  <2> HIDE DEF all, normal, m
  <2>8. CallsOnce(all) BY <2>4, <2>6, <2>7, AsksAppend
  <2>9. EachPaired(normal.sent) BY <2>6, <2>8, NormalisedPaired DEF normal
  <2> HIDE DEF discards
  <2>10. Messages(context') = Without(m, discards) /\ Without(m, discards) \in Seq(Prompt)
    BY <2>1, <2>5, <2>6, DiscardedFacts, WithoutFacts DEF m
  <2>11. calls \in Nat /\ calls <= calls BY <1>1 DEF CountsOK, ChatClientAssumption
  <2> DEFINE n == Without(m, discards)
  <2>12. \E D : n = Without(m, D) OBVIOUS
  <2> HIDE DEF n
  <2>13. CallsOnce(n) /\ \A c \in CallIds : Call(c) \in ToSet(n) => c <= calls
    BY <2>6, <2>7, <2>10, <2>11, <2>12, ContextSmaller DEF n
  <2>14. ContextCalls' BY <1>3, <2>10, <2>13 DEF ContextCalls, n
  <2>15. Askers' BY <1>0, <1>3, <2>1, <2>4 DEF Askers
  <2> QED BY <2>1, <2>9, <2>14, <2>15
<1> QED BY <1>4, <1>5

LEMMA AnswerCalls ==
  ASSUME ChatClientAssumption, calls \in 0..MaxCalls, NEW answer \in Answers
  PROVE  CallsOnce(answer) /\ \A c \in CallIds : Call(c) \in ToSet(answer) => c > calls
<1>0. calls \in Nat /\ MaxCalls \in Nat BY DEF ChatClientAssumption
<1>1. CASE answer = <<>> BY <1>1, EmptyFacts DEF CallsOnce, Once
<1>2. CASE answer = <<Reply>>
  <2>1. ToSet(answer) = {Reply} BY <1>2 DEF ToSet
  <2>2. \A c \in CallIds : Call(c) # Reply BY PromptTypes
  <2>3. answer \in Seq({Reply}) BY <1>2
  <2>4. CallsOnce(answer) BY <2>1, <2>2, <2>3, OnceAbsent DEF CallsOnce
  <2> QED BY <2>1, <2>2, <2>4
<1>3. ASSUME NEW n \in 1..2, calls + n <= MaxCalls, answer = [i \in 1..n |-> Call(calls + i)]
      PROVE  CallsOnce(answer) /\ \A c \in CallIds : Call(c) \in ToSet(answer) => c > calls
  <2>1. \A i \in 1..n : calls + i \in CallIds BY <1>0, <1>3 DEF CallIds
  <2>2. DOMAIN answer = 1..n /\ \A i \in 1..n : answer[i] = Call(calls + i) BY <1>3
  <2>3. \A c, d \in CallIds : Call(c) = Call(d) => c = d BY PromptTypes
  <2>4. CallIds \subseteq Int BY DEF CallIds
  <2>5. ASSUME NEW c \in CallIds, NEW i \in 1..n, answer[i] = Call(c) PROVE c = calls + i
    BY <2>1, <2>2, <2>3, <2>5
  <2>6. CallsOnce(answer)
    <3> SUFFICES ASSUME NEW c \in CallIds, NEW i \in 1..n, NEW j \in 1..n,
                        answer[i] = Call(c), answer[j] = Call(c)
                 PROVE  i = j
      BY <2>2 DEF CallsOnce, Once
    <3>1. c = calls + i /\ c = calls + j BY <2>5
    <3> QED BY <1>0, <3>1
  <2>7. \A c \in CallIds : Call(c) \in ToSet(answer) => c > calls
    <3> SUFFICES ASSUME NEW c \in CallIds, Call(c) \in ToSet(answer) PROVE c > calls OBVIOUS
    <3>1. PICK i \in 1..n : answer[i] = Call(c) BY <2>2 DEF ToSet
    <3>2. c = calls + i BY <2>5, <3>1
    <3> QED BY <1>0, <3>2
  <2> QED BY <2>6, <2>7
<1> QED BY <1>0, <1>1, <1>2, <1>3 DEF Answers

LEMMA CallsAnswer ==
  ASSUME ChatClientAssumption, PairInv, TypeOK', Answer
  PROVE  ContextCalls' /\ Askers' /\ EachPaired(payload)'
<1>0. SaidInv /\ TypeOK /\ ContextCalls /\ Askers BY DEF PairInv, SaidInv
<1>1. ClientOK /\ JobsOK /\ CountsOK BY <1>0, TypeParts
<1>2. worker # Idle /\ worker \in UnderWay /\ RequestSays BY <1>0, <1>1 DEF Answer, ClientOK, SaidInv
<1>3. PICK answer \in Answers : Answered_with(answer) BY AnswerWith
<1> DEFINE r == worker.run
<1> DEFINE ps == Kept(worker.prompts)
<1> DEFINE m == Messages(context)
<1>4. worker' = Idle /\ payload' = <<>> BY DEF Answer
<1>5. /\ r \in Run /\ ps \in Seq(Prompt)
      /\ ToSet(ps) = (ToSet(worker.prompts) \ worker.discards) \cup ToSet(worker.notices)
  BY <1>2, KeptFacts
<1>6. Asks(ps)
  <2>1. Asks(worker.prompts) BY <1>0, <1>2 DEF Askers
  <2>2. \A p \in ToSet(worker.notices) : ~IsAssistant(p) BY <1>2 DEF RequestSays, IsAssistant
  <2> QED BY <1>5, <2>1, <2>2 DEF Asks
<1>7. /\ answer \in Seq(Prompt) /\ CallsOnce(answer)
      /\ \A c \in CallIds : Call(c) \in ToSet(answer) => c > calls
      /\ CallsOf(answer) \subseteq 1..(calls + Cardinality(CallsOf(answer)))
      /\ calls + Cardinality(CallsOf(answer)) \in calls..MaxCalls
  BY <1>1, AnswerFacts, AnswerCalls DEF CountsOK
<1>8. m \in Seq(Prompt) /\ Messages(context') = (m \o ps) \o answer /\ m \o ps \in Seq(Prompt)
  <2>1. context \in Rounds(Prompt) BY <1>1 DEF ClientOK
  <2>2. context' = Added(Added(context, ps), answer) BY <1>3 DEF Answered_with
  <2>3. m \in Seq(Prompt) BY <2>1, RoundsAreSeqs, MessagesFacts
  <2> DEFINE mid == Added(context, ps)
  <2> HIDE DEF ps, m
  <2>4. mid \in Rounds(Prompt) /\ Messages(mid) = m \o ps BY <1>5, <2>1, AddedFacts DEF m
  <2>5. context' = Added(mid, answer) BY <2>2
  <2> HIDE DEF mid
  <2>6. Messages(context') = Messages(mid) \o answer BY <1>7, <2>4, <2>5, AddedFacts
  <2>7. m \o ps \in Seq(Prompt) BY <1>5, <2>3, ConcatSet
  <2> QED BY <2>3, <2>4, <2>6, <2>7
<1>9. CallsOnce(m) /\ \A c \in CallIds : Call(c) \in ToSet(m) => c <= calls BY <1>0 DEF ContextCalls
<1>10. ContextCalls'
  <2> HIDE DEF m, ps
  <2> DEFINE n == m \o ps
  <2>1. n \in Seq(Prompt) /\ CallsOnce(n) /\ \A c \in CallIds : Call(c) \in ToSet(n) => c <= calls
    BY <1>5, <1>6, <1>8, <1>9, AsksAppend
  <2>2. Messages(context') = n \o answer BY <1>8
  <2> HIDE DEF n
  <2> DEFINE k == calls + Cardinality(CallsOf(answer))
  <2>3. calls' = k BY <1>3 DEF Answered_with
  <2>4. CallsOf(answer) \subseteq 1..k /\ k \in calls..MaxCalls BY <1>7
  <2> HIDE DEF k
  <2>5. calls \in Nat /\ MaxCalls \in Nat BY <1>1 DEF CountsOK, ChatClientAssumption
  <2>6. ToSet(n \o answer) = ToSet(n) \cup ToSet(answer) BY <1>7, <2>1, ConcatSet
  <2>7. \A c \in CallIds : Call(c) \in ToSet(answer) => c <= k
    <3> SUFFICES ASSUME NEW c \in CallIds, Call(c) \in ToSet(answer) PROVE c <= k OBVIOUS
    <3>1. Call(c).kind = "call" /\ Call(c).call = c BY PromptTypes
    <3>2. c \in CallsOf(answer) BY <3>1 DEF CallsOf
    <3> QED BY <2>4, <3>2
  <2>8. \A c \in CallIds : Call(c) \in ToSet(n \o answer) => c <= k
    BY <2>1, <2>4, <2>5, <2>6, <2>7 DEF CallIds
  <2>9. CallsOnce(n \o answer)
    <3> SUFFICES ASSUME NEW c \in CallIds PROVE Once(n \o answer, Call(c)) BY DEF CallsOnce
    <3>1. ~(Call(c) \in ToSet(n) /\ Call(c) \in ToSet(answer)) BY <1>7, <2>1, <2>5 DEF CallIds
    <3>2. Once(n, Call(c)) /\ Once(answer, Call(c)) BY <1>7, <2>1 DEF CallsOnce
    <3> QED BY <1>7, <2>1, <3>1, <3>2, OnceConcat
  <2> QED BY <2>2, <2>3, <2>8, <2>9 DEF ContextCalls
<1>11. Askers'
  <2> DEFINE x == job[r]
  <2> DEFINE kept == IF worker.shared /\ Inside(r) THEN ps ELSE x.prompts
  <2> DEFINE got == IF Waits(worker) THEN CallsOf(answer) ELSE x.got
  <2> DEFINE j == [x EXCEPT !.prompts = kept, !.got = got]
  <2>1. job' = [job EXCEPT ![r] = j] BY <1>0, <1>2, <1>3, AnswerJob
  <2>2. x \in Jobs /\ job \in [Run -> Jobs] BY <1>1, <1>5 DEF JobsOK
  <2>3. Asks(kept) BY <1>0, <1>5, <1>6 DEF Askers
  <2> HIDE DEF x, kept, got, r
  <2>4. j.prompts = kept BY <2>2 DEF Jobs
  <2> HIDE DEF j
  <2>5. \A q \in Run : Asks(job'[q].prompts) BY <1>0, <1>5, <2>1, <2>2, <2>3, <2>4 DEF Askers
  <2> QED BY <1>4, <2>5 DEF Askers
<1>12. EachPaired(payload)' BY <1>4, EmptyPaired
<1> QED BY <1>10, <1>11, <1>12

LEMMA PairInit == ASSUME ChatClientAssumption, Init PROVE PairInv
<1>1. SaidInv BY SaidInit
<1>2. Messages(context) = <<>> /\ worker = Idle /\ payload = <<>> BY MessagesEmpty DEF Init
<1>3. ContextCalls BY <1>2, EmptyFacts DEF ContextCalls, CallsOnce, Once
<1>4. Askers BY <1>2, NoJobAsks DEF Init, Askers
<1> QED BY <1>1, <1>2, <1>3, <1>4, EmptyPaired DEF PairInv

LEMMA PairStep ==
  ASSUME ChatClientAssumption, PairInv, [Next]_vars PROVE PairInv'
<1>1. SaidInv' /\ TypeOK' BY SaidStep DEF PairInv, SaidInv
<1>2. CASE UNCHANGED vars
  <2>1. UNCHANGED <<context, worker, payload, job, calls>> BY <1>2 DEF vars, client
  <2> QED BY <1>1, <2>1 DEF PairInv, ContextCalls, Askers
<1>3. ASSUME NEW r \in Run,
             Begin(r) \/ Ask(r) \/ Overflow(r) \/ Compressed(r) \/ CompressionFails(r) \/ Unanswered(r)
                \/ Timeout(r) \/ Cancelled(r) \/ Answered(r)
      PROVE  PairInv'
  BY <1>1, <1>3, CallsBegin, CallsRun, CallsOverflow DEF PairInv
<1>4. CASE Interrupt \/ Start \/ Nothing \/ Answer
  BY <1>1, <1>4, CallsInterrupt, CallsStart, CallsAnswer DEF PairInv
<1> QED BY <1>2, <1>3, <1>4 DEF Next

\* Whatever overlaps, comes late or brings nothing, in what is sent each call has
\* its one response before the user speaks again, and there is no response without
\* its call: the first half of PayloadPaired, which _payload_constructor keeps by
\* what it appends and what it turns into text, and which needs that no call is in
\* the context twice and that what the runs have to say has no calls in it.
THEOREM EachPairedCorrect == Spec => []EachPaired(payload)
<1>1. Init => PairInv BY PairInit, ChatClientAssumption
<1>2. PairInv /\ [Next]_vars => PairInv' BY PairStep, ChatClientAssumption
<1>3. PairInv => EachPaired(payload) BY DEF PairInv
<1> QED BY <1>1, <1>2, <1>3, PTL DEF Spec

------------------------------------------------------------------------------
\* An account of prompts: the calls that wait, those that waited when a response was
\* given, those that still did when the model spoke, the responses that are sent as
\* responses, and what a normalisation discards.

Nought == [pending |-> {}, half |-> {}, left |-> {}, used |-> {}, dropped |-> {}]

Counted(t, p) ==
  IF p.kind = "call" THEN [t EXCEPT !.pending = @ \cup {p.call}, !.left = @ \cup t.half]
  ELSE IF p.kind = "reply" THEN [t EXCEPT !.left = @ \cup t.half]
  ELSE IF p.kind = "response" /\ p.call \in t.pending
  THEN [t EXCEPT !.pending = @ \ {p.call}, !.half = t.pending \ {p.call}, !.used = @ \cup {p}]
  ELSE [t EXCEPT !.pending = {}, !.half = {},
                 !.dropped = @ \cup {Call(c) : c \in t.pending} \cup {q \in {p} : q.kind = "response"}]

Account(prompts) ==
  LET count[i \in 0..Len(prompts)] ==
        IF i = 0 THEN Nought ELSE Counted(count[i - 1], prompts[i])
  IN  count[Len(prompts)]

Counts(f, n, s) == f = [i \in 0..n |-> IF i = 0 THEN Nought ELSE Counted(f[i - 1], s[i])]

LEMMA CountsExist ==
  ASSUME NEW s, NEW n \in Nat PROVE \E f : Counts(f, n, s)
<1> DEFINE T == {k \in 0..n : \E f : Counts(f, k, s)}
<1>1. 0 \in T
  <2> DEFINE none == [i \in 0..0 |-> Nought]
  <2>1. Counts(none, 0, s) BY DEF Counts
  <2> QED BY <2>1
<1>2. ASSUME NEW k \in 1..n, k - 1 \in T PROVE k \in T
  <2>1. PICK f : Counts(f, k - 1, s) BY <1>2
  <2> DEFINE g == [i \in 0..k |-> IF i = k THEN Counted(f[k - 1], s[k]) ELSE f[i]]
  <2>2. ASSUME NEW i \in 0..k
        PROVE  g[i] = IF i = 0 THEN Nought ELSE Counted(g[i - 1], s[i])
    <3>1. CASE i = 0 BY <2>1, <3>1 DEF Counts
    <3>2. CASE i # 0
      <4>1. g[i - 1] = f[i - 1] BY <3>2
      <4>2. i # k => f[i] = Counted(f[i - 1], s[i]) BY <2>1, <3>2 DEF Counts
      <4> QED BY <3>2, <4>1, <4>2
    <3> QED BY <3>1, <3>2
  <2>3. Counts(g, k, s) BY <2>2 DEF Counts
  <2> QED BY <2>3
<1> HIDE DEF T
<1>3. \A k \in 0..n : k \in T BY <1>1, <1>2, Climb
<1> QED BY <1>3 DEF T

LEMMA AccountIs ==
  ASSUME NEW X, NEW s \in Seq(X)
  PROVE  \E f : /\ Account(s) = f[Len(s)] /\ f[0] = Nought
                /\ \A i \in 1..Len(s) : f[i] = Counted(f[i - 1], s[i])
<1> DEFINE f == CHOOSE f : Counts(f, Len(s), s)
<1>1. Len(s) \in Nat OBVIOUS
<1>2. Counts(f, Len(s), s) BY <1>1, CountsExist
<1>3. Account(s) = f[Len(s)] BY DEF Account, Counts
<1> HIDE DEF f
<1>4. f[0] = Nought BY <1>1, <1>2 DEF Counts
<1>5. \A i \in 1..Len(s) : f[i] = Counted(f[i - 1], s[i]) BY <1>1, <1>2 DEF Counts
<1> QED BY <1>3, <1>4, <1>5

LEMMA AccountAppend ==
  ASSUME NEW X, NEW s \in Seq(X), NEW x \in X
  PROVE  Account(Append(s, x)) = Counted(Account(s), x)
<1> DEFINE n == Len(s)
<1> DEFINE t == Append(s, x)
<1>1. n \in Nat /\ t \in Seq(X) /\ Len(t) = n + 1 /\ t[n + 1] = x /\ \A i \in 1..n : t[i] = s[i]
  BY AppendProperties
<1> HIDE DEF t
<1>2. PICK f : /\ Account(s) = f[n] /\ f[0] = Nought
               /\ \A i \in 1..n : f[i] = Counted(f[i - 1], s[i])
  BY AccountIs
<1>3. PICK g : /\ Account(t) = g[Len(t)] /\ g[0] = Nought
               /\ \A i \in 1..Len(t) : g[i] = Counted(g[i - 1], t[i])
  BY <1>1, AccountIs
<1> HIDE DEF n
<1> DEFINE T == {i \in 0..n : f[i] = g[i]}
<1>4. 0 \in T /\ \A i \in 1..n : i - 1 \in T => i \in T BY <1>1, <1>2, <1>3
<1> HIDE DEF T
<1>5. \A i \in 0..n : i \in T BY <1>1, <1>4, Climb
<1>6. g[n + 1] = Counted(g[n], x) BY <1>1, <1>3
<1>7. g[n] = f[n] BY <1>1, <1>5 DEF T
<1>8. Account(t) = Counted(Account(s), x) BY <1>1, <1>2, <1>3, <1>6, <1>7
<1> QED BY <1>8 DEF t

LEMMA AccountEmpty == Account(<<>>) = Nought
<1>1. <<>> \in Seq({}) /\ Len(<<>>) = 0 OBVIOUS
<1>2. PICK f : Account(<<>>) = f[Len(<<>>)] /\ f[0] = Nought BY <1>1, AccountIs
<1> QED BY <1>1, <1>2

AccountRecord ==
  [pending : SUBSET CallIds, half : SUBSET CallIds, left : SUBSET CallIds, used : SUBSET Prompt,
   dropped : SUBSET Prompt]

\* What one prompt more does to the account
Used(t, p) == p.kind = "response" /\ p.call \in t.pending
Cuts_off(t, p) == IsUser(p) \/ (p.kind = "response" /\ p.call \notin t.pending)

LEMMA CountedKinds ==
  ASSUME NEW t, NEW p \in Prompt
  PROVE  \/ p.kind = "call" /\ p = Call(p.call) /\ p.call \in CallIds
         \/ p.kind = "reply" \/ Used(t, p) \/ Cuts_off(t, p)
BY PromptKinds DEF Used, Cuts_off, IsUser

LEMMA CountedSpoken ==
  ASSUME NEW t \in AccountRecord, NEW p \in Prompt, p.kind \in {"call", "reply"}
  PROVE  LET u == Counted(t, p) IN
         /\ u \in AccountRecord
         /\ p.kind = "call" => u.pending = t.pending \cup {p.call}
         /\ p.kind = "reply" => u.pending = t.pending
         /\ u.half = t.half /\ u.left = t.left \cup t.half
         /\ u.used = t.used /\ u.dropped = t.dropped
<1>1. p.kind = "call" => p.call \in CallIds BY PromptKinds
<1> DEFINE a == IF p.kind = "call" THEN t.pending \cup {p.call} ELSE t.pending
<1> DEFINE b == t.left \cup t.half
<1>2. a \in SUBSET CallIds /\ b \in SUBSET CallIds BY <1>1 DEF AccountRecord
<1>3. Counted(t, p) = [t EXCEPT !.pending = a, !.left = b]
  <2>1. CASE p.kind = "call" BY <2>1 DEF Counted
  <2>2. CASE p.kind = "reply"
    <3>1. Counted(t, p) = [t EXCEPT !.left = b] /\ a = t.pending BY <2>2 DEF Counted
    <3> HIDE DEF b
    <3> QED BY <3>1 DEF AccountRecord
  <2> QED BY <2>1, <2>2
<1>4. (p.kind = "call" => a = t.pending \cup {p.call}) /\ (p.kind = "reply" => a = t.pending) OBVIOUS
<1> HIDE DEF a
<1>5. b = t.left \cup t.half OBVIOUS
<1> HIDE DEF b
<1> QED BY <1>2, <1>3, <1>4, <1>5 DEF AccountRecord

LEMMA CountedUsed ==
  ASSUME NEW t \in AccountRecord, NEW p \in Prompt, Used(t, p)
  PROVE  LET u == Counted(t, p) IN
         /\ u \in AccountRecord /\ u.pending = t.pending \ {p.call} /\ u.half = t.pending \ {p.call}
         /\ u.left = t.left /\ u.used = t.used \cup {p} /\ u.dropped = t.dropped
<1> DEFINE a == t.pending \ {p.call}
<1> DEFINE b == t.used \cup {p}
<1>1. a \in SUBSET CallIds /\ b \in SUBSET Prompt BY DEF AccountRecord
<1>2. Counted(t, p) = [t EXCEPT !.pending = a, !.half = a, !.used = b] BY DEF Counted, Used
<1>3. a = t.pending \ {p.call} /\ b = t.used \cup {p} OBVIOUS
<1> HIDE DEF a, b
<1> QED BY <1>1, <1>2, <1>3 DEF AccountRecord

Drops(t, p) == {Call(c) : c \in t.pending} \cup {q \in {p} : q.kind = "response"}

LEMMA CountedCut ==
  ASSUME NEW t \in AccountRecord, NEW p \in Prompt, Cuts_off(t, p)
  PROVE  LET u == Counted(t, p) IN
         /\ u \in AccountRecord /\ u.pending = {} /\ u.half = {} /\ u.left = t.left
         /\ u.used = t.used /\ u.dropped = t.dropped \cup Drops(t, p)
<1> DEFINE d == t.dropped \cup Drops(t, p)
<1>1. d \in SUBSET Prompt
  <2>1. t.pending \subseteq CallIds /\ t.dropped \subseteq Prompt BY DEF AccountRecord
  <2> QED BY <2>1, PromptTypes DEF Drops
<1>2. Counted(t, p) = [t EXCEPT !.pending = {}, !.half = {}, !.dropped = d]
  <2>1. d = t.dropped \cup {Call(c) : c \in t.pending} \cup {q \in {p} : q.kind = "response"} BY DEF Drops
  <2> QED BY <2>1 DEF Counted, Cuts_off, IsUser
<1> HIDE DEF d
<1> QED BY <1>1, <1>2 DEF AccountRecord, d

\* What is in the account comes from the prompts.
LEMMA AccountFacts ==
  \A m \in Seq(Prompt) :
    /\ Account(m) \in AccountRecord /\ Account(m).half \subseteq Account(m).pending
    /\ \A c \in Account(m).pending : Call(c) \in ToSet(m)
    /\ \A p \in Account(m).used : p \in ToSet(m) /\ p.kind = "response" /\ Call(p.call) \in ToSet(m)
    /\ Account(m).dropped \subseteq ToSet(m)
<1> DEFINE Good(t, S) == /\ t \in AccountRecord /\ t.half \subseteq t.pending
                         /\ \A c \in t.pending : Call(c) \in S
                         /\ \A p \in t.used : p \in S /\ p.kind = "response" /\ Call(p.call) \in S
                         /\ t.dropped \subseteq S
<1> DEFINE T == {m \in Seq(Prompt) : Good(Account(m), ToSet(m))}
<1>1. <<>> \in T
  <2>1. Nought \in AccountRecord BY DEF Nought, AccountRecord
  <2>2. Good(Nought, {}) BY <2>1 DEF Nought
  <2> QED BY <2>2, AccountEmpty, EmptyFacts
<1>2. ASSUME NEW m \in Seq(Prompt), NEW p \in Prompt, m \in T PROVE Append(m, p) \in T
  <2> DEFINE t == Account(m)
  <2> DEFINE S == ToSet(m)
  <2>1. Append(m, p) \in Seq(Prompt) /\ ToSet(Append(m, p)) = S \cup {p} BY AppendFacts
  <2>2. Account(Append(m, p)) = Counted(t, p) BY AccountAppend
  <2>3. Good(t, S) BY <1>2
  <2> HIDE DEF t, S
  <2> DEFINE u == Counted(t, p)
  <2>4. ASSUME p.kind \in {"call", "reply"} PROVE Good(u, S \cup {p})
    <3>1. p.kind = "call" => p = Call(p.call) BY PromptKinds
    <3>2. /\ u \in AccountRecord /\ u.half = t.half /\ u.used = t.used /\ u.dropped = t.dropped
          /\ u.pending = t.pending \/ (p.kind = "call" /\ u.pending = t.pending \cup {p.call})
      BY <2>3, <2>4, CountedSpoken
    <3> HIDE DEF u
    <3> QED BY <2>3, <3>1, <3>2
  <2>5. ASSUME Used(t, p) PROVE Good(u, S \cup {p})
    <3>1. /\ u \in AccountRecord /\ u.pending = t.pending \ {p.call} /\ u.half = u.pending
          /\ u.used = t.used \cup {p} /\ u.dropped = t.dropped
      BY <2>3, <2>5, CountedUsed
    <3> HIDE DEF u
    <3> QED BY <2>3, <2>5, <3>1 DEF Used
  <2>6. ASSUME Cuts_off(t, p) PROVE Good(u, S \cup {p})
    <3>1. /\ u \in AccountRecord /\ u.pending = {} /\ u.half = {}
          /\ u.used = t.used /\ u.dropped = t.dropped \cup Drops(t, p)
      BY <2>3, <2>6, CountedCut
    <3>2. Drops(t, p) \subseteq S \cup {p} BY <2>3 DEF Drops
    <3> HIDE DEF u
    <3> QED BY <2>3, <3>1, <3>2
  <2>9. Good(u, S \cup {p}) BY <2>4, <2>5, <2>6, CountedKinds
  <2> HIDE DEF Good
  <2> QED BY <2>1, <2>2, <2>9
<1> HIDE DEF T
<1>3. Grows(Prompt, T) BY <1>1, <1>2 DEF Grows
<1>4. \A m \in Seq(Prompt) : m \in T BY <1>3, SeqInduction
<1> QED BY <1>4 DEF T

\* What one prompt more does to the rest of a normalisation
LEMMA ClosedRest ==
  ASSUME NEW z, SeenOK(z)
  PROVE  /\ Closed(z).orphans = z.orphans /\ Closed(z).notices = z.notices
         /\ Closed(z).closed = z.closed \cup {Call(c) : c \in z.pending} /\ Closed(z).pending = {}
<1>1. z \in SeenRecord BY DEF SeenOK
<1> DEFINE n == z.sent \o Missings(SetToSeq(z.pending))
<1> DEFINE cs == z.closed \cup {Call(c) : c \in z.pending}
<1>2. Closed(z) = [z EXCEPT !.sent = n, !.closed = cs, !.pending = {}] BY DEF Closed, Missings
<1> HIDE DEF n, cs
<1>3. /\ Closed(z).orphans = z.orphans /\ Closed(z).notices = z.notices
      /\ Closed(z).closed = cs /\ Closed(z).pending = {}
  BY <1>1, <1>2 DEF SeenRecord
<1> QED BY <1>3 DEF cs

LEMMA NormalRest ==
  ASSUME ChatClientAssumption, NEW z, SeenOK(z), NEW p \in Prompt
  PROVE  LET y == Normal(z, p) IN
         /\ p.kind \in {"call", "reply"} \/ Used(z, p) =>
              /\ y.pending = (IF p.kind = "call" THEN z.pending \cup {p.call}
                              ELSE IF p.kind = "reply" THEN z.pending ELSE z.pending \ {p.call})
              /\ y.orphans = z.orphans /\ y.closed = z.closed
         /\ Cuts_off(z, p) =>
              y.pending = {} /\ y.orphans \cup y.closed = z.orphans \cup z.closed \cup Drops(z, p)
<1>1. z \in SeenRecord BY DEF SeenOK
<1> DEFINE y == Normal(z, p)
<1>2. CASE p.kind \in {"call", "reply"} \/ Used(z, p)
  <2> DEFINE a == IF p.kind = "call" THEN z.pending \cup {p.call}
                  ELSE IF p.kind = "reply" THEN z.pending ELSE z.pending \ {p.call}
  <2> DEFINE b == Append(z.sent, p)
  <2>1. y = [z EXCEPT !.sent = b, !.pending = a]
    <3>1. CASE p.kind = "reply"
      <4>1. y = [z EXCEPT !.sent = b] /\ a = z.pending BY <3>1 DEF Normal, IsUser
      <4> HIDE DEF b, a, y
      <4> QED BY <1>1, <4>1 DEF SeenRecord
    <3>2. CASE p.kind = "call" BY <3>2 DEF Normal
    <3>3. CASE Used(z, p) BY <3>3 DEF Normal, Used
    <3> QED BY <1>2, <3>1, <3>2, <3>3
  <2> HIDE DEF a, b, y
  <2>2. y.pending = a /\ y.orphans = z.orphans /\ y.closed = z.closed BY <1>1, <2>1 DEF SeenRecord
  <2> QED BY <1>2, <2>2 DEF a, y, Used, Cuts_off, IsUser
<1>3. CASE Cuts_off(z, p)
  <2> DEFINE w == Closed(z)
  <2>1. /\ w \in SeenRecord /\ w.orphans = z.orphans /\ w.pending = {}
        /\ w.closed = z.closed \cup {Call(c) : c \in z.pending}
    BY ClosedFacts, ClosedRest DEF SeenOK
  <2>2. CASE IsUser(p)
    <3>1. y = [w EXCEPT !.sent = Append(w.sent, p)] BY <2>2 DEF Normal, IsUser
    <3>2. Drops(z, p) = {Call(c) : c \in z.pending} BY <2>2 DEF IsUser, Drops
    <3> HIDE DEF w, y
    <3>3. y.pending = {} /\ y.orphans = w.orphans /\ y.closed = w.closed BY <2>1, <3>1 DEF SeenRecord
    <3>4. y.orphans \cup y.closed = z.orphans \cup z.closed \cup Drops(z, p) BY <2>1, <3>2, <3>3
    <3> QED BY <2>2, <3>3, <3>4 DEF y, IsUser, Used
  <2>3. CASE p.kind = "response" /\ p.call \notin z.pending
    <3> DEFINE a == Append(w.sent, Notice(p.call))
    <3> DEFINE b == Append(w.notices, Notice(p.call))
    <3>1. y = [w EXCEPT !.sent = a, !.notices = b, !.orphans = w.orphans \cup {p}]
      BY <2>3 DEF Normal, Orphaned, Orphaned_open
    <3>2. Drops(z, p) = {Call(c) : c \in z.pending} \cup {p} BY <2>3 DEF Drops
    <3> HIDE DEF w, a, b, y
    <3>3. y.pending = {} /\ y.orphans = w.orphans \cup {p} /\ y.closed = w.closed
      BY <2>1, <3>1 DEF SeenRecord
    <3>4. y.orphans \cup y.closed = z.orphans \cup z.closed \cup Drops(z, p) BY <2>1, <3>2, <3>3
    <3> QED BY <2>3, <3>3, <3>4 DEF y, Used
  <2> QED BY <1>3, <2>2, <2>3 DEF Cuts_off
<1> QED BY <1>2, <1>3

\* The account agrees with the normalisation.
LEMMA AccountSeen ==
  ASSUME ChatClientAssumption
  PROVE  \A m \in Seq(Prompt) :
           /\ Account(m).pending = Seen(m).pending
           /\ Account(m).dropped = Seen(m).orphans \cup Seen(m).closed
<1> DEFINE Good(t, z) == t.pending = z.pending /\ t.dropped = z.orphans \cup z.closed
<1> DEFINE T == {m \in Seq(Prompt) : Good(Account(m), Seen(m))}
<1>1. <<>> \in T
  <2>1. Good(Nought, Unsent) BY DEF Nought, Unsent
  <2> HIDE DEF Good
  <2> QED BY <2>1, AccountEmpty, SeenEmpty
<1>2. ASSUME NEW m \in Seq(Prompt), NEW p \in Prompt, m \in T PROVE Append(m, p) \in T
  <2> DEFINE t == Account(m)
  <2> DEFINE z == Seen(m)
  <2>1. Append(m, p) \in Seq(Prompt) BY AppendFacts
  <2>2. Account(Append(m, p)) = Counted(t, p) /\ Seen(Append(m, p)) = Normal(z, p)
    BY AccountAppend, SeenAppend
  <2>3. Good(t, z) /\ t \in AccountRecord /\ SeenOK(z) BY <1>2, AccountFacts, SeenFacts
  <2> HIDE DEF t, z
  <2> DEFINE u == Counted(t, p)
  <2> DEFINE y == Normal(z, p)
  <2>4. (Used(t, p) <=> Used(z, p)) /\ (Cuts_off(t, p) <=> Cuts_off(z, p)) /\ Drops(t, p) = Drops(z, p)
    BY <2>3 DEF Used, Cuts_off, Drops
  <2>5. ASSUME p.kind \in {"call", "reply"} PROVE Good(u, y)
    <3>1. /\ u.pending = (IF p.kind = "call" THEN t.pending \cup {p.call} ELSE t.pending)
          /\ u.dropped = t.dropped
      BY <2>3, <2>5, CountedSpoken
    <3>2. /\ y.pending = (IF p.kind = "call" THEN z.pending \cup {p.call} ELSE z.pending)
          /\ y.orphans = z.orphans /\ y.closed = z.closed
      BY <2>3, <2>5, NormalRest
    <3> HIDE DEF u, y
    <3> QED BY <2>3, <3>1, <3>2
  <2>6. ASSUME Used(t, p) PROVE Good(u, y)
    <3>1. u.pending = t.pending \ {p.call} /\ u.dropped = t.dropped BY <2>3, <2>6, CountedUsed
    <3>2. y.pending = z.pending \ {p.call} /\ y.orphans = z.orphans /\ y.closed = z.closed
      <4>1. p.kind = "response" BY <2>6 DEF Used
      <4> QED BY <2>3, <2>4, <2>6, <4>1, NormalRest
    <3> HIDE DEF u, y
    <3> QED BY <2>3, <3>1, <3>2
  <2>7. ASSUME Cuts_off(t, p) PROVE Good(u, y)
    <3>1. u.pending = {} /\ u.dropped = t.dropped \cup Drops(t, p) BY <2>3, <2>7, CountedCut
    <3>2. y.pending = {} /\ y.orphans \cup y.closed = z.orphans \cup z.closed \cup Drops(z, p)
      BY <2>3, <2>4, <2>7, NormalRest
    <3> HIDE DEF u, y
    <3> QED BY <2>3, <2>4, <3>1, <3>2
  <2>8. Good(u, y) BY <2>5, <2>6, <2>7, CountedKinds
  <2> HIDE DEF Good
  <2> QED BY <2>1, <2>2, <2>8
<1> HIDE DEF T
<1>3. Grows(Prompt, T) BY <1>1, <1>2 DEF Grows
<1>4. \A m \in Seq(Prompt) : m \in T BY <1>3, SeqInduction
<1> QED BY <1>4 DEF T

\* What a normalisation of m discards
Gone(m) == Account(m).dropped \cup {Call(c) : c \in Account(m).pending}

LEMMA GoneIs ==
  ASSUME ChatClientAssumption, NEW m \in Seq(Prompt)
  PROVE  Normalised(m).orphans \cup Normalised(m).closed = Gone(m)
<1> DEFINE z == Seen(m)
<1>1. SeenOK(z) /\ Account(m).pending = z.pending /\ Account(m).dropped = z.orphans \cup z.closed
  BY SeenFacts, AccountSeen
<1> HIDE DEF z
<1>2. /\ Closed(z).orphans = z.orphans
      /\ Closed(z).closed = z.closed \cup {Call(c) : c \in z.pending}
  BY <1>1, ClosedRest
<1> QED BY <1>1, <1>2 DEF Gone, Normalised, z

\* The call of a response that is used stays, and the response too if it is not given again.
LEMMA UsedStays ==
  \A m \in Seq(Prompt) :
    CallsOnce(m) =>
      \A p \in Account(m).used : Call(p.call) \notin Gone(m) /\ (Once(m, p) => p \notin Gone(m))
<1>0. \A c \in CallIds : Call(c) \in Prompt /\ Call(c).kind = "call" /\ Call(c).call = c BY PromptTypes
<1> DEFINE Good(m, t) ==
             /\ \A q \in t.used : /\ q.call \notin t.pending /\ Call(q.call) \notin t.dropped
                                  /\ Once(m, q) => q \notin t.dropped
             /\ \A c \in t.pending : Call(c) \notin t.dropped
<1> DEFINE T == {m \in Seq(Prompt) : CallsOnce(m) => Good(m, Account(m))}
<1>1. <<>> \in T
  <2>1. Good(<<>>, Nought) BY DEF Nought
  <2> HIDE DEF Good
  <2> QED BY <2>1, AccountEmpty
<1>2. ASSUME NEW m \in Seq(Prompt), NEW p \in Prompt, m \in T PROVE Append(m, p) \in T
  <2> DEFINE t == Account(m)
  <2> DEFINE S == ToSet(m)
  <2> DEFINE u == Counted(t, p)
  <2>1. Append(m, p) \in Seq(Prompt) BY AppendFacts
  <2>2. Account(Append(m, p)) = u BY AccountAppend
  <2>3. /\ t \in AccountRecord /\ t.pending \subseteq CallIds
        /\ \A c \in t.pending : Call(c) \in S
        /\ \A q \in t.used : q \in S /\ q \in Prompt /\ q.kind = "response" /\ Call(q.call) \in S
        /\ t.dropped \subseteq S
    BY AccountFacts DEF AccountRecord
  <2> DEFINE n == Append(m, p)
  <2>4. ASSUME CallsOnce(n) PROVE Good(n, u)
    <3>1. \A x \in Prompt : Once(n, x) => Once(m, x) /\ (p = x => x \notin S)
      BY OnceAppend
    <3>2. CallsOnce(m) BY <1>0, <2>4, <3>1 DEF CallsOnce
    <3>3. Good(m, t) BY <1>2, <3>2
    <3>4. p.kind = "call" => p \notin S BY <2>4, <3>1, PromptKinds DEF CallsOnce
    <3>5. \A q \in t.used : q.call \in CallIds BY <2>3, PromptKinds
    <3> HIDE DEF t, S, n
    <3>6. CASE p.kind \in {"call", "reply"}
      <4>1. /\ u.used = t.used /\ u.dropped = t.dropped
            /\ u.pending = t.pending \/ (p.kind = "call" /\ u.pending = t.pending \cup {p.call})
        BY <2>3, <3>6, CountedSpoken
      <4>2. p.kind = "call" => p = Call(p.call) BY PromptKinds
      <4> HIDE DEF u
      <4> QED BY <2>3, <3>1, <3>3, <3>4, <4>1, <4>2
    <3>7. CASE Used(t, p)
      <4>1. u.pending = t.pending \ {p.call} /\ u.used = t.used \cup {p} /\ u.dropped = t.dropped
        BY <2>3, <3>7, CountedUsed
      <4> HIDE DEF u
      <4> QED BY <2>3, <3>1, <3>3, <3>7, <4>1 DEF Used
    <3>8. CASE Cuts_off(t, p)
      <4>1. u.pending = {} /\ u.used = t.used /\ u.dropped = t.dropped \cup Drops(t, p)
        BY <2>3, <3>8, CountedCut
      <4>2. \A q \in t.used : /\ Call(q.call) \notin Drops(t, p)
                              /\ Once(n, q) => q \notin Drops(t, p)
        BY <1>0, <2>3, <3>1, <3>3, <3>5 DEF Drops
      <4> HIDE DEF u
      <4> QED BY <2>3, <3>1, <3>3, <4>1, <4>2
    <3> QED BY <3>6, <3>7, <3>8, CountedKinds
  <2> HIDE DEF Good, u
  <2> QED BY <2>1, <2>2, <2>4
<1> HIDE DEF T
<1>3. Grows(Prompt, T) BY <1>1, <1>2 DEF Grows
<1>4. \A m \in Seq(Prompt) : m \in T BY <1>3, SeqInduction
<1> SUFFICES ASSUME NEW m \in Seq(Prompt), CallsOnce(m), NEW p \in Account(m).used
             PROVE  Call(p.call) \notin Gone(m) /\ (Once(m, p) => p \notin Gone(m))
  OBVIOUS
<1> DEFINE t == Account(m)
<1>5. Good(m, t) BY <1>4 DEF T
<1>6. t.pending \subseteq CallIds /\ p \in Prompt /\ p.kind = "response" BY AccountFacts DEF AccountRecord
<1>7. p.call \in CallIds BY <1>6, PromptKinds
<1> HIDE DEF t
<1> QED BY <1>0, <1>5, <1>6, <1>7 DEF Gone, t

\* Without what is discarded, no more calls wait than before, and none that goes.
LEMMA AccountWithout ==
  ASSUME NEW D
  PROVE  \A m \in Seq(Prompt) :
           Account(m).dropped \subseteq D /\ (\A p \in Account(m).used : p \notin D /\ Call(p.call) \notin D) =>
             /\ Account(Without(m, D)).pending = {c \in Account(m).pending : Call(c) \notin D}
             /\ Account(Without(m, D)).half \subseteq Account(m).half
             /\ Account(Without(m, D)).left \subseteq Account(m).left
<1> DEFINE Spares(t) == t.dropped \subseteq D /\ \A p \in t.used : p \notin D /\ Call(p.call) \notin D
<1> DEFINE Less(v, t) == /\ v.pending = {c \in t.pending : Call(c) \notin D}
                         /\ v.half \subseteq t.half /\ v.left \subseteq t.left
<1> DEFINE T == {m \in Seq(Prompt) : Spares(Account(m)) => Less(Account(Without(m, D)), Account(m))}
<1>1. <<>> \in T
  <2>1. Less(Nought, Nought) BY DEF Nought
  <2> HIDE DEF Less
  <2> QED BY <2>1, AccountEmpty, WithoutEmpty
<1>2. ASSUME NEW m \in Seq(Prompt), NEW p \in Prompt, m \in T PROVE Append(m, p) \in T
  <2> DEFINE n == Without(m, D)
  <2> DEFINE t == Account(m)
  <2> DEFINE v == Account(n)
  <2> DEFINE u == Counted(t, p)
  <2> DEFINE w == Account(Without(Append(m, p), D))
  <2>1. Append(m, p) \in Seq(Prompt) BY AppendFacts
  <2>2. Account(Append(m, p)) = u BY AccountAppend
  <2>3. n \in Seq(Prompt) BY WithoutFacts
  <2>4. w = IF p \in D THEN v ELSE Counted(v, p)
    <3>1. Without(Append(m, p), D) = Keep(n, p, D) BY WithoutAppend
    <3>2. CASE p \in D BY <3>1, <3>2 DEF Keep
    <3>3. CASE p \notin D
      <4>1. Without(Append(m, p), D) = Append(n, p) BY <3>1, <3>3 DEF Keep
      <4> HIDE DEF n
      <4> QED BY <2>3, <3>3, <4>1, AccountAppend
    <3> QED BY <3>2, <3>3
  <2>5. /\ t \in AccountRecord /\ v \in AccountRecord /\ v.half \subseteq v.pending
    BY <2>3, AccountFacts
  <2>6. ASSUME Spares(u) PROVE Less(w, u)
    <3>0. (Spares(t) => Less(v, t)) BY <1>2
    <3> HIDE DEF n, t, v, w
    <3>1. CASE p.kind \in {"call", "reply"}
      <4>1. /\ u.used = t.used /\ u.dropped = t.dropped /\ u.half = t.half
            /\ u.left = t.left \cup t.half
            /\ p.kind = "call" => u.pending = t.pending \cup {p.call}
            /\ p.kind = "reply" => u.pending = t.pending
        BY <2>5, <3>1, CountedSpoken
      <4>2. LET x == Counted(v, p) IN
            /\ x.half = v.half /\ x.left = v.left \cup v.half
            /\ p.kind = "call" => x.pending = v.pending \cup {p.call}
            /\ p.kind = "reply" => x.pending = v.pending
        BY <2>5, <3>1, CountedSpoken
      <4>3. p.kind = "call" => p = Call(p.call) BY PromptKinds
      <4> DEFINE x == Counted(v, p)
      <4> HIDE DEF u, x
      <4>4. Less(v, t) BY <2>6, <3>0, <4>1
      <4>5. CASE p \in D
        <5>1. w = v BY <2>4, <4>5
        <5> QED BY <3>1, <4>1, <4>3, <4>4, <4>5, <5>1
      <4>6. CASE p \notin D
        <5>1. w = x BY <2>4, <4>6 DEF x
        <5>2. /\ x.half = v.half /\ x.left = v.left \cup v.half
              /\ p.kind = "call" => x.pending = v.pending \cup {p.call}
              /\ p.kind = "reply" => x.pending = v.pending
          BY <4>2 DEF x
        <5> QED BY <3>1, <4>1, <4>3, <4>4, <4>6, <5>1, <5>2
      <4> QED BY <4>5, <4>6
    <3>2. CASE Used(t, p)
      <4>1. /\ u.used = t.used \cup {p} /\ u.dropped = t.dropped /\ u.left = t.left
            /\ u.pending = t.pending \ {p.call} /\ u.half = t.pending \ {p.call}
        BY <2>5, <3>2, CountedUsed
      <4> HIDE DEF u
      <4>2. Less(v, t) /\ p \notin D /\ Call(p.call) \notin D BY <2>6, <3>0, <4>1
      <4>3. Used(v, p) BY <3>2, <4>2 DEF Used
      <4> DEFINE x == Counted(v, p)
      <4>4. x.left = v.left /\ x.pending = v.pending \ {p.call} /\ x.half = v.pending \ {p.call}
        BY <2>5, <4>3, CountedUsed
      <4>5. w = x BY <2>4, <4>2
      <4> HIDE DEF x
      <4> QED BY <4>1, <4>2, <4>4, <4>5
    <3>3. CASE Cuts_off(t, p)
      <4>1. /\ u.used = t.used /\ u.dropped = t.dropped \cup Drops(t, p) /\ u.left = t.left
            /\ u.pending = {} /\ u.half = {}
        BY <2>5, <3>3, CountedCut
      <4> HIDE DEF u
      <4>2. Less(v, t) /\ Drops(t, p) \subseteq D BY <2>6, <3>0, <4>1
      <4>3. v.pending = {} BY <4>2 DEF Drops
      <4>4. CASE p \in D
        <5>1. w = v BY <2>4, <4>4
        <5> QED BY <2>5, <4>1, <4>2, <4>3, <5>1
      <4>5. CASE p \notin D
        <5>1. IsUser(p) BY <3>3, <4>2, <4>5 DEF Cuts_off, Drops
        <5>2. Cuts_off(v, p) BY <5>1 DEF Cuts_off
        <5> DEFINE x == Counted(v, p)
        <5>3. x.pending = {} /\ x.half = {} /\ x.left = v.left BY <2>5, <5>2, CountedCut
        <5>4. w = x BY <2>4, <4>5
        <5> HIDE DEF x
        <5> QED BY <4>1, <4>2, <5>3, <5>4
      <4> QED BY <4>4, <4>5
    <3> QED BY <3>1, <3>2, <3>3, CountedKinds
  <2> HIDE DEF Less, Spares
  <2> QED BY <2>1, <2>2, <2>6
<1> HIDE DEF T
<1>3. Grows(Prompt, T) BY <1>1, <1>2 DEF Grows
<1>4. \A m \in Seq(Prompt) : m \in T BY <1>3, SeqInduction
<1> QED BY <1>4 DEF T

\* More prompts discard and use no less.
LEMMA AccountLonger ==
  ASSUME NEW m \in Seq(Prompt)
  PROVE  \A s \in Seq(Prompt) : /\ Account(m).dropped \subseteq Account(m \o s).dropped
                                /\ Account(m).used \subseteq Account(m \o s).used
<1> DEFINE T == {s \in Seq(Prompt) : /\ Account(m).dropped \subseteq Account(m \o s).dropped
                                     /\ Account(m).used \subseteq Account(m \o s).used}
<1>1. <<>> \in T BY EmptyFacts, ConcatEmptySeq
<1>2. ASSUME NEW s \in Seq(Prompt), NEW p \in Prompt, s \in T PROVE Append(s, p) \in T
  <2> DEFINE n == m \o s
  <2> DEFINE t == Account(n)
  <2> DEFINE u == Counted(t, p)
  <2>1. Append(s, p) \in Seq(Prompt) /\ n \in Seq(Prompt) BY AppendFacts, ConcatSet
  <2>2. m \o Append(s, p) = Append(n, p) BY ConcatAppend
  <2>3. Account(m).dropped \subseteq t.dropped /\ Account(m).used \subseteq t.used BY <1>2
  <2> HIDE DEF n
  <2>4. Account(m \o Append(s, p)) = u /\ t \in AccountRecord BY <2>1, <2>2, AccountAppend, AccountFacts
  <2> HIDE DEF t
  <2>5. t.dropped \subseteq u.dropped /\ t.used \subseteq u.used
    BY <2>4, CountedSpoken, CountedUsed, CountedCut, CountedKinds
  <2> QED BY <2>1, <2>3, <2>4, <2>5
<1> HIDE DEF T
<1>3. Grows(Prompt, T) BY <1>1, <1>2 DEF Grows
<1>4. \A s \in Seq(Prompt) : s \in T BY <1>3, SeqInduction
<1> QED BY <1>4 DEF T

\* What is asked never finds the model speaking, and makes no call wait.
LEMMA AccountAsks ==
  ASSUME NEW m \in Seq(Prompt)
  PROVE  \A s \in Seq(Prompt) : Asks(s) =>
           /\ Account(m \o s).left = Account(m).left
           /\ Account(m \o s).pending \subseteq Account(m).pending
<1> DEFINE T == {s \in Seq(Prompt) : Asks(s) => /\ Account(m \o s).left = Account(m).left
                                                /\ Account(m \o s).pending \subseteq Account(m).pending}
<1>1. <<>> \in T BY EmptyFacts, ConcatEmptySeq
<1>2. ASSUME NEW s \in Seq(Prompt), NEW p \in Prompt, s \in T PROVE Append(s, p) \in T
  <2> DEFINE n == m \o s
  <2> DEFINE t == Account(n)
  <2> DEFINE u == Counted(t, p)
  <2>1. Append(s, p) \in Seq(Prompt) /\ ToSet(Append(s, p)) = ToSet(s) \cup {p} /\ n \in Seq(Prompt)
    BY AppendFacts, ConcatSet
  <2>2. m \o Append(s, p) = Append(n, p) BY ConcatAppend
  <2>3. Asks(s) => t.left = Account(m).left /\ t.pending \subseteq Account(m).pending BY <1>2
  <2> HIDE DEF n
  <2>4. Account(m \o Append(s, p)) = u /\ t \in AccountRecord BY <2>1, <2>2, AccountAppend, AccountFacts
  <2> HIDE DEF t
  <2>5. ~IsAssistant(p) => u.left = t.left /\ u.pending \subseteq t.pending
    BY <2>4, CountedUsed, CountedCut, CountedKinds DEF IsAssistant
  <2>6. Asks(Append(s, p)) => Asks(s) /\ ~IsAssistant(p) BY <2>1 DEF Asks
  <2> QED BY <2>1, <2>3, <2>4, <2>5, <2>6
<1> HIDE DEF T
<1>3. Grows(Prompt, T) BY <1>1, <1>2 DEF Grows
<1>4. \A s \in Seq(Prompt) : s \in T BY <1>3, SeqInduction
<1> QED BY <1>4 DEF T

\* What has no responses leaves no call behind others when none of them is half answered.
NoResults(s) == \A p \in ToSet(s) : p.kind # "response"

LEMMA AccountAnswers ==
  ASSUME NEW m \in Seq(Prompt), Account(m).half = {}, Account(m).left = {}
  PROVE  \A s \in Seq(Prompt) : NoResults(s) =>
           /\ Account(m \o s).half = {} /\ Account(m \o s).left = {}
           /\ \A c \in Account(m \o s).pending : c \in Account(m).pending \/ Call(c) \in ToSet(s)
<1> DEFINE Good(t, S) == /\ t.half = {} /\ t.left = {}
                         /\ \A c \in t.pending : c \in Account(m).pending \/ Call(c) \in S
<1> DEFINE T == {s \in Seq(Prompt) : NoResults(s) => Good(Account(m \o s), ToSet(s))}
<1>1. <<>> \in T BY EmptyFacts, ConcatEmptySeq
<1>2. ASSUME NEW s \in Seq(Prompt), NEW p \in Prompt, s \in T PROVE Append(s, p) \in T
  <2> DEFINE n == m \o s
  <2> DEFINE t == Account(n)
  <2> DEFINE u == Counted(t, p)
  <2> DEFINE S == ToSet(s)
  <2>1. Append(s, p) \in Seq(Prompt) /\ ToSet(Append(s, p)) = S \cup {p} /\ n \in Seq(Prompt)
    BY AppendFacts, ConcatSet
  <2>2. m \o Append(s, p) = Append(n, p) BY ConcatAppend
  <2>3. (\A x \in S : x.kind # "response") => Good(t, S) BY <1>2 DEF NoResults
  <2> HIDE DEF n, S
  <2>4. Account(m \o Append(s, p)) = u /\ t \in AccountRecord BY <2>1, <2>2, AccountAppend, AccountFacts
  <2> HIDE DEF t
  <2>5. ASSUME Good(t, S), p.kind # "response" PROVE Good(u, S \cup {p})
    <3>1. CASE p.kind \in {"call", "reply"}
      <4>1. p.kind = "call" => p = Call(p.call) BY PromptKinds
      <4>2. /\ p.kind = "call" => u.pending = t.pending \cup {p.call}
            /\ p.kind = "reply" => u.pending = t.pending
            /\ u.half = t.half /\ u.left = t.left \cup t.half
        BY <2>4, <3>1, CountedSpoken
      <4> HIDE DEF u
      <4> QED BY <2>5, <3>1, <4>1, <4>2
    <3>2. CASE Cuts_off(t, p)
      <4>1. u.pending = {} /\ u.half = {} /\ u.left = t.left BY <2>4, <3>2, CountedCut
      <4> HIDE DEF u
      <4> QED BY <2>5, <4>1
    <3> QED BY <2>5, <3>1, <3>2, CountedKinds DEF Used
  <2> HIDE DEF Good
  <2> QED BY <2>1, <2>3, <2>4, <2>5 DEF NoResults
<1> HIDE DEF T
<1>3. Grows(Prompt, T) BY <1>1, <1>2 DEF Grows
<1>4. \A s \in Seq(Prompt) : s \in T BY <1>3, SeqInduction
<1> QED BY <1>4 DEF T

\* Each response is used or dropped.
LEMMA AccountAll ==
  \A m \in Seq(Prompt) :
    \A p \in ToSet(m) : p.kind = "response" => p \in Account(m).used \cup Account(m).dropped
<1> DEFINE Good(t, S) == \A p \in S : p.kind = "response" => p \in t.used \cup t.dropped
<1> DEFINE T == {m \in Seq(Prompt) : Good(Account(m), ToSet(m))}
<1>1. <<>> \in T BY EmptyFacts
<1>2. ASSUME NEW m \in Seq(Prompt), NEW p \in Prompt, m \in T PROVE Append(m, p) \in T
  <2> DEFINE t == Account(m)
  <2> DEFINE S == ToSet(m)
  <2> DEFINE u == Counted(t, p)
  <2>1. Append(m, p) \in Seq(Prompt) /\ ToSet(Append(m, p)) = S \cup {p} BY AppendFacts
  <2>2. Account(Append(m, p)) = u /\ t \in AccountRecord BY AccountAppend, AccountFacts
  <2>3. Good(t, S) BY <1>2
  <2> HIDE DEF t, S
  <2>4. CASE p.kind \in {"call", "reply"}
    <3>1. u.used = t.used /\ u.dropped = t.dropped BY <2>2, <2>4, CountedSpoken
    <3> HIDE DEF u
    <3> QED BY <2>1, <2>2, <2>3, <2>4, <3>1
  <2>5. CASE Used(t, p)
    <3>1. u.used = t.used \cup {p} /\ u.dropped = t.dropped BY <2>2, <2>5, CountedUsed
    <3> HIDE DEF u
    <3> QED BY <2>1, <2>2, <2>3, <3>1
  <2>6. CASE Cuts_off(t, p)
    <3>1. u.used = t.used /\ u.dropped = t.dropped \cup Drops(t, p) BY <2>2, <2>6, CountedCut
    <3>2. p.kind = "response" => p \in Drops(t, p) BY DEF Drops
    <3> HIDE DEF u
    <3> QED BY <2>1, <2>2, <2>3, <3>1, <3>2
  <2> QED BY <2>4, <2>5, <2>6, CountedKinds
<1> HIDE DEF T
<1>3. Grows(Prompt, T) BY <1>1, <1>2 DEF Grows
<1>4. \A m \in Seq(Prompt) : m \in T BY <1>3, SeqInduction
<1> QED BY <1>4 DEF T

\* Where a user speaks no call waits any more.
LEMMA AccountUser ==
  ASSUME NEW m \in Seq(Prompt), NEW p \in Prompt, IsUser(p)
  PROVE  Account(Append(m, p)).pending = {}
<1>1. Account(Append(m, p)) = Counted(Account(m), p) /\ Account(m) \in AccountRecord
  BY AccountAppend, AccountFacts
<1>2. Cuts_off(Account(m), p) BY DEF Cuts_off
<1> QED BY <1>1, <1>2, CountedCut

------------------------------------------------------------------------------
\* The model does not speak while one of its calls waits and another is answered.

\* Each call that comes before a response has its own, but for those of H.
Settled(s, H) ==
  \A i, j \in DOMAIN s :
    i < j /\ s[i].kind = "call" /\ IsResponse(s[j]) =>
      \/ s[i].call \in H
      \/ \E n \in i..Len(s) : IsResponse(s[n]) /\ s[n].call = s[i].call

LEMMA PairedSettled ==
  ASSUME NEW s \in Seq(Sent), NEW Q, Paired(s, Q) PROVE Settled(s, Q)
<1>1. DOMAIN s = 1..Len(s) /\ Len(s) \in Nat OBVIOUS
<1> SUFFICES ASSUME NEW i \in 1..Len(s), s[i].kind = "call"
             PROVE  \/ s[i].call \in Q
                    \/ \E n \in i..Len(s) : IsResponse(s[n]) /\ s[n].call = s[i].call
  BY <1>1 DEF Settled
<1>2. s[i].call \in Q \/ \E n \in 1..Len(s) : n > i /\ IsResponse(s[n]) /\ s[n].call = s[i].call
  BY <1>1 DEF Paired
<1> QED BY <1>1, <1>2

LEMMA EmptyStraight == Straight(<<>>)
BY DEF Straight

LEMMA StraightSpoken ==
  ASSUME NEW s \in Seq(Sent), NEW H, Settled(s, H), NEW x \in Sent, IsAssistant(x)
  PROVE  /\ Settled(Append(s, x), H)
         /\ H = {} /\ Straight(s) => Straight(Append(s, x))
<1> DEFINE t == Append(s, x)
<1> DEFINE l == Len(s)
<1>1. /\ DOMAIN s = 1..l /\ l \in Nat /\ DOMAIN t = 1..(l + 1) /\ Len(t) = l + 1
      /\ (\A i \in 1..l : t[i] = s[i]) /\ t[l + 1] = x
  BY AppendIndex
<1> HIDE DEF t, l
<1>2. ~IsResponse(x) BY DEF IsAssistant, IsResponse
<1>3. Settled(t, H)
  <2> SUFFICES ASSUME NEW i \in 1..(l + 1), NEW j \in 1..(l + 1), i < j, t[i].kind = "call", IsResponse(t[j]),
                      t[i].call \notin H
               PROVE  \E n \in i..(l + 1) : IsResponse(t[n]) /\ t[n].call = t[i].call
    BY <1>1 DEF Settled
  <2>1. i \in 1..l /\ j \in 1..l BY <1>1, <1>2
  <2>2. PICK n \in i..l : IsResponse(s[n]) /\ s[n].call = s[i].call BY <1>1, <2>1 DEF Settled, l
  <2>3. n \in 1..l /\ n \in i..(l + 1) BY <1>1, <2>1
  <2> QED BY <1>1, <2>1, <2>2, <2>3
<1>4. ASSUME H = {}, Straight(s) PROVE Straight(t)
  <2> SUFFICES ASSUME NEW i \in 1..(l + 1), NEW j \in 1..(l + 1), NEW k \in 1..(l + 1), i < j, j < k,
                      t[i].kind = "call", IsResponse(t[j]), IsAssistant(t[k])
               PROVE  \E n \in i..k : IsResponse(t[n]) /\ t[n].call = t[i].call
    BY <1>1 DEF Straight
  <2>1. i \in 1..l /\ j \in 1..l BY <1>1
  <2>2. CASE k \in 1..l
    <3>1. PICK n \in i..k : IsResponse(s[n]) /\ s[n].call = s[i].call BY <1>1, <1>4, <2>1, <2>2 DEF Straight
    <3>2. n \in 1..l BY <1>1, <2>1, <2>2
    <3> QED BY <1>1, <2>1, <3>1, <3>2
  <2>3. CASE k = l + 1
    <3>1. PICK n \in i..(l + 1) : IsResponse(t[n]) /\ t[n].call = t[i].call
      BY <1>1, <1>3, <1>4, <2>1 DEF Settled
    <3> QED BY <2>3, <3>1
  <2> QED BY <1>1, <2>2, <2>3
<1> QED BY <1>3, <1>4 DEF t

\* What somebody else says
LEMMA StraightOthers ==
  ASSUME NEW s \in Seq(Sent), Straight(s)
  PROVE  \A u \in Seq(Sent) : Asks(u) => s \o u \in Seq(Sent) /\ Straight(s \o u)
<1> DEFINE T == {u \in Seq(Sent) : Asks(u) => s \o u \in Seq(Sent) /\ Straight(s \o u)}
<1>1. <<>> \in T BY EmptyFacts, ConcatEmptySeq
<1>2. ASSUME NEW u \in Seq(Sent), NEW x \in Sent, u \in T PROVE Append(u, x) \in T
  <2>1. Append(u, x) \in Seq(Sent) /\ ToSet(Append(u, x)) = ToSet(u) \cup {x} BY AppendFacts
  <2>2. s \o Append(u, x) = Append(s \o u, x) BY ConcatAppend
  <2> DEFINE t == s \o u
  <2> DEFINE v == Append(t, x)
  <2> DEFINE l == Len(t)
  <2>3. ASSUME Asks(Append(u, x)) PROVE v \in Seq(Sent) /\ Straight(v)
    <3>1. Asks(u) /\ ~IsAssistant(x) BY <2>1, <2>3 DEF Asks
    <3>2. t \in Seq(Sent) /\ Straight(t) BY <1>2, <3>1
    <3> HIDE DEF t
    <3>3. /\ DOMAIN t = 1..l /\ l \in Nat /\ DOMAIN v = 1..(l + 1) /\ v \in Seq(Sent)
          /\ (\A i \in 1..l : v[i] = t[i]) /\ v[l + 1] = x
      BY <3>2, AppendIndex, AppendFacts
    <3> HIDE DEF v, l
    <3>4. Straight(v)
      <4> SUFFICES ASSUME NEW i \in 1..(l + 1), NEW j \in 1..(l + 1), NEW k \in 1..(l + 1), i < j, j < k,
                          v[i].kind = "call", IsResponse(v[j]), IsAssistant(v[k])
                   PROVE  \E n \in i..k : IsResponse(v[n]) /\ v[n].call = v[i].call
        BY <3>3 DEF Straight
      <4>1. i \in 1..l /\ j \in 1..l /\ k \in 1..l BY <3>1, <3>3
      <4>2. PICK n \in i..k : IsResponse(t[n]) /\ t[n].call = t[i].call
        <5>1. t[i] = v[i] /\ t[j] = v[j] /\ t[k] = v[k] BY <3>3, <4>1
        <5>2. t[i].kind = "call" /\ IsResponse(t[j]) /\ IsAssistant(t[k]) BY <5>1
        <5>3. i \in DOMAIN t /\ j \in DOMAIN t /\ k \in DOMAIN t BY <3>3, <4>1
        <5> QED BY <3>2, <5>2, <5>3 DEF Straight
      <4>3. n \in 1..l BY <3>3, <4>1
      <4> QED BY <3>3, <4>1, <4>2, <4>3
    <3> QED BY <3>3, <3>4
  <2> QED BY <2>1, <2>2, <2>3
<1> HIDE DEF T
<1>3. Grows(Sent, T) BY <1>1, <1>2 DEF Grows
<1>4. \A u \in Seq(Sent) : u \in T BY <1>3, SeqInduction
<1> QED BY <1>4 DEF T

\* If the model never spoke while a call was half answered, what is sent is straight.
LEMMA AccountStraight ==
  ASSUME ChatClientAssumption
  PROVE  \A m \in Seq(Prompt) : CallsOnce(m) /\ Account(m).left = {} => Straight(Seen(m).sent)
<1> DEFINE Good(z, t) == /\ Settled(z.sent, t.half)
                         /\ t.left = {} => Straight(z.sent)
<1> DEFINE T == {m \in Seq(Prompt) : CallsOnce(m) => Good(Seen(m), Account(m))}
<1>1. <<>> \in T
  <2>1. Good(Unsent, Nought) BY DEF Unsent, Settled, Straight
  <2> HIDE DEF Good
  <2> QED BY <2>1, SeenEmpty, AccountEmpty
<1>2. ASSUME NEW m \in Seq(Prompt), NEW p \in Prompt, m \in T PROVE Append(m, p) \in T
  <2> DEFINE n == Append(m, p)
  <2> DEFINE t == Account(m)
  <2> DEFINE z == Seen(m)
  <2> DEFINE u == Counted(t, p)
  <2> DEFINE y == Normal(z, p)
  <2>1. n \in Seq(Prompt) BY AppendFacts
  <2>2. Account(n) = u /\ Seen(n) = y BY AccountAppend, SeenAppend
  <2>3. /\ t \in AccountRecord /\ SeenOK(z) /\ z.sent \in Seq(Sent)
        /\ Account(n).pending = Seen(n).pending
    BY <2>1, AccountFacts, SeenFacts, AccountSeen DEF SeenOK, SeenRecord
  <2>4. ASSUME CallsOnce(n) PROVE Good(y, u)
    <3>1. CallsOnce(m) BY <2>4, OnceAppend DEF CallsOnce
    <3>2. Good(z, t) BY <1>2, <3>1
    <3>3. Paired(y.sent, y.pending) BY <2>1, <2>2, <2>4, SeenPaired
    <3>4. y.sent \in Seq(Sent) /\ u.pending = y.pending
      BY <2>1, <2>2, <2>3, SeenFacts DEF SeenOK, SeenRecord
    <3>5. PICK w \in Seq(Sent) : /\ y.sent = z.sent \o w
                                 /\ \A x \in ToSet(w) : x = p \/ x.kind \in {"missing", "notice"}
                                 /\ IsAssistant(p) => w = <<p>>
      BY <2>3, NormalSends
    <3> HIDE DEF n, t, z
    <3>6. CASE p.kind \in {"call", "reply"}
      <4>1. IsAssistant(p) /\ p \in Sent BY <3>6, PromptTypes DEF IsAssistant
      <4>2. y.sent = Append(z.sent, p) BY <2>3, <3>5, <4>1, AppendIsConcat
      <4>3. u.half = t.half /\ u.left = t.left \cup t.half BY <2>3, <3>6, CountedSpoken
      <4> HIDE DEF u, y
      <4>4. /\ Settled(y.sent, t.half)
            /\ t.half = {} /\ Straight(z.sent) => Straight(y.sent)
        BY <2>3, <3>2, <4>1, <4>2, StraightSpoken
      <4> QED BY <3>2, <4>3, <4>4
    <3>7. CASE Used(t, p) \/ Cuts_off(t, p)
      <4>1. u.half = u.pending /\ u.left = t.left
        <5>1. ASSUME Used(t, p) PROVE u.half = u.pending /\ u.left = t.left
          <6>1. u.pending = t.pending \ {p.call} /\ u.half = t.pending \ {p.call} /\ u.left = t.left
            BY <2>3, <5>1, CountedUsed
          <6> HIDE DEF u
          <6> QED BY <6>1
        <5>2. ASSUME Cuts_off(t, p) PROVE u.half = u.pending /\ u.left = t.left BY <2>3, <5>2, CountedCut
        <5> HIDE DEF u
        <5> QED BY <3>7, <5>1, <5>2
      <4>2. ~IsAssistant(p) BY <3>7 DEF IsAssistant, Used, Cuts_off, IsUser
      <4>3. Asks(w) BY <3>5, <4>2 DEF Asks, IsAssistant
      <4> HIDE DEF u, y
      <4>4. Settled(y.sent, u.half) BY <3>3, <3>4, <4>1, PairedSettled
      <4>5. u.left = {} => Straight(y.sent) BY <2>3, <3>2, <3>5, <4>1, <4>3, StraightOthers
      <4> QED BY <4>4, <4>5
    <3> QED BY <3>6, <3>7, CountedKinds
  <2> HIDE DEF Good
  <2> QED BY <2>1, <2>2, <2>4
<1> HIDE DEF T
<1>3. Grows(Prompt, T) BY <1>1, <1>2 DEF Grows
<1>4. \A m \in Seq(Prompt) : m \in T BY <1>3, SeqInduction
<1> SUFFICES ASSUME NEW m \in Seq(Prompt), CallsOnce(m), Account(m).left = {} PROVE Straight(Seen(m).sent)
  OBVIOUS
<1> QED BY <1>4 DEF T

\* What is sent for it, then, is straight too.
LEMMA NormalisedStraight ==
  ASSUME ChatClientAssumption, NEW m \in Seq(Prompt), CallsOnce(m), Account(m).left = {}
  PROVE  Straight(Normalised(m).sent)
<1> DEFINE z == Seen(m)
<1>1. SeenOK(z) /\ Straight(z.sent) BY SeenFacts, AccountStraight
<1> HIDE DEF z
<1>2. PICK w \in Seq(Sent) : Closed(z).sent = z.sent \o w /\ \A p \in ToSet(w) : p.kind = "missing"
  BY <1>1, ClosedSends
<1>3. Asks(w) BY <1>2 DEF Asks, IsAssistant
<1>4. z.sent \in Seq(Sent) BY <1>1 DEF SeenOK, SeenRecord
<1> QED BY <1>1, <1>2, <1>3, <1>4, StraightOthers DEF Normalised, z

------------------------------------------------------------------------------
\* The places where a context may be cut: what is left when its last rounds go

Cuts(rs) == {Messages(SubSeq(rs, 1, i)) : i \in 0..Len(rs)}

LEMMA CutsEmpty == Cuts(<<>>) = {<<>>}
<1>1. SubSeq(<<>>, 1, 0) = <<>> BY SubSeqEmpty
<1>2. Cuts(<<>>) = {Messages(SubSeq(<<>>, 1, 0))} BY DEF Cuts
<1> QED BY <1>1, <1>2, MessagesEmpty

LEMMA SubSeqAppend ==
  ASSUME NEW X, NEW s \in Seq(X), NEW x \in X
  PROVE  /\ \A i \in 0..Len(s) : SubSeq(Append(s, x), 1, i) = SubSeq(s, 1, i)
         /\ SubSeq(Append(s, x), 1, Len(s) + 1) = Append(s, x)
<1> DEFINE t == Append(s, x)
<1>1. t \in Seq(X) /\ Len(t) = Len(s) + 1 /\ Len(s) \in Nat BY AppendProperties
<1>2. t = s \o <<x>> /\ <<x>> \in Seq(X) BY AppendIsConcat
<1> HIDE DEF t
<1>3. SubSeq(t, 1, Len(s) + 1) = t BY <1>1, SubSeqFull
<1>4. ASSUME NEW i \in 0..Len(s) PROVE SubSeq(t, 1, i) = SubSeq(s, 1, i)
  <2>1. CASE i = 0
    <3>1. SubSeq(t, 1, 0) = <<>> /\ SubSeq(s, 1, 0) = <<>> BY SubSeqEmpty
    <3> QED BY <2>1, <3>1
  <2>2. CASE i # 0
    <3>1. 1 \in 1..Len(s) /\ i \in 1..Len(s) BY <1>1, <2>2
    <3>2. SubSeq(s \o <<x>>, 1, i) = SubSeq(s, 1, i) BY <1>2, <3>1, SubSeqOfConcat1
    <3> QED BY <1>2, <3>2
  <2> QED BY <2>1, <2>2
<1> QED BY <1>3, <1>4 DEF t

LEMMA CutsAppend ==
  ASSUME NEW X, NEW rs \in Seq(Seq(X)), NEW x \in Seq(X)
  PROVE  Cuts(Append(rs, x)) = Cuts(rs) \cup {Messages(rs) \o x}
<1> DEFINE all == Append(rs, x)
<1> DEFINE l == Len(rs)
<1>1. Len(all) = l + 1 /\ l \in Nat BY AppendProperties
<1>2. /\ \A i \in 0..l : SubSeq(all, 1, i) = SubSeq(rs, 1, i)
      /\ SubSeq(all, 1, l + 1) = all
  BY SubSeqAppend
<1>3. Messages(all) = Messages(rs) \o x BY MessagesAppend DEF Join
<1> HIDE DEF all, l
<1>4. Cuts(all) = {Messages(SubSeq(all, 1, i)) : i \in 0..(l + 1)} BY <1>1 DEF Cuts
<1>5. Cuts(rs) = {Messages(SubSeq(rs, 1, i)) : i \in 0..l} BY DEF Cuts, l
<1>6. 0..(l + 1) = (0..l) \cup {l + 1} BY <1>1
<1>7. Cuts(all) = {Messages(SubSeq(all, 1, i)) : i \in 0..l} \cup {Messages(SubSeq(all, 1, l + 1))}
  BY <1>4, <1>6
<1>8. {Messages(SubSeq(all, 1, i)) : i \in 0..l} = Cuts(rs) BY <1>2, <1>5
<1> QED BY <1>2, <1>3, <1>7, <1>8 DEF all

LEMMA CutsFacts ==
  ASSUME NEW X
  PROVE  \A rs \in Seq(Seq(X)) :
           /\ <<>> \in Cuts(rs) /\ Messages(rs) \in Cuts(rs)
           /\ \A n \in Cuts(rs) : n \in Seq(X) /\ \E t \in Seq(X) : Messages(rs) = n \o t
<1> DEFINE Good(m, C) == /\ <<>> \in C /\ m \in C
                         /\ \A n \in C : n \in Seq(X) /\ \E t \in Seq(X) : m = n \o t
<1> DEFINE T == {rs \in Seq(Seq(X)) : Good(Messages(rs), Cuts(rs))}
<1>1. <<>> \in T
  <2>1. <<>> \in Seq(X) /\ <<>> = <<>> \o <<>> OBVIOUS
  <2>2. Good(<<>>, {<<>>}) BY <2>1
  <2>3. <<>> \in Seq(Seq(X)) OBVIOUS
  <2> HIDE DEF Good
  <2> QED BY <2>2, <2>3, CutsEmpty, MessagesEmpty
<1>2. ASSUME NEW rs \in Seq(Seq(X)), NEW r \in Seq(X), rs \in T PROVE Append(rs, r) \in T
  <2> DEFINE m == Messages(rs)
  <2> DEFINE C == Cuts(rs)
  <2>1. m \in Seq(X) BY MessagesFacts
  <2>2. Messages(Append(rs, r)) = m \o r BY MessagesAppend DEF Join
  <2>3. Cuts(Append(rs, r)) = C \cup {m \o r} BY CutsAppend
  <2>4. Append(rs, r) \in Seq(Seq(X)) BY AppendFacts
  <2>5. Good(m, C) BY <1>2
  <2> HIDE DEF m, C
  <2>6. m \o r \in Seq(X) BY <2>1, ConcatSet
  <2>7. ASSUME NEW n \in C PROVE n \in Seq(X) /\ \E t \in Seq(X) : m \o r = n \o t
    <3>1. n \in Seq(X) BY <2>5
    <3>2. PICK t \in Seq(X) : m = n \o t BY <2>5
    <3>3. m \o r = n \o (t \o r) BY <3>1, <3>2, ConcatAssociative
    <3>4. t \o r \in Seq(X) BY ConcatSet
    <3> QED BY <3>1, <3>3, <3>4
  <2>8. m \o r = (m \o r) \o <<>> /\ <<>> \in Seq(X) BY <2>6, ConcatEmptySeq
  <2>9. Good(m \o r, C \cup {m \o r}) BY <2>5, <2>6, <2>7, <2>8
  <2> HIDE DEF Good
  <2> QED BY <2>2, <2>3, <2>4, <2>9
<1> HIDE DEF T
<1>3. Grows(Seq(X), T) BY <1>1, <1>2 DEF Grows
<1>4. \A rs \in Seq(Seq(X)) : rs \in T BY <1>3, SeqInduction
<1> QED BY <1>4 DEF T

\* A context of which rounds are left out, or some prompts
LEMMA CutsFront ==
  ASSUME NEW X, NEW rs \in Seq(Seq(X)), rs # <<>>
  PROVE  Cuts(rs) = Cuts(Front(rs)) \cup {Messages(rs)}
<1> DEFINE f == Front(rs)
<1> DEFINE l == Last(rs)
<1>1. f \in Seq(Seq(X)) /\ l \in Seq(X) /\ rs = Append(f, l) BY FrontLast
<1>2. Messages(rs) = Messages(f) \o l BY MessagesFront
<1> HIDE DEF f, l
<1>3. Cuts(rs) = Cuts(f) \cup {Messages(f) \o l} BY <1>1, CutsAppend
<1> QED BY <1>2, <1>3 DEF f

LEMMA CutsDiscarded ==
  ASSUME NEW X, NEW D
  PROVE  \A rs \in Seq(Seq(X)) : \A n \in Cuts(Discarded(rs, D)) : \E o \in Cuts(rs) : n = Without(o, D)
<1> DEFINE Good(C, B) == \A n \in C : \E o \in B : n = Without(o, D)
<1> DEFINE T == {rs \in Seq(Seq(X)) : Good(Cuts(Discarded(rs, D)), Cuts(rs))}
<1>1. <<>> \in T
  <2>1. [i \in DOMAIN <<>> |-> Without(<<>>[i], D)] = <<>> OBVIOUS
  <2>2. Discarded(<<>>, D) = <<>> BY <2>1, WithoutEmpty DEF Discarded
  <2>3. Good({<<>>}, {<<>>}) BY WithoutEmpty
  <2>4. <<>> \in Seq(Seq(X)) OBVIOUS
  <2> HIDE DEF Good
  <2> QED BY <2>2, <2>3, <2>4, CutsEmpty
<1>2. ASSUME NEW rs \in Seq(Seq(X)), NEW r \in Seq(X), rs \in T PROVE Append(rs, r) \in T
  <2> DEFINE d == Discarded(rs, D)
  <2> DEFINE w == Without(r, D)
  <2> DEFINE m == Messages(rs)
  <2> DEFINE B == Cuts(rs)
  <2>1. Append(rs, r) \in Seq(Seq(X)) BY AppendFacts
  <2>2. Discarded(Append(rs, r), D) = Keep(d, w, {<<>>}) BY DiscardedAppend
  <2>3. Cuts(Append(rs, r)) = B \cup {m \o r} BY CutsAppend
  <2>4. d \in Seq(Seq(X)) /\ Messages(d) = Without(m, D) BY DiscardedFacts, RoundsAreSeqs
  <2>5. w \in Seq(X) BY WithoutFacts
  <2>6. Without(m \o r, D) = Without(m, D) \o w BY MessagesFacts, WithoutConcat
  <2>7. Good(Cuts(d), B) BY <1>2
  <2> HIDE DEF d, w, m, B
  <2>8. Good(Cuts(Keep(d, w, {<<>>})), B \cup {m \o r})
    <3>1. CASE w = <<>>
      <4>1. Keep(d, w, {<<>>}) = d BY <3>1 DEF Keep
      <4> QED BY <2>7, <4>1
    <3>2. CASE w # <<>>
      <4>1. Keep(d, w, {<<>>}) = Append(d, w) BY <3>2 DEF Keep
      <4>2. Cuts(Append(d, w)) = Cuts(d) \cup {Messages(d) \o w} BY <2>4, <2>5, CutsAppend
      <4>3. Messages(d) \o w = Without(m \o r, D) BY <2>4, <2>6
      <4> QED BY <2>7, <4>1, <4>2, <4>3
    <3> QED BY <3>1, <3>2
  <2> HIDE DEF Good
  <2> QED BY <2>1, <2>2, <2>3, <2>8
<1> HIDE DEF T
<1>3. Grows(Seq(X), T) BY <1>1, <1>2 DEF Grows
<1>4. \A rs \in Seq(Seq(X)) : rs \in T BY <1>3, SeqInduction
<1> QED BY <1>4 DEF T

\* The cuts of a context but for its end
Inner(rs) == IF rs = <<>> THEN {<<>>} ELSE Cuts(Front(rs))

LEMMA InnerCuts ==
  ASSUME NEW X, NEW rs \in Seq(Seq(X))
  PROVE  Cuts(rs) = Inner(rs) \cup {Messages(rs)}
<1>1. CASE rs = <<>> BY <1>1, CutsEmpty, MessagesEmpty DEF Inner
<1>2. CASE rs # <<>> BY <1>2, CutsFront DEF Inner
<1> QED BY <1>1, <1>2

LEMMA AppendEnds ==
  ASSUME NEW X, NEW s \in Seq(X), NEW x \in X
  PROVE  Append(s, x) # <<>> /\ Front(Append(s, x)) = s /\ Last(Append(s, x)) = x
<1> DEFINE t == Append(s, x)
<1>1. t \in Seq(X) /\ Len(t) = Len(s) + 1 /\ Len(s) \in Nat /\ t[Len(s) + 1] = x BY AppendProperties
<1>2. t # <<>> BY <1>1, EmptyFacts
<1>3. Last(t) = x BY <1>1 DEF Last
<1>4. SubSeq(t, 1, Len(s)) = SubSeq(s, 1, Len(s))
  <2>1. Len(s) \in 0..Len(s) BY <1>1
  <2> QED BY <2>1, SubSeqAppend
<1>5. SubSeq(s, 1, Len(s)) = s
  <2>1. CASE Len(s) = 0
    <3>1. s = <<>> BY <2>1, EmptySeq
    <3> QED BY <2>1, <3>1, SubSeqEmpty
  <2>2. CASE Len(s) # 0 BY SubSeqFull
  <2> QED BY <2>1, <2>2
<1>6. Front(t) = s BY <1>1, <1>4, <1>5 DEF Front
<1> QED BY <1>2, <1>3, <1>6

\* One prompt more ends the round it is in.
UnpackedEnds(X, rs, p) ==
  LET u == Unpack(rs, p) IN
  /\ u # <<>> /\ Last(Last(u)) = p
  /\ Starts(rs, p) => Inner(u) = Cuts(rs)
  /\ ~Starts(rs, p) => Inner(u) = Inner(rs)

LEMMA UnpackEnds ==
  ASSUME NEW X, NEW rs \in Rounds(X), NEW p \in X PROVE UnpackedEnds(X, rs, p)
<1>1. Unpacks(X, rs, p) BY UnpackShape
<1> DEFINE u == Unpack(rs, p)
<1>2. CASE Starts(rs, p)
  <2>1. u = Append(rs, <<p>>) BY <1>1, <1>2 DEF Unpacks
  <2>2. rs \in Seq(Seq(X)) /\ <<p>> \in Seq(X) BY RoundsAreSeqs
  <2> DEFINE k == <<p>>
  <2>3. k \in Seq(X) /\ u = Append(rs, k) BY <2>1, <2>2
  <2>4. Last(k) = p BY DEF Last
  <2> HIDE DEF u, k
  <2>5. u # <<>> /\ Front(u) = rs /\ Last(u) = k BY <2>2, <2>3, AppendEnds
  <2>6. Inner(u) = Cuts(rs) BY <2>5 DEF Inner
  <2> QED BY <1>2, <2>4, <2>5, <2>6 DEF UnpackedEnds, u
<1>3. CASE ~Starts(rs, p)
  <2> DEFINE f == Front(rs)
  <2> DEFINE l == Last(rs)
  <2> DEFINE k == Append(l, p)
  <2>1. rs # <<>> /\ f \in Rounds(X) /\ l \in Seq(X) /\ u = Append(f, k)
    BY <1>1, <1>3 DEF Unpacks
  <2> HIDE DEF f, l, u
  <2>2. f \in Seq(Seq(X)) BY <2>1, RoundsAreSeqs
  <2>3. k \in Seq(X) /\ Last(k) = p BY <2>1, AppendEnds, AppendFacts
  <2> HIDE DEF k
  <2>4. u # <<>> /\ Front(u) = f /\ Last(u) = k BY <2>1, <2>2, <2>3, AppendEnds
  <2>5. Inner(u) = Inner(rs) BY <2>1, <2>4 DEF Inner, f
  <2> QED BY <1>3, <2>3, <2>4, <2>5 DEF UnpackedEnds, u
<1> QED BY <1>2, <1>3

\* What somebody asks goes into one round more at most, ...
LEMMA CutsAsked ==
  ASSUME NEW rs \in Rounds(Prompt)
  PROVE  \A s \in Seq(Prompt) : Asks(s) => Inner(Added(rs, s)) \subseteq Cuts(rs)
<1> DEFINE Good(a, s) == /\ Inner(a) \subseteq Cuts(rs)
                         /\ s # <<>> => a # <<>> /\ ~IsAssistant(Last(Last(a)))
<1> DEFINE T == {s \in Seq(Prompt) : Asks(s) => Good(Added(rs, s), s)}
<1>0. rs \in Seq(Seq(Prompt)) BY RoundsAreSeqs
<1>1. <<>> \in T
  <2>1. Inner(rs) \subseteq Cuts(rs) BY <1>0, InnerCuts
  <2>2. Good(rs, <<>>) BY <2>1
  <2> HIDE DEF Good
  <2> QED BY <2>2, EmptyFacts, AddedEmpty
<1>2. ASSUME NEW s \in Seq(Prompt), NEW p \in Prompt, s \in T PROVE Append(s, p) \in T
  <2> DEFINE a == Added(rs, s)
  <2> DEFINE u == Unpack(a, p)
  <2>1. Append(s, p) \in Seq(Prompt) /\ ToSet(Append(s, p)) = ToSet(s) \cup {p} BY AppendFacts
  <2>2. Added(rs, Append(s, p)) = u BY AddedAppend
  <2>3. a \in Rounds(Prompt) /\ (s = <<>> => a = rs) BY AddedFacts, AddedEmpty
  <2>4. ASSUME Asks(Append(s, p)) PROVE Good(u, Append(s, p))
    <3>1. Asks(s) /\ ~IsAssistant(p) BY <2>1, <2>4 DEF Asks
    <3>2. Good(a, s) BY <1>2, <3>1
    <3>3. UnpackedEnds(Prompt, a, p) BY <2>3, UnpackEnds
    <3> HIDE DEF a
    <3>4. /\ u # <<>> /\ Last(Last(u)) = p
          /\ Starts(a, p) => Inner(u) = Cuts(a)
          /\ ~Starts(a, p) => Inner(u) = Inner(a)
      BY <3>3 DEF UnpackedEnds
    <3>5. s # <<>> => ~Starts(a, p) BY <3>2 DEF Starts
    <3>6. Inner(u) \subseteq Cuts(rs) BY <2>3, <3>2, <3>4, <3>5
    <3> HIDE DEF u
    <3> QED BY <3>1, <3>4, <3>6
  <2> HIDE DEF Good
  <2> QED BY <2>1, <2>2, <2>4
<1> HIDE DEF T
<1>3. Grows(Prompt, T) BY <1>1, <1>2 DEF Grows
<1>4. \A s \in Seq(Prompt) : s \in T BY <1>3, SeqInduction
<1> QED BY <1>4 DEF T

\* ... and the answer into the same.
LEMMA CutsAnswered ==
  ASSUME NEW rs \in Rounds(Prompt)
  PROVE  \A s \in Seq(Prompt) : (\A p \in ToSet(s) : IsAssistant(p)) =>
            Inner(Added(rs, s)) \subseteq Inner(rs)
<1> DEFINE T == {s \in Seq(Prompt) : (\A p \in ToSet(s) : IsAssistant(p)) =>
                                        Inner(Added(rs, s)) \subseteq Inner(rs)}
<1>1. <<>> \in T BY EmptyFacts, AddedEmpty
<1>2. ASSUME NEW s \in Seq(Prompt), NEW p \in Prompt, s \in T PROVE Append(s, p) \in T
  <2> DEFINE a == Added(rs, s)
  <2> DEFINE u == Unpack(a, p)
  <2>1. Append(s, p) \in Seq(Prompt) /\ ToSet(Append(s, p)) = ToSet(s) \cup {p} BY AppendFacts
  <2>2. Added(rs, Append(s, p)) = u BY AddedAppend
  <2>3. a \in Rounds(Prompt) BY AddedFacts
  <2>4. ASSUME \A q \in ToSet(Append(s, p)) : IsAssistant(q) PROVE Inner(u) \subseteq Inner(rs)
    <3>1. (\A q \in ToSet(s) : IsAssistant(q)) /\ IsAssistant(p) BY <2>1, <2>4
    <3>2. Inner(a) \subseteq Inner(rs) BY <1>2, <3>1
    <3>3. UnpackedEnds(Prompt, a, p) BY <2>3, UnpackEnds
    <3>4. a \in Seq(Seq(Prompt)) BY <2>3, RoundsAreSeqs
    <3> HIDE DEF a
    <3>5. /\ Starts(a, p) => Inner(u) = Cuts(a)
          /\ ~Starts(a, p) => Inner(u) = Inner(a)
      BY <3>3 DEF UnpackedEnds
    <3>6. Starts(a, p) => a = <<>> BY <3>1 DEF Starts
    <3>7. a = <<>> => Cuts(a) = Inner(a) BY CutsEmpty DEF Inner
    <3> QED BY <3>2, <3>5, <3>6, <3>7
  <2> QED BY <2>1, <2>2, <2>4
<1> HIDE DEF T
<1>3. Grows(Prompt, T) BY <1>1, <1>2 DEF Grows
<1>4. \A s \in Seq(Prompt) : s \in T BY <1>3, SeqInduction
<1> QED BY <1>4 DEF T

LEMMA CutsGrow ==
  ASSUME NEW rs \in Rounds(Prompt), NEW ps \in Seq(Prompt), Asks(ps),
         NEW answer \in Seq(Prompt), \A p \in ToSet(answer) : IsAssistant(p)
  PROVE  Cuts(Added(Added(rs, ps), answer)) \subseteq Cuts(rs) \cup {(Messages(rs) \o ps) \o answer}
<1> DEFINE a == Added(rs, ps)
<1> DEFINE b == Added(a, answer)
<1>1. a \in Rounds(Prompt) /\ Messages(a) = Messages(rs) \o ps BY AddedFacts
<1>2. Inner(a) \subseteq Cuts(rs) BY CutsAsked
<1> HIDE DEF a
<1>3. b \in Rounds(Prompt) /\ Messages(b) = Messages(a) \o answer BY <1>1, AddedFacts
<1>4. Inner(b) \subseteq Inner(a) BY <1>1, CutsAnswered
<1> HIDE DEF b
<1>5. Cuts(b) = Inner(b) \cup {Messages(b)} BY <1>3, RoundsAreSeqs, InnerCuts
<1>6. Cuts(b) \subseteq Cuts(rs) \cup {(Messages(rs) \o ps) \o answer} BY <1>1, <1>2, <1>3, <1>4, <1>5
<1> QED BY <1>6 DEF a, b

------------------------------------------------------------------------------
\* What a run has to say: the results of calls, each once, and then words if there are any.

Outstanding(r) == pc[r] \in {"ask", "asking", "compressing", "nothing"}

ResultsFirst(s) ==
  \E x, w \in Seq(Prompt) : s = x \o w /\ (\A p \in ToSet(x) : p.kind = "response") /\ NoResults(w)

Fit(s, r) ==
  /\ s # <<>>
  /\ (\A p \in ToSet(s) : p.kind = "response") \/ IsUser(Last(s))
  /\ \A p \in ToSet(s) : p.kind = "response" => p.run = r /\ Once(s, p)
  /\ ResultsFirst(s)

AskersFit == \A r \in Run : Outstanding(r) => Fit(job[r].prompts, r)
RequestFit ==
  /\ Fit(worker.prompts, worker.run)
  /\ Outstanding(worker.run) /\ ~worker.shared => NoResults(job[worker.run].prompts)

FitInv == PairInv /\ AskersFit /\ (worker # Idle => RequestFit)

LEMMA QuestionFits ==
  ASSUME ChatClientAssumption, CountsOK, NEW r \in Run, NEW forced \in BOOLEAN,
         NEW results, results = <<>> \/ results = Results(r, forced),
         NEW words, words = <<>> \/ words = <<Text(r)>>,
         Question(results, words) # <<>>
  PROVE  Fit(Question(results, words), r)
<1>1. results \in Seq(Prompt) BY QuestionFacts
<1>2. \A p \in ToSet(results) : p.kind = "response" /\ p.run = r /\ Once(results, p)
  <2>1. CASE results = <<>> BY <2>1, EmptyFacts
  <2>2. CASE results = Results(r, forced)
    <3>1. \A p \in ToSet(Results(r, forced)) :
            p.kind = "response" /\ p.run = r /\ Once(Results(r, forced), p)
      BY ResultsFacts DEF CountsOK
    <3> QED BY <2>2, <3>1
  <2> QED BY <2>1, <2>2
<1>5. ResultsFirst(Question(results, words))
  <2>1. words \in Seq(Prompt) /\ ToSet(words) \subseteq {Text(r)} BY QuestionFacts
  <2>2. NoResults(words) BY <2>1, PromptTypes DEF NoResults
  <2> QED BY <1>1, <1>2, <2>1, <2>2 DEF ResultsFirst, Question
<1>3. CASE words = <<>>
  <2>1. Question(results, words) = results BY <1>1, <1>3, ConcatEmptySeq DEF Question
  <2> QED BY <1>2, <1>5, <2>1 DEF Fit
<1>4. CASE words = <<Text(r)>>
  <2> DEFINE x == Text(r)
  <2> DEFINE q == Append(results, x)
  <2>1. x \in Prompt /\ x.kind = "text" BY PromptTypes
  <2>2. <<x>> = words BY <1>4
  <2> HIDE DEF x
  <2>3. Question(results, words) = q BY <1>1, <2>1, <2>2, AppendIsConcat DEF Question
  <2>4. q # <<>> /\ Last(q) = x /\ ToSet(q) = ToSet(results) \cup {x}
    BY <1>1, <2>1, AppendEnds, AppendFacts
  <2>5. \A p \in ToSet(results) : Once(q, p) BY <1>1, <1>2, <2>1, OnceAppend
  <2> HIDE DEF q
  <2> QED BY <1>2, <1>5, <2>1, <2>3, <2>4, <2>5 DEF Fit, IsUser
<1> QED BY <1>3, <1>4

LEMMA FitStays ==
  ASSUME FitInv, PairInv',
         \A q \in Run : Outstanding(q)' =>
            Fit(job'[q].prompts, q) \/ (Outstanding(q) /\ job'[q].prompts = job[q].prompts),
         worker' # Idle =>
            /\ worker # Idle /\ worker'.prompts = worker.prompts /\ worker'.run = worker.run
            /\ Outstanding(worker.run)' /\ ~worker'.shared =>
                  \/ NoResults(job'[worker.run].prompts)
                  \/ /\ Outstanding(worker.run) /\ ~worker.shared
                     /\ job'[worker.run].prompts = job[worker.run].prompts
  PROVE  FitInv'
<1>1. AskersFit' BY DEF FitInv, AskersFit
<1>2. worker' # Idle => RequestFit' BY DEF FitInv, RequestFit, Outstanding
<1> QED BY <1>1, <1>2 DEF FitInv

\* Where runs go but for one that begins
Onward ==
  \A q \in Run : /\ Outstanding(q)' => Outstanding(q)
                 /\ pc[q] \in {"answered", "done"} => pc'[q] \in {"answered", "done"}
                 /\ Inside(q)' => Inside(q)
                 /\ pc[q] # "new" => pc'[q] # "new"

LEMMA BeginMoves ==
  ASSUME ChatClientAssumption, PairInv, NEW r \in Run, Begin(r)
  PROVE  /\ worker' = worker /\ payload' = payload /\ pc[r] = "new" /\ pc'[r] # "new"
         /\ context' = context \/ (context # <<>> /\ context' = Front(context))
         /\ ~unusual' => context' = context /\ \A q \in Run : ~Inside(q)
         /\ \A q \in Run \ {r} : pc'[q] = pc[q] /\ job'[q] = job[q]
         /\ Outstanding(r)' => Fit(job'[r].prompts, r)
<1>0. SaidInv /\ TypeOK BY DEF PairInv, SaidInv
<1>1. ClientOK /\ JobsOK /\ CountsOK BY <1>0, TypeParts
<1>2. PICK speaks \in BOOLEAN :
        LET forced == Times(r) >= ReactLimit - 1
            listed == RollsBack /\ open # {}
            results == IF RollsBack THEN <<>> ELSE Results(r, forced)
            words == IF speaks \/ listed THEN <<Text(r)>> ELSE <<>>
            new == Question(results, words)
        IN  /\ \/ Leave(r)
               \/ /\ new # <<>> /\ Goto(r, "ask")
                  /\ job' = [job EXCEPT ![r] = [NoJob EXCEPT !.prompts = new, !.asked = Marks(new)]]
            /\ unusual' = (unusual \/ RollsBack \/ (forced /\ results # <<>>)
                                   \/ \E s \in Run : Inside(s))
  BY DEF Begin
<1> DEFINE forced == Times(r) >= ReactLimit - 1
<1> DEFINE results == IF RollsBack THEN <<>> ELSE Results(r, forced)
<1> DEFINE words == IF speaks \/ (RollsBack /\ open # {}) THEN <<Text(r)>> ELSE <<>>
<1> DEFINE new == Question(results, words)
<1> DEFINE j == [NoJob EXCEPT !.prompts = new, !.asked = Marks(new)]
<1>3. Leave(r) \/ (new # <<>> /\ Goto(r, "ask") /\ job' = [job EXCEPT ![r] = j]) BY <1>2
<1>4. ~unusual' => ~RollsBack /\ \A q \in Run : ~Inside(q) BY <1>2
<1>5. ASSUME new # <<>> PROVE Fit(new, r)
  <2>1. results = <<>> \/ results = Results(r, forced) OBVIOUS
  <2>2. words = <<>> \/ words = <<Text(r)>> OBVIOUS
  <2>3. forced \in BOOLEAN OBVIOUS
  <2> HIDE DEF results, words, forced, j
  <2>4. Question(results, words) # <<>> BY <1>5
  <2>5. Fit(Question(results, words), r) BY <1>1, <2>1, <2>2, <2>3, <2>4, QuestionFits
  <2> QED BY <2>5
<1> HIDE DEF new
<1>6. j.prompts = new BY DEF NoJob
<1> HIDE DEF j
<1>7. worker' = worker /\ payload' = payload /\ pc[r] = "new" BY DEF Begin
<1>8. context' = context \/ (RollsBack /\ context # <<>> /\ context' = Front(context))
  BY DEF Begin, RollsBack
<1>9. \A q \in Run \ {r} : pc'[q] = pc[q] /\ job'[q] = job[q] BY <1>1, <1>3 DEF JobsOK, Leave, Goto
<1>10. pc'[r] # "new" /\ (Outstanding(r)' => Fit(job'[r].prompts, r))
  BY <1>1, <1>3, <1>5, <1>6 DEF JobsOK, Leave, Goto, Outstanding
<1> QED BY <1>4, <1>7, <1>8, <1>9, <1>10

LEMMA RunMoves ==
  ASSUME ChatClientAssumption, PairInv, NEW r \in Run,
         \/ Ask(r) \/ Compressed(r) \/ CompressionFails(r) \/ Unanswered(r)
         \/ Timeout(r) \/ Cancelled(r) \/ Answered(r)
  PROVE  /\ worker' = worker /\ payload' = payload /\ unusual' = unusual
         /\ context' = context \/ context' = <<>>
         /\ Onward /\ \A q \in Run : Outstanding(q)' => job'[q].prompts = job[q].prompts
<1>0. SaidInv /\ TypeOK BY DEF PairInv, SaidInv
<1>1. JobsOK BY <1>0, TypeParts
<1>2. /\ worker' = worker /\ payload' = payload /\ (context' = context \/ context' = <<>>)
      /\ unusual' = unusual
  BY DEF Ask, Compressed, CompressionFails, Replaced, Unanswered, Timeout, Cancelled, Answered, client, history
<1> DEFINE x == job[r]
<1> DEFINE a == [x EXCEPT !.tries = @ + 1, !.ask = @ + 1]
<1> DEFINE b == [x EXCEPT !.tries = @ - 1]
<1>3. x \in Jobs /\ job \in [Run -> Jobs] /\ pc \in [Run -> Places] BY <1>1 DEF JobsOK
<1>4. \/ Goto(r, "done") /\ job' = [job EXCEPT ![r] = NoJob]
      \/ /\ Goto(r, "ask") \/ Goto(r, "asking")
         /\ Outstanding(r)
         /\ job' = job \/ job' = [job EXCEPT ![r] = a] \/ job' = [job EXCEPT ![r] = b]
  <2>1. Again(r) \/ Leave(r) => \/ Goto(r, "done") /\ job' = [job EXCEPT ![r] = NoJob]
                                \/ Goto(r, "ask") /\ job' = job
    BY DEF Again, Leave
  <2>2. Ask(r) => Goto(r, "asking") /\ Outstanding(r) /\ job' = [job EXCEPT ![r] = a]
    BY <1>3 DEF Ask, Outstanding
  <2>3. Unanswered(r) => /\ Outstanding(r)
                         /\ Again(r) \/ (Goto(r, "ask") /\ job' = [job EXCEPT ![r] = b])
    BY <1>3 DEF Unanswered, Outstanding
  <2>4. Compressed(r) \/ Timeout(r) => Outstanding(r) /\ Again(r) BY DEF Compressed, Timeout, Outstanding
  <2>5. CompressionFails(r) \/ Cancelled(r) \/ Answered(r) => Leave(r) BY DEF CompressionFails, Cancelled, Answered
  <2>6. Leave(r) => Goto(r, "done") /\ job' = [job EXCEPT ![r] = NoJob] BY DEF Leave
  <2> HIDE DEF a, b
  <2> QED BY <2>1, <2>2, <2>3, <2>4, <2>5, <2>6
<1>5. a.prompts = x.prompts /\ b.prompts = x.prompts
  <2> HIDE DEF x
  <2> QED BY <1>3 DEF Jobs
<1> HIDE DEF a, b
<1>6. \A q \in Run : Outstanding(q)' => job'[q].prompts = job[q].prompts
  BY <1>3, <1>4, <1>5 DEF Goto, Outstanding
<1>7. Inside(r) BY DEF Ask, Compressed, CompressionFails, Unanswered, Timeout, Cancelled, Answered, Inside
<1>8. Onward BY <1>3, <1>4, <1>7 DEF Goto, Outstanding, Onward, Inside
<1> QED BY <1>2, <1>6, <1>8

LEMMA OverflowMoves ==
  ASSUME ChatClientAssumption, PairInv, NEW r \in Run, Overflow(r)
  PROVE  /\ payload' = payload /\ context' = context /\ unusual' = unusual /\ Onward
         /\ \A q \in Run \ {r} : job'[q] = job[q]
         /\ job'[r].prompts = <<Text(r)>> /\ Fit(<<Text(r)>>, r) /\ NoResults(<<Text(r)>>)
         /\ worker' # Idle => /\ worker # Idle /\ worker'.run = worker.run
                              /\ worker'.prompts = worker.prompts
                              /\ Kept(worker.prompts)' = Kept(worker.prompts)
                              /\ worker.run # r => worker'.shared = worker.shared
<1>0. SaidInv /\ TypeOK BY DEF PairInv, SaidInv
<1>1. JobsOK /\ ClientOK BY <1>0, TypeParts
<1>2. payload' = payload /\ context' = context /\ Goto(r, "compressing") /\ pc[r] = "ask" /\ unusual' = unusual
  BY DEF Overflow, history
<1> DEFINE x == job[r]
<1> DEFINE t == <<Text(r)>>
<1> DEFINE a == {<<"run", r>>}
<1> DEFINE j == [x EXCEPT !.tries = x.tries + 1, !.prompts = t, !.asked = a, !.away = open]
<1>3. x \in Jobs /\ job \in [Run -> Jobs] /\ pc \in [Run -> Places] BY <1>1 DEF JobsOK
<1>4. job' = [job EXCEPT ![r] = j] BY <1>3 DEF Overflow
<1>5. Fit(t, r) /\ NoResults(t)
  <2> DEFINE y == Text(r)
  <2>1. y \in Prompt /\ y.kind = "text" BY PromptTypes
  <2> HIDE DEF y
  <2>2. <<y>> # <<>> /\ Last(<<y>>) = y /\ ToSet(<<y>>) = {y} /\ <<y>> \in Seq(Prompt)
    BY <2>1 DEF Last, ToSet
  <2>3. NoResults(<<y>>) BY <2>1, <2>2 DEF NoResults
  <2>4. ResultsFirst(<<y>>)
    <3>1. <<>> \in Seq(Prompt) /\ <<y>> = <<>> \o <<y>> /\ \A p \in ToSet(<<>>) : p.kind = "response"
      BY <2>2, EmptyFacts, ConcatEmptySeq
    <3> QED BY <2>2, <2>3, <3>1 DEF ResultsFirst
  <2> QED BY <2>1, <2>2, <2>3, <2>4 DEF Fit, IsUser, y
<1> HIDE DEF x, t, a
<1>6. j.prompts = t BY <1>3 DEF Jobs
<1> HIDE DEF j
<1>7. job'[r].prompts = t /\ \A q \in Run \ {r} : job'[q] = job[q] BY <1>3, <1>4, <1>6
<1>8. Onward BY <1>2, <1>3 DEF Goto, Outstanding, Onward, Inside
<1>9. worker' # Idle => /\ worker # Idle /\ worker'.run = worker.run /\ worker'.prompts = worker.prompts
                        /\ Kept(worker.prompts)' = Kept(worker.prompts)
                        /\ worker.run # r => worker'.shared = worker.shared
  <2>1. worker' = IF worker.run = r THEN [worker EXCEPT !.shared = FALSE] ELSE worker BY DEF Overflow
  <2>2. worker = Idle => worker' = Idle
    <3>1. Idle \in [run : {"none"}, ask : {0}, prompts : {<<>>}, shared : {FALSE}, discards : {{}},
                    notices : {<<>>}] /\ Idle.shared = FALSE
      BY DEF Idle
    <3>2. [Idle EXCEPT !.shared = FALSE] = Idle BY <3>1, NotShared
    <3> QED BY <2>1, <3>2
  <2>3. worker # Idle => worker \in UnderWay BY <1>1 DEF ClientOK
  <2>4. worker \in UnderWay => /\ [worker EXCEPT !.shared = FALSE].run = worker.run
                               /\ [worker EXCEPT !.shared = FALSE].prompts = worker.prompts
                               /\ [worker EXCEPT !.shared = FALSE].discards = worker.discards
                               /\ [worker EXCEPT !.shared = FALSE].notices = worker.notices
    BY DEF UnderWay
  <2>5. worker # Idle => /\ worker'.prompts = worker.prompts /\ worker'.discards = worker.discards
                         /\ worker'.notices = worker.notices /\ worker'.run = worker.run
    BY <2>1, <2>3, <2>4
  <2>6. worker.run # r => worker'.shared = worker.shared BY <2>1
  <2> QED BY <2>2, <2>5, <2>6 DEF Kept
<1> QED BY <1>2, <1>5, <1>7, <1>8, <1>9 DEF t

LEMMA InterruptMoves ==
  ASSUME ChatClientAssumption, PairInv, Interrupt \/ Nothing
  PROVE  /\ context' = context /\ job' = job /\ (payload' = payload \/ payload' = <<>>)
         /\ worker' = worker \/ worker' = Idle
         /\ unusual' = unusual /\ Onward
<1>0. SaidInv /\ TypeOK BY DEF PairInv, SaidInv
<1>1. JobsOK BY <1>0, TypeParts
<1>2. /\ context' = context /\ job' = job /\ (payload' = payload \/ payload' = <<>>)
      /\ worker' = worker \/ worker' = Idle
      /\ unusual' = unusual
  BY DEF Interrupt, Nothing, client, history
<1>3. pc' = pc \/ (Waits(worker) /\ Goto(worker.run, "nothing")) BY DEF Interrupt, Nothing
<1>4. pc \in [Run -> Places] BY <1>1 DEF JobsOK
<1>5. Onward BY <1>3, <1>4 DEF Outstanding, Waits, Goto, Onward, Inside
<1> QED BY <1>2, <1>5

LEMMA ConcatTwice ==
  ASSUME NEW s \in Seq(Prompt), NEW t \in Seq(Prompt), NEW u \in Seq(Prompt)
  PROVE  (s \o t) \o u = s \o (t \o u) /\ t \o u \in Seq(Prompt) /\ s \o <<>> = s
BY ConcatSet

LEMMA WithoutJoin ==
  ASSUME NEW D, NEW s \in Seq(Prompt), NEW t \in Seq(Prompt)
  PROVE  Without(s \o t, D) = Without(s, D) \o Without(t, D)
BY WithoutConcat

LEMMA ConcatThree ==
  ASSUME NEW X, NEW a \in Seq(X), NEW b \in Seq(X), NEW f \in Seq(X), NEW x \in X
  PROVE  a \o (b \o Append(f, x)) = Append(a \o (b \o f), x) /\ a \o (b \o f) \in Seq(X)
<1> DEFINE g == b \o f
<1>1. b \o Append(f, x) = Append(g, x) BY ConcatAppend
<1>2. g \in Seq(X) BY ConcatSet
<1> HIDE DEF g
<1>3. a \o Append(g, x) = Append(a \o g, x) BY <1>2, ConcatAppend
<1>4. a \o g \in Seq(X) BY <1>2, ConcatSet
<1> QED BY <1>1, <1>3, <1>4 DEF g

LEMMA FirstOf ==
  ASSUME NEW X, NEW s \in Seq(X), s # <<>>
  PROVE  /\ Head(s) \in X /\ Head(s) \in ToSet(s)
         /\ Tail(s) \in Seq(X) /\ ToSet(Tail(s)) \subseteq ToSet(s)
         /\ \A m \in Seq(X) : m \o s = Append(m, Head(s)) \o Tail(s)
<1>1. Head(s) \in X /\ Tail(s) \in Seq(X) /\ Len(s) \in Nat \ {0} BY HeadTailProperties
<1>2. Head(s) = s[1] /\ 1 \in DOMAIN s BY <1>1
<1>3. Head(s) \in ToSet(s) BY <1>2 DEF ToSet
<1>4. ToSet(Tail(s)) \subseteq ToSet(s)
  <2>1. \A i \in DOMAIN Tail(s) : i + 1 \in DOMAIN s /\ Tail(s)[i] = s[i + 1] BY <1>1
  <2> QED BY <2>1 DEF ToSet
<1>5. ASSUME NEW m \in Seq(X) PROVE m \o s = Append(m, Head(s)) \o Tail(s)
  <2> DEFINE a == Append(m, Head(s)) \o Tail(s)
  <2>1. Len(a) = Len(m) + Len(s) /\ a \in Seq(X) BY <1>1
  <2>2. \A i \in 1..Len(a) : a[i] = IF i <= Len(m) THEN m[i] ELSE s[i - Len(m)] BY <1>1
  <2>3. m \o s \in Seq(X) /\ Len(m \o s) = Len(m) + Len(s) OBVIOUS
  <2>4. \A i \in 1..Len(m \o s) : (m \o s)[i] = IF i <= Len(m) THEN m[i] ELSE s[i - Len(m)] OBVIOUS
  <2> HIDE DEF a
  <2>5. a = m \o s
    <3> DEFINE b == m \o s
    <3>1. b \in Seq(X) /\ Len(b) = Len(a) BY <2>1, <2>3
    <3>2. \A i \in 1..Len(a) : a[i] = b[i] BY <2>1, <2>2, <2>3, <2>4
    <3> HIDE DEF b
    <3> QED BY <2>1, <3>1, <3>2, SeqEqual DEF b
  <2> QED BY <2>5 DEF a
<1> QED BY <1>1, <1>3, <1>4, <1>5

\* The responses that a request keeps are those of its run, each once.
LEMMA KeptOnce ==
  ASSUME worker \in UnderWay, \A p \in ToSet(worker.notices) : p.kind = "notice",
         NEW r, Fit(worker.prompts, r)
  PROVE  \A p \in ToSet(Kept(worker.prompts)) :
           p.kind = "response" => p.run = r /\ Once(Kept(worker.prompts), p)
<1> DEFINE a == Without(worker.prompts, worker.discards)
<1> DEFINE ns == worker.notices
<1>1. /\ worker.prompts \in Seq(Prompt) /\ ns \in Seq(Prompt) /\ a \in Seq(Prompt)
      /\ Kept(worker.prompts) = a \o ns
  BY KeptFacts DEF Kept
<1>2. ToSet(a) \subseteq ToSet(worker.prompts) /\ \A p : Once(worker.prompts, p) => Once(a, p)
  BY <1>1, WithoutFacts, WithoutOnce
<1>3. \A p \in ToSet(ns) : p.kind = "notice" OBVIOUS
<1> HIDE DEF a, ns
<1>4. ToSet(a \o ns) = ToSet(a) \cup ToSet(ns) BY <1>1, ConcatSet
<1> SUFFICES ASSUME NEW p \in ToSet(a \o ns), p.kind = "response" PROVE p.run = r /\ Once(a \o ns, p)
  BY <1>1
<1>5. p \in ToSet(a) /\ p \notin ToSet(ns) BY <1>3, <1>4
<1>6. p.run = r /\ Once(a, p) BY <1>2, <1>5 DEF Fit
<1>7. Once(ns, p) BY <1>1, <1>5, OnceAbsent
<1> QED BY <1>1, <1>5, <1>6, <1>7, OnceConcat

\* What a request keeps is as fit to be said as what it set out to say.
LEMMA KeptFits ==
  ASSUME worker \in UnderWay, RequestSays, Asks(worker.prompts), NEW r, Fit(worker.prompts, r)
  PROVE  Fit(Kept(worker.prompts), r)
<1> DEFINE s == worker.prompts
<1> DEFINE D == worker.discards
<1> DEFINE ns == worker.notices
<1> DEFINE a == Without(s, D)
<1>1. s \in Seq(Prompt) /\ ns \in Seq(Prompt) /\ a \in Seq(Prompt) /\ Kept(s) = a \o ns
  BY KeptFacts DEF Kept
<1>2. Discardable(D, ns) /\ \A p \in ToSet(ns) : p.kind = "notice" BY DEF RequestSays
<1>3. \A p \in ToSet(Kept(s)) : p.kind = "response" => p.run = r /\ Once(Kept(s), p)
  BY <1>2, KeptOnce
<1>4. Asks(s) /\ Fit(s, r) OBVIOUS
<1> SUFFICES Fit(Kept(s), r) OBVIOUS
<1> HIDE DEF s, D, ns
<1>5. CASE ns = <<>>
  <2>1. \A p \in D : p.kind = "call" BY <1>2, <1>5, EmptyFacts DEF Discardable
  <2>2. ToSet(s) \cap D = {} BY <1>4, <2>1 DEF Asks, IsAssistant
  <2>3. a = s BY <1>1, <2>2, WithoutNone
  <2>4. Kept(s) = s BY <1>1, <1>5, <2>3, ConcatEmptySeq
  <2> QED BY <1>4, <2>4
<1>6. CASE ns # <<>>
  <2> DEFINE f == Front(ns)
  <2> DEFINE x == Last(ns)
  <2>1. f \in Seq(Prompt) /\ x \in Prompt /\ ns = Append(f, x) BY <1>1, <1>6, FrontLast
  <2> HIDE DEF f, x
  <2>2. x \in ToSet(ns) BY <2>1, AppendFacts
  <2>3. IsUser(x) BY <1>2, <2>2 DEF IsUser
  <2>4. ResultsFirst(a \o ns)
    <3>1. PICK u, w \in Seq(Prompt) :
            s = u \o w /\ (\A p \in ToSet(u) : p.kind = "response") /\ NoResults(w)
      BY <1>4 DEF Fit, ResultsFirst
    <3> DEFINE v == Without(u, D)
    <3> DEFINE y == Without(w, D)
    <3>2. v \in Seq(Prompt) /\ y \in Seq(Prompt) /\ ToSet(v) \subseteq ToSet(u) /\ ToSet(y) \subseteq ToSet(w)
      BY WithoutFacts
    <3>3. a = v \o y BY <3>1, WithoutJoin
    <3> HIDE DEF a, v, y
    <3>4. a \o ns = v \o (y \o ns)
      <4>1. v \in Seq(Prompt) /\ y \in Seq(Prompt) /\ ns \in Seq(Prompt) BY <1>1, <3>2
      <4>2. (v \o y) \o ns = v \o (y \o ns) BY <4>1, ConcatTwice
      <4> QED BY <3>3, <4>2
    <3>5. y \o ns \in Seq(Prompt) /\ ToSet(y \o ns) = ToSet(y) \cup ToSet(ns) BY <1>1, <3>2, ConcatSet
    <3>6. NoResults(y \o ns) BY <1>2, <3>1, <3>2, <3>5 DEF NoResults
    <3>7. \A p \in ToSet(v) : p.kind = "response" BY <3>1, <3>2
    <3> QED BY <3>2, <3>4, <3>5, <3>6, <3>7 DEF ResultsFirst
  <2> HIDE DEF a
  <2>5. a \o ns = Append(a \o f, x) /\ a \o f \in Seq(Prompt) BY <1>1, <2>1, ConcatAppend, ConcatSet
  <2>6. a \o ns # <<>> /\ Last(a \o ns) = x BY <2>1, <2>5, AppendEnds
  <2> QED BY <1>1, <1>3, <2>3, <2>4, <2>6 DEF Fit
<1> QED BY <1>5, <1>6

LEMMA FitRun ==
  ASSUME ChatClientAssumption, FitInv, PairInv', NEW r \in Run,
         \/ Begin(r) \/ Ask(r) \/ Overflow(r) \/ Compressed(r) \/ CompressionFails(r) \/ Unanswered(r)
         \/ Timeout(r) \/ Cancelled(r) \/ Answered(r)
  PROVE  FitInv'
<1>0. PairInv /\ SaidInv /\ TypeOK BY DEF FitInv, PairInv, SaidInv
<1>1. ClientOK BY <1>0, TypeParts
<1>2. worker # Idle => worker.run \in Run /\ pc[worker.run] # "new"
  BY <1>0, <1>1 DEF ClientOK, UnderWay, SaidInv, RequestShares
<1>3. CASE Begin(r)
  <2>1. /\ worker' = worker /\ pc[r] = "new"
        /\ \A q \in Run \ {r} : pc'[q] = pc[q] /\ job'[q] = job[q]
        /\ Outstanding(r)' => Fit(job'[r].prompts, r)
    BY <1>0, <1>3, BeginMoves
  <2>2. ASSUME NEW q \in Run, Outstanding(q)'
        PROVE  Fit(job'[q].prompts, q) \/ (Outstanding(q) /\ job'[q].prompts = job[q].prompts)
    BY <2>1, <2>2 DEF Outstanding
  <2>3. worker' # Idle =>
          /\ worker # Idle /\ worker'.prompts = worker.prompts /\ worker'.run = worker.run
          /\ Outstanding(worker.run)' /\ ~worker'.shared =>
                \/ NoResults(job'[worker.run].prompts)
                \/ /\ Outstanding(worker.run) /\ ~worker.shared
                   /\ job'[worker.run].prompts = job[worker.run].prompts
    BY <1>2, <2>1 DEF Outstanding
  <2> QED BY <2>2, <2>3, FitStays
<1>4. CASE Overflow(r)
  <2>1. /\ Onward /\ \A q \in Run \ {r} : job'[q] = job[q]
        /\ Fit(job'[r].prompts, r) /\ NoResults(job'[r].prompts)
        /\ worker' # Idle => /\ worker # Idle /\ worker'.run = worker.run
                             /\ worker'.prompts = worker.prompts
                             /\ worker.run # r => worker'.shared = worker.shared
    <3> HIDE DEF Onward
    <3> QED BY <1>0, <1>4, OverflowMoves
  <2>2. ASSUME NEW q \in Run, Outstanding(q)'
        PROVE  Fit(job'[q].prompts, q) \/ (Outstanding(q) /\ job'[q].prompts = job[q].prompts)
    BY <2>1, <2>2 DEF Onward
  <2>3. worker' # Idle =>
          /\ worker # Idle /\ worker'.prompts = worker.prompts /\ worker'.run = worker.run
          /\ Outstanding(worker.run)' /\ ~worker'.shared =>
                \/ NoResults(job'[worker.run].prompts)
                \/ /\ Outstanding(worker.run) /\ ~worker.shared
                   /\ job'[worker.run].prompts = job[worker.run].prompts
    <3> SUFFICES ASSUME worker' # Idle, Outstanding(worker.run)', ~worker'.shared
                 PROVE  \/ NoResults(job'[worker.run].prompts)
                        \/ /\ Outstanding(worker.run) /\ ~worker.shared
                           /\ job'[worker.run].prompts = job[worker.run].prompts
      BY <2>1
    <3>1. worker.run \in Run /\ worker'.run = worker.run BY <1>2, <2>1
    <3>2. Outstanding(worker.run)
      <4>1. pc'[worker.run] \in {"ask", "asking", "compressing", "nothing"} BY <3>1 DEF Outstanding
      <4> QED BY <2>1, <3>1, <4>1 DEF Onward, Outstanding
    <3> QED BY <2>1, <3>1, <3>2
  <2> QED BY <2>2, <2>3, FitStays
<1>5. CASE \/ Ask(r) \/ Compressed(r) \/ CompressionFails(r) \/ Unanswered(r)
          \/ Timeout(r) \/ Cancelled(r) \/ Answered(r)
  <2>1. /\ worker' = worker /\ Onward
        /\ \A q \in Run : Outstanding(q)' => job'[q].prompts = job[q].prompts
    BY <1>0, <1>5, RunMoves
  <2>2. ASSUME NEW q \in Run, Outstanding(q)'
        PROVE  Fit(job'[q].prompts, q) \/ (Outstanding(q) /\ job'[q].prompts = job[q].prompts)
    BY <2>1, <2>2 DEF Onward
  <2>3. worker' # Idle =>
          /\ worker # Idle /\ worker'.prompts = worker.prompts /\ worker'.run = worker.run
          /\ Outstanding(worker.run)' /\ ~worker'.shared =>
                \/ NoResults(job'[worker.run].prompts)
                \/ /\ Outstanding(worker.run) /\ ~worker.shared
                   /\ job'[worker.run].prompts = job[worker.run].prompts
    BY <1>2, <2>1 DEF Onward, Outstanding
  <2> QED BY <2>2, <2>3, FitStays
<1> QED BY <1>3, <1>4, <1>5

LEMMA FitInterrupt ==
  ASSUME ChatClientAssumption, FitInv, PairInv', Interrupt \/ Nothing PROVE FitInv'
<1>0. PairInv /\ SaidInv /\ TypeOK BY DEF FitInv, PairInv, SaidInv
<1>1. ClientOK BY <1>0, TypeParts
<1>2. worker # Idle => worker.run \in Run BY <1>1 DEF ClientOK, UnderWay
<1>3. job' = job /\ (worker' = worker \/ worker' = Idle) /\ Onward BY <1>0, InterruptMoves
<1>4. ASSUME NEW q \in Run, Outstanding(q)' PROVE Outstanding(q) /\ job'[q].prompts = job[q].prompts
  BY <1>3, <1>4 DEF Onward
<1>5. worker' # Idle =>
        /\ worker # Idle /\ worker'.prompts = worker.prompts /\ worker'.run = worker.run
        /\ Outstanding(worker.run)' /\ ~worker'.shared =>
              \/ NoResults(job'[worker.run].prompts)
              \/ /\ Outstanding(worker.run) /\ ~worker.shared
                 /\ job'[worker.run].prompts = job[worker.run].prompts
  BY <1>2, <1>3 DEF Onward, Outstanding
<1> QED BY <1>4, <1>5, FitStays

LEMMA FitStart ==
  ASSUME ChatClientAssumption, FitInv, PairInv', Start PROVE FitInv'
<1>0. PairInv /\ SaidInv /\ TypeOK BY DEF FitInv, PairInv, SaidInv
<1>1. ClientOK BY <1>0, TypeParts
<1> DEFINE q == Head(queue)
<1>2. q \in Requests BY <1>1, HeadTailProperties DEF Start, ClientOK
<1>3. pc' = pc /\ job' = job BY DEF Start
<1>4. AskersFit' BY <1>3 DEF FitInv, AskersFit, Outstanding
<1>5. CASE ~Waits(q)
  <2>1. worker' = worker BY <1>5 DEF Start
  <2> QED BY <1>3, <1>4, <2>1 DEF FitInv, RequestFit, Outstanding
<1>6. CASE Waits(q)
  <2>1. worker'.run = q.run /\ worker'.prompts = job[q.run].prompts /\ worker'.shared = TRUE
    <3> DEFINE ps == job[q.run].prompts
    <3> DEFINE normal == Normalised(Messages(Added(context, ps)))
    <3> DEFINE D == normal.orphans \cup normal.closed
    <3> DEFINE ns == normal.notices
    <3>1. worker' = [run |-> q.run, ask |-> q.ask, prompts |-> ps, shared |-> TRUE,
                     discards |-> D, notices |-> ns]
      BY <1>6, Zenon DEF Start
    <3> HIDE DEF ns, D, normal, q
    <3> QED BY <3>1
  <2>2. q.run \in Run /\ Outstanding(q.run) BY <1>2, <1>6 DEF Requests, Waits, Outstanding
  <2>3. Fit(job[q.run].prompts, q.run) BY <2>2 DEF FitInv, AskersFit
  <2>4. RequestFit' BY <2>1, <2>3 DEF RequestFit
  <2> QED BY <1>4, <2>4 DEF FitInv
<1> QED BY <1>5, <1>6

\* What an answer makes of the runs and of the context
AnswerDoes(answer) ==
  LET r == worker.run
      ps == Kept(worker.prompts)
      m == Messages(context)
  IN  /\ worker # Idle /\ worker \in UnderWay /\ RequestSays /\ RequestShares
      /\ r \in Run /\ ps \in Seq(Prompt) /\ Asks(ps) /\ Fit(ps, r)
      /\ answer \in Seq(Prompt) /\ (\A p \in ToSet(answer) : IsAssistant(p)) /\ NoResults(answer)
      /\ \A c \in CallIds : Call(c) \in ToSet(answer) => c > calls
      /\ context' = Added(Added(context, ps), answer)
      /\ m \in Seq(Prompt) /\ m \o ps \in Seq(Prompt) /\ Messages(context') = (m \o ps) \o answer
      /\ \A q \in Run \ {r} : job'[q] = job[q]
      /\ job'[r].prompts = IF worker.shared /\ Inside(r) THEN ps ELSE job[r].prompts
      /\ Onward /\ (Waits(worker) => pc'[r] = "answered") /\ (~late' => Waits(worker))

LEMMA AnswerMoves ==
  ASSUME ChatClientAssumption, FitInv, Answer PROVE \E answer \in Answers : AnswerDoes(answer)
<1>0. SaidInv /\ TypeOK /\ ContextCalls /\ Askers BY DEF FitInv, PairInv, SaidInv
<1>1. ClientOK /\ JobsOK /\ CountsOK BY <1>0, TypeParts
<1>2. worker # Idle /\ worker \in UnderWay /\ RequestSays /\ RequestShares
  BY <1>0, <1>1 DEF Answer, ClientOK, SaidInv
<1>3. PICK answer \in Answers : Answered_with(answer) BY AnswerWith
<1> DEFINE r == worker.run
<1> DEFINE ps == Kept(worker.prompts)
<1> DEFINE m == Messages(context)
<1>4. /\ r \in Run /\ ps \in Seq(Prompt)
      /\ ToSet(ps) = (ToSet(worker.prompts) \ worker.discards) \cup ToSet(worker.notices)
  BY <1>2, KeptFacts
<1>5. Asks(ps)
  <2>1. Asks(worker.prompts) BY <1>0, <1>2 DEF Askers
  <2>2. \A p \in ToSet(worker.notices) : ~IsAssistant(p) BY <1>2 DEF RequestSays, IsAssistant
  <2> QED BY <1>4, <2>1, <2>2 DEF Asks
<1>6. Fit(ps, r) BY <1>0, <1>2, KeptFits DEF FitInv, RequestFit, Askers
<1>7. /\ answer \in Seq(Prompt) /\ (\A p \in ToSet(answer) : IsAssistant(p))
      /\ \A c \in CallIds : Call(c) \in ToSet(answer) => c > calls
  BY <1>1, AnswerFacts, AnswerCalls DEF CountsOK, IsAssistant
<1>8. NoResults(answer) BY <1>7 DEF NoResults, IsAssistant
<1>9. context' = Added(Added(context, ps), answer) BY <1>3 DEF Answered_with
<1>10. m \in Seq(Prompt) /\ m \o ps \in Seq(Prompt) /\ Messages(context') = (m \o ps) \o answer
  <2>1. context \in Rounds(Prompt) BY <1>1 DEF ClientOK
  <2>2. m \in Seq(Prompt) BY <2>1, RoundsAreSeqs, MessagesFacts
  <2> DEFINE mid == Added(context, ps)
  <2> HIDE DEF ps, m
  <2>3. mid \in Rounds(Prompt) /\ Messages(mid) = m \o ps BY <1>4, <2>1, AddedFacts DEF m
  <2>4. context' = Added(mid, answer) BY <1>9
  <2> HIDE DEF mid
  <2>5. Messages(context') = Messages(mid) \o answer BY <1>7, <2>3, <2>4, AddedFacts
  <2>6. m \o ps \in Seq(Prompt) BY <1>4, <2>2, ConcatSet
  <2> QED BY <2>2, <2>3, <2>5, <2>6
<1>11. /\ \A q \in Run \ {r} : job'[q] = job[q]
       /\ job'[r].prompts = IF worker.shared /\ Inside(r) THEN ps ELSE job[r].prompts
  <2> DEFINE x == job[r]
  <2> DEFINE kept == IF worker.shared /\ Inside(r) THEN ps ELSE x.prompts
  <2> DEFINE got == IF Waits(worker) THEN CallsOf(answer) ELSE x.got
  <2> DEFINE j == [x EXCEPT !.prompts = kept, !.got = got]
  <2>1. job' = [job EXCEPT ![r] = j] BY <1>0, <1>2, <1>3, AnswerJob
  <2>2. x \in Jobs /\ job \in [Run -> Jobs] BY <1>1, <1>4 DEF JobsOK
  <2>3. j.prompts = kept
    <3> HIDE DEF x, kept, got
    <3> QED BY <2>2 DEF Jobs
  <2> HIDE DEF j
  <2> QED BY <1>4, <2>1, <2>2, <2>3
<1>12. /\ Waits(worker) => Goto(r, "answered") /\ pc[r] = "asking"
       /\ ~Waits(worker) => late' = TRUE /\ pc' = pc
  BY <1>3 DEF Answered_with, Waits
<1>13. Onward /\ (Waits(worker) => pc'[r] = "answered")
  BY <1>1, <1>4, <1>12 DEF JobsOK, Goto, Outstanding, Onward, Inside
<1> HIDE DEF ps, m
<1> QED BY <1>2, <1>3, <1>4, <1>5, <1>6, <1>7, <1>8, <1>9, <1>10, <1>11, <1>12, <1>13 DEF ps, m, AnswerDoes

LEMMA FitAnswer ==
  ASSUME ChatClientAssumption, FitInv, PairInv', Answer PROVE FitInv'
<1> DEFINE r == worker.run
<1> DEFINE ps == Kept(worker.prompts)
<1>1. /\ \A q \in Run \ {r} : job'[q] = job[q]
      /\ job'[r].prompts = ps \/ job'[r].prompts = job[r].prompts
      /\ Fit(ps, r) /\ Onward
  <2>1. PICK answer \in Answers : AnswerDoes(answer) BY AnswerMoves
  <2> QED BY <2>1 DEF AnswerDoes
<1>2. worker' = Idle BY DEF Answer
<1> HIDE DEF ps, r
<1>3. ASSUME NEW q \in Run, Outstanding(q)'
      PROVE  Fit(job'[q].prompts, q) \/ (Outstanding(q) /\ job'[q].prompts = job[q].prompts)
  BY <1>1, <1>3 DEF Onward
<1> QED BY <1>2, <1>3, FitStays

LEMMA FitInit == ASSUME ChatClientAssumption, Init PROVE FitInv
<1>1. PairInv BY PairInit
<1>2. worker = Idle /\ \A r \in Run : pc[r] = "new" BY DEF Init
<1> QED BY <1>1, <1>2 DEF FitInv, AskersFit, Outstanding

LEMMA FitStep ==
  ASSUME ChatClientAssumption, FitInv, [Next]_vars PROVE FitInv'
<1>1. PairInv' BY PairStep DEF FitInv
<1>2. CASE UNCHANGED vars
  <2>1. UNCHANGED <<worker, job, pc>> BY <1>2 DEF vars, client
  <2> QED BY <1>1, <2>1 DEF FitInv, AskersFit, RequestFit, Outstanding
<1>3. ASSUME NEW r \in Run,
             Begin(r) \/ Ask(r) \/ Overflow(r) \/ Compressed(r) \/ CompressionFails(r) \/ Unanswered(r)
                \/ Timeout(r) \/ Cancelled(r) \/ Answered(r)
      PROVE  FitInv'
  BY <1>1, <1>3, FitRun
<1>4. CASE Interrupt \/ Start \/ Nothing \/ Answer
  BY <1>1, <1>4, FitInterrupt, FitStart, FitAnswer
<1> QED BY <1>2, <1>3, <1>4 DEF Next

------------------------------------------------------------------------------
\* As long as no answer comes late

\* Wherever the context is cut, no call is half answered, ...
Even(n) == Account(n).half = {} /\ Account(n).left = {}
CutsEven == \A n \in Cuts(context) : Even(n)

\* ... the calls that wait at one cut do not wait at another, ...
CutsApart ==
  \A n, o \in Cuts(context) : n # o => Account(n).pending \cap Account(o).pending = {}

\* ... and what the request under way will add leaves none waiting.
Followed ==
  worker # Idle => \A n \in Cuts(context) : Account(n \o Kept(worker.prompts)).pending = {}

\* A response is in the context once, and only when its run has its answer.
ResponsesApart ==
  \A p \in ToSet(Messages(context)) :
    p.kind = "response" => Once(Messages(context), p) /\ pc[p.run] \in {"answered", "done"}

ContextTimely == CutsEven /\ CutsApart /\ Followed /\ ResponsesApart
Timely == ContextTimely /\ Straight(payload)

\* A step that takes rounds away, or none
LEMMA ContextShrinks ==
  ASSUME ChatClientAssumption, PairInv, ContextTimely,
         \/ context' = context \/ context' = <<>> \/ (context # <<>> /\ context' = Front(context)),
         worker' # Idle => worker # Idle /\ Kept(worker.prompts)' = Kept(worker.prompts),
         \A q \in Run : pc[q] \in {"answered", "done"} => pc'[q] \in {"answered", "done"}
  PROVE  ContextTimely'
<1>1. context \in Seq(Seq(Prompt)) BY TypeParts, RoundsAreSeqs DEF PairInv, SaidInv, ClientOK
<1> DEFINE m == Messages(context)
<1> DEFINE n == Messages(context')
<1>2. /\ <<>> \in Cuts(context) /\ m \in Cuts(context)
      /\ \A o \in Cuts(context) : o \in Seq(Prompt) /\ \E t \in Seq(Prompt) : m = o \o t
  BY <1>1, CutsFacts
<1>3. Cuts(context') \subseteq Cuts(context) /\ n \in Cuts(context)
  <2>1. CASE context' = context BY <1>2, <2>1
  <2>2. CASE context' = <<>> BY <1>2, <2>2, CutsEmpty, MessagesEmpty
  <2>3. CASE context # <<>> /\ context' = Front(context)
    <3>1. Cuts(context) = Cuts(context') \cup {m} BY <1>1, <2>3, CutsFront
    <3>2. context' \in Seq(Seq(Prompt)) BY <1>1, <2>3, FrontLast
    <3>3. n \in Cuts(context') BY <3>2, CutsFacts
    <3> QED BY <3>1, <3>3
  <2> QED BY <2>1, <2>2, <2>3
<1>4. CutsEven' /\ CutsApart' BY <1>3 DEF ContextTimely, CutsEven, CutsApart
<1>5. Followed' BY <1>3 DEF ContextTimely, Followed
<1>6. ResponsesApart'
  <2>1. PICK t \in Seq(Prompt) : m = n \o t /\ n \in Seq(Prompt) BY <1>2, <1>3
  <2>2. \A p \in ToSet(m) : p.kind = "response" => Once(m, p) /\ pc[p.run] \in {"answered", "done"}
    BY DEF ContextTimely, ResponsesApart
  <2> HIDE DEF m, n
  <2>3. ToSet(m) = ToSet(n) \cup ToSet(t) /\ \A p : Once(m, p) => Once(n, p)
    BY <2>1, ConcatSet, OnceConcat
  <2>4. \A p \in ToSet(n) : p.kind = "response" => p.run \in Run BY <2>1, Members, PromptKinds
  <2>5. \A p \in ToSet(n) : p.kind = "response" => Once(n, p) /\ pc'[p.run] \in {"answered", "done"}
    BY <2>2, <2>3, <2>4
  <2> QED BY <2>5 DEF ResponsesApart, n
<1> QED BY <1>4, <1>5, <1>6 DEF ContextTimely

LEMMA TimelyRun ==
  ASSUME ChatClientAssumption, PairInv, Timely, NEW r \in Run,
         \/ Begin(r) \/ Ask(r) \/ Overflow(r) \/ Compressed(r) \/ CompressionFails(r) \/ Unanswered(r)
         \/ Timeout(r) \/ Cancelled(r) \/ Answered(r)
  PROVE  Timely'
<1>1. CASE Begin(r)
  <2>1. /\ worker' = worker /\ payload' = payload /\ pc[r] = "new"
        /\ context' = context \/ (context # <<>> /\ context' = Front(context))
        /\ \A q \in Run \ {r} : pc'[q] = pc[q]
    BY <1>1, BeginMoves
  <2>2. \A q \in Run : pc[q] \in {"answered", "done"} => pc'[q] \in {"answered", "done"} BY <2>1
  <2>3. Kept(worker.prompts)' = Kept(worker.prompts) BY <2>1 DEF Kept
  <2>4. ContextTimely' BY <2>1, <2>2, <2>3, ContextShrinks DEF Timely
  <2> QED BY <2>1, <2>4 DEF Timely
<1>2. CASE Overflow(r)
  <2>1. /\ payload' = payload /\ context' = context /\ Onward
        /\ worker' # Idle => worker # Idle /\ Kept(worker.prompts)' = Kept(worker.prompts)
    BY <1>2, OverflowMoves
  <2>2. ContextTimely' BY <2>1, ContextShrinks DEF Timely, Onward
  <2> QED BY <2>1, <2>2 DEF Timely
<1>3. CASE \/ Ask(r) \/ Compressed(r) \/ CompressionFails(r) \/ Unanswered(r)
          \/ Timeout(r) \/ Cancelled(r) \/ Answered(r)
  <2>1. /\ worker' = worker /\ payload' = payload /\ Onward
        /\ context' = context \/ context' = <<>>
    BY <1>3, RunMoves
  <2>2. Kept(worker.prompts)' = Kept(worker.prompts) BY <2>1 DEF Kept
  <2>3. ContextTimely' BY <2>1, <2>2, ContextShrinks DEF Timely, Onward
  <2> QED BY <2>1, <2>3 DEF Timely
<1> QED BY <1>1, <1>2, <1>3

LEMMA TimelyInterrupt ==
  ASSUME ChatClientAssumption, PairInv, Timely, Interrupt \/ Nothing PROVE Timely'
<1>1. /\ context' = context /\ (payload' = payload \/ payload' = <<>>)
      /\ (worker' = worker \/ worker' = Idle) /\ Onward
  BY InterruptMoves
<1>2. worker' # Idle => worker # Idle /\ Kept(worker.prompts)' = Kept(worker.prompts) BY <1>1 DEF Kept
<1>3. ContextTimely' BY <1>1, <1>2, ContextShrinks DEF Timely, Onward
<1>4. Straight(payload)' BY <1>1, EmptyStraight DEF Timely
<1> QED BY <1>3, <1>4 DEF Timely

\* Each response is given once.
ResponsesOnce(m) == \A p \in ToSet(m) : p.kind = "response" => Once(m, p)

\* Without what a request discards, a cut of the context has no call more that waits,
\* none that goes, and none that is half answered that was not.
LEMMA CutWithout ==
  ASSUME ChatClientAssumption, NEW n \in Seq(Prompt), NEW t \in Seq(Prompt),
         CallsOnce(n \o t), \A p \in Account(n).used : p \notin Gone(n \o t)
  PROVE  LET D == Gone(n \o t) IN
         /\ Account(Without(n, D)).pending = {c \in Account(n).pending : Call(c) \notin D}
         /\ Account(Without(n, D)).half \subseteq Account(n).half
         /\ Account(Without(n, D)).left \subseteq Account(n).left
<1> DEFINE full == n \o t
<1> DEFINE D == Gone(full)
<1>1. full \in Seq(Prompt) BY ConcatSet
<1>2. Account(n).dropped \subseteq Account(full).dropped /\ Account(n).used \subseteq Account(full).used
  BY AccountLonger
<1>3. CallsOnce(full) /\ \A p \in Account(n).used : p \notin D OBVIOUS
<1> HIDE DEF full
<1>4. Account(full).dropped \subseteq D BY DEF Gone
<1>5. \A p \in Account(n).used : p \notin D /\ Call(p.call) \notin D BY <1>1, <1>2, <1>3, UsedStays
<1> HIDE DEF D
<1>6. Account(n).dropped \subseteq D /\ \A p \in Account(n).used : p \notin D /\ Call(p.call) \notin D
  BY <1>2, <1>4, <1>5
<1> QED BY <1>6, AccountWithout DEF D, full

\* When no response is given twice, none that is used is discarded.
LEMMA UsedKept ==
  ASSUME NEW n \in Seq(Prompt), NEW t \in Seq(Prompt), CallsOnce(n \o t), ResponsesOnce(n \o t)
  PROVE  \A p \in Account(n).used : p \notin Gone(n \o t)
<1> DEFINE full == n \o t
<1>1. full \in Seq(Prompt) BY ConcatSet
<1>2. Account(n).used \subseteq Account(full).used BY AccountLonger
<1>3. CallsOnce(full) /\ ResponsesOnce(full) OBVIOUS
<1> HIDE DEF full
<1>4. \A p \in Account(full).used : p \in ToSet(full) /\ p.kind = "response" BY <1>1, AccountFacts
<1>5. \A p \in Account(full).used : p \notin Gone(full)
  BY <1>1, <1>3, <1>4, UsedStays DEF ResponsesOnce
<1> QED BY <1>2, <1>5 DEF full

\* What a request goes on to add leaves no call waiting, wherever the context is cut.
LEMMA CutFollowed ==
  ASSUME ChatClientAssumption, NEW n \in Seq(Prompt), NEW t \in Seq(Prompt), NEW r,
         NEW ps \in Seq(Prompt), Asks(ps), Fit(ps, r),
         CallsOnce((n \o t) \o ps),
         n # n \o t => Account(n).pending \cap Account(n \o t).pending = {},
         NEW ns \in Seq(Prompt), \A p \in ToSet(ns) : p.kind = "notice",
         ns = <<>> => \A p \in Gone((n \o t) \o ps) : p.kind = "call"
  PROVE  Account(Without(n, Gone((n \o t) \o ps)) \o (Without(ps, Gone((n \o t) \o ps)) \o ns)).pending = {}
<1> DEFINE m == n \o t
<1> DEFINE full == m \o ps
<1> DEFINE D == Gone(full)
<1>1. m \in Seq(Prompt) BY ConcatSet
<1>2. /\ CallsOnce(full)
      /\ n # m => Account(n).pending \cap Account(m).pending = {}
      /\ ns = <<>> => \A p \in D : p.kind = "call"
  OBVIOUS
<1>3. full = n \o (t \o ps) /\ t \o ps \in Seq(Prompt) BY ConcatTwice
<1> HIDE DEF m
<1>5. full \in Seq(Prompt) BY <1>1, ConcatSet
<1> HIDE DEF D
<1> DEFINE a == Without(n, D)
<1> DEFINE b == Without(ps, D)
<1>6. a \in Seq(Prompt) /\ b \in Seq(Prompt) BY WithoutFacts
<1> SUFFICES Account(a \o (b \o ns)).pending = {} BY DEF m, D
<1>8. CASE ns # <<>>
  <2> DEFINE f == Front(ns)
  <2> DEFINE x == Last(ns)
  <2>1. f \in Seq(Prompt) /\ x \in Prompt /\ ns = Append(f, x) BY <1>8, FrontLast
  <2> HIDE DEF f, x
  <2>2. x \in ToSet(ns) BY <2>1, AppendFacts
  <2>3. IsUser(x) BY <2>2 DEF IsUser
  <2> HIDE DEF a, b
  <2>4. a \o (b \o Append(f, x)) = Append(a \o (b \o f), x) /\ a \o (b \o f) \in Seq(Prompt)
    BY <1>6, <2>1, ConcatThree
  <2> QED BY <2>1, <2>3, <2>4, AccountUser
<1>9. CASE ns = <<>>
  <2>1. \A p \in D : p.kind = "call" BY <1>2, <1>9
  <2>7. \A p \in Account(full).used : p \notin D BY <1>5, <2>1, AccountFacts
  <2>8. Account(a).pending \subseteq Account(n).pending
    <3> DEFINE u == t \o ps
    <3>1. u \in Seq(Prompt) /\ full = n \o u BY <1>3
    <3> HIDE DEF u, full
    <3>2. CallsOnce(n \o u) /\ D = Gone(n \o u) BY <1>2, <3>1 DEF D
    <3>3. \A p \in Account(n).used : p \notin Gone(n \o u) BY <2>7, <3>1, <3>2, AccountLonger
    <3>4. Account(Without(n, Gone(n \o u))).pending \subseteq Account(n).pending
      <4>1. Account(Without(n, Gone(n \o u))).pending
              = {c \in Account(n).pending : Call(c) \notin Gone(n \o u)}
        BY <3>1, <3>2, <3>3, CutWithout
      <4> QED BY <4>1
    <3> QED BY <3>2, <3>4
  <2>2. b = ps
    <3>1. ToSet(ps) \cap D = {} BY <2>1 DEF Asks, IsAssistant
    <3> QED BY <3>1, WithoutNone
  <2> HIDE DEF b
  <2>3. b \o ns = ps BY <1>9, <2>2, ConcatTwice
  <2>4. ps # <<>> BY DEF Fit
  <2> SUFFICES Account(a \o ps).pending = {} BY <2>3
  <2>5. ASSUME IsUser(Last(ps)) PROVE Account(a \o ps).pending = {}
    <3> DEFINE f == Front(ps)
    <3> DEFINE x == Last(ps)
    <3>1. f \in Seq(Prompt) /\ x \in Prompt /\ ps = Append(f, x) /\ IsUser(x) BY <2>4, <2>5, FrontLast
    <3> HIDE DEF f, x, a
    <3>2. a \o ps = Append(a \o f, x) /\ a \o f \in Seq(Prompt) BY <1>6, <3>1, ConcatAppend, ConcatSet
    <3> QED BY <3>1, <3>2, AccountUser
  <2>6. ASSUME \A p \in ToSet(ps) : p.kind = "response" PROVE Account(a \o ps).pending = {}
    <3>1. CASE n = m
      <4>1. a \o ps = Without(full, D)
        <5>1. Without(m \o ps, D) = Without(m, D) \o Without(ps, D) BY <1>1, WithoutJoin
        <5> QED BY <2>2, <3>1, <5>1 DEF b
      <4>2. Account(Without(full, D)).pending = {c \in Account(full).pending : Call(c) \notin D}
        <5> DEFINE e == <<>>
        <5>1. full \o e = full /\ e \in Seq(Prompt) BY <1>5, ConcatTwice
        <5> HIDE DEF e, full
        <5>2. CallsOnce(full \o e) /\ (\A p \in Account(full).used : p \notin D) /\ D = Gone(full \o e)
          BY <1>2, <2>7, <5>1 DEF D
        <5>3. Account(Without(full, Gone(full \o e))).pending
                = {c \in Account(full).pending : Call(c) \notin Gone(full \o e)}
          BY <1>5, <5>1, <5>2, CutWithout
        <5> QED BY <5>2, <5>3
      <4>3. \A c \in Account(full).pending : Call(c) \in D BY DEF D, Gone
      <4> QED BY <4>1, <4>2, <4>3
    <3>2. CASE n # m
      <4> DEFINE p == Head(ps)
      <4> DEFINE v == Tail(ps)
      <4>1. /\ p \in Prompt /\ p \in ToSet(ps) /\ v \in Seq(Prompt) /\ ToSet(v) \subseteq ToSet(ps)
            /\ m \o ps = Append(m, p) \o v /\ a \o ps = Append(a, p) \o v
        <5> HIDE DEF a
        <5> QED BY <1>1, <1>6, <2>4, FirstOf
      <4>2. p.kind = "response" BY <2>6, <4>1
      <4> HIDE DEF p, v, a
      <4>3. p.call \in Account(m).pending
        <5> SUFFICES ASSUME p.call \notin Account(m).pending PROVE FALSE OBVIOUS
        <5>1. Account(m) \in AccountRecord BY <1>1, AccountFacts
        <5>2. Cuts_off(Account(m), p) BY <4>2 DEF Cuts_off
        <5>3. p \in Account(Append(m, p)).dropped
          <6>1. Account(Append(m, p)) = Counted(Account(m), p) BY <1>1, <4>1, AccountAppend
          <6>2. p \in Drops(Account(m), p) BY <4>2 DEF Drops
          <6> QED BY <4>1, <5>1, <5>2, <6>1, <6>2, CountedCut
        <5>4. Append(m, p) \in Seq(Prompt) BY <1>1, <4>1, AppendFacts
        <5>5. p \in Account(full).dropped BY <4>1, <5>3, <5>4, AccountLonger
        <5>6. p \in D BY <5>5 DEF D, Gone
        <5> QED BY <2>1, <4>2, <5>6
      <4>4. p.call \notin Account(a).pending BY <1>2, <2>8, <3>2, <4>3 DEF a
      <4>5. Account(a) \in AccountRecord BY <1>6, AccountFacts
      <4>6. Account(Append(a, p)).pending = {}
        <5>1. Account(Append(a, p)) = Counted(Account(a), p) BY <1>6, <4>1, AccountAppend
        <5>2. Cuts_off(Account(a), p) BY <4>2, <4>4 DEF Cuts_off
        <5> QED BY <4>1, <4>5, <5>1, <5>2, CountedCut
      <4>7. Append(a, p) \in Seq(Prompt) /\ Asks(v) BY <1>6, <4>1, AppendFacts DEF Asks
      <4>8. Account(Append(a, p) \o v).pending \subseteq Account(Append(a, p)).pending
        BY <4>1, <4>7, AccountAsks
      <4> QED BY <4>1, <4>6, <4>8
    <3> QED BY <3>1, <3>2
  <2> QED BY <2>5, <2>6 DEF Fit
<1> QED BY <1>8, <1>9

\* Responses of a run that has no answer yet are not in the context, ...
LEMMA RunsOnce ==
  ASSUME NEW m \in Seq(Prompt), NEW ps \in Seq(Prompt), NEW r, pc[r] \notin {"answered", "done"},
         \A p \in ToSet(m) : p.kind = "response" => Once(m, p) /\ pc[p.run] \in {"answered", "done"},
         \A p \in ToSet(ps) : p.kind = "response" => p.run = r /\ Once(ps, p)
  PROVE  ResponsesOnce(m \o ps)
<1> SUFFICES ASSUME NEW p \in ToSet(m \o ps), p.kind = "response" PROVE Once(m \o ps, p)
  BY DEF ResponsesOnce
<1>1. ToSet(m \o ps) = ToSet(m) \cup ToSet(ps) BY ConcatSet
<1>2. ~(p \in ToSet(m) /\ p \in ToSet(ps)) OBVIOUS
<1>3. Once(m, p) BY OnceAbsent
<1>4. Once(ps, p) BY OnceAbsent
<1> QED BY <1>2, <1>3, <1>4, OnceConcat

LEMMA TimelyStart ==
  ASSUME ChatClientAssumption, FitInv, Timely, Start PROVE Timely'
<1>0. PairInv /\ SaidInv /\ TypeOK /\ ContextCalls /\ Askers BY DEF FitInv, PairInv, SaidInv
<1>1. ClientOK /\ JobsOK BY <1>0, TypeParts
<1> DEFINE q == Head(queue)
<1>2. q \in Requests BY <1>1, HeadTailProperties DEF Start, ClientOK
<1>3. pc' = pc /\ job' = job BY DEF Start
<1>4. CASE ~Waits(q)
  <2>1. UNCHANGED <<context, worker, payload>> BY <1>4 DEF Start
  <2>2. Kept(worker.prompts)' = Kept(worker.prompts) BY <2>1 DEF Kept
  <2>3. ContextTimely' BY <1>0, <1>3, <2>1, <2>2, ContextShrinks DEF Timely
  <2> QED BY <2>1, <2>3 DEF Timely
<1>5. CASE Waits(q)
  <2> DEFINE r == q.run
  <2> DEFINE ps == job[r].prompts
  <2> DEFINE all == Messages(Added(context, ps))
  <2> DEFINE normal == Normalised(all)
  <2> DEFINE ns == normal.notices
  <2> DEFINE D == normal.orphans \cup normal.closed
  <2> DEFINE m == Messages(context)
  <2>1. /\ context' = Discarded(context, D) /\ payload' = normal.sent
        /\ worker' = [run |-> r, ask |-> q.ask, prompts |-> ps, shared |-> TRUE,
                      discards |-> D, notices |-> ns]
    BY <1>5 DEF Start
  <2>2. r \in Run BY <1>2 DEF Requests
  <2>3. job[r] \in Jobs BY <1>1, <2>2 DEF JobsOK
  <2>4. ps \in Seq(Prompt) /\ Asks(ps) BY <1>0, <2>2, <2>3 DEF Jobs, Askers
  <2>5. context \in Rounds(Prompt) /\ context \in Seq(Seq(Prompt)) BY <1>1, RoundsAreSeqs DEF ClientOK
  <2>6. pc[r] = "asking" BY <1>5 DEF Waits
  <2>7. Fit(ps, r) BY <2>2, <2>6 DEF FitInv, AskersFit, Outstanding
  <2> HIDE DEF r, ps
  <2>8. /\ m \in Seq(Prompt) /\ all = m \o ps /\ all \in Seq(Prompt) /\ SeenOK(normal)
    BY <2>4, <2>5, NormalisedFacts
  <2>9. CallsOnce(m) BY <1>0 DEF ContextCalls
  <2>10. \A p \in ToSet(m) : p.kind = "response" => Once(m, p) /\ pc[p.run] \in {"answered", "done"}
    BY DEF Timely, ContextTimely, ResponsesApart
  <2>11. D = Gone(m \o ps)
    <3> HIDE DEF all
    <3>1. D = Gone(all) BY <2>8, GoneIs
    <3> QED BY <2>8, <3>1
  <2>12. payload' = Normalised(m \o ps).sent
    <3> HIDE DEF all
    <3>1. payload' = Normalised(all).sent BY <2>1
    <3> QED BY <2>8, <3>1
  <2>13. CallsOnce(m \o ps) BY <2>4, <2>8, <2>9, AsksAppend
  <2>14. ResponsesOnce(m \o ps) BY <2>4, <2>6, <2>7, <2>8, <2>10, RunsOnce DEF Fit
  <2>15. ns \in Seq(Prompt) /\ \A p \in ToSet(ns) : p.kind = "notice" BY <2>8 DEF SeenOK, SeenRecord
  <2>16. ns = <<>> => \A p \in D : p.kind = "call"
    <3>1. Discardable(D, ns) BY <2>8 DEF SeenOK, Discardable
    <3> HIDE DEF D, ns
    <3> QED BY <3>1, EmptyFacts DEF Discardable
  <2>17. /\ m \in Cuts(context)
         /\ \A n \in Cuts(context) : n \in Seq(Prompt) /\ \E t \in Seq(Prompt) : m = n \o t
    BY <2>5, CutsFacts
  <2> HIDE DEF all, normal, ns
  <2>18. /\ worker'.run = r /\ worker'.prompts = ps /\ worker'.discards = D /\ worker'.notices = ns
    BY <2>1
  <2>19. Messages(context') = Without(m, D) BY <2>1, <2>5, DiscardedFacts
  <2>20. \A n \in Cuts(context') : \E o \in Cuts(context) : n = Without(o, D)
    BY <2>1, <2>5, CutsDiscarded
  <2> HIDE DEF D, q
  <2>21. \A o \in Cuts(context) : Even(o) BY DEF Timely, ContextTimely, CutsEven
  <2>22. \A n, o \in Cuts(context) : n # o => Account(n).pending \cap Account(o).pending = {}
    BY DEF Timely, ContextTimely, CutsApart
  <2>23. ASSUME NEW o \in Cuts(context)
         PROVE  /\ Even(Without(o, D)) /\ Account(Without(o, D)).pending \subseteq Account(o).pending
                /\ Account(Without(o, D) \o (Without(ps, D) \o ns)).pending = {}
    <3>1. PICK t \in Seq(Prompt) : m = o \o t BY <2>17
    <3>2. o \in Seq(Prompt) BY <2>17
    <3> DEFINE u == t \o ps
    <3>3. u \in Seq(Prompt) /\ m \o ps = o \o u BY <2>4, <3>1, <3>2, ConcatTwice
    <3>4. o # m => Account(o).pending \cap Account(m).pending = {} BY <2>17, <2>22
    <3> HIDE DEF u, m
    <3>5. CallsOnce(o \o u) /\ ResponsesOnce(o \o u) /\ D = Gone(o \o u) BY <2>11, <2>13, <2>14, <3>3
    <3>6. /\ Account(Without(o, D)).pending \subseteq Account(o).pending
          /\ Account(Without(o, D)).half \subseteq Account(o).half
          /\ Account(Without(o, D)).left \subseteq Account(o).left
      <4>1. LET E == Gone(o \o u) IN
            /\ Account(Without(o, E)).pending = {c \in Account(o).pending : Call(c) \notin E}
            /\ Account(Without(o, E)).half \subseteq Account(o).half
            /\ Account(Without(o, E)).left \subseteq Account(o).left
        <5>1. \A p \in Account(o).used : p \notin Gone(o \o u) BY <3>2, <3>3, <3>5, UsedKept
        <5> QED BY <3>2, <3>3, <3>5, <5>1, CutWithout
      <4> QED BY <3>5, <4>1
    <3>7. Even(Without(o, D)) BY <2>21, <3>6 DEF Even
    <3>8. Account(Without(o, D) \o (Without(ps, D) \o ns)).pending = {}
      <4>1. /\ CallsOnce((o \o t) \o ps) /\ D = Gone((o \o t) \o ps)
            /\ o # o \o t => Account(o).pending \cap Account(o \o t).pending = {}
        BY <2>11, <2>13, <3>1, <3>4
      <4>2. ns = <<>> => \A p \in Gone((o \o t) \o ps) : p.kind = "call" BY <2>16, <4>1
      <4>3. Account(Without(o, Gone((o \o t) \o ps)) \o (Without(ps, Gone((o \o t) \o ps)) \o ns)).pending = {}
        BY <2>4, <2>7, <2>15, <3>2, <4>1, <4>2, CutFollowed
      <4> QED BY <4>1, <4>3
    <3> QED BY <3>6, <3>7, <3>8
  <2>24. CutsEven' BY <2>20, <2>23 DEF CutsEven, Even
  <2>25. CutsApart'
    <3> SUFFICES ASSUME NEW n \in Cuts(context'), NEW o \in Cuts(context'), n # o
                 PROVE  Account(n).pending \cap Account(o).pending = {}
      BY DEF CutsApart
    <3>1. PICK k \in Cuts(context) : n = Without(k, D) BY <2>20
    <3>2. PICK l \in Cuts(context) : o = Without(l, D) BY <2>20
    <3>3. Account(k).pending \cap Account(l).pending = {} BY <2>22, <3>1, <3>2
    <3>4. Account(n).pending \subseteq Account(k).pending BY <2>23, <3>1
    <3>5. Account(o).pending \subseteq Account(l).pending BY <2>23, <3>2
    <3> QED BY <3>3, <3>4, <3>5
  <2>26. Followed'
    <3>1. Kept(worker.prompts)' = Without(ps, D) \o ns BY <2>18 DEF Kept
    <3> SUFFICES ASSUME NEW n \in Cuts(context') PROVE Account(n \o (Without(ps, D) \o ns)).pending = {}
      BY <3>1 DEF Followed
    <3>2. PICK o \in Cuts(context) : n = Without(o, D) BY <2>20
    <3> QED BY <2>23, <3>2
  <2>27. ResponsesApart'
    <3>1. Without(m, D) \in Seq(Prompt) /\ ToSet(Without(m, D)) \subseteq ToSet(m) BY <2>8, WithoutFacts
    <3>2. \A p : Once(m, p) => Once(Without(m, D), p) BY <2>8, WithoutOnce
    <3>3. Messages(context)' = Without(m, D) BY <2>19
    <3> HIDE DEF m
    <3>4. \A p \in ToSet(Without(m, D)) :
            p.kind = "response" => Once(Without(m, D), p) /\ pc'[p.run] \in {"answered", "done"}
      BY <1>3, <2>10, <3>1, <3>2
    <3> QED BY <3>3, <3>4 DEF ResponsesApart
  <2>28. Straight(payload)'
    <3>1. Account(m).left = {} BY <2>17, <2>21 DEF Even
    <3>2. Account(m \o ps).left = {} BY <2>4, <2>8, <3>1, AccountAsks
    <3>3. m \o ps \in Seq(Prompt) BY <2>4, <2>8, ConcatSet
    <3>4. Straight(Normalised(m \o ps).sent) BY <2>13, <3>2, <3>3, NormalisedStraight
    <3> QED BY <2>12, <3>4
  <2> QED BY <2>24, <2>25, <2>26, <2>27, <2>28 DEF Timely, ContextTimely
<1> QED BY <1>4, <1>5

LEMMA TimelyAnswer ==
  ASSUME ChatClientAssumption, FitInv, Timely, ~late', Answer PROVE Timely'
<1>0. PairInv /\ SaidInv /\ TypeOK /\ ContextCalls BY DEF FitInv, PairInv, SaidInv
<1>1. ClientOK /\ JobsOK /\ CountsOK BY <1>0, TypeParts
<1>2. PICK answer \in Answers : AnswerDoes(answer) BY AnswerMoves
<1> DEFINE r == worker.run
<1> DEFINE ps == Kept(worker.prompts)
<1> DEFINE m == Messages(context)
<1> DEFINE a == m \o ps
<1> DEFINE e == a \o answer
<1>3. /\ worker # Idle /\ r \in Run /\ ps \in Seq(Prompt) /\ Asks(ps) /\ Fit(ps, r)
      /\ answer \in Seq(Prompt) /\ (\A p \in ToSet(answer) : IsAssistant(p)) /\ NoResults(answer)
      /\ \A c \in CallIds : Call(c) \in ToSet(answer) => c > calls
      /\ context' = Added(Added(context, ps), answer)
      /\ m \in Seq(Prompt) /\ a \in Seq(Prompt) /\ Messages(context') = e
      /\ Onward /\ Waits(worker) /\ pc'[r] = "answered"
  BY <1>2 DEF AnswerDoes
<1>4. worker' = Idle /\ payload' = <<>> BY DEF Answer
<1>5. pc[r] = "asking" BY <1>3 DEF Waits
<1>6. context \in Rounds(Prompt) /\ context \in Seq(Seq(Prompt)) BY <1>1, RoundsAreSeqs DEF ClientOK
<1>7. m \in Cuts(context) /\ \A n \in Cuts(context) : n \in Seq(Prompt) /\ \E t \in Seq(Prompt) : m = n \o t
  BY <1>6, CutsFacts
<1>8. \A c \in CallIds : Call(c) \in ToSet(m) => c <= calls BY <1>0 DEF ContextCalls
<1>9. \A p \in ToSet(m) : p.kind = "response" => Once(m, p) /\ pc[p.run] \in {"answered", "done"}
  BY DEF Timely, ContextTimely, ResponsesApart
<1>10. Account(a).pending = {} BY <1>3, <1>7 DEF Timely, ContextTimely, Followed
<1>11. \A o \in Cuts(context) : Even(o) BY DEF Timely, ContextTimely, CutsEven
<1>12. \A n, o \in Cuts(context) : n # o => Account(n).pending \cap Account(o).pending = {}
  BY DEF Timely, ContextTimely, CutsApart
<1> HIDE DEF ps, m
<1>13. \A p \in ToSet(ps) : p.kind = "response" => p.run = r /\ Once(ps, p) BY <1>3 DEF Fit
<1>14. ToSet(a) = ToSet(m) \cup ToSet(ps) BY <1>3, ConcatSet
<1>15. Cuts(context') \subseteq Cuts(context) \cup {e} BY <1>3, <1>6, CutsGrow DEF m
<1>16. Account(a).half = {} /\ Account(a).left = {}
  <2>1. Account(a).half \subseteq Account(a).pending BY <1>3, AccountFacts
  <2>2. Account(a).left = Account(m).left BY <1>3, AccountAsks
  <2>3. Account(m).left = {} BY <1>7, <1>11 DEF Even
  <2> QED BY <1>10, <2>1, <2>2, <2>3
<1>17. ResponsesOnce(a) BY <1>3, <1>5, <1>9, <1>13, RunsOnce
<1> HIDE DEF a
<1>18. e \in Seq(Prompt) /\ ToSet(e) = ToSet(a) \cup ToSet(answer) BY <1>3, ConcatSet
<1>19. /\ Account(e).half = {} /\ Account(e).left = {}
       /\ \A c \in Account(e).pending : Call(c) \in ToSet(answer)
  BY <1>3, <1>10, <1>16, AccountAnswers
<1>20. \A p \in ToSet(e) : p.kind = "response" => Once(e, p) /\ pc'[p.run] \in {"answered", "done"}
  <2> SUFFICES ASSUME NEW p \in ToSet(e), p.kind = "response"
               PROVE  Once(e, p) /\ pc'[p.run] \in {"answered", "done"}
    OBVIOUS
  <2>1. p \notin ToSet(answer) BY <1>3 DEF NoResults
  <2>2. p \in ToSet(a) BY <1>18, <2>1
  <2>3. Once(a, p) BY <1>17, <2>2 DEF ResponsesOnce
  <2>4. Once(answer, p) BY <1>3, <2>1, OnceAbsent
  <2>5. Once(e, p) BY <1>3, <2>1, <2>3, <2>4, OnceConcat
  <2>6. p.run \in Run BY <1>3, <2>2, Members, PromptKinds
  <2>7. p.run = r \/ pc[p.run] \in {"answered", "done"} BY <1>9, <1>13, <1>14, <2>2
  <2>8. pc'[p.run] \in {"answered", "done"} BY <1>3, <2>6, <2>7 DEF Onward
  <2> QED BY <2>5, <2>8
<1>21. Messages(context)' = e BY <1>3
<1> HIDE DEF e, r
<1>22. CutsEven' BY <1>11, <1>15, <1>19 DEF CutsEven, Even
<1>23. ASSUME NEW n \in Cuts(context) PROVE Account(n).pending \cap Account(e).pending = {}
  <2>1. PICK t \in Seq(Prompt) : m = n \o t BY <1>7
  <2>2. n \in Seq(Prompt) BY <1>7
  <2>3. ToSet(n) \subseteq ToSet(m) BY <2>1, <2>2, ConcatSet
  <2> SUFFICES ASSUME NEW c, c \in Account(n).pending, c \in Account(e).pending PROVE FALSE OBVIOUS
  <2>4. c \in CallIds /\ Call(c) \in ToSet(n) BY <2>2, AccountFacts DEF AccountRecord
  <2>5. c <= calls BY <1>8, <2>3, <2>4
  <2>6. c > calls BY <1>3, <1>19, <2>4
  <2>7. c \in Nat /\ calls \in Nat BY <1>1, <2>4 DEF CountsOK, ChatClientAssumption, CallIds
  <2> QED BY <2>5, <2>6, <2>7
<1>24. CutsApart'
  <2> SUFFICES ASSUME NEW n \in Cuts(context'), NEW o \in Cuts(context'), n # o
               PROVE  Account(n).pending \cap Account(o).pending = {}
    BY DEF CutsApart
  <2> QED BY <1>12, <1>15, <1>23
<1>25. Followed' BY <1>4 DEF Followed
<1>26. ResponsesApart' BY <1>20, <1>21 DEF ResponsesApart
<1> QED BY <1>4, <1>22, <1>24, <1>25, <1>26, EmptyStraight DEF Timely, ContextTimely

LEMMA TimelyInit == ASSUME ChatClientAssumption, Init PROVE Timely
<1>1. context = <<>> /\ Messages(context) = <<>> /\ worker = Idle /\ payload = <<>>
  BY MessagesEmpty DEF Init
<1>2. Cuts(context) = {<<>>} BY <1>1, CutsEmpty
<1>3. CutsEven BY <1>2, AccountEmpty DEF CutsEven, Even, Nought
<1>4. CutsApart BY <1>2 DEF CutsApart
<1>5. Followed BY <1>1 DEF Followed
<1>6. ResponsesApart BY <1>1, EmptyFacts DEF ResponsesApart
<1> QED BY <1>1, <1>3, <1>4, <1>5, <1>6, EmptyStraight DEF Timely, ContextTimely

LEMMA TimelyStep ==
  ASSUME ChatClientAssumption, FitInv, Timely, ~late', [Next]_vars PROVE Timely'
<1>0. PairInv BY DEF FitInv
<1>1. CASE UNCHANGED vars
  <2>1. UNCHANGED <<context, worker, payload, pc>> BY <1>1 DEF vars, client
  <2>2. Kept(worker.prompts)' = Kept(worker.prompts) BY <2>1 DEF Kept
  <2>3. ContextTimely' BY <1>0, <2>1, <2>2, ContextShrinks DEF Timely
  <2> QED BY <2>1, <2>3 DEF Timely
<1>2. ASSUME NEW r \in Run,
             Begin(r) \/ Ask(r) \/ Overflow(r) \/ Compressed(r) \/ CompressionFails(r) \/ Unanswered(r)
                \/ Timeout(r) \/ Cancelled(r) \/ Answered(r)
      PROVE  Timely'
  BY <1>0, <1>2, TimelyRun
<1>3. CASE Interrupt \/ Start \/ Nothing \/ Answer
  BY <1>0, <1>3, TimelyInterrupt, TimelyStart, TimelyAnswer
<1> QED BY <1>1, <1>2, <1>3 DEF Next

------------------------------------------------------------------------------
\* As long as runs follow one another and no round is taken back

\* None of the results in s is in the context.
Unused(s) == \A p \in ToSet(s) : p.kind = "response" => p \notin ToSet(Messages(context))

\* The results in s are the last in the context: they came with a late answer.
Latest(s) ==
  \E n, x, t \in Seq(Prompt) :
    /\ Messages(context) = (n \o x) \o t /\ Even(n) /\ NoResults(t)
    /\ \A p \in ToSet(x) : p.kind = "response" /\ p \in ToSet(s)
    /\ \A p \in ToSet(s) : p.kind = "response" => p \notin ToSet(n)

ContextWhole ==
  /\ Even(Messages(context))
  /\ worker # Idle => /\ Account(Messages(context) \o Kept(worker.prompts)).pending = {}
                      /\ Unused(worker.prompts)
  /\ \A p \in ToSet(Messages(context)) :
       p.kind = "response" => Once(Messages(context), p) /\ pc[p.run] # "new"

RunsWhole ==
  \A r \in Run : Outstanding(r) =>
    Unused(job[r].prompts) \/ (worker = Idle /\ Latest(job[r].prompts))

Whole == Alone /\ ContextWhole /\ RunsWhole /\ Straight(payload)

\* A step that leaves the context as it is, or nothing of it
LEMMA WholeStays ==
  ASSUME ChatClientAssumption, PairInv, Whole, Onward,
         context' = context \/ context' = <<>>, payload' = payload \/ payload' = <<>>,
         worker' # Idle => /\ worker # Idle /\ worker'.prompts = worker.prompts
                           /\ Kept(worker.prompts)' = Kept(worker.prompts),
         \A q \in Run : Outstanding(q)' =>
            job'[q].prompts = job[q].prompts \/ NoResults(job'[q].prompts)
  PROVE  Whole'
<1>0. SaidInv /\ TypeOK /\ Askers BY DEF PairInv, SaidInv
<1>1. ClientOK BY <1>0, TypeParts
<1> DEFINE m == Messages(context)
<1>2. m \in Seq(Prompt) BY <1>1, RoundsAreSeqs, MessagesFacts DEF ClientOK
<1>3. Alone' BY DEF Onward, Whole, Alone
<1>4. Straight(payload)' BY EmptyStraight DEF Whole
<1>5. worker # Idle => Asks(Kept(worker.prompts)) /\ Kept(worker.prompts) \in Seq(Prompt)
  <2> SUFFICES ASSUME worker # Idle PROVE Asks(Kept(worker.prompts)) /\ Kept(worker.prompts) \in Seq(Prompt)
    OBVIOUS
  <2>1. worker \in UnderWay /\ RequestSays BY <1>0, <1>1 DEF ClientOK, SaidInv
  <2>2. /\ Kept(worker.prompts) \in Seq(Prompt)
        /\ ToSet(Kept(worker.prompts)) =
             (ToSet(worker.prompts) \ worker.discards) \cup ToSet(worker.notices)
    BY <2>1, KeptFacts
  <2>3. Asks(worker.prompts) BY <1>0 DEF Askers
  <2>4. \A p \in ToSet(worker.notices) : ~IsAssistant(p) BY <2>1 DEF RequestSays, IsAssistant
  <2> QED BY <2>2, <2>3, <2>4 DEF Asks
<1>6. CASE context' = context
  <2>1. m' = m BY <1>6
  <2>2. \A p \in ToSet(m) : p.kind = "response" => p.run \in Run BY <1>2, Members, PromptKinds
  <2>3. ContextWhole' BY <1>6, <2>1, <2>2 DEF Whole, ContextWhole, Unused, Onward
  <2>4. RunsWhole'
    <3> SUFFICES ASSUME NEW q \in Run, Outstanding(q)'
                 PROVE  Unused(job[q].prompts)' \/ (worker' = Idle /\ Latest(job[q].prompts)')
      BY DEF RunsWhole
    <3>1. CASE NoResults(job'[q].prompts) BY <3>1 DEF NoResults, Unused
    <3>2. CASE job'[q].prompts = job[q].prompts
      <4>1. Outstanding(q) BY DEF Onward
      <4>2. Unused(job[q].prompts) \/ (worker = Idle /\ Latest(job[q].prompts)) BY <4>1 DEF Whole, RunsWhole
      <4>3. Unused(job[q].prompts) => Unused(job[q].prompts)' BY <1>6, <3>2 DEF Unused
      <4>4. Latest(job[q].prompts) => Latest(job[q].prompts)' BY <1>6, <3>2 DEF Latest
      <4> QED BY <4>2, <4>3, <4>4
    <3> QED BY <3>1, <3>2
  <2> QED BY <1>3, <1>4, <2>3, <2>4 DEF Whole
<1>7. CASE context' = <<>>
  <2>1. m' = <<>> /\ ToSet(m') = {} /\ <<>> \in Seq(Prompt) BY <1>7, MessagesEmpty, EmptyFacts
  <2>2. Even(m)'
    <3>1. Even(<<>>) BY AccountEmpty DEF Even, Nought
    <3> QED BY <2>1, <3>1 DEF Even
  <2>3. worker # Idle => Account(<<>> \o Kept(worker.prompts)).pending = {}
    <3> SUFFICES ASSUME worker # Idle PROVE Account(<<>> \o Kept(worker.prompts)).pending = {} OBVIOUS
    <3>1. Account(<<>> \o Kept(worker.prompts)).pending \subseteq Account(<<>>).pending
      BY <1>5, <2>1, AccountAsks
    <3>2. Account(<<>>).pending = {} BY AccountEmpty DEF Nought
    <3> QED BY <3>1, <3>2
  <2>4. ContextWhole' BY <2>1, <2>2, <2>3 DEF ContextWhole, Unused
  <2>5. RunsWhole' BY <2>1 DEF RunsWhole, Unused
  <2> QED BY <1>3, <1>4, <2>4, <2>5 DEF Whole
<1> QED BY <1>6, <1>7

LEMMA WholeRun ==
  ASSUME ChatClientAssumption, FitInv, Whole, ~unusual', NEW r \in Run,
         \/ Begin(r) \/ Ask(r) \/ Overflow(r) \/ Compressed(r) \/ CompressionFails(r) \/ Unanswered(r)
         \/ Timeout(r) \/ Cancelled(r) \/ Answered(r)
  PROVE  Whole'
<1>0. PairInv /\ SaidInv /\ TypeOK BY DEF FitInv, PairInv, SaidInv
<1>1. ClientOK BY <1>0, TypeParts
<1>2. CASE Begin(r)
  <2> DEFINE m == Messages(context)
  <2>1. /\ worker' = worker /\ payload' = payload /\ pc[r] = "new" /\ pc'[r] # "new"
        /\ context' = context /\ \A q \in Run : ~Inside(q)
        /\ \A q \in Run \ {r} : pc'[q] = pc[q] /\ job'[q] = job[q]
        /\ Outstanding(r)' => Fit(job'[r].prompts, r)
    BY <1>0, <1>2, BeginMoves
  <2>2. m \in Seq(Prompt) BY <1>1, RoundsAreSeqs, MessagesFacts DEF ClientOK
  <2>3. m' = m BY <2>1
  <2>4. \A p \in ToSet(m) : p.kind = "response" => p.run \in Run BY <2>2, Members, PromptKinds
  <2>5. Alone' BY <2>1 DEF Alone, Inside
  <2>6. Kept(worker.prompts)' = Kept(worker.prompts) BY <2>1 DEF Kept
  <2>7. ContextWhole' BY <2>1, <2>3, <2>4, <2>6 DEF Whole, ContextWhole, Unused
  <2>8. RunsWhole'
    <3> SUFFICES ASSUME NEW q \in Run, Outstanding(q)' PROVE Unused(job[q].prompts)' BY DEF RunsWhole
    <3>1. q = r BY <2>1 DEF Outstanding, Inside
    <3>2. \A p \in ToSet(m) : p.kind = "response" => pc[p.run] # "new" BY DEF Whole, ContextWhole
    <3>3. \A p \in ToSet(job'[r].prompts) : p.kind = "response" => p.run = r BY <2>1, <3>1 DEF Fit
    <3> QED BY <2>1, <2>3, <3>1, <3>2, <3>3 DEF Unused
  <2> QED BY <2>1, <2>5, <2>7, <2>8 DEF Whole
<1>3. CASE Overflow(r)
  <2>1. /\ payload' = payload /\ context' = context /\ Onward
        /\ \A q \in Run \ {r} : job'[q] = job[q]
        /\ NoResults(job'[r].prompts)
        /\ worker' # Idle => /\ worker # Idle /\ worker'.prompts = worker.prompts
                             /\ Kept(worker.prompts)' = Kept(worker.prompts)
    BY <1>0, <1>3, OverflowMoves
  <2>2. \A q \in Run : job'[q].prompts = job[q].prompts \/ NoResults(job'[q].prompts) BY <2>1
  <2> QED BY <1>0, <2>1, <2>2, WholeStays
<1>4. CASE \/ Ask(r) \/ Compressed(r) \/ CompressionFails(r) \/ Unanswered(r)
          \/ Timeout(r) \/ Cancelled(r) \/ Answered(r)
  <2>1. /\ worker' = worker /\ payload' = payload /\ (context' = context \/ context' = <<>>)
        /\ Onward /\ \A q \in Run : Outstanding(q)' => job'[q].prompts = job[q].prompts
    BY <1>0, <1>4, RunMoves
  <2>2. Kept(worker.prompts)' = Kept(worker.prompts) BY <2>1 DEF Kept
  <2> QED BY <1>0, <2>1, <2>2, WholeStays
<1> QED BY <1>2, <1>3, <1>4

LEMMA WholeInterrupt ==
  ASSUME ChatClientAssumption, FitInv, Whole, Interrupt \/ Nothing PROVE Whole'
<1>0. PairInv BY DEF FitInv
<1>1. /\ context' = context /\ job' = job /\ (payload' = payload \/ payload' = <<>>)
      /\ (worker' = worker \/ worker' = Idle) /\ Onward
  BY <1>0, InterruptMoves
<1>2. worker' # Idle => /\ worker # Idle /\ worker'.prompts = worker.prompts
                        /\ Kept(worker.prompts)' = Kept(worker.prompts)
  BY <1>1 DEF Kept
<1> QED BY <1>0, <1>1, <1>2, WholeStays

\* A response that was used and is given again is dropped.
LEMMA GivenAgain ==
  ASSUME NEW m \in Seq(Prompt), NEW p \in Account(m).used
  PROVE  \A s \in Seq(Prompt) : CallsOnce(m \o s) /\ p \in ToSet(s) => p \in Account(m \o s).dropped
<1> DEFINE T == {s \in Seq(Prompt) : CallsOnce(m \o s) /\ p \in ToSet(s) => p \in Account(m \o s).dropped}
<1>1. <<>> \in T BY EmptyFacts
<1>2. ASSUME NEW s \in Seq(Prompt), NEW q \in Prompt, s \in T PROVE Append(s, q) \in T
  <2> DEFINE n == m \o s
  <2> DEFINE t == Account(n)
  <2> DEFINE u == Counted(t, q)
  <2>1. /\ Append(s, q) \in Seq(Prompt) /\ ToSet(Append(s, q)) = ToSet(s) \cup {q} /\ n \in Seq(Prompt)
        /\ Append(n, q) \in Seq(Prompt)
    BY AppendFacts, ConcatSet
  <2>2. m \o Append(s, q) = Append(n, q) BY ConcatAppend
  <2>3. CallsOnce(n) /\ p \in ToSet(s) => p \in t.dropped BY <1>2
  <2>4. p \in t.used BY AccountLonger
  <2> HIDE DEF n
  <2>5. Account(m \o Append(s, q)) = u /\ t \in AccountRecord BY <2>1, <2>2, AccountAppend, AccountFacts
  <2>6. CallsOnce(Append(n, q)) => CallsOnce(n) BY <2>1, OnceAppend DEF CallsOnce
  <2>7. t.dropped \subseteq u.dropped
    <3> HIDE DEF t
    <3> QED BY <2>5, CountedSpoken, CountedUsed, CountedCut, CountedKinds
  <2>8. ASSUME CallsOnce(n), q = p PROVE p \in u.dropped
    <3>1. Call(p.call) \notin Gone(n) BY <2>1, <2>4, <2>8, UsedStays
    <3>2. p.call \notin t.pending BY <3>1 DEF Gone
    <3>3. p.kind = "response" BY <2>1, <2>4, AccountFacts
    <3> HIDE DEF t
    <3>4. Cuts_off(t, q) /\ q \in Drops(t, q) BY <2>8, <3>2, <3>3 DEF Cuts_off, Drops
    <3> QED BY <2>5, <2>8, <3>4, CountedCut
  <2> HIDE DEF t, u
  <2> QED BY <2>1, <2>2, <2>3, <2>5, <2>6, <2>7, <2>8
<1> HIDE DEF T
<1>3. Grows(Prompt, T) BY <1>1, <1>2 DEF Grows
<1>4. \A s \in Seq(Prompt) : s \in T BY <1>3, SeqInduction
<1> QED BY <1>4 DEF T

\* What a request discards leaves the context even.
LEMMA WholeCut ==
  ASSUME ChatClientAssumption, NEW n \in Seq(Prompt), NEW t \in Seq(Prompt), NEW ps \in Seq(Prompt),
         Even(n), CallsOnce((n \o t) \o ps),
         \A p \in ToSet(n) : p.kind = "response" => Once(n \o t, p) /\ p \notin ToSet(ps)
  PROVE  Even(Without(n, Gone((n \o t) \o ps)))
<1> DEFINE u == t \o ps
<1>1. u \in Seq(Prompt) /\ (n \o t) \o ps = n \o u BY ConcatTwice
<1>2. n \o t \in Seq(Prompt) BY ConcatSet
<1>3. \A p \in ToSet(n) : p.kind = "response" => Once((n \o t) \o ps, p)
  <2> SUFFICES ASSUME NEW p \in ToSet(n), p.kind = "response" PROVE Once((n \o t) \o ps, p) OBVIOUS
  <2>1. Once(ps, p) BY OnceAbsent
  <2> DEFINE m == n \o t
  <2>2. m \in Seq(Prompt) /\ Once(m, p) /\ p \notin ToSet(ps) BY <1>2
  <2> HIDE DEF m
  <2>3. Once(m \o ps, p) BY <2>1, <2>2, OnceConcat
  <2> QED BY <2>3 DEF m
<1>4. CallsOnce(n \o u) BY <1>1
<1>5. \A p \in ToSet(n) : p.kind = "response" => Once(n \o u, p) BY <1>1, <1>3
<1> HIDE DEF u
<1>6. n \o u \in Seq(Prompt) /\ Account(n).used \subseteq Account(n \o u).used
  BY <1>1, ConcatSet, AccountLonger
<1>7. \A p \in Account(n).used : p \notin Gone(n \o u)
  BY <1>4, <1>5, <1>6, AccountFacts, UsedStays
<1>8. /\ Account(Without(n, Gone(n \o u))).half \subseteq Account(n).half
      /\ Account(Without(n, Gone(n \o u))).left \subseteq Account(n).left
  BY <1>1, <1>4, <1>7, CutWithout
<1>9. Even(Without(n, Gone(n \o u))) BY <1>8 DEF Even
<1> QED BY <1>1, <1>9

\* A response that a request gives again is discarded, and what is left is even.
LEMMA GivenTwice ==
  ASSUME NEW m \in Seq(Prompt), NEW ps \in Seq(Prompt), CallsOnce(m \o ps)
  PROVE  \A p \in ToSet(m) : p.kind = "response" /\ p \in ToSet(ps) => p \in Gone(m \o ps)
<1> SUFFICES ASSUME NEW p \in ToSet(m), p.kind = "response", p \in ToSet(ps) PROVE p \in Gone(m \o ps)
  OBVIOUS
<1>1. CASE p \in Account(m).used
  <2>1. p \in Account(m \o ps).dropped BY <1>1, GivenAgain
  <2> QED BY <2>1 DEF Gone
<1>2. CASE p \in Account(m).dropped
  <2>1. p \in Account(m \o ps).dropped BY <1>2, AccountLonger
  <2> QED BY <2>1 DEF Gone
<1> QED BY <1>1, <1>2, AccountAll

LEMMA LatestCut ==
  ASSUME ChatClientAssumption, NEW m \in Seq(Prompt), NEW ps \in Seq(Prompt), CallsOnce(m \o ps),
         \A p \in ToSet(m) : p.kind = "response" => Once(m, p),
         NEW n \in Seq(Prompt), NEW x \in Seq(Prompt), NEW t \in Seq(Prompt),
         m = (n \o x) \o t, Even(n), NoResults(t),
         \A p \in ToSet(x) : p.kind = "response" /\ p \in ToSet(ps),
         \A p \in ToSet(ps) : p.kind = "response" => p \notin ToSet(n)
  PROVE  Even(Without(m, Gone(m \o ps)))
<1> DEFINE D == Gone(m \o ps)
<1> DEFINE u == x \o t
<1>1. u \in Seq(Prompt) /\ m = n \o u /\ n \o x \in Seq(Prompt) BY ConcatTwice, ConcatSet
<1>2. ToSet(n) \subseteq ToSet(m) /\ ToSet(x) \subseteq ToSet(m)
  <2>1. ToSet(n \o x) = ToSet(n) \cup ToSet(x) BY ConcatSet
  <2> DEFINE v == n \o x
  <2>2. v \in Seq(Prompt) BY <1>1
  <2> HIDE DEF v
  <2>3. ToSet(v \o t) = ToSet(v) \cup ToSet(t) BY <2>2, ConcatSet
  <2> QED BY <2>1, <2>3 DEF v
<1>3. Even(Without(n, D))
  <2> HIDE DEF u, D
  <2>1. CallsOnce((n \o u) \o ps) /\ D = Gone((n \o u) \o ps) BY <1>1 DEF D
  <2>2. \A p \in ToSet(n) : p.kind = "response" => Once(n \o u, p) /\ p \notin ToSet(ps)
    BY <1>1, <1>2
  <2>3. Even(Without(n, Gone((n \o u) \o ps))) BY <1>1, <2>1, <2>2, WholeCut
  <2> QED BY <2>1, <2>3
<1>4. \A p \in ToSet(x) : p \in D BY <1>2, GivenTwice
<1> HIDE DEF D
<1>5. Without(x, D) = <<>>
  <2>1. Without(x, D) \in Seq(Prompt) /\ ToSet(Without(x, D)) = {} BY <1>4, WithoutFacts
  <2> DEFINE w == Without(x, D)
  <2> HIDE DEF w
  <2>2. w \in Seq(Prompt) /\ ToSet(w) = {} BY <2>1 DEF w
  <2>3. w # <<>> => Head(w) \in ToSet(w) BY <2>2, FirstOf
  <2>4. w = <<>> BY <2>2, <2>3
  <2> QED BY <2>4 DEF w
<1> DEFINE a == Without(n, D)
<1> DEFINE b == Without(t, D)
<1>6. a \in Seq(Prompt) /\ b \in Seq(Prompt) /\ ToSet(b) \subseteq ToSet(t) BY WithoutFacts
<1>7. Without(m, D) = a \o b
  <2>1. Without((n \o x) \o t, D) = Without(n \o x, D) \o b BY <1>1, WithoutJoin
  <2>2. Without(n \o x, D) = a \o Without(x, D) BY WithoutJoin
  <2> HIDE DEF a, b
  <2>3. a \o <<>> = a BY <1>6, ConcatTwice
  <2> QED BY <1>5, <2>1, <2>2, <2>3
<1> HIDE DEF a, b
<1>8. Even(a) BY <1>3 DEF a
<1>9. NoResults(b) BY <1>6 DEF NoResults
<1>10. Even(a \o b)
  <2>1. Account(a).half = {} /\ Account(a).left = {} BY <1>8 DEF Even
  <2>2. Account(a \o b).half = {} /\ Account(a \o b).left = {} BY <1>6, <1>9, <2>1, AccountAnswers
  <2> QED BY <2>2 DEF Even
<1> QED BY <1>7, <1>10 DEF D

LEMMA WholeStart ==
  ASSUME ChatClientAssumption, FitInv, Whole, Start PROVE Whole'
<1>0. PairInv /\ SaidInv /\ TypeOK /\ ContextCalls /\ Askers BY DEF FitInv, PairInv, SaidInv
<1>1. ClientOK /\ JobsOK BY <1>0, TypeParts
<1> DEFINE q == Head(queue)
<1>2. q \in Requests BY <1>1, HeadTailProperties DEF Start, ClientOK
<1>3. pc' = pc /\ job' = job BY DEF Start
<1>4. CASE ~Waits(q)
  <2>1. UNCHANGED <<context, worker, payload>> BY <1>4 DEF Start
  <2>2. Kept(worker.prompts)' = Kept(worker.prompts) BY <2>1 DEF Kept
  <2>3. Onward BY <1>3 DEF Onward, Outstanding, Inside
  <2> QED BY <1>0, <1>3, <2>1, <2>2, <2>3, WholeStays
<1>5. CASE Waits(q)
  <2> DEFINE r == q.run
  <2> DEFINE ps == job[r].prompts
  <2> DEFINE all == Messages(Added(context, ps))
  <2> DEFINE normal == Normalised(all)
  <2> DEFINE ns == normal.notices
  <2> DEFINE D == normal.orphans \cup normal.closed
  <2> DEFINE m == Messages(context)
  <2>1. /\ context' = Discarded(context, D) /\ payload' = normal.sent
        /\ worker' = [run |-> r, ask |-> q.ask, prompts |-> ps, shared |-> TRUE,
                      discards |-> D, notices |-> ns]
    BY <1>5 DEF Start
  <2>2. r \in Run BY <1>2 DEF Requests
  <2>3. job[r] \in Jobs BY <1>1, <2>2 DEF JobsOK
  <2>4. ps \in Seq(Prompt) /\ Asks(ps) BY <1>0, <2>2, <2>3 DEF Jobs, Askers
  <2>5. context \in Rounds(Prompt) /\ context \in Seq(Seq(Prompt)) BY <1>1, RoundsAreSeqs DEF ClientOK
  <2>6. pc[r] = "asking" BY <1>5 DEF Waits
  <2>7. Fit(ps, r) BY <2>2, <2>6 DEF FitInv, AskersFit, Outstanding
  <2>29. Unused(ps) \/ (worker = Idle /\ Latest(ps)) BY <2>2, <2>6 DEF Whole, RunsWhole, Outstanding
  <2>30. \A s \in Run : Outstanding(s)' => s = r BY <1>3, <2>2, <2>6 DEF Whole, Alone, Outstanding, Inside
  <2>31. job'[r].prompts = ps BY <1>3
  <2> HIDE DEF r, ps
  <2>8. /\ m \in Seq(Prompt) /\ all = m \o ps /\ all \in Seq(Prompt) /\ SeenOK(normal)
    BY <2>4, <2>5, NormalisedFacts
  <2>9. CallsOnce(m) BY <1>0 DEF ContextCalls
  <2>10. \A p \in ToSet(m) : p.kind = "response" => Once(m, p) /\ pc[p.run] # "new"
    BY DEF Whole, ContextWhole
  <2>11. D = Gone(m \o ps)
    <3> HIDE DEF all
    <3>1. D = Gone(all) BY <2>8, GoneIs
    <3> QED BY <2>8, <3>1
  <2>12. payload' = Normalised(m \o ps).sent
    <3> HIDE DEF all
    <3>1. payload' = Normalised(all).sent BY <2>1
    <3> QED BY <2>8, <3>1
  <2>13. CallsOnce(m \o ps) BY <2>4, <2>8, <2>9, AsksAppend
  <2>14. Even(m) BY DEF Whole, ContextWhole
  <2>15. ns \in Seq(Prompt) /\ \A p \in ToSet(ns) : p.kind = "notice" BY <2>8 DEF SeenOK, SeenRecord
  <2>16. ns = <<>> => \A p \in D : p.kind = "call"
    <3>1. Discardable(D, ns) BY <2>8 DEF SeenOK, Discardable
    <3> HIDE DEF D, ns
    <3> QED BY <3>1, EmptyFacts DEF Discardable
  <2> HIDE DEF all, normal, ns
  <2>18. /\ worker'.run = r /\ worker'.prompts = ps /\ worker'.discards = D /\ worker'.notices = ns
    BY <2>1
  <2>19. Messages(context') = Without(m, D) BY <2>1, <2>5, DiscardedFacts
  <2>20. Latest(ps) => Even(Without(m, Gone(m \o ps)))
    <3> SUFFICES ASSUME Latest(ps) PROVE Even(Without(m, Gone(m \o ps))) OBVIOUS
    <3>1. PICK n, x, t \in Seq(Prompt) :
            /\ m = (n \o x) \o t /\ Even(n) /\ NoResults(t)
            /\ \A p \in ToSet(x) : p.kind = "response" /\ p \in ToSet(ps)
            /\ \A p \in ToSet(ps) : p.kind = "response" => p \notin ToSet(n)
      BY DEF Latest
    <3> HIDE DEF m
    <3> QED BY <2>4, <2>8, <2>10, <2>13, <3>1, LatestCut
  <2> HIDE DEF D, q, m
  <2>21. \A p \in ToSet(m) : p.kind = "response" /\ p \in ToSet(ps) => p \in D
    BY <2>4, <2>8, <2>11, <2>13, GivenTwice
  <2>22. Unused(ps) => Even(Without(m, Gone(m \o ps)))
    <3> SUFFICES ASSUME Unused(ps) PROVE Even(Without(m, Gone(m \o ps))) OBVIOUS
    <3>1. m \o <<>> = m /\ <<>> \in Seq(Prompt) BY <2>8, ConcatTwice
    <3>2. \A p \in ToSet(m) : p.kind = "response" => Once(m \o <<>>, p) /\ p \notin ToSet(ps)
      BY <2>10, <3>1 DEF Unused, m
    <3>3. CallsOnce((m \o <<>>) \o ps) BY <2>13, <3>1
    <3>4. Even(Without(m, Gone((m \o <<>>) \o ps))) BY <2>4, <2>8, <2>14, <3>1, <3>2, <3>3, WholeCut
    <3> QED BY <3>1, <3>4
  <2>23. Even(Without(m, D)) BY <2>11, <2>20, <2>22, <2>29
  <2>24. Account(Without(m, D) \o (Without(ps, D) \o ns)).pending = {}
    <3>1. m \o <<>> = m /\ <<>> \in Seq(Prompt) BY <2>8, ConcatTwice
    <3>2. CallsOnce((m \o <<>>) \o ps) /\ D = Gone((m \o <<>>) \o ps) BY <2>11, <2>13, <3>1
    <3>3. ns = <<>> => \A p \in Gone((m \o <<>>) \o ps) : p.kind = "call" BY <2>16, <3>2
    <3>4. m # m \o <<>> => Account(m).pending \cap Account(m \o <<>>).pending = {} BY <3>1
    <3>5. Account(Without(m, Gone((m \o <<>>) \o ps)) \o (Without(ps, Gone((m \o <<>>) \o ps)) \o ns)).pending = {}
      BY <2>4, <2>7, <2>8, <2>15, <3>1, <3>2, <3>3, <3>4, CutFollowed
    <3> QED BY <3>2, <3>5
  <2>25. Messages(context)' = Without(m, D) BY <2>19
  <2>26. Kept(worker.prompts)' = Without(ps, D) \o ns BY <2>18 DEF Kept
  <2>27. Without(m, D) \in Seq(Prompt) /\ ToSet(Without(m, D)) = ToSet(m) \ D BY <2>8, WithoutFacts
  <2>28. \A p : Once(m, p) => Once(Without(m, D), p) BY <2>8, WithoutOnce
  <2>32. ContextWhole'
    <3>1. Even(Messages(context))' BY <2>23, <2>25 DEF Even
    <3>2. Account(Messages(context) \o Kept(worker.prompts))'.pending = {} BY <2>24, <2>25, <2>26
    <3>3. Unused(worker.prompts)' BY <2>18, <2>21, <2>25, <2>27 DEF Unused
    <3>4. \A p \in ToSet(Messages(context))' :
            p.kind = "response" => Once(Messages(context)', p) /\ pc'[p.run] # "new"
      BY <1>3, <2>10, <2>25, <2>27, <2>28
    <3> QED BY <3>1, <3>2, <3>3, <3>4 DEF ContextWhole
  <2>33. RunsWhole'
    <3> SUFFICES ASSUME NEW s \in Run, Outstanding(s)' PROVE Unused(job[s].prompts)' BY DEF RunsWhole
    <3>1. job'[s].prompts = ps BY <2>30, <2>31
    <3> QED BY <2>21, <2>25, <2>27, <3>1 DEF Unused
  <2>34. Straight(payload)'
    <3>1. Account(m).left = {} BY <2>14 DEF Even, m
    <3>2. Account(m \o ps).left = {} BY <2>4, <2>8, <3>1, AccountAsks
    <3>3. m \o ps \in Seq(Prompt) BY <2>4, <2>8, ConcatSet
    <3>4. Straight(Normalised(m \o ps).sent) BY <2>13, <3>2, <3>3, NormalisedStraight
    <3> QED BY <2>12, <3>4
  <2>35. Alone' BY <1>3 DEF Whole, Alone, Inside
  <2> QED BY <2>32, <2>33, <2>34, <2>35 DEF Whole
<1> QED BY <1>4, <1>5

LEMMA WholeAnswer ==
  ASSUME ChatClientAssumption, FitInv, Whole, Answer PROVE Whole'
<1>0. PairInv /\ SaidInv /\ TypeOK BY DEF FitInv, PairInv, SaidInv
<1>1. ClientOK /\ JobsOK BY <1>0, TypeParts
<1>2. PICK answer \in Answers : AnswerDoes(answer) BY AnswerMoves
<1> DEFINE r == worker.run
<1> DEFINE ps == Kept(worker.prompts)
<1> DEFINE m == Messages(context)
<1> DEFINE a == m \o ps
<1> DEFINE e == a \o answer
<1>3. /\ worker # Idle /\ worker \in UnderWay /\ RequestSays /\ RequestShares
      /\ r \in Run /\ ps \in Seq(Prompt) /\ Asks(ps) /\ Fit(ps, r)
      /\ answer \in Seq(Prompt) /\ (\A p \in ToSet(answer) : IsAssistant(p)) /\ NoResults(answer)
      /\ m \in Seq(Prompt) /\ a \in Seq(Prompt) /\ Messages(context') = e
      /\ \A q \in Run \ {r} : job'[q] = job[q]
      /\ job'[r].prompts = IF worker.shared /\ Inside(r) THEN ps ELSE job[r].prompts
      /\ Onward
  BY <1>2 DEF AnswerDoes
<1>4. worker' = Idle /\ payload' = <<>> BY DEF Answer
<1>5. pc[r] # "new" BY <1>0, <1>1, <1>3 DEF ClientOK, UnderWay, SaidInv, RequestShares
<1>6. /\ Even(m) /\ Account(a).pending = {} /\ Unused(worker.prompts)
      /\ \A p \in ToSet(m) : p.kind = "response" => Once(m, p) /\ pc[p.run] # "new"
  BY <1>3 DEF Whole, ContextWhole
<1>7. \A p \in ToSet(ps) : p.kind = "response" => p.run = r /\ Once(ps, p) /\ p \notin ToSet(m)
  <2>1. ToSet(ps) = (ToSet(worker.prompts) \ worker.discards) \cup ToSet(worker.notices)
    BY <1>3, KeptFacts
  <2>2. \A p \in ToSet(worker.notices) : p.kind = "notice" BY <1>3 DEF RequestSays
  <2>3. \A p \in ToSet(worker.prompts) : p.kind = "response" => p \notin ToSet(m) BY <1>6 DEF Unused
  <2> HIDE DEF ps
  <2> QED BY <1>3, <2>1, <2>2, <2>3 DEF Fit
<1>8. ASSUME NEW q \in Run, Outstanding(q)', q # r
      PROVE  Unused(job[q].prompts) /\ Fit(job[q].prompts, q)
  BY <1>3, <1>8 DEF Whole, RunsWhole, FitInv, AskersFit, Onward
<1>9. (r \in {q \in Run : Outstanding(q)'}) /\ ~(worker.shared /\ Inside(r)) => NoResults(job[r].prompts)
  <2>1. r \in {q \in Run : Outstanding(q)'} => Outstanding(r) BY <1>3 DEF Onward
  <2> QED BY <1>3, <2>1 DEF FitInv, RequestFit, Outstanding, Inside
<1>10. \A p \in ToSet(m) : p.kind = "response" => p.run \in Run BY <1>3, Members, PromptKinds
<1> HIDE DEF ps, m
<1>11. ToSet(a) = ToSet(m) \cup ToSet(ps) BY <1>3, ConcatSet
<1>12. Account(a).half = {} /\ Account(a).left = {}
  <2>1. Account(a).half \subseteq Account(a).pending BY <1>3, AccountFacts
  <2>2. Account(a).left = Account(m).left BY <1>3, AccountAsks
  <2> QED BY <1>6, <2>1, <2>2 DEF Even
<1>13. \A p \in ToSet(a) : p.kind = "response" => Once(a, p) /\ p.run \in Run /\ pc[p.run] # "new"
  <2> SUFFICES ASSUME NEW p \in ToSet(a), p.kind = "response"
               PROVE  Once(a, p) /\ p.run \in Run /\ pc[p.run] # "new"
    OBVIOUS
  <2>1. Once(m, p) /\ Once(ps, p) BY <1>3, <1>6, <1>7, OnceAbsent
  <2>2. Once(a, p) BY <1>3, <1>7, <2>1, OnceConcat
  <2>3. p.run \in Run /\ pc[p.run] # "new" BY <1>3, <1>5, <1>6, <1>7, <1>10, <1>11
  <2> QED BY <2>2, <2>3
<1>14. ResultsFirst(ps) BY <1>3 DEF Fit
<1>15. PICK x, w \in Seq(Prompt) :
         ps = x \o w /\ (\A p \in ToSet(x) : p.kind = "response") /\ NoResults(w)
  BY <1>14 DEF ResultsFirst
<1> DEFINE t == w \o answer
<1>16. /\ t \in Seq(Prompt) /\ NoResults(t) /\ e = (m \o x) \o t
       /\ \A p \in ToSet(x) : p.kind = "response" /\ p \in ToSet(ps)
  <2>1. t \in Seq(Prompt) /\ ToSet(t) = ToSet(w) \cup ToSet(answer) BY <1>3, ConcatSet
  <2>2. ToSet(ps) = ToSet(x) \cup ToSet(w) BY <1>15, ConcatSet
  <2>3. NoResults(t) BY <1>3, <1>15, <2>1 DEF NoResults
  <2>4. (m \o x) \o w = m \o (x \o w) /\ m \o x \in Seq(Prompt) BY <1>3, ConcatTwice, ConcatSet
  <2> DEFINE v == m \o x
  <2>5. a = v \o w /\ v \in Seq(Prompt) BY <1>15, <2>4
  <2> HIDE DEF v, a
  <2>6. (v \o w) \o answer = v \o (w \o answer)
    <3>1. answer \in Seq(Prompt) /\ w \in Seq(Prompt) /\ v \in Seq(Prompt) BY <1>3, <1>15, <2>5
    <3> QED BY <3>1, ConcatTwice
  <2> QED BY <1>15, <2>1, <2>2, <2>3, <2>5, <2>6 DEF v
<1> HIDE DEF a, t
<1>17. e \in Seq(Prompt) /\ ToSet(e) = ToSet(a) \cup ToSet(answer) BY <1>3, ConcatSet
<1>18. Even(e) BY <1>3, <1>12, AccountAnswers DEF Even
<1>19. \A p \in ToSet(answer) : p.kind # "response" BY <1>3 DEF NoResults
<1>20. \A p \in ToSet(e) : p.kind = "response" => Once(e, p) /\ pc'[p.run] # "new"
  <2> SUFFICES ASSUME NEW p \in ToSet(e), p.kind = "response" PROVE Once(e, p) /\ pc'[p.run] # "new"
    OBVIOUS
  <2>1. p \notin ToSet(answer) /\ p \in ToSet(a) BY <1>17, <1>19
  <2>2. Once(a, p) /\ p.run \in Run /\ pc[p.run] # "new" BY <1>13, <2>1
  <2>3. Once(answer, p) BY <1>3, <2>1, OnceAbsent
  <2>4. Once(e, p) BY <1>3, <2>1, <2>2, <2>3, OnceConcat
  <2> QED BY <1>3, <2>2, <2>4 DEF Onward
<1>21. Messages(context)' = e BY <1>3
<1>22. Messages(context) = m BY DEF m
<1> HIDE DEF e
<1>23. ContextWhole'
  <2>1. Even(Messages(context))' BY <1>18, <1>21 DEF Even
  <2> QED BY <1>4, <1>20, <1>21, <2>1 DEF ContextWhole
<1>24. RunsWhole'
  <2> SUFFICES ASSUME NEW q \in Run, Outstanding(q)'
               PROVE  Unused(job[q].prompts)' \/ (worker' = Idle /\ Latest(job[q].prompts)')
    BY DEF RunsWhole
  <2>1. CASE q # r
    <3>1. Unused(job[q].prompts) /\ Fit(job[q].prompts, q) /\ job'[q] = job[q] BY <1>3, <1>8, <2>1
    <3>2. \A p \in ToSet(job[q].prompts) : p.kind = "response" => p.run = q /\ p \notin ToSet(m)
      BY <1>22, <3>1 DEF Fit, Unused
    <3>3. \A p \in ToSet(job[q].prompts) : p.kind = "response" => p \notin ToSet(e)
      BY <1>7, <1>11, <1>17, <1>19, <2>1, <3>2
    <3> QED BY <1>21, <3>1, <3>3 DEF Unused
  <2>2. CASE q = r /\ ~(worker.shared /\ Inside(r))
    <3>1. NoResults(job'[q].prompts)
      <4>1. r \in {s \in Run : Outstanding(s)'} BY <2>2
      <4>2. NoResults(job[r].prompts) BY <1>9, <2>2, <4>1
      <4>3. job'[r].prompts = job[r].prompts BY <1>3, <2>2
      <4>4. NoResults(job'[r].prompts)
        <5> HIDE DEF r
        <5> QED BY <4>2, <4>3
      <4> QED BY <2>2, <4>4
    <3> QED BY <3>1 DEF Unused, NoResults
  <2>3. CASE q = r /\ worker.shared /\ Inside(r)
    <3>1. job'[q].prompts = ps BY <1>3, <2>3
    <3>2. Latest(job[q].prompts)'
      <4>1. /\ Messages(context)' = (m \o x) \o t /\ Even(m) /\ NoResults(t)
            /\ \A p \in ToSet(x) : p.kind = "response" /\ p \in ToSet(ps)
            /\ \A p \in ToSet(ps) : p.kind = "response" => p \notin ToSet(m)
        BY <1>6, <1>7, <1>16, <1>21
      <4>2. \E n, y, z \in Seq(Prompt) :
              /\ Messages(context)' = (n \o y) \o z /\ Even(n) /\ NoResults(z)
              /\ \A p \in ToSet(y) : p.kind = "response" /\ p \in ToSet(ps)
              /\ \A p \in ToSet(ps) : p.kind = "response" => p \notin ToSet(n)
        BY <1>3, <1>15, <1>16, <4>1
      <4> QED BY <3>1, <4>2 DEF Latest
    <3> QED BY <1>4, <3>2
  <2> QED BY <2>1, <2>2, <2>3
<1>25. Alone' BY <1>3 DEF Onward, Whole, Alone
<1> QED BY <1>4, <1>23, <1>24, <1>25, EmptyStraight DEF Whole

LEMMA WholeInit == ASSUME ChatClientAssumption, Init PROVE Whole
<1>1. Messages(context) = <<>> /\ worker = Idle /\ payload = <<>> /\ \A r \in Run : pc[r] = "new"
  BY MessagesEmpty DEF Init
<1>2. ContextWhole BY <1>1, AccountEmpty, EmptyFacts DEF ContextWhole, Even, Nought
<1>3. Alone /\ RunsWhole BY <1>1 DEF Alone, RunsWhole, Inside, Outstanding
<1> QED BY <1>1, <1>2, <1>3, EmptyStraight DEF Whole

LEMMA WholeStep ==
  ASSUME ChatClientAssumption, FitInv, Whole, ~unusual', [Next]_vars PROVE Whole'
<1>0. PairInv BY DEF FitInv
<1>1. CASE UNCHANGED vars
  <2>1. UNCHANGED <<context, worker, payload, pc, job>> BY <1>1 DEF vars, client
  <2>2. Kept(worker.prompts)' = Kept(worker.prompts) BY <2>1 DEF Kept
  <2>3. Onward BY <2>1 DEF Onward, Outstanding, Inside
  <2> QED BY <1>0, <2>1, <2>2, <2>3, WholeStays
<1>2. ASSUME NEW r \in Run,
             Begin(r) \/ Ask(r) \/ Overflow(r) \/ Compressed(r) \/ CompressionFails(r) \/ Unanswered(r)
                \/ Timeout(r) \/ Cancelled(r) \/ Answered(r)
      PROVE  Whole'
  BY <1>2, WholeRun
<1>3. CASE Interrupt \/ Start \/ Nothing \/ Answer
  BY <1>3, WholeInterrupt, WholeStart, WholeAnswer
<1> QED BY <1>1, <1>2, <1>3 DEF Next

\* The inductive invariant of the next theorem
PayloadInv == FitInv /\ (late \/ Timely) /\ (unusual \/ Whole)

LEMMA PayloadStep ==
  ASSUME ChatClientAssumption, PayloadInv, [Next]_vars PROVE PayloadInv'
<1>1. FitInv' BY FitStep DEF PayloadInv
<1>2. (late => late') /\ (unusual => unusual') BY HistoryStays
<1>3. late' \/ Timely' BY <1>2, TimelyStep DEF PayloadInv
<1>4. unusual' \/ Whole' BY <1>2, WholeStep DEF PayloadInv
<1> QED BY <1>1, <1>3, <1>4 DEF PayloadInv

\* In what is sent, however runs overlap, requests are repeated, rounds taken back and
\* answers come late, every call is followed by its one response before the user speaks
\* again, and every response has its call before it; and the model does not speak
\* between the first response and the last of the calls it made together, unless an
\* answer came for nobody in a client whose runs overlapped, were stopped by force or
\* took a round back (_payload_constructor and post of Chat in LLM_connect.py).
THEOREM PayloadPairedCorrect == Spec => []PayloadPaired
<1>0. ChatClientAssumption BY ChatClientAssumption
<1>1. Init => PayloadInv BY <1>0, FitInit, TimelyInit, WholeInit DEF PayloadInv
<1>2. PayloadInv /\ [Next]_vars => PayloadInv' BY <1>0, PayloadStep
<1>3. PayloadInv => PayloadPaired
  BY DEF PayloadInv, FitInv, PairInv, Timely, Whole, PayloadPaired
<1> QED BY <1>1, <1>2, <1>3, PTL DEF Spec
=============================================================================
