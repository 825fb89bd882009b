----------------------------- MODULE ReplyProofs ----------------------------
(***************************************************************************)
(* Proofs about ReplyStream, for any tags, tokens and requests: a reply is *)
(* cut at its first stop sequence.  The lemmas before the last section are *)
(* about natural numbers and sequences, and say nothing of a reply.        *)
(***************************************************************************)
EXTENDS ReplyStream, FiniteSetTheorems, WellFoundedInduction, TLAPS

-----------------------------------------------------------------------------
(* Natural numbers.  A set of them that has 0 and every successor has them    *)
(* all, since what it lacks would have a least member (WFMin, which unlike    *)
(* the library's induction theorems has no operator among its parameters).   *)

Below == {ss \in Nat \X Nat : ss[1] < ss[2]}

LEMMA NatLeast ==
  ASSUME NEW S, S \subseteq Nat, S # {}
  PROVE  \E n \in S : \A m \in S : n <= m
<1>1. IsWellFoundedOn(Below, Nat)
  BY NatLessThanWellFounded DEF OpToRel, Below
<1>2. PICK n \in S : \A m \in S : <<m, n>> \notin Below
  BY <1>1, WFMin
<1>3. ASSUME NEW m \in S PROVE n <= m
  <2>1. n \in Nat /\ m \in Nat /\ <<m, n>> \in Nat \X Nat
    OBVIOUS
  <2>2. ~(m < n)
    BY <1>2, <2>1 DEF Below
  <2>. QED  BY <2>1, <2>2
<1>. QED  BY <1>3

LEMMA NatSet ==
  ASSUME NEW S, 0 \in S, \A n \in Nat : n \in S => n + 1 \in S
  PROVE  \A n \in Nat : n \in S
<1>. DEFINE Out == Nat \ S
<1>1. SUFFICES ASSUME Out # {} PROVE FALSE
  OBVIOUS
<1>2. PICK n \in Out : \A m \in Out : n <= m
  BY <1>1, NatLeast
<1>3. n - 1 \in Nat /\ n - 1 \in S
  <2>1. n \in Nat /\ n # 0
    OBVIOUS
  <2>2. n - 1 \in Nat /\ ~(n <= n - 1)
    BY <2>1
  <2>. QED  BY <1>2, <2>2
<1>. QED  BY <1>2, <1>3

\* What n steps make of p, if each step makes a member of S of one.
Chained(S, p, n, F) ==
  \E fn \in [0 .. n -> S] : fn[0] = p /\ \A k \in 1 .. n : fn[k] = F[<<fn[k - 1], k>>]

LEMMA Iterated ==
  ASSUME NEW S, NEW p \in S, NEW n \in Nat, NEW F \in [S \X (1 .. n) -> S]
  PROVE  Chained(S, p, n, F)
<1>. DEFINE Done(m) == m <= n => \E fn \in [0 .. m -> S] : fn[0] = p /\ \A k \in 1 .. m : fn[k] = F[<<fn[k - 1], k>>]
            Ms == {m \in Nat : Done(m)}
<1>1. 0 \in Ms
  <2>1. [k \in 0 .. 0 |-> p] \in [0 .. 0 -> S] /\ [k \in 0 .. 0 |-> p][0] = p /\ 1 .. 0 = {}
    OBVIOUS
  <2>2. \E fn \in [0 .. 0 -> S] : fn[0] = p /\ \A k \in 1 .. 0 : fn[k] = F[<<fn[k - 1], k>>]
    BY <2>1
  <2>. QED  BY <2>2
<1>2. ASSUME NEW m \in Nat, m \in Ms PROVE m + 1 \in Ms
  <2>1. SUFFICES ASSUME m + 1 <= n PROVE \E fn \in [0 .. m + 1 -> S] : fn[0] = p /\ \A k \in 1 .. m + 1 : fn[k] = F[<<fn[k - 1], k>>]
    OBVIOUS
  <2>2. PICK fn \in [0 .. m -> S] : fn[0] = p /\ \A k \in 1 .. m : fn[k] = F[<<fn[k - 1], k>>]
    BY <1>2, <2>1
  <2>3. F[<<fn[m], m + 1>>] \in S
    BY <2>1
  <2>. DEFINE h == [k \in 0 .. m + 1 |-> IF k = m + 1 THEN F[<<fn[m], m + 1>>] ELSE fn[k]]
  <2>4. h \in [0 .. m + 1 -> S] /\ h[0] = p
    BY <2>2, <2>3
  <2>5. ASSUME NEW k \in 1 .. m + 1 PROVE h[k] = F[<<h[k - 1], k>>]
    <3>1. CASE k = m + 1
      <4>1. h[k] = F[<<fn[m], m + 1>>] /\ h[k - 1] = fn[m]
        BY <3>1
      <4>. QED  BY <3>1, <4>1
    <3>2. CASE k # m + 1
      <4>1. k \in 1 .. m /\ k - 1 \in 0 .. m /\ k \in 0 .. m + 1 /\ k - 1 \in 0 .. m + 1 /\ k - 1 # m + 1
        BY <3>2
      <4>2. h[k] = fn[k] /\ h[k - 1] = fn[k - 1]
        BY <3>2, <4>1
      <4>. QED  BY <2>2, <4>1, <4>2
    <3>. QED  BY <3>1, <3>2
  <2>. QED  BY <2>4, <2>5
<1>3. n \in Ms
  <2>. HIDE DEF Ms
  <2>. QED  BY <1>1, <1>2, NatSet
<1>. QED  BY <1>3 DEF Chained

-----------------------------------------------------------------------------
(* Sequences, of anything. *)

IsSequence(s) == s \in Seq({s[k] : k \in DOMAIN s})

LEMMA AppendedAny ==
  ASSUME NEW s, IsSequence(s), NEW e
  PROVE  /\ DOMAIN s = 1 .. Len(s) /\ Len(s) \in Nat
         /\ DOMAIN Append(s, e) = 1 .. Len(s) + 1 /\ Append(s, e)[Len(s) + 1] = e
         /\ \A k \in DOMAIN s : Append(s, e)[k] = s[k]
         /\ IsSequence(Append(s, e))
<1>. DEFINE S == {s[k] : k \in DOMAIN s} \cup {e}
            t == Append(s, e)
<1>1. s \in Seq(S)
  BY DEF IsSequence
<1>. HIDE DEF S
<1>2. e \in S
  BY DEF S
<1>3. /\ DOMAIN s = 1 .. Len(s) /\ Len(s) \in Nat
      /\ t \in Seq(S) /\ DOMAIN t = 1 .. Len(s) + 1 /\ t[Len(s) + 1] = e /\ Len(t) = Len(s) + 1
      /\ \A k \in DOMAIN s : t[k] = s[k]
  BY <1>1, <1>2
<1>. HIDE DEF t
<1>4. t \in Seq({t[k] : k \in DOMAIN t})
  <2>1. t \in [1 .. Len(t) -> {t[k] : k \in DOMAIN t}]
    BY <1>3
  <2>. QED  BY <1>3, <2>1
<1>. QED  BY <1>3, <1>4 DEF t, IsSequence

LEMMA Concats ==
  ASSUME NEW s, IsSequence(s), NEW t, IsSequence(t)
  PROVE  /\ IsSequence(s \o t) /\ Len(s \o t) = Len(s) + Len(t) /\ Len(s) \in Nat /\ Len(t) \in Nat
         /\ DOMAIN s = 1 .. Len(s) /\ DOMAIN t = 1 .. Len(t) /\ DOMAIN (s \o t) = 1 .. Len(s) + Len(t)
         /\ \A k \in 1 .. Len(s) : (s \o t)[k] = s[k]
         /\ \A k \in 1 .. Len(t) : (s \o t)[Len(s) + k] = t[k]
<1>. DEFINE S == {s[k] : k \in DOMAIN s} \cup {t[k] : k \in DOMAIN t}
            u == s \o t
<1>1. s \in Seq(S) /\ t \in Seq(S)
  BY DEF IsSequence
<1>. HIDE DEF S
<1>2. /\ u \in Seq(S) /\ Len(u) = Len(s) + Len(t) /\ Len(s) \in Nat /\ Len(t) \in Nat
      /\ DOMAIN s = 1 .. Len(s) /\ DOMAIN t = 1 .. Len(t) /\ DOMAIN u = 1 .. Len(s) + Len(t)
      /\ \A k \in 1 .. Len(s) : u[k] = s[k]
      /\ \A k \in 1 .. Len(t) : u[Len(s) + k] = t[k]
  BY <1>1
<1>. HIDE DEF u
<1>3. IsSequence(u)
  <2>. DEFINE U == {u[k] : k \in DOMAIN u}
  <2>1. \A k \in 1 .. Len(u) : u[k] \in U
    BY <1>2
  <2>2. u \in Seq(U)
    <3>. HIDE DEF U
    <3>. QED  BY <1>2, <2>1
  <2>. QED  BY <2>2 DEF IsSequence
<1>. QED  BY <1>2, <1>3 DEF u

LEMMA Two ==
  ASSUME NEW a, NEW b
  PROVE  IsSequence(<<a, b>>) /\ Len(<<a, b>>) = 2 /\ <<a, b>>[1] = a /\ <<a, b>>[2] = b
<1>1. <<a, b>> \in Seq({a, b}) /\ <<a, b>>[1] = a /\ <<a, b>>[2] = b /\ DOMAIN <<a, b>> = 1 .. 2 /\ Len(<<a, b>>) = 2
  OBVIOUS
<1>2. {<<a, b>>[k] : k \in DOMAIN <<a, b>>} = {a, b}
  <2>. DEFINE s == <<a, b>>
  <2>1. DOMAIN s = {1, 2} /\ s[1] = a /\ s[2] = b
    BY <1>1
  <2>. HIDE DEF s
  <2>2. {s[k] : k \in DOMAIN s} = {a, b}
    BY <2>1
  <2>. QED  BY <2>2 DEF s
<1>. QED  BY <1>1, <1>2 DEF IsSequence

\* What has been put together of ss after each of them.
Flat(ss, fn) ==
  /\ DOMAIN fn = DOMAIN ss /\ FlattenSeq(ss) = fn[Len(ss)]
  /\ fn[1] = ss[1]
  /\ \A k \in 2 .. Len(ss) : fn[k] = fn[k - 1] \o ss[k]
  /\ \A k \in 1 .. Len(ss) : IsSequence(fn[k])

LEMMA Flattened ==
  ASSUME NEW ss, IsSequence(ss), \A k \in DOMAIN ss : IsSequence(ss[k]), Len(ss) # 0
  PROVE  \E fn : Flat(ss, fn)
<1>. DEFINE n == Len(ss)
            T == UNION {{ss[k][j] : j \in DOMAIN ss[k]} : k \in DOMAIN ss}
            F == [x \in Seq(T) \X (1 .. n) |-> x[1] \o ss[x[2]]]
            Next_(fn, k) == IF k = 1 THEN ss[k] ELSE fn[k - 1] \o ss[k]
            Eq(fn) == fn = [k \in 1 .. n |-> Next_(fn, k)]
<1>1. n \in Nat \ {0} /\ DOMAIN ss = 1 .. n
  BY DEF IsSequence
<1>2. ASSUME NEW k \in 1 .. n PROVE ss[k] \in Seq(T)
  <2>1. ss[k] \in Seq({ss[k][j] : j \in DOMAIN ss[k]}) /\ {ss[k][j] : j \in DOMAIN ss[k]} \subseteq T
    BY <1>1 DEF IsSequence
  <2>. DEFINE U == {ss[k][j] : j \in DOMAIN ss[k]}
  <2>. HIDE DEF T, U
  <2>2. \A x \in Seq(U) : U \subseteq T => x \in Seq(T)
    OBVIOUS
  <2>. QED  BY <2>1, <2>2 DEF U
<1>3. <<>> \in Seq(T) /\ F \in [Seq(T) \X (1 .. n) -> Seq(T)]
  <2>. HIDE DEF T
  <2>. QED  BY <1>1, <1>2
<1>4. PICK h \in [0 .. n -> Seq(T)] : h[0] = <<>> /\ \A k \in 1 .. n : h[k] = F[<<h[k - 1], k>>]
  <2>1. Chained(Seq(T), <<>>, n, F)
    <3>. HIDE DEF T, F
    <3>. QED  BY <1>1, <1>3, Iterated
  <2>. QED  BY <2>1 DEF Chained
<1>5. ASSUME NEW k \in 1 .. n PROVE h[k] \in Seq(T) /\ h[k - 1] \in Seq(T) /\ h[k] = h[k - 1] \o ss[k]
  <2>1. k - 1 \in 0 .. n /\ k \in 0 .. n
    BY <1>1
  <2>. HIDE DEF T
  <2>. QED  BY <1>4, <2>1
<1>. DEFINE e == [k \in 1 .. n |-> h[k]]
<1>6. Eq(e)
  <2>1. ASSUME NEW k \in 1 .. n PROVE h[k] = Next_(e, k)
    <3>1. CASE k = 1
      <4>1. h[1] = <<>> \o ss[1]
        BY <1>4, <1>5, <3>1
      <4>2. <<>> \o ss[1] = ss[1]
        <5>1. ss[1] \in Seq(T)
          BY <1>1, <1>2
        <5>. HIDE DEF T
        <5>. QED  BY <5>1
      <4>. QED  BY <3>1, <4>1, <4>2
    <3>2. CASE k # 1
      <4>1. k - 1 \in 1 .. n
        BY <1>1, <3>2
      <4>. QED  BY <1>5, <3>2, <4>1
    <3>. QED  BY <3>1, <3>2
  <2>. QED  BY <2>1
<1>. DEFINE fn == CHOOSE f : Eq(f)
<1>7. Eq(fn)
  <2>. HIDE DEF Eq, e
  <2>. QED  BY <1>6
<1>8. DOMAIN fn = 1 .. n /\ \A k \in 1 .. n : fn[k] = Next_(fn, k)
  <2>. HIDE DEF fn
  <2>1. fn = [k \in 1 .. n |-> Next_(fn, k)]
    BY <1>7
  <2>. QED  BY <2>1
<1>9. FlattenSeq(ss) = fn[n]
  BY <1>1 DEF FlattenSeq
<1>. HIDE DEF fn
<1>10. \A k \in 1 .. n : IsSequence(fn[k])
  <2>. DEFINE Ks == {k \in Nat : k + 1 <= n => IsSequence(fn[k + 1])}
  <2>1. 0 \in Ks
    BY <1>1, <1>8
  <2>2. ASSUME NEW k \in Nat, k \in Ks PROVE k + 1 \in Ks
    <3>1. SUFFICES ASSUME k + 2 <= n PROVE IsSequence(fn[k + 2])
      <4>1. (k + 1) + 1 = k + 2
        OBVIOUS
      <4>. QED  BY <4>1
    <3>2. k + 2 \in 1 .. n /\ k + 2 # 1 /\ (k + 2) - 1 = k + 1 /\ k + 1 <= n
      BY <1>1, <3>1
    <3>3. fn[k + 2] = fn[k + 1] \o ss[k + 2] /\ IsSequence(fn[k + 1]) /\ IsSequence(ss[k + 2])
      BY <1>1, <1>8, <2>2, <3>2
    <3>. QED  BY <3>3, Concats
  <2>3. \A k \in Nat : k \in Ks
    <3>. HIDE DEF Ks
    <3>. QED  BY <2>1, <2>2, NatSet
  <2>4. ASSUME NEW k \in 1 .. n PROVE IsSequence(fn[k])
    <3>1. k - 1 \in Nat /\ (k - 1) + 1 = k /\ k <= n
      BY <1>1
    <3>2. k - 1 \in Ks
      BY <2>3, <3>1
    <3>. QED  BY <3>1, <3>2
  <2>. QED  BY <2>4
<1>11. fn[1] = ss[1] /\ \A k \in 2 .. n : fn[k] = fn[k - 1] \o ss[k]
  <2>1. 1 \in 1 .. n /\ \A k \in 2 .. n : k \in 1 .. n /\ k # 1
    BY <1>1
  <2>. QED  BY <1>8, <2>1
<1>. HIDE DEF T, F, e, Next_
<1>. QED  BY <1>1, <1>8, <1>9, <1>10, <1>11 DEF Flat

LEMMA Counted ==
  ASSUME NEW s, IsSequence(s)
  PROVE  DOMAIN s = 1 .. Len(s) /\ Len(s) \in Nat
BY DEF IsSequence

LEMMA SameSequence ==
  ASSUME NEW s, IsSequence(s), NEW t, IsSequence(t), Len(s) = Len(t), \A k \in 1 .. Len(s) : s[k] = t[k]
  PROVE  s = t
<1>. DEFINE S == {s[k] : k \in DOMAIN s} \cup {t[k] : k \in DOMAIN t}
<1>1. s \in Seq(S) /\ t \in Seq(S)
  BY DEF IsSequence
<1>. HIDE DEF S
<1>. QED  BY <1>1

LEMMA Mapped ==
  ASSUME NEW n \in Nat, NEW fn, fn = [k \in 1 .. n |-> fn[k]]
  PROVE  IsSequence(fn) /\ Len(fn) = n /\ DOMAIN fn = 1 .. n
<1>. DEFINE S == {fn[k] : k \in DOMAIN fn}
<1>1. DOMAIN fn = 1 .. n
  OBVIOUS
<1>2. \A k \in 1 .. n : fn[k] \in S
  BY <1>1
<1>. HIDE DEF S
<1>3. fn \in [1 .. n -> S]
  BY <1>2
<1>4. fn \in Seq(S) /\ Len(fn) = n
  BY <1>3
<1>. QED  BY <1>1, <1>4 DEF S, IsSequence

\* A stretch of a sequence.
LEMMA Stretch ==
  ASSUME NEW s, IsSequence(s), NEW m \in Nat, NEW n \in Nat, m >= 1, n <= Len(s)
  PROVE  /\ IsSequence(SubSeq(s, m, n)) /\ DOMAIN SubSeq(s, m, n) = 1 .. Len(SubSeq(s, m, n))
         /\ Len(SubSeq(s, m, n)) = IF m <= n THEN n - m + 1 ELSE 0
         /\ \A k \in 1 .. Len(SubSeq(s, m, n)) : SubSeq(s, m, n)[k] = s[m + k - 1]
<1>. DEFINE S == {s[k] : k \in DOMAIN s}
            t == SubSeq(s, m, n)
<1>1. s \in Seq(S)
  BY DEF IsSequence
<1>. HIDE DEF S
<1>2. t = [k \in 1 .. n - m + 1 |-> s[m + k - 1]]
  BY <1>1
<1>3. DOMAIN t = 1 .. n - m + 1 /\ \A k \in 1 .. n - m + 1 : t[k] = s[m + k - 1]
  BY <1>2
<1>. DEFINE l == IF m <= n THEN n - m + 1 ELSE 0
<1>4. l \in Nat /\ 1 .. n - m + 1 = 1 .. l
  OBVIOUS
<1>. HIDE DEF l, t
<1>5. t = [k \in 1 .. l |-> t[k]]
  BY <1>2, <1>3, <1>4
<1>6. IsSequence(t) /\ Len(t) = l /\ DOMAIN t = 1 .. l
  BY <1>4, <1>5, Mapped
<1>. QED  BY <1>3, <1>4, <1>6 DEF t, l

LEMMA Firsts ==
  ASSUME NEW s, IsSequence(s), NEW n \in Nat, n <= Len(s)
  PROVE  /\ IsSequence(First(s, n)) /\ Len(First(s, n)) = n /\ DOMAIN First(s, n) = 1 .. n
         /\ \A k \in 1 .. n : First(s, n)[k] = s[k]
<1>. DEFINE t == SubSeq(s, 1, n)
<1>1. IsSequence(t) /\ DOMAIN t = 1 .. Len(t) /\ Len(t) = n /\ \A k \in 1 .. n : t[k] = s[1 + k - 1]
  BY Stretch
<1>2. \A k \in 1 .. n : t[k] = s[k]
  <2>1. \A k \in 1 .. n : 1 + k - 1 = k
    OBVIOUS
  <2>. HIDE DEF t
  <2>. QED  BY <1>1, <2>1
<1>. QED  BY <1>1, <1>2 DEF First

LEMMA Rests ==
  ASSUME NEW s, IsSequence(s), NEW n \in Nat, n <= Len(s)
  PROVE  /\ IsSequence(From(s, n)) /\ Len(From(s, n)) = Len(s) - n /\ DOMAIN From(s, n) = 1 .. Len(s) - n
         /\ \A k \in 1 .. Len(s) - n : From(s, n)[k] = s[n + k]
<1>. DEFINE t == SubSeq(s, n + 1, Len(s))
<1>1. Len(s) \in Nat /\ Len(s) <= Len(s) /\ n + 1 \in Nat /\ n + 1 >= 1
  BY Counted
<1>2. IsSequence(t) /\ DOMAIN t = 1 .. Len(t) /\ (Len(t) = IF n + 1 <= Len(s) THEN Len(s) - (n + 1) + 1 ELSE 0)
      /\ \A k \in 1 .. Len(t) : t[k] = s[(n + 1) + k - 1]
  BY <1>1, Stretch
<1>. HIDE DEF t
<1>3. Len(t) = Len(s) - n
  BY <1>1, <1>2
<1>4. \A k \in 1 .. Len(s) - n : t[k] = s[n + k]
  <2>1. \A k \in 1 .. Len(s) - n : (n + 1) + k - 1 = n + k
    BY <1>1
  <2>. QED  BY <1>2, <1>3, <2>1
<1>. QED  BY <1>2, <1>3, <1>4 DEF t, From

\* t is at i.
LEMMA At ==
  ASSUME NEW s, IsSequence(s), NEW t, IsSequence(t), NEW i \in Nat
  PROVE  HasAt(s, i, t) <=> i + Len(t) <= Len(s) /\ \A k \in 1 .. Len(t) : s[i + k] = t[k]
<1>1. Len(s) \in Nat /\ Len(t) \in Nat
  BY Counted
<1>2. SUFFICES ASSUME i + Len(t) <= Len(s)
               PROVE  SubSeq(s, i + 1, i + Len(t)) = t <=> \A k \in 1 .. Len(t) : s[i + k] = t[k]
  BY DEF HasAt
<1>. DEFINE u == SubSeq(s, i + 1, i + Len(t))
<1>3. i + 1 \in Nat /\ i + Len(t) \in Nat /\ i + 1 >= 1
  BY <1>1
<1>4. IsSequence(u) /\ (Len(u) = IF i + 1 <= i + Len(t) THEN i + Len(t) - (i + 1) + 1 ELSE 0)
      /\ \A k \in 1 .. Len(u) : u[k] = s[(i + 1) + k - 1]
  BY <1>1, <1>2, <1>3, Stretch
<1>. HIDE DEF u
<1>5. Len(u) = Len(t)
  BY <1>1, <1>4
<1>6. \A k \in 1 .. Len(t) : u[k] = s[i + k]
  <2>1. \A k \in 1 .. Len(t) : (i + 1) + k - 1 = i + k
    BY <1>1
  <2>. QED  BY <1>4, <1>5, <2>1
<1>7. u = t <=> \A k \in 1 .. Len(t) : s[i + k] = t[k]
  BY <1>4, <1>5, <1>6, SameSequence
<1>. QED  BY <1>7 DEF u

LEMMA Associates ==
  ASSUME NEW r, IsSequence(r), NEW s, IsSequence(s), NEW t, IsSequence(t)
  PROVE  (r \o s) \o t = r \o (s \o t)
<1>. DEFINE S == {r[k] : k \in DOMAIN r} \cup {s[k] : k \in DOMAIN s} \cup {t[k] : k \in DOMAIN t}
<1>1. r \in Seq(S) /\ s \in Seq(S) /\ t \in Seq(S)
  BY DEF IsSequence
<1>. HIDE DEF S
<1>. QED  BY <1>1

LEMMA Empty ==
  /\ IsSequence(<<>>) /\ Len(<<>>) = 0
  /\ \A s : IsSequence(s) => s \o <<>> = s /\ <<>> \o s = s /\ (Len(s) = 0 => s = <<>>)
<1>1. ASSUME NEW s, IsSequence(s) PROVE s \o <<>> = s /\ <<>> \o s = s /\ (Len(s) = 0 => s = <<>>)
  <2>. DEFINE S == {s[k] : k \in DOMAIN s}
  <2>1. s \in Seq(S)
    BY <1>1 DEF IsSequence
  <2>. HIDE DEF S
  <2>. QED  BY <2>1
<1>2. IsSequence(<<>>) /\ Len(<<>>) = 0
  BY DEF IsSequence
<1>. QED  BY <1>1, <1>2

LEMMA Cut ==
  ASSUME NEW s, IsSequence(s), NEW t, IsSequence(t), NEW n \in Nat, n <= Len(s)
  PROVE  First(s \o t, n) = First(s, n)
<1>. DEFINE u == s \o t
<1>1. IsSequence(u) /\ Len(u) = Len(s) + Len(t) /\ Len(s) \in Nat /\ Len(t) \in Nat /\ \A k \in 1 .. Len(s) : u[k] = s[k]
  BY Concats
<1>. HIDE DEF u
<1>2. n <= Len(u)
  BY <1>1
<1>3. /\ IsSequence(First(s, n)) /\ Len(First(s, n)) = n /\ \A k \in 1 .. n : First(s, n)[k] = s[k]
      /\ IsSequence(First(u, n)) /\ Len(First(u, n)) = n /\ \A k \in 1 .. n : First(u, n)[k] = u[k]
  BY <1>1, <1>2, Firsts
<1>4. First(u, n) = First(s, n)
  BY <1>1, <1>3, SameSequence
<1>. QED  BY <1>4 DEF u

LEMMA AllOf ==
  ASSUME NEW s, IsSequence(s)
  PROVE  First(s, Len(s)) = s
<1>1. Len(s) \in Nat /\ Len(s) <= Len(s)
  BY Counted
<1>. QED  BY <1>1, Firsts, SameSequence

LEMMA Appends ==
  ASSUME NEW s, IsSequence(s), NEW e
  PROVE  /\ Append(s, e) = s \o <<e>> /\ First(Append(s, e), Len(s)) = s
         /\ IsSequence(<<e>>) /\ Len(<<e>>) = 1 /\ <<e>>[1] = e
<1>1. IsSequence(<<e>>) /\ Len(<<e>>) = 1 /\ <<e>>[1] = e
  <2>1. <<e>> \in Seq({e}) /\ <<e>>[1] = e /\ DOMAIN <<e>> = {1} /\ Len(<<e>>) = 1
    OBVIOUS
  <2>2. {<<e>>[k] : k \in DOMAIN <<e>>} = {e}
    <3>. DEFINE s1 == <<e>>
    <3>1. DOMAIN s1 = {1} /\ s1[1] = e
      BY <2>1
    <3>. HIDE DEF s1
    <3>2. {s1[k] : k \in DOMAIN s1} = {e}
      BY <3>1
    <3>. QED  BY <3>2 DEF s1
  <2>. QED  BY <2>1, <2>2 DEF IsSequence
<1>2. Append(s, e) = s \o <<e>>
  <2>. DEFINE S == {s[k] : k \in DOMAIN s} \cup {e}
  <2>1. s \in Seq(S) /\ e \in S
    BY DEF IsSequence
  <2>. HIDE DEF S
  <2>. QED  BY <2>1
<1>3. First(s \o <<e>>, Len(s)) = s
  <2>1. Len(s) \in Nat /\ Len(s) <= Len(s)
    BY Counted
  <2>. QED  BY <1>1, <2>1, Cut, AllOf
<1>. QED  BY <1>1, <1>2, <1>3

\* One sequence more is put together at the end.
LEMMA FlatAppend ==
  ASSUME NEW ss, IsSequence(ss), \A k \in DOMAIN ss : IsSequence(ss[k]), NEW x, IsSequence(x)
  PROVE  /\ FlattenSeq(Append(ss, x)) = FlattenSeq(ss) \o x
         /\ IsSequence(FlattenSeq(ss))
<1>. DEFINE n == Len(ss)
            ts == Append(ss, x)
<1>1. /\ DOMAIN ss = 1 .. n /\ n \in Nat /\ DOMAIN ts = 1 .. n + 1 /\ ts[n + 1] = x /\ IsSequence(ts)
      /\ \A k \in 1 .. n : ts[k] = ss[k]
  BY AppendedAny
<1>2. Len(ts) = n + 1
  BY <1>1, Counted, Concats, Appends
<1>. HIDE DEF ts
<1>3. \A k \in DOMAIN ts : IsSequence(ts[k])
  BY <1>1
<1>4. PICK gn : Flat(ts, gn)
  BY <1>1, <1>2, <1>3, Flattened
<1>5. CASE n = 0
  <2>1. FlattenSeq(ss) = ss /\ ss = <<>>
    BY <1>5, Empty DEF FlattenSeq
  <2>2. FlattenSeq(ts) = gn[1] /\ gn[1] = ts[1]
    BY <1>2, <1>4, <1>5 DEF Flat
  <2>. QED  BY <1>1, <1>5, <2>1, <2>2, Empty DEF ts
<1>6. CASE n # 0
  <2>1. PICK fn : Flat(ss, fn)
    BY <1>6, Flattened
  <2>2. \A k \in Nat : k + 1 \in 1 .. n => gn[k + 1] = fn[k + 1]
    <3>. DEFINE S == {k \in Nat : k + 1 \in 1 .. n => gn[k + 1] = fn[k + 1]}
    <3>1. 0 \in S
      BY <1>1, <1>2, <1>4, <1>6, <2>1 DEF Flat
    <3>2. ASSUME NEW k \in Nat, k \in S PROVE k + 1 \in S
      <4>1. SUFFICES ASSUME k + 2 \in 1 .. n PROVE gn[k + 2] = fn[k + 2]
        <5>1. (k + 1) + 1 = k + 2 /\ k + 1 \in Nat
          OBVIOUS
        <5>. QED  BY <5>1
      <4>2. k + 1 \in 1 .. n /\ k + 2 \in 2 .. n /\ k + 2 \in 2 .. n + 1 /\ (k + 2) - 1 = k + 1
        BY <1>1, <4>1
      <4>3. gn[k + 1] = fn[k + 1]
        BY <3>2, <4>2
      <4>4. gn[k + 2] = gn[k + 1] \o ts[k + 2] /\ fn[k + 2] = fn[k + 1] \o ss[k + 2]
        BY <1>2, <1>4, <2>1, <4>2 DEF Flat
      <4>. QED  BY <1>1, <4>1, <4>3, <4>4
    <3>3. \A k \in Nat : k \in S
      <4>. HIDE DEF S
      <4>. QED  BY <3>1, <3>2, NatSet
    <3>. QED  BY <3>3
  <2>3. gn[n] = fn[n]
    <3>1. n - 1 \in Nat /\ (n - 1) + 1 = n /\ n \in 1 .. n
      BY <1>1, <1>6
    <3>. QED  BY <2>2, <3>1
  <2>4. gn[n + 1] = gn[n] \o ts[n + 1]
    <3>1. n + 1 \in 2 .. n + 1 /\ (n + 1) - 1 = n
      BY <1>1, <1>6
    <3>. QED  BY <1>2, <1>4, <3>1 DEF Flat
  <2>5. n \in 1 .. n
    BY <1>1, <1>6
  <2>6. FlattenSeq(ts) = gn[n + 1] /\ FlattenSeq(ss) = fn[n] /\ IsSequence(fn[n])
    BY <1>2, <1>4, <2>1, <2>5 DEF Flat
  <2>. QED  BY <1>1, <2>3, <2>4, <2>6 DEF ts
<1>. QED  BY <1>5, <1>6

-----------------------------------------------------------------------------
(* Stop sequences.  None is in the text yet, so one that a token completes ends *)
(* in the token, and is found where bytes of the token could complete it.       *)

\* The search: what is found is a stop sequence, and the first place of each is
\* found.
LEMMA FirstFound ==
  ASSUME NEW s, IsSequence(s), NEW from \in Nat, NEW t, IsSequence(t), Len(t) > 0
  PROVE  /\ \A q \in Found(s, from, t) : q \in from .. Len(s) - Len(t) /\ HasAt(s, q, t)
         /\ \A q \in from .. Len(s) : HasAt(s, q, t) => \E o \in Found(s, from, t) : o <= q
         /\ \A q \in Found(s, from, t), o \in from .. Len(s) : HasAt(s, o, t) => q <= o
<1>. DEFINE at == {i \in from .. Len(s) - Len(t) : HasAt(s, i, t)}
<1>1. Len(s) \in Nat /\ Len(t) \in Nat
  BY Counted
<1>2. \A q \in from .. Len(s) : HasAt(s, q, t) => q \in at
  BY <1>1 DEF HasAt
<1>3. at \subseteq Nat
  BY <1>1
<1>4. CASE at = {}
  <2>1. Found(s, from, t) = {}
    BY <1>4 DEF Found
  <2>. QED  BY <1>2, <1>4, <2>1
<1>5. CASE at # {}
  <2>1. Found(s, from, t) = {Min(at)}
    BY <1>5 DEF Found
  <2>2. PICK n \in at : \A m \in at : n <= m
    <3>. HIDE DEF at
    <3>. QED  BY <1>3, <1>5, NatLeast
  <2>3. Min(at) \in at /\ \A m \in at : Min(at) <= m
    <3>. HIDE DEF at
    <3>. QED  BY <2>2 DEF Min
  <2>. QED  BY <1>2, <2>1, <2>3
<1>. QED  BY <1>4, <1>5

\* Where the search begins.
LEMMA Begins ==
  ASSUME NEW floor \in Nat, NEW start \in Int
  PROVE  /\ Max({0, floor, start}) \in Nat
         /\ floor <= Max({0, floor, start}) /\ start <= Max({0, floor, start})
         /\ \A q \in Nat : floor <= q /\ start <= q => Max({0, floor, start}) <= q
<1>. DEFINE S == {0, floor, start}
<1>1. \E n \in S : \A m \in S : n >= m
  OBVIOUS
<1>2. Max(S) \in S /\ \A m \in S : Max(S) >= m
  BY <1>1 DEF Max
<1>. QED  BY <1>2

StopsOK == IsSequence(ask.stops) /\ \A i \in DOMAIN ask.stops : IsSequence(ask.stops[i]) /\ Len(ask.stops[i]) > 0

LEMMA Search ==
  ASSUME StopsOK, NEW s, IsSequence(s), NEW t, IsSequence(t),
         IsSequence(ask.prefill), Len(ask.prefill) <= Len(s), StopsIn(s) = {}
  PROVE  LET u == s \o t
             hits == Stopped(u, Len(s), Len(ask.prefill))
         IN  /\ hits \subseteq StopsIn(u)
             /\ \A h \in StopsIn(u) : \E o \in hits : o[1] = h[1] /\ o[2] <= h[2]
             /\ \A h \in hits, o \in StopsIn(u) : o[1] = h[1] => h[2] <= o[2]
<1>. DEFINE u == s \o t
            floor == Len(ask.prefill)
            hits == Stopped(u, Len(s), floor)
<1>1. /\ IsSequence(u) /\ Len(u) = Len(s) + Len(t) /\ Len(s) \in Nat /\ Len(t) \in Nat
      /\ \A k \in 1 .. Len(s) : u[k] = s[k]
  BY Concats
<1>2. floor \in Nat
  BY Counted
<1>. HIDE DEF u
<1>3. ASSUME NEW i \in DOMAIN ask.stops
      PROVE  LET from == Max({0, floor, Len(s) - Len(ask.stops[i]) + 1})
             IN  /\ from \in Nat /\ floor <= from
                 /\ \A q \in Found(u, from, ask.stops[i]) : q \in floor .. Len(u) /\ q \in 0 .. Len(u) /\ HasAt(u, q, ask.stops[i])
                 /\ \A q \in floor .. Len(u) : HasAt(u, q, ask.stops[i]) =>
                      /\ \E o \in Found(u, from, ask.stops[i]) : o <= q
                      /\ \A o \in Found(u, from, ask.stops[i]) : o <= q
  <2>. DEFINE w == ask.stops[i]
              from == Max({0, floor, Len(s) - Len(w) + 1})
  <2>1. IsSequence(w) /\ Len(w) > 0 /\ Len(w) \in Nat
    BY Counted DEF StopsOK
  <2>. HIDE DEF w
  <2>2. /\ from \in Nat /\ floor <= from
        /\ \A q \in Nat : floor <= q /\ Len(s) - Len(w) + 1 <= q => from <= q
    <3>. DEFINE start == Len(s) - Len(w) + 1
    <3>1. start \in Int
      BY <1>1, <2>1
    <3>. HIDE DEF start, floor
    <3>2. /\ Max({0, floor, start}) \in Nat /\ floor <= Max({0, floor, start})
          /\ \A q \in Nat : floor <= q /\ start <= q => Max({0, floor, start}) <= q
      BY <1>2, <3>1, Begins
    <3>. QED  BY <3>2 DEF start
  <2>. HIDE DEF from
  <2>3. /\ \A q \in Found(u, from, w) : q \in from .. Len(u) - Len(w) /\ HasAt(u, q, w)
        /\ \A q \in from .. Len(u) : HasAt(u, q, w) => \E o \in Found(u, from, w) : o <= q
        /\ \A q \in Found(u, from, w), o \in from .. Len(u) : HasAt(u, o, w) => q <= o
    BY <1>1, <2>1, <2>2, FirstFound
  <2>4. ASSUME NEW q \in floor .. Len(u), HasAt(u, q, w) PROVE q \in from .. Len(u)
    <3>1. q \in Nat /\ q + Len(w) <= Len(u) /\ \A k \in 1 .. Len(w) : u[q + k] = w[k]
      BY <1>1, <1>2, <2>1, <2>4, At
    <3>2. ASSUME q + Len(w) <= Len(s) PROVE FALSE
      <4>1. \A k \in 1 .. Len(w) : q + k \in 1 .. Len(s)
        BY <1>1, <2>1, <3>1, <3>2
      <4>2. \A k \in 1 .. Len(w) : s[q + k] = w[k]
        BY <1>1, <3>1, <4>1
      <4>3. HasAt(s, q, w)
        BY <2>1, <3>1, <3>2, <4>2, At
      <4>4. <<i, q>> \in (DOMAIN ask.stops) \X (floor .. Len(s))
        BY <1>1, <1>2, <2>1, <3>1, <3>2
      <4>5. <<i, q>> \in StopsIn(s)
        BY <4>3, <4>4 DEF StopsIn, w
      <4>. QED  BY <4>5
    <3>3. Len(s) - Len(w) + 1 <= q
      BY <1>1, <2>1, <3>1, <3>2
    <3>. QED  BY <1>1, <1>2, <2>2, <3>1, <3>3
  <2>5. ASSUME NEW q \in floor .. Len(u), HasAt(u, q, w)
        PROVE  (\E o \in Found(u, from, w) : o <= q) /\ \A o \in Found(u, from, w) : o <= q
    BY <2>3, <2>4, <2>5
  <2>6. \A q \in Found(u, from, w) : q \in floor .. Len(u) /\ q \in 0 .. Len(u)
    BY <1>1, <1>2, <2>1, <2>2, <2>3
  <2>. QED  BY <2>2, <2>3, <2>5, <2>6 DEF from, w
<1>. DEFINE From_(i) == Max({0, floor, Len(s) - Len(ask.stops[i]) + 1})
<1>4. \A h : h \in hits <=> /\ h \in (DOMAIN ask.stops) \X (0 .. Len(u))
                            /\ h[2] \in Found(u, From_(h[1]), ask.stops[h[1]])
  BY DEF Stopped
<1>5. \A h : h \in StopsIn(u) <=> h \in (DOMAIN ask.stops) \X (floor .. Len(u)) /\ HasAt(u, h[2], ask.stops[h[1]])
  BY DEF StopsIn
<1>. HIDE DEF hits, floor
<1>6. ASSUME NEW h \in hits PROVE h \in StopsIn(u)
  <2>1. h \in (DOMAIN ask.stops) \X (0 .. Len(u)) /\ h[1] \in DOMAIN ask.stops /\ h = <<h[1], h[2]>>
    <3>1. h \in (DOMAIN ask.stops) \X (0 .. Len(u))
      BY <1>4
    <3>. QED  BY <3>1
  <2>2. h[2] \in floor .. Len(u) /\ HasAt(u, h[2], ask.stops[h[1]])
    BY <1>3, <1>4, <2>1
  <2>. QED  BY <1>5, <2>1, <2>2
<1>7. ASSUME NEW h \in StopsIn(u) PROVE \E o \in hits : o[1] = h[1] /\ o[2] <= h[2]
  <2>1. h[1] \in DOMAIN ask.stops /\ h[2] \in floor .. Len(u) /\ HasAt(u, h[2], ask.stops[h[1]])
    BY <1>5
  <2>2. PICK o \in Found(u, From_(h[1]), ask.stops[h[1]]) : o <= h[2]
    BY <1>3, <2>1
  <2>3. o \in 0 .. Len(u)
    BY <1>3, <2>1, <2>2
  <2>4. <<h[1], o>> \in hits
    BY <1>4, <2>1, <2>2, <2>3
  <2>. QED  BY <2>2, <2>4
<1>8. ASSUME NEW h \in hits, NEW o \in StopsIn(u), o[1] = h[1] PROVE h[2] <= o[2]
  <2>1. o[1] \in DOMAIN ask.stops /\ o[2] \in floor .. Len(u) /\ HasAt(u, o[2], ask.stops[o[1]])
    BY <1>5
  <2>2. h[2] \in Found(u, From_(h[1]), ask.stops[h[1]])
    BY <1>4
  <2>. QED  BY <1>3, <1>8, <2>1, <2>2
<1>. QED  BY <1>6, <1>7, <1>8 DEF hits, u, floor

\* find_stop takes the first of all, and of two at one place the first asked.
LEMMA FirstStop ==
  ASSUME StopsOK, NEW n \in Nat, NEW hits, hits # {}, hits \subseteq (DOMAIN ask.stops) \X (0 .. n)
  PROVE  /\ find_stop(hits) \in hits
         /\ \A o \in hits : \/ find_stop(hits)[2] < o[2]
                            \/ find_stop(hits)[2] = o[2] /\ find_stop(hits)[1] <= o[1]
<1>. DEFINE Best(h) == \A o \in hits : h[2] < o[2] \/ (h[2] = o[2] /\ h[1] <= o[1])
            At2 == {h[2] : h \in hits}
<1>1. \A h \in hits : h[1] \in Nat /\ h[2] \in Nat
  BY Counted DEF StopsOK
<1>2. PICK q \in At2 : \A m \in At2 : q <= m
  <2>1. At2 \subseteq Nat /\ At2 # {}
    BY <1>1
  <2>. HIDE DEF At2
  <2>. QED  BY <2>1, NatLeast
<1>. DEFINE Here == {h[1] : h \in {k \in hits : k[2] = q}}
<1>3. PICK i \in Here : \A m \in Here : i <= m
  <2>1. Here \subseteq Nat /\ Here # {}
    BY <1>1, <1>2
  <2>. HIDE DEF Here
  <2>. QED  BY <2>1, NatLeast
<1>4. PICK h \in hits : h[1] = i /\ h[2] = q
  BY <1>3
<1>5. ASSUME NEW o \in hits PROVE h[2] < o[2] \/ (h[2] = o[2] /\ h[1] <= o[1])
  <2>1. h[2] <= o[2]
    BY <1>2, <1>4
  <2>2. h[2] = o[2] => h[1] <= o[1]
    BY <1>3, <1>4
  <2>. QED  BY <1>1, <2>1, <2>2
<1>6. Best(h)
  BY <1>5
<1>. DEFINE b == find_stop(hits)
<1>7. b = CHOOSE x \in hits : Best(x)
  BY DEF find_stop
<1>. HIDE DEF b, Best
<1>8. b \in hits /\ Best(b)
  BY <1>6, <1>7
<1>. QED  BY <1>8 DEF b, Best


\* CutAtFirstStop of any ask, tokens, text and stop, so that it can be told of
\* the next state's.
StopsOf(a, s) ==
  {h \in (DOMAIN a.stops) \X (Len(a.prefill) .. Len(s)) : HasAt(s, h[2], a.stops[h[1]])}

GeneratedOf(a, tokens, n) == a.prefill \o FlattenSeq(First(tokens, n))

CutAs(a, tokens, s, i) ==
  LET all == GeneratedOf(a, tokens, Len(tokens))
      hits == StopsOf(a, all)
  IN  IF hits = {} THEN s = all /\ i = 0
      ELSE LET at == Min({h[2] : h \in hits}) IN
           /\ s = First(all, at)
           /\ i = Min({h[1] : h \in {k \in hits : k[2] = at}})
           /\ StopsOf(a, GeneratedOf(a, tokens, Len(tokens) - 1)) = {}

LEMMA Restated ==
  /\ CutAtFirstStop <=> CutAs(ask, taken, text, stop)
  /\ CutAtFirstStop' <=> CutAs(ask', taken', text', stop')
  /\ \A s : StopsIn(s) = StopsOf(ask, s)
BY DEF CutAtFirstStop, CutAs, StopsIn, StopsOf, Generated, GeneratedOf

LEMMA Smallest ==
  ASSUME NEW S, S \subseteq Nat, NEW n \in S, \A m \in S : n <= m
  PROVE  Min(S) = n
<1>1. Min(S) \in S /\ \A m \in S : Min(S) <= m
  BY DEF Min
<1>2. Min(S) \in Nat /\ n \in Nat /\ Min(S) <= n /\ n <= Min(S)
  BY <1>1
<1>. QED  BY <1>2

\* The invariant: besides the property, while tokens are taken no stop sequence
\* is in what was generated.
TokensOK(tokens) == IsSequence(tokens) /\ \A k \in DOMAIN tokens : IsSequence(tokens[k])

CutInv ==
  /\ ask \in Asks /\ TokensOK(taken)
  /\ CutAs(ask, taken, text, stop)
  /\ pc = "taking" => StopsOf(ask, GeneratedOf(ask, taken, Len(taken))) = {}

LEMMA AsksOK ==
  ASSUME ReplyAssumption, NEW a \in Asks
  PROVE  /\ IsSequence(a.prefill)
         /\ IsSequence(a.stops) /\ \A i \in DOMAIN a.stops : IsSequence(a.stops[i]) /\ Len(a.stops[i]) > 0
         /\ \A t \in Tokens(a) : IsSequence(t)
<1>1. \A s : IsText(s) => IsSequence(s)
  BY DEF IsText, IsSequence, Range
<1>. QED  BY <1>1 DEF ReplyAssumption

LEMMA CutInit ==
  ASSUME ReplyAssumption, Init
  PROVE  CutInv
<1>1. ask \in Asks /\ taken = <<>> /\ text = ask.prefill /\ stop = 0
  BY DEF Init
<1>2. IsSequence(ask.prefill) /\ \A i \in DOMAIN ask.stops : IsSequence(ask.stops[i]) /\ Len(ask.stops[i]) > 0
  BY <1>1, AsksOK
<1>3. TokensOK(taken) /\ Len(taken) = 0 /\ First(taken, 0) = taken
  BY <1>1, Empty, AllOf DEF TokensOK
<1>4. GeneratedOf(ask, taken, Len(taken)) = ask.prefill
  BY <1>1, <1>2, <1>3, Empty DEF GeneratedOf, FlattenSeq
<1>5. ASSUME NEW h \in StopsOf(ask, ask.prefill) PROVE FALSE
  <2>1. h[1] \in DOMAIN ask.stops /\ h[2] \in Len(ask.prefill) .. Len(ask.prefill) /\ HasAt(ask.prefill, h[2], ask.stops[h[1]])
    BY <1>5 DEF StopsOf
  <2>2. IsSequence(ask.stops[h[1]]) /\ Len(ask.stops[h[1]]) > 0
    BY <1>2, <2>1
  <2>3. Len(ask.prefill) \in Nat /\ Len(ask.stops[h[1]]) \in Nat
    BY <1>2, <2>2, Counted
  <2>4. h[2] + Len(ask.stops[h[1]]) <= Len(ask.prefill)
    BY <2>1 DEF HasAt
  <2>. QED  BY <2>1, <2>2, <2>3, <2>4
<1>6. StopsOf(ask, ask.prefill) = {}
  BY <1>5
<1>. QED  BY <1>1, <1>3, <1>4, <1>6 DEF CutInv, CutAs

\* The tokens generated, and one more.
LEMMA OneMore ==
  ASSUME NEW a, IsSequence(a.prefill), NEW tokens, TokensOK(tokens), NEW t, IsSequence(t)
  PROVE  LET more == Append(tokens, t)
             s == GeneratedOf(a, tokens, Len(tokens))
         IN  /\ TokensOK(more) /\ Len(more) = Len(tokens) + 1 /\ Len(tokens) \in Nat
             /\ GeneratedOf(a, more, Len(more)) = s \o t
             /\ GeneratedOf(a, more, Len(more) - 1) = s
             /\ IsSequence(s) /\ Len(a.prefill) <= Len(s) /\ Len(a.prefill) \in Nat
<1>. DEFINE more == Append(tokens, t)
            n == Len(tokens)
            s == GeneratedOf(a, tokens, n)
<1>1. IsSequence(tokens) /\ \A k \in DOMAIN tokens : IsSequence(tokens[k])
  BY DEF TokensOK
<1>2. /\ DOMAIN tokens = 1 .. n /\ n \in Nat /\ DOMAIN more = 1 .. n + 1 /\ more[n + 1] = t /\ IsSequence(more)
      /\ \A k \in 1 .. n : more[k] = tokens[k]
  BY <1>1, AppendedAny
<1>3. Len(more) = n + 1 /\ First(more, n) = tokens
  <2>1. First(more, n) = tokens
    BY <1>1, Appends
  <2>2. DOMAIN more = 1 .. Len(more) /\ Len(more) \in Nat
    <3>. HIDE DEF more
    <3>. QED  BY <1>2, Counted
  <2>. HIDE DEF more
  <2>3. Len(more) = n + 1
    <3>1. 1 .. Len(more) = 1 .. n + 1
      BY <1>2, <2>2
    <3>. QED  BY <1>2, <2>2, <3>1
  <2>. QED  BY <2>1, <2>3
<1>4. TokensOK(more)
  <2>1. \A k \in 1 .. n + 1 : k = n + 1 \/ k \in 1 .. n
    BY <1>2
  <2>. HIDE DEF more
  <2>. QED  BY <1>1, <1>2, <2>1 DEF TokensOK
<1>5. FlattenSeq(more) = FlattenSeq(tokens) \o t /\ IsSequence(FlattenSeq(tokens))
  BY <1>1, FlatAppend
<1>6. First(tokens, n) = tokens /\ First(more, n + 1) = more
  BY <1>1, <1>2, <1>3, AllOf
<1>7. s = a.prefill \o FlattenSeq(tokens)
  BY <1>6 DEF GeneratedOf
<1>8. IsSequence(s) /\ Len(a.prefill) <= Len(s) /\ Len(a.prefill) \in Nat
  <2>. DEFINE flat == FlattenSeq(tokens)
  <2>. HIDE DEF flat, s
  <2>1. IsSequence(flat) /\ s = a.prefill \o flat
    BY <1>5, <1>7 DEF flat
  <2>2. IsSequence(a.prefill \o flat) /\ Len(a.prefill \o flat) = Len(a.prefill) + Len(flat)
        /\ Len(a.prefill) \in Nat /\ Len(flat) \in Nat
    BY <2>1, Concats
  <2>. QED  BY <2>1, <2>2
<1>9. GeneratedOf(a, more, n + 1) = s \o t
  <2>. DEFINE flat == FlattenSeq(tokens)
  <2>1. GeneratedOf(a, more, n + 1) = a.prefill \o (flat \o t)
    BY <1>5, <1>6 DEF GeneratedOf
  <2>2. IsSequence(flat) /\ s = a.prefill \o flat
    BY <1>5, <1>7
  <2>. HIDE DEF flat, s, more
  <2>3. (a.prefill \o flat) \o t = a.prefill \o (flat \o t)
    <3>. DEFINE r == a.prefill
    <3>1. IsSequence(r)
      OBVIOUS
    <3>. HIDE DEF r
    <3>2. (r \o flat) \o t = r \o (flat \o t)
      BY ONLY <2>2, <3>1, Associates, IsSequence(t)
    <3>. QED  BY <3>2 DEF r
  <2>. QED
    <3>. HIDE DEF n
    <3>. QED  BY <2>1, <2>2, <2>3
<1>10. GeneratedOf(a, more, n) = s
  BY <1>3, <1>7 DEF GeneratedOf
<1>11. Len(more) - 1 = n
  BY <1>2, <1>3
<1>. HIDE DEF more, s
<1>12. /\ TokensOK(more) /\ Len(more) = n + 1 /\ n \in Nat
       /\ GeneratedOf(a, more, Len(more)) = s \o t /\ GeneratedOf(a, more, Len(more) - 1) = s
       /\ IsSequence(s) /\ Len(a.prefill) <= Len(s) /\ Len(a.prefill) \in Nat
  BY <1>2, <1>3, <1>4, <1>8, <1>9, <1>10, <1>11
<1>. QED  BY <1>12 DEF more, s

LEMMA CutTake ==
  ASSUME ReplyAssumption, CutInv, NEW t \in Tokens(ask), NEW short, Take(t, short)
  PROVE  CutInv'
<1>. DEFINE more == Append(taken, t)
            n == Len(taken)
            s == GeneratedOf(ask, taken, n)
            u == s \o t
            hits == Stopped(u, Len(s), Len(ask.prefill))
<1>1. ask \in Asks /\ TokensOK(taken) /\ CutAs(ask, taken, text, stop) /\ pc = "taking" /\ StopsOf(ask, s) = {}
  BY DEF CutInv, Take
<1>2. StopsOK /\ IsSequence(ask.prefill) /\ IsSequence(t)
  BY <1>1, AsksOK DEF StopsOK
<1>3. text = s /\ stop = 0
  BY <1>1 DEF CutAs
<1>4. /\ TokensOK(more) /\ GeneratedOf(ask, more, Len(more)) = u /\ GeneratedOf(ask, more, Len(more) - 1) = s
      /\ IsSequence(s) /\ Len(ask.prefill) <= Len(s) /\ Len(ask.prefill) \in Nat
  BY <1>1, <1>2, OneMore
<1>5. /\ ask' = ask /\ taken' = more
      /\ IF hits # {} THEN /\ text' = First(u, find_stop(hits)[2]) /\ stop' = find_stop(hits)[1]
                           /\ pc' = "ended"
         ELSE text' = u /\ stop' = stop
  BY <1>3 DEF Take
<1>6. StopsIn(s) = {}
  BY <1>1, Restated
<1>7. /\ hits \subseteq StopsIn(u)
      /\ \A h \in StopsIn(u) : \E o \in hits : o[1] = h[1] /\ o[2] <= h[2]
      /\ \A h \in hits, o \in StopsIn(u) : o[1] = h[1] => h[2] <= o[2]
  BY <1>2, <1>4, <1>6, Search
<1>8. IsSequence(u) /\ Len(u) \in Nat
  BY <1>2, <1>4, Concats, Counted
<1>9. /\ hits \subseteq (DOMAIN ask.stops) \X (0 .. Len(u))
      /\ \A h \in StopsIn(u) : h[1] \in Nat /\ h[2] \in Nat
  <2>1. DOMAIN ask.stops \subseteq Nat
    BY <1>2, Counted DEF StopsOK
  <2>2. StopsIn(u) \subseteq (DOMAIN ask.stops) \X (Len(ask.prefill) .. Len(u))
    BY DEF StopsIn
  <2>3. hits \subseteq (DOMAIN ask.stops) \X (0 .. Len(u))
    BY DEF Stopped
  <2>. HIDE DEF hits, u
  <2>4. ASSUME NEW h \in StopsIn(u) PROVE h[1] \in Nat /\ h[2] \in Nat
    <3>1. h \in (DOMAIN ask.stops) \X (Len(ask.prefill) .. Len(u))
      BY <2>2
    <3>2. h[1] \in DOMAIN ask.stops /\ h[2] \in Len(ask.prefill) .. Len(u)
      BY <3>1
    <3>. QED  BY <1>4, <1>8, <2>1, <3>2
  <2>. QED  BY <2>3, <2>4
<1>. HIDE DEF u, hits, more, s
<1>10. CutAs(ask, more, text', stop') /\ (pc' = "taking" => StopsOf(ask, u) = {})
  <2>1. CASE hits = {}
    <3>1. StopsOf(ask, u) = {}
      BY <1>7, <2>1, Restated
    <3>. QED  BY <1>3, <1>4, <1>5, <2>1, <3>1 DEF CutAs
  <2>2. CASE hits # {}
    <3>. DEFINE b == find_stop(hits)
                at == Min({h[2] : h \in StopsIn(u)})
                There == {k \in StopsIn(u) : k[2] = b[2]}
    <3>1. /\ b \in hits /\ b \in StopsIn(u)
          /\ \A o \in hits : b[2] < o[2] \/ (b[2] = o[2] /\ b[1] <= o[1])
      BY <1>2, <1>7, <1>8, <1>9, <2>2, FirstStop
    <3>. HIDE DEF b
    <3>2. ASSUME NEW h \in StopsIn(u) PROVE b[2] < h[2] \/ (b[2] = h[2] /\ b[1] <= h[1])
      <4>1. PICK o \in hits : o[1] = h[1] /\ o[2] <= h[2]
        BY <1>7
      <4>2. b[1] \in Nat /\ b[2] \in Nat /\ o[1] \in Nat /\ o[2] \in Nat /\ h[1] \in Nat /\ h[2] \in Nat
        BY <1>7, <1>9, <3>1
      <4>. QED  BY <3>1, <4>1, <4>2
    <3>3. at = b[2]
      <4>. DEFINE S == {h[2] : h \in StopsIn(u)}
      <4>1. S \subseteq Nat /\ b[2] \in S
        BY <1>9, <3>1
      <4>2. \A h \in StopsIn(u) : b[2] <= h[2]
        BY <1>9, <3>1, <3>2
      <4>3. \A m \in S : b[2] <= m
        BY <4>2
      <4>. HIDE DEF S
      <4>4. Min(S) = b[2]
        BY <4>1, <4>3, Smallest
      <4>. QED  BY <4>4 DEF S
    <3>4. Min({h[1] : h \in There}) = b[1]
      <4>. DEFINE S == {h[1] : h \in There}
      <4>1. S \subseteq Nat /\ b[1] \in S
        BY <1>9, <3>1
      <4>2. \A h \in There : b[1] <= h[1]
        BY <1>9, <3>1, <3>2
      <4>3. \A m \in S : b[1] <= m
        BY <4>2
      <4>. HIDE DEF S
      <4>4. Min(S) = b[1]
        BY <4>1, <4>3, Smallest
      <4>. QED  BY <4>4 DEF S
    <3>5. StopsOf(ask, u) = StopsIn(u) /\ StopsIn(u) # {} /\ StopsOf(ask, s) = {}
      BY <1>1, <3>1, Restated
    <3>6. text' = First(u, b[2]) /\ stop' = b[1] /\ pc' = "ended"
      BY <1>5, <2>2 DEF b
    <3>7. CutAs(ask, more, text', stop') <=>
            /\ text' = First(u, at)
            /\ stop' = Min({h[1] : h \in {k \in StopsIn(u) : k[2] = at}})
            /\ StopsOf(ask, s) = {}
      BY <1>4, <3>5 DEF CutAs
    <3>. QED  BY <3>3, <3>4, <3>5, <3>6, <3>7
  <2>. QED  BY <2>1, <2>2
<1>. QED  BY <1>1, <1>4, <1>5, <1>10 DEF CutInv

LEMMA CutStutter ==
  ASSUME CutInv, ask' = ask, taken' = taken, text' = text, stop' = stop, pc' # "taking" \/ pc' = pc
  PROVE  CutInv'
BY DEF CutInv

LEMMA CutNext ==
  ASSUME ReplyAssumption, CutInv, Next
  PROVE  CutInv'
<1>1. ASSUME NEW t \in Tokens(ask), NEW short \in MayBeShort, Take(t, short) PROVE CutInv'
  BY <1>1, CutTake
<1>2. ASSUME TakeLast \/ RunOut \/ StepFails \/ (\E short \in MayBeShort : End(short)) \/ EndFailed \/ Terminated PROVE CutInv'
  <2>1. ask' = ask /\ taken' = taken /\ text' = text /\ stop' = stop /\ (pc' # "taking" \/ pc' = pc)
    BY <1>2 DEF TakeLast, RunOut, StepFails, End, EndFailed, Terminated, vars
  <2>. QED  BY <2>1, CutStutter
<1>. QED  BY <1>1, <1>2 DEF Next

\* CutAtFirstStop, in every state: the text is cut at the first stop sequence that
\* the tokens complete, however they cut it (api.c's take_token and find_stop).
THEOREM FirstStopCuts == ReplyAssumption => (Spec => []CutAtFirstStop)
<1>1. ASSUME ReplyAssumption PROVE Spec => []CutAtFirstStop
  <2>1. Init => CutInv
    BY <1>1, CutInit
  <2>2. CutInv /\ [Next]_vars => CutInv'
    BY <1>1, CutNext, CutStutter DEF vars
  <2>3. CutInv => CutAtFirstStop
    BY Restated DEF CutInv
  <2>. QED  BY <2>1, <2>2, <2>3, PTL DEF Spec
<1>. QED  BY <1>1

=============================================================================
