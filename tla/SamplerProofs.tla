--------------------------- MODULE SamplerProofs ----------------------------
(***************************************************************************)
(* Proofs about Sampler, for any vocabulary, keys and digits, and any top-k*)
(* and top-p: each token is drawn for its share.                           *)
(***************************************************************************)
EXTENDS Sampler, FiniteSetTheorems, WellFoundedInduction, TLAPS

-----------------------------------------------------------------------------
(* Natural numbers.  A set of them that has 0 and every successor has them    *)
(* all, since what it lacks would have a least member (WFMin, which unlike    *)
(* the library's induction theorems has no operator among its parameters).   *)

Below == {ss \in Nat \X Nat : ss[1] < ss[2]}

LEMMA NatLeast ==
  ASSUME NEW S, S \subseteq Nat, S # {}
  PROVE  \E n \in S : \A m \in S : n <= m
<1>1. IsWellFoundedOn(Below, Nat)
  BY NatLessThanWellFounded DEF OpToRel, Below
<1>2. PICK n \in S : \A m \in S : <<m, n>> \notin Below
  BY <1>1, WFMin
<1>3. ASSUME NEW m \in S PROVE n <= m
  <2>1. n \in Nat /\ m \in Nat /\ <<m, n>> \in Nat \X Nat
    OBVIOUS
  <2>2. ~(m < n)
    BY <1>2, <2>1 DEF Below
  <2>. QED  BY <2>1, <2>2
<1>. QED  BY <1>3

LEMMA NatSet ==
  ASSUME NEW S, 0 \in S, \A n \in Nat : n \in S => n + 1 \in S
  PROVE  \A n \in Nat : n \in S
<1>. DEFINE Out == Nat \ S
<1>1. SUFFICES ASSUME Out # {} PROVE FALSE
  OBVIOUS
<1>2. PICK n \in Out : \A m \in Out : n <= m
  BY <1>1, NatLeast
<1>3. n - 1 \in Nat /\ n - 1 \in S
  <2>1. n \in Nat /\ n # 0
    OBVIOUS
  <2>2. n - 1 \in Nat /\ ~(n <= n - 1)
    BY <2>1
  <2>. QED  BY <1>2, <2>2
<1>. QED  BY <1>2, <1>3

\* Min, and that a set of numbers has one.
LEMMA Least ==
  ASSUME NEW S, S \subseteq Nat, S # {}
  PROVE  Min(S) \in S /\ \A m \in S : Min(S) <= m
BY NatLeast DEF Min

\* Products keep the order.
LEMMA Times ==
  ASSUME NEW a \in Int, NEW b \in Int, NEW m \in Nat
  PROVE  /\ a * m \in Int /\ (a + b) * m = a * m + b * m /\ (a - b) * m = a * m - b * m
         /\ a <= b => a * m <= b * m
         /\ m > 0 /\ a < b => a * m + m <= b * m
<1>1. a * m \in Int /\ b * m \in Int /\ (a + b) * m = a * m + b * m /\ (a - b) * m = a * m - b * m
  OBVIOUS
<1>2. ASSUME a <= b PROVE a * m <= b * m
  <2>1. (b - a) \in Nat
    BY <1>2
  <2>2. (b - a) * m >= 0
    BY <2>1
  <2>3. (b - a) * m = b * m - a * m
    OBVIOUS
  <2>. QED  BY <1>1, <2>2, <2>3
<1>3. ASSUME m > 0, a < b PROVE a * m + m <= b * m
  <2>1. (b - a - 1) \in Nat
    BY <1>3
  <2>2. (b - a - 1) * m >= 0
    BY <2>1
  <2>3. (b - a - 1) * m = b * m - a * m - m
    OBVIOUS
  <2>. QED  BY <1>1, <2>2, <2>3
<1>. QED  BY <1>1, <1>2, <1>3

\* Division leaves one remainder.
LEMMA Divided ==
  ASSUME NEW a \in Nat, NEW m \in Nat \ {0}
  PROVE  /\ a \div m \in Nat /\ a % m \in Nat /\ a % m < m
         /\ a = (a \div m) * m + (a % m)
OBVIOUS

LEMMA Remainder ==
  ASSUME NEW a \in Nat, NEW m \in Nat \ {0}, NEW q \in Nat, NEW r \in Nat, r < m, a = q * m + r
  PROVE  a \div m = q /\ a % m = r
<1>. DEFINE p == a \div m
            s == a % m
<1>1. p \in Nat /\ s \in Nat /\ s < m /\ a = p * m + s
  BY Divided
<1>. HIDE DEF p, s
<1>2. p * m \in Int /\ q * m \in Int
  BY <1>1, Times
<1>3. ~(p < q)
  <2>1. p < q => p * m + m <= q * m
    BY <1>1, Times
  <2>. QED  BY <1>1, <1>2, <2>1
<1>4. ~(q < p)
  <2>1. q < p => q * m + m <= p * m
    BY <1>1, Times
  <2>. QED  BY <1>1, <1>2, <2>1
<1>5. p = q
  BY <1>1, <1>3, <1>4
<1>. QED  BY <1>1, <1>2, <1>5 DEF p, s

\* A number's last digits, of which the first is one of n.
LEMMA Digits ==
  ASSUME NEW a \in Nat, NEW m \in Nat \ {0}, NEW n \in Nat \ {0}
  PROVE  LET digit == (a \div m) % n
         IN  m * n \in Nat \ {0} /\ digit \in Nat /\ a % m \in Nat /\ a % m < m /\ a % (m * n) = digit * m + (a % m)
<1>. DEFINE h == a \div m
            r == a % m
            q == h \div n
            digit == h % n
<1>1. h \in Nat /\ r \in Nat /\ r < m /\ a = h * m + r
  BY Divided
<1>. HIDE DEF h, r
<1>2. q \in Nat /\ digit \in Nat /\ digit < n /\ h = q * n + digit
  BY <1>1, Divided
<1>. HIDE DEF q, digit
<1>3. m * n \in Nat \ {0} /\ m * n = n * m
  <2>1. 0 * m + m <= n * m
    BY Times
  <2>. QED  BY <2>1
<1>4. digit * m \in Nat /\ digit * m + m <= n * m
  <2>1. 0 * m <= digit * m
    BY <1>2, Times
  <2>. QED  BY <1>2, <2>1, Times
<1>5. a = q * (m * n) + (digit * m + r)
  <2>1. h * m = (q * n) * m + digit * m
    BY <1>2, Times
  <2>2. (q * n) * m = q * (m * n)
    BY <1>2
  <2>. QED  BY <1>1, <1>2, <1>3, <1>4, <2>1, <2>2
<1>6. digit * m + r \in Nat /\ digit * m + r < m * n
  BY <1>1, <1>3, <1>4
<1>7. a % (m * n) = digit * m + r
  BY <1>2, <1>3, <1>5, <1>6, Remainder
<1>. QED  BY <1>1, <1>2, <1>3, <1>7 DEF h, r, digit

-----------------------------------------------------------------------------
(* What a row is, and what the running sums of its tokens are. *)

RowOK ==
  /\ KEYS \in Nat \ {0} /\ RADIX_SIZE \in Nat \ {0, 1} /\ WHOLE \in Nat \ {0}
  /\ Len(probs) \in Nat \ {0} /\ Ids \subseteq Nat
  /\ \A i \in Ids : probs[i] \in 0 .. KEYS - 1
  /\ \E i \in Ids : probs[i] > 0
  /\ cfg.hot \in BOOLEAN /\ cfg.top_k \in Nat /\ cfg.top_p \in Nat

LEMMA RowFacts ==
  ASSUME SamplerAssumption, probs \in Rows, cfg \in Settings
  PROVE  RowOK
<1>1. probs \in Seq(0 .. KEYS - 1) /\ \E i \in DOMAIN probs : probs[i] > 0
  BY DEF SamplerAssumption
<1>2. /\ Len(probs) \in Nat /\ DOMAIN probs = Ids
      /\ \A i \in 1 .. Len(probs) : probs[i] \in 0 .. KEYS - 1
  <2>. DEFINE T == 0 .. KEYS - 1
  <2>1. probs \in Seq(T)
    BY <1>1
  <2>. HIDE DEF T
  <2>2. Len(probs) \in Nat /\ DOMAIN probs = 1 .. Len(probs) /\ \A i \in 1 .. Len(probs) : probs[i] \in T
    BY <2>1
  <2>. QED  BY <2>2 DEF T, Ids
<1>3. Len(probs) # 0 /\ \E i \in Ids : probs[i] > 0
  BY <1>1, <1>2 DEF Ids
<1>4. cfg.hot \in BOOLEAN /\ cfg.top_k \in Nat /\ cfg.top_p \in Nat
  BY DEF SamplerAssumption
<1>. QED  BY <1>2, <1>3, <1>4 DEF RowOK, Ids, SamplerAssumption

LEMMA RunningIs ==
  ASSUME RowOK, NEW f \in [Ids -> Nat]
  PROVE  /\ \A n \in 0 .. Len(probs) : Running(f)[n] \in Nat
         /\ Running(f)[0] = 0
         /\ \A n \in Ids : Running(f)[n] = Running(f)[n - 1] + f[n]
<1>. DEFINE L == Len(probs)
            Sums(h) == [n \in {0} \cup DOMAIN f |-> IF n = 0 THEN 0 ELSE h[n - 1] + f[n]]
            cum == CHOOSE h : h = Sums(h)
            Done(m) == m <= L => \E h \in [0 .. m -> Nat] : h[0] = 0 /\ \A n \in 1 .. m : h[n] = h[n - 1] + f[n]
            Ms == {m \in Nat : Done(m)}
<1>0. {0} \cup DOMAIN f = 0 .. L
  BY DEF RowOK, Ids
<1>1. L \in Nat /\ \A n \in 1 .. L : f[n] \in Nat
  BY DEF RowOK, Ids
<1>. HIDE DEF L
<1>2. 0 \in Ms
  <2>1. [n \in 0 .. 0 |-> 0] \in [0 .. 0 -> Nat] /\ [n \in 0 .. 0 |-> 0][0] = 0 /\ 1 .. 0 = {}
    OBVIOUS
  <2>2. \E h \in [0 .. 0 -> Nat] : h[0] = 0 /\ \A n \in 1 .. 0 : h[n] = h[n - 1] + f[n]
    BY <2>1
  <2>. QED  BY <2>2
<1>3. ASSUME NEW m \in Nat, m \in Ms PROVE m + 1 \in Ms
  <2>1. SUFFICES ASSUME m + 1 <= L
                 PROVE  \E h \in [0 .. m + 1 -> Nat] : h[0] = 0 /\ \A n \in 1 .. m + 1 : h[n] = h[n - 1] + f[n]
    OBVIOUS
  <2>2. PICK h \in [0 .. m -> Nat] : h[0] = 0 /\ \A n \in 1 .. m : h[n] = h[n - 1] + f[n]
    <3>1. m <= L
      BY <1>1, <1>3, <2>1
    <3>2. Done(m)
      <4>. HIDE DEF Done
      <4>. QED  BY <1>3, Zenon
    <3>. QED  BY <3>1, <3>2
  <2>3. h[m] \in Nat /\ f[m + 1] \in Nat
    BY <1>1, <2>1
  <2>. DEFINE g == [n \in 0 .. m + 1 |-> IF n = m + 1 THEN h[m] + f[m + 1] ELSE h[n]]
  <2>4. g \in [0 .. m + 1 -> Nat] /\ g[0] = 0
    BY <2>2, <2>3
  <2>5. ASSUME NEW n \in 1 .. m + 1 PROVE g[n] = g[n - 1] + f[n]
    <3>1. n - 1 \in 0 .. m + 1 /\ n - 1 # m + 1 /\ n \in 0 .. m + 1 /\ g[n - 1] = h[n - 1]
      OBVIOUS
    <3>2. n # m + 1 => n \in 1 .. m
      OBVIOUS
    <3>. QED  BY <2>2, <2>3, <3>1, <3>2
  <2>. HIDE DEF g
  <2>. QED  BY <2>4, <2>5
<1>4. L \in Ms
  <2>. HIDE DEF Ms
  <2>. QED  BY <1>1, <1>2, <1>3, NatSet
<1>5. PICK h \in [0 .. L -> Nat] : h[0] = 0 /\ \A n \in 1 .. L : h[n] = h[n - 1] + f[n]
  BY <1>1, <1>4
<1>6. h = Sums(h)
  <2>1. ASSUME NEW n \in 0 .. L PROVE h[n] = IF n = 0 THEN 0 ELSE h[n - 1] + f[n]
    <3>1. n # 0 => n \in 1 .. L
      BY <1>1
    <3>. QED  BY <1>5, <3>1
  <2>2. h = [n \in 0 .. L |-> IF n = 0 THEN 0 ELSE h[n - 1] + f[n]]
    BY <2>1
  <2>. QED  BY <1>0, <2>2
<1>7. cum = [n \in 0 .. L |-> IF n = 0 THEN 0 ELSE cum[n - 1] + f[n]]
  <2>1. cum = Sums(cum)
    BY <1>6
  <2>. HIDE DEF cum
  <2>. QED  BY <1>0, <2>1
<1>8. cum = Running(f)
  BY Zenon DEF Running
<1>. HIDE DEF cum
<1>9. cum[0] = 0 /\ \A n \in 1 .. L : cum[n] = cum[n - 1] + f[n]
  <2>1. cum[0] = 0
    BY <1>1, <1>7
  <2>2. ASSUME NEW n \in 1 .. L PROVE cum[n] = cum[n - 1] + f[n]
    <3>1. n \in 0 .. L /\ n # 0
      BY <1>1
    <3>. QED  BY <1>7, <3>1
  <2>. QED  BY <2>1, <2>2
<1>10. \A n \in Nat : n \in {m \in Nat : m <= L => cum[m] \in Nat}
  <2>1. ASSUME NEW n \in Nat, n <= L => cum[n] \in Nat, n + 1 <= L PROVE cum[n + 1] \in Nat
    <3>1. n + 1 \in 1 .. L /\ (n + 1) - 1 = n /\ n <= L
      BY <1>1, <2>1
    <3>2. cum[n + 1] = cum[n] + f[n + 1] /\ f[n + 1] \in Nat
      BY <1>1, <1>9, <3>1
    <3>. QED  BY <2>1, <3>1, <3>2
  <2>. DEFINE S == {m \in Nat : m <= L => cum[m] \in Nat}
  <2>2. 0 \in S /\ \A n \in Nat : n \in S => n + 1 \in S
    BY <1>9, <2>1
  <2>. HIDE DEF S
  <2>3. \A n \in Nat : n \in S
    BY <2>2, NatSet
  <2>. QED  BY <2>3 DEF S
<1>. QED  BY <1>1, <1>8, <1>9, <1>10 DEF L, Ids

\* They never fall, and one that rises does so by a part.
LEMMA RunningGrows ==
  ASSUME RowOK, NEW f \in [Ids -> Nat], NEW m \in 0 .. Len(probs), NEW n \in 0 .. Len(probs), m <= n
  PROVE  Running(f)[m] <= Running(f)[n]
<1>. DEFINE cum == Running(f)
            L == Len(probs)
            S == {k \in Nat : m + k <= L => cum[m] <= cum[m + k]}
<1>1. L \in Nat /\ \A k \in 0 .. L : cum[k] \in Nat
  BY RunningIs DEF RowOK
<1>2. \A k \in 1 .. L : cum[k] = cum[k - 1] + f[k] /\ f[k] \in Nat
  BY RunningIs DEF Ids
<1>. HIDE DEF cum, L
<1>3. m \in Nat /\ m <= L /\ n \in Nat /\ n <= L
  BY <1>1 DEF L
<1>4. 0 \in S
  BY <1>1, <1>3
<1>5. ASSUME NEW k \in Nat, k \in S PROVE k + 1 \in S
  <2>1. SUFFICES ASSUME m + (k + 1) <= L PROVE cum[m] <= cum[m + (k + 1)]
    OBVIOUS
  <2>2. m + k + 1 \in 1 .. L /\ (m + k + 1) - 1 = m + k /\ m + k \in 0 .. L /\ m + (k + 1) = m + k + 1
    BY <1>1, <1>3, <2>1
  <2>3. cum[m + k + 1] = cum[m + k] + f[m + k + 1] /\ f[m + k + 1] \in Nat /\ cum[m + k] \in Nat /\ cum[m] \in Nat
    BY <1>1, <1>2, <1>3, <2>2
  <2>4. cum[m] <= cum[m + k]
    BY <1>5, <2>2, <1>1
  <2>. QED  BY <2>2, <2>3, <2>4
<1>6. n - m \in Nat /\ m + (n - m) = n
  BY <1>3
<1>7. n - m \in S
  <2>. HIDE DEF S
  <2>. QED  BY <1>4, <1>5, <1>6, NatSet
<1>. QED  BY <1>3, <1>6, <1>7 DEF cum

\* The mass of a set with one token more.
LEMMA MassMore ==
  ASSUME RowOK, NEW S, NEW x \in Ids, x \notin S
  PROVE  MassOf(S) \in Nat /\ MassOf(S \cup {x}) = MassOf(S) + probs[x]
<1>. DEFINE f == [i \in Ids |-> IF i \in S THEN probs[i] ELSE 0]
            g == [i \in Ids |-> IF i \in S \cup {x} THEN probs[i] ELSE 0]
            L == Len(probs)
            Ms == {n \in Nat : n <= L => Running(g)[n] = Running(f)[n] + IF x <= n THEN probs[x] ELSE 0}
<1>1. L \in Nat /\ x \in 1 .. L /\ Ids = 1 .. L /\ \A i \in Ids : probs[i] \in Nat
  BY DEF RowOK, Ids
<1>2. f \in [Ids -> Nat] /\ g \in [Ids -> Nat] /\ \A i \in Ids : g[i] = IF i = x THEN probs[x] ELSE f[i]
  BY <1>1
<1>3. f[x] = 0
  OBVIOUS
<1>. HIDE DEF f, g
<1>4. /\ \A n \in 0 .. L : Running(f)[n] \in Nat /\ Running(g)[n] \in Nat
      /\ Running(f)[0] = 0 /\ Running(g)[0] = 0
      /\ \A n \in Ids : Running(f)[n] = Running(f)[n - 1] + f[n] /\ Running(g)[n] = Running(g)[n - 1] + g[n]
  BY <1>2, RunningIs
<1>. HIDE DEF L
<1>5. 0 \in Ms
  BY <1>1, <1>4
<1>6. ASSUME NEW n \in Nat, n \in Ms PROVE n + 1 \in Ms
  <2>1. SUFFICES ASSUME n + 1 <= L PROVE Running(g)[n + 1] = Running(f)[n + 1] + IF x <= n + 1 THEN probs[x] ELSE 0
    OBVIOUS
  <2>2. n + 1 \in Ids /\ (n + 1) - 1 = n /\ n \in 0 .. L
    BY <1>1, <2>1
  <2>3. Running(g)[n] = Running(f)[n] + IF x <= n THEN probs[x] ELSE 0
    BY <1>1, <1>6, <2>1
  <2>4. Running(f)[n + 1] = Running(f)[n] + f[n + 1] /\ Running(g)[n + 1] = Running(g)[n] + g[n + 1]
    BY <1>4, <2>2
  <2>5. Running(f)[n] \in Nat /\ f[n + 1] \in Nat /\ probs[x] \in Nat
    BY <1>1, <1>2, <1>4, <2>2
  <2>6. CASE n + 1 = x
    <3>1. ~(x <= n) /\ x <= n + 1 /\ f[n + 1] = 0 /\ g[n + 1] = probs[x]
      BY <1>1, <1>2, <1>3, <2>2, <2>6
    <3>2. Running(g)[n] = Running(f)[n]
      BY <2>3, <2>5, <3>1
    <3>. QED  BY <2>4, <2>5, <3>1, <3>2
  <2>7. CASE n + 1 # x
    <3>1. x <= n + 1 <=> x <= n
      BY <1>1, <2>7
    <3>2. g[n + 1] = f[n + 1]
      BY <1>2, <2>2, <2>7
    <3>. QED  BY <2>3, <2>4, <2>5, <3>1, <3>2
  <2>. QED  BY <2>6, <2>7
<1>7. L \in Ms
  <2>. HIDE DEF Ms
  <2>. QED  BY <1>1, <1>5, <1>6, NatSet
<1>8. x <= L /\ L \in 0 .. L
  BY <1>1
<1>9. MassOf(S) = Running(f)[L] /\ MassOf(S \cup {x}) = Running(g)[L]
  BY DEF MassOf, f, g, L
<1>. QED  BY <1>1, <1>4, <1>7, <1>8, <1>9

LEMMA MassNone ==
  ASSUME RowOK
  PROVE  MassOf({}) = 0
<1>. DEFINE f == [i \in Ids |-> IF i \in {} THEN probs[i] ELSE 0]
            L == Len(probs)
            Ms == {n \in Nat : n <= L => Running(f)[n] = 0}
<1>1. f \in [Ids -> Nat] /\ \A i \in Ids : f[i] = 0
  OBVIOUS
<1>. HIDE DEF f
<1>2. L \in Nat /\ Ids = 1 .. L
  BY DEF RowOK, Ids
<1>3. Running(f)[0] = 0 /\ \A n \in Ids : Running(f)[n] = Running(f)[n - 1] + f[n]
  BY <1>1, RunningIs
<1>. HIDE DEF L
<1>4. 0 \in Ms
  BY <1>3
<1>5. ASSUME NEW n \in Nat, n \in Ms PROVE n + 1 \in Ms
  <2>1. SUFFICES ASSUME n + 1 <= L PROVE Running(f)[n + 1] = 0
    OBVIOUS
  <2>2. n + 1 \in Ids /\ (n + 1) - 1 = n /\ n <= L
    BY <1>2, <2>1
  <2>. QED  BY <1>1, <1>3, <1>5, <2>2
<1>6. L \in Ms
  <2>. HIDE DEF Ms
  <2>. QED  BY <1>2, <1>4, <1>5, NatSet
<1>7. MassOf({}) = Running(f)[L]
  BY DEF MassOf, f, L
<1>. QED  BY <1>2, <1>6, <1>7

-----------------------------------------------------------------------------
(* The sort.  Before each pass the ids are in the order of their keys' digits *)
(* below it, those of equal digits in their own order.                        *)

Rem(i, u) == Key(i) % u
Before(x, y, u) == Rem(x, u) < Rem(y, u) \/ (Rem(x, u) = Rem(y, u) /\ x < y)

Sorted(ids, u) ==
  /\ u \in Nat \ {0} /\ ids \in [Ids -> Ids]
  /\ \A i \in Ids : \E k \in Ids : ids[k] = i
  /\ \A j, k \in Ids : j < k => Before(ids[j], ids[k], u)

SortedOK == Sorted(order, unit)

\* The j-th of the order is placed before the k-th.
Earlier(j, k) == Digit(order[j]) < Digit(order[k]) \/ (Digit(order[j]) = Digit(order[k]) /\ j < k)

LEMMA KeyFacts ==
  ASSUME RowOK, NEW i \in Ids
  PROVE  Key(i) \in Nat /\ Key(i) < KEYS
<1>1. probs[i] \in 0 .. KEYS - 1 /\ KEYS \in Nat
  BY DEF RowOK
<1>. QED  BY <1>1 DEF Key

LEMMA IdsFinite ==
  ASSUME RowOK
  PROVE  IsFiniteSet(Ids) /\ Cardinality(Ids) = Len(probs) /\ Ids = 1 .. Len(probs) /\ Len(probs) \in Nat
<1>1. Len(probs) \in Nat /\ Len(probs) # 0
  BY DEF RowOK
<1>2. IsFiniteSet(1 .. Len(probs)) /\ Cardinality(1 .. Len(probs)) = Len(probs)
  <2>. DEFINE L == Len(probs)
  <2>. HIDE DEF L
  <2>1. L \in Nat /\ L # 0
    BY <1>1 DEF L
  <2>2. IsFiniteSet(1 .. L) /\ Cardinality(1 .. L) = IF 1 > L THEN 0 ELSE L - 1 + 1
    BY <2>1, FS_Interval
  <2>3. Cardinality(1 .. L) = L
    BY <2>1, <2>2
  <2>. QED  BY <2>2, <2>3 DEF L
<1>. QED  BY <1>1, <1>2 DEF Ids

LEMMA DigitFacts ==
  ASSUME RowOK, SortedOK, NEW i \in Ids
  PROVE  /\ Digit(i) \in Nat /\ Rem(i, unit) \in Nat /\ Rem(i, unit) < unit
         /\ unit * RADIX_SIZE \in Nat \ {0}
         /\ Key(i) % (unit * RADIX_SIZE) = Digit(i) * unit + Rem(i, unit)
<1>1. Key(i) \in Nat /\ unit \in Nat \ {0} /\ RADIX_SIZE \in Nat \ {0}
  BY KeyFacts DEF RowOK, SortedOK, Sorted
<1>2. /\ unit * RADIX_SIZE \in Nat \ {0} /\ (Key(i) \div unit) % RADIX_SIZE \in Nat
      /\ Key(i) % unit \in Nat /\ Key(i) % unit < unit
      /\ Key(i) % (unit * RADIX_SIZE) = ((Key(i) \div unit) % RADIX_SIZE) * unit + (Key(i) % unit)
  BY <1>1, Digits
<1>. QED  BY <1>2 DEF Digit, Rem

\* A pass puts the ids in places of their own, in the order of Earlier.
LEMMA Placed ==
  ASSUME RowOK, SortedOK, NEW k \in Ids
  PROVE  /\ Place(k) \in Ids
         /\ \A j \in Ids : Place(j) < Place(k) => Earlier(j, k)
<1>. DEFINE Sooner(m) == {j \in Ids : Earlier(j, m)}
<1>1. \A m \in Ids : Place(m) = 1 + Cardinality(Sooner(m))
  BY DEF Place, Earlier
<1>2. \A m \in Ids : order[m] \in Ids /\ Digit(order[m]) \in Int /\ m \in Int
  <2>1. \A m \in Ids : order[m] \in Ids /\ m \in Int
    BY DEF SortedOK, Sorted, RowOK
  <2>. QED  BY <2>1, DigitFacts
<1>3. IsFiniteSet(Ids) /\ Cardinality(Ids) = Len(probs) /\ Ids = 1 .. Len(probs) /\ Len(probs) \in Nat
  BY IdsFinite
<1>4. ASSUME NEW m \in Ids
      PROVE  IsFiniteSet(Sooner(m)) /\ Cardinality(Sooner(m)) \in Nat /\ m \notin Sooner(m)
  <2>1. Sooner(m) \in SUBSET Ids
    OBVIOUS
  <2>2. IsFiniteSet(Sooner(m))
    BY <1>3, <2>1, FS_Subset
  <2>3. m \notin Sooner(m)
    BY <1>2 DEF Earlier
  <2>. HIDE DEF Sooner
  <2>. QED  BY <2>2, <2>3, FS_CardinalityType
<1>5. Cardinality(Sooner(k)) < Len(probs)
  <2>1. Sooner(k) \in SUBSET Ids /\ Sooner(k) # Ids
    BY <1>4
  <2>. HIDE DEF Sooner
  <2>2. Cardinality(Sooner(k)) <= Cardinality(Ids) /\ (Cardinality(Ids) = Cardinality(Sooner(k)) => Ids = Sooner(k))
    BY <1>3, <2>1, FS_Subset
  <2>. QED  BY <1>3, <1>4, <2>1, <2>2
<1>6. ASSUME NEW j \in Ids, ~Earlier(j, k) PROVE ~(Place(j) < Place(k))
  <2>1. j = k \/ Earlier(k, j)
    BY <1>2, <1>6 DEF Earlier
  <2>2. Sooner(k) \in SUBSET Sooner(j)
    <3>1. CASE j = k
      BY <3>1
    <3>2. CASE Earlier(k, j)
      <4>1. ASSUME NEW m \in Ids, Earlier(m, k) PROVE Earlier(m, j)
        BY <1>2, <3>2, <4>1 DEF Earlier
      <4>. QED  BY <4>1
    <3>. QED  BY <2>1, <3>1, <3>2
  <2>. HIDE DEF Sooner
  <2>3. Cardinality(Sooner(k)) <= Cardinality(Sooner(j))
    BY <1>4, <2>2, FS_Subset
  <2>. QED  BY <1>1, <1>4, <2>3
<1>7. Place(k) \in Ids
  <2>. HIDE DEF Sooner
  <2>. QED  BY <1>1, <1>3, <1>4, <1>5
<1>. QED  BY <1>6, <1>7

LEMMA PassSorts ==
  ASSUME RowOK, SortedOK, Pass
  PROVE  SortedOK'
<1>. DEFINE wide == unit * RADIX_SIZE
<1>1. /\ probs' = probs /\ Ids' = Ids /\ unit' = wide
      /\ order' \in [Ids -> Ids] /\ \A k \in Ids : order'[Place(k)] = order[k]
  BY DEF Pass, Ids
<1>2. \A k \in Ids : Place(k) \in Ids /\ \A j \in Ids : Place(j) < Place(k) => Earlier(j, k)
  BY Placed
<1>3. ASSUME NEW i \in Ids PROVE \E k \in Ids : order'[k] = i
  <2>1. PICK k \in Ids : order[k] = i
    BY DEF SortedOK, Sorted
  <2>. QED  BY <1>1, <1>2, <2>1
<1>4. \A p, q \in Ids : order'[p] = order'[q] => p = q
  <2>1. order' \in Surjection(Ids, Ids)
    BY <1>1, <1>3 DEF Surjection
  <2>2. order' \in Injection(Ids, Ids)
    BY <2>1, IdsFinite, FS_SurjSameCardinalityImpliesInj
  <2>. QED  BY <2>2 DEF Injection, IsInjective
<1>5. ASSUME NEW p \in Ids, NEW q \in Ids, p < q PROVE Before(order'[p], order'[q], wide)
  <2>1. order'[p] \in Ids /\ order'[q] \in Ids
    BY <1>1
  <2>2. PICK j \in Ids : order[j] = order'[p]
    BY <2>1 DEF SortedOK, Sorted
  <2>3. PICK k \in Ids : order[k] = order'[q]
    BY <2>1 DEF SortedOK, Sorted
  <2>4. Place(j) = p /\ Place(k) = q
    BY <1>1, <1>2, <1>4, <2>2, <2>3
  <2>5. Earlier(j, k)
    BY <1>2, <1>5, <2>4
  <2>. DEFINE x == order[j]
              y == order[k]
  <2>6. x \in Ids /\ y \in Ids /\ x \in Nat /\ y \in Nat /\ j \in Nat /\ k \in Nat
    BY <2>1, <2>2, <2>3 DEF RowOK
  <2>7. Rem(x, wide) = Digit(x) * unit + Rem(x, unit) /\ Rem(y, wide) = Digit(y) * unit + Rem(y, unit)
    BY <2>6, DigitFacts DEF Rem
  <2>8. /\ Digit(x) \in Nat /\ Rem(x, unit) \in Nat /\ Rem(x, unit) < unit /\ unit \in Nat
        /\ Digit(y) \in Nat /\ Rem(y, unit) \in Nat /\ Rem(y, unit) < unit
    BY <2>6, DigitFacts DEF SortedOK, Sorted
  <2>9. CASE Digit(x) < Digit(y)
    <3>1. Digit(x) * unit + unit <= Digit(y) * unit /\ Digit(x) * unit \in Int /\ Digit(y) * unit \in Int
      BY <2>8, <2>9, Times
    <3>2. Rem(x, wide) < Rem(y, wide)
      BY <2>7, <2>8, <3>1
    <3>. QED  BY <2>2, <2>3, <3>2 DEF Before
  <2>10. CASE Digit(x) = Digit(y) /\ j < k
    <3>1. Before(x, y, unit)
      BY <2>10 DEF SortedOK, Sorted
    <3>2. Digit(x) * unit \in Int
      BY <2>8, Times
    <3>3. Rem(x, wide) < Rem(y, wide) \/ (Rem(x, wide) = Rem(y, wide) /\ x < y)
      BY <2>7, <2>8, <2>10, <3>1, <3>2 DEF Before
    <3>. QED  BY <2>2, <2>3, <3>3 DEF Before
  <2>. QED  BY <2>5, <2>9, <2>10 DEF Earlier
<1>6. wide \in Nat \ {0}
  <2>1. PICK i \in Ids : TRUE
    BY DEF RowOK
  <2>. QED  BY <1>1, <2>1, DigitFacts
<1>7. Sorted(order', wide)
  BY <1>1, <1>3, <1>5, <1>6 DEF Sorted
<1>. HIDE DEF wide
<1>. QED  BY <1>1, <1>7 DEF SortedOK, Sorted, Before, Rem, Key

-----------------------------------------------------------------------------
(* The order.  What is before the n-th of it is what is ahead of it, so the   *)
(* tokens that top-k and top-p leave are the first of the order.              *)

Done == RowOK /\ SortedOK /\ ~HasPass

Up(n) == {order[k] : k \in 1 .. n}

LEMMA ProbFacts ==
  ASSUME RowOK
  PROVE  \A i \in Ids : probs[i] \in Nat /\ i \in Nat
<1>1. KEYS \in Nat /\ Ids \subseteq Nat /\ \A i \in Ids : probs[i] \in 0 .. KEYS - 1
  BY DEF RowOK
<1>2. ASSUME NEW i \in Ids PROVE probs[i] \in Nat
  <2>1. probs[i] \in 0 .. KEYS - 1
    BY <1>1
  <2>. QED  BY <1>1, <2>1
<1>. QED  BY <1>1, <1>2

LEMMA Ranked ==
  ASSUME Done, NEW j \in Ids, NEW k \in Ids, j < k
  PROVE  /\ order[j] \in Ids /\ order[k] \in Ids /\ order[j] # order[k]
         /\ \/ probs[order[j]] > probs[order[k]]
            \/ (probs[order[j]] = probs[order[k]] /\ order[j] < order[k])
<1>. DEFINE x == order[j]
            y == order[k]
<1>1. x \in Ids /\ y \in Ids /\ x \in Nat /\ y \in Nat /\ Before(x, y, unit)
  BY DEF Done, SortedOK, Sorted, RowOK
<1>. HIDE DEF x, y
<1>2. unit \in Nat \ {0} /\ KEYS \in Nat /\ KEYS <= unit
  BY DEF Done, SortedOK, Sorted, RowOK, HasPass
<1>3. ASSUME NEW i \in Ids PROVE Rem(i, unit) = KEYS - 1 - probs[i] /\ probs[i] \in Nat
  <2>1. Key(i) \in Nat /\ Key(i) < unit /\ probs[i] \in Nat
    BY <1>2, KeyFacts DEF Done, RowOK
  <2>2. Key(i) = 0 * unit + Key(i)
    BY <1>2, <2>1
  <2>3. Key(i) % unit = Key(i)
    BY <1>2, <2>1, <2>2, Remainder
  <2>. QED  BY <2>1, <2>3 DEF Rem, Key
<1>4. x # y /\ (probs[x] > probs[y] \/ (probs[x] = probs[y] /\ x < y))
  BY <1>1, <1>2, <1>3 DEF Before
<1>. QED  BY <1>1, <1>4 DEF x, y

LEMMA AheadIs ==
  ASSUME Done, NEW n \in Ids
  PROVE  order[n] \in Ids /\ n \in Nat /\ Ahead(order[n]) = Up(n - 1)
<1>1. Ids = 1 .. Len(probs) /\ Len(probs) \in Nat /\ n \in 1 .. Len(probs) /\ order[n] \in Ids
  BY IdsFinite DEF Done, SortedOK, Sorted
<1>2. \A i \in Ids : probs[i] \in Int /\ i \in Int
  BY ProbFacts DEF Done
<1>3. ASSUME NEW i \in Ahead(order[n]) PROVE i \in Up(n - 1)
  <2>1. i \in Ids /\ (probs[i] > probs[order[n]] \/ (probs[i] = probs[order[n]] /\ i < order[n]))
    BY <1>3 DEF Ahead
  <2>2. PICK k \in Ids : order[k] = i
    BY <2>1 DEF Done, SortedOK, Sorted
  <2>3. ~(n < k)
    <3>1. n < k => (probs[order[n]] > probs[i] \/ (probs[order[n]] = probs[i] /\ order[n] < i))
      BY <2>2, Ranked
    <3>. QED  BY <1>1, <1>2, <2>1, <3>1
  <2>4. n # k
    BY <1>1, <1>2, <2>1, <2>2
  <2>5. k \in 1 .. n - 1
    BY <1>1, <2>2, <2>3, <2>4
  <2>. QED  BY <2>2, <2>5 DEF Up
<1>4. ASSUME NEW i \in Up(n - 1) PROVE i \in Ahead(order[n])
  <2>1. PICK k \in 1 .. n - 1 : i = order[k]
    BY <1>4 DEF Up
  <2>2. k \in Ids /\ k < n
    BY <1>1, <2>1
  <2>. QED  BY <2>1, <2>2, Ranked DEF Ahead
<1>. QED  BY <1>1, <1>3, <1>4

LEMMA UpFacts ==
  ASSUME Done, NEW n \in 0 .. Len(probs)
  PROVE  /\ IsFiniteSet(Up(n)) /\ Cardinality(Up(n)) = n /\ Up(n) \subseteq Ids
         /\ \A k \in Ids : order[k] \in Up(n) <=> k <= n
<1>1. Ids = 1 .. Len(probs) /\ Len(probs) \in Nat /\ order \in [Ids -> Ids]
  BY IdsFinite DEF Done, SortedOK, Sorted
<1>2. n \in Nat /\ 1 .. n \subseteq Ids
  BY <1>1
<1>3. \A j, k \in Ids : order[j] = order[k] => j = k
  <2>1. ASSUME NEW j \in Ids, NEW k \in Ids, j # k PROVE order[j] # order[k]
    <3>1. j < k \/ k < j
      BY <1>1, <2>1
    <3>. QED  BY <3>1, Ranked
  <2>. QED  BY <2>1
<1>. DEFINE f == [k \in 1 .. n |-> order[k]]
<1>4. f \in Bijection(1 .. n, Up(n))
  <2>1. f \in [1 .. n -> Up(n)] /\ \A t \in Up(n) : \E k \in 1 .. n : f[k] = t
    BY DEF Up
  <2>2. \A j, k \in 1 .. n : f[j] = f[k] => j = k
    BY <1>2, <1>3
  <2>. QED  BY <2>1, <2>2 DEF Bijection, Injection, Surjection, IsInjective
<1>5. IsFiniteSet(1 .. n) /\ Cardinality(1 .. n) = n
  <2>1. IsFiniteSet(1 .. n) /\ Cardinality(1 .. n) = IF 1 > n THEN 0 ELSE n - 1 + 1
    BY <1>2, FS_Interval
  <2>2. Cardinality(1 .. n) = n
    BY <1>2, <2>1
  <2>. QED  BY <2>1, <2>2
<1>6. IsFiniteSet(Up(n)) /\ Cardinality(Up(n)) = n
  <2>. HIDE DEF f
  <2>. QED  BY <1>4, <1>5, FS_Bijection DEF ExistsBijection
<1>7. ASSUME NEW k \in Ids PROVE order[k] \in Up(n) <=> k <= n
  <2>1. k <= n <=> k \in 1 .. n
    BY <1>1, <1>2
  <2>2. order[k] \in Up(n) => k \in 1 .. n
    BY <1>2, <1>3 DEF Up
  <2>. QED  BY <2>1, <2>2 DEF Up
<1>8. Up(n) \subseteq Ids
  BY <1>1, <1>2 DEF Up
<1>. QED  BY <1>6, <1>7, <1>8

LEMMA MassFacts ==
  ASSUME Done
  PROVE  /\ Masses[0] = 0 /\ \A n \in 0 .. Len(probs) : Masses[n] \in Nat
         /\ \A n \in Ids : Masses[n] = Masses[n - 1] + probs[order[n]] /\ probs[order[n]] \in Nat
         /\ \A m, n \in 0 .. Len(probs) : m <= n => Masses[m] <= Masses[n]
         /\ \A n \in Ids : Masses[n] > 0
<1>. DEFINE f == [k \in Ids |-> probs[order[k]]]
<1>1. Ids = 1 .. Len(probs) /\ Len(probs) \in Nat \ {0} /\ order \in [Ids -> Ids] /\ \A i \in Ids : probs[i] \in Nat
  BY IdsFinite, ProbFacts DEF Done, SortedOK, Sorted, RowOK
<1>2. f \in [Ids -> Nat] /\ \A k \in Ids : f[k] = probs[order[k]]
  BY <1>1
<1>3. Masses = Running(f)
  BY DEF Masses
<1>. HIDE DEF f
<1>4. /\ Masses[0] = 0 /\ \A n \in 0 .. Len(probs) : Masses[n] \in Nat
      /\ \A n \in Ids : Masses[n] = Masses[n - 1] + f[n]
  BY <1>2, <1>3, RunningIs DEF Done
<1>5. \A m, n \in 0 .. Len(probs) : m <= n => Masses[m] <= Masses[n]
  BY <1>2, <1>3, RunningGrows DEF Done
<1>6. probs[order[1]] > 0
  <2>1. PICK i \in Ids : probs[i] > 0
    BY DEF Done, RowOK
  <2>2. PICK k \in Ids : order[k] = i
    BY <2>1 DEF Done, SortedOK, Sorted
  <2>3. 1 \in Ids /\ (k = 1 \/ 1 < k)
    BY <1>1, <2>2
  <2>4. 1 < k => probs[order[1]] >= probs[i]
    <3>1. 1 < k => (probs[order[1]] > probs[i] \/ probs[order[1]] = probs[i])
      BY <2>2, <2>3, Ranked
    <3>2. probs[order[1]] \in Nat /\ probs[i] \in Nat
      BY <1>1, <2>1, <2>3
    <3>. QED  BY <3>1, <3>2
  <2>5. probs[order[1]] \in Nat /\ probs[i] \in Nat
    BY <1>1, <2>1, <2>3
  <2>. QED  BY <2>1, <2>2, <2>3, <2>4, <2>5
<1>7. ASSUME NEW n \in Ids PROVE Masses[n] > 0
  <2>1. 1 \in Ids /\ 1 \in 0 .. Len(probs) /\ n \in 0 .. Len(probs) /\ 1 <= n
    BY <1>1
  <2>2. Masses[1] = Masses[1 - 1] + f[1] /\ Masses[1 - 1] = 0 /\ f[1] = probs[order[1]]
    BY <1>2, <1>4, <2>1
  <2>3. Masses[1] > 0 /\ Masses[1] <= Masses[n] /\ Masses[1] \in Nat /\ Masses[n] \in Nat
    <3>1. Masses[1] = f[1] /\ f[1] \in Nat /\ f[1] > 0
      BY <1>2, <1>6, <2>1, <2>2
    <3>. QED  BY <1>4, <1>5, <2>1, <3>1
  <2>. QED  BY <2>3
<1>. QED  BY <1>1, <1>2, <1>4, <1>5, <1>7

\* The mass of the first n of the order is what they add up to.
LEMMA UpMass ==
  ASSUME Done, NEW n \in 0 .. Len(probs)
  PROVE  MassOf(Up(n)) = Masses[n]
<1>. DEFINE L == Len(probs)
            Ms == {m \in Nat : m <= L => MassOf(Up(m)) = Masses[m]}
<1>1. Ids = 1 .. L /\ L \in Nat /\ n \in Nat /\ n <= L
  BY IdsFinite DEF Done
<1>. HIDE DEF L
<1>2. 0 \in Ms
  <2>1. Up(0) = {}
    BY DEF Up
  <2>. QED  BY <2>1, MassNone, MassFacts DEF Done
<1>3. ASSUME NEW m \in Nat, m \in Ms PROVE m + 1 \in Ms
  <2>1. SUFFICES ASSUME m + 1 <= L PROVE MassOf(Up(m + 1)) = Masses[m + 1]
    OBVIOUS
  <2>2. m + 1 \in Ids /\ (m + 1) - 1 = m /\ m \in 0 .. L /\ ~(m + 1 <= m)
    BY <1>1, <2>1
  <2>3. Up(m + 1) = Up(m) \cup {order[m + 1]}
    <3>1. 1 .. m + 1 = (1 .. m) \cup {m + 1}
      BY <2>2
    <3>. QED  BY <3>1 DEF Up
  <2>4. order[m + 1] \in Ids /\ order[m + 1] \notin Up(m)
    BY <2>2, UpFacts, AheadIs DEF L
  <2>5. MassOf(Up(m + 1)) = MassOf(Up(m)) + probs[order[m + 1]]
    BY <2>3, <2>4, MassMore DEF Done
  <2>6. Masses[m + 1] = Masses[m] + probs[order[m + 1]]
    BY <2>2, MassFacts
  <2>7. MassOf(Up(m)) = Masses[m]
    BY <1>1, <1>3, <2>1
  <2>. QED  BY <2>5, <2>6, <2>7
<1>4. n \in Ms
  <2>. HIDE DEF Ms
  <2>. QED  BY <1>1, <1>2, <1>3, NatSet
<1>. QED  BY <1>1, <1>4

-----------------------------------------------------------------------------
(* What is kept: the first Top of the order, and of those as many as it takes *)
(* for their mass to reach top-p.                                             *)

Top == IF cfg.top_k \in 1 .. Len(probs) - 1 THEN cfg.top_k ELSE Len(probs)

\* How much of Top's mass top-p leaves out before the n-th.
Short(n) == Masses[n - 1] * WHOLE < cfg.top_p * Masses[Top]

LEMMA TopKIs ==
  ASSUME Done
  PROVE  Top \in Ids /\ TopK = Up(Top)
<1>1. Ids = 1 .. Len(probs) /\ Len(probs) \in Nat \ {0} /\ cfg.top_k \in Nat
  BY IdsFinite DEF Done, RowOK
<1>2. Top \in Ids
  BY <1>1 DEF Top
<1>3. ASSUME NEW n \in Ids PROVE order[n] \in Ids /\ (order[n] \in TopK <=> order[n] \in Up(Top))
  <2>1. order[n] \in Ids /\ Ahead(order[n]) = Up(n - 1)
    BY AheadIs
  <2>2. n - 1 \in 0 .. Len(probs) /\ Top \in 0 .. Len(probs)
    BY <1>1, <1>2
  <2>3. Cardinality(Ahead(order[n])) = n - 1
    BY <2>1, <2>2, UpFacts
  <2>4. order[n] \in Up(Top) <=> n <= Top
    BY <2>2, UpFacts
  <2>5. n <= Top <=> cfg.top_k = 0 \/ n - 1 < cfg.top_k
    BY <1>1 DEF Top
  <2>. QED  BY <2>1, <2>3, <2>4, <2>5 DEF TopK
<1>4. TopK \subseteq Ids /\ Up(Top) \subseteq Ids
  <2>1. Top \in 0 .. Len(probs)
    BY <1>1, <1>2
  <2>. QED  BY <2>1, UpFacts DEF TopK
<1>5. \A i \in Ids : \E n \in Ids : order[n] = i
  BY DEF Done, SortedOK, Sorted
<1>. QED  BY <1>2, <1>3, <1>4, <1>5

LEMMA KeptIs ==
  ASSUME Done
  PROVE  LET k == Kept(Top, Masses)
         IN  /\ k \in 1 .. Top
             /\ \A n \in 1 .. Top : n <= k <=> (cfg.top_p \in 1 .. WHOLE - 1 => Short(n))
<1>. DEFINE M == Masses[Top]
            reach == {n \in 1 .. Top : Masses[n] * WHOLE >= cfg.top_p * M}
            k == Kept(Top, Masses)
<1>1. /\ Ids = 1 .. Len(probs) /\ Len(probs) \in Nat \ {0} /\ Top \in Nat /\ Top \in Ids
      /\ cfg.top_p \in Nat /\ WHOLE \in Nat \ {0} /\ 1 .. Top \subseteq Ids
  BY IdsFinite, TopKIs DEF Done, RowOK
<1>2. \A n \in 0 .. Top : Masses[n] \in Nat /\ n \in 0 .. Len(probs)
  BY <1>1, MassFacts
<1>3. M \in Nat /\ M > 0 /\ cfg.top_p * M \in Int
  BY <1>1, <1>2, MassFacts
<1>4. k = IF cfg.top_p \in 1 .. WHOLE - 1 /\ reach # {} THEN Min(reach) ELSE Top
  BY DEF Kept
<1>5. CASE cfg.top_p \notin 1 .. WHOLE - 1
  BY <1>1, <1>4, <1>5
<1>6. CASE cfg.top_p \in 1 .. WHOLE - 1
  <2>1. Top \in reach
    <3>1. cfg.top_p * M <= WHOLE * M /\ WHOLE * M = M * WHOLE
      BY <1>1, <1>3, <1>6, Times
    <3>. QED  BY <1>1, <3>1
  <2>2. reach \subseteq Nat /\ reach # {}
    BY <2>1
  <2>3. k \in reach /\ \A n \in reach : k <= n
    <3>. HIDE DEF reach
    <3>. QED  BY <1>4, <1>6, <2>2, Least
  <2>4. k \in 1 .. Top /\ k \in Nat /\ Masses[k] * WHOLE >= cfg.top_p * M
    BY <2>3
  <2>. HIDE DEF k
  <2>5. ASSUME NEW n \in 1 .. Top PROVE n <= k <=> Short(n)
    <3>1. /\ n \in Nat /\ n - 1 \in 0 .. Top /\ Masses[n - 1] \in Nat /\ Masses[k] \in Nat
          /\ n - 1 \in 0 .. Len(probs) /\ k \in 0 .. Len(probs)
      BY <1>1, <1>2, <2>4
    <3>2. Masses[n - 1] * WHOLE \in Int /\ Masses[k] * WHOLE \in Int
      BY <1>1, <3>1
    <3>3. CASE n = 1
      <4>1. Masses[n - 1] = 0 /\ 0 * WHOLE = 0
        BY <1>1, <3>3, MassFacts
      <4>2. 0 * M + M <= cfg.top_p * M /\ 0 * M = 0
        BY <1>1, <1>3, <1>6, Times
      <4>. QED  BY <1>3, <2>4, <3>3, <4>1, <4>2 DEF Short
    <3>4. CASE n # 1 /\ n <= k
      <4>1. n - 1 \in 1 .. Top /\ ~(k <= n - 1)
        BY <2>4, <3>1, <3>4
      <4>2. n - 1 \notin reach
        BY <2>3, <4>1
      <4>3. ~(Masses[n - 1] * WHOLE >= cfg.top_p * M)
        BY <4>1, <4>2
      <4>. QED  BY <1>3, <3>2, <3>4, <4>3 DEF Short
    <3>5. CASE ~(n <= k)
      <4>1. k <= n - 1
        BY <2>4, <3>1, <3>5
      <4>2. Masses[k] <= Masses[n - 1]
        BY <3>1, <4>1, MassFacts
      <4>3. Masses[k] * WHOLE <= Masses[n - 1] * WHOLE
        BY <1>1, <3>1, <4>2, Times
      <4>. QED  BY <1>3, <2>4, <3>2, <3>5, <4>3 DEF Short
    <3>. QED  BY <3>3, <3>4, <3>5
  <2>. QED  BY <1>6, <2>4, <2>5 DEF k
<1>. QED  BY <1>5, <1>6

LEMMA NucleusIs ==
  ASSUME Done, NEW k, k = Kept(Top, Masses)
  PROVE  k \in Ids /\ Nucleus(TopK) = Up(k) /\ MassOf(Nucleus(TopK)) = Masses[k]
<1>1. /\ Ids = 1 .. Len(probs) /\ Len(probs) \in Nat \ {0} /\ Top \in Nat /\ Top \in Ids /\ Top \in 0 .. Len(probs)
      /\ TopK = Up(Top) /\ k \in 1 .. Top /\ k \in Ids /\ k \in 0 .. Len(probs)
  <2>1. Ids = 1 .. Len(probs) /\ Len(probs) \in Nat \ {0} /\ Top \in Ids /\ TopK = Up(Top) /\ k \in 1 .. Top
    BY IdsFinite, TopKIs, KeptIs DEF Done, RowOK
  <2>. QED  BY <2>1
<1>2. MassOf(TopK) = Masses[Top]
  BY <1>1, UpMass
<1>3. ASSUME NEW n \in Ids PROVE order[n] \in Nucleus(TopK) <=> order[n] \in Up(k)
  <2>1. Ahead(order[n]) = Up(n - 1) /\ n - 1 \in 0 .. Len(probs)
    BY <1>1, AheadIs
  <2>2. MassOf(Ahead(order[n])) = Masses[n - 1]
    BY <2>1, UpMass
  <2>3. (order[n] \in TopK <=> n <= Top) /\ (order[n] \in Up(k) <=> n <= k)
    BY <1>1, UpFacts
  <2>4. order[n] \in Nucleus(TopK) <=> n <= Top /\ (cfg.top_p \in 1 .. WHOLE - 1 => Short(n))
    BY <1>2, <2>2, <2>3 DEF Nucleus, Short
  <2>5. n <= k => n <= Top
    BY <1>1
  <2>6. n <= Top => n \in 1 .. Top
    BY <1>1
  <2>. QED  BY <2>3, <2>4, <2>5, <2>6, KeptIs
<1>4. Nucleus(TopK) \subseteq Ids /\ Up(k) \subseteq Ids
  BY <1>1, UpFacts DEF Nucleus, TopK
<1>5. \A i \in Ids : \E n \in Ids : order[n] = i
  BY DEF Done, SortedOK, Sorted
<1>6. Nucleus(TopK) = Up(k)
  BY <1>3, <1>4, <1>5
<1>. QED  BY <1>1, <1>6, UpMass

-----------------------------------------------------------------------------
(* What is drawn.  The numbers that draw a token are those between two bounds *)
(* its probability apart, which is its share of them to within one.           *)

\* How many multiples of m, of the first w, lie between two bounds.
LEMMA Between ==
  ASSUME NEW m \in Nat \ {0}, NEW w \in Nat, NEW a \in Nat, NEW b \in Nat, a <= b, b <= w * m
  PROVE  LET times == Cardinality({u \in 1 .. w : a <= (u - 1) * m /\ (u - 1) * m < b})
         IN  (times - 1) * m < b - a /\ b - a < (times + 1) * m
<1>. DEFINE Past(c) == {x \in Nat : x * m >= c}
            T == {u \in 1 .. w : a <= (u - 1) * m /\ (u - 1) * m < b}
<1>1. ASSUME NEW c \in Nat, c <= w * m
      PROVE  \E x \in Nat : /\ x <= w /\ c <= x * m /\ x * m < c + m /\ x * m \in Int
                            /\ \A y \in Nat : x <= y <=> y * m >= c
  <2>1. w \in Past(c) /\ Past(c) \subseteq Nat
    BY <1>1
  <2>2. PICK x \in Past(c) : \A y \in Past(c) : x <= y
    <3>. HIDE DEF Past
    <3>. QED  BY <2>1, NatLeast
  <2>3. x \in Nat /\ x <= w /\ c <= x * m /\ x * m \in Int
    BY <2>1, <2>2
  <2>4. x * m < c + m
    <3>1. CASE x = 0
      BY <3>1
    <3>2. CASE x # 0
      <4>1. x - 1 \in Nat /\ ~(x <= x - 1)
        BY <2>3, <3>2
      <4>2. x - 1 \notin Past(c)
        BY <2>2, <4>1
      <4>3. ~((x - 1) * m >= c)
        BY <4>1, <4>2
      <4>4. (x - 1) * m = x * m - 1 * m
        BY <2>3, Times
      <4>. QED  BY <2>3, <4>3, <4>4
    <3>. QED  BY <3>1, <3>2
  <2>5. ASSUME NEW y \in Nat PROVE x <= y <=> y * m >= c
    <3>1. y * m >= c => x <= y
      BY <2>2
    <3>2. x <= y => x * m <= y * m
      BY <2>3, Times
    <3>. QED  BY <1>1, <2>3, <3>1, <3>2
  <2>. QED  BY <2>3, <2>4, <2>5
<1>2. a <= w * m
  OBVIOUS
<1>3. PICK x \in Nat : /\ x <= w /\ a <= x * m /\ x * m < a + m /\ x * m \in Int
                       /\ \A y \in Nat : x <= y <=> y * m >= a
  BY <1>1, <1>2
<1>4. PICK y \in Nat : /\ y <= w /\ b <= y * m /\ y * m < b + m /\ y * m \in Int
                       /\ \A z \in Nat : y <= z <=> z * m >= b
  BY <1>1
<1>5. x <= y
  BY <1>3, <1>4
<1>6. T = x + 1 .. y
  <2>1. ASSUME NEW u \in 1 .. w PROVE u \in T <=> u \in x + 1 .. y
    <3>1. u - 1 \in Nat /\ (u - 1) * m \in Int
      OBVIOUS
    <3>2. (x <= u - 1 <=> (u - 1) * m >= a) /\ (y <= u - 1 <=> (u - 1) * m >= b)
      BY <1>3, <1>4, <3>1
    <3>3. u \in T <=> a <= (u - 1) * m /\ (u - 1) * m < b
      OBVIOUS
    <3>4. u \in x + 1 .. y <=> x <= u - 1 /\ ~(y <= u - 1)
      OBVIOUS
    <3>. QED  BY <3>1, <3>2, <3>3, <3>4
  <2>2. T \subseteq 1 .. w /\ x + 1 .. y \subseteq 1 .. w
    BY <1>3, <1>4
  <2>. HIDE DEF T
  <2>. QED  BY <2>1, <2>2
<1>. HIDE DEF T
<1>7. Cardinality(T) = y - x
  <2>1. Cardinality(x + 1 .. y) = IF x + 1 > y THEN 0 ELSE y - (x + 1) + 1
    BY FS_Interval
  <2>. QED  BY <1>5, <1>6, <2>1
<1>8. /\ ((y - x) - 1) * m = y * m - x * m - m
      /\ ((y - x) + 1) * m = y * m - x * m + m
  <2>1. (y - x) * m = y * m - x * m /\ (y - x) \in Int
    BY Times
  <2>2. ((y - x) - 1) * m = (y - x) * m - 1 * m /\ ((y - x) + 1) * m = (y - x) * m + 1 * m
    BY <2>1, Times
  <2>. QED  BY <1>3, <1>4, <2>1, <2>2
<1>9. ((y - x) - 1) * m < b - a /\ b - a < ((y - x) + 1) * m
  BY <1>3, <1>4, <1>8
<1>. QED  BY <1>7, <1>9 DEF T

\* Masses weigh as they are.
LEMMA Weighed ==
  ASSUME Done, NEW m \in 0 .. Len(probs), NEW n \in 0 .. Len(probs), m <= n
  PROVE  Masses[m] \in Nat /\ Masses[n] \in Nat /\ Masses[m] <= Masses[n] /\ Masses[m] * WHOLE <= Masses[n] * WHOLE
<1>1. WHOLE \in Nat
  BY DEF Done, RowOK
<1>2. Masses[m] \in Nat /\ Masses[n] \in Nat /\ Masses[m] <= Masses[n]
  BY MassFacts
<1>3. Masses[m] \in Int /\ Masses[n] \in Int
  BY <1>2
<1>. QED  BY <1>1, <1>2, <1>3, Times

\* The n-th of the order is drawn by the numbers from the mass before it to its own.
LEMMA Picked ==
  ASSUME Done, keep \in Ids, NEW u \in 1 .. WHOLE
  PROVE  \E p \in 1 .. keep :
           /\ p \in Ids /\ Drawn(u, Masses) = order[p]
           /\ Masses[p - 1] * WHOLE <= (u - 1) * Masses[keep]
           /\ (u - 1) * Masses[keep] < Masses[p] * WHOLE
           /\ \A n \in Ids : n # p =>
                ~(Masses[n - 1] * WHOLE <= (u - 1) * Masses[keep] /\ (u - 1) * Masses[keep] < Masses[n] * WHOLE)
<1>. DEFINE M == Masses[keep]
            at == (u - 1) * M
            S == {keep} \cup {n \in 1 .. keep : at < Masses[n] * WHOLE}
            p == Min(S)
<1>1. /\ Ids = 1 .. Len(probs) /\ Len(probs) \in Nat \ {0} /\ WHOLE \in Nat \ {0} /\ u \in Nat /\ u >= 1 /\ u <= WHOLE
      /\ keep \in Nat /\ 1 .. keep \subseteq Ids
  <2>1. Ids = 1 .. Len(probs) /\ Len(probs) \in Nat \ {0} /\ WHOLE \in Nat \ {0}
    BY IdsFinite DEF Done, RowOK
  <2>. QED  BY <2>1
<1>2. \A n \in Ids : n \in 0 .. Len(probs) /\ n - 1 \in 0 .. Len(probs) /\ n \in Nat
  BY <1>1
<1>3. M \in Nat /\ M > 0 /\ at \in Int /\ at >= 0
  <2>1. M \in Nat /\ M > 0
    BY <1>2, MassFacts
  <2>2. 0 * M <= (u - 1) * M /\ (u - 1) * M \in Int
    BY <1>1, <2>1, Times
  <2>. QED  BY <2>1, <2>2
<1>. HIDE DEF at
<1>4. S \subseteq Nat /\ S # {}
  BY <1>1
<1>5. p \in S /\ \A n \in S : p <= n
  <2>. HIDE DEF S
  <2>. QED  BY <1>4, Least
<1>. HIDE DEF p
<1>6. at < Masses[keep] * WHOLE
  <2>1. (u - 1) * M + M <= WHOLE * M /\ WHOLE * M = M * WHOLE
    BY <1>1, <1>3, Times
  <2>. QED  BY <1>1, <1>3, <2>1 DEF at
<1>7. p \in 1 .. keep /\ p \in Ids /\ p \in Nat /\ at < Masses[p] * WHOLE
  BY <1>1, <1>5, <1>6
<1>8. \A n \in 0 .. Len(probs) : Masses[n] \in Nat /\ Masses[n] * WHOLE \in Int
  BY <1>1, MassFacts
<1>9. Masses[p - 1] * WHOLE <= at
  <2>1. CASE p = 1
    <3>1. Masses[p - 1] * WHOLE = 0
      BY <1>1, <2>1, MassFacts
    <3>. QED  BY <1>3, <3>1
  <2>2. CASE p # 1
    <3>1. p - 1 \in 1 .. keep /\ ~(p <= p - 1) /\ p - 1 \in 0 .. Len(probs)
      BY <1>2, <1>7, <2>2
    <3>2. p - 1 \notin S
      BY <1>5, <3>1
    <3>3. ~(at < Masses[p - 1] * WHOLE)
      BY <3>1, <3>2
    <3>. QED  BY <1>3, <1>8, <3>1, <3>3
  <2>. QED  BY <2>1, <2>2
<1>10. ASSUME NEW n \in Ids, n # p, Masses[n - 1] * WHOLE <= at, at < Masses[n] * WHOLE PROVE FALSE
  <2>1. /\ n \in Nat /\ n \in 0 .. Len(probs) /\ n - 1 \in 0 .. Len(probs)
        /\ p \in 0 .. Len(probs) /\ p - 1 \in 0 .. Len(probs)
    BY <1>2, <1>7
  <2>2. CASE p < n
    <3>1. p <= n - 1
      BY <1>7, <2>1, <2>2
    <3>2. Masses[p] * WHOLE <= Masses[n - 1] * WHOLE
      BY <2>1, <3>1, Weighed
    <3>. QED  BY <1>3, <1>7, <1>8, <1>10, <2>1, <3>2, SMTT(20)
  <2>3. CASE n < p
    <3>1. n <= p - 1
      BY <1>7, <2>1, <2>3
    <3>2. Masses[n] * WHOLE <= Masses[p - 1] * WHOLE
      BY <2>1, <3>1, Weighed
    <3>. QED  BY <1>3, <1>8, <1>9, <1>10, <2>1, <3>2, SMTT(20)
  <2>. QED  BY <1>7, <1>10, <2>1, <2>2, <2>3
<1>11. Drawn(u, Masses) = order[p]
  BY DEF Drawn, p, at
<1>. QED  BY <1>7, <1>9, <1>10, <1>11 DEF at

LEMMA Shares ==
  ASSUME Done, keep = Kept(Top, Masses), drawn = [u \in 1 .. WHOLE |-> Drawn(u, Masses)]
  PROVE  /\ \A u \in 1 .. WHOLE : probs[drawn[u]] > 0
         /\ Fair(Nucleus(TopK), MassOf(Nucleus(TopK)))
<1>. DEFINE M == Masses[keep]
            Cut(n) == Masses[n] * WHOLE
            Draws(n) == {u \in 1 .. WHOLE : drawn[u] = order[n]}
            Span(n) == {u \in 1 .. WHOLE : Cut(n - 1) <= (u - 1) * M /\ (u - 1) * M < Cut(n)}
<1>1. keep \in Ids /\ Nucleus(TopK) = Up(keep) /\ MassOf(Nucleus(TopK)) = M
  BY NucleusIs
<1>2. /\ Ids = 1 .. Len(probs) /\ Len(probs) \in Nat \ {0} /\ WHOLE \in Nat \ {0} /\ keep \in 0 .. Len(probs)
      /\ \A n \in Ids : n \in 0 .. Len(probs) /\ n - 1 \in 0 .. Len(probs) /\ n \in Nat
  <2>1. Ids = 1 .. Len(probs) /\ Len(probs) \in Nat \ {0} /\ WHOLE \in Nat \ {0}
    BY IdsFinite DEF Done, RowOK
  <2>. QED  BY <1>1, <2>1
<1>3. M \in Nat \ {0} /\ \A n \in 0 .. Len(probs) : Masses[n] \in Nat
  <2>1. M \in Nat /\ M > 0
    BY <1>1, <1>2, MassFacts
  <2>. QED  BY <2>1, MassFacts
<1>4. \A j, k \in Ids : order[j] = order[k] => j = k
  <2>1. ASSUME NEW j \in Ids, NEW k \in Ids, j # k PROVE order[j] # order[k]
    <3>1. j < k \/ k < j
      BY <1>2, <2>1
    <3>. QED  BY <3>1, Ranked
  <2>. QED  BY <2>1
<1>5. ASSUME NEW u \in 1 .. WHOLE
      PROVE  /\ probs[drawn[u]] > 0
             /\ \A n \in Ids : drawn[u] = order[n] <=> u \in Span(n)
             /\ \A n \in Ids : drawn[u] = order[n] => n <= keep
  <2>1. PICK p \in 1 .. keep :
           /\ p \in Ids /\ Drawn(u, Masses) = order[p]
           /\ Masses[p - 1] * WHOLE <= (u - 1) * Masses[keep]
           /\ (u - 1) * Masses[keep] < Masses[p] * WHOLE
           /\ \A n \in Ids : n # p =>
                ~(Masses[n - 1] * WHOLE <= (u - 1) * Masses[keep] /\ (u - 1) * Masses[keep] < Masses[n] * WHOLE)
    BY <1>1, Picked
  <2>2. drawn[u] = order[p]
    BY <2>1
  <2>3. probs[order[p]] > 0
    <3>1. /\ Masses[p] = Masses[p - 1] + probs[order[p]] /\ probs[order[p]] \in Nat /\ Masses[p - 1] \in Nat
          /\ (u - 1) * M \in Int
      <4>1. Masses[p - 1] \in Nat
        BY <1>2, <1>3, <2>1
      <4>2. Masses[p] = Masses[p - 1] + probs[order[p]] /\ probs[order[p]] \in Nat
        BY <2>1, MassFacts
      <4>. QED  BY <1>3, <4>1, <4>2
    <3>2. probs[order[p]] = 0 => Masses[p] * WHOLE = Masses[p - 1] * WHOLE
      BY <3>1
    <3>3. Masses[p - 1] * WHOLE \in Int
      BY <1>2, <3>1
    <3>. QED  BY <2>1, <3>1, <3>2, <3>3
  <2>4. ASSUME NEW n \in Ids PROVE drawn[u] = order[n] <=> u \in Span(n)
    <3>1. drawn[u] = order[n] <=> n = p
      BY <1>4, <2>1, <2>2
    <3>. QED  BY <2>1, <3>1
  <2>5. ASSUME NEW n \in Ids, drawn[u] = order[n] PROVE n <= keep
    <3>1. n = p /\ p \in 1 .. keep
      BY <1>4, <2>1, <2>2, <2>5
    <3>2. keep \in Nat
      BY <1>2
    <3>. QED  BY <3>1, <3>2
  <2>. QED  BY <2>2, <2>3, <2>4, <2>5
<1>6. ASSUME NEW i \in Ids
      PROVE  LET times == Cardinality({u \in 1 .. WHOLE : drawn[u] = i})
             IN  IF i \in Up(keep)
                 THEN (times - 1) * M < probs[i] * WHOLE /\ probs[i] * WHOLE < (times + 1) * M
                 ELSE times = 0
  <2>1. PICK n \in Ids : order[n] = i
    BY DEF Done, SortedOK, Sorted
  <2>2. i \in Up(keep) <=> n <= keep
    BY <1>2, <2>1, UpFacts
  <2>3. {u \in 1 .. WHOLE : drawn[u] = i} = Draws(n)
    BY <2>1
  <2>4. CASE n <= keep
    <3>1. Draws(n) = Span(n)
      <4>1. \A u \in 1 .. WHOLE : u \in Draws(n) <=> u \in Span(n)
        BY <1>5
      <4>. QED  BY <4>1
    <3>2. Masses[n] = Masses[n - 1] + probs[i] /\ probs[i] \in Nat /\ Masses[n - 1] \in Nat /\ Masses[n] \in Nat
      <4>1. Masses[n - 1] \in Nat /\ Masses[n] \in Nat
        BY <1>2, <1>3
      <4>. QED  BY <2>1, <4>1, MassFacts
    <3>3. Masses[n] <= M
      BY <1>2, <2>4, MassFacts
    <3>4. Cut(n - 1) \in Nat /\ Cut(n) \in Nat /\ Cut(n) = Cut(n - 1) + probs[i] * WHOLE /\ probs[i] * WHOLE \in Nat
      <4>1. (Masses[n - 1] + probs[i]) * WHOLE = Masses[n - 1] * WHOLE + probs[i] * WHOLE
        BY <1>2, <3>2, Times
      <4>2. Masses[n - 1] * WHOLE \in Nat /\ Masses[n] * WHOLE \in Nat /\ probs[i] * WHOLE \in Nat
        <5>1. \A a \in Nat : a * WHOLE \in Nat
          BY <1>2
        <5>. QED  BY <3>2, <5>1, Zenon
      <4>. QED  BY <3>2, <4>1, <4>2
    <3>5. Cut(n) <= WHOLE * M
      <4>1. Masses[n] * WHOLE <= M * WHOLE /\ M * WHOLE = WHOLE * M
        <5>1. Masses[n] * WHOLE <= Masses[keep] * WHOLE
          BY <1>2, <2>4, Weighed
        <5>. QED  BY <1>2, <1>3, <5>1
      <4>. QED  BY <4>1
    <3>. HIDE DEF Cut
    <3>6. /\ (Cardinality(Span(n)) - 1) * M < Cut(n) - Cut(n - 1)
          /\ Cut(n) - Cut(n - 1) < (Cardinality(Span(n)) + 1) * M
      <4>1. Cut(n - 1) <= Cut(n) /\ WHOLE \in Nat
        BY <1>2, <3>4
      <4>. HIDE DEF M
      <4>. QED  BY <1>3, <3>4, <3>5, <4>1, Between
    <3>7. Cut(n) - Cut(n - 1) = probs[i] * WHOLE
      BY <3>4
    <3>. HIDE DEF Span, Draws, M
    <3>. QED  BY <2>2, <2>3, <2>4, <3>1, <3>6, <3>7
  <2>5. CASE ~(n <= keep)
    <3>1. Draws(n) = {}
      BY <1>5, <2>5
    <3>2. Cardinality(Draws(n)) = 0
      BY <3>1, FS_EmptySet
    <3>. QED  BY <2>2, <2>3, <2>5, <3>2
  <2>. QED  BY <2>4, <2>5
<1>. HIDE DEF M
<1>7. Fair(Up(keep), M)
  BY <1>6 DEF Fair
<1>. QED  BY <1>1, <1>5, <1>7

\* The first of the most probable has none ahead of it.
LEMMA Argmaximum ==
  ASSUME RowOK
  PROVE  vitna_argmax \in Ids /\ probs[vitna_argmax] > 0 /\ Ahead(vitna_argmax) = {}
<1>. DEFINE most == {i \in Ids : \A j \in Ids : probs[j] <= probs[i]}
            keys == {Key(i) : i \in Ids}
<1>1. Ids \subseteq Nat /\ \A i \in Ids : probs[i] \in Nat /\ Key(i) \in Nat /\ KEYS \in Nat
  BY ProbFacts, KeyFacts DEF RowOK
<1>2. PICK x \in Ids : probs[x] > 0
  BY DEF RowOK
<1>3. keys \subseteq Nat /\ keys # {}
  BY <1>1, <1>2
<1>4. PICK k \in keys : \A m \in keys : k <= m
  <2>. HIDE DEF keys
  <2>. QED  BY <1>3, NatLeast
<1>5. PICK i \in Ids : k = Key(i)
  BY <1>4
<1>6. ASSUME NEW j \in Ids PROVE probs[j] <= probs[i]
  <2>1. Key(i) <= Key(j)
    BY <1>4, <1>5
  <2>2. probs[i] \in Nat /\ probs[j] \in Nat /\ KEYS \in Nat
    BY <1>1
  <2>. QED  BY <2>1, <2>2 DEF Key
<1>7. i \in most
  BY <1>6
<1>8. vitna_argmax \in most /\ \A j \in most : vitna_argmax <= j
  <2>1. most \subseteq Nat /\ most # {}
    BY <1>1, <1>7
  <2>2. vitna_argmax = Min(most)
    BY DEF vitna_argmax
  <2>. HIDE DEF most
  <2>. QED  BY <2>1, <2>2, Least
<1>. DEFINE v == vitna_argmax
<1>9. v \in Ids /\ (\A j \in Ids : probs[j] <= probs[v]) /\ \A j \in most : v <= j
  BY <1>8
<1>. HIDE DEF v
<1>10. probs[v] > 0
  <2>1. probs[x] <= probs[v] /\ probs[x] \in Nat /\ probs[v] \in Nat
    BY <1>1, <1>9
  <2>. QED  BY <1>2, <2>1
<1>11. ASSUME NEW j \in Ahead(v) PROVE FALSE
  <2>1. j \in Ids /\ (probs[j] > probs[v] \/ (probs[j] = probs[v] /\ j < v))
    BY <1>11 DEF Ahead
  <2>2. probs[j] <= probs[v] /\ probs[j] \in Nat /\ probs[v] \in Nat /\ j \in Nat /\ v \in Nat
    BY <1>1, <1>9, <2>1
  <2>3. probs[j] = probs[v] /\ j < v
    BY <2>1, <2>2
  <2>4. j \in most
    BY <1>9, <2>1, <2>3
  <2>. QED  BY <1>9, <2>2, <2>3, <2>4
<1>. QED  BY <1>9, <1>10, <1>11 DEF v

-----------------------------------------------------------------------------
(* The invariant: what has been kept and drawn is what the sorted order says. *)

IInv ==
  /\ probs \in Rows /\ cfg \in Settings /\ SortedOK
  /\ keep # 0 => cfg.hot /\ ~HasPass /\ keep = Kept(Top, Masses)
  /\ drawn # <<>> =>
       /\ cfg.hot => keep # 0
       /\ drawn = [u \in 1 .. WHOLE |-> IF cfg.hot THEN Drawn(u, Masses) ELSE vitna_argmax]

\* Before the first pass no digit tells the ids apart.
LEMMA Unsorted ==
  ASSUME RowOK, order = [k \in Ids |-> k], unit = 1
  PROVE  SortedOK
<1>1. \A i \in Ids : Rem(i, 1) = 0
  <2>1. ASSUME NEW i \in Ids PROVE Rem(i, 1) = 0
    <3>1. Key(i) \in Nat
      BY KeyFacts
    <3>2. Key(i) = Key(i) * 1 + 0
      BY <3>1
    <3>3. Key(i) % 1 = 0
      BY <3>1, <3>2, Remainder
    <3>. QED  BY <3>3 DEF Rem
  <2>. QED  BY <2>1
<1>2. Ids \subseteq Nat
  BY DEF RowOK
<1>. QED  BY <1>1, <1>2 DEF SortedOK, Sorted, Before

LEMMA InitHolds ==
  ASSUME SamplerAssumption, Init
  PROVE  IInv
<1>1. RowOK
  BY RowFacts DEF Init
<1>2. SortedOK
  BY <1>1, Unsorted DEF Init
<1>. QED  BY <1>2 DEF IInv, Init

\* What a step that keeps the order finds in it.
LEMMA SameOrder ==
  ASSUME UNCHANGED <<probs, cfg, order, unit>>
  PROVE  /\ Ids' = Ids /\ Top' = Top /\ Masses' = Masses /\ SortedOK' = SortedOK /\ HasPass' = HasPass
         /\ vitna_argmax' = vitna_argmax /\ Kept(Top, Masses)' = Kept(Top, Masses)
<1>1. Masses' = Masses
  <2>1. [k \in Ids |-> probs[order[k]]]' = [k \in Ids |-> probs[order[k]]]
    BY Zenon DEF Ids
  <2>. QED  BY <2>1 DEF Masses
<1>2. Ids' = Ids /\ Top' = Top /\ SortedOK' = SortedOK /\ HasPass' = HasPass /\ vitna_argmax' = vitna_argmax
  BY Zenon DEF Ids, Top, SortedOK, Sorted, Before, Rem, Key, HasPass, vitna_argmax, Min
<1>. QED  BY <1>1, <1>2 DEF Kept, Min

LEMMA NextHolds ==
  ASSUME SamplerAssumption, IInv, [Next]_vars
  PROVE  IInv'
<1>1. RowOK
  BY RowFacts DEF IInv
<1>2. CASE Argmax
  <2>1. UNCHANGED <<probs, cfg, order, unit>> /\ keep' = keep /\ ~cfg.hot
    BY <1>2 DEF Argmax
  <2>2. drawn' = [u \in 1 .. WHOLE |-> vitna_argmax]
    BY <1>2 DEF Argmax
  <2>. QED  BY <2>1, <2>2, SameOrder DEF IInv
<1>3. CASE Pass
  <2>1. SortedOK'
    BY <1>1, <1>3, PassSorts DEF IInv
  <2>2. cfg.hot /\ keep = 0 /\ probs' = probs /\ cfg' = cfg /\ keep' = keep /\ drawn' = drawn
    BY <1>3 DEF Pass
  <2>3. drawn = <<>>
    BY <2>2 DEF IInv
  <2>. QED  BY <2>1, <2>2, <2>3 DEF IInv
<1>4. CASE Keep
  <2>1. UNCHANGED <<probs, cfg, order, unit>> /\ drawn' = drawn /\ cfg.hot /\ keep = 0 /\ ~HasPass /\ keep' = Kept(Top, Masses)
    BY <1>4 DEF Keep, Top
  <2>2. drawn = <<>>
    BY <2>1 DEF IInv
  <2>. QED  BY <2>1, <2>2, SameOrder DEF IInv
<1>5. CASE Draw
  <2>1. UNCHANGED <<probs, cfg, order, unit>> /\ keep' = keep /\ keep > 0
    BY <1>5 DEF Draw
  <2>2. keep # 0 /\ cfg.hot
    BY <2>1, <1>1, KeptIs DEF IInv
  <2>3. drawn' = [u \in 1 .. WHOLE |-> Drawn(u, Masses)]
    BY <1>5 DEF Draw
  <2>4. \A u \in 1 .. WHOLE : Drawn(u, Masses)' = Drawn(u, Masses)
    BY <2>1, SameOrder DEF Drawn, Min
  <2>. QED  BY <2>1, <2>2, <2>3, <2>4, SameOrder DEF IInv
<1>6. CASE UNCHANGED vars
  <2>1. UNCHANGED <<probs, cfg, order, unit>> /\ keep' = keep /\ drawn' = drawn
    BY <1>6 DEF vars
  <2>2. \A u \in 1 .. WHOLE : Drawn(u, Masses)' = Drawn(u, Masses)
    BY <2>1, SameOrder DEF Drawn, Min
  <2>. QED  BY <2>1, <2>2, SameOrder DEF IInv
<1>. QED  BY <1>2, <1>3, <1>4, <1>5, <1>6 DEF Next, Terminated

LEMMA DrawnFairly ==
  ASSUME SamplerAssumption, IInv
  PROVE  DrawnByShare
<1>1. RowOK
  BY RowFacts DEF IInv
<1>2. SUFFICES ASSUME drawn # <<>>
               PROVE  /\ \A u \in 1 .. WHOLE : probs[drawn[u]] > 0
                      /\ IF cfg.hot THEN Fair(Nucleus(TopK), MassOf(Nucleus(TopK)))
                         ELSE \A u \in 1 .. WHOLE : Ahead(drawn[u]) = {}
  BY DEF DrawnByShare
<1>3. CASE cfg.hot
  <2>1. keep # 0 /\ Done /\ keep = Kept(Top, Masses)
    BY <1>1, <1>2, <1>3 DEF IInv, Done
  <2>2. drawn = [u \in 1 .. WHOLE |-> Drawn(u, Masses)]
    BY <1>2, <1>3 DEF IInv
  <2>. QED  BY <1>3, <2>1, <2>2, Shares
<1>4. CASE ~cfg.hot
  <2>1. drawn = [u \in 1 .. WHOLE |-> vitna_argmax]
    BY <1>2, <1>4 DEF IInv
  <2>. QED  BY <1>1, <1>4, <2>1, Argmaximum
<1>. QED  BY <1>3, <1>4

\* Each token is drawn for its share, whatever the row, the keys, the digits,
\* top-k and top-p.
THEOREM SampledByShare == ASSUME SamplerAssumption PROVE Spec => []DrawnByShare
<1>1. Init => IInv
  BY InitHolds
<1>2. IInv /\ [Next]_vars => IInv'
  BY NextHolds
<1>3. IInv => DrawnByShare
  BY DrawnFairly
<1>. QED  BY <1>1, <1>2, <1>3, PTL DEF Spec
=============================================================================
