----------------------------- MODULE FoldProofs -----------------------------
(***************************************************************************)
(* What the folds of the models compute, for every input: the number that  *)
(* stoll reads from digits (WireProtocol) and the list that                *)
(* filterUsablePeers makes of the tracker's answer (PeerList).             *)
(*                                                                         *)
(* FoldLeft is MapThenFoldSet over the indices, a recursive function of    *)
(* sets that is CHOSEN.  FoldExists says that there is one; then the fold  *)
(* of the first k elements is a step from that of the first k - 1, and     *)
(* SegmentInduction, which is WFMin for a segment of the numbers, goes     *)
(* along the sequence.                                                     *)
(***************************************************************************)
EXTENDS WireProtocol, PeerList, WellFoundedInduction, SequenceTheorems,
        FiniteSetTheorems, TLAPS

\* Induction along 0..n, from the set of counterexamples: it has no least element.
LEMMA SegmentInduction ==
    ASSUME NEW n \in Nat, NEW S, 0 \in S,
           \A k \in 0..(n - 1) : k \in S => k + 1 \in S
    PROVE  \A k \in 0..n : k \in S
<1> DEFINE missing == {k \in 0..n : k \notin S}
<1> SUFFICES ASSUME missing # {} PROVE FALSE
  OBVIOUS
<1>1. missing \subseteq Nat
  OBVIOUS
<1> HIDE DEF missing
<1>2. PICK k \in missing : \A j \in missing : <<j, k>> \notin OpToRel(<, Nat)
  BY <1>1, WFMin, NatLessThanWellFounded
<1>3. \A j \in missing : ~(j < k)
  BY <1>1, <1>2, Zenon DEF OpToRel
<1>4. k \in 1..n /\ k \notin S
  BY DEF missing
<1>5. k - 1 \notin missing
  BY <1>3, <1>4
<1>6. k - 1 \in S
  BY <1>4, <1>5 DEF missing
<1> QED
  BY <1>4, <1>6

\* The greatest of a set that has n and nothing above.
LEMMA MaxIs ==
    ASSUME NEW n \in Nat, NEW s \in SUBSET (1..n), n \in s
    PROVE  Max(s) = n
<1>1. \A x \in s : (\A y \in s : x >= y) => x = n
  OBVIOUS
<1>2. \A y \in s : n >= y
  OBVIOUS
<1> QED
  BY <1>1, <1>2 DEF Max
-----------------------------------------------------------------------------
(* Folds: MapThenFoldSet, which FoldLeft is made of, takes a function of sets of   *)
(* indices that removes the greatest, if there is such a function.             *)

Steps(g, n, base, step) ==
    \A s \in SUBSET (1..n) :
        g[s] = IF s = {} THEN base ELSE step[<<g[s \ {Max(s)}], Max(s)>>]
\* There is, as far as the step keeps to a set.
LEMMA FoldExists ==
    ASSUME NEW n \in Nat, NEW X, NEW base \in X, NEW step \in [X \X (1..n) -> X]
    PROVE  \E g \in [SUBSET (1..n) -> X] : Steps(g, n, base, step)
<1> DEFINE S == {k \in 0..n : \E g \in [SUBSET (1..k) -> X] : Steps(g, k, base, step)}
<1>1. 0 \in S
  <2> DEFINE g == [s \in SUBSET (1..0) |-> base]
  <2>1. g \in [SUBSET (1..0) -> X]
    OBVIOUS
  <2>2. Steps(g, 0, base, step)
    BY DEF Steps
  <2> QED
    BY <2>1, <2>2
<1>2. ASSUME NEW k \in 0..(n - 1), k \in S PROVE k + 1 \in S
  <2>1. PICK g \in [SUBSET (1..k) -> X] : Steps(g, k, base, step)
    BY <1>2
  <2> DEFINE m == k + 1
             h == [s \in SUBSET (1..m) |->
                     IF m \in s THEN step[<<g[s \ {m}], m>>] ELSE g[s]]
  <2>2. \A s \in SUBSET (1..m) : /\ m \notin s => s \in SUBSET (1..k)
                                 /\ s \ {m} \in SUBSET (1..k)
    OBVIOUS
  <2>3. h \in [SUBSET (1..m) -> X]
    <3>1. \A s \in SUBSET (1..k) : <<g[s], m>> \in X \X (1..n)
      OBVIOUS
    <3> QED
      BY <2>2, <3>1
  <2>4. \A s \in SUBSET (1..k) : h[s] = g[s]
    OBVIOUS
  <2>5. ASSUME NEW s \in SUBSET (1..m)
        PROVE  h[s] = IF s = {} THEN base ELSE step[<<h[s \ {Max(s)}], Max(s)>>]
    <3>1. CASE m \in s
      <4>1. Max(s) = m
        BY <3>1, MaxIs
      <4>2. h[s] = step[<<g[s \ {m}], m>>]
        BY <3>1
      <4> QED
        BY <2>2, <2>4, <4>1, <4>2, <3>1
    <3>2. CASE m \notin s
      <4>1. s \in SUBSET (1..k) /\ s \ {Max(s)} \in SUBSET (1..k)
        BY <3>2, <2>2
      <4> QED
        BY <2>1, <2>4, <4>1 DEF Steps
    <3> QED
      BY <3>1, <3>2
  <2>6. Steps(h, m, base, step)
    BY <2>5 DEF Steps
  <2> HIDE DEF h
  <2> QED
    BY <2>3, <2>6
<1>3. n \in S
  <2> HIDE DEF S
  <2> QED
    BY <1>1, <1>2, SegmentInduction
<1> QED
  BY <1>3

\* A fold over 1..n goes along the first segments.
LEMMA SegmentMax ==
    ASSUME NEW n \in Nat, NEW k \in 1..n
    PROVE  /\ 1..k \in SUBSET (1..n) /\ 1..k # {} /\ Max(1..k) = k
           /\ (1..k) \ {k} = 1..(k - 1)
<1>1. 1..k \in SUBSET (1..n) /\ 1..k # {} /\ k \in 1..k /\ k \in Nat
  OBVIOUS
<1>2. Max(1..k) = k
  BY <1>1, MaxIs
<1>3. (1..k) \ {k} = 1..(k - 1)
  OBVIOUS
<1> QED
  BY <1>1, <1>2, <1>3

LEMMA MaxIsMember ==
    ASSUME NEW n \in Nat, NEW s \in SUBSET (1..n), s # {}
    PROVE  Max(s) \in s
<1> DEFINE S == {k \in 0..n : \A t \in SUBSET (1..k) : t # {} => Max(t) \in t}
<1>1. 0 \in S
  <2>1. \A t \in SUBSET (1..0) : t = {}
    OBVIOUS
  <2>2. 0 \in 0..n
    OBVIOUS
  <2> QED
    BY <2>1, <2>2, Zenon
<1>2. ASSUME NEW k \in 0..(n - 1), k \in S PROVE k + 1 \in S
  <2>1. ASSUME NEW t \in SUBSET (1..(k + 1)), t # {} PROVE Max(t) \in t
    <3>1. CASE k + 1 \in t
      BY <3>1, MaxIs
    <3>2. CASE k + 1 \notin t
      <4>1. t \in SUBSET (1..k)
        BY <3>2
      <4> QED
        BY <4>1, <2>1, <1>2
    <3> QED
      BY <3>1, <3>2
  <2> QED
    BY <2>1
<1>3. n \in S
  <2> HIDE DEF S
  <2> QED
    BY <1>1, <1>2, SegmentInduction
<1> QED
  BY <1>3

-----------------------------------------------------------------------------
(* Numbers and their digits *)

\* stoll goes from digit to digit.
LEMMA NumberSteps ==
    ASSUME NEW word, word.digits \in Seq(Nat), word.digits # <<>>
    PROVE  \E value : /\ Number(word) = value[Len(word.digits)] /\ value[0] = 0
                      /\ \A k \in 1..Len(word.digits) :
                            value[k] = 10 * value[k - 1] + word.digits[k]
<1> DEFINE digits == word.digits
           n == Len(digits)
           step == [p \in Nat \X (1..n) |-> 10 * p[1] + digits[p[2]]]
           IsFold(g) == g = [s \in SUBSET (DOMAIN digits) |->
                        IF s = {} THEN 0 ELSE 10 * g[s \ {Max(s)}] + digits[Max(s)]]
           fold == CHOOSE g : IsFold(g)
<1>1. n \in Nat /\ DOMAIN digits = 1..n /\ \A i \in 1..n : digits[i] \in Nat
  BY LenProperties, ElementOfSeq
<1>2. Number(word) = fold[DOMAIN digits]
  BY Zenon DEF Number, FoldLeft, MapThenFoldSet
<1>3. \E g : IsFold(g)
  <2>1. step \in [Nat \X (1..n) -> Nat]
    BY <1>1
  <2>2. PICK g \in [SUBSET (1..n) -> Nat] : Steps(g, n, 0, step)
    BY <1>1, <2>1, FoldExists
  <2>3. ASSUME NEW s \in SUBSET (1..n), s # {}
        PROVE  g[s] = 10 * g[s \ {Max(s)}] + digits[Max(s)]
    <3>1. Max(s) \in 1..n
      BY <1>1, <2>3, MaxIsMember
    <3>2. g[s] = step[<<g[s \ {Max(s)}], Max(s)>>]
      BY <2>2, <2>3 DEF Steps
    <3> QED
      BY <3>1, <3>2
  <2>4. \A s \in SUBSET (1..n) : s = {} => g[s] = 0
    BY <2>2 DEF Steps
  <2> QED
    BY <1>1, <2>3, <2>4
<1>4. IsFold(fold)
  BY <1>3
<1> DEFINE value == [k \in 0..n |-> fold[1..k]]
<1> HIDE DEF fold
<1>5. value[0] = 0
  <2>1. 1..0 = {} /\ {} \in SUBSET (DOMAIN digits)
    OBVIOUS
  <2> QED
    BY <1>1, <1>4, <2>1
<1>6. ASSUME NEW k \in 1..n PROVE value[k] = 10 * value[k - 1] + digits[k]
  <2>1. value[k] = fold[1..k] /\ value[k - 1] = fold[1..(k - 1)]
    BY <1>1
  <2>2. 1..k \in SUBSET (DOMAIN digits) /\ 1..k # {}
    BY <1>1, SegmentMax, Zenon
  <2>3. fold[1..k] = 10 * fold[(1..k) \ {Max(1..k)}] + digits[Max(1..k)]
    BY <1>4, <2>2
  <2> QED
    BY <1>1, <2>1, <2>3, SegmentMax
<1>7. Number(word) = value[n]
  BY <1>1, <1>2
<1> QED
  BY <1>5, <1>6, <1>7

LEMMA Powers ==
    \A e \in 0..9 : 10^e \in Nat \ {0} /\ 10^(e + 1) = 10 * 10^e
<1> SUFFICES ASSUME NEW e \in 0..9
             PROVE  10^e \in Nat \ {0} /\ 10^(e + 1) = 10 * 10^e
  OBVIOUS
<1>1. CASE e = 0
  <2>1. 10^0 = 1 /\ 10^1 = 10 /\ e + 1 = 1
    BY <1>1, SMT
  <2> QED
    BY <1>1, <2>1, SMT
<1>2. CASE e = 1
  <2>1. 10^1 = 10 /\ 10^2 = 100 /\ e + 1 = 2
    BY <1>2, SMT
  <2> QED
    BY <1>2, <2>1, SMT
<1>3. CASE e = 2
  <2>1. 10^2 = 100 /\ 10^3 = 1000 /\ e + 1 = 3
    BY <1>3, SMT
  <2> QED
    BY <1>3, <2>1, SMT
<1>4. CASE e = 3
  <2>1. 10^3 = 1000 /\ 10^4 = 10000 /\ e + 1 = 4
    BY <1>4, SMT
  <2> QED
    BY <1>4, <2>1, SMT
<1>5. CASE e = 4
  <2>1. 10^4 = 10000 /\ 10^5 = 100000 /\ e + 1 = 5
    BY <1>5, SMT
  <2> QED
    BY <1>5, <2>1, SMT
<1>6. CASE e = 5
  <2>1. 10^5 = 100000 /\ 10^6 = 1000000 /\ e + 1 = 6
    BY <1>6, SMT
  <2> QED
    BY <1>6, <2>1, SMT
<1>7. CASE e = 6
  <2>1. 10^6 = 1000000 /\ 10^7 = 10000000 /\ e + 1 = 7
    BY <1>7, SMT
  <2> QED
    BY <1>7, <2>1, SMT
<1>8. CASE e = 7
  <2>1. 10^7 = 10000000 /\ 10^8 = 100000000 /\ e + 1 = 8
    BY <1>8, SMT
  <2> QED
    BY <1>8, <2>1, SMT
<1>9. CASE e = 8
  <2>1. 10^8 = 100000000 /\ 10^9 = 1000000000 /\ e + 1 = 9
    BY <1>9, SMT
  <2> QED
    BY <1>9, <2>1, SMT
<1>10. CASE e = 9
  <2>1. 10^9 = 1000000000 /\ 10^10 = 10000000000 /\ e + 1 = 10
    BY <1>10, SMT
  <2> QED
    BY <1>10, <2>1, SMT
<1> QED
  BY <1>1, <1>2, <1>3, <1>4, <1>5, <1>6, <1>7, <1>8, <1>9, <1>10

LEMMA DivTen ==
    ASSUME NEW n \in Nat, NEW p \in Nat \ {0}
    PROVE  n \div (10 * p) = (n \div p) \div 10
<1> DEFINE q == n \div p
           r == q \div 10
<1>1. q \in Nat /\ q * p <= n /\ n < (q + 1) * p
  BY SMT
<1> HIDE DEF q
<1>2. r \in Nat /\ 10 * r <= q /\ q < 10 * (r + 1)
  BY <1>1, SMT
<1> HIDE DEF r
<1>3. r * (10 * p) <= n
  BY <1>1, <1>2, SMT
<1>4. n < (r + 1) * (10 * p)
  BY <1>1, <1>2, SMT
<1> QED
  BY <1>1, <1>2, <1>3, <1>4, SMT DEF q, r

\* The last digit of what is left of a number.
LEMMA CutDigit ==
    ASSUME NEW n \in Nat, NEW e \in 0..9
    PROVE  n \div 10^e = 10 * (n \div 10^(e + 1)) + ((n \div 10^e) % 10)
<1>1. n \div 10^(e + 1) = (n \div 10^e) \div 10
  BY Powers, DivTen
<1>2. n \div 10^e \in Nat
  <2>1. \A p \in Nat \ {0} : n \div p \in Nat
    BY SMT
  <2> QED
    BY <2>1, Powers
<1> DEFINE m == n \div 10^e
<1> HIDE DEF m
<1>3. m \in Nat => m = 10 * (m \div 10) + (m % 10)
  BY SMT
<1> QED
  BY <1>1, <1>2, <1>3 DEF m

\* What Numeral takes for the number of digits.
Width(n) == CHOOSE w \in 1..20 : n < 10^w /\ \A v \in 1..(w - 1) : n >= 10^v

LEMMA WidthOf ==
    ASSUME NEW n \in 0..MaxInt
    PROVE  Width(n) \in 1..10 /\ n < 10^Width(n)
<1> DEFINE Fits(w) == n < 10^w /\ \A v \in 1..(w - 1) : n >= 10^v
           S == {k \in 0..10 : \/ \E w \in 1..10 : Fits(w)
                               \/ \A v \in 1..k : n >= 10^v}
<1>1. n < 10^10 /\ 10^10 \in Nat
  <2>1. MaxInt < 10^10 /\ MaxInt \in Nat /\ 10^10 \in Nat
    BY SMT DEF MaxInt
  <2>2. n \in 0..MaxInt
    OBVIOUS
  <2> HIDE DEF MaxInt
  <2> QED
    BY <2>1, <2>2, SMT
<1>2. \E w \in 1..10 : Fits(w)
  <2>1. 0 \in S
    OBVIOUS
  <2>2. ASSUME NEW k \in 0..(10 - 1), k \in S PROVE k + 1 \in S
    <3>1. CASE n < 10^(k + 1)
      <4>1. CASE \A v \in 1..k : n >= 10^v
        <5>1. k + 1 \in 1..10 /\ (k + 1) - 1 = k
          OBVIOUS
        <5>2. Fits(k + 1)
          BY <3>1, <4>1, <5>1
        <5>3. k + 1 \in 0..10
          OBVIOUS
        <5> QED
          BY <5>1, <5>2, <5>3, Zenon
      <4> QED
        BY <2>2, <4>1
    <3>2. CASE ~(n < 10^(k + 1))
      <4>1. 10^(k + 1) \in Nat
        <5>1. k \in 0..9
          OBVIOUS
        <5>2. 10^k \in Nat /\ 10^(k + 1) = 10 * 10^k
          BY <5>1, Powers
        <5> QED
          BY <5>2
      <4>2. \A v \in 1..(k + 1) : v = k + 1 \/ v \in 1..k
        OBVIOUS
      <4> QED
        BY <2>2, <3>2, <4>1, <4>2
    <3> QED
      BY <3>1, <3>2
  <2>3. 10 \in S
    <3> HIDE DEF S
    <3> QED
      BY <2>1, <2>2, SegmentInduction
  <2> QED
    BY <1>1, <2>3
<1>3. Width(n) \in 1..20 /\ Fits(Width(n))
  <2>1. 1..10 \subseteq 1..20
    OBVIOUS
  <2> QED
    BY <1>2, <2>1, Zenon DEF Width
<1>4. Width(n) \in 1..10
  <2> DEFINE w == Width(n)
  <2> SUFFICES ASSUME w \notin 1..10 PROVE FALSE
    OBVIOUS
  <2>1. 10 \in 1..(w - 1)
    BY <1>3
  <2>2. n >= 10^10
    BY <1>3, <2>1
  <2> QED
    BY <1>1, <2>2
<1> QED
  BY <1>3, <1>4

LEMMA NumeralDigits ==
    ASSUME NEW n \in 0..MaxInt
    PROVE  /\ Numeral(n).digits \in Seq(Nat) /\ Len(Numeral(n).digits) = Width(n)
           /\ \A i \in 1..Width(n) :
                 Numeral(n).digits[i] = (n \div 10^(Width(n) - i)) % 10
<1> DEFINE w == Width(n)
           digits == [i \in 1..w |-> (n \div 10^(w - i)) % 10]
<1>1. w \in 1..10
  BY WidthOf
<1>2. Numeral(n).digits = digits
  BY Zenon DEF Numeral, Width
<1> HIDE DEF w
<1>3. \A p \in Nat \ {0} : (n \div p) % 10 \in Nat
  <2>1. n \in Nat
    OBVIOUS
  <2>2. ASSUME NEW p \in Nat \ {0} PROVE n \div p \in Nat
    BY <2>1, SMT
  <2>3. \A q \in Nat : q % 10 \in Nat
    BY SMT
  <2> QED
    BY <2>2, <2>3
<1>4. \A i \in 1..w : w - i \in 0..9
  BY <1>1
<1>5. digits \in [1..w -> Nat]
  BY <1>3, <1>4, Powers
<1>6. digits \in Seq(Nat) /\ Len(digits) = w
  BY <1>1, <1>5, SeqDef, LenProperties
<1>8. \A i \in 1..w : digits[i] = (n \div 10^(w - i)) % 10
  OBVIOUS
<1> HIDE DEF digits
<1> QED
  BY <1>2, <1>6, <1>8 DEF w

\* The first digits of a numeral read as the number without its last digits.
LEMMA CutNumeral ==
    ASSUME NEW n \in 0..MaxInt, NEW d \in 1..Width(n),
           NEW word, word.digits = SubSeq(Numeral(n).digits, 1, d)
    PROVE  Number(word) = n \div 10^(Width(n) - d)
<1> DEFINE w == Width(n)
           digits == Numeral(n).digits
<1>1. w \in 1..10 /\ n < 10^w /\ n \in Nat /\ d \in 1..w /\ d \in Nat
  BY WidthOf
<1>2. /\ digits \in Seq(Nat) /\ Len(digits) = w
      /\ \A i \in 1..w : digits[i] = (n \div 10^(w - i)) % 10
      /\ word.digits = SubSeq(digits, 1, d)
  BY NumeralDigits
<1> HIDE DEF w, digits
<1>3. /\ word.digits \in Seq(Nat) /\ Len(word.digits) = d
      /\ \A k \in 1..d : word.digits[k] = digits[k]
  <2>1. \A i \in 1..d : digits[i] \in Nat
    BY <1>1, <1>2, ElementOfSeq
  <2> QED
    BY <1>1, <1>2, <2>1, SubSeqProperties
<1>4. word.digits # <<>>
  <2>1. Len(word.digits) # 0
    BY <1>1, <1>3
  <2> QED
    BY <2>1, EmptySeq, Zenon
<1>5. PICK value : /\ Number(word) = value[d] /\ value[0] = 0
                   /\ \A k \in 1..d : value[k] = 10 * value[k - 1] + word.digits[k]
  BY <1>3, <1>4, NumberSteps
<1> DEFINE S == {k \in 0..d : value[k] = n \div 10^(w - k)}
<1>6. 0 \in S
  <2>1. \A p \in Nat : n < p => n \div p = 0
    BY <1>1, SMT
  <2>2. 10^w \in Nat
    <3> DEFINE e == w - 1
    <3>1. e \in 0..9 /\ e + 1 = w
      BY <1>1
    <3> HIDE DEF e
    <3>2. 10^e \in Nat /\ 10^(e + 1) = 10 * 10^e
      BY <3>1, Powers
    <3> QED
      BY <3>1, <3>2
  <2>3. w - 0 = w /\ 0 \in 0..d
    BY <1>1
  <2> QED
    BY <1>1, <1>5, <2>1, <2>2, <2>3
<1>7. ASSUME NEW k \in 0..(d - 1), k \in S PROVE k + 1 \in S
  <2> DEFINE e == w - (k + 1)
  <2>1. e \in 0..9 /\ e + 1 = w - k /\ k + 1 \in 1..d /\ k + 1 \in 1..w /\ (k + 1) - 1 = k
    BY <1>1
  <2>2. word.digits[k + 1] = (n \div 10^e) % 10
    BY <1>2, <1>3, <2>1
  <2>3. value[k + 1] = 10 * value[k] + word.digits[k + 1]
    BY <1>5, <2>1
  <2>4. value[k] = n \div 10^(e + 1)
    BY <1>7, <2>1
  <2>5. n \div 10^e = 10 * (n \div 10^(e + 1)) + ((n \div 10^e) % 10)
    BY <1>1, <2>1, CutDigit
  <2> QED
    BY <2>1, <2>2, <2>3, <2>4, <2>5
<1>8. d \in S
  <2> HIDE DEF S
  <2> QED
    BY <1>1, <1>6, <1>7, SegmentInduction
<1> QED
  BY <1>5, <1>8 DEF w

\* stoll gets back what to_string was given.
LEMMA WholeNumeral ==
    ASSUME NEW n \in 0..MaxInt PROVE Number(Numeral(n)) = n
<1> DEFINE w == Width(n)
           digits == Numeral(n).digits
<1>1. w \in 1..10 /\ w \in 1..w
  BY WidthOf
<1>2. digits \in Seq(Nat) /\ Len(digits) = w
  BY NumeralDigits
<1>3. SubSeq(digits, 1, w) = digits
  BY <1>1, <1>2, SubSeqFull
<1>4. Number(Numeral(n)) = n \div 10^(w - w)
  BY <1>1, <1>3, CutNumeral
<1>5. w - w = 0 /\ n \div 10^0 = n
  BY <1>1, SMT
<1> QED
  BY <1>4, <1>5

-----------------------------------------------------------------------------
(* The list of peers *)

\* An object from which an endpoint is made.
Complete(o) == o.peerId # "" /\ o.ip # "" /\ o.port > 0

LEMMA ListedSteps ==
    ASSUME NEW S, NEW objects \in Seq(S)
    PROVE  \E value \in [0..Len(objects) -> Seq(S)] :
              /\ Listed(objects) = value[Len(objects)] /\ value[0] = <<>>
              /\ \A k \in 1..Len(objects) :
                    value[k] = IF Complete(objects[k])
                               THEN Append(value[k - 1], objects[k])
                               ELSE value[k - 1]
<1> DEFINE n == Len(objects)
           Take(listed, o) == IF Complete(o) THEN Append(listed, o) ELSE listed
           step == [p \in Seq(S) \X (1..n) |-> Take(p[1], objects[p[2]])]
           IsFold(g) == g = [s \in SUBSET (DOMAIN objects) |->
                               IF s = {} THEN <<>>
                               ELSE Take(g[s \ {Max(s)}], objects[Max(s)])]
           fold == CHOOSE g : IsFold(g)
<1>1. n \in Nat /\ DOMAIN objects = 1..n /\ \A i \in 1..n : objects[i] \in S
  BY LenProperties, ElementOfSeq
<1>2. Listed(objects) = fold[DOMAIN objects]
  BY Zenon DEF Listed, FoldLeft, MapThenFoldSet, Complete
<1>3. \E g : IsFold(g) /\ \A s \in SUBSET (1..n) : g[s] \in Seq(S)
  <2>1. step \in [Seq(S) \X (1..n) -> Seq(S)]
    <3>1. ASSUME NEW listed \in Seq(S), NEW i \in 1..n
          PROVE  Take(listed, objects[i]) \in Seq(S)
      BY <1>1, AppendProperties
    <3> QED
      BY <3>1
  <2>2. PICK g \in [SUBSET (1..n) -> Seq(S)] : Steps(g, n, <<>>, step)
    BY <1>1, <2>1, EmptySeq, FoldExists
  <2>3. ASSUME NEW s \in SUBSET (1..n), s # {}
        PROVE  g[s] = Take(g[s \ {Max(s)}], objects[Max(s)])
    <3>1. Max(s) \in 1..n
      BY <1>1, <2>3, MaxIsMember
    <3>2. g[s] = step[<<g[s \ {Max(s)}], Max(s)>>]
      BY <2>2, <2>3 DEF Steps
    <3>3. g[s \ {Max(s)}] \in Seq(S)
      BY <2>2
    <3> QED
      BY <3>1, <3>2, <3>3
  <2>4. \A s \in SUBSET (1..n) : s = {} => g[s] = <<>>
    BY <2>2 DEF Steps
  <2> HIDE DEF Take
  <2> QED
    BY <1>1, <2>3, <2>4
<1>4. IsFold(fold)
  BY <1>3
<1> DEFINE value == [k \in 0..n |-> fold[1..k]]
           S1 == {k \in 0..n : value[k] \in Seq(S)}
<1> HIDE DEF fold
<1>5. value[0] = <<>>
  <2>1. 1..0 = {} /\ {} \in SUBSET (DOMAIN objects) /\ 0 \in 0..n
    BY <1>1
  <2> QED
    BY <1>4, <2>1
<1>6. \A k \in 1..n : value[k] = Take(value[k - 1], objects[k])
  <2> SUFFICES ASSUME NEW k \in 1..n
               PROVE  value[k] = Take(value[k - 1], objects[k])
    OBVIOUS
  <2> HIDE DEF Take
  <2>1. value[k] = fold[1..k] /\ value[k - 1] = fold[1..(k - 1)]
    BY <1>1
  <2>2. 1..k \in SUBSET (DOMAIN objects) /\ 1..k # {}
    BY <1>1, SegmentMax, Zenon
  <2>3. fold[1..k] = Take(fold[(1..k) \ {Max(1..k)}], objects[Max(1..k)])
    BY <1>4, <2>2
  <2> QED
    BY <1>1, <2>1, <2>3, SegmentMax
<1> HIDE DEF value
<1>7. n \in S1 /\ \A k \in 0..n : value[k] \in Seq(S)
  <2>1. 0 \in S1
    <3>1. 0 \in 0..n /\ <<>> \in Seq(S)
      BY <1>1
    <3> QED
      BY <1>5, <3>1
  <2>2. ASSUME NEW k \in 0..(n - 1), k \in S1 PROVE k + 1 \in S1
    <3>1. k + 1 \in 1..n /\ (k + 1) - 1 = k /\ k + 1 \in 0..n
      BY <1>1
    <3>2. value[k] \in Seq(S) /\ objects[k + 1] \in S
      BY <1>1, <2>2, <3>1
    <3>3. Take(value[k], objects[k + 1]) \in Seq(S)
      BY <3>2, AppendProperties
    <3> HIDE DEF Take
    <3>4. value[k + 1] = Take(value[k], objects[k + 1])
      BY <1>6, <3>1, Zenon
    <3> QED
      BY <3>1, <3>3, <3>4
  <2>3. \A k \in 0..n : k \in S1
    <3> HIDE DEF S1
    <3> QED
      BY <1>1, <2>1, <2>2, SegmentInduction
  <2> QED
    BY <1>1, <2>3
<1>8. value \in [0..n -> Seq(S)]
  BY <1>7 DEF value
<1>9. Listed(objects) = value[n]
  <2>1. n \in 0..n
    BY <1>1
  <2> QED
    BY <1>1, <1>2, <2>1 DEF value
<1> QED
  BY <1>5, <1>6, <1>8, <1>9

\* A server that is not asked (again).
Skipped(self, usable, peer) ==
    \/ peer.peerId = self
    \/ peer.ip = "" \/ peer.port <= 0
    \/ Address(peer) \in {Address(u) : u \in ToSet(usable)}
Kept(self, usable, peer) ==
    IF Skipped(self, usable, peer) THEN usable ELSE Append(usable, peer)

\* What the loop has after each of the peers.
Growing(self, S, peers, value) ==
    /\ value \in [0..Len(peers) -> Seq(S)]
    /\ FilterUsablePeers(self, peers) = value[Len(peers)] /\ value[0] = <<>>
    /\ \A k \in 1..Len(peers) : value[k] = Kept(self, value[k - 1], peers[k])

LEMMA UsableSteps ==
    ASSUME NEW self, NEW S, NEW peers \in Seq(S)
    PROVE  \E value : Growing(self, S, peers, value)
<1> DEFINE n == Len(peers)
           step == [p \in Seq(S) \X (1..n) |-> Kept(self, p[1], peers[p[2]])]
           IsFold(g) == g = [s \in SUBSET (DOMAIN peers) |->
                               IF s = {} THEN <<>>
                               ELSE Kept(self, g[s \ {Max(s)}], peers[Max(s)])]
           fold == CHOOSE g : IsFold(g)
<1>1. n \in Nat /\ DOMAIN peers = 1..n /\ \A i \in 1..n : peers[i] \in S
  BY LenProperties, ElementOfSeq
<1>2. FilterUsablePeers(self, peers) = fold[DOMAIN peers]
  BY Zenon DEF FilterUsablePeers, FoldLeft, MapThenFoldSet, Kept, Skipped
<1>3. \E g : IsFold(g) /\ \A s \in SUBSET (1..n) : g[s] \in Seq(S)
  <2>1. step \in [Seq(S) \X (1..n) -> Seq(S)]
    <3>1. ASSUME NEW usable \in Seq(S), NEW i \in 1..n
          PROVE  Kept(self, usable, peers[i]) \in Seq(S)
      BY <1>1, AppendProperties DEF Kept
    <3> QED
      BY <3>1
  <2>2. PICK g \in [SUBSET (1..n) -> Seq(S)] : Steps(g, n, <<>>, step)
    BY <1>1, <2>1, EmptySeq, FoldExists
  <2>3. ASSUME NEW s \in SUBSET (1..n), s # {}
        PROVE  g[s] = Kept(self, g[s \ {Max(s)}], peers[Max(s)])
    <3>1. Max(s) \in 1..n
      BY <1>1, <2>3, MaxIsMember
    <3>2. g[s] = step[<<g[s \ {Max(s)}], Max(s)>>]
      BY <2>2, <2>3 DEF Steps
    <3>3. g[s \ {Max(s)}] \in Seq(S)
      BY <2>2
    <3> QED
      BY <3>1, <3>2, <3>3
  <2>4. \A s \in SUBSET (1..n) : s = {} => g[s] = <<>>
    BY <2>2 DEF Steps
  <2> QED
    BY <1>1, <2>3, <2>4
<1>4. IsFold(fold)
  BY <1>3
<1> DEFINE value == [k \in 0..n |-> fold[1..k]]
           S1 == {k \in 0..n : value[k] \in Seq(S)}
<1> HIDE DEF fold
<1>5. value[0] = <<>>
  <2>1. 1..0 = {} /\ {} \in SUBSET (DOMAIN peers) /\ 0 \in 0..n
    BY <1>1
  <2> QED
    BY <1>4, <2>1
<1>6. \A k \in 1..n : value[k] = Kept(self, value[k - 1], peers[k])
  <2> SUFFICES ASSUME NEW k \in 1..n
               PROVE  value[k] = Kept(self, value[k - 1], peers[k])
    OBVIOUS
  <2>1. value[k] = fold[1..k] /\ value[k - 1] = fold[1..(k - 1)]
    BY <1>1
  <2>2. 1..k \in SUBSET (DOMAIN peers) /\ 1..k # {}
    BY <1>1, SegmentMax, Zenon
  <2>3. fold[1..k] = Kept(self, fold[(1..k) \ {Max(1..k)}], peers[Max(1..k)])
    BY <1>4, <2>2
  <2> QED
    BY <1>1, <2>1, <2>3, SegmentMax
<1> HIDE DEF value
<1>7. n \in S1 /\ \A k \in 0..n : value[k] \in Seq(S)
  <2>1. 0 \in S1
    <3>1. 0 \in 0..n /\ <<>> \in Seq(S)
      BY <1>1
    <3> QED
      BY <1>5, <3>1
  <2>2. ASSUME NEW k \in 0..(n - 1), k \in S1 PROVE k + 1 \in S1
    <3>1. k + 1 \in 1..n /\ (k + 1) - 1 = k /\ k + 1 \in 0..n
      BY <1>1
    <3>2. value[k] \in Seq(S) /\ peers[k + 1] \in S
      BY <1>1, <2>2, <3>1
    <3>3. Kept(self, value[k], peers[k + 1]) \in Seq(S)
      BY <3>2, AppendProperties DEF Kept
    <3>4. value[k + 1] = Kept(self, value[k], peers[k + 1])
      BY <1>6, <3>1, Zenon
    <3> QED
      BY <3>1, <3>3, <3>4
  <2>3. \A k \in 0..n : k \in S1
    <3> HIDE DEF S1
    <3> QED
      BY <1>1, <2>1, <2>2, SegmentInduction
  <2> QED
    BY <1>1, <2>3
<1>8. value \in [0..n -> Seq(S)]
  BY <1>7 DEF value
<1>9. FilterUsablePeers(self, peers) = value[n]
  <2>1. n \in 0..n
    BY <1>1
  <2> QED
    BY <1>1, <1>2, <2>1 DEF value
<1> QED
  BY <1>5, <1>6, <1>8, <1>9 DEF Growing

LEMMA NothingUsable == \A self : FilterUsablePeers(self, <<>>) = <<>>
<1> SUFFICES ASSUME NEW self PROVE FilterUsablePeers(self, <<>>) = <<>>
  OBVIOUS
<1>1. <<>> \in Seq({}) /\ Len(<<>>) = 0
  OBVIOUS
<1>2. PICK none : Growing(self, {}, <<>>, none)
  BY <1>1, UsableSteps, Zenon
<1> QED
  BY <1>1, <1>2 DEF Growing

LEMMA UsableAppend ==
    ASSUME NEW self, NEW S, NEW peers \in Seq(S), NEW peer \in S
    PROVE  LET usable == FilterUsablePeers(self, peers)
           IN  /\ usable \in Seq(S)
               /\ FilterUsablePeers(self, Append(peers, peer)) =
                     Kept(self, usable, peer)
<1> DEFINE n == Len(peers)
           all == Append(peers, peer)
<1>1. /\ all \in Seq(S) /\ Len(all) = n + 1 /\ all[n + 1] = peer /\ n \in Nat
      /\ \A i \in 1..n : all[i] = peers[i]
  BY AppendProperties, LenProperties
<1>2. PICK value \in [0..n -> Seq(S)] :
        /\ FilterUsablePeers(self, peers) = value[n] /\ value[0] = <<>>
        /\ \A k \in 1..n : value[k] = Kept(self, value[k - 1], peers[k])
  <2>1. \E value : Growing(self, S, peers, value)
    BY UsableSteps, Zenon
  <2> QED
    BY <2>1, Zenon DEF Growing
<1> HIDE DEF all
<1>3. PICK more \in [0..(n + 1) -> Seq(S)] :
        /\ FilterUsablePeers(self, all) = more[n + 1] /\ more[0] = <<>>
        /\ \A k \in 1..(n + 1) : more[k] = Kept(self, more[k - 1], all[k])
  <2>1. \E more : Growing(self, S, all, more)
    BY <1>1, UsableSteps, Zenon
  <2> QED
    BY <1>1, <2>1 DEF Growing
<1> DEFINE Same == {k \in 0..n : more[k] = value[k]}
<1>4. 0 \in Same
  BY <1>1, <1>2, <1>3
<1>5. ASSUME NEW k \in 0..(n - 1), k \in Same PROVE k + 1 \in Same
  <2>1. k + 1 \in 1..n /\ k + 1 \in 1..(n + 1) /\ (k + 1) - 1 = k /\ k + 1 \in 0..n
    BY <1>1
  <2>2. more[k + 1] = Kept(self, more[k], all[k + 1])
    BY <1>3, <2>1, Zenon
  <2>3. value[k + 1] = Kept(self, value[k], peers[k + 1])
    BY <1>2, <2>1, Zenon
  <2> QED
    BY <1>1, <1>5, <2>1, <2>2, <2>3
<1>6. more[n] = value[n]
  <2>1. \A k \in 0..n : k \in Same
    <3> HIDE DEF Same
    <3> QED
      BY <1>1, <1>4, <1>5, SegmentInduction
  <2> QED
    BY <1>1, <2>1
<1>7. more[n + 1] = Kept(self, more[n], peer)
  <2>1. n + 1 \in 1..(n + 1) /\ (n + 1) - 1 = n
    BY <1>1
  <2> QED
    BY <1>1, <1>3, <2>1
<1>8. value[n] \in Seq(S)
  <2>1. n \in 0..n
    BY <1>1
  <2> QED
    BY <1>2, <2>1
<1> QED
  BY <1>2, <1>3, <1>6, <1>7, <1>8 DEF Kept, all

\* A server that another peer runs; where each such server is listed first, among
\* the first k objects; and its place among them.
Serves(self, o) == o.peerId \notin {"", self} /\ o.ip # "" /\ o.port > 0
Firsts(self, objects, k) ==
    {i \in 1..k : /\ Serves(self, objects[i])
                  /\ \A j \in 1..(i - 1) : Serves(self, objects[j]) =>
                        Address(objects[j]) # Address(objects[i])}
Place(set, i) == Cardinality({j \in set : j <= i})

\* IsUsableList of the first k objects, and the addresses in it.
UsableSoFar(list, self, objects, k) ==
    /\ list \in Seq(ToSet(objects))
    /\ Len(list) = Cardinality(Firsts(self, objects, k))
    /\ \A i \in Firsts(self, objects, k) :
          list[Place(Firsts(self, objects, k), i)] = objects[i]
    /\ {Address(u) : u \in ToSet(list)} =
          {Address(objects[i]) : i \in {j \in 1..k : Serves(self, objects[j])}}

\* With one more object the list gets it, or stays.
LEMMA UsableStep ==
    ASSUME NEW self, NEW S, NEW objects \in Seq(S), \A o \in S : o.port \in Int,
           NEW k \in 0..(Len(objects) - 1), NEW list, UsableSoFar(list, self, objects, k)
    PROVE  UsableSoFar(IF \/ ~Complete(objects[k + 1])
                          \/ Skipped(self, list, objects[k + 1])
                       THEN list ELSE Append(list, objects[k + 1]),
                       self, objects, k + 1)
<1> DEFINE o == objects[k + 1]
           first == Firsts(self, objects, k)
           next == Firsts(self, objects, k + 1)
           served == {Address(objects[i]) : i \in {j \in 1..k : Serves(self, objects[j])}}
           T == ToSet(objects)
<1>1. /\ Len(objects) \in Nat /\ k \in Nat /\ k + 1 \in 1..Len(objects)
      /\ (k + 1) - 1 = k /\ k + 1 \in Nat /\ o \in S /\ o.port \in Int /\ o \in T
  <2>1. Len(objects) \in Nat /\ k + 1 \in 1..Len(objects) /\ k \in Nat
    BY LenProperties
  <2>2. o \in S /\ o \in T
    BY <2>1, LenProperties, ElementOfSeq DEF ToSet
  <2> QED
    BY <2>1, <2>2
<1>2. \A i \in 1..(k + 1) : i = k + 1 \/ i \in 1..k
  BY <1>1
<1>3. /\ next = IF Serves(self, o) /\ Address(o) \notin served
                 THEN first \cup {k + 1} ELSE first
      /\ first \subseteq 1..k
  <2>1. \A i \in 1..k : i \in next <=> i \in first
    BY <1>1 DEF Firsts
  <2>2. k + 1 \in next <=> Serves(self, o) /\ Address(o) \notin served
    BY <1>1 DEF Firsts
  <2>3. /\ next \subseteq 1..(k + 1) /\ first \subseteq 1..k
        /\ k + 1 \notin first /\ 1..k \subseteq 1..(k + 1)
    BY <1>1 DEF Firsts
  <2> HIDE DEF next, first, served, o
  <2>4. next \ {k + 1} = first
    BY <1>2, <2>1, <2>3
  <2> QED
    BY <2>2, <2>3, <2>4
<1>4. {Address(objects[i]) : i \in {j \in 1..(k + 1) : Serves(self, objects[j])}} =
         IF Serves(self, o) THEN served \cup {Address(o)} ELSE served
  <2>1. {j \in 1..(k + 1) : Serves(self, objects[j])} =
           {j \in 1..k : Serves(self, objects[j])}
              \cup (IF Serves(self, o) THEN {k + 1} ELSE {})
    BY <1>1, <1>2
  <2> QED
    BY <2>1
<1>5. Skipped(self, list, o) \/ ~Complete(o) <=> ~Serves(self, o) \/ Address(o) \in served
  <2>1. {Address(u) : u \in ToSet(list)} = served
    BY DEF UsableSoFar
  <2>2. Skipped(self, list, o) <=>
           o.peerId = self \/ o.ip = "" \/ o.port <= 0 \/ Address(o) \in served
    BY <2>1, Zenon DEF Skipped
  <2>3. o.port \in Int
    BY <1>1
  <2> HIDE DEF served, o
  <2>4. o.port <= 0 <=> ~(o.port > 0)
    BY <2>3
  <2>5. Serves(self, o) <=> o.peerId # "" /\ o.peerId # self /\ o.ip # "" /\ o.port > 0
    BY DEF Serves
  <2> QED
    BY <2>2, <2>4, <2>5, Zenon DEF Complete
<1>6. list \in Seq(T) /\ Len(list) = Cardinality(first) /\ Len(list) \in Nat
  BY LenProperties DEF UsableSoFar
<1>7. CASE ~Serves(self, o) \/ Address(o) \in served
  <2>1. next = first
    BY <1>3, <1>7
  <2>2. {Address(objects[i]) : i \in {j \in 1..(k + 1) : Serves(self, objects[j])}} = served
    BY <1>4, <1>7
  <2>3. UsableSoFar(list, self, objects, k + 1)
    BY <2>1, <2>2 DEF UsableSoFar
  <2> QED
    BY <1>5, <1>7, <2>3
<1>8. CASE Serves(self, o) /\ Address(o) \notin served
  <2> DEFINE longer == Append(list, o)
  <2>1. /\ longer \in Seq(T) /\ Len(longer) = Len(list) + 1
        /\ longer[Len(list) + 1] = o
        /\ \A i \in 1..Len(list) : longer[i] = list[i]
    BY <1>1, <1>6, AppendProperties
  <2>2. next = first \cup {k + 1} /\ k + 1 \notin first
    BY <1>1, <1>3, <1>8
  <2>3. IsFiniteSet(first) /\ Cardinality(next) = Cardinality(first) + 1
    <3>1. IsFiniteSet(1..k)
      BY <1>1, FS_Interval
    <3>2. IsFiniteSet(first)
      BY <1>3, <3>1, FS_Subset
    <3> QED
      BY <2>2, <3>2, FS_AddElement
  <2>4. ASSUME NEW i \in first PROVE longer[Place(next, i)] = objects[i]
    <3> DEFINE before == {j \in first : j <= i}
    <3>1. i \in 1..k
      BY <1>3
    <3>2. {j \in next : j <= i} = before
      BY <1>1, <2>2, <3>1
    <3>3. Place(next, i) = Place(first, i) /\ Place(first, i) = Cardinality(before)
      BY <3>2 DEF Place
    <3>4. before # {} /\ before \in SUBSET first
      BY <3>1
    <3> HIDE DEF before
    <3>5. Cardinality(before) \in 1..Len(list)
      BY <1>6, <2>3, <3>4, FS_Subset, FS_EmptySet, FS_CardinalityType
    <3>6. list[Place(first, i)] = objects[i]
      BY DEF UsableSoFar
    <3> QED
      BY <2>1, <3>3, <3>5, <3>6
  <2>5. longer[Place(next, k + 1)] = objects[k + 1]
    <3>1. {j \in next : j <= k + 1} = next
      <4>1. \A j \in next : j <= k + 1
        BY <1>1 DEF Firsts
      <4> QED
        BY <4>1
    <3>2. Place(next, k + 1) = Len(list) + 1
      BY <1>6, <2>3, <3>1 DEF Place
    <3> QED
      BY <2>1, <3>2
  <2>6. {Address(u) : u \in ToSet(longer)} = served \cup {Address(o)}
    <3>1. ToSet(longer) = ToSet(list) \cup {o}
      <4>1. DOMAIN longer = 1..(Len(list) + 1) /\ DOMAIN list = 1..Len(list)
        BY <1>6, <2>1, LenProperties
      <4>2. \A i \in 1..(Len(list) + 1) : i = Len(list) + 1 \/ i \in 1..Len(list)
        BY <1>6
      <4>3. Len(list) + 1 \in 1..(Len(list) + 1) /\ 1..Len(list) \subseteq 1..(Len(list) + 1)
        BY <1>6
      <4> HIDE DEF longer, o
      <4> QED
        BY <2>1, <4>1, <4>2, <4>3 DEF ToSet
    <3>2. {Address(u) : u \in ToSet(list)} = served
      BY DEF UsableSoFar
    <3> HIDE DEF longer, o, served
    <3> QED
      BY <3>1, <3>2
  <2>7. UsableSoFar(longer, self, objects, k + 1)
    <3>1. \A i \in next : longer[Place(next, i)] = objects[i]
      BY <2>2, <2>4, <2>5
    <3>2. Len(longer) = Cardinality(next)
      BY <1>6, <2>1, <2>3
    <3>3. {Address(u) : u \in ToSet(longer)} =
             {Address(objects[i]) : i \in {j \in 1..(k + 1) : Serves(self, objects[j])}}
      BY <1>4, <1>8, <2>6
    <3> HIDE DEF longer
    <3> QED
      BY <2>1, <3>1, <3>2, <3>3 DEF UsableSoFar
  <2> QED
    BY <1>5, <1>8, <2>7
<1> QED
  BY <1>7, <1>8

\* Whatever the tracker lists, in whatever order and however often, what is left is
\* each server that another peer runs, once, in the tracker's order.
THEOREM ListIsUsable ==
    ASSUME NEW self, NEW S, NEW objects \in Seq(S), \A o \in S : o.port \in Int
    PROVE  IsUsableList(FilterUsablePeers(self, Listed(objects)), self, objects)
<1> DEFINE n == Len(objects)
<1>1. n \in Nat /\ DOMAIN objects = 1..n /\ \A i \in 1..n : objects[i] \in S
  BY LenProperties, ElementOfSeq
<1>2. PICK listed \in [0..n -> Seq(S)] :
        /\ Listed(objects) = listed[n] /\ listed[0] = <<>>
        /\ \A k \in 1..n : listed[k] = IF Complete(objects[k])
                                       THEN Append(listed[k - 1], objects[k])
                                       ELSE listed[k - 1]
  BY ListedSteps
<1> DEFINE usable == [k \in 0..n |-> FilterUsablePeers(self, listed[k])]
           Good == {k \in 0..n : UsableSoFar(usable[k], self, objects, k)}
<1>3. 0 \in Good
  <2>1. 0 \in 0..n /\ 1..0 = {}
    BY <1>1
  <2>2. usable[0] = <<>>
    <3>1. FilterUsablePeers(self, <<>>) = <<>>
      BY NothingUsable
    <3> QED
      BY <1>2, <2>1, <3>1
  <2>3. Firsts(self, objects, 0) = {}
    BY <2>1 DEF Firsts
  <2>4. /\ <<>> \in Seq(ToSet(objects)) /\ Len(<<>>) = 0 /\ Cardinality({}) = 0
        /\ ToSet(<<>>) = {}
    BY FS_EmptySet DEF ToSet
  <2>5. UsableSoFar(<<>>, self, objects, 0)
    BY <2>1, <2>3, <2>4 DEF UsableSoFar
  <2> QED
    BY <2>1, <2>2, <2>5
<1>4. ASSUME NEW k \in 0..(n - 1), k \in Good PROVE k + 1 \in Good
  <2> DEFINE o == objects[k + 1]
             old == usable[k]
  <2>1. /\ k \in 0..n /\ k + 1 \in 1..n /\ k + 1 \in 0..n /\ (k + 1) - 1 = k
        /\ o \in S /\ listed[k] \in Seq(S)
    BY <1>1, <1>2
  <2>2. listed[k + 1] = IF Complete(o) THEN Append(listed[k], o) ELSE listed[k]
    BY <1>2, <2>1
  <2>3. usable[k + 1] = FilterUsablePeers(self, listed[k + 1])
        /\ usable[k] = FilterUsablePeers(self, listed[k])
    BY <2>1
  <2>4. UsableSoFar(usable[k], self, objects, k)
    BY <1>4
  <2> HIDE DEF usable
  <2>5. FilterUsablePeers(self, Append(listed[k], o)) =
           Kept(self, usable[k], o)
    BY <2>1, <2>3, UsableAppend
  <2>6. usable[k + 1] = IF ~Complete(o) \/ Skipped(self, usable[k], o)
                        THEN usable[k] ELSE Append(usable[k], o)
    BY <2>2, <2>3, <2>5, Zenon DEF Kept
  <2>7. UsableSoFar(IF ~Complete(o) \/ Skipped(self, usable[k], o)
                    THEN usable[k] ELSE Append(usable[k], o), self, objects, k + 1)
    BY <2>4, UsableStep
  <2>8. UsableSoFar(usable[k + 1], self, objects, k + 1)
    BY <2>6, <2>7, Zenon
  <2> QED
    BY <2>1, <2>8
<1>5. UsableSoFar(FilterUsablePeers(self, Listed(objects)), self, objects, n)
  <2>1. \A k \in 0..n : k \in Good
    <3> HIDE DEF Good
    <3> QED
      BY <1>1, <1>3, <1>4, SegmentInduction
  <2>2. n \in 0..n
    BY <1>1
  <2> QED
    BY <1>2, <2>1, <2>2
<1> QED
  BY <1>1, <1>5, Zenon DEF UsableSoFar, IsUsableList, Firsts, Place, Serves
=============================================================================
