------------------------- MODULE TimingWheel_proofs -------------------------
(***************************************************************************)
(* Every timer fires in its tick, and in the order it was set, for lists   *)
(* of any number and size.  First the arithmetic of blocks, then what      *)
(* add_node and move_list do to a wheel whose lists are sound, then the    *)
(* steps of the specification.                                             *)
(***************************************************************************)
EXTENDS TimingWheel, WellFoundedInduction, TLAPS

----------------------------------------------------------------------------
(* Induction *)

\* A set of natural numbers that is not empty has a least member.
LEMMA LeastExists ==
    ASSUME NEW S \in SUBSET Nat, S # {}
    PROVE  \E x \in S : \A y \in S : x <= y
<1> DEFINE R == OpToRel(<, Nat)
<1>1. IsWellFoundedOn(R, Nat)
  BY NatLessThanWellFounded, Zenon
<1>2. \A x, y \in Nat : <<y, x>> \in R <=> y < x
  BY DEF OpToRel
<1> HIDE DEF R
<1>3. PICK x \in S : \A y \in S : ~ (<<y, x>> \in R)
  BY <1>1, WFMin
<1>4. ASSUME NEW y \in S PROVE x <= y
  <2>1. x \in Nat /\ y \in Nat
    OBVIOUS
  <2>2. ~ (y < x)
    BY <1>2, <1>3, <2>1, Zenon
  <2> QED BY <2>1, <2>2
<1> QED BY <1>4

\* A set of numbers up to m that holds 0 and with each number the next holds them all.
LEMMA UpTo ==
    ASSUME NEW m \in Nat, NEW S, 0 \in S, \A n \in 0..m : n # 0 /\ n - 1 \in S => n \in S
    PROVE  \A n \in 0..m : n \in S
<1> DEFINE B == {n \in 0..m : n \notin S}
<1> SUFFICES ASSUME B # {} PROVE FALSE
  OBVIOUS
<1>1. B \in SUBSET Nat
  OBVIOUS
<1>2. PICK x \in B : \A y \in B : x <= y
  <2> HIDE DEF B
  <2> QED BY <1>1, LeastExists
<1>3. x \in 0..m /\ x \notin S /\ x # 0
  OBVIOUS
<1>4. x - 1 \in 0..m /\ ~ (x <= x - 1)
  BY <1>3
<1>5. x - 1 \in S
  BY <1>2, <1>4
<1> QED BY <1>3, <1>5

----------------------------------------------------------------------------
(* Division *)

LEMMA DivMod ==
    ASSUME NEW a \in Nat, NEW b \in Nat \ {0}
    PROVE  a \div b \in Nat /\ a % b \in 0..(b - 1) /\ a = (b * (a \div b)) + (a % b)
OBVIOUS

LEMMA DivIs ==
    ASSUME NEW a \in Nat, NEW b \in Nat \ {0}, NEW q \in Nat, NEW r \in 0..(b - 1),
           a = (b * q) + r
    PROVE  a \div b = q /\ a % b = r
<1>1. a \div b \in Nat /\ a % b \in 0..(b - 1) /\ a = (b * (a \div b)) + (a % b)
  BY DivMod
<1>2. ASSUME NEW p \in Nat, NEW s \in 0..(b - 1), a = (b * p) + s PROVE ~ (q < p)
  <2>1. ASSUME q < p PROVE FALSE
    <3>1. (b * q) + b <= b * p
      BY <2>1
    <3> QED BY <3>1, <1>2
  <2> QED BY <2>1
<1>3. ~ (a \div b < q)
  <2>1. ASSUME a \div b < q PROVE FALSE
    <3>1. (b * (a \div b)) + b <= b * q
      BY <2>1, <1>1
    <3>2. b * (a \div b) \in Nat /\ b * q \in Nat
      BY <1>1
    <3> QED BY <3>1, <3>2, <1>1
  <2> QED BY <2>1
<1>4. a \div b = q
  BY <1>1, <1>2, <1>3
<1> QED BY <1>1, <1>4

LEMMA NestDiv ==
    ASSUME NEW a \in Nat, NEW b \in Nat \ {0}, NEW c \in Nat \ {0}
    PROVE  a \div (b * c) = (a \div b) \div c
OBVIOUS

LEMMA DivLess ==
    ASSUME NEW a \in Nat, NEW d \in Nat, NEW b \in Nat \ {0}, a <= d
    PROVE  a \div b <= d \div b
<1>1. /\ a \div b \in Nat /\ a % b \in 0..(b - 1) /\ a = (b * (a \div b)) + (a % b)
      /\ d \div b \in Nat /\ d % b \in 0..(b - 1) /\ d = (b * (d \div b)) + (d % b)
  BY DivMod
<1>2. ASSUME NEW p \in Nat, NEW q \in Nat, NEW r \in 0..(b - 1), NEW s \in 0..(b - 1), p < q,
             a = (b * q) + r, d = (b * p) + s
      PROVE  FALSE
  <2>1. (b * p) + b <= b * q
    BY <1>2
  <2> QED BY <2>1, <1>2
<1> QED BY <1>1, <1>2

LEMMA DivSmall ==
    ASSUME NEW b \in Nat \ {0}, NEW a \in 0..(b - 1)
    PROVE  a \div b = 0 /\ a % b = a
OBVIOUS

\* From one tick to the next the block stays, or the next one begins.
LEMMA NextBlock ==
    ASSUME NEW a \in Nat, NEW b \in Nat \ {0}, (a + 1) \div b # a \div b
    PROVE  (a + 1) % b = 0 /\ (a + 1) \div b = (a \div b) + 1
<1>0. a + 1 \in Nat
  OBVIOUS
<1>1. a \div b \in Nat /\ a % b \in 0..(b - 1) /\ a = (b * (a \div b)) + (a % b)
  BY DivMod
<1>2. b * (a \div b) \in Nat
  BY <1>1
<1>3. CASE (a % b) + 1 \in 0..(b - 1)
  <2>1. a + 1 = (b * (a \div b)) + ((a % b) + 1)
    BY <1>1, <1>2
  <2>2. (a + 1) \div b = a \div b
    BY <2>1, <1>1, <1>3, <1>0, DivIs, Zenon
  <2> QED BY <2>2
<1>4. CASE (a % b) + 1 = b
  <2>1. b * ((a \div b) + 1) = (b * (a \div b)) + b
    BY <1>1
  <2>2. a + 1 = (b * ((a \div b) + 1)) + 0
    BY <2>1, <1>1, <1>2, <1>4
  <2>3. (a \div b) + 1 \in Nat /\ 0 \in 0..(b - 1)
    BY <1>1
  <2> QED BY <2>2, <2>3, <1>0, DivIs, Zenon
<1> QED BY <1>1, <1>3, <1>4

\* What a multiple of b * c looks like from below.
LEMMA ModNest ==
    ASSUME NEW a \in Nat, NEW b \in Nat \ {0}, NEW c \in Nat \ {0}, a % (b * c) = 0
    PROVE  a % b = 0 /\ (a \div b) % c = 0
<1> DEFINE q == a \div (b * c)
<1>1. b * c \in Nat \ {0}
  OBVIOUS
<1>2. q \in Nat /\ a = ((b * c) * q) + 0
  BY <1>1, DivMod
<1> HIDE DEF q
<1>3. (b * c) * q = b * (c * q) /\ c * q \in Nat
  BY <1>2
<1>4. a = (b * (c * q)) + 0
  BY <1>2, <1>3
<1>5. a \div b = c * q /\ a % b = 0
  BY <1>3, <1>4, DivIs
<1>6. c * q = (c * q) + 0
  BY <1>3
<1>7. (c * q) % c = 0
  BY <1>2, <1>3, <1>6, DivIs
<1> QED BY <1>5, <1>7

\* Adding the remainder instead of the number.
LEMMA ModAdd ==
    ASSUME NEW a \in Nat, NEW d \in Nat, NEW b \in Nat \ {0}
    PROVE  ((a % b) + d) % b = (a + d) % b
<1>1. a \div b \in Nat /\ a % b \in 0..(b - 1) /\ a = (b * (a \div b)) + (a % b)
  BY DivMod
<1> DEFINE s == (a % b) + d
<1>2. s \in Nat
  BY <1>1
<1>3. s \div b \in Nat /\ s % b \in 0..(b - 1) /\ s = (b * (s \div b)) + (s % b)
  BY <1>2, DivMod
<1>4. b * ((a \div b) + (s \div b)) = (b * (a \div b)) + (b * (s \div b))
  BY <1>1, <1>3
<1>5. b * (a \div b) \in Nat /\ b * (s \div b) \in Nat
  BY <1>1, <1>3
<1>6. a + d = (b * (a \div b)) + s
  BY <1>1, <1>5
<1> HIDE DEF s
<1>7. a + d = (b * ((a \div b) + (s \div b))) + (s % b)
  BY <1>3, <1>4, <1>5, <1>6
<1>8. (a \div b) + (s \div b) \in Nat /\ a + d \in Nat
  BY <1>1, <1>3
<1>9. (a + d) % b = s % b
  <2> DEFINE q == (a \div b) + (s \div b)
             r == s % b
             n == a + d
  <2>1. q \in Nat /\ n \in Nat /\ r \in 0..(b - 1) /\ n = (b * q) + r
    BY <1>3, <1>7, <1>8
  <2> HIDE DEF q, r, n
  <2>2. n % b = r
    BY <2>1, DivIs
  <2> QED BY <2>2 DEF n, r
<1> QED BY <1>9 DEF s

----------------------------------------------------------------------------
(* Blocks and levels *)

LEMMA CoverIs == Cover = [i \in 0..4 |-> IF i = 0 THEN TIME_NEAR ELSE Cover[i - 1] * TIME_LEVEL]
<1> DEFINE Is(g) == g = [i \in 0..4 |-> IF i = 0 THEN TIME_NEAR ELSE g[i - 1] * TIME_LEVEL]
           one   == TIME_NEAR * TIME_LEVEL
           two   == one * TIME_LEVEL
           three == two * TIME_LEVEL
           four  == three * TIME_LEVEL
           g     == [i \in 0..4 |-> IF i = 0 THEN TIME_NEAR ELSE IF i = 1 THEN one
                                    ELSE IF i = 2 THEN two ELSE IF i = 3 THEN three ELSE four]
<1>1. \A i \in 0..4 : g[i] = IF i = 0 THEN TIME_NEAR ELSE g[i - 1] * TIME_LEVEL
  <2>1. g[0] = TIME_NEAR /\ g[1] = one /\ g[2] = two /\ g[3] = three /\ g[4] = four
    OBVIOUS
  <2>2. one = TIME_NEAR * TIME_LEVEL /\ two = one * TIME_LEVEL /\ three = two * TIME_LEVEL
        /\ four = three * TIME_LEVEL
    OBVIOUS
  <2> HIDE DEF g, one, two, three, four
  <2>3. ASSUME NEW i \in 0..4 PROVE i = 0 \/ i = 1 \/ i = 2 \/ i = 3 \/ i = 4
    OBVIOUS
  <2> QED BY <2>1, <2>2, <2>3
<1>2. Is(g)
  <2>1. g = [i \in 0..4 |-> g[i]]
    OBVIOUS
  <2> HIDE DEF g
  <2> QED BY <2>1, <1>1
<1>3. Cover = CHOOSE h : Is(h)
  BY DEF Cover
<1> HIDE DEF Is, g
<1>4. Is(Cover)
  BY <1>2, <1>3
<1> QED BY <1>4 DEF Is

LEMMA CoverFacts ==
    /\ Cover[0] = TIME_NEAR
    /\ \A i \in 0..3 : Cover[i + 1] = Cover[i] * TIME_LEVEL
    /\ \A i \in 0..4 : Cover[i] \in Nat \ {0, 1}
    /\ Word = Cover[3] * TIME_LEVEL /\ Word \in Nat \ {0, 1} /\ 2 * Cover[3] <= Word
<1>1. Cover[0] = TIME_NEAR
  BY CoverIs
<1>2. ASSUME NEW i \in 0..3 PROVE Cover[i + 1] = Cover[i] * TIME_LEVEL
  <2>1. i + 1 \in 0..4 /\ i + 1 # 0 /\ (i + 1) - 1 = i
    OBVIOUS
  <2> QED BY <2>1, CoverIs
<1>3. \A a, b \in Nat \ {0, 1} : a * b \in Nat \ {0, 1} /\ 2 * a <= a * b
  OBVIOUS
<1>4. /\ Cover[1] = Cover[0] * TIME_LEVEL /\ Cover[2] = Cover[1] * TIME_LEVEL
      /\ Cover[3] = Cover[2] * TIME_LEVEL /\ Cover[4] = Cover[3] * TIME_LEVEL
  BY <1>2
<1>5. TIME_NEAR \in Nat \ {0, 1} /\ TIME_LEVEL \in Nat \ {0, 1}
  BY WheelAssumption
<1>6. Cover[0] \in Nat \ {0, 1} /\ Cover[1] \in Nat \ {0, 1} /\ Cover[2] \in Nat \ {0, 1}
      /\ Cover[3] \in Nat \ {0, 1} /\ Cover[4] \in Nat \ {0, 1}
  <2>1. Cover[0] \in Nat \ {0, 1}
    BY <1>1, <1>5, Zenon
  <2>2. Cover[1] \in Nat \ {0, 1}
    BY <1>3, <1>4, <1>5, <2>1, Zenon
  <2>3. Cover[2] \in Nat \ {0, 1}
    BY <1>3, <1>4, <1>5, <2>2, Zenon
  <2>4. Cover[3] \in Nat \ {0, 1}
    BY <1>3, <1>4, <1>5, <2>3, Zenon
  <2>5. Cover[4] \in Nat \ {0, 1}
    BY <1>3, <1>4, <1>5, <2>4, Zenon
  <2> QED BY <2>1, <2>2, <2>3, <2>4, <2>5, Zenon
<1>7. \A i \in 0..4 : i = 0 \/ i = 1 \/ i = 2 \/ i = 3 \/ i = 4
  OBVIOUS
<1>8. \A i \in 0..4 : Cover[i] \in Nat \ {0, 1}
  BY <1>6, <1>7, Zenon
<1>9. 2 * Cover[3] <= Cover[3] * TIME_LEVEL
  BY <1>3, <1>5, <1>6, Zenon
<1> QED BY <1>1, <1>2, <1>4, <1>6, <1>8, <1>9 DEF Word

\* Who is in the same block is in the same larger block.
LEMMA SameBlockUp ==
    ASSUME NEW x \in Nat, NEW y \in Nat, NEW i \in 0..3, SameBlock(x, y, Cover[i])
    PROVE  SameBlock(x, y, Cover[i + 1])
<1>1. Cover[i] \in Nat \ {0} /\ TIME_LEVEL \in Nat \ {0} /\ Cover[i + 1] = Cover[i] * TIME_LEVEL
  BY CoverFacts, WheelAssumption
<1>2. x \div (Cover[i] * TIME_LEVEL) = (x \div Cover[i]) \div TIME_LEVEL
      /\ y \div (Cover[i] * TIME_LEVEL) = (y \div Cover[i]) \div TIME_LEVEL
  BY <1>1, NestDiv
<1> QED BY <1>1, <1>2 DEF SameBlock

LEMMA SameBlockFrom ==
    ASSUME NEW x \in Nat, NEW y \in Nat, NEW i \in 0..4, NEW j \in 0..i,
           SameBlock(x, y, Cover[j])
    PROVE  SameBlock(x, y, Cover[i])
<1>1. \A k \in 0..3 : SameBlock(x, y, Cover[k]) => SameBlock(x, y, Cover[k + 1])
  BY SameBlockUp
<1>2. /\ SameBlock(x, y, Cover[0]) => SameBlock(x, y, Cover[1])
      /\ SameBlock(x, y, Cover[1]) => SameBlock(x, y, Cover[2])
      /\ SameBlock(x, y, Cover[2]) => SameBlock(x, y, Cover[3])
      /\ SameBlock(x, y, Cover[3]) => SameBlock(x, y, Cover[4])
  BY <1>1
<1>3. \/ i = 0 /\ j = 0
      \/ i = 1 /\ j \in {0, 1}
      \/ i = 2 /\ j \in {0, 1, 2}
      \/ i = 3 /\ j \in {0, 1, 2, 3}
      \/ i = 4 /\ j \in {0, 1, 2, 3, 4}
  OBVIOUS
<1> QED BY <1>2, <1>3

\* All words are in one block of the largest size.
LEMMA SameWord ==
    ASSUME NEW x \in 0..(Word - 1), NEW y \in 0..(Word - 1)
    PROVE  SameBlock(x, y, Cover[4])
<1>1. Word \in Nat \ {0}
  BY CoverFacts
<1>2. x \div Word = 0 /\ y \div Word = 0
  BY <1>1, DivSmall
<1> QED BY <1>2 DEF SameBlock, Word

\* The level add_node chooses is the one whose blocks tell the timer from the time and the
\* blocks above do not.
LEMMA LevelIs ==
    ASSUME NEW e \in 0..(Word - 1), NEW now \in 0..(Word - 1),
           ~ SameBlock(e, now, TIME_NEAR)
    PROVE  /\ Level(e, now) \in 0..3
           /\ \A i \in 0..3 : i = Level(e, now) <=>
                 SameBlock(e, now, Cover[i + 1]) /\ ~ SameBlock(e, now, Cover[i])
<1> DEFINE P(i) == /\ i = 3 \/ SameBlock(e, now, Cover[i + 1])
                   /\ \A j \in 0..(i - 1) : ~ SameBlock(e, now, Cover[j + 1])
           S(i) == SameBlock(e, now, Cover[i])
<1>0. e \in Nat /\ now \in Nat
  BY CoverFacts
<1>1. S(4) /\ ~ S(0)
  BY SameWord, CoverFacts
<1>2. \A i \in 0..4 : \A j \in 0..i : S(j) => S(i)
  BY <1>0, SameBlockFrom
<1>3. \A i \in 0..3 : P(i) <=> (i = 3 \/ S(i + 1)) /\ \A j \in 0..(i - 1) : ~ S(j + 1)
  OBVIOUS
<1> HIDE DEF P, S
<1>4. \A i \in 0..3 : P(i) <=> S(i + 1) /\ ~ S(i)
  <2> SUFFICES ASSUME NEW i \in 0..3 PROVE P(i) <=> S(i + 1) /\ ~ S(i)
    OBVIOUS
  <2>1. i = 3 => S(i + 1)
    BY <1>1
  <2>2. ASSUME P(i), i # 0 PROVE ~ S(i)
    <3>1. i - 1 \in 0..(i - 1) /\ (i - 1) + 1 = i
      BY <2>2
    <3> QED BY <3>1, <2>2, <1>3
  <2>3. ASSUME ~ S(i), NEW j \in 0..(i - 1) PROVE ~ S(j + 1)
    <3>1. j + 1 \in 0..i /\ i \in 0..4
      OBVIOUS
    <3> QED BY <3>1, <2>3, <1>2
  <2> QED BY <2>1, <2>2, <2>3, <1>1, <1>3
<1>5. \E i \in 0..3 : P(i)
  <2>1. (S(1) /\ ~ S(0)) \/ (S(2) /\ ~ S(1)) \/ (S(3) /\ ~ S(2)) \/ (S(4) /\ ~ S(3))
    BY <1>1
  <2> QED BY <2>1, <1>4
<1>6. \A i, j \in 0..3 : P(i) /\ P(j) => i = j
  <2>1. ASSUME NEW i \in 0..3, NEW j \in 0..3, P(i), P(j), i < j PROVE FALSE
    <3>1. i + 1 \in 0..j /\ j \in 0..4
      BY <2>1
    <3> QED BY <3>1, <2>1, <1>2, <1>4
  <2>2. \A i, j \in 0..3 : i = j \/ i < j \/ j < i
    OBVIOUS
  <2> QED BY <2>1, <2>2
<1>7. Level(e, now) = CHOOSE i \in 0..3 : P(i)
  BY DEF Level, P
<1>8. Level(e, now) \in 0..3 /\ P(Level(e, now))
  BY <1>5, <1>7
<1> QED BY <1>4, <1>6, <1>8 DEF S

\* Addition of words.
LEMMA WordSum ==
    ASSUME NEW now \in 0..(Word - 1), NEW w \in 0..(Word - 1)
    PROVE  \/ now + w < Word /\ (now + w) % Word = now + w
           \/ now + w >= Word /\ (now + w) % Word = (now + w) - Word
<1>1. Word \in Nat \ {0, 1}
  BY CoverFacts
<1>2. now \in Nat /\ w \in Nat
  BY <1>1
<1>3. CASE now + w < Word
  <2>1. now + w \in 0..(Word - 1)
    BY <1>1, <1>2, <1>3
  <2> QED BY <1>1, <1>3, <2>1, DivSmall
<1>4. CASE ~ (now + w < Word)
  <2>1. (now + w) - Word \in 0..(Word - 1) /\ now + w \in Nat /\ now + w >= Word
    BY <1>1, <1>2, <1>4
  <2>2. now + w = (Word * 1) + ((now + w) - Word)
    BY <1>1, <1>2
  <2>3. (now + w) % Word = (now + w) - Word
    BY <1>1, <2>1, <2>2, DivIs
  <2> QED BY <2>1, <2>3
<1> QED BY <1>3, <1>4

LEMMA WordSumType ==
    ASSUME NEW now \in 0..(Word - 1), NEW w \in 0..(Word - 1)
    PROVE  (now + w) % Word \in 0..(Word - 1)
<1>1. Word \in Nat \ {0, 1}
  BY CoverFacts
<1> QED BY <1>1, WordSum

\* A timer in the block of the time, at any level but the last, has not wrapped.
LEMMA Ahead ==
    ASSUME NEW now \in 0..(Word - 1), NEW w \in Nat, 2 * w < Word, NEW i \in 0..3,
           SameBlock((now + w) % Word, now, Cover[i])
    PROVE  now + w < Word /\ (now + w) % Word = now + w
<1> DEFINE e == (now + w) % Word
<1>0. /\ Word \in Nat \ {0, 1} /\ Cover[3] \in Nat \ {0} /\ 2 * Cover[3] <= Word
      /\ now \in Nat /\ w \in 0..(Word - 1)
  BY CoverFacts
<1>1. e \in Nat
  BY <1>0, WordSumType
<1>2. SameBlock(e, now, Cover[3])
  <2>1. 3 \in 0..4 /\ i \in 0..3
    OBVIOUS
  <2> QED BY <1>0, <1>1, <2>1, SameBlockFrom
<1>3. ASSUME now + w >= Word, e = (now + w) - Word PROVE FALSE
  <2>1. e + Cover[3] <= now
    BY <1>0, <1>1, <1>3
  <2>2. e + Cover[3] \in Nat
    BY <1>0, <1>1
  <2>3. (e + Cover[3]) \div Cover[3] <= now \div Cover[3]
    BY <1>0, <2>1, <2>2, DivLess
  <2>4. e \div Cover[3] \in Nat /\ e % Cover[3] \in 0..(Cover[3] - 1)
        /\ e = (Cover[3] * (e \div Cover[3])) + (e % Cover[3])
    BY <1>0, <1>1, DivMod
  <2>5. Cover[3] * ((e \div Cover[3]) + 1) = (Cover[3] * (e \div Cover[3])) + Cover[3]
    <3>1. \A p, q \in Nat : p * (q + 1) = (p * q) + p
      OBVIOUS
    <3>2. Cover[3] \in Nat
      BY <1>0
    <3> QED BY <2>4, <3>1, <3>2, Zenon
  <2>6. Cover[3] * (e \div Cover[3]) \in Nat
    <3>1. \A p, q \in Nat : p * q \in Nat
      OBVIOUS
    <3>2. Cover[3] \in Nat
      BY <1>0
    <3> QED BY <2>4, <3>1, <3>2, Zenon
  <2>7. e + Cover[3] = (Cover[3] * ((e \div Cover[3]) + 1)) + (e % Cover[3])
    BY <1>0, <2>4, <2>5, <2>6
  <2>8. (e \div Cover[3]) + 1 \in Nat
    BY <2>4
  <2>9. (e + Cover[3]) \div Cover[3] = (e \div Cover[3]) + 1
    BY <1>0, <2>2, <2>4, <2>7, <2>8, DivIs, Zenon
  <2> QED BY <2>3, <2>4, <2>9, <1>2 DEF SameBlock
<1>4. \/ now + w < Word /\ e = now + w
      \/ now + w >= Word /\ e = (now + w) - Word
  BY <1>0, WordSum
<1> QED BY <1>3, <1>4

\* In the next tick the time is still in the blocks that a timer and the time share.
LEMMA StaysInBlock ==
    ASSUME NEW now \in 0..(Word - 1), NEW w \in Nat \ {0}, 2 * w < Word, NEW i \in 0..3,
           SameBlock((now + w) % Word, now, Cover[i])
    PROVE  /\ (now + 1) % Word = now + 1
           /\ SameBlock((now + w) % Word, now + 1, Cover[i])
<1> DEFINE e == now + w
           C == Cover[i]
<1>0. C \in Nat \ {0} /\ Word \in Nat \ {0, 1} /\ now \in Nat
  BY CoverFacts
<1>1. now + w < Word /\ (now + w) % Word = e
  BY <1>0, Ahead
<1>2. now + 1 \in 0..(Word - 1) /\ (now + 1) % Word = now + 1
  <2>1. now + 1 \in 0..(Word - 1)
    BY <1>0, <1>1
  <2> QED BY <1>0, <2>1, DivSmall
<1>3. now \in Nat /\ now + 1 \in Nat /\ e \in Nat /\ now <= now + 1 /\ now + 1 <= e
  BY <1>0
<1>6. e \div C = now \div C
  BY <1>1 DEF SameBlock
<1> HIDE DEF e, C
<1>4. now \div C <= (now + 1) \div C /\ (now + 1) \div C <= e \div C
  BY <1>0, <1>3, DivLess
<1>5. now \div C \in Nat /\ (now + 1) \div C \in Nat /\ e \div C \in Nat
  BY <1>0, <1>3, DivMod
<1>7. e \div C = (now + 1) \div C
  BY <1>4, <1>5, <1>6
<1> QED BY <1>1, <1>2, <1>7 DEF SameBlock, C

\* A multiple of the size of a block is one of the sizes below.
LEMMA MultipleFrom ==
    ASSUME NEW x \in Nat, NEW i \in 0..3, NEW j \in 0..i, x % Cover[i] = 0
    PROVE  x % Cover[j] = 0 /\ (j # i => (x \div Cover[j]) % TIME_LEVEL = 0)
<1>1. ASSUME NEW k \in 0..3, x % Cover[k + 1] = 0
      PROVE  x % Cover[k] = 0 /\ (x \div Cover[k]) % TIME_LEVEL = 0
  <2>1. Cover[k] \in Nat \ {0} /\ TIME_LEVEL \in Nat \ {0} /\ Cover[k + 1] = Cover[k] * TIME_LEVEL
    BY CoverFacts, WheelAssumption
  <2>2. x % (Cover[k] * TIME_LEVEL) = 0
    BY <2>1, <1>1
  <2> QED BY <2>1, <2>2, ModNest
<1> DEFINE M(k) == x % Cover[k] = 0
           Z(k) == (x \div Cover[k]) % TIME_LEVEL = 0
<1>2. M(i) /\ \A k \in 0..3 : M(k + 1) => M(k) /\ Z(k)
  BY <1>1
<1> SUFFICES M(j) /\ (j # i => Z(j))
  OBVIOUS
<1> HIDE DEF M, Z
<1>3. (M(1) => M(0) /\ Z(0)) /\ (M(2) => M(1) /\ Z(1)) /\ (M(3) => M(2) /\ Z(2))
  BY <1>2
<1>4. \/ i = 0 /\ j = 0
      \/ i = 1 /\ j \in {0, 1}
      \/ i = 2 /\ j \in {0, 1, 2}
      \/ i = 3 /\ j \in {0, 1, 2, 3}
  OBVIOUS
<1> QED BY <1>2, <1>3, <1>4

\* The first of a group of c blocks is not in the group of the one before.
LEMMA NotFirst ==
    ASSUME NEW a \in Nat, NEW c \in Nat \ {0}, (a + 1) % c = 0
    PROVE  (a + 1) \div c # a \div c
<1> DEFINE p == (a + 1) \div c
           q == a \div c
<1>1. p \in Nat /\ a + 1 = (c * p) + 0
  BY DivMod
<1>2. q \in Nat /\ a % c \in 0..(c - 1) /\ a = (c * q) + (a % c)
  BY DivMod
<1> HIDE DEF p, q
<1>3. ASSUME p = q PROVE FALSE
  <2>1. c * p \in Nat /\ a + 1 = c * p /\ a = (c * p) + (a % c)
    BY <1>1, <1>2, <1>3
  <2> QED BY <2>1, <1>2
<1> QED BY <1>3 DEF p, q

\* The list that timer_shift moves at tick ct is t[i][j].
Moves(ct, i, j) ==
    IF ct = 0 THEN i = 3 /\ j = 0
    ELSE /\ i \in Shifting(ct)
         /\ \A k \in Shifting(ct) : i <= k
         /\ j = (ct \div Cover[i]) % TIME_LEVEL

\* A timer that is not near belongs where it is also in the next tick, unless its list is
\* the one that is moved.
LEMMA StaysAtLevel ==
    ASSUME NEW now \in 0..(Word - 1), NEW w \in Nat \ {0}, 2 * w < Word,
           NEW e, e = (now + w) % Word, NEW ct, ct = (now + 1) % Word,
           ~ SameBlock(e, now, TIME_NEAR), NEW i, i = Level(e, now)
    PROVE  \/ ~ SameBlock(e, ct, TIME_NEAR) /\ i = Level(e, ct)
           \/ Moves(ct, i, (e \div Cover[i]) % TIME_LEVEL)
<1>0. /\ Word \in Nat \ {0, 1} /\ now \in Nat /\ Cover[0] = TIME_NEAR
      /\ TIME_LEVEL \in Nat \ {0} /\ w \in 0..(Word - 1) /\ 1 \in 0..(Word - 1)
  BY CoverFacts, WheelAssumption
<1>1. e \in 0..(Word - 1) /\ e \in Nat /\ ct \in 0..(Word - 1) /\ ct \in Nat
  BY <1>0, WordSumType
<1>2. i \in 0..3 /\ SameBlock(e, now, Cover[i + 1]) /\ ~ SameBlock(e, now, Cover[i])
  BY <1>1, LevelIs
<1>3. /\ Cover[i] \in Nat \ {0} /\ Cover[i + 1] \in Nat \ {0}
      /\ Cover[i + 1] = Cover[i] * TIME_LEVEL
  BY <1>2, CoverFacts
<1>4. i # 3 => ct = now + 1 /\ SameBlock(e, ct, Cover[i + 1])
  <2> SUFFICES ASSUME i # 3 PROVE ct = now + 1 /\ SameBlock(e, ct, Cover[i + 1])
    OBVIOUS
  <2>1. i + 1 \in 0..3
    BY <1>2
  <2>2. SameBlock((now + w) % Word, now, Cover[i + 1])
    BY <1>2
  <2> QED BY <2>1, <2>2, StaysInBlock
<1>5. SameBlock(e, ct, Cover[i + 1])
  BY <1>1, <1>4, SameWord
<1>6. CASE ~ SameBlock(e, ct, Cover[i])
  <2>1. ~ SameBlock(e, ct, TIME_NEAR)
    <3>1. 0 \in 0..i /\ i \in 0..4
      BY <1>2
    <3> QED BY <3>1, <1>0, <1>1, <1>6, SameBlockFrom
  <2> QED BY <2>1, <1>1, <1>2, <1>5, <1>6, LevelIs
<1>7. CASE SameBlock(e, ct, Cover[i]) /\ ct = 0
  <2>1. i = 3
    BY <1>0, <1>4, <1>7
  <2>2. 0 \div Cover[i] = 0 /\ 0 % TIME_LEVEL = 0
    BY <1>0, <1>3
  <2> QED BY <2>1, <2>2, <1>7 DEF SameBlock, Moves
<1>8. CASE SameBlock(e, ct, Cover[i]) /\ ct # 0
  <2>1. ct = now + 1
    <3>1. \/ now + 1 < Word /\ (now + 1) % Word = now + 1
          \/ now + 1 >= Word /\ (now + 1) % Word = (now + 1) - Word
      BY <1>0, WordSum
    <3> QED BY <3>1, <1>0, <1>8
  <2>2. (now + 1) \div Cover[i] # now \div Cover[i]
    BY <1>2, <1>8, <2>1 DEF SameBlock
  <2>3. (now + 1) % Cover[i] = 0 /\ (now + 1) \div Cover[i] = (now \div Cover[i]) + 1
    BY <1>0, <1>3, <2>2, NextBlock
  <2>4. (ct \div Cover[i]) % TIME_LEVEL # 0
    <3> DEFINE a == now \div Cover[i]
    <3>1. a \in Nat /\ ct \div Cover[i] = a + 1
      BY <1>0, <1>3, <2>1, <2>3, DivMod
    <3>2. now \div (Cover[i] * TIME_LEVEL) = a \div TIME_LEVEL
          /\ ct \div (Cover[i] * TIME_LEVEL) = (ct \div Cover[i]) \div TIME_LEVEL
      BY <1>0, <1>1, <1>3, NestDiv
    <3>3. a \div TIME_LEVEL = (a + 1) \div TIME_LEVEL
      BY <3>1, <3>2, <1>2, <1>3, <1>5 DEF SameBlock
    <3> HIDE DEF a
    <3>4. (a + 1) % TIME_LEVEL # 0
      BY <3>1, <3>3, <1>0, NotFirst
    <3> QED BY <3>1, <3>4
  <2>5. i \in Shifting(ct)
    BY <1>2, <2>1, <2>3, <2>4 DEF Shifting
  <2>6. ASSUME NEW k \in Shifting(ct), ~ (i <= k) PROVE FALSE
    <3>1. k \in 0..3 /\ (ct \div Cover[k]) % TIME_LEVEL # 0
      BY DEF Shifting
    <3>2. k \in 0..i /\ k # i
      BY <3>1, <2>6, <1>2
    <3> QED BY <3>1, <3>2, <2>1, <2>3, <1>1, <1>2, MultipleFrom
  <2>7. (e \div Cover[i]) % TIME_LEVEL = (ct \div Cover[i]) % TIME_LEVEL
    BY <1>8 DEF SameBlock
  <2> QED BY <2>5, <2>6, <2>7, <1>8 DEF Moves
<1> QED BY <1>6, <1>7, <1>8

----------------------------------------------------------------------------
(* The wheel as one family of lists *)

Wheels == [near : [0..(TIME_NEAR - 1) -> Seq(Nodes)],
           t : [0..3 -> [0..(TIME_LEVEL - 1) -> Seq(Nodes)]]]

\* The places of lists: <<4, k>> for near[k], <<i, j>> for t[i][j].
Places == {<<4, k>> : k \in 0..(TIME_NEAR - 1)} \cup ((0..3) \X (0..(TIME_LEVEL - 1)))

ListAt(wheel, p) == IF p[1] = 4 THEN wheel.near[p[2]] ELSE wheel.t[p[1]][p[2]]

Belongs(node, now, p) ==
    IF p[1] = 4 THEN BelongsNear(node, now, p[2]) ELSE BelongsAt(node, now, p[1], p[2])

\* Sound and InWheel in these terms, and the order of two timers.
Right(list, now, left, p) ==
    NoTwice(list) /\ \A n \in DOMAIN list : Fits(list[n], now, left) /\ Belongs(list[n], now, p)

AllRight(wheel, now, left) == \A p \in Places : Right(ListAt(wheel, p), now, left, p)

Holds(wheel, x) == \E p \in Places : x \in Ids(ListAt(wheel, p))

Chained(wheel, x, y) == \E p \in Places : Ordered(ListAt(wheel, p), x, y)

LEMMA PlaceKinds ==
    /\ \A k \in 0..(TIME_NEAR - 1) : <<4, k>> \in Places
    /\ \A i \in 0..3 : \A j \in 0..(TIME_LEVEL - 1) : <<i, j>> \in Places
    /\ \A p \in Places : \/ \E k \in 0..(TIME_NEAR - 1) : p = <<4, k>>
                         \/ \E i \in 0..3 : \E j \in 0..(TIME_LEVEL - 1) : p = <<i, j>>
BY DEF Places

LEMMA ListAtIs ==
    ASSUME NEW wheel
    PROVE  /\ \A k : ListAt(wheel, <<4, k>>) = wheel.near[k]
           /\ \A i \in 0..3 : \A j : ListAt(wheel, <<i, j>>) = wheel.t[i][j]
BY DEF ListAt

LEMMA BelongsIs ==
    ASSUME NEW node, NEW now
    PROVE  /\ \A k : Belongs(node, now, <<4, k>>) <=> BelongsNear(node, now, k)
           /\ \A i \in 0..3 : \A j : Belongs(node, now, <<i, j>>) <=> BelongsAt(node, now, i, j)
BY DEF Belongs

LEMMA SoundIs ==
    ASSUME NEW wheel, NEW now, NEW left
    PROVE  Sound(wheel, now, left) <=> AllRight(wheel, now, left)
<1>1. ASSUME Sound(wheel, now, left), NEW p \in Places PROVE Right(ListAt(wheel, p), now, left, p)
  <2>1. CASE \E k \in 0..(TIME_NEAR - 1) : p = <<4, k>>
    BY <1>1, <2>1, ListAtIs, BelongsIs DEF Sound, Right
  <2>2. CASE \E i \in 0..3 : \E j \in 0..(TIME_LEVEL - 1) : p = <<i, j>>
    BY <1>1, <2>2, ListAtIs, BelongsIs DEF Sound, Right
  <2> QED BY <2>1, <2>2, PlaceKinds
<1>2. ASSUME AllRight(wheel, now, left) PROVE Sound(wheel, now, left)
  <2>1. \A p \in Places : Right(ListAt(wheel, p), now, left, p)
    BY <1>2 DEF AllRight
  <2>2. ASSUME NEW k \in 0..(TIME_NEAR - 1)
        PROVE  /\ NoTwice(wheel.near[k])
               /\ \A n \in DOMAIN wheel.near[k] :
                    Fits(wheel.near[k][n], now, left) /\ BelongsNear(wheel.near[k][n], now, k)
    <3>1. Right(wheel.near[k], now, left, <<4, k>>)
      BY <2>1, PlaceKinds, ListAtIs
    <3> QED BY <3>1, BelongsIs DEF Right
  <2>3. ASSUME NEW i \in 0..3, NEW j \in 0..(TIME_LEVEL - 1)
        PROVE  /\ NoTwice(wheel.t[i][j])
               /\ \A n \in DOMAIN wheel.t[i][j] :
                    Fits(wheel.t[i][j][n], now, left) /\ BelongsAt(wheel.t[i][j][n], now, i, j)
    <3>1. Right(wheel.t[i][j], now, left, <<i, j>>)
      BY <2>1, PlaceKinds, ListAtIs
    <3> QED BY <3>1, BelongsIs DEF Right
  <2> QED BY <2>2, <2>3 DEF Sound
<1> QED BY <1>1, <1>2 DEF AllRight

LEMMA InWheelIs ==
    ASSUME NEW wheel, NEW x
    PROVE  InWheel(wheel, x) <=> Holds(wheel, x)
<1>1. ASSUME InWheel(wheel, x) PROVE Holds(wheel, x)
  <2>1. ASSUME NEW k \in 0..(TIME_NEAR - 1), x \in Ids(wheel.near[k]) PROVE Holds(wheel, x)
    <3>1. <<4, k>> \in Places /\ ListAt(wheel, <<4, k>>) = wheel.near[k]
      BY PlaceKinds, ListAtIs
    <3> QED BY <2>1, <3>1, Zenon DEF Holds
  <2>2. ASSUME NEW i \in 0..3, NEW j \in 0..(TIME_LEVEL - 1), x \in Ids(wheel.t[i][j])
        PROVE  Holds(wheel, x)
    <3>1. <<i, j>> \in Places /\ ListAt(wheel, <<i, j>>) = wheel.t[i][j]
      BY PlaceKinds, ListAtIs
    <3> QED BY <2>2, <3>1, Zenon DEF Holds
  <2> QED BY <1>1, <2>1, <2>2 DEF InWheel
<1>2. ASSUME NEW p \in Places, x \in Ids(ListAt(wheel, p)) PROVE InWheel(wheel, x)
  <2>1. CASE \E k \in 0..(TIME_NEAR - 1) : p = <<4, k>>
    BY <1>2, <2>1, ListAtIs DEF InWheel
  <2>2. CASE \E i \in 0..3 : \E j \in 0..(TIME_LEVEL - 1) : p = <<i, j>>
    BY <1>2, <2>2, ListAtIs DEF InWheel
  <2> QED BY <2>1, <2>2, PlaceKinds
<1> QED BY <1>1, <1>2 DEF Holds

LEMMA ListType ==
    ASSUME NEW wheel \in Wheels, NEW p \in Places
    PROVE  ListAt(wheel, p) \in Seq(Nodes)
<1>0. /\ wheel.near \in [0..(TIME_NEAR - 1) -> Seq(Nodes)]
      /\ wheel.t \in [0..3 -> [0..(TIME_LEVEL - 1) -> Seq(Nodes)]]
  BY DEF Wheels
<1>1. ASSUME NEW k \in 0..(TIME_NEAR - 1), p = <<4, k>> PROVE ListAt(wheel, p) \in Seq(Nodes)
  <2>1. ListAt(wheel, p) = wheel.near[k]
    BY <1>1, ListAtIs
  <2> QED BY <2>1, <1>0
<1>2. ASSUME NEW i \in 0..3, NEW j \in 0..(TIME_LEVEL - 1), p = <<i, j>>
      PROVE  ListAt(wheel, p) \in Seq(Nodes)
  <2>1. ListAt(wheel, p) = wheel.t[i][j]
    BY <1>2, ListAtIs
  <2>2. wheel.t[i] \in [0..(TIME_LEVEL - 1) -> Seq(Nodes)]
    BY <1>0
  <2> QED BY <2>1, <2>2
<1> QED BY <1>1, <1>2, PlaceKinds

\* A node belongs at one place.
LEMMA OnePlace ==
    ASSUME NEW node \in Nodes, NEW now \in 0..(Word - 1)
    PROVE  /\ \E p \in Places : Belongs(node, now, p)
           /\ \A p, q \in Places : Belongs(node, now, p) /\ Belongs(node, now, q) => p = q
<1>1. node.expire \in 0..(Word - 1) /\ node.expire \in Nat
      /\ TIME_NEAR \in Nat \ {0} /\ TIME_LEVEL \in Nat \ {0}
  BY CoverFacts, WheelAssumption DEF Nodes
<1>2. CASE SameBlock(node.expire, now, TIME_NEAR)
  <2>1. node.expire % TIME_NEAR \in 0..(TIME_NEAR - 1)
    BY <1>1, DivMod
  <2>2. \E p \in Places : Belongs(node, now, p)
    <3>1. BelongsNear(node, now, node.expire % TIME_NEAR)
      BY <1>2 DEF BelongsNear
    <3>2. /\ <<4, node.expire % TIME_NEAR>> \in Places
          /\ Belongs(node, now, <<4, node.expire % TIME_NEAR>>)
      BY <3>1, <2>1, PlaceKinds, BelongsIs, Zenon
    <3> QED BY <3>2, Zenon
  <2>3. ASSUME NEW p \in Places, Belongs(node, now, p) PROVE p = <<4, node.expire % TIME_NEAR>>
    BY <2>3, <1>2, PlaceKinds, BelongsIs DEF BelongsNear, BelongsAt
  <2> QED BY <2>2, <2>3
<1>3. CASE ~ SameBlock(node.expire, now, TIME_NEAR)
  <2> DEFINE i == Level(node.expire, now)
             j == (node.expire \div Cover[i]) % TIME_LEVEL
  <2>1. i \in 0..3
    BY <1>1, <1>3, LevelIs
  <2>2. node.expire \div Cover[i] \in Nat
    <3>1. Cover[i] \in Nat \ {0}
      BY <2>1, CoverFacts
    <3> QED BY <3>1, <1>1, DivMod
  <2>3. j \in 0..(TIME_LEVEL - 1)
    BY <2>2, <1>1, DivMod
  <2>4. BelongsAt(node, now, i, j)
    BY <1>3 DEF BelongsAt
  <2>5. \E p \in Places : Belongs(node, now, p)
    <3>1. <<i, j>> \in Places /\ Belongs(node, now, <<i, j>>)
      BY <2>1, <2>3, <2>4, PlaceKinds, BelongsIs, Zenon
    <3> QED BY <3>1, Zenon
  <2>6. ASSUME NEW p \in Places, Belongs(node, now, p) PROVE p = <<i, j>>
    BY <2>6, <1>3, PlaceKinds, BelongsIs DEF BelongsNear, BelongsAt
  <2> QED BY <2>5, <2>6
<1> QED BY <1>2, <1>3

----------------------------------------------------------------------------
(* add_node and move_list *)

\* add_node appends the node to the list at the place where it belongs.
LEMMA AddIs ==
    ASSUME NEW wheel \in Wheels, NEW node \in Nodes, NEW now \in 0..(Word - 1)
    PROVE  /\ add_node(wheel, node, now) \in Wheels
           /\ \A p \in Places : ListAt(add_node(wheel, node, now), p) =
                 IF Belongs(node, now, p) THEN Append(ListAt(wheel, p), node) ELSE ListAt(wheel, p)
<1> DEFINE w == add_node(wheel, node, now)
<1>0. /\ wheel.near \in [0..(TIME_NEAR - 1) -> Seq(Nodes)]
      /\ wheel.t \in [0..3 -> [0..(TIME_LEVEL - 1) -> Seq(Nodes)]]
      /\ wheel = [near |-> wheel.near, t |-> wheel.t]
  BY DEF Wheels
<1>1. node.expire \in 0..(Word - 1) /\ node.expire \in Nat
      /\ TIME_NEAR \in Nat \ {0} /\ TIME_LEVEL \in Nat \ {0}
  BY CoverFacts, WheelAssumption DEF Nodes
<1>2. CASE SameBlock(node.expire, now, TIME_NEAR)
  <2> DEFINE k == node.expire % TIME_NEAR
  <2>1. k \in 0..(TIME_NEAR - 1)
    BY <1>1, DivMod
  <2>2. w = [near |-> [wheel.near EXCEPT ![k] = Append(@, node)], t |-> wheel.t]
    BY <1>0, <1>2, <2>1 DEF add_node
  <2>3. \A q \in 0..(TIME_NEAR - 1) : BelongsNear(node, now, q) <=> q = k
    BY <1>2 DEF BelongsNear
  <2>4. \A i \in 0..3 : \A j \in 0..(TIME_LEVEL - 1) : ~ BelongsAt(node, now, i, j)
    BY <1>2 DEF BelongsAt
  <2> HIDE DEF w, k
  <2>5. w \in Wheels
    <3>1. wheel.near[k] \in Seq(Nodes)
      BY <1>0, <2>1
    <3>2. Append(wheel.near[k], node) \in Seq(Nodes)
      BY <3>1
    <3>3. [wheel.near EXCEPT ![k] = Append(@, node)] \in [0..(TIME_NEAR - 1) -> Seq(Nodes)]
      BY <1>0, <3>2
    <3> QED BY <1>0, <2>2, <3>3 DEF Wheels
  <2>6. \A q \in 0..(TIME_NEAR - 1) :
            w.near[q] = IF q = k THEN Append(wheel.near[q], node) ELSE wheel.near[q]
    BY <1>0, <2>1, <2>2
  <2>7. w.t = wheel.t
    BY <2>2
  <2>8. ASSUME NEW q \in 0..(TIME_NEAR - 1)
        PROVE  ListAt(w, <<4, q>>) = IF Belongs(node, now, <<4, q>>)
                    THEN Append(ListAt(wheel, <<4, q>>), node) ELSE ListAt(wheel, <<4, q>>)
    <3>1. ListAt(w, <<4, q>>) = w.near[q] /\ ListAt(wheel, <<4, q>>) = wheel.near[q]
      BY ListAtIs
    <3>2. Belongs(node, now, <<4, q>>) <=> q = k
      BY <2>3, BelongsIs, Zenon
    <3> QED BY <2>6, <3>1, <3>2
  <2>9. ASSUME NEW i \in 0..3, NEW j \in 0..(TIME_LEVEL - 1)
        PROVE  ListAt(w, <<i, j>>) = IF Belongs(node, now, <<i, j>>)
                    THEN Append(ListAt(wheel, <<i, j>>), node) ELSE ListAt(wheel, <<i, j>>)
    BY <2>4, <2>7, ListAtIs, BelongsIs
  <2> QED BY <2>5, <2>8, <2>9, PlaceKinds, Zenon DEF w
<1>3. CASE ~ SameBlock(node.expire, now, TIME_NEAR)
  <2> DEFINE i == Level(node.expire, now)
             j == (node.expire \div Cover[i]) % TIME_LEVEL
  <2>1. i \in 0..3
    BY <1>1, <1>3, LevelIs
  <2>2. j \in 0..(TIME_LEVEL - 1)
    <3>1. Cover[i] \in Nat \ {0}
      BY <2>1, CoverFacts
    <3>2. node.expire \div Cover[i] \in Nat
      BY <3>1, <1>1, DivMod
    <3> QED BY <3>2, <1>1, DivMod
  <2>3. \A a \in 0..3 : \A b \in 0..(TIME_LEVEL - 1) : BelongsAt(node, now, a, b) <=> a = i /\ b = j
    BY <1>3 DEF BelongsAt
  <2>4. \A q \in 0..(TIME_NEAR - 1) : ~ BelongsNear(node, now, q)
    BY <1>3 DEF BelongsNear
  <2>5. w = [wheel EXCEPT !.t[i][j] = Append(@, node)]
    BY <1>3 DEF add_node
  <2> HIDE DEF w, i, j
  <2>6. w = [near |-> wheel.near, t |-> [wheel.t EXCEPT ![i] = [wheel.t[i] EXCEPT ![j] = Append(@, node)]]]
    BY <1>0, <2>1, <2>5
  <2>7. w \in Wheels
    <3>1. wheel.t[i] \in [0..(TIME_LEVEL - 1) -> Seq(Nodes)]
      BY <1>0, <2>1
    <3>2. wheel.t[i][j] \in Seq(Nodes)
      BY <3>1, <2>2
    <3>3. Append(wheel.t[i][j], node) \in Seq(Nodes)
      BY <3>2
    <3>4. [wheel.t[i] EXCEPT ![j] = Append(@, node)] \in [0..(TIME_LEVEL - 1) -> Seq(Nodes)]
      BY <3>1, <3>3
    <3>5. [wheel.t EXCEPT ![i] = [wheel.t[i] EXCEPT ![j] = Append(@, node)]]
             \in [0..3 -> [0..(TIME_LEVEL - 1) -> Seq(Nodes)]]
      BY <1>0, <3>4
    <3> QED BY <1>0, <2>6, <3>5 DEF Wheels
  <2>8. w.near = wheel.near
    BY <2>6
  <2>9. \A a \in 0..3 : \A b \in 0..(TIME_LEVEL - 1) :
            w.t[a][b] = IF a = i /\ b = j THEN Append(wheel.t[a][b], node) ELSE wheel.t[a][b]
    BY <1>0, <2>1, <2>2, <2>6
  <2>10. ASSUME NEW q \in 0..(TIME_NEAR - 1)
         PROVE  ListAt(w, <<4, q>>) = IF Belongs(node, now, <<4, q>>)
                     THEN Append(ListAt(wheel, <<4, q>>), node) ELSE ListAt(wheel, <<4, q>>)
    BY <2>4, <2>8, ListAtIs, BelongsIs
  <2>11. ASSUME NEW a \in 0..3, NEW b \in 0..(TIME_LEVEL - 1)
         PROVE  ListAt(w, <<a, b>>) = IF Belongs(node, now, <<a, b>>)
                     THEN Append(ListAt(wheel, <<a, b>>), node) ELSE ListAt(wheel, <<a, b>>)
    <3>1. ListAt(w, <<a, b>>) = w.t[a][b] /\ ListAt(wheel, <<a, b>>) = wheel.t[a][b]
      BY ListAtIs
    <3>2. Belongs(node, now, <<a, b>>) <=> a = i /\ b = j
      BY <2>3, BelongsIs, Zenon
    <3> QED BY <2>9, <3>1, <3>2
  <2> QED BY <2>7, <2>10, <2>11, PlaceKinds, Zenon DEF w
<1> QED BY <1>2, <1>3

\* What an Append does to the facts about one list.
LEMMA AppendRight ==
    ASSUME NEW list \in Seq(Nodes), NEW node \in Nodes, NEW now, NEW left, NEW p,
           Right(list, now, left, p), Fits(node, now, left), Belongs(node, now, p),
           node.id \notin Ids(list)
    PROVE  Right(Append(list, node), now, left, p)
<1> DEFINE l == Append(list, node)
<1>1. \A n \in DOMAIN l : (n \in DOMAIN list /\ l[n] = list[n]) \/ (n = Len(list) + 1 /\ l[n] = node)
  OBVIOUS
<1> HIDE DEF l
<1>2. \A n \in DOMAIN l : Fits(l[n], now, left) /\ Belongs(l[n], now, p)
  BY <1>1 DEF Right
<1>3. \A n \in DOMAIN list : list[n].id # node.id
  BY DEF Ids
<1>4. NoTwice(l)
  BY <1>1, <1>3 DEF Right, NoTwice
<1> QED BY <1>2, <1>4 DEF Right, l

LEMMA AppendIds ==
    ASSUME NEW list \in Seq(Nodes), NEW node \in Nodes
    PROVE  Ids(Append(list, node)) = Ids(list) \cup {node.id}
<1> DEFINE l == Append(list, node)
<1>1. /\ DOMAIN l = DOMAIN list \cup {Len(list) + 1}
      /\ \A n \in DOMAIN list : l[n] = list[n]
      /\ l[Len(list) + 1] = node
  OBVIOUS
<1> HIDE DEF l
<1>2. Ids(l) = Ids(list) \cup {node.id}
  BY <1>1 DEF Ids
<1> QED BY <1>2 DEF l

LEMMA AppendOrder ==
    ASSUME NEW list \in Seq(Nodes), NEW node \in Nodes
    PROVE  /\ \A x, y : Ordered(list, x, y) => Ordered(Append(list, node), x, y)
           /\ \A x \in Ids(list) : Ordered(Append(list, node), x, node.id)
<1> DEFINE l == Append(list, node)
<1>1. /\ DOMAIN l = DOMAIN list \cup {Len(list) + 1}
      /\ \A n \in DOMAIN list : l[n] = list[n] /\ n < Len(list) + 1
      /\ l[Len(list) + 1] = node
  OBVIOUS
<1> HIDE DEF l
<1>2. \A x, y : Ordered(list, x, y) => Ordered(l, x, y)
  BY <1>1 DEF Ordered
<1>3. \A x \in Ids(list) : Ordered(l, x, node.id)
  BY <1>1 DEF Ordered, Ids
<1> QED BY <1>2, <1>3 DEF l

\* A node that is new to a sound wheel is added behind the nodes of its tick.
LEMMA AddRight ==
    ASSUME NEW wheel \in Wheels, NEW node \in Nodes, NEW now \in 0..(Word - 1), NEW left,
           AllRight(wheel, now, left), Fits(node, now, left), ~ Holds(wheel, node.id),
           NEW w, w = add_node(wheel, node, now)
    PROVE  /\ w \in Wheels /\ AllRight(w, now, left)
           /\ \A x : Holds(w, x) <=> Holds(wheel, x) \/ x = node.id
           /\ \A x, y : Chained(wheel, x, y) => Chained(w, x, y)
           /\ \A x : Holds(wheel, x) /\ (now + left[x]) % Word = node.expire => Chained(w, x, node.id)
<1>1. w \in Wheels
  BY AddIs
<1>2. \A p \in Places : ListAt(w, p) =
          IF Belongs(node, now, p) THEN Append(ListAt(wheel, p), node) ELSE ListAt(wheel, p)
  BY AddIs
<1>3. \A p \in Places : ListAt(wheel, p) \in Seq(Nodes) /\ node.id \notin Ids(ListAt(wheel, p))
  BY ListType DEF Holds
<1>4. \A p \in Places : Right(ListAt(wheel, p), now, left, p)
  BY DEF AllRight
<1>5. PICK q \in Places : Belongs(node, now, q)
  BY OnePlace
<1>6. AllRight(w, now, left)
  <2> SUFFICES ASSUME NEW p \in Places PROVE Right(ListAt(w, p), now, left, p)
    BY DEF AllRight
  <2>1. CASE Belongs(node, now, p)
    BY <1>2, <1>3, <1>4, <2>1, AppendRight
  <2>2. CASE ~ Belongs(node, now, p)
    BY <1>2, <1>4, <2>2
  <2> QED BY <2>1, <2>2
<1>7. \A p \in Places : Belongs(node, now, p) => Ids(ListAt(w, p)) = Ids(ListAt(wheel, p)) \cup {node.id}
  BY <1>2, <1>3, AppendIds
<1>8. \A p \in Places : ~ Belongs(node, now, p) => ListAt(w, p) = ListAt(wheel, p)
  BY <1>2
<1>9. ASSUME NEW x PROVE Holds(w, x) <=> Holds(wheel, x) \/ x = node.id
  BY <1>5, <1>7, <1>8 DEF Holds
<1>10. ASSUME NEW x, NEW y, Chained(wheel, x, y) PROVE Chained(w, x, y)
  <2>1. PICK p \in Places : Ordered(ListAt(wheel, p), x, y)
    BY <1>10 DEF Chained
  <2>2. CASE Belongs(node, now, p)
    <3>1. Ordered(Append(ListAt(wheel, p), node), x, y)
      BY <1>3, <2>1, AppendOrder
    <3>2. Ordered(ListAt(w, p), x, y)
      BY <1>2, <2>2, <3>1
    <3> QED BY <3>2 DEF Chained
  <2>3. CASE ~ Belongs(node, now, p)
    BY <1>8, <2>1, <2>3 DEF Chained
  <2> QED BY <2>2, <2>3
<1>11. ASSUME NEW x, Holds(wheel, x), (now + left[x]) % Word = node.expire
       PROVE  Chained(w, x, node.id)
  <2>1. PICK p \in Places : x \in Ids(ListAt(wheel, p))
    BY <1>11 DEF Holds
  <2>2. PICK n \in DOMAIN ListAt(wheel, p) : ListAt(wheel, p)[n].id = x
    BY <2>1 DEF Ids
  <2>3. Fits(ListAt(wheel, p)[n], now, left) /\ Belongs(ListAt(wheel, p)[n], now, p)
    BY <1>4, <2>2 DEF Right
  <2>4. ListAt(wheel, p)[n].expire = node.expire
    BY <2>2, <2>3, <1>11 DEF Fits
  <2>5. Belongs(node, now, p)
    BY <2>3, <2>4 DEF Belongs, BelongsNear, BelongsAt
  <2>6. Ordered(Append(ListAt(wheel, p), node), x, node.id)
    BY <1>3, <2>1, AppendOrder
  <2>7. Ordered(ListAt(w, p), x, node.id)
    BY <1>2, <2>5, <2>6
  <2> QED BY <2>7 DEF Chained
<1> QED BY <1>1, <1>6, <1>9, <1>10, <1>11

\* Relinked is what its definition says.
LEMMA RelinkedIs ==
    ASSUME NEW wheel, NEW list, Len(list) \in Nat, NEW now
    PROVE  Relinked(wheel, list, now) =
              [n \in 0..Len(list) |-> IF n = 0 THEN wheel
                                      ELSE add_node(Relinked(wheel, list, now)[n - 1], list[n], now)]
<1> DEFINE Is(g, m) == g = [n \in 0..m |-> IF n = 0 THEN wheel ELSE add_node(g[n - 1], list[n], now)]
           S == {m \in Nat : \E g : Is(g, m)}
<1>1. 0 \in S
  <2>1. Is([n \in 0..0 |-> wheel], 0)
    OBVIOUS
  <2> QED BY <2>1
<1>2. ASSUME NEW m \in 0..Len(list), m # 0, m - 1 \in S PROVE m \in S
  <2>1. PICK g : Is(g, m - 1)
    BY <1>2
  <2>2. m \in Nat /\ m - 1 \in Nat
    BY <1>2
  <2> DEFINE h == [n \in 0..m |-> IF n = m THEN add_node(g[m - 1], list[m], now) ELSE g[n]]
  <2>3. \A n \in 0..m : h[n] = IF n = 0 THEN wheel ELSE add_node(h[n - 1], list[n], now)
    BY <2>1, <2>2, <1>2
  <2>4. h = [n \in 0..m |-> h[n]]
    OBVIOUS
  <2> HIDE DEF h
  <2>5. Is(h, m)
    BY <2>3, <2>4
  <2> QED BY <2>2, <2>5
<1>3. Len(list) \in S
  <2>1. Len(list) \in 0..Len(list)
    OBVIOUS
  <2> HIDE DEF S
  <2> QED BY <1>1, <1>2, <2>1, UpTo
<1>4. Relinked(wheel, list, now) = CHOOSE g : Is(g, Len(list))
  BY DEF Relinked
<1>5. \E g : Is(g, Len(list))
  BY <1>3
<1> HIDE DEF Is, S
<1>6. Is(Relinked(wheel, list, now), Len(list))
  BY <1>4, <1>5
<1> QED BY <1>6 DEF Is

\* All nodes of a list are added, and keep their order where they expire together.
LEMMA RelinkRight ==
    ASSUME NEW wheel \in Wheels, NEW list \in Seq(Nodes), NEW now \in 0..(Word - 1), NEW left,
           AllRight(wheel, now, left), NoTwice(list),
           \A n \in DOMAIN list : Fits(list[n], now, left) /\ ~ Holds(wheel, list[n].id),
           NEW w, w = Relinked(wheel, list, now)[Len(list)]
    PROVE  /\ w \in Wheels /\ AllRight(w, now, left)
           /\ \A x : Holds(w, x) <=> Holds(wheel, x) \/ x \in Ids(list)
           /\ \A x, y : Chained(wheel, x, y) => Chained(w, x, y)
           /\ \A x, y : Ordered(list, x, y) /\ left[x] = left[y] => Chained(w, x, y)
<1> DEFINE R == Relinked(wheel, list, now)
           Good(v, m) ==
              /\ v \in Wheels /\ AllRight(v, now, left)
              /\ \A x : Holds(v, x) <=> Holds(wheel, x) \/ \E n \in 1..m : list[n].id = x
              /\ \A x, y : Chained(wheel, x, y) => Chained(v, x, y)
              /\ \A a, b \in 1..m : a < b /\ left[list[a].id] = left[list[b].id]
                                       => Chained(v, list[a].id, list[b].id)
           S == {m \in 0..Len(list) : Good(R[m], m)}
<1>0. Len(list) \in Nat /\ DOMAIN list = 1..Len(list) /\ \A n \in 1..Len(list) : list[n] \in Nodes
  OBVIOUS
<1>1. R = [n \in 0..Len(list) |-> IF n = 0 THEN wheel ELSE add_node(R[n - 1], list[n], now)]
  BY <1>0, RelinkedIs
<1>2. w = R[Len(list)]
  OBVIOUS
<1> HIDE DEF R
<1>3. 0 \in S
  <2>1. R[0] = wheel /\ 0 \in 0..Len(list)
    BY <1>0, <1>1
  <2>2. Good(wheel, 0)
    OBVIOUS
  <2> QED BY <2>1, <2>2
<1>4. ASSUME NEW m \in 0..Len(list), m # 0, m - 1 \in S PROVE m \in S
  <2>1. m \in 1..Len(list) /\ m \in Nat /\ m - 1 \in Nat
    BY <1>0, <1>4
  <2>2. Good(R[m - 1], m - 1) /\ R[m] = add_node(R[m - 1], list[m], now) /\ list[m] \in Nodes
    BY <1>0, <1>1, <1>4, <2>1
  <2> DEFINE u == R[m - 1]
             v == R[m]
             node == list[m]
  <2> HIDE DEF u, v, node
  <2>3. Good(u, m - 1) /\ v = add_node(u, node, now) /\ node \in Nodes
    BY <2>2 DEF u, v, node
  <2>4. Fits(node, now, left) /\ ~ Holds(wheel, node.id)
    BY <1>0, <2>1 DEF node
  <2>5. ~ Holds(u, node.id)
    <3>1. \A n \in 1..(m - 1) : list[n].id # node.id
      BY <1>0, <2>1 DEF NoTwice, node
    <3> QED BY <2>3, <2>4, <3>1
  <2>6. /\ v \in Wheels /\ AllRight(v, now, left)
        /\ \A x : Holds(v, x) <=> Holds(u, x) \/ x = node.id
        /\ \A x, y : Chained(u, x, y) => Chained(v, x, y)
        /\ \A x : Holds(u, x) /\ (now + left[x]) % Word = node.expire => Chained(v, x, node.id)
    BY <2>3, <2>4, <2>5, AddRight
  <2>7. \A x : Holds(v, x) <=> Holds(wheel, x) \/ \E n \in 1..m : list[n].id = x
    <3>1. 1..m = (1..(m - 1)) \cup {m}
      BY <2>1
    <3> QED BY <2>3, <2>6, <3>1 DEF node
  <2>8. ASSUME NEW a \in 1..m, NEW b \in 1..m, a < b, left[list[a].id] = left[list[b].id]
        PROVE  Chained(v, list[a].id, list[b].id)
    <3>1. CASE b = m
      <4>1. a \in 1..(m - 1)
        BY <2>1, <2>8, <3>1
      <4>2. Holds(u, list[a].id)
        BY <2>3, <4>1
      <4>3. (now + left[list[a].id]) % Word = node.expire
        BY <2>4, <2>8, <3>1 DEF Fits, node
      <4> QED BY <2>6, <4>2, <4>3, <3>1 DEF node
    <3>2. CASE b # m
      <4>1. a \in 1..(m - 1) /\ b \in 1..(m - 1)
        BY <2>1, <2>8, <3>2
      <4> QED BY <2>3, <2>6, <2>8, <4>1
    <3> QED BY <3>1, <3>2
  <2>9. Good(v, m)
    BY <2>3, <2>6, <2>7, <2>8
  <2> QED BY <2>9 DEF v
<1>5. Len(list) \in S
  <2>1. Len(list) \in 0..Len(list)
    BY <1>0
  <2> HIDE DEF S
  <2> QED BY <1>0, <1>3, <1>4, <2>1, UpTo
<1>6. Good(w, Len(list))
  BY <1>2, <1>5
<1>7. \A x, y : Ordered(list, x, y) /\ left[x] = left[y] => Chained(w, x, y)
  BY <1>0, <1>6 DEF Ordered
<1>8. \A x : (\E n \in 1..Len(list) : list[n].id = x) <=> x \in Ids(list)
  BY <1>0 DEF Ids
<1> QED BY <1>6, <1>7, <1>8

Cleared(wheel, i, j) == [wheel EXCEPT !.t[i][j] = <<>>]

LEMMA ClearedIs ==
    ASSUME NEW wheel \in Wheels, NEW i \in 0..3, NEW j
    PROVE  Cleared(wheel, i, j) =
              [near |-> wheel.near, t |-> [wheel.t EXCEPT ![i] = [wheel.t[i] EXCEPT ![j] = <<>>]]]
<1>1. /\ wheel.t \in [0..3 -> [0..(TIME_LEVEL - 1) -> Seq(Nodes)]]
      /\ wheel = [near |-> wheel.near, t |-> wheel.t]
  BY DEF Wheels
<1> QED BY <1>1 DEF Cleared

\* The timers of w are those of the wheel, in their order.
SameTimers(w, wheel, next) ==
    /\ \A x : Holds(w, x) <=> Holds(wheel, x)
    /\ \A x, y : Chained(wheel, x, y) /\ next[x] = next[y] => Chained(w, x, y)

\* The wheel is sound but for the places of the nodes in one list.
Movable(wheel, now, left, level, idx) ==
    /\ \A p \in Places : p # <<level, idx>> => Right(ListAt(wheel, p), now, left, p)
    /\ NoTwice(wheel.t[level][idx])
    /\ \A n \in DOMAIN wheel.t[level][idx] :
          /\ Fits(wheel.t[level][idx][n], now, left)
          /\ \A p \in Places : wheel.t[level][idx][n].id \in Ids(ListAt(wheel, p)) => p = <<level, idx>>

\* move_list makes it sound.
LEMMA MoveRight ==
    ASSUME NEW wheel \in Wheels, NEW now \in 0..(Word - 1), NEW left,
           NEW level \in 0..3, NEW idx \in 0..(TIME_LEVEL - 1),
           Movable(wheel, now, left, level, idx), NEW w, w = move_list(wheel, level, idx, now)
    PROVE  w \in Wheels /\ AllRight(w, now, left) /\ SameTimers(w, wheel, left)
<1> DEFINE list == wheel.t[level][idx]
           rest == Cleared(wheel, level, idx)
           here == <<level, idx>>
<1>0. /\ wheel.near \in [0..(TIME_NEAR - 1) -> Seq(Nodes)]
      /\ wheel.t \in [0..3 -> [0..(TIME_LEVEL - 1) -> Seq(Nodes)]]
      /\ wheel = [near |-> wheel.near, t |-> wheel.t]
  BY DEF Wheels
<1>1. here \in Places /\ ListAt(wheel, here) = list
  BY PlaceKinds, ListAtIs
<1>2. list \in Seq(Nodes)
  BY <1>1, ListType
<1>3. rest = [near |-> wheel.near, t |-> [wheel.t EXCEPT ![level] = [wheel.t[level] EXCEPT ![idx] = <<>>]]]
  BY ClearedIs
<1>4. w = Relinked(rest, list, now)[Len(list)]
  BY DEF move_list, Cleared
<1> HIDE DEF rest
<1>5. rest \in Wheels
  <2>1. wheel.t[level] \in [0..(TIME_LEVEL - 1) -> Seq(Nodes)]
    BY <1>0
  <2>2. <<>> \in Seq(Nodes)
    OBVIOUS
  <2>3. [wheel.t[level] EXCEPT ![idx] = <<>>] \in [0..(TIME_LEVEL - 1) -> Seq(Nodes)]
    BY <2>1, <2>2
  <2>4. [wheel.t EXCEPT ![level] = [wheel.t[level] EXCEPT ![idx] = <<>>]]
           \in [0..3 -> [0..(TIME_LEVEL - 1) -> Seq(Nodes)]]
    BY <1>0, <2>3
  <2> QED BY <1>0, <1>3, <2>4 DEF Wheels
<1>6. ASSUME NEW p \in Places
      PROVE  ListAt(rest, p) = IF p = here THEN <<>> ELSE ListAt(wheel, p)
  <2>1. ASSUME NEW k \in 0..(TIME_NEAR - 1), p = <<4, k>>
        PROVE  ListAt(rest, p) = IF p = here THEN <<>> ELSE ListAt(wheel, p)
    <3>1. ListAt(rest, p) = rest.near[k] /\ ListAt(wheel, p) = wheel.near[k]
      BY <2>1, ListAtIs
    <3>2. rest.near = wheel.near
      BY <1>3
    <3> QED BY <2>1, <3>1, <3>2
  <2>2. ASSUME NEW i \in 0..3, NEW j \in 0..(TIME_LEVEL - 1), p = <<i, j>>
        PROVE  ListAt(rest, p) = IF p = here THEN <<>> ELSE ListAt(wheel, p)
    <3>1. ListAt(rest, p) = rest.t[i][j] /\ ListAt(wheel, p) = wheel.t[i][j]
      BY <2>2, ListAtIs
    <3>2. rest.t[i][j] = IF i = level /\ j = idx THEN <<>> ELSE wheel.t[i][j]
      BY <1>0, <1>3
    <3>3. p = here <=> i = level /\ j = idx
      BY <2>2
    <3> QED BY <3>1, <3>2, <3>3
  <2> QED BY <2>1, <2>2, PlaceKinds, Zenon
<1> HIDE DEF list, here
<1>7. AllRight(rest, now, left)
  <2> SUFFICES ASSUME NEW p \in Places PROVE Right(ListAt(rest, p), now, left, p)
    BY DEF AllRight
  <2>1. CASE p = here
    BY <1>6, <2>1 DEF Right, NoTwice
  <2>2. CASE p # here
    BY <1>6, <2>2 DEF here, Movable
  <2> QED BY <2>1, <2>2
<1>8. Ids(<<>>) = {}
  BY DEF Ids
<1>9. \A n \in DOMAIN list : Fits(list[n], now, left) /\ ~ Holds(rest, list[n].id)
  BY <1>6, <1>8 DEF list, here, Holds, Movable
<1>10. NoTwice(list)
  BY DEF list, Movable
<1>11. /\ w \in Wheels /\ AllRight(w, now, left)
       /\ \A x : Holds(w, x) <=> Holds(rest, x) \/ x \in Ids(list)
       /\ \A x, y : Chained(rest, x, y) => Chained(w, x, y)
       /\ \A x, y : Ordered(list, x, y) /\ left[x] = left[y] => Chained(w, x, y)
  BY <1>2, <1>4, <1>5, <1>7, <1>9, <1>10, RelinkRight
<1>12. ASSUME NEW x PROVE Holds(rest, x) \/ x \in Ids(list) <=> Holds(wheel, x)
  BY <1>1, <1>6, <1>8 DEF Holds
<1>13. ASSUME NEW x, NEW y, Chained(wheel, x, y), left[x] = left[y] PROVE Chained(w, x, y)
  <2>1. PICK p \in Places : Ordered(ListAt(wheel, p), x, y)
    BY <1>13 DEF Chained
  <2>2. CASE p = here
    BY <1>1, <1>11, <1>13, <2>1, <2>2
  <2>3. CASE p # here
    <3>1. Chained(rest, x, y)
      BY <1>6, <2>1, <2>3 DEF Chained
    <3> QED BY <1>11, <3>1
  <2> QED BY <2>2, <2>3
<1> QED BY <1>11, <1>12, <1>13 DEF SameTimers

----------------------------------------------------------------------------
(* timer_shift *)

LEMMA ShiftIs ==
    ASSUME NEW wheel, NEW ct \in 0..(Word - 1)
    PROVE  \/ /\ timer_shift(wheel, ct) = wheel
              /\ \A i, j : ~ Moves(ct, i, j)
           \/ \E i \in 0..3 : \E j \in 0..(TIME_LEVEL - 1) :
                 /\ timer_shift(wheel, ct) = move_list(wheel, i, j, ct)
                 /\ \A a, b : Moves(ct, a, b) => a = i /\ b = j
<1>0. ct \in Nat /\ TIME_LEVEL \in Nat \ {0}
  BY CoverFacts, WheelAssumption
<1>1. CASE ct = 0
  <2>1. timer_shift(wheel, ct) = move_list(wheel, 3, 0, ct)
    BY <1>1 DEF timer_shift
  <2>2. \A a, b : Moves(ct, a, b) => a = 3 /\ b = 0
    BY <1>1 DEF Moves
  <2>3. 3 \in 0..3 /\ 0 \in 0..(TIME_LEVEL - 1)
    BY <1>0
  <2> QED BY <2>1, <2>2, <2>3
<1>2. CASE ct # 0 /\ Shifting(ct) = {}
  BY <1>2 DEF timer_shift, Moves
<1>3. CASE ct # 0 /\ Shifting(ct) # {}
  <2> DEFINE P(i) == \A j \in Shifting(ct) : i <= j
             i == CHOOSE i \in Shifting(ct) : P(i)
             j == (ct \div Cover[i]) % TIME_LEVEL
  <2>1. Shifting(ct) \subseteq 0..3
    BY DEF Shifting
  <2>2. \E k \in Shifting(ct) : P(k)
    <3>1. Shifting(ct) \in SUBSET Nat
      BY <2>1
    <3> QED BY <3>1, <1>3, LeastExists
  <2>3. timer_shift(wheel, ct) = move_list(wheel, i, j, ct)
    BY <1>3 DEF timer_shift
  <2>4. i \in Shifting(ct) /\ P(i)
    <3> HIDE DEF P
    <3> QED BY <2>2
  <2> HIDE DEF i
  <2>5. i \in 0..3
    BY <2>1, <2>4
  <2>6. j \in 0..(TIME_LEVEL - 1)
    <3>1. Cover[i] \in Nat \ {0}
      BY <2>5, CoverFacts
    <3>2. ct \div Cover[i] \in Nat
      BY <1>0, <3>1, DivMod
    <3> QED BY <1>0, <3>2, DivMod
  <2>7. ASSUME NEW a, NEW b, Moves(ct, a, b) PROVE a = i /\ b = j
    <3>1. a \in Shifting(ct) /\ P(a) /\ b = (ct \div Cover[a]) % TIME_LEVEL
      BY <1>3, <2>7 DEF Moves
    <3>2. a = i
      BY <2>1, <2>4, <3>1
    <3> QED BY <3>1, <3>2
  <2> QED BY <2>3, <2>5, <2>6, <2>7
<1> QED BY <1>1, <1>2, <1>3

\* A tick takes one from what every timer has to wait.
LEMMA FitsNext ==
    ASSUME NEW now \in 0..(Word - 1), NEW w \in Nat \ {0}
    PROVE  (((now + 1) % Word) + (w - 1)) % Word = (now + w) % Word
<1>1. Word \in Nat \ {0} /\ now \in Nat
  BY CoverFacts
<1>2. now + 1 \in Nat /\ w - 1 \in Nat /\ (now + 1) + (w - 1) = now + w
  BY <1>1
<1>3. (((now + 1) % Word) + (w - 1)) % Word = ((now + 1) + (w - 1)) % Word
  BY <1>1, <1>2, ModAdd, Zenon
<1> QED BY <1>2, <1>3, Zenon

\* Timers with the same identity are in the same list.
LEMMA SamePlace ==
    ASSUME NEW wheel \in Wheels, NEW now \in 0..(Word - 1), NEW left, AllRight(wheel, now, left),
           NEW p \in Places, NEW q \in Places, NEW x,
           x \in Ids(ListAt(wheel, p)), x \in Ids(ListAt(wheel, q))
    PROVE  p = q
<1>1. PICK n \in DOMAIN ListAt(wheel, p) : ListAt(wheel, p)[n].id = x
  BY DEF Ids
<1>2. PICK m \in DOMAIN ListAt(wheel, q) : ListAt(wheel, q)[m].id = x
  BY DEF Ids
<1> DEFINE u == ListAt(wheel, p)[n]
           v == ListAt(wheel, q)[m]
<1>3. Fits(u, now, left) /\ Belongs(u, now, p) /\ Fits(v, now, left) /\ Belongs(v, now, q)
  BY <1>1, <1>2 DEF AllRight, Right
<1>4. u \in Nodes
  BY <1>1, ListType
<1>5. u.id = x /\ v.id = x
  BY <1>1, <1>2
<1> HIDE DEF u, v
<1>6. u.expire = v.expire
  BY <1>3, <1>5 DEF Fits
<1>7. Belongs(u, now, q)
  BY <1>3, <1>6 DEF Belongs, BelongsNear, BelongsAt
<1> QED BY <1>3, <1>4, <1>7, OnePlace

\* The timers of the wheel have to wait, and in the next tick one tick less.
Ticks(wheel, left, next) ==
    \A x : Holds(wheel, x) => left[x] \in Nat \ {0} /\ 2 * left[x] < Word /\ next[x] = left[x] - 1

LEMMA ShiftRight ==
    ASSUME NEW wheel \in Wheels, NEW now \in 0..(Word - 1), NEW left, AllRight(wheel, now, left),
           NEW next, Ticks(wheel, left, next), NEW ct, ct = (now + 1) % Word,
           NEW w, w = timer_shift(wheel, ct)
    PROVE  w \in Wheels /\ AllRight(w, ct, next) /\ SameTimers(w, wheel, next)
<1>0. Word \in Nat \ {0, 1} /\ ct \in 0..(Word - 1) /\ Cover[0] = TIME_NEAR
  <2>1. Word \in Nat \ {0, 1}
    BY CoverFacts
  <2>2. 1 \in 0..(Word - 1)
    BY <2>1
  <2> QED BY <2>1, <2>2, CoverFacts, WordSumType
<1>1. ASSUME NEW p \in Places, NEW n \in DOMAIN ListAt(wheel, p)
      PROVE  LET node == ListAt(wheel, p)[n] IN
             /\ Fits(node, ct, next)
             /\ Belongs(node, ct, p) \/ \E i, j : p = <<i, j>> /\ Moves(ct, i, j)
  <2> DEFINE node == ListAt(wheel, p)[n]
             w0 == left[node.id]
  <2>1. Fits(node, now, left) /\ Belongs(node, now, p) /\ node.id \in Ids(ListAt(wheel, p))
    BY DEF AllRight, Right, Ids
  <2>2. Holds(wheel, node.id)
    BY <2>1 DEF Holds
  <2>3. w0 \in Nat \ {0} /\ 2 * w0 < Word /\ next[node.id] = w0 - 1
    BY <2>2 DEF Ticks
  <2>4. node.expire = (now + w0) % Word
    BY <2>1 DEF Fits
  <2> HIDE DEF node
  <2>5. Fits(node, ct, next)
    <3>1. (ct + (w0 - 1)) % Word = (now + w0) % Word
      BY <2>3, FitsNext
    <3>2. w0 - 1 >= 0
      BY <2>3
    <3> QED BY <2>3, <2>4, <3>1, <3>2 DEF Fits
  <2>6. ASSUME NEW k \in 0..(TIME_NEAR - 1), p = <<4, k>> PROVE Belongs(node, ct, p)
    <3>1. SameBlock((now + w0) % Word, now, Cover[0]) /\ k = node.expire % TIME_NEAR
      BY <1>0, <2>1, <2>4, <2>6, BelongsIs DEF BelongsNear
    <3>2. ct = now + 1 /\ SameBlock((now + w0) % Word, now + 1, Cover[0])
      BY <2>3, <3>1, StaysInBlock
    <3> QED BY <1>0, <2>4, <2>6, <3>1, <3>2, BelongsIs DEF BelongsNear
  <2>7. ASSUME NEW i \in 0..3, NEW j \in 0..(TIME_LEVEL - 1), p = <<i, j>>
        PROVE  Belongs(node, ct, p) \/ Moves(ct, i, j)
    <3>1. /\ ~ SameBlock(node.expire, now, TIME_NEAR) /\ i = Level(node.expire, now)
          /\ j = (node.expire \div Cover[i]) % TIME_LEVEL
      BY <2>1, <2>7, BelongsIs DEF BelongsAt
    <3>2. \/ ~ SameBlock(node.expire, ct, TIME_NEAR) /\ i = Level(node.expire, ct)
          \/ Moves(ct, i, (node.expire \div Cover[i]) % TIME_LEVEL)
      <4> HIDE DEF w0
      <4> QED BY <2>3, <2>4, <3>1, StaysAtLevel
    <3> QED BY <2>7, <3>1, <3>2, BelongsIs DEF BelongsAt
  <2>8. Belongs(node, ct, p) \/ \E i, j : p = <<i, j>> /\ Moves(ct, i, j)
    BY <2>6, <2>7, PlaceKinds
  <2> QED BY <2>5, <2>8 DEF node
<1>2. \A p \in Places : NoTwice(ListAt(wheel, p))
  BY DEF AllRight, Right
<1>3. CASE w = wheel /\ \A i, j : ~ Moves(ct, i, j)
  <2>1. AllRight(wheel, ct, next)
    BY <1>1, <1>2, <1>3 DEF AllRight, Right
  <2> QED BY <1>3, <2>1 DEF SameTimers
<1>4. ASSUME NEW i \in 0..3, NEW j \in 0..(TIME_LEVEL - 1), w = move_list(wheel, i, j, ct),
             \A a, b : Moves(ct, a, b) => a = i /\ b = j
      PROVE  w \in Wheels /\ AllRight(w, ct, next) /\ SameTimers(w, wheel, next)
  <2>1. <<i, j>> \in Places /\ ListAt(wheel, <<i, j>>) = wheel.t[i][j]
    BY PlaceKinds, ListAtIs
  <2>2. ASSUME NEW p \in Places, p # <<i, j>> PROVE Right(ListAt(wheel, p), ct, next, p)
    BY <1>1, <1>2, <1>4, <2>2 DEF Right
  <2>3. NoTwice(wheel.t[i][j])
    BY <1>2, <2>1
  <2>4. ASSUME NEW n \in DOMAIN wheel.t[i][j]
        PROVE  /\ Fits(wheel.t[i][j][n], ct, next)
               /\ \A p \in Places : wheel.t[i][j][n].id \in Ids(ListAt(wheel, p)) => p = <<i, j>>
    <3>1. Fits(wheel.t[i][j][n], ct, next)
      BY <1>1, <2>1
    <3>2. wheel.t[i][j][n].id \in Ids(ListAt(wheel, <<i, j>>))
      BY <2>1 DEF Ids
    <3> QED BY <3>1, <3>2, <2>1, SamePlace
  <2>5. Movable(wheel, ct, next, i, j)
    BY <2>2, <2>3, <2>4 DEF Movable
  <2> QED BY <1>0, <1>4, <2>5, MoveRight, Zenon
<1> QED BY <1>0, <1>3, <1>4, ShiftIs

----------------------------------------------------------------------------
(* The invariant *)

ThisWheel == [near |-> near, t |-> t]

\* WheelInv, in terms of places.
Inv ==
    /\ TypeOK
    /\ AllRight(ThisWheel, time, wait)
    /\ \A x \in Timers : wait[x] >= 0 => x \in Ids(due) \/ Holds(ThisWheel, x)
    /\ \A x \in Timers : 2 * wait[x] < Word
    /\ DueInv
    /\ NoneIsLate
    /\ InStep
    /\ diff = 0 <=> pc = "idle"

LEMMA InvIs == WheelInv <=> Inv
BY SoundIs, InWheelIs DEF WheelInv, Inv, ThisWheel

LEMMA WheelType == ASSUME TypeOK PROVE ThisWheel \in Wheels
BY DEF TypeOK, ThisWheel, Wheels

LEMMA WheelTypeNext ==
    ASSUME ThisWheel' \in Wheels
    PROVE  /\ near' \in [0..(TIME_NEAR - 1) -> Seq(Nodes)]
           /\ t' \in [0..3 -> [0..(TIME_LEVEL - 1) -> Seq(Nodes)]]
BY DEF ThisWheel, Wheels

LEMMA Constants ==
    /\ Word \in Nat \ {0, 1} /\ TIME_NEAR \in Nat \ {0, 1} /\ TIME_LEVEL \in Nat \ {0, 1}
    /\ MaxLag \in Nat \ {0}
    /\ \A d \in Delays : d \in Int /\ 2 * d < Word
<1>1. Word \in Nat \ {0, 1}
  BY CoverFacts
<1>2. ASSUME NEW d \in Delays PROVE d \in Int /\ 2 * d < Word
  <2>1. d \in Int /\ d < Word \div 2
    BY WheelAssumption
  <2>2. Word \div 2 \in Nat /\ Word % 2 \in 0..1 /\ Word = (2 * (Word \div 2)) + (Word % 2)
    BY <1>1
  <2> QED BY <1>1, <2>1, <2>2
<1> QED BY <1>1, <1>2, WheelAssumption

\* A list of the wheel, and what is known of the timers in it.
LEMMA HeldFacts ==
    ASSUME Inv, NEW x, Holds(ThisWheel, x)
    PROVE  x \in Timers /\ wait[x] \in Nat /\ 2 * wait[x] < Word
<1>1. PICK p \in Places : x \in Ids(ListAt(ThisWheel, p))
  BY DEF Holds
<1>2. PICK n \in DOMAIN ListAt(ThisWheel, p) : ListAt(ThisWheel, p)[n].id = x
  BY <1>1 DEF Ids
<1>3. ListAt(ThisWheel, p) \in Seq(Nodes)
  BY WheelType, ListType DEF Inv
<1>4. x \in Timers
  <2>1. ListAt(ThisWheel, p)[n] \in Nodes
    BY <1>2, <1>3
  <2> QED BY <1>2, <2>1 DEF Nodes
<1>5. wait[x] >= 0
  BY <1>2 DEF Inv, AllRight, Right, Fits
<1> QED BY <1>4, <1>5 DEF Inv, TypeOK

\* The list of this tick holds the timers that have waited enough, and those only.
LEMMA NowList ==
    ASSUME Inv
    PROVE  /\ time % TIME_NEAR \in 0..(TIME_NEAR - 1)
           /\ \A x : Holds(ThisWheel, x) /\ wait[x] = 0 => x \in Ids(near[time % TIME_NEAR])
           /\ \A n \in DOMAIN near[time % TIME_NEAR] : wait[near[time % TIME_NEAR][n].id] = 0
<1> DEFINE k == time % TIME_NEAR
<1>0. time \in 0..(Word - 1) /\ time \in Nat
  BY Constants DEF Inv, TypeOK
<1>1. k \in 0..(TIME_NEAR - 1)
  BY <1>0, Constants, DivMod
<1>2. ASSUME NEW x, Holds(ThisWheel, x), wait[x] = 0 PROVE x \in Ids(near[k])
  <2>1. PICK p \in Places : x \in Ids(ListAt(ThisWheel, p))
    BY <1>2 DEF Holds
  <2>2. PICK n \in DOMAIN ListAt(ThisWheel, p) : ListAt(ThisWheel, p)[n].id = x
    BY <2>1 DEF Ids
  <2> DEFINE node == ListAt(ThisWheel, p)[n]
  <2>3. Fits(node, time, wait) /\ Belongs(node, time, p) /\ node.id = x
    BY <2>2 DEF Inv, AllRight, Right
  <2> HIDE DEF node
  <2>4. node.expire = time
    <3>1. (time + 0) % Word = time
      BY <1>0, Constants, DivSmall
    <3> QED BY <1>2, <2>3, <3>1 DEF Fits
  <2>5. SameBlock(node.expire, time, TIME_NEAR)
    BY <2>4 DEF SameBlock
  <2>6. ASSUME NEW i \in 0..3, NEW j \in 0..(TIME_LEVEL - 1), p = <<i, j>> PROVE FALSE
    BY <2>3, <2>5, <2>6, BelongsIs DEF BelongsAt
  <2>7. ASSUME NEW q \in 0..(TIME_NEAR - 1), p = <<4, q>> PROVE x \in Ids(near[k])
    <3>1. q = k
      BY <2>3, <2>4, <2>7, BelongsIs DEF BelongsNear
    <3>2. ListAt(ThisWheel, p) = near[q]
      BY <2>7, ListAtIs DEF ThisWheel
    <3> QED BY <2>1, <3>1, <3>2
  <2> QED BY <2>6, <2>7, PlaceKinds
<1>3. ASSUME NEW n \in DOMAIN near[k] PROVE wait[near[k][n].id] = 0
  <2> DEFINE node == near[k][n]
             w == wait[node.id]
  <2>1. <<4, k>> \in Places /\ ListAt(ThisWheel, <<4, k>>) = near[k]
    BY <1>1, PlaceKinds, ListAtIs DEF ThisWheel
  <2>2. Fits(node, time, wait) /\ BelongsNear(node, time, k)
    BY <2>1, BelongsIs DEF Inv, AllRight, Right
  <2>3. Holds(ThisWheel, node.id)
    BY <2>1 DEF Holds, Ids
  <2>4. w \in Nat /\ 2 * w < Word
    BY <2>3, HeldFacts
  <2> HIDE DEF node
  <2>5. node.expire = (time + w) % Word /\ SameBlock(node.expire, time, Cover[0])
        /\ node.expire % TIME_NEAR = k
    BY <2>2, CoverFacts DEF Fits, BelongsNear
  <2> HIDE DEF w
  <2>6. node.expire = time + w
    BY <1>0, <2>4, <2>5, Ahead
  <2>7. node.expire \in Nat
    BY <1>0, <2>4, <2>6
  <2>8. node.expire = (TIME_NEAR * (node.expire \div TIME_NEAR)) + (node.expire % TIME_NEAR)
        /\ time = (TIME_NEAR * (time \div TIME_NEAR)) + (time % TIME_NEAR)
    BY <1>0, <2>7, Constants, DivMod
  <2>9. node.expire \div TIME_NEAR = time \div TIME_NEAR
    BY <2>5, CoverFacts DEF SameBlock
  <2>10. node.expire = time
    BY <2>5, <2>8, <2>9, Zenon
  <2>11. w = 0
    BY <1>0, <2>4, <2>6, <2>10
  <2> QED BY <2>11 DEF w, node
<1> QED BY <1>1, <1>2, <1>3

LEMMA ThisLists ==
    /\ \A k : ListAt(ThisWheel, <<4, k>>) = near[k]
    /\ \A i \in 0..3 : \A j : ListAt(ThisWheel, <<i, j>>) = t[i][j]
<1>1. ThisWheel.near = near /\ ThisWheel.t = t
  BY DEF ThisWheel
<1> QED BY <1>1, ListAtIs

LEMMA BeforeIs ==
    TypeOK => \A x, y : Before(x, y) <=> Ordered(due, x, y) \/ Chained(ThisWheel, x, y)
<1> SUFFICES ASSUME TypeOK, NEW x, NEW y
             PROVE  Before(x, y) <=> Ordered(due, x, y) \/ Chained(ThisWheel, x, y)
  OBVIOUS
<1>1. DOMAIN near = 0..(TIME_NEAR - 1) /\ \A i \in 0..3 : DOMAIN t[i] = 0..(TIME_LEVEL - 1)
  BY DEF TypeOK
<1>2. ASSUME NEW k \in 0..(TIME_NEAR - 1), Ordered(near[k], x, y) PROVE Chained(ThisWheel, x, y)
  BY <1>2, PlaceKinds, ThisLists, Zenon DEF Chained
<1>3. ASSUME NEW i \in 0..3, NEW j \in 0..(TIME_LEVEL - 1), Ordered(t[i][j], x, y)
      PROVE  Chained(ThisWheel, x, y)
  BY <1>3, PlaceKinds, ThisLists, Zenon DEF Chained
<1>4. ASSUME Chained(ThisWheel, x, y)
      PROVE  \/ \E k \in 0..(TIME_NEAR - 1) : Ordered(near[k], x, y)
             \/ \E i \in 0..3 : \E j \in 0..(TIME_LEVEL - 1) : Ordered(t[i][j], x, y)
  <2>1. PICK p \in Places : Ordered(ListAt(ThisWheel, p), x, y)
    BY <1>4 DEF Chained
  <2>2. ASSUME NEW k \in 0..(TIME_NEAR - 1), p = <<4, k>> PROVE Ordered(near[k], x, y)
    BY <2>1, <2>2, ThisLists
  <2>3. ASSUME NEW i \in 0..3, NEW j \in 0..(TIME_LEVEL - 1), p = <<i, j>>
        PROVE  Ordered(t[i][j], x, y)
    BY <2>1, <2>3, ThisLists
  <2> QED BY <2>2, <2>3, PlaceKinds, Zenon
<1>5. Before(x, y) <=>
          \/ Ordered(due, x, y)
          \/ \E k \in 0..(TIME_NEAR - 1) : Ordered(near[k], x, y)
          \/ \E i \in 0..3 : \E j \in 0..(TIME_LEVEL - 1) : Ordered(t[i][j], x, y)
  BY <1>1 DEF Before
<1> QED BY <1>2, <1>3, <1>4, <1>5

LEMMA BeforeNext ==
    TypeOK' => \A x, y : Before(x, y)' <=> Ordered(due', x, y) \/ Chained(ThisWheel', x, y)
<1> DEFINE Fact == TypeOK => \A x, y : Before(x, y) <=> Ordered(due, x, y) \/ Chained(ThisWheel, x, y)
<1>1. Fact
  BY BeforeIs
<1> HIDE DEF Fact
<1>2. Fact'
  BY <1>1, PTL
<1> QED BY <1>2 DEF Fact

\* What FirstSetFirst says of a step.
InOrder ==
    \A x, y \in Timers : x # y /\ wait[x] >= 0 =>
          /\ wait'[x] >= 0 /\ wait'[x] = wait'[y] /\ (wait[y] = -1 \/ Before(x, y))
                => Before(x, y)'
          /\ wait'[x] = -1 /\ wait[x] = wait[y] => Before(x, y)

LEMMA InvInit == Init => Inv
<1> SUFFICES ASSUME Init PROVE Inv
  OBVIOUS
<1> USE DEF Init
<1>1. TypeOK
  <2>1. <<>> \in Seq(Nodes) /\ \A x \in Timers : wait[x] = -1
    OBVIOUS
  <2>2. [j \in 0..(TIME_LEVEL - 1) |-> <<>>] \in [0..(TIME_LEVEL - 1) -> Seq(Nodes)]
    BY <2>1
  <2>3. near \in [0..(TIME_NEAR - 1) -> Seq(Nodes)] /\ t \in [0..3 -> [0..(TIME_LEVEL - 1) -> Seq(Nodes)]]
    BY <2>1, <2>2
  <2>4. -1 \in -1..(Word - 1) /\ 0 \in 0..(Word - 1) /\ 0 \in 0..MaxLag
    BY Constants
  <2> QED BY <2>1, <2>3, <2>4 DEF TypeOK
<1>2. \A p \in Places : ListAt(ThisWheel, p) = <<>>
  <2> SUFFICES ASSUME NEW p \in Places PROVE ListAt(ThisWheel, p) = <<>>
    OBVIOUS
  <2>1. ASSUME NEW k \in 0..(TIME_NEAR - 1), p = <<4, k>> PROVE ListAt(ThisWheel, p) = <<>>
    <3>1. near[k] = <<>>
      OBVIOUS
    <3> QED BY <2>1, <3>1, ThisLists
  <2>2. ASSUME NEW i \in 0..3, NEW j \in 0..(TIME_LEVEL - 1), p = <<i, j>>
        PROVE  ListAt(ThisWheel, p) = <<>>
    <3>1. t[i][j] = <<>>
      OBVIOUS
    <3> QED BY <2>2, <3>1, ThisLists
  <2> QED BY <2>1, <2>2, PlaceKinds, Zenon
<1>3. AllRight(ThisWheel, time, wait)
  BY <1>2 DEF AllRight, Right, NoTwice
<1>4. InStep
  <2>1. 0 % Word = 0
    BY Constants
  <2> QED BY <2>1 DEF InStep
<1>5. \A x \in Timers : 2 * wait[x] < Word /\ ~ (wait[x] >= 0) /\ wait[x] # 0
  BY Constants
<1> QED BY <1>1, <1>3, <1>4, <1>5 DEF Inv, DueInv, NoTwice, NoneIsLate

\* Nothing of the wheel changes.
LEMMA StillOrder ==
    ASSUME Inv, TypeOK', UNCHANGED <<near, t, due, wait>>
    PROVE  InOrder
<1>1. ThisWheel' = ThisWheel
  BY DEF ThisWheel
<1>2. \A x, y : Before(x, y)' <=> Before(x, y)
  BY <1>1, BeforeIs, BeforeNext DEF Inv
<1>3. \A x \in Timers : wait[x] >= 0 => wait[x] # -1
  BY DEF Inv, TypeOK
<1> QED BY <1>2, <1>3 DEF InOrder

LEMMA ElapseStep ==
    ASSUME Inv, Elapse
    PROVE  Inv' /\ InOrder
<1>1. TypeOK'
  BY Constants DEF Inv, TypeOK, Elapse
<1>2. ThisWheel' = ThisWheel
  BY DEF ThisWheel, Elapse
<1>3. Inv'
  BY <1>1, <1>2 DEF Inv, DueInv, NoneIsLate, InStep, Elapse
<1> QED BY <1>1, <1>3, StillOrder DEF Elapse

LEMMA UpdateStep ==
    ASSUME Inv, skynet_updatetime
    PROVE  Inv' /\ InOrder
<1> USE DEF skynet_updatetime
<1>0. /\ time \in 0..(Word - 1) /\ time \in Nat /\ clock \in Nat /\ clock > 0 /\ clock \in 0..MaxLag
      /\ current \in Nat
  BY Constants DEF Inv, TypeOK
<1>1. current' \in 0..(Word - 1)
  BY <1>0, Constants, DivMod
<1>2. TypeOK'
  BY <1>0, <1>1 DEF Inv, TypeOK
<1>3. ThisWheel' = ThisWheel
  BY DEF ThisWheel
<1>4. InStep'
  <2>1. (time + 0) - 0 = time /\ time % Word = current
    <3>1. (time + diff - (IF pc = "second" THEN 1 ELSE 0)) % Word = current
      BY DEF Inv, InStep
    <3>2. time + diff - (IF pc = "second" THEN 1 ELSE 0) = time
      BY <1>0
    <3> QED BY <1>0, <3>1, <3>2
  <2>2. ((time % Word) + clock) % Word = (time + clock) % Word
    <3>1. Word \in Nat \ {0}
      BY Constants
    <3> QED BY <1>0, <3>1, ModAdd, Zenon
  <2>3. (time + clock) % Word = current'
    BY <2>1, <2>2
  <2>4. time' + diff' - (IF pc' = "second" THEN 1 ELSE 0) = time + clock
    BY <1>0
  <2> QED BY <2>3, <2>4 DEF InStep
<1>5. Inv'
  BY <1>0, <1>2, <1>3, <1>4 DEF Inv, DueInv, NoneIsLate
<1> QED BY <1>2, <1>5, StillOrder

\* A timer that is set is linked in behind the others of its tick, and never in the list of
\* the tick that is being dispatched.
LEMMA TimeoutStep ==
    ASSUME Inv, NEW x \in Timers, NEW d \in Delays, skynet_timeout(x, d)
    PROVE  Inv' /\ InOrder
<1>1. CASE d <= 0
  <2>1. UNCHANGED vars
    BY <1>1 DEF skynet_timeout, vars
  <2>2. Inv'
    BY <2>1 DEF Inv, TypeOK, ThisWheel, DueInv, NoneIsLate, InStep, vars
  <2> QED BY <2>1, <2>2, StillOrder DEF Inv, vars
<1>2. CASE d > 0
  <2> DEFINE node == [id |-> x, expire |-> (d + time) % Word]
             k == time % TIME_NEAR
             w == add_node(ThisWheel, node, time)
  <2>0. /\ time \in 0..(Word - 1) /\ time \in Nat /\ d \in Nat \ {0} /\ d \in 0..(Word - 1)
        /\ 2 * d < Word /\ wait \in [Timers -> -1..(Word - 1)] /\ wait[x] = -1
    <3>1. time \in 0..(Word - 1) /\ wait \in [Timers -> -1..(Word - 1)]
      BY DEF Inv, TypeOK
    <3>2. wait[x] = -1
      BY DEF skynet_timeout
    <3> QED BY <1>2, <3>1, <3>2, Constants
  <2>1. /\ near' = w.near /\ t' = w.t /\ wait' = [wait EXCEPT ![x] = d]
        /\ UNCHANGED <<time, due, pc, clock, diff, current>>
    BY <1>2, Constants DEF skynet_timeout, ThisWheel
  <2>2. (d + time) % Word = (time + d) % Word
    <3>1. d + time = time + d
      BY <2>0
    <3> QED BY <3>1
  <2>3. node \in Nodes
    BY <2>0, <2>2, WordSumType DEF Nodes
  <2>4. ThisWheel \in Wheels /\ AllRight(ThisWheel, time, wait)
    BY WheelType DEF Inv
  <2>5. ~ Holds(ThisWheel, x)
    BY <2>0, HeldFacts
  <2>6. \A y : y # x /\ y \in Timers => wait'[y] = wait[y]
    BY <2>0, <2>1
  <2>7. wait'[x] = d
    BY <2>0, <2>1
  <2>8. AllRight(ThisWheel, time, wait')
    <3> SUFFICES ASSUME NEW p \in Places, NEW n \in DOMAIN ListAt(ThisWheel, p)
                 PROVE  Fits(ListAt(ThisWheel, p)[n], time, wait')
      BY <2>4 DEF AllRight, Right
    <3>1. Fits(ListAt(ThisWheel, p)[n], time, wait)
      BY <2>4 DEF AllRight, Right
    <3>2. Holds(ThisWheel, ListAt(ThisWheel, p)[n].id)
      BY DEF Holds, Ids
    <3>3. ListAt(ThisWheel, p)[n].id # x /\ ListAt(ThisWheel, p)[n].id \in Timers
      BY <2>5, <3>2, HeldFacts
    <3> QED BY <2>6, <3>1, <3>3 DEF Fits
  <2>9. Fits(node, time, wait') /\ node.id = x /\ node.expire = (time + d) % Word
    BY <2>0, <2>2, <2>7 DEF Fits
  <2> HIDE DEF node, w
  <2>10. /\ w \in Wheels /\ AllRight(w, time, wait')
         /\ \A y : Holds(w, y) <=> Holds(ThisWheel, y) \/ y = x
         /\ \A y, z : Chained(ThisWheel, y, z) => Chained(w, y, z)
         /\ \A y : Holds(ThisWheel, y) /\ (time + wait'[y]) % Word = node.expire => Chained(w, y, x)
    BY <2>0, <2>3, <2>4, <2>5, <2>8, <2>9, AddRight DEF w
  <2>11. ThisWheel' = w
    BY <2>1, <2>10 DEF ThisWheel, Wheels
  <2>12. TypeOK'
    <3>1. wait' \in [Timers -> -1..(Word - 1)]
      BY <2>0, <2>1, Constants
    <3>2. /\ near' \in [0..(TIME_NEAR - 1) -> Seq(Nodes)]
          /\ t' \in [0..3 -> [0..(TIME_LEVEL - 1) -> Seq(Nodes)]]
      BY <2>10, <2>11, WheelTypeNext
    <3> QED BY <2>1, <3>1, <3>2 DEF Inv, TypeOK
  <2>13. \A n \in DOMAIN due : due[n].id \in Timers /\ due[n].id # x
    <3>1. \A n \in DOMAIN due : due[n] \in Nodes
      BY DEF Inv, TypeOK
    <3> QED BY <2>0, <3>1 DEF Inv, DueInv, Nodes
  <2>14. ASSUME near[k] = <<>> PROVE near'[k] = <<>>
    <3>1. k \in 0..(TIME_NEAR - 1)
      BY NowList
    <3>2. near'[k] = IF Belongs(node, time, <<4, k>>) THEN Append(near[k], node) ELSE near[k]
      <4>1. <<4, k>> \in Places /\ ListAt(w, <<4, k>>) = near'[k] /\ ListAt(ThisWheel, <<4, k>>) = near[k]
        BY <2>1, <3>1, PlaceKinds, ListAtIs, ThisLists, Zenon
      <4>2. ListAt(w, <<4, k>>) =
              IF Belongs(node, time, <<4, k>>) THEN Append(ListAt(ThisWheel, <<4, k>>), node)
              ELSE ListAt(ThisWheel, <<4, k>>)
        BY <2>0, <2>3, <2>4, <4>1, AddIs, Zenon DEF w
      <4> QED BY <4>1, <4>2
    <3>3. ASSUME BelongsNear(node, time, k) PROVE FALSE
      <4>1. SameBlock((time + d) % Word, time, Cover[0]) /\ ((time + d) % Word) % TIME_NEAR = k
        BY <2>9, <3>3, CoverFacts DEF BelongsNear
      <4>2. (time + d) % Word = time + d
        BY <2>0, <4>1, Ahead
      <4> DEFINE e == time + d
      <4>3. e \in Nat /\ e # time /\ e % TIME_NEAR = time % TIME_NEAR
        BY <2>0, <4>1, <4>2
      <4>4. e \div TIME_NEAR = time \div TIME_NEAR
        BY <4>1, <4>2, CoverFacts DEF SameBlock
      <4> HIDE DEF e
      <4>5. e = (TIME_NEAR * (e \div TIME_NEAR)) + (e % TIME_NEAR)
            /\ time = (TIME_NEAR * (time \div TIME_NEAR)) + (time % TIME_NEAR)
        BY <2>0, <4>3, Constants, DivMod
      <4> QED BY <4>3, <4>4, <4>5, Zenon
    <3> QED BY <2>14, <3>2, <3>3, BelongsIs
  <2>15. DueInv'
    BY <2>1, <2>6, <2>13, <2>14 DEF Inv, DueInv
  <2>16. NoneIsLate'
    BY <2>0, <2>1, <2>6, <2>7 DEF Inv, NoneIsLate
  <2>17. \A y \in Timers : wait'[y] >= 0 => y \in Ids(due') \/ Holds(ThisWheel', y)
    BY <2>1, <2>6, <2>10, <2>11 DEF Inv
  <2>18. \A y \in Timers : 2 * wait'[y] < Word
    BY <2>0, <2>6, <2>7 DEF Inv
  <2>19. AllRight(ThisWheel', time', wait')
    BY <2>1, <2>10, <2>11
  <2>20. InStep' /\ (diff' = 0 <=> pc' = "idle")
    BY <2>1 DEF Inv, InStep
  <2>21. Inv'
    BY <2>12, <2>15, <2>16, <2>17, <2>18, <2>19, <2>20 DEF Inv
  <2>22. InOrder
    <3> SUFFICES ASSUME NEW y \in Timers, NEW z \in Timers, y # z, wait[y] >= 0
                 PROVE  /\ wait'[y] >= 0 /\ wait'[y] = wait'[z] /\ (wait[z] = -1 \/ Before(y, z))
                               => Before(y, z)'
                        /\ wait'[y] # -1
      BY DEF InOrder
    <3>1. y # x /\ wait'[y] = wait[y] /\ wait[y] \in Nat
      BY <2>0, <2>6
    <3>2. ASSUME Before(y, z) PROVE Before(y, z)'
      <4>1. Ordered(due, y, z) \/ Chained(ThisWheel, y, z)
        BY <3>2, BeforeIs DEF Inv
      <4>2. Ordered(due', y, z) \/ Chained(ThisWheel', y, z)
        BY <2>1, <2>10, <2>11, <4>1
      <4> QED BY <2>12, <4>2, BeforeNext
    <3>3. ASSUME wait[z] = -1, wait'[y] = wait'[z] PROVE Before(y, z)'
      <4>1. z = x
        BY <2>6, <3>1, <3>3
      <4>2. wait[y] = d
        BY <2>7, <3>1, <3>3, <4>1
      <4>3. y \notin Ids(due)
        BY <2>0, <4>2 DEF Inv, DueInv, Ids
      <4>4. Holds(ThisWheel, y)
        BY <3>1, <4>3 DEF Inv
      <4>5. Chained(w, y, x)
        BY <2>9, <2>10, <3>1, <4>2, <4>4
      <4> QED BY <2>11, <2>12, <4>1, <4>5, BeforeNext
    <3> QED BY <3>1, <3>2, <3>3
  <2> QED BY <2>21, <2>22
<1>3. d \in Int
  BY Constants
<1> QED BY <1>1, <1>2, <1>3

\* A list is taken for dispatch only in the second timer_execute of a tick.
LEMMA ExecuteStep ==
    ASSUME Inv, timer_execute
    PROVE  Inv' /\ InOrder
<1> DEFINE k == time % TIME_NEAR
<1>0. /\ k \in 0..(TIME_NEAR - 1) /\ due = <<>> /\ pc \in {"first", "second"}
      /\ UNCHANGED <<t, time, clock, current, wait>>
      /\ near \in [0..(TIME_NEAR - 1) -> Seq(Nodes)]
      /\ time \in Nat /\ diff \in 0..MaxLag /\ diff # 0
  <2>1. k \in 0..(TIME_NEAR - 1)
    BY NowList
  <2>2. /\ near \in [0..(TIME_NEAR - 1) -> Seq(Nodes)]
        /\ time \in Nat /\ diff \in 0..MaxLag
        /\ (diff = 0) <=> (pc = "idle")
    BY Constants DEF Inv, TypeOK
  <2>3. /\ due = <<>> /\ pc \in {"first", "second"}
        /\ UNCHANGED <<t, time, clock, current, wait>>
    BY DEF timer_execute
  <2>4. diff # 0
    BY <2>2, <2>3
  <2> QED BY <2>1, <2>2, <2>3, <2>4
<1>1. CASE near[k] # <<>>
  <2>1. due' = near[k] /\ near' = [near EXCEPT ![k] = <<>>] /\ UNCHANGED <<pc, diff>>
    BY <1>1 DEF timer_execute
  <2>2. near[k] \in Seq(Nodes) /\ near' \in [0..(TIME_NEAR - 1) -> Seq(Nodes)]
    <3>1. <<>> \in Seq(Nodes)
      OBVIOUS
    <3> QED BY <1>0, <2>1, <3>1
  <2>3. TypeOK'
    BY <1>0, <2>1, <2>2 DEF Inv, TypeOK
  <2>4. <<4, k>> \in Places /\ ListAt(ThisWheel, <<4, k>>) = near[k]
    BY <1>0, PlaceKinds, ThisLists, Zenon
  <2>5. ASSUME NEW p \in Places
        PROVE  ListAt(ThisWheel', p) = IF p = <<4, k>> THEN <<>> ELSE ListAt(ThisWheel, p)
    <3>0. ThisWheel'.near = near' /\ ThisWheel'.t = t
      BY <1>0 DEF ThisWheel
    <3>1. ASSUME NEW q \in 0..(TIME_NEAR - 1), p = <<4, q>>
          PROVE  ListAt(ThisWheel', p) = IF p = <<4, k>> THEN <<>> ELSE ListAt(ThisWheel, p)
      <4>1. ListAt(ThisWheel', p) = near'[q] /\ ListAt(ThisWheel, p) = near[q]
        BY <3>0, <3>1, ListAtIs, ThisLists, Zenon
      <4>2. near'[q] = IF q = k THEN <<>> ELSE near[q]
        BY <1>0, <2>1
      <4>3. p = <<4, k>> <=> q = k
        BY <3>1
      <4> QED BY <4>1, <4>2, <4>3
    <3>2. ASSUME NEW i \in 0..3, NEW j \in 0..(TIME_LEVEL - 1), p = <<i, j>>
          PROVE  ListAt(ThisWheel', p) = IF p = <<4, k>> THEN <<>> ELSE ListAt(ThisWheel, p)
      <4>1. ListAt(ThisWheel', p) = t[i][j] /\ ListAt(ThisWheel, p) = t[i][j]
        BY <3>0, <3>2, ListAtIs, ThisLists
      <4>2. p # <<4, k>>
        BY <3>2
      <4> QED BY <4>1, <4>2
    <3> QED BY <3>1, <3>2, PlaceKinds, Zenon
  <2>6. AllRight(ThisWheel', time', wait')
    <3> SUFFICES ASSUME NEW p \in Places PROVE Right(ListAt(ThisWheel', p), time, wait, p)
      BY <1>0 DEF AllRight
    <3>1. Right(<<>>, time, wait, p)
      BY DEF Right, NoTwice
    <3>2. Right(ListAt(ThisWheel, p), time, wait, p)
      BY DEF Inv, AllRight
    <3> QED BY <2>5, <3>1, <3>2
  <2>7. NoTwice(near[k]) /\ \A n \in DOMAIN near[k] : wait[near[k][n].id] = 0
    BY <2>4, NowList DEF Inv, AllRight, Right
  <2>8. pc = "second"
    <3>1. 1 \in DOMAIN near[k]
      BY <1>1, <2>2
    <3>2. near[k][1].id \in Timers
      <4>1. near[k][1] \in Nodes
        BY <2>2, <3>1
      <4> QED BY <4>1 DEF Nodes
    <3> QED BY <1>0, <2>7, <3>1, <3>2 DEF Inv, NoneIsLate
  <2>9. DueInv'
    BY <1>0, <2>1, <2>7, <2>8 DEF DueInv
  <2>10. Ids(<<>>) = {}
    BY DEF Ids
  <2>11. ASSUME NEW x, Holds(ThisWheel, x) PROVE x \in Ids(due') \/ Holds(ThisWheel', x)
    <3>1. PICK p \in Places : x \in Ids(ListAt(ThisWheel, p))
      BY <2>11 DEF Holds
    <3>2. CASE p = <<4, k>>
      BY <2>1, <2>4, <3>1, <3>2
    <3>3. CASE p # <<4, k>>
      BY <2>5, <3>1, <3>3 DEF Holds
    <3> QED BY <3>2, <3>3
  <2>12. \A x \in Timers : wait'[x] >= 0 => x \in Ids(due') \/ Holds(ThisWheel', x)
    BY <1>0, <2>10, <2>11 DEF Inv
  <2>13. Inv'
    BY <1>0, <2>1, <2>3, <2>6, <2>8, <2>9, <2>12 DEF Inv, NoneIsLate, InStep
  <2>14. ASSUME NEW x, NEW y, Before(x, y) PROVE Before(x, y)'
    <3>1. ~ Ordered(due, x, y)
      BY <1>0 DEF Ordered
    <3>2. PICK p \in Places : Ordered(ListAt(ThisWheel, p), x, y)
      BY <2>14, <3>1, BeforeIs DEF Inv, Chained
    <3>3. CASE p = <<4, k>>
      BY <2>1, <2>3, <2>4, <3>2, <3>3, BeforeNext
    <3>4. CASE p # <<4, k>>
      <4>1. Chained(ThisWheel', x, y)
        BY <2>5, <3>2, <3>4 DEF Chained
      <4> QED BY <2>3, <4>1, BeforeNext
    <3> QED BY <3>3, <3>4
  <2>15. InOrder
    <3>1. \A x \in Timers : wait[x] >= 0 => wait[x] # -1
      BY DEF Inv, TypeOK
    <3> QED BY <1>0, <2>14, <3>1 DEF InOrder
  <2> QED BY <2>13, <2>15
<1>2. CASE near[k] = <<>>
  <2>1. /\ IF pc = "first" THEN pc' = "shift" /\ UNCHANGED diff
           ELSE diff' = diff - 1 /\ pc' = IF diff > 1 THEN "first" ELSE "idle"
        /\ UNCHANGED <<near, due>>
    BY <1>2 DEF timer_execute
  <2>2. ThisWheel' = ThisWheel
    BY <1>0, <2>1 DEF ThisWheel
  <2>3. TypeOK' /\ (diff' = 0 <=> pc' = "idle")
    <3>1. /\ pc' \in {"idle", "first", "shift", "second"} /\ diff' \in 0..MaxLag
          /\ diff' = 0 <=> pc' = "idle"
      BY <1>0, <2>1, Constants
    <3> QED BY <1>0, <2>1, <3>1 DEF Inv, TypeOK
  <2>4. Ids(<<>>) = {}
    BY DEF Ids
  <2>5. \A x \in Timers : wait[x] # 0
    <3>1. ASSUME NEW x \in Timers, wait[x] = 0 PROVE FALSE
      <4>1. Holds(ThisWheel, x)
        BY <1>0, <2>4, <3>1 DEF Inv
      <4> QED BY <1>2, <2>4, <3>1, <4>1, NowList
    <3> QED BY <3>1
  <2>6. InStep'
    <3>1. (time + diff - (IF pc = "second" THEN 1 ELSE 0)) % Word = current
      BY DEF Inv, InStep
    <3>2. time' + diff' - (IF pc' = "second" THEN 1 ELSE 0)
             = time + diff - (IF pc = "second" THEN 1 ELSE 0)
      BY <1>0, <2>1
    <3> QED BY <1>0, <3>1, <3>2 DEF InStep
  <2>7. Inv'
    BY <1>0, <2>1, <2>2, <2>3, <2>5, <2>6 DEF Inv, DueInv, NoneIsLate
  <2> QED BY <1>0, <2>1, <2>3, <2>7, StillOrder
<1> QED BY <1>1, <1>2

LEMMA DispatchStep ==
    ASSUME Inv, Dispatch
    PROVE  Inv' /\ InOrder
<1> DEFINE h == Head(due).id
           k == time % TIME_NEAR
<1>0. /\ due # <<>> /\ due \in Seq(Nodes) /\ due' = Tail(due) /\ wait' = [wait EXCEPT ![h] = -1]
      /\ UNCHANGED <<near, t, time, pc, clock, diff, current>>
      /\ wait \in [Timers -> -1..(Word - 1)] /\ near[k] = <<>>
  BY DEF Dispatch, Inv, TypeOK, DueInv
<1>1. /\ 1 \in DOMAIN due /\ due[1] = Head(due) /\ due[1] \in Nodes
      /\ Tail(due) \in Seq(Nodes)
      /\ \A n \in DOMAIN Tail(due) : n + 1 \in DOMAIN due /\ Tail(due)[n] = due[n + 1]
      /\ \A n \in DOMAIN due : n = 1 \/ (n - 1 \in DOMAIN Tail(due) /\ Tail(due)[n - 1] = due[n])
      /\ DOMAIN due \subseteq Nat /\ DOMAIN Tail(due) \subseteq Nat
  BY <1>0
<1>2. h \in Timers /\ h = due[1].id /\ wait[h] = 0
  BY <1>1 DEF Inv, DueInv, Nodes
<1> HIDE DEF h
<1>3. /\ wait'[h] = -1
      /\ \A x \in Timers : x # h => wait'[x] = wait[x]
      /\ wait' \in [Timers -> -1..(Word - 1)]
  BY <1>0, <1>2, Constants
<1>4. \A n \in DOMAIN due : due[n].id \in Timers /\ (due[n].id = h => n = 1)
  <2>1. \A n \in DOMAIN due : due[n] \in Nodes
    BY <1>0
  <2> QED BY <1>1, <1>2, <2>1 DEF Inv, DueInv, NoTwice, Nodes
<1>5. ThisWheel' = ThisWheel
  BY <1>0 DEF ThisWheel
<1>6. ~ Holds(ThisWheel, h)
  <2>1. Ids(<<>>) = {}
    BY DEF Ids
  <2> QED BY <1>0, <1>2, <2>1, NowList
<1>7. TypeOK'
  BY <1>0, <1>1, <1>3 DEF Inv, TypeOK
<1>8. AllRight(ThisWheel', time', wait')
  <2> SUFFICES ASSUME NEW p \in Places, NEW n \in DOMAIN ListAt(ThisWheel, p)
               PROVE  Fits(ListAt(ThisWheel, p)[n], time, wait')
    BY <1>0, <1>5 DEF Inv, AllRight, Right
  <2>1. Fits(ListAt(ThisWheel, p)[n], time, wait)
    BY DEF Inv, AllRight, Right
  <2>2. Holds(ThisWheel, ListAt(ThisWheel, p)[n].id)
    BY DEF Holds, Ids
  <2>3. ListAt(ThisWheel, p)[n].id # h /\ ListAt(ThisWheel, p)[n].id \in Timers
    BY <1>6, <2>2, HeldFacts
  <2> QED BY <1>3, <2>1, <2>3 DEF Fits
<1>9. \A n \in DOMAIN Tail(due) : Tail(due)[n].id \in Timers /\ Tail(due)[n].id # h
  <2> SUFFICES ASSUME NEW n \in DOMAIN Tail(due) PROVE Tail(due)[n].id \in Timers /\ Tail(due)[n].id # h
    OBVIOUS
  <2>1. n + 1 \in DOMAIN due /\ Tail(due)[n] = due[n + 1] /\ n + 1 # 1
    <3>1. n \in Nat /\ n # 0
      BY <1>1
    <3> QED BY <1>1, <3>1
  <2> QED BY <1>4, <2>1
<1>10. NoTwice(Tail(due))
  <2> SUFFICES ASSUME NEW a \in DOMAIN Tail(due), NEW b \in DOMAIN Tail(due), Tail(due)[a].id = Tail(due)[b].id
               PROVE  a = b
    BY DEF NoTwice
  <2>1. a \in Nat /\ b \in Nat /\ a + 1 \in DOMAIN due /\ b + 1 \in DOMAIN due /\ due[a + 1].id = due[b + 1].id
    BY <1>1
  <2>2. a + 1 = b + 1
    BY <2>1 DEF Inv, DueInv, NoTwice
  <2> QED BY <2>1, <2>2
<1>11. \A n \in DOMAIN Tail(due) : wait'[Tail(due)[n].id] = 0
  BY <1>1, <1>3, <1>9 DEF Inv, DueInv
<1>12. DueInv'
  BY <1>0, <1>10, <1>11 DEF Inv, DueInv
<1>13. ASSUME NEW x \in Timers, wait'[x] >= 0 PROVE x \in Ids(due') \/ Holds(ThisWheel', x)
  <2>1. x # h /\ wait[x] >= 0
    BY <1>3, <1>13
  <2>2. CASE x \in Ids(due)
    <3>1. PICK n \in DOMAIN due : due[n].id = x
      BY <2>2 DEF Ids
    <3>2. n # 1
      BY <1>2, <2>1, <3>1
    <3>3. n - 1 \in DOMAIN Tail(due) /\ Tail(due)[n - 1].id = x
      BY <1>1, <3>1, <3>2
    <3> QED BY <1>0, <3>3 DEF Ids
  <2> QED BY <1>5, <2>1, <2>2 DEF Inv
<1>14. (\A x \in Timers : 2 * wait'[x] < Word) /\ NoneIsLate' /\ InStep' /\ (diff' = 0 <=> pc' = "idle")
  <2>1. \A x \in Timers : wait'[x] = wait[x] \/ wait'[x] = -1
    BY <1>3
  <2>2. (\A x \in Timers : 2 * wait'[x] < Word) /\ NoneIsLate'
    BY <1>0, <2>1, Constants DEF Inv, NoneIsLate
  <2>3. InStep' /\ (diff' = 0 <=> pc' = "idle")
    BY <1>0 DEF Inv, InStep
  <2> QED BY <2>2, <2>3
<1>15. Inv'
  BY <1>7, <1>8, <1>12, <1>13, <1>14 DEF Inv
<1>16. InOrder
  <2> SUFFICES ASSUME NEW x \in Timers, NEW y \in Timers, x # y, wait[x] >= 0
               PROVE  /\ wait'[x] >= 0 /\ wait'[x] = wait'[y] /\ (wait[y] = -1 \/ Before(x, y))
                             => Before(x, y)'
                      /\ wait'[x] = -1 /\ wait[x] = wait[y] => Before(x, y)
    BY DEF InOrder
  <2>0. wait[x] \in Nat
    BY <1>0
  <2>1. ASSUME wait'[x] >= 0, wait'[x] = wait'[y], wait[y] = -1 \/ Before(x, y) PROVE Before(x, y)'
    <3>1. x # h /\ y # h /\ wait'[y] = wait[y] /\ wait[y] # -1
      BY <1>3, <2>0, <2>1
    <3>2. CASE Ordered(due, x, y)
      <4>1. PICK a, b \in DOMAIN due : a < b /\ due[a].id = x /\ due[b].id = y
        BY <3>2 DEF Ordered
      <4>2. a # 1 /\ b # 1
        BY <1>2, <3>1, <4>1
      <4>3. /\ a - 1 \in DOMAIN Tail(due) /\ Tail(due)[a - 1].id = x
            /\ b - 1 \in DOMAIN Tail(due) /\ Tail(due)[b - 1].id = y /\ a - 1 < b - 1
        BY <1>1, <4>1, <4>2
      <4>4. Ordered(due', x, y)
        BY <1>0, <4>3 DEF Ordered
      <4> QED BY <1>7, <4>4, BeforeNext
    <3>3. CASE Chained(ThisWheel, x, y)
      BY <1>5, <1>7, <3>3, BeforeNext
    <3> QED BY <2>1, <3>1, <3>2, <3>3, BeforeIs DEF Inv
  <2>2. ASSUME wait'[x] = -1, wait[x] = wait[y] PROVE Before(x, y)
    <3>1. x = h /\ wait[y] = 0 /\ y # h
      BY <1>2, <1>3, <2>0, <2>2
    <3>2. ~ Holds(ThisWheel, y)
      <4>1. Ids(<<>>) = {}
        BY DEF Ids
      <4> QED BY <1>0, <3>1, <4>1, NowList
    <3>3. PICK n \in DOMAIN due : due[n].id = y
      BY <3>1, <3>2 DEF Inv, Ids
    <3>4. n # 1 /\ 1 < n
      BY <1>1, <1>2, <3>1, <3>3
    <3>5. Ordered(due, x, y)
      BY <1>1, <1>2, <3>1, <3>3, <3>4 DEF Ordered
    <3> QED BY <3>5, BeforeIs DEF Inv
  <2> QED BY <2>1, <2>2
<1> QED BY <1>15, <1>16

LEMMA ShiftStep ==
    ASSUME Inv, Shift
    PROVE  Inv' /\ InOrder
<1>0. /\ pc = "shift" /\ due = <<>> /\ due' = <<>> /\ pc' = "second" /\ time' = (time + 1) % Word
      /\ UNCHANGED <<clock, diff, current>>
      /\ time \in 0..(Word - 1) /\ time \in Nat /\ diff \in Nat \ {0}
      /\ wait \in [Timers -> -1..(Word - 1)]
      /\ wait' = [x \in Timers |-> IF wait[x] > 0 THEN wait[x] - 1 ELSE wait[x]]
  BY Constants DEF Shift, Inv, TypeOK, DueInv
<1>1. \A x \in Timers : wait[x] # 0 /\ 2 * wait[x] < Word
  BY <1>0 DEF Inv, NoneIsLate
<1>2. \A x \in Timers : \/ wait[x] \in Nat \ {0} /\ wait'[x] = wait[x] - 1
                        \/ wait[x] = -1 /\ wait'[x] = -1
  BY <1>0, <1>1
<1> DEFINE w == timer_shift(ThisWheel, time')
<1>3. near' = w.near /\ t' = w.t
  BY DEF Shift, ThisWheel
<1>4. ThisWheel \in Wheels /\ AllRight(ThisWheel, time, wait)
  BY WheelType DEF Inv
<1>5. Ticks(ThisWheel, wait, wait')
  <2>1. ASSUME NEW x, Holds(ThisWheel, x)
        PROVE  wait[x] \in Nat \ {0} /\ 2 * wait[x] < Word /\ wait'[x] = wait[x] - 1
    <3>1. x \in Timers /\ wait[x] \in Nat
      BY <2>1, HeldFacts
    <3> QED BY <1>1, <1>2, <3>1
  <2> QED BY <2>1 DEF Ticks
<1>6. /\ w \in Wheels /\ AllRight(w, time', wait')
      /\ \A x : Holds(w, x) <=> Holds(ThisWheel, x)
      /\ \A x, y : Chained(ThisWheel, x, y) /\ wait'[x] = wait'[y] => Chained(w, x, y)
  <2>1. w = timer_shift(ThisWheel, time')
    OBVIOUS
  <2> HIDE DEF w
  <2>2. time' = (time + 1) % Word /\ time \in 0..(Word - 1)
    BY <1>0
  <2>3. w \in Wheels /\ AllRight(w, time', wait') /\ SameTimers(w, ThisWheel, wait')
    BY <1>4, <1>5, <2>1, <2>2, ShiftRight, Zenon
  <2> QED BY <2>3 DEF SameTimers
<1> HIDE DEF w
<1>7. ThisWheel' = w
  BY <1>3, <1>6 DEF ThisWheel, Wheels
<1>8. TypeOK'
  <2>1. time' \in 0..(Word - 1)
    <3>1. 1 \in 0..(Word - 1)
      BY Constants
    <3> QED BY <1>0, <3>1, WordSumType
  <2>2. /\ near' \in [0..(TIME_NEAR - 1) -> Seq(Nodes)]
        /\ t' \in [0..3 -> [0..(TIME_LEVEL - 1) -> Seq(Nodes)]]
    BY <1>6, <1>7, WheelTypeNext
  <2>3. wait' \in [Timers -> -1..(Word - 1)]
    BY <1>0, Constants
  <2> QED BY <1>0, <2>1, <2>2, <2>3 DEF Inv, TypeOK
<1>9. InStep'
  <2>1. (time + diff - (IF pc = "second" THEN 1 ELSE 0)) % Word = current
    BY DEF Inv, InStep
  <2>2. time + diff - (IF pc = "second" THEN 1 ELSE 0) = time + diff
    BY <1>0
  <2>3. (((time + 1) % Word) + (diff - 1)) % Word = (time + diff) % Word
    BY <1>0, FitsNext
  <2>4. (time + 1) % Word \in Int
    BY <1>0, Constants
  <2>5. time' + diff' - (IF pc' = "second" THEN 1 ELSE 0) = ((time + 1) % Word) + (diff - 1)
    BY <1>0, <2>4
  <2> QED BY <1>0, <2>1, <2>2, <2>3, <2>5 DEF InStep
<1>10. Ids(<<>>) = {}
  BY DEF Ids
<1>11. \A x \in Timers : wait'[x] >= 0 => x \in Ids(due') \/ Holds(ThisWheel', x)
  BY <1>0, <1>2, <1>6, <1>7, <1>10 DEF Inv
<1>12. \A x \in Timers : 2 * wait'[x] < Word
  BY <1>1, <1>2, Constants
<1>13. Inv'
  BY <1>0, <1>6, <1>7, <1>8, <1>9, <1>11, <1>12 DEF Inv, DueInv, NoTwice, NoneIsLate
<1>14. InOrder
  <2> SUFFICES ASSUME NEW x \in Timers, NEW y \in Timers, x # y, wait[x] >= 0
               PROVE  /\ wait'[x] >= 0 /\ wait'[x] = wait'[y] /\ (wait[y] = -1 \/ Before(x, y))
                             => Before(x, y)'
                      /\ wait'[x] # -1
    BY DEF InOrder
  <2>1. wait[x] \in Nat \ {0} /\ wait'[x] = wait[x] - 1 /\ wait'[x] # -1
    BY <1>2
  <2>2. ASSUME wait'[x] = wait'[y], Before(x, y) PROVE Before(x, y)'
    <3>1. ~ Ordered(due, x, y)
      BY <1>0 DEF Ordered
    <3>2. Chained(ThisWheel, x, y)
      BY <2>2, <3>1, BeforeIs DEF Inv
    <3> QED BY <1>6, <1>7, <1>8, <2>2, <3>2, BeforeNext
  <2> QED BY <1>2, <2>1, <2>2
<1> QED BY <1>13, <1>14

----------------------------------------------------------------------------
(* The theorems *)

LEMMA WheelStep ==
    ASSUME Inv, [Next]_vars
    PROVE  Inv' /\ InOrder
<1>1. CASE UNCHANGED vars
  <2>1. Inv'
    BY <1>1 DEF Inv, TypeOK, ThisWheel, DueInv, NoneIsLate, InStep, vars
  <2> QED BY <1>1, <2>1, StillOrder DEF Inv, vars
<1>2. CASE Next
  BY <1>2, TimeoutStep, ElapseStep, UpdateStep, ExecuteStep, DispatchStep, ShiftStep
     DEF Next, TimerThread
<1> QED BY <1>1, <1>2

LEMMA InvAlways == Spec => []Inv
<1>1. Inv /\ [Next]_vars => Inv'
  BY WheelStep
<1> QED BY InvInit, <1>1, PTL DEF Spec

\* The inductive invariant: every list holds the timers that add_node would link there now,
\* and those alone, through each step of skynet_timeout, timer_execute and timer_shift.
THEOREM WheelIsSound == Spec => []WheelInv
<1>1. Inv => WheelInv
  BY InvIs
<1> QED BY <1>1, InvAlways, PTL

LEMMA InvInPlace == ASSUME Inv PROVE InPlace
<1> SUFFICES ASSUME NEW x \in Timers, wait[x] >= 0
             PROVE  LET e == (time + wait[x]) % Word
                        placed == add_node([near |-> [i \in DOMAIN near |-> <<>>],
                                            t |-> [i \in 0..3 |-> [j \in DOMAIN t[i] |-> <<>>]]],
                                           [id |-> x, expire |-> e], time)
                    IN  \/ x \in Ids(due)
                        \/ \E i \in DOMAIN near : x \in Ids(near[i]) /\ placed.near[i] # <<>>
                        \/ \E i \in 0..3 : \E j \in DOMAIN t[i] :
                               x \in Ids(t[i][j]) /\ placed.t[i][j] # <<>>
  BY DEF InPlace
<1> DEFINE e == (time + wait[x]) % Word
           empty == [near |-> [i \in DOMAIN near |-> <<>>],
                     t |-> [i \in 0..3 |-> [j \in DOMAIN t[i] |-> <<>>]]]
           node == [id |-> x, expire |-> e]
           placed == add_node(empty, node, time)
<1>0. /\ DOMAIN near = 0..(TIME_NEAR - 1) /\ \A i \in 0..3 : DOMAIN t[i] = 0..(TIME_LEVEL - 1)
      /\ time \in 0..(Word - 1) /\ wait[x] \in 0..(Word - 1)
  BY Constants DEF Inv, TypeOK
<1>1. node \in Nodes /\ node.expire = e
  BY <1>0, WordSumType DEF Nodes
<1>2. /\ \A k \in 0..(TIME_NEAR - 1) : empty.near[k] = <<>>
      /\ \A i \in 0..3 : \A j \in 0..(TIME_LEVEL - 1) : empty.t[i][j] = <<>>
  BY <1>0
<1>3. empty \in Wheels
  <2>1. <<>> \in Seq(Nodes)
    OBVIOUS
  <2>2. [i \in DOMAIN near |-> <<>>] \in [0..(TIME_NEAR - 1) -> Seq(Nodes)]
    BY <1>0, <2>1
  <2>3. \A i \in 0..3 : [j \in DOMAIN t[i] |-> <<>>] \in [0..(TIME_LEVEL - 1) -> Seq(Nodes)]
    BY <1>0, <2>1
  <2>4. [i \in 0..3 |-> [j \in DOMAIN t[i] |-> <<>>]] \in [0..3 -> [0..(TIME_LEVEL - 1) -> Seq(Nodes)]]
    BY <2>3
  <2> QED BY <2>2, <2>4 DEF Wheels
<1> SUFFICES ASSUME x \notin Ids(due)
             PROVE  \/ \E i \in DOMAIN near : x \in Ids(near[i]) /\ placed.near[i] # <<>>
                    \/ \E i \in 0..3 : \E j \in DOMAIN t[i] :
                           x \in Ids(t[i][j]) /\ placed.t[i][j] # <<>>
  OBVIOUS
<1> HIDE DEF e, empty, node
<1>4. \A p \in Places : ListAt(placed, p) =
          IF Belongs(node, time, p) THEN Append(ListAt(empty, p), node) ELSE ListAt(empty, p)
  BY <1>0, <1>1, <1>3, AddIs
<1> HIDE DEF placed
<1>5. PICK p \in Places : x \in Ids(ListAt(ThisWheel, p))
  BY DEF Inv, Holds
<1>6. Belongs(node, time, p)
  <2>1. PICK n \in DOMAIN ListAt(ThisWheel, p) : ListAt(ThisWheel, p)[n].id = x
    BY <1>5 DEF Ids
  <2> DEFINE m == ListAt(ThisWheel, p)[n]
  <2>2. Fits(m, time, wait) /\ Belongs(m, time, p) /\ m.id = x
    BY <2>1 DEF Inv, AllRight, Right
  <2> HIDE DEF m
  <2>3. m.expire = node.expire
    BY <1>1, <2>2 DEF Fits, e
  <2> QED BY <2>2, <2>3 DEF Belongs, BelongsNear, BelongsAt
<1>7. Append(<<>>, node) # <<>>
  OBVIOUS
<1>8. ASSUME NEW k \in 0..(TIME_NEAR - 1), p = <<4, k>>
      PROVE  x \in Ids(near[k]) /\ placed.near[k] # <<>>
  <2>1. ListAt(placed, p) = placed.near[k] /\ ListAt(empty, p) = <<>>
    BY <1>2, <1>8, ListAtIs
  <2>2. x \in Ids(near[k])
    BY <1>5, <1>8, ThisLists
  <2> QED BY <1>4, <1>6, <1>7, <2>1, <2>2
<1>9. ASSUME NEW i \in 0..3, NEW j \in 0..(TIME_LEVEL - 1), p = <<i, j>>
      PROVE  x \in Ids(t[i][j]) /\ placed.t[i][j] # <<>>
  <2>1. ListAt(placed, p) = placed.t[i][j] /\ ListAt(empty, p) = <<>>
    BY <1>2, <1>9, ListAtIs
  <2>2. x \in Ids(t[i][j])
    BY <1>5, <1>9, ThisLists
  <2> QED BY <1>4, <1>6, <1>7, <2>1, <2>2
<1>10. \/ \E k \in 0..(TIME_NEAR - 1) : x \in Ids(near[k]) /\ placed.near[k] # <<>>
       \/ \E i \in 0..3 : \E j \in 0..(TIME_LEVEL - 1) : x \in Ids(t[i][j]) /\ placed.t[i][j] # <<>>
  <2>1. CASE \E k \in 0..(TIME_NEAR - 1) : p = <<4, k>>
    BY <1>8, <2>1
  <2>2. CASE \E i \in 0..3 : \E j \in 0..(TIME_LEVEL - 1) : p = <<i, j>>
    BY <1>9, <2>2
  <2> QED BY <2>1, <2>2, PlaceKinds
<1> QED BY <1>0, <1>10

\* Every timer is in the list where its wait says, whatever the sizes of the lists, none is
\* overdue when timer_update is done with a tick, and the wheel keeps up with the clock.
THEOREM TimersAreOnTime == Spec => []OnTime
<1>1. Inv => OnTime
  BY InvInPlace DEF Inv, OnTime
<1> QED BY <1>1, InvAlways, PTL

\* dispatch_list sends the message of no timer that has ticks left to wait.
THEOREM NoTimerIsEarly == Spec => NoneIsEarly
<1> DEFINE Patient == \A x \in Timers : wait[x] > 0 => wait'[x] # -1
<1>1. ASSUME Inv, [Next]_vars PROVE Patient
  <2> SUFFICES ASSUME NEW x \in Timers, wait[x] > 0 PROVE wait'[x] # -1
    OBVIOUS
  <2>0. wait \in [Timers -> -1..(Word - 1)] /\ wait[x] \in Nat \ {0}
    BY <1>1, Constants DEF Inv, TypeOK
  <2>1. CASE \E y \in Timers, d \in Delays : skynet_timeout(y, d)
    BY <2>0, <2>1, Constants DEF skynet_timeout
  <2>2. CASE Dispatch
    <3>1. 1 \in DOMAIN due /\ due[1] = Head(due)
      BY <1>1, <2>2 DEF Dispatch, Inv, TypeOK
    <3>2. x # Head(due).id
      BY <1>1, <2>0, <3>1 DEF Inv, DueInv
    <3> QED BY <2>0, <2>2, <3>2 DEF Dispatch
  <2>3. CASE Shift
    BY <2>0, <2>3 DEF Shift
  <2>4. CASE Elapse \/ skynet_updatetime \/ timer_execute \/ UNCHANGED vars
    BY <2>0, <2>4 DEF Elapse, skynet_updatetime, timer_execute, vars
  <2> QED BY <1>1, <2>1, <2>2, <2>3, <2>4 DEF Next, TimerThread
<1>2. Inv /\ [Next]_vars => [Patient]_vars
  BY <1>1
<1> HIDE DEF Patient
<1>3. Spec => [][Patient]_vars
  BY <1>2, InvAlways, PTL DEF Spec
<1> QED BY <1>3 DEF NoneIsEarly, Patient

\* Of two timers that are due in the same tick the one that was set first fires first: no
\* move_list turns two timers round.
THEOREM FirstSetFiresFirst == Spec => FirstSetFirst
<1>1. Inv /\ [Next]_vars => [InOrder]_vars
  BY WheelStep
<1>2. Spec => [][InOrder]_vars
  BY <1>1, InvAlways, PTL DEF Spec
<1> QED BY <1>2 DEF FirstSetFirst, InOrder

=============================================================================
