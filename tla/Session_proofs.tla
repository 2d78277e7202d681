--------------------------- MODULE Session_proofs ---------------------------
(***************************************************************************)
(* Proofs about Session, for any number of agents, logins, connections and *)
(* extra requests: every call gets exactly one answer (OneAnswer), the     *)
(* records of the services agree (RecordsAgree), and a lockout ends by     *)
(* itself (LockoutEnds).  All three follow from SessionInv.                *)
(***************************************************************************)
EXTENDS Session, FiniteSetTheorems, TLAPS

----------------------------------------------------------------------------
(* Queues: what an append and a read change *)

LEMMA AppendRange ==
    ASSUME NEW T, NEW q \in Seq(T), NEW m \in T
    PROVE  Append(q, m) \in Seq(T) /\ Range(Append(q, m)) = Range(q) \cup {m}
<1> DEFINE p == Append(q, m)
<1>1. p \in Seq(T) /\ Len(p) = Len(q) + 1 /\ p[Len(q) + 1] = m
      /\ \A i \in 1..Len(q) : p[i] = q[i]
  OBVIOUS
<1>2. DOMAIN p = 1..(Len(q) + 1) /\ DOMAIN q = 1..Len(q) /\ Len(q) \in Nat
  OBVIOUS
<1> HIDE DEF p
<1>3. ASSUME NEW x \in Range(p) PROVE x \in Range(q) \cup {m}
  <2>1. PICK i \in 1..(Len(q) + 1) : x = p[i]
    BY <1>2 DEF Range
  <2>2. CASE i = Len(q) + 1
    BY <1>1, <2>1, <2>2
  <2>3. CASE i # Len(q) + 1
    <3>1. i \in 1..Len(q)
      BY <1>2, <2>3
    <3> QED BY <1>1, <1>2, <2>1, <3>1 DEF Range
  <2> QED BY <2>2, <2>3
<1>4. ASSUME NEW x \in Range(q) PROVE x \in Range(p)
  <2>1. PICK i \in 1..Len(q) : x = q[i]
    BY <1>2 DEF Range
  <2>2. i \in 1..(Len(q) + 1) /\ p[i] = q[i]
    BY <1>1, <1>2
  <2> QED BY <1>2, <2>1, <2>2 DEF Range
<1>5. m \in Range(p)
  <2>1. Len(q) + 1 \in DOMAIN p
    BY <1>2
  <2> QED BY <1>1, <2>1 DEF Range
<1>6. Range(p) = Range(q) \cup {m}
  BY <1>3, <1>4, <1>5
<1> QED BY <1>1, <1>6 DEF p

LEMMA TailRange ==
    ASSUME NEW T, NEW q \in Seq(T), q # <<>>
    PROVE  /\ Head(q) \in T /\ Tail(q) \in Seq(T)
           /\ Range(q) = Range(Tail(q)) \cup {Head(q)}
<1> DEFINE p == Tail(q)
<1>1. /\ p \in Seq(T) /\ Len(q) \in Nat /\ Len(q) > 0 /\ Len(p) = Len(q) - 1 /\ Head(q) = q[1]
      /\ \A i \in 1..(Len(q) - 1) : p[i] = q[i + 1]
  OBVIOUS
<1>2. DOMAIN p = 1..(Len(q) - 1) /\ DOMAIN q = 1..Len(q) /\ 1 \in DOMAIN q
  BY <1>1
<1>3. Head(q) \in T
  BY <1>1, <1>2
<1> HIDE DEF p
<1>4. ASSUME NEW x \in Range(q) PROVE x \in Range(p) \cup {Head(q)}
  <2>1. PICK i \in 1..Len(q) : x = q[i]
    BY <1>2 DEF Range
  <2>2. CASE i = 1
    BY <1>1, <2>1, <2>2
  <2>3. CASE i # 1
    <3>1. i - 1 \in 1..(Len(q) - 1) /\ (i - 1) + 1 = i
      BY <1>1, <2>3
    <3>2. p[i - 1] = q[i]
      BY <1>1, <3>1
    <3> QED BY <1>2, <2>1, <3>1, <3>2 DEF Range
  <2> QED BY <2>2, <2>3
<1>5. ASSUME NEW x \in Range(p) PROVE x \in Range(q)
  <2>1. PICK i \in 1..(Len(q) - 1) : x = p[i]
    BY <1>2 DEF Range
  <2>2. i + 1 \in 1..Len(q) /\ p[i] = q[i + 1]
    BY <1>1
  <2> QED BY <1>2, <2>1, <2>2 DEF Range
<1>6. Head(q) \in Range(q)
  BY <1>1, <1>2 DEF Range
<1>7. Range(q) = Range(p) \cup {Head(q)}
  BY <1>4, <1>5, <1>6
<1> QED BY <1>1, <1>3, <1>7 DEF p

LEMMA EmptyRange == Range(<<>>) = {}
BY DEF Range

LEMMA InRange ==
    ASSUME NEW T, NEW q \in Seq(T)
    PROVE  \A m \in Range(q) : m \in T
BY DEF Range

----------------------------------------------------------------------------
(* Counting *)

LEMMA CountNat ==
    ASSUME NEW T, NEW q \in Seq(T), NEW S
    PROVE  /\ IsFiniteSet({i \in DOMAIN q : q[i] \in S}) /\ Count(q, S) \in Nat
           /\ Count(q, S) = 0 <=> \A m \in Range(q) : m \notin S
<1> DEFINE I == {i \in DOMAIN q : q[i] \in S}
<1>1. DOMAIN q = 1..Len(q) /\ Len(q) \in Nat
  OBVIOUS
<1>2. IsFiniteSet(1..Len(q))
  BY <1>1, FS_Interval
<1>3. I \subseteq 1..Len(q)
  BY <1>1
<1>4. IsFiniteSet(I)
  BY <1>2, <1>3, FS_Subset
<1>5. Cardinality(I) \in Nat /\ (Cardinality(I) = 0 <=> I = {})
  BY <1>4, FS_CardinalityType, FS_EmptySet
<1>6. I = {} <=> \A m \in Range(q) : m \notin S
  BY DEF Range
<1> QED BY <1>4, <1>5, <1>6 DEF Count

LEMMA CountEmpty == \A S : Count(<<>>, S) = 0
BY FS_EmptySet DEF Count

LEMMA CountAppend ==
    ASSUME NEW T, NEW q \in Seq(T), NEW m \in T, NEW S
    PROVE  Count(Append(q, m), S) = Count(q, S) + (IF m \in S THEN 1 ELSE 0)
<1> DEFINE p == Append(q, m)
           n == Len(q) + 1
           I == {i \in DOMAIN q : q[i] \in S}
           J == {i \in DOMAIN p : p[i] \in S}
<1>1. p \in Seq(T) /\ Len(p) = n /\ p[n] = m /\ Len(q) \in Nat
      /\ \A i \in 1..Len(q) : p[i] = q[i]
  OBVIOUS
<1>2. DOMAIN p = 1..n /\ DOMAIN q = 1..Len(q)
  OBVIOUS
<1>3. IsFiniteSet(I) /\ Cardinality(I) \in Nat
  BY CountNat DEF Count
<1>4. n \notin I /\ n \in 1..n /\ 1..n = 1..Len(q) \cup {n} /\ n \notin 1..Len(q)
  BY <1>1, <1>2
<1> HIDE DEF p, n
<1>5. J = IF m \in S THEN I \cup {n} ELSE I
  <2>1. \A i \in 1..n : i \in J <=> p[i] \in S
    BY <1>2
  <2>2. \A i \in 1..Len(q) : i \in J <=> i \in I
    BY <1>1, <1>2, <1>4
  <2>3. n \in J <=> m \in S
    BY <1>1, <1>4, <2>1
  <2>4. J \subseteq 1..n /\ I \subseteq 1..Len(q)
    BY <1>2
  <2> QED BY <1>4, <2>2, <2>3, <2>4
<1>0. Count(q, S) = Cardinality(I) /\ Count(p, S) = Cardinality(J)
  BY DEF Count
<1> HIDE DEF I, J
<1>6. Cardinality(J) = Cardinality(I) + (IF m \in S THEN 1 ELSE 0)
  <2>1. CASE m \in S
    <3>1. Cardinality(I \cup {n}) = Cardinality(I) + 1
      BY <1>3, <1>4, FS_AddElement
    <3> QED BY <1>5, <2>1, <3>1
  <2>2. CASE m \notin S
    <3>1. J = I
      BY <1>5, <2>2
    <3> QED BY <1>3, <2>2, <3>1
  <2> QED BY <2>1, <2>2
<1> QED BY <1>0, <1>6 DEF p

LEMMA CountTail ==
    ASSUME NEW T, NEW q \in Seq(T), q # <<>>, NEW S
    PROVE  Count(q, S) = Count(Tail(q), S) + (IF Head(q) \in S THEN 1 ELSE 0)
<1> DEFINE p == Tail(q)
           I == {i \in DOMAIN q : q[i] \in S}
           J == {i \in DOMAIN p : p[i] \in S}
           K == I \ {1}
           g == [j \in J |-> j + 1]
<1>1. /\ p \in Seq(T) /\ Len(q) \in Nat /\ Len(q) > 0 /\ Head(q) = q[1]
      /\ \A i \in 1..(Len(q) - 1) : p[i] = q[i + 1]
  OBVIOUS
<1>2. DOMAIN p = 1..(Len(q) - 1) /\ DOMAIN q = 1..Len(q) /\ 1 \in DOMAIN q
  BY <1>1
<1>3. IsFiniteSet(I) /\ IsFiniteSet(J) /\ Cardinality(I) \in Nat /\ Cardinality(J) \in Nat
  <2>1. IsFiniteSet(I) /\ Cardinality(I) \in Nat
    BY CountNat DEF Count
  <2> HIDE DEF p
  <2>2. p \in Seq(T)
    BY <1>1
  <2>3. IsFiniteSet(J) /\ Count(p, S) \in Nat
    BY <2>2, CountNat, SMTT(30)
  <2>4. Count(p, S) = Cardinality(J)
    BY DEF Count
  <2> QED BY <2>1, <2>3, <2>4
<1>0. Count(q, S) = Cardinality(I) /\ Count(Tail(q), S) = Cardinality(J)
  BY DEF Count
<1> HIDE DEF p
<1>4. ASSUME NEW j \in J PROVE j + 1 \in K
  <2>1. j \in 1..(Len(q) - 1) /\ p[j] \in S
    BY <1>2
  <2>2. j + 1 \in 1..Len(q) /\ j + 1 # 1 /\ q[j + 1] \in S
    BY <1>1, <2>1
  <2> QED BY <1>2, <2>2
<1>5. ASSUME NEW k \in K PROVE \E j \in J : j + 1 = k
  <2>1. k \in 1..Len(q) /\ k # 1 /\ q[k] \in S
    BY <1>2
  <2>2. k - 1 \in 1..(Len(q) - 1) /\ (k - 1) + 1 = k
    BY <1>1, <2>1
  <2>3. k - 1 \in J
    BY <1>1, <1>2, <2>1, <2>2
  <2> QED BY <2>2, <2>3
<1>6. \A j \in J : j \in Nat
  BY <1>2
<1> HIDE DEF I, J
<1>7. g \in Bijection(J, K)
  <2>1. g \in [J -> K]
    BY <1>4
  <2>2. \A i, j \in J : i + 1 = j + 1 => i = j
    BY <1>6
  <2>3. g \in Injection(J, K)
    BY <2>1, <2>2 DEF Injection, IsInjective
  <2>4. g \in Surjection(J, K)
    BY <1>5, <2>1 DEF Surjection
  <2> QED BY <2>3, <2>4 DEF Bijection
<1>8. IsFiniteSet(K)
  BY <1>3, FS_Subset
<1>9. Cardinality(K) = Cardinality(J)
  BY <1>3, <1>7, <1>8, FS_SameCardinalityBij, FS_Bijection DEF ExistsBijection
<1>10. CASE 1 \in I
  <2>1. Cardinality(K) = Cardinality(I) - 1
    BY <1>3, <1>10, FS_RemoveElement
  <2>2. Head(q) \in S
    BY <1>1, <1>10 DEF I
  <2> QED BY <1>0, <1>3, <1>9, <2>1, <2>2
<1>11. CASE 1 \notin I
  <2>1. K = I
    BY <1>11
  <2>2. Head(q) \notin S
    BY <1>1, <1>2, <1>11 DEF I
  <2> HIDE DEF K
  <2> QED BY <1>0, <1>3, <1>9, <2>1, <2>2
<1> QED BY <1>10, <1>11

LEMMA CountConcat ==
    ASSUME NEW T, NEW p \in Seq(T), NEW q \in Seq(T), NEW S
    PROVE  /\ p \o q \in Seq(T) /\ Range(p \o q) = Range(p) \cup Range(q)
           /\ Count(p \o q, S) = Count(p, S) + Count(q, S)
<1> DEFINE r == p \o q
           n == Len(p)
           I == {i \in DOMAIN p : p[i] \in S}
           J == {i \in DOMAIN q : q[i] \in S}
           K == {i \in DOMAIN r : r[i] \in S}
           L == K \ I
           g == [j \in J |-> j + n]
<1>1. /\ r \in Seq(T) /\ n \in Nat /\ Len(q) \in Nat /\ Len(r) = n + Len(q)
      /\ \A i \in 1..n : r[i] = p[i]
      /\ \A j \in 1..Len(q) : r[j + n] = q[j]
  OBVIOUS
<1>2. DOMAIN p = 1..n /\ DOMAIN q = 1..Len(q) /\ DOMAIN r = 1..(n + Len(q))
  BY <1>1
<1>3. /\ IsFiniteSet(I) /\ Count(p, S) = Cardinality(I) /\ Cardinality(I) \in Nat
      /\ IsFiniteSet(J) /\ Count(q, S) = Cardinality(J) /\ Cardinality(J) \in Nat
  BY CountNat DEF Count
<1> HIDE DEF r, n
<1>4. IsFiniteSet(K) /\ Count(r, S) = Cardinality(K) /\ Cardinality(K) \in Nat
  <2>0. r \in Seq(T)
    BY <1>1
  <2>1. IsFiniteSet(K) /\ Count(r, S) \in Nat
    BY <2>0, CountNat
  <2>2. Count(r, S) = Cardinality(K)
    BY DEF Count
  <2> QED BY <2>1, <2>2
<1>5. \A i \in 1..(n + Len(q)) : i \in 1..n \/ \E j \in 1..Len(q) : i = j + n
  <2> SUFFICES ASSUME NEW i \in 1..(n + Len(q)), i \notin 1..n
               PROVE  \E j \in 1..Len(q) : i = j + n
    OBVIOUS
  <2>1. i - n \in 1..Len(q) /\ i = (i - n) + n
    BY <1>1
  <2> QED BY <2>1
<1>6. \A j \in 1..Len(q) : j + n \in 1..(n + Len(q)) /\ j + n \notin 1..n
  BY <1>1
<1>7. 1..n \subseteq 1..(n + Len(q))
  BY <1>1
<1>8. Range(r) = Range(p) \cup Range(q)
  <2>1. ASSUME NEW x \in Range(r) PROVE x \in Range(p) \cup Range(q)
    <3>1. PICK i \in 1..(n + Len(q)) : x = r[i]
      BY <1>2 DEF Range
    <3>2. CASE i \in 1..n
      BY <1>1, <1>2, <3>1, <3>2 DEF Range
    <3>3. ASSUME NEW j \in 1..Len(q), i = j + n PROVE x \in Range(q)
      BY <1>1, <1>2, <3>1, <3>3 DEF Range
    <3> QED BY <1>5, <3>2, <3>3
  <2>2. ASSUME NEW x \in Range(p) PROVE x \in Range(r)
    <3>1. PICK i \in 1..n : x = p[i]
      BY <1>2 DEF Range
    <3> QED BY <1>1, <1>2, <1>7, <3>1 DEF Range
  <2>3. ASSUME NEW x \in Range(q) PROVE x \in Range(r)
    <3>1. PICK j \in 1..Len(q) : x = q[j]
      BY <1>2 DEF Range
    <3> QED BY <1>1, <1>2, <1>6, <3>1 DEF Range
  <2> QED BY <2>1, <2>2, <2>3
<1>9. I \subseteq K
  BY <1>1, <1>2, <1>7
<1>10. \A j \in J : j \in Nat /\ j + n \in L
  BY <1>1, <1>2, <1>6
<1>11. ASSUME NEW i \in L PROVE \E j \in J : i = j + n
  <2>1. i \in 1..(n + Len(q)) /\ r[i] \in S /\ i \notin I
    BY <1>2
  <2>2. i \notin 1..n
    BY <1>1, <1>2, <2>1
  <2>3. PICK j \in 1..Len(q) : i = j + n
    BY <1>5, <2>1, <2>2
  <2> QED BY <1>1, <1>2, <2>1, <2>3
<1> HIDE DEF I, J, K
<1>12. g \in Bijection(J, L)
  <2>1. g \in [J -> L]
    BY <1>10
  <2>2. \A i, j \in J : i + n = j + n => i = j
    BY <1>1, <1>10
  <2>3. g \in Injection(J, L)
    BY <2>1, <2>2 DEF Injection, IsInjective
  <2>4. g \in Surjection(J, L)
    BY <1>11, <2>1 DEF Surjection
  <2> QED BY <2>3, <2>4 DEF Bijection
<1>13. IsFiniteSet(L)
  BY <1>4, FS_Subset
<1>14. Cardinality(L) = Cardinality(J)
  BY <1>3, <1>12, <1>13, FS_SameCardinalityBij, FS_Bijection DEF ExistsBijection
<1>15. Cardinality(I) + Cardinality(L) = Cardinality(K)
  <2>1. I \cup L = K /\ I \cap L = {}
    BY <1>9
  <2>2. /\ Cardinality(I \cup L) = Cardinality(I) + Cardinality(L) - Cardinality(I \cap L)
        /\ Cardinality(L) \in Nat
    BY <1>3, <1>13, FS_Union, FS_CardinalityType
  <2>3. Cardinality(I \cap L) = 0
    BY <2>1, FS_EmptySet
  <2>4. Cardinality(I \cup L) = Cardinality(K)
    BY <2>1
  <2> HIDE DEF L
  <2> QED BY <1>3, <1>4, <2>2, <2>3, <2>4
<1> HIDE DEF L
<1> QED BY <1>1, <1>3, <1>4, <1>8, <1>14, <1>15 DEF r

\* The errors of skynet.exit, in whatever order: each is there, once.
LEMMA OrderOf ==
    ASSUME NEW E, IsFiniteSet(E), NEW e \in SetToSeqs(E)
    PROVE  /\ e \in Seq(E) /\ Range(e) = E
           /\ \A S : E \cap S = {} => Count(e, S) = 0
           /\ \A S, m : E \cap S = {m} => Count(e, S) = 1
<1> DEFINE n == Cardinality(E)
           D == 1..n
<1>1. n \in Nat
  BY FS_CardinalityType
<1>2. e \in [D -> E] /\ \A i, j \in D : i # j => e[i] # e[j]
  BY DEF SetToSeqs
<1>3. e \in Seq(E) /\ DOMAIN e = D
  BY <1>1, <1>2
<1>4. Range(e) \subseteq E
  BY <1>2 DEF Range
<1>5. IsFiniteSet(D) /\ Cardinality(D) = n
  BY <1>1, FS_Interval
<1>6. ASSUME NEW x \in E, x \notin Range(e) PROVE FALSE
  <2> DEFINE F == E \ {x}
  <2>1. IsFiniteSet(F) /\ Cardinality(F) = n - 1
    BY FS_RemoveElement
  <2>2. e \in [D -> F]
    <3>1. \A i \in D : e[i] \in Range(e)
      BY <1>2 DEF Range
    <3> QED BY <1>2, <1>6, <3>1
  <2>3. e \in Injection(D, F)
    BY <1>2, <2>2 DEF Injection, IsInjective
  <2>4. Cardinality(D) <= Cardinality(F)
    BY <1>5, <2>1, <2>3, FS_Injection DEF ExistsInjection
  <2> HIDE DEF D, F
  <2> QED BY <1>1, <1>5, <2>1, <2>4
<1>7. Range(e) = E
  BY <1>4, <1>6
<1>8. ASSUME NEW S, E \cap S = {} PROVE Count(e, S) = 0
  BY <1>3, <1>7, <1>8, CountNat
<1>9. ASSUME NEW S, NEW m, E \cap S = {m} PROVE Count(e, S) = 1
  <2>1. PICK i \in D : e[i] = m
    BY <1>2, <1>7, <1>9 DEF Range
  <2>2. {j \in DOMAIN e : e[j] \in S} = {i}
    BY <1>2, <1>3, <1>9, <2>1
  <2> QED BY <2>2, FS_Singleton DEF Count
<1> QED BY <1>3, <1>7, <1>8, <1>9

----------------------------------------------------------------------------
(* Constants and messages *)

LEMMA CallerFacts ==
    /\ Kick \in Callers /\ ByClient \in Callers /\ Kick # ByClient
    /\ \A a \in Agents : Exit(a) \in Callers /\ Exit(a) # Kick /\ Exit(a) # ByClient
    /\ \A f \in Fds : Forbid(f) \in Callers /\ Forbid(f) # Kick /\ Forbid(f) # ByClient
    /\ \A a \in Agents, f \in Fds : Exit(a) # Forbid(f)
    /\ \A a, b \in Agents : Exit(a) = Exit(b) => a = b
    /\ \A f, g \in Fds : Forbid(f) = Forbid(g) => f = g
BY DEF Callers, Kick, ByClient, Exit, Forbid

LEMMA KickedToLogin ==
    ASSUME NEW ok \in BOOLEAN
    PROVE  LET m == [type |-> "kicked", ok |-> ok] IN
           /\ m \in LoginMessages /\ m \in AcceptAtLogin /\ m.type = "kicked"
           /\ \A c, a : m \notin LogoutAtLogin(c, a)
BY DEF LoginMessages, AcceptAtLogin, LogoutAtLogin

LEMMA LoggedInToLogin ==
    ASSUME NEW s \in 0..MaxLogins
    PROVE  LET m == [type |-> "loggedIn", subid |-> s] IN
           /\ m \in LoginMessages /\ m \in AcceptAtLogin /\ m.type = "loggedIn" /\ m.subid = s
           /\ \A c, a : m \notin LogoutAtLogin(c, a)
BY DEF LoginMessages, AcceptAtLogin, LogoutAtLogin

LEMMA LogoutToLogin ==
    ASSUME NEW d \in Callers, NEW b \in Agents \cup {None}
    PROVE  LET m == [type |-> "logout", caller |-> d, agent |-> b] IN
           /\ m \in LoginMessages /\ m.type = "logout" /\ (m \in AcceptAtLogin <=> b = None)
           /\ \A c, a : m \in LogoutAtLogin(c, a) <=> c = d /\ a = b
BY DEF LoginMessages, AcceptAtLogin, LogoutAtLogin

LEMMA CallToGate ==
    ASSUME NEW t \in {"kick", "login"}, NEW s \in 0..MaxLogins
    PROVE  LET m == [type |-> t, subid |-> s] IN
           /\ m \in GateMessages /\ m \in AcceptAtGate /\ m.type = t /\ m.subid = s
           /\ \A f : m \notin LoginAtGate(f)
           /\ \A c, a : m \notin LogoutAtGate(c, a)
BY DEF GateMessages, AcceptAtGate, LoginAtGate, LogoutAtGate

LEMMA LogoutDoneToGate ==
    ASSUME NEW d \in Callers, NEW b \in Agents \cup {None}
    PROVE  LET m == [type |-> "logoutDone", caller |-> d, agent |-> b] IN
           /\ m \in GateMessages /\ m.type = "logoutDone" /\ (m \in AcceptAtGate <=> b = None)
           /\ \A f : m \notin LoginAtGate(f)
           /\ \A c, a : m \in LogoutAtGate(c, a) <=> c = d /\ a = b
BY DEF GateMessages, AcceptAtGate, LoginAtGate, LogoutAtGate

LEMMA LoggedInToGate ==
    ASSUME NEW g \in Fds, NEW ok \in BOOLEAN
    PROVE  LET m == [type |-> "loggedIn", fd |-> g, ok |-> ok] IN
           /\ m \in GateMessages /\ m.type = "loggedIn" /\ m.fd = g /\ m \notin AcceptAtGate
           /\ \A f : m \in LoginAtGate(f) <=> f = g
           /\ \A c, a : m \notin LogoutAtGate(c, a)
BY DEF GateMessages, AcceptAtGate, LoginAtGate, LogoutAtGate

LEMMA LogoutToGate ==
    ASSUME NEW d \in Callers, NEW b \in Agents, NEW s \in 0..MaxLogins
    PROVE  LET m == [type |-> "logout", caller |-> d, agent |-> b, subid |-> s] IN
           /\ m \in GateMessages /\ m.type = "logout" /\ m \notin AcceptAtGate
           /\ \A f : m \notin LoginAtGate(f)
           /\ \A c, a : m \in LogoutAtGate(c, a) <=> c = d /\ a = b
BY DEF GateMessages, AcceptAtGate, LoginAtGate, LogoutAtGate

LEMMA KickedToGate ==
    LET m == [type |-> "kicked"] IN
    /\ m \in GateMessages /\ m \in AcceptAtGate /\ m.type = "kicked"
    /\ \A f : m \notin LoginAtGate(f)
    /\ \A c, a : m \notin LogoutAtGate(c, a)
BY DEF GateMessages, AcceptAtGate, LoginAtGate, LogoutAtGate

LEMMA AgentexitToGate ==
    ASSUME NEW b \in Agents
    PROVE  LET m == [type |-> "agentexit", agent |-> b] IN
           /\ m \in GateMessages /\ m \notin AcceptAtGate /\ m.type = "agentexit" /\ m.agent = b
           /\ \A f : m \notin LoginAtGate(f)
           /\ \A c, a : m \notin LogoutAtGate(c, a)
BY DEF GateMessages, AcceptAtGate, LoginAtGate, LogoutAtGate

LEMMA LoginToAgent ==
    ASSUME NEW g \in Fds, NEW s \in 0..MaxLogins
    PROVE  LET m == [type |-> "login", fd |-> g, subid |-> s] IN
           /\ m \in AgentMessages /\ m.type = "login" /\ m.fd = g /\ m.subid = s
           /\ m \notin AcceptAtAgent /\ m \notin RequestAtAgent
           /\ \A f : m \in LoginAtAgent(f) <=> f = g
           /\ \A c : m \notin LogoutAtAgent(c)
BY DEF AgentMessages, AcceptAtAgent, RequestAtAgent, LoginAtAgent, LogoutAtAgent

LEMMA PlainToAgent ==
    ASSUME NEW t \in {"reconnect", "afk", "request", "logout"}
    PROVE  LET m == [type |-> t] IN
           /\ m \in AgentMessages /\ m.type = t
           /\ (m \in AcceptAtAgent <=> t = "logout") /\ (m \in RequestAtAgent <=> t = "request")
           /\ \A f : m \notin LoginAtAgent(f)
           /\ \A c : m \notin LogoutAtAgent(c)
BY DEF AgentMessages, AcceptAtAgent, RequestAtAgent, LoginAtAgent, LogoutAtAgent

LEMMA LogoutDoneToAgent ==
    ASSUME NEW d \in Callers, NEW ok \in BOOLEAN
    PROVE  LET m == [type |-> "logoutDone", caller |-> d, ok |-> ok] IN
           /\ m \in AgentMessages /\ m.type = "logoutDone"
           /\ m \notin AcceptAtAgent /\ m \notin RequestAtAgent
           /\ \A f : m \notin LoginAtAgent(f)
           /\ \A c : m \in LogoutAtAgent(c) <=> c = d
BY DEF AgentMessages, AcceptAtAgent, RequestAtAgent, LoginAtAgent, LogoutAtAgent

\* The other direction: what a message read from a queue is.
LEMMA LoginRead ==
    ASSUME NEW m \in LoginMessages
    PROVE  /\ m.type = "logout" => m.caller \in Callers /\ m.agent \in Agents \cup {None}
           /\ m.type = "kicked" => m.ok \in BOOLEAN
           /\ m.type = "loggedIn" => m.subid \in 0..MaxLogins
           /\ m \in AcceptAtLogin <=> (m.type = "logout" => m.agent = None)
           /\ \A c, a : m \in LogoutAtLogin(c, a) <=> m.type = "logout" /\ c = m.caller /\ a = m.agent
BY DEF LoginMessages, AcceptAtLogin, LogoutAtLogin

LEMMA GateRead ==
    ASSUME NEW m \in GateMessages
    PROVE  /\ m.type \in {"kick", "login"} => m.subid \in 0..MaxLogins
           /\ m.type = "logoutDone" => m.caller \in Callers /\ m.agent \in Agents \cup {None}
           /\ m.type = "loggedIn" => m.fd \in Fds /\ m.ok \in BOOLEAN
           /\ m.type = "logout" => m.caller \in Callers /\ m.agent \in Agents /\ m.subid \in 0..MaxLogins
           /\ m.type = "agentexit" => m.agent \in Agents
           /\ m \in AcceptAtGate <=>
                 m.type \in {"kick", "login", "kicked"} \/ (m.type = "logoutDone" /\ m.agent = None)
           /\ \A f : m \in LoginAtGate(f) <=> m.type = "loggedIn" /\ f = m.fd
           /\ \A c, a : m \in LogoutAtGate(c, a) <=>
                 m.type \in {"logout", "logoutDone"} /\ c = m.caller /\ a = m.agent
BY DEF GateMessages, AcceptAtGate, LoginAtGate, LogoutAtGate

LEMMA AgentRead ==
    ASSUME NEW m \in AgentMessages
    PROVE  /\ m.type = "login" => m.fd \in Fds /\ m.subid \in 0..MaxLogins
           /\ m.type = "logoutDone" => m.caller \in Callers /\ m.ok \in BOOLEAN
           /\ m \in AcceptAtAgent <=> m.type = "logout"
           /\ m \in RequestAtAgent <=> m.type = "request"
           /\ \A f : m \in LoginAtAgent(f) <=> m.type = "login" /\ f = m.fd
           /\ \A c : m \in LogoutAtAgent(c) <=> m.type = "logoutDone" /\ c = m.caller
BY DEF AgentMessages, AcceptAtAgent, RequestAtAgent, LoginAtAgent, LogoutAtAgent

----------------------------------------------------------------------------
(* The queues in a step *)

\* An agent's queue gets message m, if the agent is alive; an agent reads its queue.
Put(a, m) == inbox' = [b \in Agents |-> IF b = a /\ Alive(b) THEN Append(inbox[b], m) ELSE inbox[b]]
Took(a)   == inbox[a] # <<>> /\ inbox' = [b \in Agents |-> IF b = a THEN Tail(inbox[b]) ELSE inbox[b]]

LEMMA SendPuts ==
    ASSUME TypeOK, NEW a \in Agents \cup {None}, NEW m, Send(a, m)
    PROVE  Put(a, m)
<1>1. inbox = [b \in Agents |-> inbox[b]]
  BY DEF TypeOK
<1>2. CASE a = None
  <2>1. a \notin Agents
    BY <1>2, SessionAssumption
  <2>2. inbox' = inbox
    BY <1>1, <2>1 DEF Send
  <2> QED BY <1>1, <2>1, <2>2 DEF Put
<1>3. CASE a \in Agents
  BY <1>1, <1>3 DEF Put, Send
<1> QED BY <1>2, <1>3

LEMMA ReceiveTakes ==
    ASSUME TypeOK, NEW a \in Agents, inbox[a] # <<>>, inbox' = [inbox EXCEPT ![a] = Tail(@)]
    PROVE  Took(a)
BY DEF TypeOK, Took

\* What the two do to the types, the messages and the counts of each queue.
LEMMA PutFacts ==
    ASSUME TypeOK, NEW a, NEW m \in AgentMessages, Put(a, m)
    PROVE  /\ inbox' \in [Agents -> Seq(AgentMessages)]
           /\ \A b \in Agents : inbox'[b] # <<>> => inbox[b] # <<>> \/ Alive(b)
           /\ \A b \in Agents : Range(inbox'[b]) = Range(inbox[b]) \cup (IF b = a /\ Alive(b) THEN {m} ELSE {})
           /\ \A b \in Agents : \A S :
                 Count(inbox'[b], S) = Count(inbox[b], S) + (IF b = a /\ Alive(b) /\ m \in S THEN 1 ELSE 0)
<1>1. inbox \in [Agents -> Seq(AgentMessages)]
  BY DEF TypeOK
<1> SUFFICES ASSUME NEW b \in Agents
             PROVE  /\ inbox'[b] \in Seq(AgentMessages)
                    /\ inbox'[b] # <<>> => inbox[b] # <<>> \/ Alive(b)
                    /\ Range(inbox'[b]) = Range(inbox[b]) \cup (IF b = a /\ Alive(b) THEN {m} ELSE {})
                    /\ \A S : Count(inbox'[b], S) =
                              Count(inbox[b], S) + (IF b = a /\ Alive(b) /\ m \in S THEN 1 ELSE 0)
  BY DEF Put
<1>2. inbox[b] \in Seq(AgentMessages) /\ \A S : Count(inbox[b], S) \in Nat
  <2>1. inbox[b] \in Seq(AgentMessages)
    BY <1>1
  <2> QED BY <2>1, CountNat
<1>3. CASE b = a /\ Alive(b)
  <2>1. inbox'[b] = Append(inbox[b], m)
    BY <1>3 DEF Put
  <2>2. \A S : Count(Append(inbox[b], m), S) = Count(inbox[b], S) + (IF m \in S THEN 1 ELSE 0)
    BY <1>2, CountAppend
  <2>3. Append(inbox[b], m) \in Seq(AgentMessages) /\ Range(Append(inbox[b], m)) = Range(inbox[b]) \cup {m}
    BY <1>2, AppendRange
  <2> QED BY <1>3, <2>1, <2>2, <2>3
<1>4. CASE ~(b = a /\ Alive(b))
  <2>1. inbox'[b] = inbox[b]
    BY <1>4 DEF Put
  <2> QED BY <1>2, <1>4, <2>1
<1> QED BY <1>3, <1>4

LEMMA TookFacts ==
    ASSUME TypeOK, NEW a \in Agents, Took(a)
    PROVE  /\ inbox' \in [Agents -> Seq(AgentMessages)]
           /\ Head(inbox[a]) \in AgentMessages /\ Alive(a)
           /\ \A b \in Agents : inbox'[b] # <<>> => inbox[b] # <<>>
           /\ \A b \in Agents : b # a => inbox'[b] = inbox[b]
           /\ Range(inbox[a]) = Range(inbox'[a]) \cup {Head(inbox[a])}
           /\ \A b \in Agents : \A S :
                 Count(inbox[b], S) = Count(inbox'[b], S) + (IF b = a /\ Head(inbox[b]) \in S THEN 1 ELSE 0)
<1>1. inbox \in [Agents -> Seq(AgentMessages)]
  BY DEF TypeOK
<1>2. inbox[a] \in Seq(AgentMessages) /\ inbox[a] # <<>> /\ inbox'[a] = Tail(inbox[a])
  BY <1>1 DEF Took
<1>3. /\ Head(inbox[a]) \in AgentMessages /\ inbox'[a] \in Seq(AgentMessages)
      /\ Range(inbox[a]) = Range(inbox'[a]) \cup {Head(inbox[a])}
  BY <1>2, TailRange
<1>4. \A b \in Agents : b # a => inbox'[b] = inbox[b]
  BY DEF Took
<1>5. inbox' \in [Agents -> Seq(AgentMessages)]
  <2>1. \A b \in Agents : inbox'[b] \in Seq(AgentMessages)
    BY <1>1, <1>3, <1>4
  <2> QED BY <2>1 DEF Took
<1>6. ASSUME NEW b \in Agents, NEW S
      PROVE  Count(inbox[b], S) = Count(inbox'[b], S) + (IF b = a /\ Head(inbox[b]) \in S THEN 1 ELSE 0)
  <2>1. CASE b = a
    BY <1>2, <2>1, CountTail
  <2>2. CASE b # a
    <3>1. inbox'[b] = inbox[b] /\ Count(inbox[b], S) \in Nat
      BY <1>1, <1>4, <2>2, CountNat
    <3> QED BY <2>2, <3>1
  <2> QED BY <2>1, <2>2
<1>7. Alive(a)
  BY <1>2 DEF TypeOK
<1>8. \A b \in Agents : inbox'[b] # <<>> => inbox[b] # <<>>
  BY <1>2, <1>4
<1> QED BY <1>3, <1>4, <1>5, <1>6, <1>7, <1>8

\* The same for the queues of the login server and the gate.
LEMMA ToLoginFacts ==
    ASSUME TypeOK, NEW m \in LoginMessages, ToLogin(m)
    PROVE  /\ toLogin' \in Seq(LoginMessages) /\ Range(toLogin') = Range(toLogin) \cup {m}
           /\ \A S : Count(toLogin', S) = Count(toLogin, S) + (IF m \in S THEN 1 ELSE 0)
<1>1. toLogin \in Seq(LoginMessages) /\ toLogin' = Append(toLogin, m)
  BY DEF TypeOK, ToLogin
<1>2. \A S : Count(Append(toLogin, m), S) = Count(toLogin, S) + (IF m \in S THEN 1 ELSE 0)
  BY <1>1, CountAppend
<1> QED BY <1>1, <1>2, AppendRange

LEMMA ToGateFacts ==
    ASSUME TypeOK, NEW m \in GateMessages, ToGate(m)
    PROVE  /\ toGate' \in Seq(GateMessages) /\ Range(toGate') = Range(toGate) \cup {m}
           /\ \A S : Count(toGate', S) = Count(toGate, S) + (IF m \in S THEN 1 ELSE 0)
<1>1. toGate \in Seq(GateMessages) /\ toGate' = Append(toGate, m)
  BY DEF TypeOK, ToGate
<1>2. \A S : Count(Append(toGate, m), S) = Count(toGate, S) + (IF m \in S THEN 1 ELSE 0)
  BY <1>1, CountAppend
<1> QED BY <1>1, <1>2, AppendRange

LEMMA FromLoginFacts ==
    ASSUME TypeOK, NEW t, Next1(toLogin, t), toLogin' = Tail(toLogin)
    PROVE  /\ toLogin' \in Seq(LoginMessages) /\ Range(toLogin) = Range(toLogin') \cup {Head(toLogin)}
           /\ Head(toLogin) \in LoginMessages /\ Head(toLogin).type = t
           /\ \A S : Count(toLogin, S) = Count(toLogin', S) + (IF Head(toLogin) \in S THEN 1 ELSE 0)
<1>1. toLogin \in Seq(LoginMessages) /\ toLogin # <<>> /\ Head(toLogin).type = t
  BY DEF TypeOK, Next1
<1>2. \A S : Count(toLogin, S) = Count(Tail(toLogin), S) + (IF Head(toLogin) \in S THEN 1 ELSE 0)
  BY <1>1, CountTail
<1> QED BY <1>1, <1>2, TailRange

LEMMA FromGateFacts ==
    ASSUME TypeOK, NEW t, Next1(toGate, t), toGate' = Tail(toGate)
    PROVE  /\ toGate' \in Seq(GateMessages) /\ Range(toGate) = Range(toGate') \cup {Head(toGate)}
           /\ Head(toGate) \in GateMessages /\ Head(toGate).type = t
           /\ \A S : Count(toGate, S) = Count(toGate', S) + (IF Head(toGate) \in S THEN 1 ELSE 0)
<1>1. toGate \in Seq(GateMessages) /\ toGate # <<>> /\ Head(toGate).type = t
  BY DEF TypeOK, Next1
<1>2. \A S : Count(toGate, S) = Count(Tail(toGate), S) + (IF Head(toGate) \in S THEN 1 ELSE 0)
  BY <1>1, CountTail
<1> QED BY <1>1, <1>2, TailRange

LEMMA CountsAreNat ==
    ASSUME TypeOK
    PROVE  \A S : /\ Count(toLogin, S) \in Nat /\ Count(toGate, S) \in Nat
                  /\ \A a \in Agents : Count(inbox[a], S) \in Nat
<1>1. toLogin \in Seq(LoginMessages) /\ toGate \in Seq(GateMessages)
      /\ \A a \in Agents : inbox[a] \in Seq(AgentMessages)
  BY DEF TypeOK
<1> QED BY <1>1, CountNat

\* A count is positive when a message of the set is there.
LEMMA CountsAreRanges ==
    ASSUME TypeOK
    PROVE  \A S : /\ Count(toLogin, S) = 0 <=> \A m \in Range(toLogin) : m \notin S
                  /\ Count(toGate, S) = 0 <=> \A m \in Range(toGate) : m \notin S
                  /\ \A a \in Agents : Count(inbox[a], S) = 0 <=> \A m \in Range(inbox[a]) : m \notin S
<1>1. toLogin \in Seq(LoginMessages) /\ toGate \in Seq(GateMessages)
      /\ \A a \in Agents : inbox[a] \in Seq(AgentMessages)
  BY DEF TypeOK
<1> QED BY <1>1, CountNat

LEMMA MessageTypes ==
    ASSUME TypeOK
    PROVE  /\ \A m \in Range(toLogin) : m \in LoginMessages
           /\ \A m \in Range(toGate) : m \in GateMessages
           /\ \A a \in Agents : \A m \in Range(inbox[a]) : m \in AgentMessages
<1>1. toLogin \in Seq(LoginMessages) /\ toGate \in Seq(GateMessages)
      /\ \A a \in Agents : inbox[a] \in Seq(AgentMessages)
  BY DEF TypeOK
<1> QED BY <1>1, InRange

----------------------------------------------------------------------------
(* Types *)

LEMMA Bounds ==
    ASSUME TypeOK
    PROVE  /\ MaxLogins \in Nat /\ internal_id \in Nat /\ internal_id <= MaxLogins
           /\ \A s \in 0..internal_id : s \in 0..MaxLogins /\ (s # 0 => s \in Subids)
           /\ \A s \in 0..MaxLogins : s <= internal_id => s \in 0..internal_id
           /\ None \notin Agents
BY SessionAssumption DEF TypeOK, Subids

LEMMA TypeAccept ==
    ASSUME TypeOK, Accept
    PROVE  TypeOK'
<1>1. online \in 0..MaxLogins
  BY Bounds DEF TypeOK
<1>0. accept' \in {"kick", "login"}
  BY DEF Accept
<1>2. [type |-> accept', subid |-> online] \in GateMessages
  BY <1>0, <1>1, CallToGate
<1>3. toGate' \in Seq(GateMessages)
  BY <1>2, ToGateFacts DEF Accept
<1> QED BY <1>0, <1>3 DEF TypeOK, Accept, Alive, tableVars, clientVars, agentVars, mgrVars

LEMMA TypeLogindLogout ==
    ASSUME TypeOK, LogindLogout
    PROVE  TypeOK'
<1>1. toLogin' \in Seq(LoginMessages) /\ Head(toLogin) \in LoginMessages /\ Head(toLogin).type = "logout"
  BY FromLoginFacts DEF LogindLogout
<1>2. [Head(toLogin) EXCEPT !.type = "logoutDone"] \in GateMessages
  BY <1>1 DEF LoginMessages, GateMessages
<1>3. toGate' \in Seq(GateMessages)
  BY <1>2, ToGateFacts DEF LogindLogout
<1> QED BY <1>1, <1>3, SMTT(30) DEF TypeOK, LogindLogout, Alive, tableVars, clientVars, agentVars, mgrVars

LEMMA TypeKickAnswered ==
    ASSUME TypeOK, KickAnswered
    PROVE  TypeOK'
<1>1. toLogin' \in Seq(LoginMessages)
  BY FromLoginFacts DEF KickAnswered
<1>2. [type |-> "login", subid |-> 0] \in GateMessages
  BY CallToGate, SessionAssumption
<1>3. toGate' \in Seq(GateMessages)
  <2>1. CASE Head(toLogin).ok
    BY <1>2, <2>1, ToGateFacts DEF KickAnswered
  <2>2. CASE ~Head(toLogin).ok
    BY <2>2 DEF KickAnswered, TypeOK
  <2> QED BY <2>1, <2>2
<1>4. accept' \in {"idle", "login"}
  BY DEF KickAnswered
<1> QED BY <1>1, <1>3, <1>4 DEF TypeOK, KickAnswered, Alive, tableVars, clientVars, agentVars, mgrVars

LEMMA TypeLoginAnswered ==
    ASSUME TypeOK, RecordsInv, LoginAnswered
    PROVE  TypeOK'
<1> DEFINE m == Head(toLogin)
<1>1. toLogin' \in Seq(LoginMessages) /\ m \in LoginMessages /\ m \in Range(toLogin) /\ m.type = "loggedIn"
  BY FromLoginFacts DEF LoginAnswered
<1>2. m.subid \in 0..internal_id
  BY <1>1, LoginRead, Bounds DEF RecordsInv
<1>3. online' \in 0..internal_id
  BY <1>2 DEF TypeOK, LoginAnswered
<1> QED BY <1>1, <1>3 DEF TypeOK, LoginAnswered, Alive, tableVars, clientVars, agentVars, mgrVars

\* The call of accept is in one place.
LEMMA AtLogin ==
    ASSUME TypeOK, AcceptInv, NEW m \in Range(toLogin), m \in AcceptAtLogin
    PROVE  /\ accept # "idle" /\ Count(toLogin, AcceptAtLogin) = 1 /\ Count(toGate, AcceptAtGate) = 0
           /\ logout[Kick].at = "none" /\ \A a \in Agents : KickAsks(a) = 0
<1>1. Count(toLogin, AcceptAtLogin) \in Nat /\ Count(toLogin, AcceptAtLogin) # 0
      /\ Count(toGate, AcceptAtGate) \in Nat /\ \A a \in Agents : KickAsks(a) \in Nat
  BY CountsAreNat, CountsAreRanges DEF KickAsks
<1> QED BY <1>1 DEF AcceptInv

LEMMA AtGate ==
    ASSUME TypeOK, AcceptInv, NEW m \in Range(toGate), m \in AcceptAtGate
    PROVE  /\ accept # "idle" /\ Count(toLogin, AcceptAtLogin) = 0 /\ Count(toGate, AcceptAtGate) = 1
           /\ logout[Kick].at = "none" /\ \A a \in Agents : KickAsks(a) = 0
<1>1. Count(toGate, AcceptAtGate) \in Nat /\ Count(toGate, AcceptAtGate) # 0
      /\ Count(toLogin, AcceptAtLogin) \in Nat /\ \A a \in Agents : KickAsks(a) \in Nat
  BY CountsAreNat, CountsAreRanges DEF KickAsks
<1> QED BY <1>1 DEF AcceptInv

LEMMA AtAgent ==
    ASSUME TypeOK, AcceptInv, NEW a \in Agents, NEW m \in Range(inbox[a]), m \in AcceptAtAgent
    PROVE  /\ accept # "idle" /\ Count(toLogin, AcceptAtLogin) = 0 /\ Count(toGate, AcceptAtGate) = 0
           /\ logout[Kick].at = "none" /\ KickAsks(a) = 1
           /\ \A b \in Agents : b # a => KickAsks(b) = 0
<1>1. Count(toGate, AcceptAtGate) \in Nat /\ Count(toLogin, AcceptAtLogin) \in Nat
      /\ \A b \in Agents : KickAsks(b) \in Nat
  BY CountsAreNat DEF KickAsks
<1>2. KickAsks(a) # 0
  BY CountsAreRanges DEF KickAsks
<1> QED BY <1>1, <1>2 DEF AcceptInv

LEMMA AtHandler ==
    ASSUME TypeOK, AcceptInv, logout[Kick].at # "none"
    PROVE  /\ accept # "idle" /\ Count(toLogin, AcceptAtLogin) = 0 /\ Count(toGate, AcceptAtGate) = 0
           /\ \A b \in Agents : KickAsks(b) = 0
<1>1. Count(toGate, AcceptAtGate) \in Nat /\ Count(toLogin, AcceptAtLogin) \in Nat
      /\ \A b \in Agents : KickAsks(b) \in Nat
  BY CountsAreNat DEF KickAsks
<1> QED BY <1>1 DEF AcceptInv

LEMMA TypeGateLogin ==
    ASSUME TypeOK, AcceptInv, RecordsInv, GateLogin
    PROVE  TypeOK'
<1> DEFINE n == internal_id + 1
<1>0. toGate' \in Seq(GateMessages) /\ Head(toGate) \in AcceptAtGate /\ Head(toGate) \in Range(toGate)
  BY FromGateFacts, GateRead DEF GateLogin
<1>1. CASE users # 0 /\ ~obj[users].islogout
  <2>1. ToLogin([type |-> "loggedIn", subid |-> 0]) /\ UNCHANGED tableVars
    BY <1>1 DEF GateLogin
  <2>2. [type |-> "loggedIn", subid |-> 0] \in LoginMessages
    BY LoggedInToLogin, SessionAssumption
  <2>3. toLogin' \in Seq(LoginMessages)
    BY <2>1, <2>2, ToLoginFacts
  <2> QED BY <1>0, <2>1, <2>3 DEF TypeOK, GateLogin, Alive, tableVars, loginVars, clientVars, agentVars, mgrVars
<1>2. CASE ~(users # 0 /\ ~obj[users].islogout)
  <2>0. /\ internal_id' = n /\ users' = (IF users = 0 THEN n ELSE users)
        /\ obj' = [obj EXCEPT ![users'].subid = n, ![users'].islogout = TRUE]
        /\ username_map' = [username_map EXCEPT ![n] = users']
        /\ user_online' = user_online \cup {n} /\ kicked' = kicked
        /\ ToLogin([type |-> "loggedIn", subid |-> n])
    BY <1>2 DEF GateLogin
  <2>1. accept # "idle" /\ \A m \in Range(toLogin) : m \notin AcceptAtLogin
    BY <1>0, AtGate, CountsAreRanges
  <2>2. internal_id < MaxLogins
    <3>1. \A m \in Range(toLogin) : m.type # "loggedIn"
      BY <2>1, MessageTypes, LoginRead
    <3> QED BY <2>1, <3>1 DEF RecordsInv
  <2>3. n \in 0..MaxLogins /\ n \in Subids /\ n \in Nat /\ n \in 0..n /\ n \in 1..n
        /\ 0..internal_id \subseteq 0..n /\ 1..internal_id \subseteq 1..n
    BY <2>2, Bounds DEF Subids
  <2>4. users' \in 0..n /\ users' \in Subids
    BY <2>0, <2>3, Bounds DEF TypeOK
  <2>5. [type |-> "loggedIn", subid |-> n] \in LoginMessages
    BY <2>3, LoggedInToLogin
  <2>6. toLogin' \in Seq(LoginMessages)
    BY <2>0, <2>5, ToLoginFacts
  <2> HIDE DEF n
  <2>7. obj' \in [Subids -> [subid : 0..n, agent : Agents \cup {None}, islogout : BOOLEAN]]
    <3>1. obj \in [Subids -> [subid : 0..n, agent : Agents \cup {None}, islogout : BOOLEAN]]
      BY <2>3, ZenonT(60) DEF TypeOK
    <3> QED BY <2>0, <2>3, <2>4, <3>1
  <2>8. username_map' \in [Subids -> 0..n] /\ user_online' \subseteq 1..n
    BY <2>0, <2>3, <2>4 DEF TypeOK
  <2>9. /\ connection \in [Fds -> 0..n]
        /\ auth \in [Fds -> [at : {"none", "getAgent", "login", "over"}, subid : 0..n,
                             obj : 0..n, agent : Agents \cup {None}]]
        /\ agent \in [Agents -> [life : {"unborn", "alive", "dead"}, isLogin : BOOLEAN,
                                 online : {"unknown", "on", "off"}, subid : 0..n, beat : BOOLEAN]]
    BY <2>3, ZenonT(60) DEF TypeOK
  <2>10. kicked \in 0..n /\ online \in 0..n
    BY <2>3 DEF TypeOK
  <2> QED BY <1>0, <2>0, <2>3, <2>4, <2>6, <2>7, <2>8, <2>9, <2>10
          DEF TypeOK, GateLogin, Alive, loginVars, clientVars, agentVars, mgrVars
<1> QED BY <1>1, <1>2

LEMMA TypeLogoutHere ==
    ASSUME TypeOK, users # 0, NEW s, LogoutHere(s)
    PROVE  /\ user_online' \subseteq 1..internal_id
           /\ sock' \in [Fds -> {"none", "open", "closing", "closed"}]
           /\ connection' \in [Fds -> 0..internal_id]
           /\ obj' \in [Subids -> [subid : 0..internal_id, agent : Agents \cup {None}, islogout : BOOLEAN]]
           /\ username_map' \in [Subids -> 0..internal_id]
           /\ UNCHANGED <<internal_id, users, fdOf, auth>>
<1>1. user_online' \subseteq 1..internal_id /\ UNCHANGED <<internal_id, users, fdOf, auth>>
  BY DEF LogoutHere, TypeOK
<1>2. /\ sock' \in [Fds -> {"none", "open", "closing", "closed"}]
      /\ connection' \in [Fds -> 0..internal_id]
  BY Bounds DEF LogoutHere, TypeOK
<1>3. obj' \in [Subids -> [subid : 0..internal_id, agent : Agents \cup {None}, islogout : BOOLEAN]]
  <2>1. /\ users \in Subids /\ obj' = [obj EXCEPT ![users].islogout = TRUE]
        /\ obj \in [Subids -> [subid : 0..internal_id, agent : Agents \cup {None}, islogout : BOOLEAN]]
    BY Bounds DEF LogoutHere, TypeOK
  <2> QED BY <2>1
<1>4. username_map' \in [Subids -> 0..internal_id]
  <2>1. /\ username_map' = [username_map EXCEPT ![s] = 0] /\ 0 \in 0..internal_id
        /\ username_map \in [Subids -> 0..internal_id]
    BY Bounds DEF LogoutHere, TypeOK
  <2> QED BY <2>1
<1> QED BY <1>1, <1>2, <1>3, <1>4

\* KickAgent sends a message to the agent, or the answer to the login server.
LEMMA KickAgentSends ==
    ASSUME TypeOK, NEW a \in Agents \cup {None}, KickAgent(a)
    PROVE  \/ a \in Agents /\ Alive(a) /\ Put(a, [type |-> "logout"]) /\ UNCHANGED toLogin
           \/ ToLogin([type |-> "kicked", ok |-> TRUE]) /\ UNCHANGED inbox
<1>1. CASE a # None /\ Alive(a)
  <2>1. Send(a, [type |-> "logout"]) /\ UNCHANGED toLogin /\ a \in Agents
    BY <1>1 DEF KickAgent
  <2> QED BY <1>1, <2>1, SendPuts
<1>2. CASE ~(a # None /\ Alive(a))
  BY <1>2 DEF KickAgent
<1> QED BY <1>1, <1>2

LEMMA TypeKickAgent ==
    ASSUME TypeOK, NEW a \in Agents \cup {None}, KickAgent(a)
    PROVE  /\ toLogin' \in Seq(LoginMessages) /\ inbox' \in [Agents -> Seq(AgentMessages)]
           /\ \A b \in Agents : inbox'[b] # <<>> => Alive(b)
<1>1. CASE a \in Agents /\ Alive(a) /\ Put(a, [type |-> "logout"]) /\ UNCHANGED toLogin
  <2>1. [type |-> "logout"] \in AgentMessages
    BY PlainToAgent
  <2> QED BY <1>1, <2>1, PutFacts DEF TypeOK
<1>2. CASE ToLogin([type |-> "kicked", ok |-> TRUE]) /\ UNCHANGED inbox
  <2>1. [type |-> "kicked", ok |-> TRUE] \in LoginMessages
    BY KickedToLogin
  <2> QED BY <1>2, <2>1, ToLoginFacts DEF TypeOK
<1> QED BY <1>1, <1>2, KickAgentSends

LEMMA TypeGateKick ==
    ASSUME TypeOK, GateKick
    PROVE  TypeOK'
<1> DEFINE s == Head(toGate).subid
<1>0. toGate' \in Seq(GateMessages) /\ UNCHANGED <<loginVars, agentVars, mgrVars>>
  BY FromGateFacts DEF GateKick
<1>1. CASE users = 0
  <2>1. /\ ToLogin([type |-> "logout", caller |-> Kick, agent |-> None])
        /\ UNCHANGED <<tableVars, clientVars, inbox>>
    BY <1>1 DEF GateKick
  <2>2. toLogin' \in Seq(LoginMessages)
    BY <2>1, ToLoginFacts, LogoutToLogin, CallerFacts
  <2> QED BY <1>0, <2>1, <2>2 DEF TypeOK, Alive, tableVars, loginVars, clientVars, agentVars, mgrVars
<1>2. CASE users # 0 /\ obj[users].subid # s
  <2>1. /\ ToLogin([type |-> "kicked", ok |-> FALSE]) /\ UNCHANGED <<tableVars, clientVars, inbox>>
    BY <1>2 DEF GateKick
  <2>2. toLogin' \in Seq(LoginMessages)
    BY <2>1, ToLoginFacts, KickedToLogin
  <2> QED BY <1>0, <2>1, <2>2 DEF TypeOK, Alive, tableVars, loginVars, clientVars, agentVars, mgrVars
<1>3. CASE users # 0 /\ obj[users].subid = s /\ obj[users].agent = None
  <2>1. /\ LogoutHere(s) /\ ToLogin([type |-> "logout", caller |-> Kick, agent |-> None])
        /\ kicked' = users /\ UNCHANGED inbox
    BY <1>3 DEF GateKick
  <2>2. toLogin' \in Seq(LoginMessages)
    BY <2>1, ToLoginFacts, LogoutToLogin, CallerFacts
  <2>3. /\ user_online' \subseteq 1..internal_id
        /\ sock' \in [Fds -> {"none", "open", "closing", "closed"}]
        /\ connection' \in [Fds -> 0..internal_id]
        /\ obj' \in [Subids -> [subid : 0..internal_id, agent : Agents \cup {None}, islogout : BOOLEAN]]
        /\ username_map' \in [Subids -> 0..internal_id]
        /\ UNCHANGED <<internal_id, users, fdOf, auth>>
    BY <1>3, <2>1, TypeLogoutHere
  <2> QED BY <1>0, <2>1, <2>2, <2>3 DEF TypeOK, Alive, loginVars, agentVars, mgrVars
<1>4. CASE users # 0 /\ obj[users].subid = s /\ obj[users].agent # None
  <2>1. KickAgent(obj[users].agent) /\ UNCHANGED <<tableVars, clientVars>>
    BY <1>4 DEF GateKick
  <2>2. obj[users].agent \in Agents \cup {None}
    BY <1>4, Bounds DEF TypeOK
  <2>3. /\ toLogin' \in Seq(LoginMessages) /\ inbox' \in [Agents -> Seq(AgentMessages)]
        /\ \A b \in Agents : inbox'[b] # <<>> => Alive(b)
    BY <2>1, <2>2, TypeKickAgent
  <2> QED BY <1>0, <2>1, <2>3 DEF TypeOK, Alive, tableVars, loginVars, clientVars, agentVars, mgrVars
<1> QED BY <1>1, <1>2, <1>3, <1>4

\* The answer to a logout goes on to an agent, or to the kick.
LEMMA GateLogoutDoneSends ==
    ASSUME TypeOK, GateLogoutDone
    PROVE  LET m == Head(toGate) IN
           /\ m.agent \in Agents \cup {None} /\ m.caller \in Callers /\ kicked' \in {0, kicked}
           /\ \/ m.agent = None /\ \E a \in Agents \cup {None} : KickAgent(a)
              \/ /\ m.agent \in Agents /\ UNCHANGED toLogin
                 /\ Put(m.agent, [type |-> "logoutDone", caller |-> m.caller, ok |-> TRUE])
<1> DEFINE m == Head(toGate)
<1>0. m.agent \in Agents \cup {None} /\ m.caller \in Callers
  BY FromGateFacts, GateRead DEF GateLogoutDone
<1>1. CASE m.agent = None
  <2>1. KickAgent(IF kicked = 0 THEN None ELSE obj[kicked].agent) /\ kicked' = 0
    BY <1>1 DEF GateLogoutDone
  <2>2. (IF kicked = 0 THEN None ELSE obj[kicked].agent) \in Agents \cup {None}
    BY Bounds DEF TypeOK
  <2> QED BY <1>0, <1>1, <2>1, <2>2
<1>2. CASE m.agent # None
  <2>1. Send(m.agent, [type |-> "logoutDone", caller |-> m.caller, ok |-> TRUE]) /\ UNCHANGED <<toLogin, kicked>>
    BY <1>2 DEF GateLogoutDone
  <2> QED BY <1>0, <1>2, <2>1, SendPuts
<1> QED BY <1>1, <1>2

LEMMA TypeGateLogoutDone ==
    ASSUME TypeOK, GateLogoutDone
    PROVE  TypeOK'
<1> DEFINE m == Head(toGate)
<1>0. toGate' \in Seq(GateMessages) /\ kicked' \in 0..internal_id
      /\ UNCHANGED <<loginVars, internal_id, users, obj, username_map, user_online, clientVars, agentVars, mgrVars>>
  <2>1. 0 \in 0..internal_id /\ kicked \in 0..internal_id
    BY Bounds DEF TypeOK
  <2> QED BY <2>1, FromGateFacts, GateLogoutDoneSends DEF GateLogoutDone
<1>1. /\ toLogin' \in Seq(LoginMessages) /\ inbox' \in [Agents -> Seq(AgentMessages)]
      /\ \A b \in Agents : inbox'[b] # <<>> => Alive(b)
  <2>1. ASSUME NEW a \in Agents \cup {None}, KickAgent(a)
        PROVE  /\ toLogin' \in Seq(LoginMessages) /\ inbox' \in [Agents -> Seq(AgentMessages)]
               /\ \A b \in Agents : inbox'[b] # <<>> => Alive(b)
    BY <2>1, TypeKickAgent
  <2>2. ASSUME Put(m.agent, [type |-> "logoutDone", caller |-> m.caller, ok |-> TRUE]), UNCHANGED toLogin
        PROVE  /\ toLogin' \in Seq(LoginMessages) /\ inbox' \in [Agents -> Seq(AgentMessages)]
               /\ \A b \in Agents : inbox'[b] # <<>> => Alive(b)
    <3>1. [type |-> "logoutDone", caller |-> m.caller, ok |-> TRUE] \in AgentMessages
      BY LogoutDoneToAgent, GateLogoutDoneSends
    <3> QED BY <2>2, <3>1, PutFacts DEF TypeOK
  <2> QED BY <2>1, <2>2, GateLogoutDoneSends
<1> QED BY <1>0, <1>1 DEF TypeOK, Alive, loginVars, clientVars, agentVars, mgrVars

----------------------------------------------------------------------------
(* do_auth: what its ends and its waits do to a connection *)

LEMMA AuthOver ==
    [NoAuth EXCEPT !.at = "over"] = [at |-> "over", subid |-> 0, obj |-> 0, agent |-> None]
BY DEF NoAuth

LEMMA RefuseFacts ==
    ASSUME TypeOK, NEW f \in Fds, Refuse(f)
    PROVE  /\ sock' \in [Fds -> {"none", "open", "closing", "closed"}]
           /\ auth' \in [Fds -> [at : {"none", "getAgent", "login", "over"}, subid : 0..internal_id,
                                 obj : 0..internal_id, agent : Agents \cup {None}]]
           /\ UNCHANGED <<fdOf, connection>>
           /\ auth'[f].at = "over" /\ auth'[f].agent = None /\ sock'[f] # "none"
           /\ \A g \in Fds : g # f => auth'[g] = auth[g] /\ sock'[g] = sock[g]
<1>1. 0 \in 0..internal_id /\ None \in Agents \cup {None}
  BY Bounds
<1>2. /\ auth \in [Fds -> [at : {"none", "getAgent", "login", "over"}, subid : 0..internal_id,
                           obj : 0..internal_id, agent : Agents \cup {None}]]
      /\ sock \in [Fds -> {"none", "open", "closing", "closed"}]
  BY DEF TypeOK
<1>3. /\ auth' = [auth EXCEPT ![f] = [at |-> "over", subid |-> 0, obj |-> 0, agent |-> None]]
      /\ sock' = [sock EXCEPT ![f] = IF @ = "closed" THEN @ ELSE "closing"]
      /\ UNCHANGED <<fdOf, connection>>
  BY AuthOver DEF Refuse
<1> QED BY <1>1, <1>2, <1>3

LEMMA EstablishFacts ==
    ASSUME TypeOK, NEW f \in Fds, NEW s \in 1..internal_id, Establish(f, s)
    PROVE  /\ sock' \in [Fds -> {"none", "open", "closing", "closed"}]
           /\ auth' \in [Fds -> [at : {"none", "getAgent", "login", "over"}, subid : 0..internal_id,
                                 obj : 0..internal_id, agent : Agents \cup {None}]]
           /\ fdOf' \in [Subids -> {0} \cup Fds] /\ connection' \in [Fds -> 0..internal_id]
           /\ auth'[f].at = "over" /\ auth'[f].agent = None /\ sock'[f] # "none"
           /\ \A g \in Fds : g # f => auth'[g] = auth[g] /\ sock'[g] = sock[g]
<1>1. 0 \in 0..internal_id /\ None \in Agents \cup {None} /\ s \in 0..internal_id
  BY Bounds
<1>2. /\ auth \in [Fds -> [at : {"none", "getAgent", "login", "over"}, subid : 0..internal_id,
                           obj : 0..internal_id, agent : Agents \cup {None}]]
      /\ sock \in [Fds -> {"none", "open", "closing", "closed"}]
      /\ fdOf \in [Subids -> {0} \cup Fds] /\ connection \in [Fds -> 0..internal_id]
  BY DEF TypeOK
<1>3. /\ auth' = [auth EXCEPT ![f] = [at |-> "over", subid |-> 0, obj |-> 0, agent |-> None]]
      /\ sock' = [sock EXCEPT ![f] = IF @ = "none" THEN "open" ELSE @]
      /\ fdOf' = [fdOf EXCEPT ![s] = f] /\ connection' = [connection EXCEPT ![f] = s]
  BY AuthOver DEF Establish
<1>4. fdOf' \in [Subids -> {0} \cup Fds] /\ connection' \in [Fds -> 0..internal_id]
  BY <1>1, <1>2, <1>3
<1> QED BY <1>1, <1>2, <1>3, <1>4

LEMMA AwaitFacts ==
    ASSUME TypeOK, NEW f \in Fds, NEW l \in {"getAgent", "login"}, NEW s \in 0..internal_id,
           NEW o \in 0..internal_id, NEW a \in Agents \cup {None}, Await(f, l, s, o, a)
    PROVE  /\ sock' \in [Fds -> {"none", "open", "closing", "closed"}]
           /\ auth' \in [Fds -> [at : {"none", "getAgent", "login", "over"}, subid : 0..internal_id,
                                 obj : 0..internal_id, agent : Agents \cup {None}]]
           /\ UNCHANGED <<fdOf, connection>>
           /\ auth'[f] = [at |-> l, subid |-> s, obj |-> o, agent |-> a] /\ sock'[f] # "none"
           /\ \A g \in Fds : g # f => auth'[g] = auth[g] /\ sock'[g] = sock[g]
<1>2. /\ auth \in [Fds -> [at : {"none", "getAgent", "login", "over"}, subid : 0..internal_id,
                           obj : 0..internal_id, agent : Agents \cup {None}]]
      /\ sock \in [Fds -> {"none", "open", "closing", "closed"}]
  BY DEF TypeOK
<1>3. /\ auth' = [auth EXCEPT ![f] = [at |-> l, subid |-> s, obj |-> o, agent |-> a]]
      /\ sock' = [sock EXCEPT ![f] = IF @ = "none" THEN "open" ELSE @]
      /\ UNCHANGED <<fdOf, connection>>
  BY DEF Await
<1> QED BY <1>2, <1>3

LEMMA AppendFacts ==
    ASSUME TypeOK, NEW a \in Agents, NEW m \in AgentMessages, inbox' = [inbox EXCEPT ![a] = Append(@, m)]
    PROVE  /\ inbox' \in [Agents -> Seq(AgentMessages)]
           /\ \A b \in Agents : b # a => inbox'[b] = inbox[b]
           /\ inbox'[a] = Append(inbox[a], m)
           /\ Range(inbox'[a]) = Range(inbox[a]) \cup {m}
           /\ \A b \in Agents : \A S :
                 Count(inbox'[b], S) = Count(inbox[b], S) + (IF b = a /\ m \in S THEN 1 ELSE 0)
<1>1. inbox \in [Agents -> Seq(AgentMessages)]
  BY DEF TypeOK
<1>2. inbox[a] \in Seq(AgentMessages) /\ inbox'[a] = Append(inbox[a], m)
  BY <1>1
<1>3. inbox'[a] \in Seq(AgentMessages) /\ Range(inbox'[a]) = Range(inbox[a]) \cup {m}
  BY <1>2, AppendRange
<1>4. \A b \in Agents : b # a => inbox'[b] = inbox[b]
  BY <1>1
<1>5. inbox' \in [Agents -> Seq(AgentMessages)]
  BY <1>1, <1>3
<1>6. ASSUME NEW b \in Agents, NEW S
      PROVE  Count(inbox'[b], S) = Count(inbox[b], S) + (IF b = a /\ m \in S THEN 1 ELSE 0)
  <2>1. CASE b = a
    BY <1>2, <2>1, CountAppend
  <2>2. CASE b # a
    <3>1. inbox'[b] = inbox[b] /\ Count(inbox[b], S) \in Nat
      BY <1>1, <1>4, <2>2, CountNat
    <3> QED BY <2>2, <3>1
  <2> QED BY <2>1, <2>2
<1> QED BY <1>2, <1>3, <1>4, <1>5, <1>6

\* The object that gets an agent, and whether the agent is called.
Called(f, s, o, a) ==
    /\ obj' \in [Subids -> [subid : 0..internal_id, agent : Agents \cup {None}, islogout : BOOLEAN]]
    /\ obj'[o].agent = a /\ obj'[o].islogout = FALSE /\ obj'[o].subid = obj[o].subid
    /\ \A p \in Subids : p # o => obj'[p] = obj[p]
    /\ sock' \in [Fds -> {"none", "open", "closing", "closed"}]
    /\ auth' \in [Fds -> [at : {"none", "getAgent", "login", "over"}, subid : 0..internal_id,
                          obj : 0..internal_id, agent : Agents \cup {None}]]
    /\ UNCHANGED <<fdOf, connection>> /\ sock'[f] # "none"
    /\ \A g \in Fds : g # f => auth'[g] = auth[g] /\ sock'[g] = sock[g]
    /\ inbox' \in [Agents -> Seq(AgentMessages)]
    /\ \A b \in Agents : b # a => inbox'[b] = inbox[b]
    /\ IF agent[a].life # "dead"
       THEN /\ auth'[f] = [at |-> "login", subid |-> s, obj |-> o, agent |-> a]
            /\ [type |-> "login", fd |-> f, subid |-> obj[o].subid] \in AgentMessages
            /\ obj[o].subid \in 0..internal_id
            /\ inbox' = [inbox EXCEPT ![a] = Append(@, [type |-> "login", fd |-> f, subid |-> obj[o].subid])]
       ELSE auth'[f].at = "over" /\ auth'[f].agent = None /\ inbox' = inbox

LEMMA CallLoginFacts ==
    ASSUME TypeOK, NEW f \in Fds, NEW s \in 1..internal_id, NEW o \in 1..internal_id, NEW a \in Agents,
           CallLogin(f, s, o, a)
    PROVE  Called(f, s, o, a)
<1> USE DEF Called
<1>1. o \in Subids /\ o \in 0..internal_id /\ s \in 0..internal_id
  BY Bounds
<1>2. /\ obj' \in [Subids -> [subid : 0..internal_id, agent : Agents \cup {None}, islogout : BOOLEAN]]
      /\ obj'[o].agent = a /\ obj'[o].islogout = FALSE /\ obj'[o].subid = obj[o].subid
      /\ \A p \in Subids : p # o => obj'[p] = obj[p]
  <2>1. /\ obj' = [obj EXCEPT ![o].agent = a, ![o].islogout = FALSE]
        /\ obj \in [Subids -> [subid : 0..internal_id, agent : Agents \cup {None}, islogout : BOOLEAN]]
    BY DEF CallLogin, TypeOK
  <2> QED BY <1>1, <2>1
<1>3. CASE agent[a].life # "dead"
  <2> DEFINE m == [type |-> "login", fd |-> f, subid |-> obj[o].subid]
  <2>1. inbox' = [inbox EXCEPT ![a] = Append(@, m)] /\ Await(f, "login", s, o, a)
    BY <1>3 DEF CallLogin
  <2>2. obj[o].subid \in 0..internal_id
    BY <1>1 DEF TypeOK
  <2>3. m \in AgentMessages
    BY <2>2, LoginToAgent, Bounds
  <2> HIDE DEF m
  <2>4. /\ inbox' \in [Agents -> Seq(AgentMessages)]
        /\ \A b \in Agents : b # a => inbox'[b] = inbox[b]
    BY <2>1, <2>3, AppendFacts
  <2>5. /\ sock' \in [Fds -> {"none", "open", "closing", "closed"}]
        /\ auth' \in [Fds -> [at : {"none", "getAgent", "login", "over"}, subid : 0..internal_id,
                              obj : 0..internal_id, agent : Agents \cup {None}]]
        /\ UNCHANGED <<fdOf, connection>> /\ sock'[f] # "none"
        /\ \A g \in Fds : g # f => auth'[g] = auth[g] /\ sock'[g] = sock[g]
        /\ auth'[f] = [at |-> "login", subid |-> s, obj |-> o, agent |-> a]
    BY <1>1, <2>1, AwaitFacts
  <2> QED BY <1>2, <1>3, <2>1, <2>2, <2>3, <2>4, <2>5 DEF m
<1>4. CASE agent[a].life = "dead"
  <2>1. Refuse(f) /\ inbox' = inbox
    BY <1>4 DEF CallLogin
  <2>2. /\ sock' \in [Fds -> {"none", "open", "closing", "closed"}]
        /\ auth' \in [Fds -> [at : {"none", "getAgent", "login", "over"}, subid : 0..internal_id,
                              obj : 0..internal_id, agent : Agents \cup {None}]]
        /\ UNCHANGED <<fdOf, connection>> /\ sock'[f] # "none"
        /\ \A g \in Fds : g # f => auth'[g] = auth[g] /\ sock'[g] = sock[g]
        /\ auth'[f].at = "over" /\ auth'[f].agent = None
    BY <2>1, RefuseFacts
  <2>3. inbox' \in [Agents -> Seq(AgentMessages)]
    BY <2>1 DEF TypeOK
  <2> QED BY <1>2, <1>4, <2>1, <2>2, <2>3
<1> QED BY <1>3, <1>4

\* The four ways a handshake can go.
LEMMA HandshakeCases ==
    ASSUME TypeOK, TablesInv, HandlersInv, NEW f \in Fds, NEW s \in Subids, NEW index, Handshake(f, s, index)
    PROVE  LET o == username_map[s]
               a == obj[o].agent
           IN  /\ sock[f] = "none" /\ auth[f].at = "none" /\ s \in 1..internal_id
               /\ UNCHANGED <<loginVars, internal_id, users, username_map, user_online, kicked, agentVars,
                              mgrVars, toLogin, toGate>>
               /\ \/ Refuse(f) /\ UNCHANGED <<obj, inbox>>
                  \/ o \in 1..internal_id /\ Await(f, "getAgent", s, o, None) /\ UNCHANGED <<obj, inbox>>
                  \/ /\ o \in 1..internal_id /\ a \in Agents /\ agent[a].life # "unborn" /\ obj[o].islogout
                     /\ CallLogin(f, s, o, a)
                  \/ /\ o \in 1..internal_id /\ a \in Agents /\ Put(a, [type |-> "reconnect"])
                     /\ Establish(f, s) /\ UNCHANGED obj
<1> DEFINE o == username_map[s]
           a == obj[o].agent
<1>1. sock[f] = "none" /\ auth[f].at = "none" /\ s \in 1..internal_id
  BY DEF Handshake, Told, HandlersInv
<1>2. UNCHANGED <<loginVars, internal_id, users, username_map, user_online, kicked, agentVars,
                  mgrVars, toLogin, toGate>>
  BY DEF Handshake
<1>3. CASE s \notin user_online \/ index = "expired"
  BY <1>1, <1>2, <1>3 DEF Handshake
<1>4. CASE ~(s \notin user_online \/ index = "expired")
  <2>1. o \in 1..internal_id /\ o \in Subids
    <3>1. o # 0
      BY <1>4 DEF TablesInv
    <3>2. o \in 0..internal_id
      BY DEF TypeOK
    <3> QED BY <3>1, <3>2, Bounds
  <2>2. a \in Agents \cup {None} /\ (a # None => agent[a].life # "unborn")
    BY <2>1 DEF TypeOK, TablesInv
  <2>3. CASE a = None
    BY <1>1, <1>2, <1>4, <2>1, <2>3 DEF Handshake
  <2>4. CASE a # None /\ obj[o].islogout
    BY <1>1, <1>2, <1>4, <2>1, <2>2, <2>4 DEF Handshake
  <2>5. CASE a # None /\ ~obj[o].islogout
    <3>1. Send(a, [type |-> "reconnect"]) /\ Establish(f, s) /\ UNCHANGED obj
      BY <1>4, <2>5 DEF Handshake
    <3>2. Put(a, [type |-> "reconnect"])
      BY <2>2, <3>1, SendPuts
    <3> QED BY <1>1, <1>2, <2>1, <2>2, <2>5, <3>1, <3>2
  <2> QED BY <2>3, <2>4, <2>5
<1> QED BY <1>3, <1>4

LEMMA TypeHandshake ==
    ASSUME TypeOK, TablesInv, HandlersInv, NEW f \in Fds, NEW s \in Subids, NEW index, Handshake(f, s, index)
    PROVE  TypeOK'
<1> DEFINE o == username_map[s]
           a == obj[o].agent
<1>0. s \in 1..internal_id /\ s \in 0..internal_id
      /\ UNCHANGED <<loginVars, internal_id, users, username_map, user_online, kicked, agentVars,
                     mgrVars, toLogin, toGate>>
  BY HandshakeCases, Bounds
<1>1. CASE Refuse(f) /\ UNCHANGED <<obj, inbox>>
  <2>1. /\ sock' \in [Fds -> {"none", "open", "closing", "closed"}] /\ UNCHANGED <<fdOf, connection>>
        /\ auth' \in [Fds -> [at : {"none", "getAgent", "login", "over"}, subid : 0..internal_id,
                              obj : 0..internal_id, agent : Agents \cup {None}]]
    BY <1>1, RefuseFacts
  <2> QED BY <1>0, <1>1, <2>1 DEF TypeOK, Alive, loginVars, agentVars, mgrVars
<1>2. CASE o \in 1..internal_id /\ Await(f, "getAgent", s, o, None) /\ UNCHANGED <<obj, inbox>>
  <2>1. /\ sock' \in [Fds -> {"none", "open", "closing", "closed"}] /\ UNCHANGED <<fdOf, connection>>
        /\ auth' \in [Fds -> [at : {"none", "getAgent", "login", "over"}, subid : 0..internal_id,
                              obj : 0..internal_id, agent : Agents \cup {None}]]
    <3>1. o \in 0..internal_id /\ None \in Agents \cup {None}
      BY <1>2, Bounds
    <3> QED BY <1>0, <1>2, <3>1, AwaitFacts
  <2> QED BY <1>0, <1>2, <2>1 DEF TypeOK, Alive, loginVars, agentVars, mgrVars
<1>3. CASE /\ o \in 1..internal_id /\ a \in Agents /\ agent[a].life # "unborn" /\ obj[o].islogout
           /\ CallLogin(f, s, o, a)
  <2> HIDE DEF o, a
  <2>1. /\ obj' \in [Subids -> [subid : 0..internal_id, agent : Agents \cup {None}, islogout : BOOLEAN]]
        /\ sock' \in [Fds -> {"none", "open", "closing", "closed"}]
        /\ auth' \in [Fds -> [at : {"none", "getAgent", "login", "over"}, subid : 0..internal_id,
                              obj : 0..internal_id, agent : Agents \cup {None}]]
        /\ UNCHANGED <<fdOf, connection>>
        /\ inbox' \in [Agents -> Seq(AgentMessages)]
        /\ \A b \in Agents : b # a => inbox'[b] = inbox[b]
        /\ agent[a].life # "dead" \/ inbox' = inbox
    <3>1. Called(f, s, o, a)
      BY <1>0, <1>3, CallLoginFacts, Zenon
    <3> QED BY <3>1 DEF Called
  <2>2. \A b \in Agents : inbox'[b] # <<>> => Alive(b)
    <3>1. ASSUME NEW b \in Agents, inbox'[b] # <<>> PROVE Alive(b)
      <4>1. CASE inbox'[b] = inbox[b]
        BY <3>1, <4>1 DEF TypeOK
      <4>2. CASE b = a /\ agent[a].life # "dead"
        BY <1>3, <4>2 DEF TypeOK, Alive
      <4> QED BY <2>1, <4>1, <4>2
    <3> QED BY <3>1
  <2> QED BY <1>0, <2>1, <2>2 DEF TypeOK, Alive, loginVars, agentVars, mgrVars
<1>4. CASE /\ o \in 1..internal_id /\ a \in Agents /\ Put(a, [type |-> "reconnect"])
           /\ Establish(f, s) /\ UNCHANGED obj
  <2>1. /\ sock' \in [Fds -> {"none", "open", "closing", "closed"}]
        /\ auth' \in [Fds -> [at : {"none", "getAgent", "login", "over"}, subid : 0..internal_id,
                              obj : 0..internal_id, agent : Agents \cup {None}]]
        /\ fdOf' \in [Subids -> {0} \cup Fds] /\ connection' \in [Fds -> 0..internal_id]
    BY <1>0, <1>4, EstablishFacts
  <2>2. [type |-> "reconnect"] \in AgentMessages
    BY PlainToAgent
  <2>3. inbox' \in [Agents -> Seq(AgentMessages)] /\ \A b \in Agents : inbox'[b] # <<>> => Alive(b)
    BY <1>4, <2>2, PutFacts DEF TypeOK
  <2> QED BY <1>0, <1>4, <2>1, <2>3 DEF TypeOK, Alive, loginVars, agentVars, mgrVars
<1> QED BY <1>1, <1>2, <1>3, <1>4, HandshakeCases

LEMMA TypeGotAgent ==
    ASSUME TypeOK, HandlersInv, NEW f \in Fds, NEW a \in Agents, GotAgent(f, a)
    PROVE  TypeOK'
<1> DEFINE s == auth[f].subid
           o == auth[f].obj
<1>1. /\ auth[f].at = "getAgent" /\ agent[a].life = "unborn" /\ CallLogin(f, s, o, a)
      /\ agent' = [agent EXCEPT ![a].life = "alive"]
      /\ UNCHANGED <<loginVars, internal_id, users, username_map, user_online, kicked, login,
                     logout, mgrVars, toLogin, toGate>>
  BY DEF GotAgent
<1>2. s \in 1..internal_id /\ o \in 1..internal_id
  <2>1. s # 0 /\ o # 0
    BY <1>1 DEF HandlersInv
  <2>2. s \in 0..internal_id /\ o \in 0..internal_id
    BY DEF TypeOK
  <2> QED BY <2>1, <2>2, Bounds
<1> HIDE DEF s, o
<1>3. /\ obj' \in [Subids -> [subid : 0..internal_id, agent : Agents \cup {None}, islogout : BOOLEAN]]
      /\ sock' \in [Fds -> {"none", "open", "closing", "closed"}]
      /\ auth' \in [Fds -> [at : {"none", "getAgent", "login", "over"}, subid : 0..internal_id,
                            obj : 0..internal_id, agent : Agents \cup {None}]]
      /\ UNCHANGED <<fdOf, connection>>
      /\ inbox' \in [Agents -> Seq(AgentMessages)]
      /\ \A b \in Agents : b # a => inbox'[b] = inbox[b]
  <2>1. Called(f, s, o, a)
    BY <1>1, <1>2, CallLoginFacts, Zenon
  <2> QED BY <2>1 DEF Called
<1>4. /\ agent' \in [Agents -> [life : {"unborn", "alive", "dead"}, isLogin : BOOLEAN,
                                online : {"unknown", "on", "off"}, subid : 0..internal_id, beat : BOOLEAN]]
      /\ agent'[a].life = "alive" /\ \A b \in Agents : b # a => agent'[b] = agent[b]
  <2>1. agent \in [Agents -> [life : {"unborn", "alive", "dead"}, isLogin : BOOLEAN,
                              online : {"unknown", "on", "off"}, subid : 0..internal_id, beat : BOOLEAN]]
    BY DEF TypeOK
  <2> QED BY <1>1, <2>1
<1>5. \A b \in Agents : inbox'[b] # <<>> => Alive(b)'
  BY <1>3, <1>4 DEF TypeOK, Alive
<1> QED BY <1>1, <1>3, <1>4, <1>5 DEF TypeOK, loginVars, mgrVars

LEMMA TypeLoginReply ==
    ASSUME TypeOK, HandlersInv, AuthInv, LoginReply
    PROVE  TypeOK'
<1> DEFINE m == Head(toGate)
<1>1. /\ toGate' \in Seq(GateMessages) /\ m.fd \in Fds /\ m \in Range(toGate) /\ m \in LoginAtGate(m.fd)
      /\ m.ok \in BOOLEAN
  BY FromGateFacts, GateRead DEF LoginReply
<1>2. auth[m.fd].at = "login"
  BY <1>1, CountsAreRanges DEF AuthInv
<1>3. auth[m.fd].subid \in 1..internal_id
  <2>1. auth[m.fd].subid # 0
    BY <1>1, <1>2 DEF HandlersInv
  <2>2. auth[m.fd].subid \in 0..internal_id
    BY <1>1 DEF TypeOK
  <2> QED BY <2>1, <2>2, Bounds
<1>4. /\ sock' \in [Fds -> {"none", "open", "closing", "closed"}]
      /\ auth' \in [Fds -> [at : {"none", "getAgent", "login", "over"}, subid : 0..internal_id,
                            obj : 0..internal_id, agent : Agents \cup {None}]]
      /\ fdOf' \in [Subids -> {0} \cup Fds] /\ connection' \in [Fds -> 0..internal_id]
  <2>1. CASE m.ok
    BY <1>1, <1>3, <2>1, EstablishFacts DEF LoginReply
  <2>2. CASE ~m.ok
    BY <1>1, <2>2, RefuseFacts DEF LoginReply, TypeOK
  <2> QED BY <2>1, <2>2
<1> QED BY <1>1, <1>4 DEF TypeOK, LoginReply, Alive, loginVars, tableVars, agentVars, mgrVars

LEMMA TypeDisconnect ==
    ASSUME TypeOK, NEW f \in Fds, Disconnect(f)
    PROVE  TypeOK' /\ (UNCHANGED inbox \/ \E a \in Agents \cup {None} : Put(a, [type |-> "afk"]))
<1> DEFINE s == connection[f]
<1>1. /\ sock' = [sock EXCEPT ![f] = "closed"] /\ connection' = [connection EXCEPT ![f] = 0]
      /\ fdOf' = IF s = 0 THEN fdOf ELSE [fdOf EXCEPT ![s] = 0]
      /\ UNCHANGED <<loginVars, tableVars, auth, agentVars, mgrVars, toLogin, toGate>>
  BY DEF Disconnect
<1>2. UNCHANGED inbox \/ \E a \in Agents \cup {None} : Put(a, [type |-> "afk"])
  <2>1. CASE s # 0 /\ username_map[s] # 0
    <3>1. Send(obj[username_map[s]].agent, [type |-> "afk"])
      BY <2>1 DEF Disconnect
    <3>2. obj[username_map[s]].agent \in Agents \cup {None}
      <4>1. s \in Subids
        BY <2>1, Bounds DEF TypeOK
      <4>2. username_map[s] \in Subids
        BY <2>1, <4>1, Bounds DEF TypeOK
      <4> QED BY <4>2 DEF TypeOK
    <3> QED BY <3>1, <3>2, SendPuts
  <2>2. CASE ~(s # 0 /\ username_map[s] # 0)
    BY <2>2 DEF Disconnect
  <2> QED BY <2>1, <2>2
<1>3. inbox' \in [Agents -> Seq(AgentMessages)] /\ \A b \in Agents : inbox'[b] # <<>> => Alive(b)
  <2>1. CASE UNCHANGED inbox
    BY <2>1 DEF TypeOK
  <2>2. ASSUME NEW a \in Agents \cup {None}, Put(a, [type |-> "afk"])
        PROVE  inbox' \in [Agents -> Seq(AgentMessages)] /\ \A b \in Agents : inbox'[b] # <<>> => Alive(b)
    <3>1. [type |-> "afk"] \in AgentMessages
      BY PlainToAgent
    <3> QED BY <2>2, <3>1, PutFacts DEF TypeOK
  <2> QED BY <1>2, <2>1, <2>2
<1>4. /\ sock' \in [Fds -> {"none", "open", "closing", "closed"}]
      /\ fdOf' \in [Subids -> {0} \cup Fds] /\ connection' \in [Fds -> 0..internal_id]
  <2>1. 0 \in 0..internal_id
    BY Bounds
  <2> QED BY <1>1, <2>1 DEF TypeOK
<1> QED BY <1>1, <1>2, <1>3, <1>4 DEF TypeOK, Alive, loginVars, tableVars, agentVars, mgrVars

LEMMA TypeRequestLogout ==
    ASSUME TypeOK, NEW f \in Fds, NEW a \in Agents, RequestLogout(f, a)
    PROVE  TypeOK' /\ Put(a, [type |-> "request"])
<1>1. Send(a, [type |-> "request"]) /\ logout' = [logout EXCEPT ![ByClient] = [at |-> "asked", agent |-> a]]
  BY DEF RequestLogout
<1>2. Put(a, [type |-> "request"])
  BY <1>1, SendPuts
<1>3. [type |-> "request"] \in AgentMessages
  BY PlainToAgent
<1>4. inbox' \in [Agents -> Seq(AgentMessages)] /\ \A b \in Agents : inbox'[b] # <<>> => Alive(b)
  BY <1>2, <1>3, PutFacts DEF TypeOK
<1>5. logout' \in [Callers -> [at : {"none", "asked", "offline", "gate"}, agent : Agents \cup {None}]]
  BY <1>1 DEF TypeOK
<1> QED BY <1>2, <1>4, <1>5 DEF TypeOK, RequestLogout, Alive, loginVars, tableVars, clientVars, mgrVars

LEMMA TypeGateLogout ==
    ASSUME TypeOK, GateLogout
    PROVE  TypeOK'
<1> DEFINE m == Head(toGate)
<1>0. /\ toGate' \in Seq(GateMessages) /\ m.caller \in Callers /\ m.agent \in Agents
      /\ UNCHANGED <<loginVars, agentVars, mgrVars>>
  BY FromGateFacts, GateRead DEF GateLogout
<1>1. CASE users # 0 /\ obj[users].subid # m.subid
  <2>1. /\ Send(m.agent, [type |-> "logoutDone", caller |-> m.caller, ok |-> FALSE])
        /\ UNCHANGED <<toLogin, tableVars, clientVars>>
    BY <1>1 DEF GateLogout
  <2>2. Put(m.agent, [type |-> "logoutDone", caller |-> m.caller, ok |-> FALSE])
    BY <1>0, <2>1, SendPuts
  <2>3. [type |-> "logoutDone", caller |-> m.caller, ok |-> FALSE] \in AgentMessages
    BY <1>0, LogoutDoneToAgent
  <2>4. inbox' \in [Agents -> Seq(AgentMessages)] /\ \A b \in Agents : inbox'[b] # <<>> => Alive(b)
    BY <2>2, <2>3, PutFacts DEF TypeOK
  <2> QED BY <1>0, <2>1, <2>4 DEF TypeOK, Alive, tableVars, loginVars, clientVars, agentVars, mgrVars
<1>2. CASE ~(users # 0 /\ obj[users].subid # m.subid)
  <2>1. /\ ToLogin([type |-> "logout", caller |-> m.caller, agent |-> m.agent]) /\ UNCHANGED inbox
        /\ IF users = 0 THEN UNCHANGED <<tableVars, clientVars>> ELSE LogoutHere(m.subid) /\ UNCHANGED kicked
    BY <1>2 DEF GateLogout
  <2>2. toLogin' \in Seq(LoginMessages)
    BY <1>0, <2>1, ToLoginFacts, LogoutToLogin
  <2>3. CASE users = 0
    BY <1>0, <2>1, <2>2, <2>3 DEF TypeOK, Alive, tableVars, loginVars, clientVars, agentVars, mgrVars
  <2>4. CASE users # 0
    <3>1. LogoutHere(m.subid) /\ UNCHANGED kicked
      BY <2>1, <2>4
    <3>2. /\ user_online' \subseteq 1..internal_id
          /\ sock' \in [Fds -> {"none", "open", "closing", "closed"}]
          /\ connection' \in [Fds -> 0..internal_id]
          /\ obj' \in [Subids -> [subid : 0..internal_id, agent : Agents \cup {None}, islogout : BOOLEAN]]
          /\ username_map' \in [Subids -> 0..internal_id]
          /\ UNCHANGED <<internal_id, users, fdOf, auth>>
      BY <2>4, <3>1, TypeLogoutHere
    <3> QED BY <1>0, <2>1, <2>2, <3>1, <3>2 DEF TypeOK, Alive, loginVars, agentVars, mgrVars
  <2> QED BY <2>3, <2>4
<1> QED BY <1>1, <1>2

LEMMA TypeGateKicked ==
    ASSUME TypeOK, GateKicked
    PROVE  TypeOK'
<1>1. toGate' \in Seq(GateMessages)
  BY FromGateFacts DEF GateKicked
<1>2. toLogin' \in Seq(LoginMessages)
  BY ToLoginFacts, KickedToLogin DEF GateKicked
<1> QED BY <1>1, <1>2 DEF TypeOK, GateKicked, Alive, tableVars, loginVars, clientVars, agentVars, mgrVars

LEMMA TypeAgentExit ==
    ASSUME TypeOK, AgentExit
    PROVE  TypeOK'
<1>1. toGate' \in Seq(GateMessages)
  BY FromGateFacts DEF AgentExit
<1>2. users' \in 0..internal_id
  BY Bounds DEF AgentExit, TypeOK
<1> QED BY <1>1, <1>2 DEF TypeOK, AgentExit, Alive, loginVars, clientVars, agentVars, mgrVars

----------------------------------------------------------------------------
(* The agent *)

AgentType == [life : {"unborn", "alive", "dead"}, isLogin : BOOLEAN,
              online : {"unknown", "on", "off"}, subid : 0..internal_id, beat : BOOLEAN]

\* LoginStart(a): the subid, and where the login is.
Started(a) ==
    LET m == Head(inbox[a]) IN
    /\ Took(a) /\ m \in AgentMessages /\ m.type = "login" /\ m.fd \in Fds /\ m.subid \in 0..internal_id
    /\ m \in Range(inbox[a]) /\ Alive(a)
    /\ agent' \in [Agents -> AgentType] /\ login' \in [Fds -> {"none", "shutdown", "db"}]
    /\ agent'[a].subid = m.subid /\ agent'[a].life = agent[a].life /\ agent'[a].beat = agent[a].beat
    /\ \A b \in Agents : b # a => agent'[b] = agent[b]
    /\ login'[m.fd] = "shutdown" /\ \A g \in Fds : g # m.fd => login'[g] = login[g]

LEMMA LoginStartFacts ==
    ASSUME TypeOK, HandlersInv, NEW a \in Agents, LoginStart(a)
    PROVE  Started(a)
<1> DEFINE m == Head(inbox[a])
<1>1. Took(a) /\ m.type = "login"
  BY ReceiveTakes DEF LoginStart, Receive, Next1
<1>2. m \in AgentMessages /\ m \in Range(inbox[a]) /\ Alive(a)
  BY <1>1, TookFacts
<1>3. m.fd \in Fds /\ m.subid \in 0..internal_id
  BY <1>1, <1>2, AgentRead, Bounds DEF HandlersInv
<1>4. /\ agent \in [Agents -> AgentType] /\ login \in [Fds -> {"none", "shutdown", "db"}]
      /\ agent' = [agent EXCEPT ![a].subid = m.subid] /\ login' = [login EXCEPT ![m.fd] = "shutdown"]
  BY DEF LoginStart, TypeOK, AgentType
<1> HIDE DEF m
<1>5. /\ agent' \in [Agents -> AgentType]
      /\ agent'[a].subid = m.subid /\ agent'[a].life = agent[a].life /\ agent'[a].beat = agent[a].beat
      /\ \A b \in Agents : b # a => agent'[b] = agent[b]
  BY <1>3, <1>4 DEF AgentType
<1>6. /\ login' \in [Fds -> {"none", "shutdown", "db"}]
      /\ login'[m.fd] = "shutdown" /\ \A g \in Fds : g # m.fd => login'[g] = login[g]
  BY <1>3, <1>4
<1> QED BY <1>1, <1>2, <1>3, <1>5, <1>6 DEF Started, m

LEMMA TypeLoginStart ==
    ASSUME TypeOK, HandlersInv, NEW a \in Agents, LoginStart(a)
    PROVE  TypeOK'
<1>1. Started(a)
  BY LoginStartFacts
<1>2. /\ agent' \in [Agents -> AgentType] /\ login' \in [Fds -> {"none", "shutdown", "db"}]
      /\ \A b \in Agents : agent'[b].life = agent[b].life
  BY <1>1 DEF Started
<1>3. inbox' \in [Agents -> Seq(AgentMessages)] /\ \A b \in Agents : inbox'[b] # <<>> => inbox[b] # <<>>
  BY <1>1, TookFacts DEF Started
<1>4. \A b \in Agents : inbox'[b] # <<>> => Alive(b)'
  BY <1>2, <1>3 DEF TypeOK, Alive
<1> QED BY <1>2, <1>3, <1>4
    DEF TypeOK, AgentType, LoginStart, tableVars, loginVars, clientVars, mgrVars

\* LoginMarked, LoginEnd and LoginForbidden: how the agent a of connection f changes.
Logged(f, place) ==
    LET a == auth[f].agent IN
    /\ auth[f].at = "login" /\ a \in Agents /\ Alive(a) /\ login[f] # "none"
    /\ agent' \in [Agents -> AgentType] /\ login' \in [Fds -> {"none", "shutdown", "db"}]
    /\ \A b \in Agents : b # a => agent'[b] = agent[b]
    /\ agent'[a].life = agent[a].life /\ agent'[a].subid = agent[a].subid
    /\ agent'[a].beat = (agent[a].beat \/ place = "db")
    /\ login'[f] = place /\ \A g \in Fds : g # f => login'[g] = login[g]

LEMMA LoginPlace ==
    ASSUME TypeOK, HandlersInv, NEW f \in Fds, login[f] # "none"
    PROVE  auth[f].at = "login" /\ auth[f].agent \in Agents /\ Alive(auth[f].agent)
<1>1. auth[f].at = "login" /\ Alive(auth[f].agent) /\ auth[f].agent # None
  BY DEF HandlersInv
<1>2. auth[f].agent \in Agents \cup {None}
  BY DEF TypeOK
<1> QED BY <1>1, <1>2

LEMMA LoginMarkedFacts ==
    ASSUME TypeOK, HandlersInv, NEW f \in Fds, LoginMarked(f)
    PROVE  Logged(f, "db")
<1> DEFINE a == auth[f].agent
<1>1. auth[f].at = "login" /\ a \in Agents /\ Alive(a) /\ login[f] # "none"
  BY LoginPlace DEF LoginMarked
<1>2. /\ agent \in [Agents -> AgentType] /\ login \in [Fds -> {"none", "shutdown", "db"}]
      /\ agent' = [agent EXCEPT ![a].isLogin = TRUE, ![a].beat = TRUE] /\ login' = [login EXCEPT ![f] = "db"]
  BY DEF LoginMarked, TypeOK, AgentType
<1> HIDE DEF a
<1>3. /\ agent' \in [Agents -> AgentType]
      /\ agent'[a].subid = agent[a].subid /\ agent'[a].life = agent[a].life /\ agent'[a].beat = TRUE
      /\ \A b \in Agents : b # a => agent'[b] = agent[b]
  BY <1>1, <1>2 DEF AgentType
<1>4. /\ login' \in [Fds -> {"none", "shutdown", "db"}]
      /\ login'[f] = "db" /\ \A g \in Fds : g # f => login'[g] = login[g]
  BY <1>2
<1> QED BY <1>1, <1>3, <1>4 DEF Logged, a

LEMMA LoginEndFacts ==
    ASSUME TypeOK, HandlersInv, NEW f \in Fds, LoginEnd(f) \/ LoginForbidden(f)
    PROVE  Logged(f, "none")
<1> DEFINE a == auth[f].agent
<1>1. auth[f].at = "login" /\ a \in Agents /\ Alive(a) /\ login[f] # "none"
  BY LoginPlace DEF LoginEnd, LoginForbidden
<1>2. agent \in [Agents -> AgentType] /\ login \in [Fds -> {"none", "shutdown", "db"}]
  BY DEF TypeOK, AgentType
<1>3. /\ login' = [login EXCEPT ![f] = "none"]
      /\ \E x \in {"on", "off", agent[a].online} : agent' = [agent EXCEPT ![a].online = x]
  <2>1. CASE LoginEnd(f)
    BY <2>1 DEF LoginEnd
  <2>2. CASE LoginForbidden(f)
    <3>1. agent' = [agent EXCEPT ![a].online = IF agent[a].online = "unknown" THEN "off" ELSE agent[a].online]
      BY <2>2 DEF LoginForbidden
    <3> QED BY <2>2, <3>1 DEF LoginForbidden
  <2> QED BY <2>1, <2>2
<1> HIDE DEF a
<1>4. PICK x \in {"on", "off", agent[a].online} : agent' = [agent EXCEPT ![a].online = x]
  BY <1>3
<1>5. /\ agent' \in [Agents -> AgentType]
      /\ agent'[a].subid = agent[a].subid /\ agent'[a].life = agent[a].life /\ agent'[a].beat = agent[a].beat
      /\ \A b \in Agents : b # a => agent'[b] = agent[b]
  BY <1>1, <1>2, <1>4 DEF AgentType
<1>6. /\ login' \in [Fds -> {"none", "shutdown", "db"}]
      /\ login'[f] = "none" /\ \A g \in Fds : g # f => login'[g] = login[g]
  BY <1>2, <1>3
<1>7. agent[a].beat \in BOOLEAN
  BY <1>1, <1>2 DEF AgentType
<1> QED BY <1>1, <1>5, <1>6, <1>7 DEF Logged, a

LEMMA TypeLoginMarked ==
    ASSUME TypeOK, HandlersInv, NEW f \in Fds, LoginMarked(f)
    PROVE  TypeOK'
<1>1. /\ agent' \in [Agents -> AgentType] /\ login' \in [Fds -> {"none", "shutdown", "db"}]
      /\ \A b \in Agents : agent'[b].life = agent[b].life
  BY LoginMarkedFacts DEF Logged
<1>2. \A b \in Agents : inbox'[b] # <<>> => Alive(b)'
  BY <1>1 DEF TypeOK, Alive, LoginMarked
<1> QED BY <1>1, <1>2 DEF TypeOK, AgentType, LoginMarked, tableVars, loginVars, clientVars, mgrVars

LEMMA TypeLoginEnd ==
    ASSUME TypeOK, HandlersInv, NEW f \in Fds, LoginEnd(f)
    PROVE  TypeOK' /\ CountNeverShort'
<1>1. /\ agent' \in [Agents -> AgentType] /\ login' \in [Fds -> {"none", "shutdown", "db"}]
      /\ \A b \in Agents : agent'[b].life = agent[b].life
      /\ auth[f].agent \in Agents
  BY LoginEndFacts DEF Logged
<1>2. \A b \in Agents : inbox'[b] # <<>> => Alive(b)'
  BY <1>1 DEF TypeOK, Alive, LoginEnd
<1>3. toGate' \in Seq(GateMessages)
  BY ToGateFacts, LoggedInToGate DEF LoginEnd
<1>4. players' \in Agents \cup {None} /\ onlineNum' \in Nat /\ onlineNum' >= 1
  BY <1>1, SMTT(30) DEF LoginEnd, PlayerLogin, TypeOK
<1>5. CountNeverShort'
  BY <1>4 DEF CountNeverShort
<1> QED BY <1>1, <1>2, <1>3, <1>4, <1>5 DEF TypeOK, AgentType, LoginEnd, tableVars, loginVars, clientVars

LEMMA TypeLoginForbidden ==
    ASSUME TypeOK, HandlersInv, NEW f \in Fds, LoginForbidden(f)
    PROVE  TypeOK'
<1>1. /\ agent' \in [Agents -> AgentType] /\ login' \in [Fds -> {"none", "shutdown", "db"}]
      /\ \A b \in Agents : agent'[b].life = agent[b].life
      /\ auth[f].agent \in Agents
  BY LoginEndFacts DEF Logged
<1>2. \A b \in Agents : inbox'[b] # <<>> => Alive(b)'
  BY <1>1 DEF TypeOK, Alive, LoginForbidden
<1>3. toGate' \in Seq(GateMessages)
  BY ToGateFacts, LoggedInToGate DEF LoginForbidden
<1>4. logout' \in [Callers -> [at : {"none", "asked", "offline", "gate"}, agent : Agents \cup {None}]]
  <2>1. /\ logout \in [Callers -> [at : {"none", "asked", "offline", "gate"}, agent : Agents \cup {None}]]
        /\ logout' = [logout EXCEPT ![Forbid(f)] = [at |-> "asked", agent |-> auth[f].agent]]
    BY DEF TypeOK, LoginForbidden
  <2> QED BY <1>1, <2>1
<1> QED BY <1>1, <1>2, <1>3, <1>4 DEF TypeOK, AgentType, LoginForbidden, tableVars, loginVars, clientVars, mgrVars

\* reconnect and afk change nothing the invariant looks at.
LEMMA SetOnlineFacts ==
    ASSUME TypeOK, NEW a \in Agents, NEW t \in {"reconnect", "afk"}, NEW v \in {"on", "off"}, SetOnline(a, t, v)
    PROVE  /\ Took(a) /\ Head(inbox[a]).type = t
           /\ agent' \in [Agents -> AgentType]
           /\ \A b \in Agents : /\ agent'[b].life = agent[b].life /\ agent'[b].subid = agent[b].subid
                                /\ agent'[b].beat = agent[b].beat
           /\ UNCHANGED <<loginVars, tableVars, clientVars, login, logout, mgrVars, toLogin, toGate>>
<1>1. Took(a) /\ Head(inbox[a]).type = t
  BY ReceiveTakes DEF SetOnline, Receive, Next1
<1>2. /\ agent \in [Agents -> AgentType]
      /\ agent' = [agent EXCEPT ![a].online = IF agent[a].online = "unknown" THEN agent[a].online ELSE v]
  BY DEF SetOnline, TypeOK, AgentType
<1>3. PICK x \in {"on", "off", "unknown"} : agent' = [agent EXCEPT ![a].online = x]
  BY <1>2
<1>4. /\ agent' \in [Agents -> AgentType]
      /\ \A b \in Agents : /\ agent'[b].life = agent[b].life /\ agent'[b].subid = agent[b].subid
                           /\ agent'[b].beat = agent[b].beat
  BY <1>2, <1>3 DEF AgentType
<1> QED BY <1>1, <1>4 DEF SetOnline

LEMMA TypeSetOnline ==
    ASSUME TypeOK, NEW a \in Agents, NEW t \in {"reconnect", "afk"}, NEW v \in {"on", "off"}, SetOnline(a, t, v)
    PROVE  TypeOK'
<1>1. /\ agent' \in [Agents -> AgentType] /\ \A b \in Agents : agent'[b].life = agent[b].life
      /\ UNCHANGED <<loginVars, tableVars, clientVars, login, logout, mgrVars, toLogin, toGate>> /\ Took(a)
  BY SetOnlineFacts
<1>3. inbox' \in [Agents -> Seq(AgentMessages)] /\ \A b \in Agents : inbox'[b] # <<>> => inbox[b] # <<>>
  BY <1>1, TookFacts
<1>4. \A b \in Agents : inbox'[b] # <<>> => Alive(b)'
  BY <1>1, <1>3 DEF TypeOK, Alive
<1> QED BY <1>1, <1>3, <1>4 DEF TypeOK, AgentType, tableVars, loginVars, clientVars, mgrVars

\* _logoutComplete for caller c in agent a: it goes offline or tells the gate,
\* or it raises the error of data that never loaded.
Tells(c, a) ==
    /\ logout'[c] = [at |-> "gate", agent |-> a]
    /\ ToGate([type |-> "logout", caller |-> c, agent |-> a, subid |-> agent[a].subid])
    /\ [type |-> "logout", caller |-> c, agent |-> a, subid |-> agent[a].subid] \in GateMessages
    /\ agent[a].subid \in 0..internal_id

Goes(c, a) ==
    \/ Tells(c, a)
    \/ logout'[c] = [at |-> "offline", agent |-> a] /\ UNCHANGED toGate

Fails(c) ==
    /\ logout'[c].at = "none" /\ logout'[c].agent = None
    /\ IF c = Kick THEN ToGate([type |-> "kicked"]) ELSE UNCHANGED toGate

Completes(c, a) ==
    /\ \A d \in Callers : d # c => logout'[d] = logout[d]
    /\ logout' \in [Callers -> [at : {"none", "asked", "offline", "gate"}, agent : Agents \cup {None}]]
    /\ toGate' \in Seq(GateMessages) /\ players' \in Agents \cup {None} /\ onlineNum' \in Nat
    /\ CountNeverShort'
    /\ Goes(c, a) \/ Fails(c)

LEMMA TellLogoutFacts ==
    ASSUME TypeOK, CountNeverShort, NEW c \in Callers, NEW a \in Agents, TellLogout(c, a)
    PROVE  Completes(c, a) /\ Tells(c, a)
<1>1. /\ logout \in [Callers -> [at : {"none", "asked", "offline", "gate"}, agent : Agents \cup {None}]]
      /\ logout' = [logout EXCEPT ![c] = [at |-> "gate", agent |-> a]]
      /\ ToGate([type |-> "logout", caller |-> c, agent |-> a, subid |-> agent[a].subid])
  BY DEF TypeOK, TellLogout
<1>2. agent[a].subid \in 0..internal_id
  BY DEF TypeOK
<1>3. [type |-> "logout", caller |-> c, agent |-> a, subid |-> agent[a].subid] \in GateMessages
  BY <1>2, LogoutToGate, Bounds
<1>4. toGate' \in Seq(GateMessages)
  BY <1>1, <1>3, ToGateFacts
<1>5. players' \in Agents \cup {None} /\ onlineNum' \in Nat /\ CountNeverShort'
  <2>1. players \in Agents \cup {None} /\ onlineNum \in Nat
    BY DEF TypeOK
  <2>2. CASE UNCHANGED mgrVars
    BY <2>1, <2>2 DEF mgrVars, CountNeverShort
  <2>3. CASE PlayerLogout
    BY <2>1, <2>3 DEF PlayerLogout, CountNeverShort
  <2> QED BY <2>2, <2>3 DEF TellLogout
<1>6. /\ logout' \in [Callers -> [at : {"none", "asked", "offline", "gate"}, agent : Agents \cup {None}]]
      /\ logout'[c] = [at |-> "gate", agent |-> a]
      /\ \A d \in Callers : d # c => logout'[d] = logout[d]
  BY <1>1
<1> QED BY <1>1, <1>2, <1>3, <1>4, <1>5, <1>6 DEF Completes, Goes, Tells

\* How _logoutComplete changes the agent.
Leaves(a, beat) ==
    /\ agent' \in [Agents -> AgentType]
    /\ \A b \in Agents : b # a => agent'[b] = agent[b]
    /\ agent'[a].life = agent[a].life /\ agent'[a].subid = agent[a].subid /\ agent'[a].beat = beat

LEMMA LogoutCompleteFacts ==
    ASSUME TypeOK, CountNeverShort, NEW c \in Callers, NEW a \in Agents, NEW beat \in BOOLEAN,
           LogoutComplete(c, a, beat)
    PROVE  /\ Completes(c, a) /\ Leaves(a, beat)
           /\ agent[a].online # "unknown" => Goes(c, a)
<1>0. agent \in [Agents -> AgentType]
  BY DEF TypeOK, AgentType
<1>1. CASE agent[a].isLogin
  <2>1. /\ agent' = [agent EXCEPT ![a].isLogin = FALSE, ![a].beat = beat,
                                  ![a].online = IF @ = "on" THEN "off" ELSE @]
        /\ \E x \in {NoLogout, [at |-> "offline", agent |-> a]} : logout' = [logout EXCEPT ![c] = x]
        /\ UNCHANGED mgrVars
    BY <1>1 DEF LogoutComplete, FailLogout
  <2>2. Leaves(a, beat)
    <3>1. agent[a].online \in {"unknown", "on", "off"}
      BY <1>0 DEF AgentType
    <3>2. PICK x \in {"unknown", "on", "off"} :
             agent' = [agent EXCEPT ![a].isLogin = FALSE, ![a].beat = beat, ![a].online = x]
      BY <1>0, <2>1, <3>1
    <3> QED BY <1>0, <3>2, ZenonT(60) DEF AgentType, Leaves
  <2>3. logout \in [Callers -> [at : {"none", "asked", "offline", "gate"}, agent : Agents \cup {None}]]
    BY DEF TypeOK
  <2>4. /\ logout' \in [Callers -> [at : {"none", "asked", "offline", "gate"}, agent : Agents \cup {None}]]
        /\ \A d \in Callers : d # c => logout'[d] = logout[d]
    BY <2>1, <2>3 DEF NoLogout
  <2>5. players' \in Agents \cup {None} /\ onlineNum' \in Nat /\ CountNeverShort'
    BY <2>1 DEF TypeOK, mgrVars, CountNeverShort
  <2>6. CASE agent[a].online = "unknown"
    <3>1. logout' = [logout EXCEPT ![c] = NoLogout]
          /\ IF c = Kick THEN ToGate([type |-> "kicked"]) ELSE UNCHANGED toGate
      BY <1>1, <2>6 DEF LogoutComplete, FailLogout
    <3>2. Fails(c)
      BY <2>3, <3>1 DEF Fails, NoLogout
    <3>3. toGate' \in Seq(GateMessages)
      BY <3>1, ToGateFacts, KickedToGate DEF TypeOK
    <3> QED BY <2>2, <2>4, <2>5, <2>6, <3>2, <3>3 DEF Completes
  <2>7. CASE agent[a].online # "unknown"
    <3>1. logout' = [logout EXCEPT ![c] = [at |-> "offline", agent |-> a]] /\ UNCHANGED toGate
      BY <1>1, <2>7 DEF LogoutComplete
    <3>2. Goes(c, a)
      BY <2>3, <3>1 DEF Goes
    <3>3. toGate' \in Seq(GateMessages)
      BY <3>1 DEF TypeOK
    <3> QED BY <2>2, <2>4, <2>5, <3>2, <3>3 DEF Completes
  <2> QED BY <2>6, <2>7
<1>2. CASE ~agent[a].isLogin
  <2>1. TellLogout(c, a) /\ agent' = [agent EXCEPT ![a].beat = beat]
    BY <1>2 DEF LogoutComplete
  <2>2. Leaves(a, beat)
    BY <1>0, <2>1 DEF AgentType, Leaves
  <2> QED BY <2>1, <2>2, TellLogoutFacts DEF Goes
<1> QED BY <1>1, <1>2

\* All that _logoutComplete sends is a logout, or the end of a kick.
LEMMA CompletesGate ==
    ASSUME NEW c, NEW a, Completes(c, a)
    PROVE  UNCHANGED toGate \/ \E m \in GateMessages : m.type \in {"logout", "kicked"} /\ ToGate(m)
<1>1. CASE Tells(c, a)
  <2> DEFINE m == [type |-> "logout", caller |-> c, agent |-> a, subid |-> agent[a].subid]
  <2>1. m \in GateMessages /\ m.type = "logout" /\ ToGate(m)
    BY <1>1 DEF Tells
  <2> HIDE DEF m
  <2> QED BY <2>1
<1>2. CASE Fails(c)
  <2> DEFINE m == [type |-> "kicked"]
  <2>1. m \in GateMessages /\ m.type = "kicked" /\ (UNCHANGED toGate \/ ToGate(m))
    BY <1>2, KickedToGate, Zenon DEF Fails
  <2> HIDE DEF m
  <2> QED BY <2>1
<1> QED BY <1>1, <1>2 DEF Completes, Goes

\* The five ways into _logoutComplete, and on from going offline.
LEMMA LogoutFacts ==
    ASSUME TypeOK, CountNeverShort, NEW a \in Agents, Logout(a)
    PROVE  /\ Took(a) /\ Head(inbox[a]).type = "logout" /\ Completes(Kick, a) /\ Leaves(a, agent[a].beat)
           /\ UNCHANGED <<loginVars, tableVars, clientVars, login, toLogin>>
<1>1. Took(a) /\ Head(inbox[a]).type = "logout"
  BY ReceiveTakes DEF Logout, Receive, Next1
<1>2. agent[a].beat \in BOOLEAN
  BY DEF TypeOK
<1>3. LogoutComplete(Kick, a, agent[a].beat)
  BY DEF Logout
<1> QED BY <1>1, <1>2, <1>3, LogoutCompleteFacts, CallerFacts DEF Logout

LEMMA ClientLogoutFacts ==
    ASSUME TypeOK, CountNeverShort, NEW a \in Agents, ClientLogout(a)
    PROVE  /\ Took(a) /\ Head(inbox[a]).type = "request" /\ Completes(ByClient, a) /\ Leaves(a, agent[a].beat)
           /\ UNCHANGED <<loginVars, tableVars, clientVars, login, toLogin>>
<1>1. Took(a) /\ Head(inbox[a]).type = "request"
  BY ReceiveTakes DEF ClientLogout, Receive, Next1
<1>2. agent[a].beat \in BOOLEAN
  BY DEF TypeOK
<1>3. LogoutComplete(ByClient, a, agent[a].beat)
  BY DEF ClientLogout
<1> QED BY <1>1, <1>2, <1>3, LogoutCompleteFacts, CallerFacts DEF ClientLogout

LEMMA RunsIn ==
    ASSUME TypeOK, HandlersInv, NEW c \in Callers, logout[c].at # "none"
    PROVE  logout[c].agent \in Agents /\ Alive(logout[c].agent)
<1>1. logout[c].agent \in Agents \cup {None}
  BY DEF TypeOK
<1> QED BY <1>1 DEF HandlersInv

LEMMA ForbiddenLogoutFacts ==
    ASSUME TypeOK, CountNeverShort, HandlersInv, NEW f \in Fds, ForbiddenLogout(f)
    PROVE  LET a == logout[Forbid(f)].agent IN
           /\ logout[Forbid(f)].at = "asked" /\ a \in Agents /\ Alive(a)
           /\ Completes(Forbid(f), a) /\ Leaves(a, agent[a].beat)
           /\ UNCHANGED <<loginVars, tableVars, clientVars, login, toLogin, inbox>>
<1> DEFINE a == logout[Forbid(f)].agent
<1>1. logout[Forbid(f)].at = "asked" /\ LogoutComplete(Forbid(f), a, agent[a].beat)
      /\ UNCHANGED <<loginVars, tableVars, clientVars, login, toLogin, inbox>>
  BY DEF ForbiddenLogout
<1>2. a \in Agents /\ Alive(a)
  BY <1>1, RunsIn, CallerFacts
<1> HIDE DEF a
<1>3. agent[a].beat \in BOOLEAN
  BY <1>2 DEF TypeOK
<1>4. Completes(Forbid(f), a) /\ Leaves(a, agent[a].beat)
  BY <1>1, <1>2, <1>3, LogoutCompleteFacts, CallerFacts
<1> QED BY <1>1, <1>2, <1>4 DEF a

LEMMA HeartbeatOutFacts ==
    ASSUME TypeOK, CountNeverShort, NEW a \in Agents, HeartbeatOut(a)
    PROVE  /\ Alive(a) /\ logout[Exit(a)].at = "none" /\ Leaves(a, FALSE)
           /\ Completes(Exit(a), a) /\ Goes(Exit(a), a)
           /\ UNCHANGED <<loginVars, tableVars, clientVars, login, toLogin, inbox>>
<1>1. LogoutComplete(Exit(a), a, FALSE)
  BY DEF HeartbeatOut
<1> QED BY <1>1, LogoutCompleteFacts, CallerFacts DEF HeartbeatOut

LEMMA WentOfflineFacts ==
    ASSUME TypeOK, CountNeverShort, HandlersInv, NEW c \in Callers, WentOffline(c)
    PROVE  LET a == logout[c].agent IN
           /\ logout[c].at = "offline" /\ a \in Agents /\ Alive(a) /\ Completes(c, a) /\ Tells(c, a)
           /\ UNCHANGED <<loginVars, tableVars, clientVars, agent, login, toLogin, inbox>>
<1>1. /\ logout[c].at = "offline" /\ TellLogout(c, logout[c].agent)
      /\ UNCHANGED <<loginVars, tableVars, clientVars, agent, login, toLogin, inbox>>
  BY DEF WentOffline
<1>2. logout[c].agent \in Agents /\ Alive(logout[c].agent)
  BY <1>1, RunsIn
<1> QED BY <1>1, <1>2, TellLogoutFacts

LEMMA TypeCompletes ==
    ASSUME TypeOK, NEW c, NEW a \in Agents, Completes(c, a),
           agent' \in [Agents -> AgentType], \A b \in Agents : agent'[b].life = agent[b].life,
           inbox' \in [Agents -> Seq(AgentMessages)], \A b \in Agents : inbox'[b] # <<>> => inbox[b] # <<>>,
           UNCHANGED <<loginVars, tableVars, clientVars, login, toLogin>>
    PROVE  TypeOK' /\ CountNeverShort'
<1>1. \A b \in Agents : inbox'[b] # <<>> => Alive(b)'
  BY DEF TypeOK, Alive
<1>2. /\ logout' \in [Callers -> [at : {"none", "asked", "offline", "gate"}, agent : Agents \cup {None}]]
      /\ toGate' \in Seq(GateMessages) /\ players' \in Agents \cup {None} /\ onlineNum' \in Nat
      /\ CountNeverShort'
  BY DEF Completes
<1> QED BY <1>1, <1>2 DEF TypeOK, AgentType, tableVars, loginVars, clientVars

LEMMA LeavesLife ==
    ASSUME NEW a \in Agents, NEW beat, Leaves(a, beat)
    PROVE  /\ agent' \in [Agents -> AgentType]
           /\ \A b \in Agents : agent'[b].life = agent[b].life /\ agent'[b].subid = agent[b].subid
BY DEF Leaves

LEMMA TypeLogouts ==
    ASSUME TypeOK, CountNeverShort, HandlersInv,
           \/ \E a \in Agents : Logout(a) \/ ClientLogout(a) \/ HeartbeatOut(a)
           \/ \E f \in Fds : ForbiddenLogout(f)
           \/ \E c \in Callers : WentOffline(c)
    PROVE  TypeOK' /\ CountNeverShort'
<1>0. inbox \in [Agents -> Seq(AgentMessages)] /\ agent \in [Agents -> AgentType]
  BY DEF TypeOK, AgentType
<1>1. ASSUME NEW a \in Agents, Logout(a) PROVE TypeOK' /\ CountNeverShort'
  <2>1. Took(a) /\ Completes(Kick, a) /\ Leaves(a, agent[a].beat)
        /\ UNCHANGED <<loginVars, tableVars, clientVars, login, toLogin>>
    BY <1>1, LogoutFacts
  <2>2. inbox' \in [Agents -> Seq(AgentMessages)] /\ \A b \in Agents : inbox'[b] # <<>> => inbox[b] # <<>>
    BY <2>1, TookFacts
  <2>3. agent' \in [Agents -> AgentType] /\ \A b \in Agents : agent'[b].life = agent[b].life
    BY <2>1, LeavesLife
  <2> QED BY <2>1, <2>2, <2>3, TypeCompletes
<1>2. ASSUME NEW a \in Agents, ClientLogout(a) PROVE TypeOK' /\ CountNeverShort'
  <2>1. Took(a) /\ Completes(ByClient, a) /\ Leaves(a, agent[a].beat)
        /\ UNCHANGED <<loginVars, tableVars, clientVars, login, toLogin>>
    BY <1>2, ClientLogoutFacts
  <2>2. inbox' \in [Agents -> Seq(AgentMessages)] /\ \A b \in Agents : inbox'[b] # <<>> => inbox[b] # <<>>
    BY <2>1, TookFacts
  <2>3. agent' \in [Agents -> AgentType] /\ \A b \in Agents : agent'[b].life = agent[b].life
    BY <2>1, LeavesLife
  <2> QED BY <2>1, <2>2, <2>3, TypeCompletes
<1>3. ASSUME NEW a \in Agents, HeartbeatOut(a) PROVE TypeOK' /\ CountNeverShort'
  <2>1. Completes(Exit(a), a) /\ Leaves(a, FALSE)
        /\ UNCHANGED <<loginVars, tableVars, clientVars, login, toLogin, inbox>>
    BY <1>3, HeartbeatOutFacts
  <2>2. inbox' \in [Agents -> Seq(AgentMessages)] /\ \A b \in Agents : inbox'[b] # <<>> => inbox[b] # <<>>
    BY <1>0, <2>1
  <2>3. agent' \in [Agents -> AgentType] /\ \A b \in Agents : agent'[b].life = agent[b].life
    BY <2>1, LeavesLife
  <2> QED BY <2>1, <2>2, <2>3, TypeCompletes
<1>4. ASSUME NEW f \in Fds, ForbiddenLogout(f) PROVE TypeOK' /\ CountNeverShort'
  <2> DEFINE a == logout[Forbid(f)].agent
  <2>1. a \in Agents /\ Completes(Forbid(f), a) /\ Leaves(a, agent[a].beat)
        /\ UNCHANGED <<loginVars, tableVars, clientVars, login, toLogin, inbox>>
    BY <1>4, ForbiddenLogoutFacts
  <2> HIDE DEF a
  <2>2. inbox' \in [Agents -> Seq(AgentMessages)] /\ \A b \in Agents : inbox'[b] # <<>> => inbox[b] # <<>>
    BY <1>0, <2>1
  <2>3. agent' \in [Agents -> AgentType] /\ \A b \in Agents : agent'[b].life = agent[b].life
    BY <2>1, LeavesLife
  <2> QED BY <2>1, <2>2, <2>3, TypeCompletes
<1>5. ASSUME NEW c \in Callers, WentOffline(c) PROVE TypeOK' /\ CountNeverShort'
  <2> DEFINE a == logout[c].agent
  <2>1. a \in Agents /\ Completes(c, a)
        /\ UNCHANGED <<loginVars, tableVars, clientVars, agent, login, toLogin, inbox>>
    BY <1>5, WentOfflineFacts
  <2> HIDE DEF a
  <2>2. inbox' \in [Agents -> Seq(AgentMessages)] /\ \A b \in Agents : inbox'[b] # <<>> => inbox[b] # <<>>
    BY <1>0, <2>1
  <2>3. agent' \in [Agents -> AgentType] /\ \A b \in Agents : agent'[b].life = agent[b].life
    BY <1>0, <2>1
  <2> QED BY <2>1, <2>2, <2>3, TypeCompletes
<1> QED BY <1>1, <1>2, <1>3, <1>4, <1>5

\* The end of a logout: the caller is free again, and a kick is answered.
Ends(a) ==
    LET m == Head(inbox[a]) IN
    /\ Took(a) /\ m \in AgentMessages /\ m.type = "logoutDone" /\ m.caller \in Callers /\ m \in Range(inbox[a])
    /\ logout' \in [Callers -> [at : {"none", "asked", "offline", "gate"}, agent : Agents \cup {None}]]
    /\ logout'[m.caller].at = "none" /\ logout'[m.caller].agent = None
    /\ \A d \in Callers : d # m.caller => logout'[d] = logout[d]
    /\ IF m.caller = Kick THEN ToGate([type |-> "kicked"]) ELSE UNCHANGED toGate
    /\ UNCHANGED <<loginVars, tableVars, clientVars, agent, login, mgrVars, toLogin>>

LEMMA LogoutDoneFacts ==
    ASSUME TypeOK, NEW a \in Agents, LogoutDone(a)
    PROVE  Ends(a)
<1> DEFINE m == Head(inbox[a])
<1>1. Took(a) /\ m.type = "logoutDone"
  BY ReceiveTakes DEF LogoutDone, Next1
<1>2. m \in AgentMessages /\ m \in Range(inbox[a])
  BY <1>1, TookFacts
<1>3. m.caller \in Callers
  BY <1>1, <1>2, AgentRead
<1>4. /\ logout \in [Callers -> [at : {"none", "asked", "offline", "gate"}, agent : Agents \cup {None}]]
      /\ logout' = [logout EXCEPT ![m.caller] = NoLogout]
      /\ IF m.caller = Kick THEN ToGate([type |-> "kicked"]) ELSE UNCHANGED toGate
      /\ UNCHANGED <<loginVars, tableVars, clientVars, agent, login, mgrVars, toLogin>>
  BY DEF LogoutDone, TypeOK
<1> HIDE DEF m
<1>5. /\ logout' \in [Callers -> [at : {"none", "asked", "offline", "gate"}, agent : Agents \cup {None}]]
      /\ logout'[m.caller].at = "none" /\ logout'[m.caller].agent = None
      /\ \A d \in Callers : d # m.caller => logout'[d] = logout[d]
  BY <1>3, <1>4 DEF NoLogout
<1> QED BY <1>1, <1>2, <1>3, <1>4, <1>5 DEF Ends, m

LEMMA TypeLogoutDone ==
    ASSUME TypeOK, NEW a \in Agents, LogoutDone(a)
    PROVE  TypeOK'
<1>1. Ends(a)
  BY LogoutDoneFacts
<1>2. /\ inbox' \in [Agents -> Seq(AgentMessages)] /\ \A b \in Agents : inbox'[b] # <<>> => inbox[b] # <<>>
  BY <1>1, TookFacts DEF Ends
<1>3. toGate' \in Seq(GateMessages)
  <2>1. CASE ToGate([type |-> "kicked"])
    BY <2>1, ToGateFacts, KickedToGate
  <2>2. CASE UNCHANGED toGate
    BY <2>2 DEF TypeOK
  <2> QED BY <1>1, <2>1, <2>2 DEF Ends
<1>4. /\ logout' \in [Callers -> [at : {"none", "asked", "offline", "gate"}, agent : Agents \cup {None}]]
      /\ UNCHANGED <<loginVars, tableVars, clientVars, agent, login, mgrVars, toLogin>>
  BY <1>1 DEF Ends
<1> QED BY <1>2, <1>3, <1>4 DEF TypeOK, Alive, loginVars, tableVars, clientVars, mgrVars

----------------------------------------------------------------------------
(* An agent exits *)

LEMMA ErrorsFacts ==
    ASSUME TypeOK, NEW a \in Agents
    PROVE  /\ IsFiniteSet(Errors(a)) /\ Errors(a) \subseteq GateMessages
           /\ Errors(a) \cap AcceptAtGate = (IF KickWaits(a) THEN {[type |-> "kicked"]} ELSE {})
           /\ \A f \in Fds : Errors(a) \cap LoginAtGate(f) =
                 (IF f \in Unanswered(a) THEN {[type |-> "loggedIn", fd |-> f, ok |-> FALSE]} ELSE {})
           /\ \A c, b : Errors(a) \cap LogoutAtGate(c, b) = {}
           /\ \A m \in Errors(a) : m.type # "kick"
<1> DEFINE U == Unanswered(a)
           L == {[type |-> "loggedIn", fd |-> f, ok |-> FALSE] : f \in U}
           K == IF KickWaits(a) THEN {[type |-> "kicked"]} ELSE {}
           g == [f \in U |-> [type |-> "loggedIn", fd |-> f, ok |-> FALSE]]
<1>1. Errors(a) = L \cup K /\ U \subseteq Fds
  BY DEF Errors, Unanswered
<1>2. IsFiniteSet(Fds)
  BY FS_Interval, SessionAssumption DEF Fds
<1>3. IsFiniteSet(U)
  BY <1>1, <1>2, FS_Subset
<1> HIDE DEF U
<1>4. IsFiniteSet(L)
  <2>1. g \in Surjection(U, L)
    BY DEF Surjection
  <2> QED BY <1>3, <2>1, FS_Surjection
<1>5. IsFiniteSet(K)
  BY FS_EmptySet, FS_Singleton
<1>6. \A m \in L : \E f \in U : m = [type |-> "loggedIn", fd |-> f, ok |-> FALSE]
  OBVIOUS
<1>7. \A f \in U : [type |-> "loggedIn", fd |-> f, ok |-> FALSE] \in L
  OBVIOUS
<1>8. ASSUME NEW f \in Fds
      PROVE  LET m == [type |-> "loggedIn", fd |-> f, ok |-> FALSE] IN
             /\ m \in GateMessages /\ m.type = "loggedIn" /\ m \notin AcceptAtGate
             /\ \A h : m \in LoginAtGate(h) <=> h = f
             /\ \A c, b : m \notin LogoutAtGate(c, b)
  BY LoggedInToGate
<1>9. LET m == [type |-> "kicked"] IN
      /\ m \in GateMessages /\ m \in AcceptAtGate /\ m.type = "kicked"
      /\ \A f : m \notin LoginAtGate(f)
      /\ \A c, b : m \notin LogoutAtGate(c, b)
  BY KickedToGate
<1>10. ASSUME NEW m \in L
       PROVE  /\ m \in GateMessages /\ m \notin AcceptAtGate /\ m.type # "kick"
              /\ \A c, b : m \notin LogoutAtGate(c, b)
  <2>1. PICK f \in Fds : m = [type |-> "loggedIn", fd |-> f, ok |-> FALSE]
    BY <1>1, <1>6
  <2> QED BY <1>8, <2>1
<1>11. ASSUME NEW m \in K
       PROVE  /\ m = [type |-> "kicked"] /\ m \in GateMessages /\ m.type # "kick" /\ m \in AcceptAtGate
              /\ \A f : m \notin LoginAtGate(f)
              /\ \A c, b : m \notin LogoutAtGate(c, b)
  BY <1>9
<1>12. ASSUME NEW f \in Fds
       PROVE  L \cap LoginAtGate(f) = IF f \in U THEN {[type |-> "loggedIn", fd |-> f, ok |-> FALSE]} ELSE {}
  <2>1. ASSUME NEW m \in L, m \in LoginAtGate(f)
        PROVE  f \in U /\ m = [type |-> "loggedIn", fd |-> f, ok |-> FALSE]
    <3>1. PICK h \in U : m = [type |-> "loggedIn", fd |-> h, ok |-> FALSE]
      BY <1>6
    <3>2. h \in Fds
      BY <1>1
    <3>3. f = h
      BY <1>8, <2>1, <3>1, <3>2
    <3> QED BY <3>1, <3>3
  <2>2. f \in U => [type |-> "loggedIn", fd |-> f, ok |-> FALSE] \in L \cap LoginAtGate(f)
    BY <1>7, <1>8
  <2> HIDE DEF L
  <2> QED BY <2>1, <2>2
<1> HIDE DEF L
<1>13. IsFiniteSet(L \cup K)
  BY <1>4, <1>5, FS_Union
<1>14. (L \cup K) \cap AcceptAtGate = K
  BY <1>10, <1>11
<1>15. \A f \in Fds : (L \cup K) \cap LoginAtGate(f) = L \cap LoginAtGate(f)
  BY <1>11
<1>16. \A c, b : (L \cup K) \cap LogoutAtGate(c, b) = {}
  BY <1>10, <1>11
<1>17. L \cup K \subseteq GateMessages /\ \A m \in L \cup K : m.type # "kick"
  BY <1>10, <1>11
<1> HIDE DEF K
<1>18. \A f \in Fds : Errors(a) \cap LoginAtGate(f) =
         IF f \in U THEN {[type |-> "loggedIn", fd |-> f, ok |-> FALSE]} ELSE {}
  BY <1>1, <1>12, <1>15
<1> QED BY <1>1, <1>13, <1>14, <1>16, <1>17, <1>18 DEF K, U

\* The agent is gone with its queue and its coroutines, and whoever waits for it gets an error.
Died(a) ==
    LET x == [type |-> "agentexit", agent |-> a] IN
    /\ agent' \in [Agents -> AgentType] /\ agent'[a].life = "dead"
    /\ \A b \in Agents : b # a => agent'[b] = agent[b]
    /\ Alive(a) /\ inbox[a] # <<>>
    /\ inbox' \in [Agents -> Seq(AgentMessages)] /\ inbox'[a] = <<>>
    /\ \A b \in Agents : b # a => inbox'[b] = inbox[b]
    /\ login' \in [Fds -> {"none", "shutdown", "db"}]
    /\ \A f \in Fds : login'[f] = IF auth[f].agent = a THEN "none" ELSE login[f]
    /\ logout' \in [Callers -> [at : {"none", "asked", "offline", "gate"}, agent : Agents \cup {None}]]
    /\ \A c \in Callers : logout'[c] = IF logout[c].agent = a THEN NoLogout ELSE logout[c]
    /\ toGate' \in Seq(GateMessages) /\ Range(toGate') = (Range(toGate) \cup {x}) \cup Errors(a)
    /\ Count(toGate', AcceptAtGate) = Count(toGate, AcceptAtGate) + (IF KickWaits(a) THEN 1 ELSE 0)
    /\ \A f \in Fds : Count(toGate', LoginAtGate(f)) =
                         Count(toGate, LoginAtGate(f)) + (IF f \in Unanswered(a) THEN 1 ELSE 0)
    /\ \A c \in Callers, b \in Agents : Count(toGate', LogoutAtGate(c, b)) = Count(toGate, LogoutAtGate(c, b))
    /\ UNCHANGED <<loginVars, tableVars, clientVars, mgrVars, toLogin>>

LEMMA AgentDiesFacts ==
    ASSUME TypeOK, NEW a \in Agents, AgentDies(a)
    PROVE  Died(a)
<1> DEFINE x == [type |-> "agentexit", agent |-> a]
           q == Append(toGate, x)
<1>1. inbox[a] # <<>> /\ Alive(a)
  BY DEF AgentDies, Next1, TypeOK
<1>2. PICK e \in SetToSeqs(Errors(a)) : toGate' = q \o e
  BY DEF AgentDies
<1>3. /\ agent' = [agent EXCEPT ![a] = [Unborn EXCEPT !.life = "dead"]]
      /\ inbox' = [inbox EXCEPT ![a] = <<>>]
      /\ login' = [f \in Fds |-> IF auth[f].agent = a THEN "none" ELSE login[f]]
      /\ logout' = [c \in Callers |-> IF logout[c].agent = a THEN NoLogout ELSE logout[c]]
      /\ UNCHANGED <<loginVars, tableVars, clientVars, mgrVars, toLogin>>
  BY DEF AgentDies
<1>4. /\ agent' \in [Agents -> AgentType] /\ agent'[a].life = "dead"
      /\ \A b \in Agents : b # a => agent'[b] = agent[b]
  <2>1. agent \in [Agents -> AgentType]
    BY DEF TypeOK, AgentType
  <2>2. [Unborn EXCEPT !.life = "dead"] \in AgentType /\ [Unborn EXCEPT !.life = "dead"].life = "dead"
    <3>1. 0 \in 0..internal_id
      BY Bounds
    <3>2. Unborn \in AgentType
      BY <3>1 DEF Unborn, AgentType
    <3> QED BY <3>2 DEF AgentType
  <2> QED BY <1>3, <2>1, <2>2
<1>5. /\ inbox' \in [Agents -> Seq(AgentMessages)] /\ inbox'[a] = <<>>
      /\ \A b \in Agents : b # a => inbox'[b] = inbox[b]
  <2>1. <<>> \in Seq(AgentMessages)
    OBVIOUS
  <2>2. inbox \in [Agents -> Seq(AgentMessages)]
    BY DEF TypeOK
  <2> QED BY <1>3, <2>1, <2>2
<1>6. /\ login' \in [Fds -> {"none", "shutdown", "db"}]
      /\ \A f \in Fds : login'[f] = IF auth[f].agent = a THEN "none" ELSE login[f]
  <2>1. login \in [Fds -> {"none", "shutdown", "db"}]
    BY DEF TypeOK
  <2> QED BY <1>3, <2>1
<1>7. /\ logout' \in [Callers -> [at : {"none", "asked", "offline", "gate"}, agent : Agents \cup {None}]]
      /\ \A c \in Callers : logout'[c] = IF logout[c].agent = a THEN NoLogout ELSE logout[c]
  <2>1. logout \in [Callers -> [at : {"none", "asked", "offline", "gate"}, agent : Agents \cup {None}]]
    BY DEF TypeOK
  <2>2. NoLogout \in [at : {"none", "asked", "offline", "gate"}, agent : Agents \cup {None}]
    BY DEF NoLogout
  <2> QED BY <1>3, <2>1, <2>2
<1>8. /\ e \in Seq(Errors(a)) /\ Range(e) = Errors(a)
      /\ \A S : Errors(a) \cap S = {} => Count(e, S) = 0
      /\ \A S, m : Errors(a) \cap S = {m} => Count(e, S) = 1
  <2>1. IsFiniteSet(Errors(a))
    BY ErrorsFacts
  <2> QED BY <2>1, OrderOf, Zenon
<1>9. e \in Seq(GateMessages)
  BY <1>8, ErrorsFacts
<1>10. /\ x \in GateMessages /\ x \notin AcceptAtGate
       /\ \A f : x \notin LoginAtGate(f)
       /\ \A c, b : x \notin LogoutAtGate(c, b)
  BY AgentexitToGate
<1>11. toGate \in Seq(GateMessages)
  BY DEF TypeOK
<1>12. /\ q \in Seq(GateMessages) /\ Range(q) = Range(toGate) \cup {x}
  BY <1>10, <1>11, AppendRange
<1>13. \A S : Count(q, S) = Count(toGate, S) + (IF x \in S THEN 1 ELSE 0)
  BY <1>10, <1>11, CountAppend
<1> HIDE DEF x, q
<1>14. q \o e \in Seq(GateMessages) /\ Range(q \o e) = Range(q) \cup Range(e)
  BY <1>9, <1>12, CountConcat
<1>15. \A S : Count(q \o e, S) = Count(q, S) + Count(e, S)
  BY <1>9, <1>12, CountConcat
<1>16. ASSUME NEW S, x \notin S
       PROVE  /\ Count(toGate', S) = Count(toGate, S) + Count(e, S)
              /\ Count(toGate, S) \in Nat
  BY <1>2, <1>13, <1>15, <1>16, CountsAreNat
<1>17. Count(toGate', AcceptAtGate) = Count(toGate, AcceptAtGate) + (IF KickWaits(a) THEN 1 ELSE 0)
  <2>1. Errors(a) \cap AcceptAtGate = IF KickWaits(a) THEN {[type |-> "kicked"]} ELSE {}
    BY ErrorsFacts
  <2>2. Count(e, AcceptAtGate) = IF KickWaits(a) THEN 1 ELSE 0
    BY <1>8, <2>1
  <2> QED BY <1>10, <1>16, <2>2
<1>18. ASSUME NEW f \in Fds
       PROVE  Count(toGate', LoginAtGate(f)) =
                  Count(toGate, LoginAtGate(f)) + (IF f \in Unanswered(a) THEN 1 ELSE 0)
  <2>1. Errors(a) \cap LoginAtGate(f) =
           IF f \in Unanswered(a) THEN {[type |-> "loggedIn", fd |-> f, ok |-> FALSE]} ELSE {}
    BY ErrorsFacts
  <2>2. Count(e, LoginAtGate(f)) = IF f \in Unanswered(a) THEN 1 ELSE 0
    BY <1>8, <2>1
  <2> QED BY <1>10, <1>16, <2>2
<1>19. ASSUME NEW c \in Callers, NEW b \in Agents
       PROVE  Count(toGate', LogoutAtGate(c, b)) = Count(toGate, LogoutAtGate(c, b))
  <2>1. Errors(a) \cap LogoutAtGate(c, b) = {}
    BY ErrorsFacts
  <2>2. Count(e, LogoutAtGate(c, b)) = 0
    BY <1>8, <2>1
  <2> QED BY <1>10, <1>16, <2>2
<1>20. toGate' \in Seq(GateMessages) /\ Range(toGate') = (Range(toGate) \cup {x}) \cup Errors(a)
  BY <1>2, <1>8, <1>12, <1>14
<1> QED BY <1>1, <1>3, <1>4, <1>5, <1>6, <1>7, <1>17, <1>18, <1>19, <1>20 DEF Died, x

LEMMA TypeAgentDies ==
    ASSUME TypeOK, NEW a \in Agents, AgentDies(a)
    PROVE  TypeOK'
<1>1. Died(a)
  BY AgentDiesFacts
<1>2. ASSUME NEW b \in Agents, inbox'[b] # <<>> PROVE Alive(b)'
  <2>1. b # a
    BY <1>1, <1>2 DEF Died
  <2>2. inbox'[b] = inbox[b] /\ agent'[b] = agent[b]
    BY <1>1, <2>1 DEF Died
  <2> QED BY <1>2, <2>2 DEF TypeOK, Alive
<1> QED BY <1>1, <1>2 DEF Died, TypeOK, AgentType, loginVars, tableVars, clientVars, mgrVars

----------------------------------------------------------------------------
(* Every step keeps the types *)

\* One step of the system.
Step ==
    \/ Accept \/ LogindLogout \/ KickAnswered \/ LoginAnswered
    \/ GateLogin \/ GateKick \/ GateLogoutDone \/ LoginReply \/ GateLogout \/ GateKicked \/ AgentExit
    \/ \E f \in Fds, s \in Subids, index \in {"new", "expired"} : Handshake(f, s, index)
    \/ \E f \in Fds, a \in Agents : GotAgent(f, a)
    \/ \E f \in Fds : Disconnect(f)
    \/ \E f \in Fds, a \in Agents : RequestLogout(f, a)
    \/ \E a \in Agents : LoginStart(a)
    \/ \E f \in Fds : LoginMarked(f)
    \/ \E f \in Fds : LoginEnd(f)
    \/ \E f \in Fds : LoginForbidden(f)
    \/ \E a \in Agents : Reconnect(a) \/ Afk(a)
    \/ \E a \in Agents : Logout(a)
    \/ \E a \in Agents : ClientLogout(a)
    \/ \E a \in Agents : HeartbeatOut(a)
    \/ \E f \in Fds : ForbiddenLogout(f)
    \/ \E c \in Callers : WentOffline(c)
    \/ \E a \in Agents : LogoutDone(a)
    \/ \E a \in Agents : AgentDies(a)

LEMMA NextIsStep ==
    ASSUME [Next]_vars
    PROVE  Step \/ UNCHANGED <<loginVars, tableVars, clientVars, agentVars, mgrVars, toLogin, toGate, inbox>>
BY DEF Next, Extra, Client, LoginServer, Gate, Resume, Agent, Rest, vars, Step

LEMMA TypeStep ==
    ASSUME SessionInv, Step
    PROVE  TypeOK'
<1>0. TypeOK /\ TablesInv /\ HandlersInv /\ AcceptInv /\ AuthInv /\ RecordsInv /\ CountNeverShort
  BY DEF SessionInv
<1>1. ASSUME NEW a \in Agents, Reconnect(a) \/ Afk(a) PROVE TypeOK'
  BY <1>0, <1>1, TypeSetOnline DEF Reconnect, Afk
<1> QED BY <1>0, <1>1, TypeAccept, TypeLogindLogout, TypeKickAnswered, TypeLoginAnswered, TypeGateLogin,
           TypeGateKick, TypeGateLogoutDone, TypeLoginReply, TypeGateLogout, TypeGateKicked, TypeAgentExit,
           TypeHandshake, TypeGotAgent, TypeDisconnect, TypeRequestLogout, TypeLoginStart, TypeLoginMarked,
           TypeLoginEnd, TypeLoginForbidden, TypeLogouts, TypeLogoutDone, TypeAgentDies, Zenon DEF Step

----------------------------------------------------------------------------
(* The tables of the gate *)

LEMMA TablesFrame ==
    ASSUME TypeOK, TablesInv, UNCHANGED <<internal_id, obj, username_map, user_online>>,
           \A b \in Agents : agent'[b].life = "unborn" => agent[b].life = "unborn"
    PROVE  TablesInv'
<1>1. /\ user_online' = {s \in Subids : username_map'[s] # 0}
      /\ \A o \in Subids : o > internal_id' => obj'[o] = NoObject
      /\ \A o, p \in Subids : obj'[o].agent # None /\ obj'[o].agent = obj'[p].agent => o = p
  BY DEF TablesInv
<1>2. ASSUME NEW o \in Subids, obj'[o].agent # None PROVE agent'[obj'[o].agent].life # "unborn"
  <2>1. obj[o].agent \in Agents /\ agent[obj[o].agent].life # "unborn" /\ obj'[o] = obj[o]
    BY <1>2 DEF TablesInv, TypeOK
  <2> QED BY <2>1
<1> QED BY <1>1, <1>2 DEF TablesInv

LEMMA TablesLogoutHere ==
    ASSUME TypeOK, TablesInv, users # 0, NEW s, LogoutHere(s), UNCHANGED agent
    PROVE  TablesInv'
<1>0. users \in Subids /\ users <= internal_id /\ internal_id \in Nat
  <2>1. users \in 0..internal_id
    BY DEF TypeOK
  <2> QED BY <2>1, Bounds
<1>1. /\ user_online' = user_online \ {s} /\ username_map' = [username_map EXCEPT ![s] = 0]
      /\ obj' = [obj EXCEPT ![users].islogout = TRUE] /\ internal_id' = internal_id
  BY DEF LogoutHere
<1>2. /\ username_map \in [Subids -> 0..internal_id]
      /\ obj \in [Subids -> [subid : 0..internal_id, agent : Agents \cup {None}, islogout : BOOLEAN]]
  BY DEF TypeOK
<1>3. user_online' = {r \in Subids : username_map'[r] # 0}
  BY <1>1, <1>2 DEF TablesInv
<1>4. \A o \in Subids : obj'[o].agent = obj[o].agent /\ (o # users => obj'[o] = obj[o])
  BY <1>0, <1>1, <1>2
<1>5. ASSUME NEW o \in Subids, o > internal_id PROVE o # users
  <2>1. o \in Nat
    BY DEF Subids
  <2> QED BY <1>0, <1>5, <2>1
<1>6. \A o \in Subids : o > internal_id' => obj'[o] = NoObject
  BY <1>1, <1>4, <1>5 DEF TablesInv
<1>7. /\ \A o \in Subids : obj'[o].agent # None => agent'[obj'[o].agent].life # "unborn"
      /\ \A o, p \in Subids : obj'[o].agent # None /\ obj'[o].agent = obj'[p].agent => o = p
  BY <1>4 DEF TablesInv
<1> QED BY <1>3, <1>6, <1>7 DEF TablesInv

\* An object gets an agent that no other object has.
LEMMA TablesCalled ==
    ASSUME TypeOK, TablesInv, NEW f, NEW s, NEW o \in 1..internal_id, NEW a \in Agents, Called(f, s, o, a),
           UNCHANGED <<internal_id, username_map, user_online>>,
           \A b \in Agents : agent'[b].life = "unborn" => agent[b].life = "unborn",
           agent'[a].life # "unborn",
           obj[o].agent = a \/ agent[a].life = "unborn"
    PROVE  TablesInv'
<1>0. o \in Subids /\ o <= internal_id /\ internal_id \in Nat
  BY Bounds
<1>1. obj'[o].agent = a /\ \A p \in Subids : p # o => obj'[p] = obj[p]
  BY DEF Called
<1>2. ASSUME NEW p \in Subids, p # o PROVE obj[p].agent # a
  <2>1. a # None
    BY Bounds
  <2>2. obj[o].agent = a => obj[p].agent # a
    BY <1>0, <1>2, <2>1 DEF TablesInv
  <2>3. agent[a].life = "unborn" => obj[p].agent # a
    BY <2>1 DEF TablesInv
  <2> QED BY <2>2, <2>3
<1>3. ASSUME NEW p \in Subids, p > internal_id' PROVE obj'[p] = NoObject
  <2>1. p # o /\ p > internal_id
    BY <1>0, <1>3
  <2> QED BY <1>1, <2>1 DEF TablesInv
<1>4. ASSUME NEW p \in Subids, obj'[p].agent # None PROVE agent'[obj'[p].agent].life # "unborn"
  <2>1. CASE p = o
    BY <1>1, <2>1
  <2>2. CASE p # o
    <3>1. obj'[p] = obj[p] /\ obj[p].agent \in Agents /\ agent[obj[p].agent].life # "unborn"
      BY <1>1, <1>4, <2>2 DEF TablesInv, TypeOK
    <3> QED BY <3>1
  <2> QED BY <2>1, <2>2
<1>5. ASSUME NEW p \in Subids, NEW r \in Subids, obj'[p].agent # None, obj'[p].agent = obj'[r].agent PROVE p = r
  <2>1. CASE p = o
    BY <1>1, <1>2, <1>5, <2>1
  <2>2. CASE r = o
    BY <1>1, <1>2, <1>5, <2>2
  <2>3. CASE p # o /\ r # o
    BY <1>1, <1>5, <2>3 DEF TablesInv
  <2> QED BY <2>1, <2>2, <2>3
<1>6. user_online' = {r \in Subids : username_map'[r] # 0}
  BY DEF TablesInv
<1> QED BY <1>3, <1>4, <1>5, <1>6 DEF TablesInv

\* What the gate's login does when it is not an error.
LoggedNew ==
    LET n == internal_id + 1 IN
    /\ users = 0 \/ obj[users].islogout
    /\ internal_id' = n /\ users' = (IF users = 0 THEN n ELSE users)
    /\ internal_id < MaxLogins /\ n \in Subids /\ users' \in Subids /\ users' <= n
    /\ \A o \in Subids : obj'[o].agent = obj[o].agent /\ (o # users' => obj'[o] = obj[o])
    /\ obj'[users'].subid = n /\ obj'[users'].islogout = TRUE
    /\ username_map' = [username_map EXCEPT ![n] = users']
    /\ user_online' = user_online \cup {n} /\ kicked' = kicked
    /\ [type |-> "loggedIn", subid |-> n] \in LoginMessages
    /\ ToLogin([type |-> "loggedIn", subid |-> n])

LEMMA GateLoginFacts ==
    ASSUME TypeOK, AcceptInv, RecordsInv, GateLogin
    PROVE  /\ toGate' \in Seq(GateMessages) /\ Head(toGate) \in AcceptAtGate /\ Head(toGate) \in Range(toGate)
           /\ UNCHANGED <<loginVars, clientVars, agentVars, mgrVars, inbox>>
           /\ \/ LoggedNew
              \/ ToLogin([type |-> "loggedIn", subid |-> 0]) /\ UNCHANGED tableVars
<1> DEFINE n == internal_id + 1
<1>0. toGate' \in Seq(GateMessages) /\ Head(toGate) \in AcceptAtGate /\ Head(toGate) \in Range(toGate)
      /\ UNCHANGED <<loginVars, clientVars, agentVars, mgrVars, inbox>>
  BY FromGateFacts, GateRead DEF GateLogin
<1>1. CASE users # 0 /\ ~obj[users].islogout
  BY <1>0, <1>1 DEF GateLogin
<1>2. CASE ~(users # 0 /\ ~obj[users].islogout)
  <2>0. /\ internal_id' = n /\ users' = (IF users = 0 THEN n ELSE users)
        /\ obj' = [obj EXCEPT ![users'].subid = n, ![users'].islogout = TRUE]
        /\ username_map' = [username_map EXCEPT ![n] = users']
        /\ user_online' = user_online \cup {n} /\ kicked' = kicked
        /\ ToLogin([type |-> "loggedIn", subid |-> n])
    BY <1>2 DEF GateLogin
  <2>1. accept # "idle" /\ \A m \in Range(toLogin) : m \notin AcceptAtLogin
    BY <1>0, AtGate, CountsAreRanges
  <2>2. internal_id < MaxLogins
    <3>1. \A m \in Range(toLogin) : m.type # "loggedIn"
      BY <2>1, MessageTypes, LoginRead
    <3> QED BY <2>1, <3>1 DEF RecordsInv
  <2>3. n \in 0..MaxLogins /\ n \in Subids /\ n \in Nat
    BY <2>2, Bounds DEF Subids
  <2>4. users' \in Subids /\ users' <= n
    <3>1. users \in 0..internal_id
      BY DEF TypeOK
    <3>2. CASE users = 0
      BY <2>0, <2>3, <3>2
    <3>3. CASE users # 0
      <4>1. users \in Subids /\ users <= n
        BY <3>1, <3>3, Bounds
      <4> QED BY <2>0, <3>3, <4>1
    <3> QED BY <3>2, <3>3
  <2>5. [type |-> "loggedIn", subid |-> n] \in LoginMessages
    BY <2>3, LoggedInToLogin
  <2> HIDE DEF n
  <2>6. /\ \A o \in Subids : obj'[o].agent = obj[o].agent /\ (o # users' => obj'[o] = obj[o])
        /\ obj'[users'].subid = n /\ obj'[users'].islogout = TRUE
    <3>1. obj \in [Subids -> [subid : 0..internal_id, agent : Agents \cup {None}, islogout : BOOLEAN]]
      BY DEF TypeOK
    <3> QED BY <2>0, <2>4, <3>1
  <2>7. LoggedNew
    BY <1>2, <2>0, <2>2, <2>3, <2>4, <2>5, <2>6 DEF LoggedNew, n
  <2> QED BY <1>0, <2>7
<1> QED BY <1>1, <1>2

LEMMA TablesLogin ==
    ASSUME TypeOK, TablesInv, LoggedNew, UNCHANGED agent
    PROVE  TablesInv'
<1> DEFINE n == internal_id + 1
<1>0. n \in Subids /\ internal_id \in Nat /\ Subids \subseteq Nat /\ users' # 0 /\ 0 \notin Subids
  BY Bounds DEF LoggedNew, Subids
<1>1. /\ internal_id' = n /\ users' \in Subids /\ users' <= n
      /\ \A o \in Subids : obj'[o].agent = obj[o].agent /\ (o # users' => obj'[o] = obj[o])
      /\ username_map' = [username_map EXCEPT ![n] = users'] /\ user_online' = user_online \cup {n}
  BY DEF LoggedNew
<1>2. username_map \in [Subids -> 0..internal_id]
  BY DEF TypeOK
<1>3. user_online' = {r \in Subids : username_map'[r] # 0}
  BY <1>0, <1>1, <1>2 DEF TablesInv
<1>4. ASSUME NEW o \in Subids, o > internal_id' PROVE obj'[o] = NoObject
  <2>1. o # users' /\ o > internal_id
    BY <1>0, <1>1, <1>4
  <2> QED BY <1>1, <2>1 DEF TablesInv
<1>5. /\ \A o \in Subids : obj'[o].agent # None => agent'[obj'[o].agent].life # "unborn"
      /\ \A o, p \in Subids : obj'[o].agent # None /\ obj'[o].agent = obj'[p].agent => o = p
  BY <1>1 DEF TablesInv
<1> QED BY <1>3, <1>4, <1>5 DEF TablesInv

LEMMA TablesStep ==
    ASSUME SessionInv, Step
    PROVE  TablesInv'
<1> DEFINE Older == \A b \in Agents : agent'[b].life = "unborn" => agent[b].life = "unborn"
<1>0. TypeOK /\ TablesInv /\ HandlersInv /\ AcceptInv /\ AuthInv /\ RecordsInv /\ CountNeverShort
  BY DEF SessionInv
<1>1. ASSUME UNCHANGED tableVars, Older PROVE TablesInv'
  BY <1>0, <1>1, TablesFrame DEF tableVars
<1>2. CASE Accept \/ LogindLogout \/ KickAnswered \/ LoginAnswered \/ LoginReply \/ GateKicked
  BY <1>1, <1>2 DEF Accept, LogindLogout, KickAnswered, LoginAnswered, LoginReply, GateKicked, agentVars
<1>3. CASE GateLogin
  <2>1. UNCHANGED agent
    BY <1>0, <1>3, GateLoginFacts DEF agentVars
  <2>2. LoggedNew \/ UNCHANGED tableVars
    BY <1>0, <1>3, GateLoginFacts
  <2>3. CASE LoggedNew
    BY <1>0, <2>1, <2>3, TablesLogin
  <2> QED BY <1>1, <2>1, <2>2, <2>3
<1>4. CASE GateKick
  <2>1. UNCHANGED agent /\ (UNCHANGED tableVars \/ (users # 0 /\ \E s : LogoutHere(s)))
    BY <1>4 DEF GateKick, agentVars
  <2> QED BY <1>0, <1>1, <2>1, TablesLogoutHere
<1>5. CASE GateLogout
  <2>1. UNCHANGED agent /\ (UNCHANGED tableVars \/ (users # 0 /\ \E s : LogoutHere(s)))
    BY <1>5 DEF GateLogout, agentVars
  <2> QED BY <1>0, <1>1, <2>1, TablesLogoutHere
<1>6. CASE GateLogoutDone \/ AgentExit
  BY <1>0, <1>6, TablesFrame DEF GateLogoutDone, AgentExit, agentVars
<1>7. ASSUME NEW f \in Fds, NEW s \in Subids, NEW index \in {"new", "expired"}, Handshake(f, s, index)
      PROVE  TablesInv'
  <2> DEFINE o == username_map[s]
             a == obj[o].agent
  <2>0. /\ s \in 1..internal_id /\ UNCHANGED <<internal_id, username_map, user_online, agent>>
        /\ \/ UNCHANGED obj
           \/ o \in 1..internal_id /\ a \in Agents /\ agent[a].life # "unborn" /\ CallLogin(f, s, o, a)
    BY <1>0, <1>7, HandshakeCases DEF agentVars
  <2>1. CASE UNCHANGED obj
    BY <1>0, <2>0, <2>1, TablesFrame
  <2>2. CASE o \in 1..internal_id /\ a \in Agents /\ agent[a].life # "unborn" /\ CallLogin(f, s, o, a)
    <3>1. Called(f, s, o, a)
      BY <1>0, <2>0, <2>2, CallLoginFacts
    <3> HIDE DEF o
    <3>2. agent'[obj[o].agent].life # "unborn"
      BY <2>0, <2>2
    <3> QED BY <1>0, <2>0, <2>2, <3>1, <3>2, TablesCalled
  <2> QED BY <2>0, <2>1, <2>2
<1>8. ASSUME NEW f \in Fds, NEW a \in Agents, GotAgent(f, a) PROVE TablesInv'
  <2>1. /\ auth[f].subid \in 1..internal_id /\ auth[f].obj \in 1..internal_id /\ agent[a].life = "unborn"
        /\ UNCHANGED <<internal_id, username_map, user_online>>
        /\ CallLogin(f, auth[f].subid, auth[f].obj, a)
    <3>1. auth[f].at = "getAgent" /\ auth[f].subid \in 0..internal_id /\ auth[f].obj \in 0..internal_id
      BY <1>0, <1>8 DEF GotAgent, TypeOK
    <3>2. auth[f].subid # 0 /\ auth[f].obj # 0
      BY <1>0, <3>1 DEF HandlersInv
    <3> QED BY <1>0, <1>8, <3>1, <3>2, Bounds DEF GotAgent
  <2>2. Called(f, auth[f].subid, auth[f].obj, a)
    BY <1>0, <2>1, CallLoginFacts
  <2>3. agent'[a].life = "alive" /\ \A b \in Agents : b # a => agent'[b] = agent[b]
    <3>1. agent' = [agent EXCEPT ![a].life = "alive"] /\ agent \in [Agents -> AgentType]
      BY <1>0, <1>8 DEF GotAgent, TypeOK, AgentType
    <3> QED BY <3>1 DEF AgentType
  <2>4. agent'[a].life # "unborn" /\ \A b \in Agents : agent'[b].life = "unborn" => agent[b].life = "unborn"
    BY <2>3
  <2> QED BY <1>0, <2>1, <2>2, <2>4, TablesCalled
<1>9. CASE \E f \in Fds : Disconnect(f)
  BY <1>1, <1>9 DEF Disconnect, agentVars
<1>10. CASE \E f \in Fds, a \in Agents : RequestLogout(f, a)
  BY <1>1, <1>10 DEF RequestLogout
<1>11. ASSUME NEW a \in Agents, LoginStart(a) PROVE TablesInv'
  <2>1. Started(a) /\ UNCHANGED tableVars
    BY <1>0, <1>11, LoginStartFacts DEF LoginStart
  <2> QED BY <1>1, <2>1 DEF Started
<1>12. ASSUME NEW f \in Fds, LoginMarked(f) \/ LoginEnd(f) \/ LoginForbidden(f) PROVE TablesInv'
  <2>1. UNCHANGED tableVars /\ (Logged(f, "db") \/ Logged(f, "none"))
    BY <1>0, <1>12, LoginMarkedFacts, LoginEndFacts DEF LoginMarked, LoginEnd, LoginForbidden
  <2> QED BY <1>1, <2>1 DEF Logged
<1>13. ASSUME NEW a \in Agents, Reconnect(a) \/ Afk(a) PROVE TablesInv'
  BY <1>0, <1>1, <1>13, SetOnlineFacts DEF Reconnect, Afk
<1>14. ASSUME NEW a \in Agents, NEW beat, Leaves(a, beat), UNCHANGED tableVars PROVE TablesInv'
  BY <1>1, <1>14 DEF Leaves
<1>15. ASSUME NEW a \in Agents, Logout(a) \/ ClientLogout(a) \/ HeartbeatOut(a) PROVE TablesInv'
  BY <1>0, <1>14, <1>15, LogoutFacts, ClientLogoutFacts, HeartbeatOutFacts
<1>16. ASSUME NEW f \in Fds, ForbiddenLogout(f) PROVE TablesInv'
  BY <1>0, <1>14, <1>16, ForbiddenLogoutFacts
<1>17. CASE \E c \in Callers : WentOffline(c)
  BY <1>0, <1>1, <1>17, WentOfflineFacts
<1>18. ASSUME NEW a \in Agents, LogoutDone(a) PROVE TablesInv'
  BY <1>0, <1>1, <1>18, LogoutDoneFacts DEF Ends
<1>19. ASSUME NEW a \in Agents, AgentDies(a) PROVE TablesInv'
  BY <1>0, <1>1, <1>19, AgentDiesFacts DEF Died
<1> HIDE DEF Older
<1> QED BY <1>2, <1>3, <1>4, <1>5, <1>6, <1>7, <1>8, <1>9, <1>10, <1>11, <1>12, <1>13, <1>15, <1>16, <1>17,
           <1>18, <1>19 DEF Step

----------------------------------------------------------------------------
(* Where the handlers are *)

ConnInv ==
    /\ \A f \in Fds : sock[f] = "none" => auth[f].at = "none"
    /\ \A f \in Fds : auth[f].at \in {"getAgent", "login"} => auth[f].subid # 0 /\ auth[f].obj # 0
    /\ \A f \in Fds : auth[f].agent # None <=> auth[f].at = "login"

LoginInv ==
    /\ \A f \in Fds : login[f] # "none" => auth[f].at = "login" /\ Alive(auth[f].agent)
    /\ \A a \in Agents : \A m \in Range(inbox[a]) :
          m.type = "login" => auth[m.fd].at = "login" /\ auth[m.fd].agent = a /\ m.subid <= internal_id

CallerInv ==
    /\ \A c \in Callers : logout[c].agent # None <=> logout[c].at # "none"
    /\ \A c \in Callers : logout[c].at # "none" => Alive(logout[c].agent)
    /\ \A a \in Agents : logout[Exit(a)].agent \in {None, a}

LEMMA HandlersParts == HandlersInv <=> ConnInv /\ LoginInv /\ CallerInv
BY DEF HandlersInv, ConnInv, LoginInv, CallerInv

LEMMA ConnFrame ==
    ASSUME ConnInv, UNCHANGED auth, \A f \in Fds : sock'[f] = "none" => sock[f] = "none"
    PROVE  ConnInv'
BY DEF ConnInv

LEMMA ConnOne ==
    ASSUME ConnInv, NEW f \in Fds, sock'[f] # "none",
           \A g \in Fds : g # f => auth'[g] = auth[g] /\ sock'[g] = sock[g],
           auth'[f].at \in {"getAgent", "login"} => auth'[f].subid # 0 /\ auth'[f].obj # 0,
           auth'[f].agent # None <=> auth'[f].at = "login"
    PROVE  ConnInv'
<1>1. \A g \in Fds : sock'[g] = "none" => auth'[g].at = "none"
  BY DEF ConnInv
<1>2. \A g \in Fds : auth'[g].at \in {"getAgent", "login"} => auth'[g].subid # 0 /\ auth'[g].obj # 0
  BY DEF ConnInv
<1>3. ASSUME NEW g \in Fds PROVE auth'[g].agent # None <=> auth'[g].at = "login"
  BY DEF ConnInv
<1> QED BY <1>1, <1>2, <1>3 DEF ConnInv

LEMMA ConnCalled ==
    ASSUME TypeOK, ConnInv, NEW f \in Fds, NEW s \in 1..internal_id, NEW o \in 1..internal_id, NEW a \in Agents,
           Called(f, s, o, a)
    PROVE  ConnInv'
<1>1. s # 0 /\ o # 0 /\ a # None
  BY Bounds
<1>2. /\ sock'[f] # "none" /\ \A g \in Fds : g # f => auth'[g] = auth[g] /\ sock'[g] = sock[g]
      /\ \/ auth'[f] = [at |-> "login", subid |-> s, obj |-> o, agent |-> a]
         \/ auth'[f].at = "over" /\ auth'[f].agent = None
  BY DEF Called
<1>3. CASE auth'[f] = [at |-> "login", subid |-> s, obj |-> o, agent |-> a]
  <2>1. auth'[f].at = "login" /\ auth'[f].subid # 0 /\ auth'[f].obj # 0 /\ auth'[f].agent # None
    BY <1>1, <1>3
  <2> QED BY <1>2, <2>1, ConnOne
<1>4. CASE auth'[f].at = "over" /\ auth'[f].agent = None
  BY <1>2, <1>4, ConnOne
<1> QED BY <1>2, <1>3, <1>4

\* The call of GotAgent.
LEMMA GotAgentFacts ==
    ASSUME TypeOK, HandlersInv, NEW f \in Fds, NEW a \in Agents, GotAgent(f, a)
    PROVE  /\ auth[f].subid \in 1..internal_id /\ auth[f].obj \in 1..internal_id /\ agent[a].life = "unborn"
           /\ auth[f].at = "getAgent" /\ Called(f, auth[f].subid, auth[f].obj, a)
           /\ agent'[a].life = "alive" /\ \A b \in Agents : b # a => agent'[b] = agent[b]
           /\ inbox[a] = <<>>
           /\ UNCHANGED <<loginVars, internal_id, users, username_map, user_online, kicked, login,
                          logout, mgrVars, toLogin, toGate>>
<1>1. /\ auth[f].subid \in 1..internal_id /\ auth[f].obj \in 1..internal_id /\ agent[a].life = "unborn"
      /\ auth[f].at = "getAgent" /\ CallLogin(f, auth[f].subid, auth[f].obj, a)
      /\ UNCHANGED <<loginVars, internal_id, users, username_map, user_online, kicked, login,
                     logout, mgrVars, toLogin, toGate>>
  <2>1. auth[f].at = "getAgent" /\ auth[f].subid \in 0..internal_id /\ auth[f].obj \in 0..internal_id
    BY DEF GotAgent, TypeOK
  <2>2. auth[f].subid # 0 /\ auth[f].obj # 0
    BY <2>1 DEF HandlersInv
  <2> QED BY <2>1, <2>2, Bounds DEF GotAgent
<1>2. Called(f, auth[f].subid, auth[f].obj, a)
  BY <1>1, CallLoginFacts
<1>3. agent'[a].life = "alive" /\ \A b \in Agents : b # a => agent'[b] = agent[b]
  <2>1. agent' = [agent EXCEPT ![a].life = "alive"] /\ agent \in [Agents -> AgentType]
    BY DEF GotAgent, TypeOK, AgentType
  <2> QED BY <2>1 DEF AgentType
<1>4. inbox[a] = <<>>
  BY <1>1 DEF TypeOK, Alive
<1> QED BY <1>1, <1>2, <1>3, <1>4

\* The end of do_auth, and whose it is.
LEMMA LoginReplyFacts ==
    ASSUME TypeOK, HandlersInv, AuthInv, LoginReply
    PROVE  LET f == Head(toGate).fd IN
           /\ Head(toGate) \in GateMessages /\ Head(toGate) \in Range(toGate) /\ Head(toGate).type = "loggedIn"
           /\ f \in Fds /\ auth[f].at = "login" /\ auth[f].agent \in Agents
           /\ auth'[f].at = "over" /\ auth'[f].agent = None /\ sock'[f] # "none"
           /\ \A g \in Fds : g # f => auth'[g] = auth[g] /\ sock'[g] = sock[g]
           /\ UNCHANGED <<loginVars, tableVars, agentVars, mgrVars, toLogin, inbox>>
<1> DEFINE m == Head(toGate)
           f == m.fd
<1>1. m \in GateMessages /\ m \in Range(toGate) /\ m.type = "loggedIn" /\ f \in Fds /\ m \in LoginAtGate(f)
  BY FromGateFacts, GateRead DEF LoginReply
<1>2. auth[f].at = "login"
  <2>1. Count(toGate, LoginAtGate(f)) # 0
    BY <1>1, CountsAreRanges
  <2> QED BY <1>1, <2>1 DEF AuthInv
<1>3. auth[f].agent \in Agents /\ auth[f].subid \in 1..internal_id
  <2>1. auth[f].agent \in Agents \cup {None} /\ auth[f].subid \in 0..internal_id
    BY <1>1 DEF TypeOK
  <2>2. auth[f].agent # None /\ auth[f].subid # 0
    BY <1>1, <1>2 DEF HandlersInv
  <2> QED BY <2>1, <2>2, Bounds
<1>4. Refuse(f) \/ Establish(f, auth[f].subid)
  BY DEF LoginReply
<1>5. /\ auth'[f].at = "over" /\ auth'[f].agent = None /\ sock'[f] # "none"
      /\ \A g \in Fds : g # f => auth'[g] = auth[g] /\ sock'[g] = sock[g]
  BY <1>1, <1>3, <1>4, RefuseFacts, EstablishFacts
<1> QED BY <1>1, <1>2, <1>3, <1>5 DEF LoginReply

\* What LogoutHere leaves alone.
LEMMA LogoutHereFrame ==
    ASSUME TypeOK, GateKick \/ GateLogout
    PROVE  /\ UNCHANGED <<loginVars, internal_id, users, fdOf, auth, agentVars, mgrVars>>
           /\ \A f \in Fds : sock'[f] = "none" => sock[f] = "none"
BY DEF GateKick, GateLogout, LogoutHere, tableVars, clientVars, TypeOK

LEMMA ConnStep ==
    ASSUME SessionInv, Step
    PROVE  ConnInv'
<1>0. TypeOK /\ TablesInv /\ HandlersInv /\ ConnInv /\ AcceptInv /\ AuthInv /\ RecordsInv /\ CountNeverShort
  BY HandlersParts DEF SessionInv
<1>1. ASSUME UNCHANGED clientVars PROVE ConnInv'
  BY <1>0, <1>1, ConnFrame DEF clientVars
<1>2. CASE Accept \/ LogindLogout \/ KickAnswered \/ LoginAnswered \/ GateKicked \/ AgentExit \/ GateLogoutDone
  BY <1>1, <1>2 DEF Accept, LogindLogout, KickAnswered, LoginAnswered, GateKicked, AgentExit, GateLogoutDone
<1>3. CASE GateLogin
  BY <1>1, <1>3 DEF GateLogin
<1>4. CASE GateKick \/ GateLogout
  BY <1>0, <1>4, LogoutHereFrame, ConnFrame
<1>5. CASE LoginReply
  BY <1>0, <1>5, LoginReplyFacts, ConnOne
<1>7. ASSUME NEW f \in Fds, NEW s \in Subids, NEW index \in {"new", "expired"}, Handshake(f, s, index)
      PROVE  ConnInv'
  <2> DEFINE o == username_map[s]
             a == obj[o].agent
  <2>0. /\ s \in 1..internal_id
        /\ \/ Refuse(f)
           \/ o \in 1..internal_id /\ Await(f, "getAgent", s, o, None)
           \/ o \in 1..internal_id /\ a \in Agents /\ CallLogin(f, s, o, a)
           \/ Establish(f, s)
    BY <1>0, <1>7, HandshakeCases
  <2> HIDE DEF o, a
  <2>1. CASE Refuse(f) \/ Establish(f, s)
    BY <1>0, <2>0, <2>1, RefuseFacts, EstablishFacts, ConnOne
  <2>2. CASE o \in 1..internal_id /\ Await(f, "getAgent", s, o, None)
    <3>1. s \in 0..internal_id /\ o \in 0..internal_id /\ s # 0 /\ o # 0
      BY <1>0, <2>0, <2>2, Bounds
    <3>2. /\ auth'[f] = [at |-> "getAgent", subid |-> s, obj |-> o, agent |-> None] /\ sock'[f] # "none"
          /\ \A g \in Fds : g # f => auth'[g] = auth[g] /\ sock'[g] = sock[g]
      BY <1>0, <2>2, <3>1, AwaitFacts
    <3>3. auth'[f].at = "getAgent" /\ auth'[f].subid # 0 /\ auth'[f].obj # 0 /\ auth'[f].agent = None
      BY <3>1, <3>2
    <3> QED BY <1>0, <3>2, <3>3, ConnOne
  <2>3. CASE o \in 1..internal_id /\ a \in Agents /\ CallLogin(f, s, o, a)
    BY <1>0, <2>0, <2>3, CallLoginFacts, ConnCalled
  <2> QED BY <2>0, <2>1, <2>2, <2>3
<1>8. ASSUME NEW f \in Fds, NEW a \in Agents, GotAgent(f, a) PROVE ConnInv'
  BY <1>0, <1>8, GotAgentFacts, ConnCalled
<1>9. CASE \E f \in Fds : Disconnect(f)
  <2>1. UNCHANGED auth /\ \A f \in Fds : sock'[f] = "none" => sock[f] = "none"
    BY <1>0, <1>9 DEF Disconnect, TypeOK
  <2> QED BY <1>0, <2>1, ConnFrame
<1>10. CASE \/ \E f \in Fds, a \in Agents : RequestLogout(f, a)
            \/ \E f \in Fds : LoginMarked(f) \/ LoginEnd(f) \/ LoginForbidden(f)
            \/ \E a \in Agents : LoginStart(a)
  BY <1>1, <1>10 DEF RequestLogout, LoginStart, LoginMarked, LoginEnd, LoginForbidden
<1>13. CASE \E a \in Agents : Reconnect(a) \/ Afk(a)
  BY <1>1, <1>13 DEF Reconnect, Afk, SetOnline
<1>15. CASE \/ \E a \in Agents : Logout(a) \/ ClientLogout(a) \/ HeartbeatOut(a)
            \/ \E f \in Fds : ForbiddenLogout(f)
            \/ \E c \in Callers : WentOffline(c)
            \/ \E a \in Agents : LogoutDone(a) \/ AgentDies(a)
  BY <1>1, <1>15 DEF Logout, ClientLogout, HeartbeatOut, ForbiddenLogout, WentOffline, LogoutDone, AgentDies
<1> QED BY <1>2, <1>3, <1>4, <1>5, <1>7, <1>8, <1>9, <1>10, <1>13, <1>15 DEF Step

\* What a step keeps that no login begins or ends in.
LEMMA LoginFrame ==
    ASSUME TypeOK, HandlersInv, UNCHANGED auth, \A f \in Fds : login'[f] # "none" => login[f] # "none",
           \A b \in Agents : Alive(b) => agent'[b].life = "alive",
           internal_id' \in Nat, internal_id <= internal_id',
           \A b \in Agents : \A m \in Range(inbox'[b]) : m \in Range(inbox[b]) \/ m.type # "login"
    PROVE  LoginInv'
<1>1. ASSUME NEW f \in Fds, login'[f] # "none" PROVE auth'[f].at = "login" /\ Alive(auth[f].agent)'
  BY <1>1, LoginPlace DEF Alive
<1>2. ASSUME NEW a \in Agents, NEW m \in Range(inbox'[a]), m.type = "login"
      PROVE  auth'[m.fd].at = "login" /\ auth'[m.fd].agent = a /\ m.subid <= internal_id'
  <2>1. m \in Range(inbox[a])
    BY <1>2
  <2>2. auth[m.fd].at = "login" /\ auth[m.fd].agent = a /\ m.subid <= internal_id
    BY <1>2, <2>1 DEF HandlersInv
  <2>3. m \in AgentMessages
    BY <2>1, MessageTypes
  <2>4. m.subid \in 0..MaxLogins /\ internal_id \in Nat
    BY <1>2, <2>3, AgentRead, Bounds
  <2> QED BY <2>2, <2>4
<1> QED BY <1>1, <1>2 DEF LoginInv

\* Only the login of connection f moves: it has begun nowhere, and may be called.
LEMMA LoginOne ==
    ASSUME TypeOK, HandlersInv, NEW f \in Fds, \A g \in Fds : g # f => auth'[g] = auth[g],
           UNCHANGED <<login, internal_id>>, login[f] = "none",
           \A b \in Agents : \A m \in Range(inbox[b]) : m.type = "login" => m.fd # f,
           \A b \in Agents : Alive(b) => agent'[b].life = "alive",
           \A b \in Agents : \A m \in Range(inbox'[b]) :
              \/ m \in Range(inbox[b]) \/ m.type # "login"
              \/ m.fd = f /\ auth'[f].at = "login" /\ auth'[f].agent = b /\ m.subid <= internal_id
    PROVE  LoginInv'
<1>1. ASSUME NEW g \in Fds, login'[g] # "none" PROVE auth'[g].at = "login" /\ Alive(auth[g].agent)'
  <2>1. g # f
    BY <1>1
  <2> QED BY <1>1, <2>1, LoginPlace DEF Alive
<1>2. ASSUME NEW a \in Agents, NEW m \in Range(inbox'[a]), m.type = "login"
      PROVE  auth'[m.fd].at = "login" /\ auth'[m.fd].agent = a /\ m.subid <= internal_id'
  <2>1. CASE m \in Range(inbox[a])
    <3>1. auth[m.fd].at = "login" /\ auth[m.fd].agent = a /\ m.subid <= internal_id /\ m.fd # f
      BY <1>2, <2>1 DEF HandlersInv
    <3>2. m \in AgentMessages
      BY <2>1, MessageTypes
    <3>3. m.fd \in Fds
      BY <1>2, <3>2, AgentRead
    <3> QED BY <3>1, <3>3
  <2>2. CASE m \notin Range(inbox[a])
    BY <1>2, <2>2
  <2> QED BY <2>1, <2>2
<1> QED BY <1>1, <1>2 DEF LoginInv

\* Before do_auth calls, and after it has its answer, its login is nowhere.
LEMMA NoLogin ==
    ASSUME TypeOK, HandlersInv, AuthInv, NEW f \in Fds, auth[f].at # "login" \/ Count(toGate, LoginAtGate(f)) > 0
    PROVE  login[f] = "none" /\ \A b \in Agents : \A m \in Range(inbox[b]) : m.type = "login" => m.fd # f
<1>1. CASE auth[f].at # "login"
  BY <1>1 DEF HandlersInv
<1>2. CASE auth[f].at = "login" /\ Count(toGate, LoginAtGate(f)) > 0
  <2>1. auth[f].agent \in Agents
    <3>1. auth[f].agent # None /\ auth[f].agent \in Agents \cup {None}
      BY <1>2 DEF HandlersInv, TypeOK
    <3> QED BY <3>1
  <2> DEFINE g == Count(toGate, LoginAtGate(f))
             n == Count(inbox[auth[f].agent], LoginAtAgent(f))
  <2>2. g \in Nat /\ n \in Nat
    BY <2>1, CountsAreNat
  <2>3. g + n + (IF login[f] # "none" THEN 1 ELSE 0) = 1 /\ g > 0
    BY <1>2 DEF AuthInv
  <2> HIDE DEF g, n
  <2>4. n = 0 /\ login[f] = "none"
    BY <2>2, <2>3
  <2>5. \A m \in Range(inbox[auth[f].agent]) : m \notin LoginAtAgent(f)
    BY <2>1, <2>4, CountsAreRanges DEF n
  <2>6. ASSUME NEW b \in Agents, NEW m \in Range(inbox[b]), m.type = "login" PROVE m.fd # f
    <3>1. auth[m.fd].agent = b
      BY <2>6 DEF HandlersInv
    <3>2. m \in AgentMessages
      BY MessageTypes
    <3>3. m.fd = f => m \in LoginAtAgent(f)
      BY <2>6, <3>2, AgentRead
    <3> QED BY <2>5, <3>1, <3>3
  <2> QED BY <2>4, <2>6
<1> QED BY <1>1, <1>2

LEMMA LoginCalled ==
    ASSUME TypeOK, HandlersInv, AuthInv, NEW f \in Fds, NEW s, NEW o, NEW a \in Agents, Called(f, s, o, a),
           UNCHANGED <<login, internal_id>>, auth[f].at # "login",
           \A b \in Agents : Alive(b) => agent'[b].life = "alive"
    PROVE  LoginInv'
<1>1. login[f] = "none" /\ \A b \in Agents : \A m \in Range(inbox[b]) : m.type = "login" => m.fd # f
  BY NoLogin
<1>2. \A g \in Fds : g # f => auth'[g] = auth[g]
  BY DEF Called
<1>3. CASE agent[a].life # "dead"
  <2> DEFINE x == [type |-> "login", fd |-> f, subid |-> obj[o].subid]
  <2>1. /\ auth'[f] = [at |-> "login", subid |-> s, obj |-> o, agent |-> a]
        /\ x \in AgentMessages /\ obj[o].subid \in 0..internal_id
        /\ inbox' = [inbox EXCEPT ![a] = Append(@, x)]
    BY <1>3 DEF Called
  <2>2. x.fd = f /\ x.subid <= internal_id /\ auth'[f].at = "login" /\ auth'[f].agent = a
    BY <2>1
  <2> HIDE DEF x
  <2>3. Range(inbox'[a]) = Range(inbox[a]) \cup {x} /\ \A b \in Agents : b # a => inbox'[b] = inbox[b]
    BY <2>1, AppendFacts
  <2>4. ASSUME NEW b \in Agents, NEW m \in Range(inbox'[b])
        PROVE  \/ m \in Range(inbox[b]) \/ m.type # "login"
               \/ m.fd = f /\ auth'[f].at = "login" /\ auth'[f].agent = b /\ m.subid <= internal_id
    BY <2>2, <2>3
  <2> QED BY <1>1, <1>2, <2>4, LoginOne
<1>4. CASE agent[a].life = "dead"
  <2>1. inbox' = inbox
    BY <1>4 DEF Called
  <2> QED BY <1>1, <1>2, <2>1, LoginOne
<1> QED BY <1>3, <1>4

----------------------------------------------------------------------------
(* What the gate sends when it has read a kick or a logout *)

\* The call of accept goes on to an agent, or its answer to the login server.
GoesOn ==
    \/ /\ UNCHANGED inbox
       /\ \E x \in LoginMessages : /\ x \in AcceptAtLogin /\ x.type # "loggedIn" /\ ToLogin(x)
                                   /\ \A c \in Callers, a \in Agents : x \notin LogoutAtLogin(c, a)
    \/ \E a \in Agents : Alive(a) /\ Put(a, [type |-> "logout"]) /\ UNCHANGED toLogin

LEMMA KickedGoesOn ==
    ASSUME NEW ok \in BOOLEAN, ToLogin([type |-> "kicked", ok |-> ok]), UNCHANGED inbox
    PROVE  GoesOn
<1> DEFINE x == [type |-> "kicked", ok |-> ok]
<1>1. /\ x \in LoginMessages /\ x \in AcceptAtLogin /\ x.type = "kicked" /\ ToLogin(x)
      /\ \A c, a : x \notin LogoutAtLogin(c, a)
  BY KickedToLogin
<1> HIDE DEF x
<1> QED BY <1>1 DEF GoesOn

LEMMA LogoutGoesOn ==
    ASSUME TypeOK, NEW d \in Callers, ToLogin([type |-> "logout", caller |-> d, agent |-> None]), UNCHANGED inbox
    PROVE  GoesOn
<1> DEFINE x == [type |-> "logout", caller |-> d, agent |-> None]
<1>1. None \in Agents \cup {None} /\ None \notin Agents
  BY Bounds
<1>2. /\ x \in LoginMessages /\ x \in AcceptAtLogin /\ x.type = "logout" /\ ToLogin(x)
      /\ \A c, a : x \in LogoutAtLogin(c, a) <=> c = d /\ a = None
  BY <1>1, LogoutToLogin
<1> HIDE DEF x
<1> QED BY <1>1, <1>2 DEF GoesOn

LEMMA KickAgentGoesOn ==
    ASSUME TypeOK, NEW a \in Agents \cup {None}, KickAgent(a)
    PROVE  GoesOn
<1>1. CASE a \in Agents /\ Alive(a) /\ Put(a, [type |-> "logout"]) /\ UNCHANGED toLogin
  BY <1>1 DEF GoesOn
<1>2. CASE ToLogin([type |-> "kicked", ok |-> TRUE]) /\ UNCHANGED inbox
  BY <1>2, KickedGoesOn
<1> QED BY <1>1, <1>2, KickAgentSends

LEMMA GateKickGoesOn ==
    ASSUME TypeOK, GateKick
    PROVE  GoesOn /\ Head(toGate) \in GateMessages /\ Head(toGate).type = "kick" /\ Head(toGate) \in Range(toGate)
<1> DEFINE m == Head(toGate)
<1>0. m \in GateMessages /\ m.type = "kick" /\ m \in Range(toGate)
  BY FromGateFacts DEF GateKick
<1>1. CASE users = 0 \/ (users # 0 /\ obj[users].subid = m.subid /\ obj[users].agent = None)
  <2>1. ToLogin([type |-> "logout", caller |-> Kick, agent |-> None]) /\ UNCHANGED inbox
    BY <1>1 DEF GateKick
  <2> QED BY <1>0, <2>1, LogoutGoesOn, CallerFacts
<1>2. CASE users # 0 /\ obj[users].subid # m.subid
  <2>1. ToLogin([type |-> "kicked", ok |-> FALSE]) /\ UNCHANGED inbox
    BY <1>2 DEF GateKick
  <2> QED BY <1>0, <2>1, KickedGoesOn
<1>3. CASE users # 0 /\ obj[users].subid = m.subid /\ obj[users].agent # None
  <2>1. KickAgent(obj[users].agent)
    BY <1>3 DEF GateKick
  <2>2. obj[users].agent \in Agents \cup {None}
    BY <1>3, Bounds DEF TypeOK
  <2> QED BY <1>0, <2>1, <2>2, KickAgentGoesOn
<1> QED BY <1>1, <1>2, <1>3

LEMMA GateLogoutDoneCases ==
    ASSUME TypeOK, GateLogoutDone
    PROVE  LET m == Head(toGate) IN
           /\ m \in GateMessages /\ m.type = "logoutDone" /\ m \in Range(toGate) /\ m.caller \in Callers
           /\ \/ m.agent = None /\ GoesOn
              \/ /\ m.agent \in Agents /\ UNCHANGED toLogin
                 /\ Put(m.agent, [type |-> "logoutDone", caller |-> m.caller, ok |-> TRUE])
<1>1. Head(toGate) \in GateMessages /\ Head(toGate).type = "logoutDone" /\ Head(toGate) \in Range(toGate)
  BY FromGateFacts DEF GateLogoutDone
<1> QED BY <1>1, GateLogoutDoneSends, KickAgentGoesOn

LEMMA GateLogoutCases ==
    ASSUME TypeOK, GateLogout
    PROVE  LET m == Head(toGate) IN
           /\ m \in GateMessages /\ m.type = "logout" /\ m \in Range(toGate)
           /\ m.caller \in Callers /\ m.agent \in Agents /\ m.subid \in 0..MaxLogins
           /\ \/ Put(m.agent, [type |-> "logoutDone", caller |-> m.caller, ok |-> FALSE]) /\ UNCHANGED toLogin
              \/ ToLogin([type |-> "logout", caller |-> m.caller, agent |-> m.agent]) /\ UNCHANGED inbox
<1> DEFINE m == Head(toGate)
<1>1. /\ m \in GateMessages /\ m.type = "logout" /\ m \in Range(toGate)
      /\ m.caller \in Callers /\ m.agent \in Agents /\ m.subid \in 0..MaxLogins
  BY FromGateFacts, GateRead DEF GateLogout
<1>2. \/ Send(m.agent, [type |-> "logoutDone", caller |-> m.caller, ok |-> FALSE]) /\ UNCHANGED toLogin
      \/ ToLogin([type |-> "logout", caller |-> m.caller, agent |-> m.agent]) /\ UNCHANGED inbox
  BY DEF GateLogout
<1> QED BY <1>1, <1>2, SendPuts

LEMMA PlainMessage ==
    \A t \in {"reconnect", "afk", "request", "logout"} : [type |-> t].type # "login"
OBVIOUS

\* A message that is not a login joins a queue, or a message leaves it.
LEMMA LoginPut ==
    ASSUME TypeOK, NEW a, NEW m \in AgentMessages, m.type # "login", Put(a, m)
    PROVE  \A b \in Agents : \A x \in Range(inbox'[b]) : x \in Range(inbox[b]) \/ x.type # "login"
<1>1. \A b \in Agents : Range(inbox'[b]) = Range(inbox[b]) \cup (IF b = a /\ Alive(b) THEN {m} ELSE {})
  BY PutFacts
<1>2. \A b \in Agents : \A x \in Range(inbox'[b]) : x \in Range(inbox[b]) \/ x = m
  BY <1>1
<1> QED BY <1>2

LEMMA LoginTook ==
    ASSUME TypeOK, NEW a \in Agents, Took(a)
    PROVE  \A b \in Agents : \A x \in Range(inbox'[b]) : x \in Range(inbox[b])
BY TookFacts

LEMMA LoginStep ==
    ASSUME SessionInv, Step
    PROVE  LoginInv'
<1>0. TypeOK /\ TablesInv /\ HandlersInv /\ AcceptInv /\ AuthInv /\ RecordsInv /\ CountNeverShort
  BY DEF SessionInv
<1> DEFINE Plain == \A b \in Agents : \A m \in Range(inbox'[b]) : m \in Range(inbox[b]) \/ m.type # "login"
           Living == \A b \in Agents : Alive(b) => agent'[b].life = "alive"
<1>i. internal_id \in Nat /\ internal_id <= internal_id
  BY <1>0, Bounds
<1>1. ASSUME UNCHANGED auth, UNCHANGED internal_id, Plain, Living,
             \A f \in Fds : login'[f] # "none" => login[f] # "none"
      PROVE  LoginInv'
  BY <1>0, <1>1, <1>i, LoginFrame
<1>2. Plain \/ inbox' # inbox
  OBVIOUS
<1>3. Living \/ agent' # agent
  BY DEF Alive
<1>p. ASSUME NEW a, NEW t \in {"reconnect", "afk", "request", "logout"}, Put(a, [type |-> t]) PROVE Plain
  <2>1. [type |-> t] \in AgentMessages
    BY PlainToAgent
  <2> QED BY <1>0, <1>p, <2>1, PlainMessage, LoginPut
<1>d. ASSUME NEW a, NEW c \in Callers, NEW ok \in BOOLEAN, Put(a, [type |-> "logoutDone", caller |-> c, ok |-> ok])
      PROVE  Plain
  <2> DEFINE x == [type |-> "logoutDone", caller |-> c, ok |-> ok]
  <2>1. x \in AgentMessages /\ x.type # "login" /\ Put(a, x)
    BY <1>d, LogoutDoneToAgent
  <2> HIDE DEF x
  <2> QED BY <1>0, <2>1, LoginPut
<1>t. ASSUME NEW a \in Agents, Took(a) PROVE Plain
  BY <1>0, <1>t, LoginTook
<1>l. ASSUME NEW a \in Agents, NEW beat, Leaves(a, beat) PROVE Living
  BY <1>l, LeavesLife DEF Alive
<1>g. ASSUME GoesOn PROVE Plain
  BY <1>2, <1>p, <1>g DEF GoesOn
<1> HIDE DEF Plain, Living
<1>4. CASE Accept \/ LogindLogout \/ KickAnswered \/ LoginAnswered \/ GateKicked \/ AgentExit
  BY <1>1, <1>2, <1>3, <1>4
     DEF Accept, LogindLogout, KickAnswered, LoginAnswered, GateKicked, AgentExit, tableVars, clientVars, agentVars
<1>5. CASE GateLogin
  <2>1. UNCHANGED <<auth, login, agent, inbox>>
    BY <1>5 DEF GateLogin, clientVars, agentVars
  <2>2. internal_id' \in Nat /\ internal_id <= internal_id'
    <3>1. internal_id' = internal_id \/ internal_id' = internal_id + 1
      BY <1>5 DEF GateLogin, tableVars
    <3> QED BY <1>i, <3>1
  <2>3. Plain /\ Living
    BY <1>2, <1>3, <2>1
  <2> QED BY <1>0, <2>1, <2>2, <2>3, LoginFrame DEF Plain, Living
<1>6. CASE GateKick
  <2>1. UNCHANGED <<auth, login, agent, internal_id>>
    BY <1>0, <1>6, LogoutHereFrame DEF agentVars
  <2>2. Plain
    BY <1>0, <1>6, <1>g, GateKickGoesOn
  <2> QED BY <1>1, <1>3, <2>1, <2>2
<1>7. CASE GateLogout
  <2>1. UNCHANGED <<auth, login, agent, internal_id>>
    BY <1>0, <1>7, LogoutHereFrame DEF agentVars
  <2>2. Plain
    BY <1>0, <1>2, <1>7, <1>d, GateLogoutCases
  <2> QED BY <1>1, <1>3, <2>1, <2>2
<1>8. CASE GateLogoutDone
  <2>1. UNCHANGED <<auth, login, agent, internal_id>>
    BY <1>8 DEF GateLogoutDone, clientVars, agentVars
  <2>2. Plain
    BY <1>0, <1>8, <1>d, <1>g, GateLogoutDoneCases
  <2> QED BY <1>1, <1>3, <2>1, <2>2
<1>9. CASE LoginReply
  <2> DEFINE f == Head(toGate).fd
  <2>1. /\ f \in Fds /\ \A g \in Fds : g # f => auth'[g] = auth[g]
        /\ UNCHANGED <<login, internal_id, inbox, agent>>
        /\ Count(toGate, LoginAtGate(f)) > 0
    <3>1. /\ Head(toGate) \in GateMessages /\ Head(toGate) \in Range(toGate) /\ Head(toGate).type = "loggedIn"
          /\ f \in Fds /\ \A g \in Fds : g # f => auth'[g] = auth[g]
          /\ UNCHANGED <<login, internal_id, inbox, agent>>
      BY <1>0, <1>9, LoginReplyFacts DEF tableVars, agentVars
    <3>2. Count(toGate, LoginAtGate(f)) \in Nat /\ Count(toGate, LoginAtGate(f)) # 0
      <4>1. Head(toGate) \in LoginAtGate(f)
        BY <3>1, GateRead
      <4> QED BY <1>0, <3>1, <4>1, CountsAreNat, CountsAreRanges
    <3> QED BY <3>1, <3>2
  <2> HIDE DEF f
  <2>2. login[f] = "none" /\ \A b \in Agents : \A m \in Range(inbox[b]) : m.type = "login" => m.fd # f
    BY <1>0, <2>1, NoLogin
  <2>3. Living
    BY <1>3, <2>1
  <2> QED BY <1>0, <2>1, <2>2, <2>3, LoginOne DEF Living
<1>10. ASSUME NEW f \in Fds, NEW s \in Subids, NEW index \in {"new", "expired"}, Handshake(f, s, index)
       PROVE  LoginInv'
  <2> DEFINE o == username_map[s]
             a == obj[o].agent
  <2>0. /\ s \in 1..internal_id /\ auth[f].at # "login" /\ UNCHANGED <<login, internal_id, agent>>
        /\ \/ Refuse(f) /\ UNCHANGED inbox
           \/ o \in 1..internal_id /\ Await(f, "getAgent", s, o, None) /\ UNCHANGED inbox
           \/ o \in 1..internal_id /\ a \in Agents /\ CallLogin(f, s, o, a)
           \/ Establish(f, s) /\ Put(a, [type |-> "reconnect"])
    BY <1>0, <1>10, HandshakeCases DEF agentVars
  <2> HIDE DEF o, a
  <2>1. login[f] = "none" /\ \A b \in Agents : \A m \in Range(inbox[b]) : m.type = "login" => m.fd # f
    BY <1>0, <2>0, NoLogin
  <2>2. Living
    BY <1>3, <2>0
  <2>3. ASSUME \A g \in Fds : g # f => auth'[g] = auth[g], Plain PROVE LoginInv'
    BY <1>0, <2>0, <2>1, <2>2, <2>3, LoginOne DEF Living, Plain
  <2>4. CASE Refuse(f) /\ UNCHANGED inbox
    BY <1>0, <1>2, <2>3, <2>4, RefuseFacts
  <2>5. CASE o \in 1..internal_id /\ Await(f, "getAgent", s, o, None) /\ UNCHANGED inbox
    <3>1. s \in 0..internal_id /\ o \in 0..internal_id
      BY <1>0, <2>0, <2>5, Bounds
    <3> QED BY <1>0, <1>2, <2>3, <2>5, <3>1, AwaitFacts
  <2>6. CASE o \in 1..internal_id /\ a \in Agents /\ CallLogin(f, s, o, a)
    BY <1>0, <2>0, <2>2, <2>6, CallLoginFacts, LoginCalled DEF Living
  <2>7. CASE Establish(f, s) /\ Put(a, [type |-> "reconnect"])
    BY <1>0, <1>p, <2>0, <2>3, <2>7, EstablishFacts
  <2> QED BY <2>0, <2>4, <2>5, <2>6, <2>7
<1>11. ASSUME NEW f \in Fds, NEW a \in Agents, GotAgent(f, a) PROVE LoginInv'
  <2>1. /\ auth[f].at # "login" /\ Called(f, auth[f].subid, auth[f].obj, a) /\ UNCHANGED <<login, internal_id>>
        /\ agent'[a].life = "alive" /\ \A b \in Agents : b # a => agent'[b] = agent[b]
    BY <1>0, <1>11, GotAgentFacts
  <2>2. \A b \in Agents : Alive(b) => agent'[b].life = "alive"
    BY <2>1 DEF Alive
  <2> QED BY <1>0, <2>1, <2>2, LoginCalled
<1>12. ASSUME NEW f \in Fds, Disconnect(f) PROVE LoginInv'
  <2>1. UNCHANGED <<auth, login, internal_id, agent>>
    BY <1>12 DEF Disconnect, agentVars, tableVars
  <2>2. Plain
    BY <1>0, <1>2, <1>12, <1>p, TypeDisconnect
  <2> QED BY <1>1, <1>3, <2>1, <2>2
<1>13. ASSUME NEW f \in Fds, NEW a \in Agents, RequestLogout(f, a) PROVE LoginInv'
  <2>1. UNCHANGED <<auth, login, internal_id, agent>>
    BY <1>13 DEF RequestLogout, clientVars, tableVars
  <2>2. Plain
    BY <1>0, <1>13, <1>p, TypeRequestLogout
  <2> QED BY <1>1, <1>3, <2>1, <2>2
<1>14. ASSUME NEW a \in Agents, LoginStart(a) PROVE LoginInv'
  <2> DEFINE m == Head(inbox[a])
  <2>1. Started(a) /\ UNCHANGED <<auth, internal_id>>
    BY <1>0, <1>14, LoginStartFacts DEF LoginStart, clientVars, tableVars
  <2>2. /\ Took(a) /\ m.fd \in Fds /\ auth[m.fd].at = "login" /\ auth[m.fd].agent = a
        /\ Alive(a) /\ (\A b \in Agents : agent'[b].life = agent[b].life)
        /\ \A g \in Fds : g # m.fd => login'[g] = login[g]
    <3>1. m \in Range(inbox[a]) /\ m.type = "login"
      BY <2>1 DEF Started
    <3>2. auth[m.fd].at = "login" /\ auth[m.fd].agent = a
      BY <1>0, <3>1 DEF HandlersInv
    <3> QED BY <2>1, <3>2 DEF Started
  <2> HIDE DEF m
  <2>3. \A g \in Fds : login'[g] # "none" => auth[g].at = "login" /\ auth[g].agent \in Agents /\ Alive(auth[g].agent)
    BY <1>0, <2>2, LoginPlace
  <2>4. \A b \in Agents : \A x \in Range(inbox'[b]) : x \in Range(inbox[b])
    BY <1>0, <2>2, LoginTook
  <2>5. \A g \in Fds : login'[g] # "none" => auth'[g].at = "login" /\ Alive(auth[g].agent)'
    BY <2>1, <2>2, <2>3 DEF Alive
  <2>6. ASSUME NEW b \in Agents, NEW x \in Range(inbox'[b]), x.type = "login"
        PROVE  auth'[x.fd].at = "login" /\ auth'[x.fd].agent = b /\ x.subid <= internal_id'
    BY <1>0, <2>1, <2>4, <2>6 DEF HandlersInv
  <2> QED BY <2>1, <2>5, <2>6 DEF LoginInv
<1>15. ASSUME NEW f \in Fds, LoginMarked(f) \/ LoginEnd(f) \/ LoginForbidden(f) PROVE LoginInv'
  <2>1. UNCHANGED <<auth, internal_id, inbox>> /\ (Logged(f, "db") \/ Logged(f, "none"))
    BY <1>0, <1>15, LoginMarkedFacts, LoginEndFacts
       DEF LoginMarked, LoginEnd, LoginForbidden, clientVars, tableVars
  <2>2. /\ login[f] # "none" /\ \A g \in Fds : g # f => login'[g] = login[g]
        /\ \A b \in Agents : agent'[b].life = agent[b].life
    BY <2>1 DEF Logged
  <2>3. Living
    BY <2>2 DEF Living, Alive
  <2> QED BY <1>1, <1>2, <2>1, <2>2, <2>3
<1>16. ASSUME NEW a \in Agents, Reconnect(a) \/ Afk(a) PROVE LoginInv'
  <2>1. /\ Took(a) /\ (\A b \in Agents : agent'[b].life = agent[b].life)
        /\ UNCHANGED <<tableVars, clientVars, login>>
    BY <1>0, <1>16, SetOnlineFacts DEF Reconnect, Afk
  <2>2. Living
    BY <2>1 DEF Living, Alive
  <2> QED BY <1>1, <1>t, <2>1, <2>2 DEF tableVars, clientVars
<1>17. ASSUME NEW a \in Agents, Logout(a) \/ ClientLogout(a) \/ HeartbeatOut(a) PROVE LoginInv'
  <2>1. /\ UNCHANGED <<tableVars, clientVars, login>> /\ (Took(a) \/ UNCHANGED inbox)
        /\ \E beat : Leaves(a, beat)
    BY <1>0, <1>17, LogoutFacts, ClientLogoutFacts, HeartbeatOutFacts
  <2> QED BY <1>1, <1>2, <1>t, <1>l, <2>1 DEF tableVars, clientVars
<1>18. ASSUME NEW f \in Fds, ForbiddenLogout(f) PROVE LoginInv'
  <2>1. /\ UNCHANGED <<tableVars, clientVars, login, inbox>>
        /\ \E a \in Agents : \E beat : Leaves(a, beat)
    BY <1>0, <1>18, ForbiddenLogoutFacts
  <2> QED BY <1>1, <1>2, <1>l, <2>1 DEF tableVars, clientVars
<1>19. ASSUME NEW c \in Callers, WentOffline(c) PROVE LoginInv'
  <2>1. UNCHANGED <<tableVars, clientVars, login, inbox, agent>>
    BY <1>0, <1>19, WentOfflineFacts
  <2> QED BY <1>1, <1>2, <1>3, <2>1 DEF tableVars, clientVars
<1>20. ASSUME NEW a \in Agents, LogoutDone(a) PROVE LoginInv'
  <2>1. Took(a) /\ UNCHANGED <<tableVars, clientVars, login, agent>>
    BY <1>0, <1>20, LogoutDoneFacts DEF Ends
  <2> QED BY <1>1, <1>3, <1>t, <2>1 DEF tableVars, clientVars
<1>21. ASSUME NEW a \in Agents, AgentDies(a) PROVE LoginInv'
  <2>1. Died(a) /\ UNCHANGED <<auth, internal_id>>
    BY <1>0, <1>21, AgentDiesFacts DEF Died, clientVars, tableVars
  <2>2. /\ \A f \in Fds : login'[f] = IF auth[f].agent = a THEN "none" ELSE login[f]
        /\ inbox'[a] = <<>> /\ \A b \in Agents : b # a => inbox'[b] = inbox[b] /\ agent'[b] = agent[b]
    BY <2>1 DEF Died
  <2>3. ASSUME NEW f \in Fds, login'[f] # "none" PROVE auth'[f].at = "login" /\ Alive(auth[f].agent)'
    <3>1. auth[f].agent # a /\ login[f] # "none"
      BY <2>2, <2>3
    <3>2. auth[f].at = "login" /\ auth[f].agent \in Agents /\ Alive(auth[f].agent)
      BY <1>0, <3>1, LoginPlace
    <3> QED BY <2>1, <2>2, <3>1, <3>2 DEF Alive
  <2>4. ASSUME NEW b \in Agents, NEW m \in Range(inbox'[b]), m.type = "login"
        PROVE  auth'[m.fd].at = "login" /\ auth'[m.fd].agent = b /\ m.subid <= internal_id'
    <3>1. b # a
      BY <2>2, <2>4, EmptyRange
    <3>2. m \in Range(inbox[b])
      BY <2>2, <2>4, <3>1
    <3> QED BY <1>0, <2>1, <2>4, <3>2 DEF HandlersInv
  <2> QED BY <2>1, <2>3, <2>4 DEF LoginInv
<1> QED BY <1>4, <1>5, <1>6, <1>7, <1>8, <1>9, <1>10, <1>11, <1>12, <1>13, <1>14, <1>15, <1>16, <1>17, <1>18,
           <1>19, <1>20, <1>21 DEF Step

LEMMA CallerFrame ==
    ASSUME TypeOK, HandlersInv, UNCHANGED logout, \A b \in Agents : Alive(b) => agent'[b].life = "alive"
    PROVE  CallerInv'
<1>1. \A c \in Callers : logout'[c].at # "none" => Alive(logout[c].agent)'
  BY RunsIn DEF Alive
<1> QED BY <1>1 DEF CallerInv, HandlersInv

\* _logoutComplete of caller c is at another place, in agent a.
LEMMA CallerOne ==
    ASSUME TypeOK, HandlersInv, NEW c \in Callers, NEW a \in Agents,
           logout'[c].at # "none", logout'[c].agent = a, \A d \in Callers : d # c => logout'[d] = logout[d],
           Alive(a), \A b \in Agents : Alive(b) => agent'[b].life = "alive",
           \A b \in Agents : c = Exit(b) => a = b
    PROVE  CallerInv'
<1>1. a # None
  BY Bounds
<1>2. ASSUME NEW d \in Callers
      PROVE  /\ logout'[d].agent # None <=> logout'[d].at # "none"
             /\ logout'[d].at # "none" => agent'[logout'[d].agent].life = "alive"
  <2>1. CASE d = c
    BY <1>1, <2>1
  <2>2. CASE d # c
    BY <2>2, RunsIn DEF HandlersInv
  <2> QED BY <2>1, <2>2
<1>3. ASSUME NEW b \in Agents PROVE logout'[Exit(b)].agent \in {None, b}
  <2>1. Exit(b) \in Callers
    BY CallerFacts
  <2>2. CASE Exit(b) = c
    BY <2>2
  <2>3. CASE Exit(b) # c
    BY <2>1, <2>3 DEF HandlersInv
  <2> QED BY <2>2, <2>3
<1>4. \A d \in Callers : logout'[d].at # "none" => Alive(logout[d].agent)'
  BY <1>2 DEF Alive
<1> QED BY <1>2, <1>3, <1>4 DEF CallerInv

\* A caller that is free again.
LEMMA CallerNone ==
    ASSUME TypeOK, HandlersInv, NEW c \in Callers, logout'[c].at = "none", logout'[c].agent = None,
           \A d \in Callers : d # c => logout'[d] = logout[d],
           \A b \in Agents : Alive(b) => agent'[b].life = "alive"
    PROVE  CallerInv'
<1>1. \A d \in Callers : logout'[d].agent # None <=> logout'[d].at # "none"
  BY DEF HandlersInv
<1>2. \A d \in Callers : logout'[d].at # "none" => Alive(logout[d].agent) /\ logout[d].agent \in Agents
                                                /\ logout'[d] = logout[d]
  BY RunsIn
<1>3. ASSUME NEW b \in Agents PROVE logout'[Exit(b)].agent \in {None, b}
  <2>1. Exit(b) \in Callers /\ logout[Exit(b)].agent \in {None, b}
    BY CallerFacts DEF HandlersInv
  <2> QED BY <2>1
<1>4. \A d \in Callers : logout'[d].at # "none" => agent'[logout'[d].agent].life = "alive"
  BY <1>2
<1> QED BY <1>1, <1>3, <1>4 DEF CallerInv, Alive

LEMMA CallerCompletes ==
    ASSUME TypeOK, HandlersInv, NEW c \in Callers, NEW a \in Agents, Completes(c, a), Alive(a),
           \A b \in Agents : Alive(b) => agent'[b].life = "alive",
           \A b \in Agents : c = Exit(b) => a = b
    PROVE  CallerInv'
<1>1. \A d \in Callers : d # c => logout'[d] = logout[d]
  BY DEF Completes
<1>2. CASE Goes(c, a)
  <2>1. logout'[c] = [at |-> "gate", agent |-> a] \/ logout'[c] = [at |-> "offline", agent |-> a]
    BY <1>2 DEF Goes, Tells
  <2>2. logout'[c].at # "none" /\ logout'[c].agent = a
    BY <2>1
  <2> QED BY <1>1, <2>2, CallerOne
<1>3. CASE Fails(c)
  BY <1>1, <1>3, CallerNone DEF Fails
<1> QED BY <1>2, <1>3 DEF Completes

LEMMA CallerStep ==
    ASSUME SessionInv, Step
    PROVE  CallerInv'
<1>0. TypeOK /\ TablesInv /\ HandlersInv /\ AcceptInv /\ AuthInv /\ LogoutInv /\ RecordsInv /\ CountNeverShort
  BY DEF SessionInv
<1> DEFINE Living == \A b \in Agents : Alive(b) => agent'[b].life = "alive"
<1>1. ASSUME UNCHANGED logout, Living PROVE CallerInv'
  BY <1>0, <1>1, CallerFrame
<1>2. Living \/ agent' # agent
  BY DEF Alive
<1>3. ASSUME NEW a \in Agents, NEW beat, Leaves(a, beat) PROVE Living
  BY <1>3, LeavesLife DEF Alive
<1>4. ASSUME NEW a \in Agents, NEW c \in Callers, c \in {Kick, ByClient, Exit(a)} \/ \E f \in Fds : c = Forbid(f)
      PROVE  \A b \in Agents : c = Exit(b) => a = b
  BY <1>4, CallerFacts
<1> HIDE DEF Living
<1>5. CASE \/ Accept \/ LogindLogout \/ KickAnswered \/ LoginAnswered \/ GateKicked \/ AgentExit \/ GateLogin
           \/ GateKick \/ GateLogout \/ GateLogoutDone \/ LoginReply
  BY <1>1, <1>2, <1>5
     DEF Accept, LogindLogout, KickAnswered, LoginAnswered, GateKicked, AgentExit, GateLogin, GateKick, GateLogout,
         GateLogoutDone, LoginReply, agentVars
<1>6. CASE \/ \E f \in Fds, s \in Subids, index \in {"new", "expired"} : Handshake(f, s, index)
           \/ \E f \in Fds : Disconnect(f)
  BY <1>1, <1>2, <1>6 DEF Handshake, Disconnect, agentVars
<1>7. ASSUME NEW f \in Fds, NEW a \in Agents, GotAgent(f, a) PROVE CallerInv'
  <2>1. UNCHANGED logout /\ agent'[a].life = "alive" /\ \A b \in Agents : b # a => agent'[b] = agent[b]
    BY <1>0, <1>7, GotAgentFacts
  <2>2. Living
    BY <2>1 DEF Living, Alive
  <2> QED BY <1>1, <2>1, <2>2
<1>8. ASSUME NEW f \in Fds, NEW a \in Agents, RequestLogout(f, a) PROVE CallerInv'
  <2>1. /\ UNCHANGED agent /\ Alive(a) /\ ByClient \in Callers
        /\ logout' = [logout EXCEPT ![ByClient] = [at |-> "asked", agent |-> a]]
        /\ logout \in [Callers -> [at : {"none", "asked", "offline", "gate"}, agent : Agents \cup {None}]]
    BY <1>0, <1>8, CallerFacts DEF RequestLogout, Serves, TypeOK
  <2>2. /\ logout'[ByClient].at # "none" /\ logout'[ByClient].agent = a
        /\ \A d \in Callers : d # ByClient => logout'[d] = logout[d]
    BY <2>1
  <2> QED BY <1>0, <1>2, <1>4, <2>1, <2>2, CallerOne DEF Living
<1>9. ASSUME NEW a \in Agents, LoginStart(a) PROVE CallerInv'
  <2>1. Started(a) /\ UNCHANGED logout
    BY <1>0, <1>9, LoginStartFacts DEF LoginStart
  <2>2. Living
    BY <2>1 DEF Started, Living, Alive
  <2> QED BY <1>1, <2>1, <2>2
<1>10. ASSUME NEW f \in Fds, LoginMarked(f) \/ LoginEnd(f) PROVE CallerInv'
  <2>1. UNCHANGED logout /\ (Logged(f, "db") \/ Logged(f, "none"))
    BY <1>0, <1>10, LoginMarkedFacts, LoginEndFacts DEF LoginMarked, LoginEnd
  <2>2. Living
    BY <2>1 DEF Logged, Living, Alive
  <2> QED BY <1>1, <2>1, <2>2
<1>11. ASSUME NEW f \in Fds, LoginForbidden(f) PROVE CallerInv'
  <2> DEFINE a == auth[f].agent
  <2>1. Logged(f, "none")
    BY <1>0, <1>11, LoginEndFacts
  <2>2. a \in Agents /\ Alive(a) /\ Living
    BY <2>1 DEF Logged, Living, Alive
  <2>3. /\ Forbid(f) \in Callers /\ logout' = [logout EXCEPT ![Forbid(f)] = [at |-> "asked", agent |-> a]]
        /\ logout \in [Callers -> [at : {"none", "asked", "offline", "gate"}, agent : Agents \cup {None}]]
    BY <1>0, <1>11, CallerFacts DEF LoginForbidden, TypeOK
  <2> HIDE DEF a
  <2>4. /\ logout'[Forbid(f)].at # "none" /\ logout'[Forbid(f)].agent = a
        /\ \A d \in Callers : d # Forbid(f) => logout'[d] = logout[d]
    BY <2>3
  <2> QED BY <1>0, <1>4, <2>2, <2>3, <2>4, CallerOne DEF Living
<1>12. ASSUME NEW a \in Agents, Reconnect(a) \/ Afk(a) PROVE CallerInv'
  <2>1. (\A b \in Agents : agent'[b].life = agent[b].life) /\ UNCHANGED logout
    BY <1>0, <1>12, SetOnlineFacts DEF Reconnect, Afk
  <2>2. Living
    BY <2>1 DEF Living, Alive
  <2> QED BY <1>1, <2>1, <2>2
<1>13. ASSUME NEW a \in Agents, NEW c \in Callers, Completes(c, a), Alive(a), Living,
              c \in {Kick, ByClient, Exit(a)} \/ \E f \in Fds : c = Forbid(f)
       PROVE  CallerInv'
  BY <1>0, <1>4, <1>13, CallerCompletes DEF Living
<1>14. ASSUME NEW a \in Agents, Logout(a) \/ ClientLogout(a) \/ HeartbeatOut(a) PROVE CallerInv'
  <2>1. \E c \in {Kick, ByClient, Exit(a)} : Completes(c, a)
    BY <1>0, <1>14, LogoutFacts, ClientLogoutFacts, HeartbeatOutFacts
  <2>2. (Took(a) \/ Alive(a)) /\ \E beat : Leaves(a, beat)
    BY <1>0, <1>14, LogoutFacts, ClientLogoutFacts, HeartbeatOutFacts
  <2> QED BY <1>0, <1>3, <1>13, <2>1, <2>2, TookFacts, CallerFacts
<1>15. ASSUME NEW f \in Fds, ForbiddenLogout(f) PROVE CallerInv'
  BY <1>0, <1>3, <1>13, <1>15, ForbiddenLogoutFacts, CallerFacts
<1>16. ASSUME NEW c \in Callers, WentOffline(c) PROVE CallerInv'
  <2> DEFINE a == logout[c].agent
  <2>1. a \in Agents /\ Alive(a) /\ Completes(c, a) /\ Living
    BY <1>0, <1>2, <1>16, WentOfflineFacts
  <2>2. \A b \in Agents : c = Exit(b) => a = b
    <3>1. a # None
      BY <1>0, <2>1, Bounds
    <3> QED BY <1>0, <3>1 DEF HandlersInv
  <2> QED BY <1>0, <2>1, <2>2, CallerCompletes DEF Living
<1>17. ASSUME NEW a \in Agents, LogoutDone(a) PROVE CallerInv'
  <2> DEFINE c == Head(inbox[a]).caller
  <2>1. /\ c \in Callers /\ logout'[c].at = "none" /\ logout'[c].agent = None
        /\ \A d \in Callers : d # c => logout'[d] = logout[d]
        /\ UNCHANGED agent
    BY <1>0, <1>17, LogoutDoneFacts DEF Ends
  <2> HIDE DEF c
  <2> QED BY <1>0, <2>1, CallerNone DEF Alive
<1>18. ASSUME NEW a \in Agents, AgentDies(a) PROVE CallerInv'
  <2>1. /\ \A c \in Callers : logout'[c] = IF logout[c].agent = a THEN NoLogout ELSE logout[c]
        /\ \A b \in Agents : b # a => agent'[b] = agent[b]
    BY <1>0, <1>18, AgentDiesFacts DEF Died
  <2>2. NoLogout.at = "none" /\ NoLogout.agent = None
    BY DEF NoLogout
  <2>3. \A d \in Callers : logout'[d].agent # None <=> logout'[d].at # "none"
    BY <1>0, <2>1, <2>2 DEF HandlersInv
  <2>4. ASSUME NEW d \in Callers, logout'[d].at # "none" PROVE agent'[logout'[d].agent].life = "alive"
    <3>1. logout'[d] = logout[d] /\ logout[d].agent # a
      BY <2>1, <2>2, <2>4
    <3>2. logout[d].agent \in Agents /\ Alive(logout[d].agent)
      BY <1>0, <2>4, <3>1, RunsIn
    <3> QED BY <2>1, <3>1, <3>2 DEF Alive
  <2>5. ASSUME NEW b \in Agents PROVE logout'[Exit(b)].agent \in {None, b}
    <3>1. Exit(b) \in Callers /\ logout[Exit(b)].agent \in {None, b}
      BY <1>0, CallerFacts DEF HandlersInv
    <3> QED BY <2>1, <2>2, <3>1
  <2> QED BY <2>3, <2>4, <2>5 DEF CallerInv, Alive
<1> QED BY <1>5, <1>6, <1>7, <1>8, <1>9, <1>10, <1>11, <1>12, <1>14, <1>15, <1>16, <1>17, <1>18 DEF Step

LEMMA HandlersStep ==
    ASSUME SessionInv, Step
    PROVE  HandlersInv'
BY ConnStep, LoginStep, CallerStep, HandlersParts, PTL

----------------------------------------------------------------------------
(* Messages that are not counted leave a count as it is *)

LEMMA LoginFrames ==
    ASSUME TypeOK, NEW S,
           \/ UNCHANGED toLogin
           \/ \E m \in LoginMessages : m \notin S /\ ToLogin(m)
           \/ \E t : Next1(toLogin, t) /\ toLogin' = Tail(toLogin) /\ Head(toLogin) \notin S
    PROVE  Count(toLogin', S) = Count(toLogin, S)
<1>0. Count(toLogin, S) \in Nat
  BY CountsAreNat
<1>1. CASE UNCHANGED toLogin
  BY <1>1
<1>2. ASSUME NEW m \in LoginMessages, m \notin S, ToLogin(m) PROVE Count(toLogin', S) = Count(toLogin, S)
  BY <1>0, <1>2, ToLoginFacts
<1>3. ASSUME NEW t, Next1(toLogin, t), toLogin' = Tail(toLogin), Head(toLogin) \notin S
      PROVE  Count(toLogin', S) = Count(toLogin, S)
  <2>1. /\ toLogin' \in Seq(LoginMessages)
        /\ Count(toLogin, S) = Count(toLogin', S) + (IF Head(toLogin) \in S THEN 1 ELSE 0)
    BY <1>3, FromLoginFacts
  <2>2. Count(toLogin', S) \in Nat
    BY <2>1, CountNat
  <2> QED BY <1>3, <2>1, <2>2
<1> QED BY <1>1, <1>2, <1>3

LEMMA GateFrames ==
    ASSUME TypeOK, NEW S,
           \/ UNCHANGED toGate
           \/ \E m \in GateMessages : m \notin S /\ ToGate(m)
           \/ \E t : Next1(toGate, t) /\ toGate' = Tail(toGate) /\ Head(toGate) \notin S
    PROVE  Count(toGate', S) = Count(toGate, S)
<1>0. Count(toGate, S) \in Nat
  BY CountsAreNat
<1>1. CASE UNCHANGED toGate
  BY <1>1
<1>2. ASSUME NEW m \in GateMessages, m \notin S, ToGate(m) PROVE Count(toGate', S) = Count(toGate, S)
  BY <1>0, <1>2, ToGateFacts
<1>3. ASSUME NEW t, Next1(toGate, t), toGate' = Tail(toGate), Head(toGate) \notin S
      PROVE  Count(toGate', S) = Count(toGate, S)
  <2>1. /\ toGate' \in Seq(GateMessages)
        /\ Count(toGate, S) = Count(toGate', S) + (IF Head(toGate) \in S THEN 1 ELSE 0)
    BY <1>3, FromGateFacts
  <2>2. Count(toGate', S) \in Nat
    BY <2>1, CountNat
  <2> QED BY <1>3, <2>1, <2>2
<1> QED BY <1>1, <1>2, <1>3

LEMMA AgentFrames ==
    ASSUME TypeOK, NEW S,
           \/ UNCHANGED inbox
           \/ \E a : \E m \in AgentMessages : m \notin S /\ Put(a, m)
           \/ \E a \in Agents : Took(a) /\ Head(inbox[a]) \notin S
    PROVE  \A b \in Agents : Count(inbox'[b], S) = Count(inbox[b], S)
<1>0. \A b \in Agents : Count(inbox[b], S) \in Nat
  BY CountsAreNat
<1>1. CASE UNCHANGED inbox
  BY <1>1
<1>2. ASSUME NEW a, NEW m \in AgentMessages, m \notin S, Put(a, m)
      PROVE  \A b \in Agents : Count(inbox'[b], S) = Count(inbox[b], S)
  <2>1. \A b \in Agents : Count(inbox'[b], S) = Count(inbox[b], S) + (IF b = a /\ Alive(b) /\ m \in S THEN 1 ELSE 0)
    BY <1>2, PutFacts
  <2> QED BY <1>0, <1>2, <2>1
<1>3. ASSUME NEW a \in Agents, Took(a), Head(inbox[a]) \notin S, NEW b \in Agents
      PROVE  Count(inbox'[b], S) = Count(inbox[b], S)
  <2>1. /\ inbox' \in [Agents -> Seq(AgentMessages)]
        /\ Count(inbox[b], S) = Count(inbox'[b], S) + (IF b = a /\ Head(inbox[b]) \in S THEN 1 ELSE 0)
    BY <1>3, TookFacts
  <2>2. Count(inbox'[b], S) \in Nat
    BY <2>1, CountNat
  <2>3. ~(b = a /\ Head(inbox[b]) \in S)
    BY <1>3
  <2> QED BY <2>1, <2>2, <2>3
<1> QED BY <1>1, <1>2, <1>3

----------------------------------------------------------------------------
(* Where the call of accept is *)

LoginHas == Count(toLogin, AcceptAtLogin)
GateHas  == Count(toGate, AcceptAtGate)
KickRuns == logout[Kick].at # "none"

AcceptNowhere  == LoginHas = 0 /\ GateHas = 0 /\ (\A a \in Agents : KickAsks(a) = 0) /\ ~KickRuns
AcceptInLogin  == LoginHas = 1 /\ GateHas = 0 /\ (\A a \in Agents : KickAsks(a) = 0) /\ ~KickRuns
AcceptInGate   == LoginHas = 0 /\ GateHas = 1 /\ (\A a \in Agents : KickAsks(a) = 0) /\ ~KickRuns
AcceptAsks(a)  == /\ LoginHas = 0 /\ GateHas = 0 /\ ~KickRuns
                  /\ KickAsks(a) = 1 /\ \A b \in Agents : b # a => KickAsks(b) = 0
AcceptRuns     == LoginHas = 0 /\ GateHas = 0 /\ (\A a \in Agents : KickAsks(a) = 0) /\ KickRuns

AcceptPlace ==
    \/ accept = "idle" /\ AcceptNowhere
    \/ accept # "idle" /\ (AcceptInLogin \/ AcceptInGate \/ AcceptRuns \/ \E a \in Agents : AcceptAsks(a))

LEMMA AcceptPlaces ==
    ASSUME LoginHas \in Nat, GateHas \in Nat, \A a \in Agents : KickAsks(a) \in Nat
    PROVE  AcceptInv <=> AcceptPlace
<1> DEFINE asks == \E a \in Agents : KickAsks(a) > 0
<1>1. AcceptInv <=> /\ \A a \in Agents : KickAsks(a) <= 1
                    /\ \A a, b \in Agents : KickAsks(a) > 0 /\ KickAsks(b) > 0 => a = b
                    /\ LoginHas + GateHas + (IF asks THEN 1 ELSE 0) + (IF KickRuns THEN 1 ELSE 0)
                          = IF accept = "idle" THEN 0 ELSE 1
  BY DEF AcceptInv, LoginHas, GateHas, KickRuns
<1> HIDE DEF asks
<1>2. ~asks <=> \A a \in Agents : KickAsks(a) = 0
  BY DEF asks
<1>3. ASSUME AcceptInv PROVE AcceptPlace
  <2>1. CASE accept = "idle"
    <3>1. LoginHas = 0 /\ GateHas = 0 /\ ~asks /\ ~KickRuns
      BY <1>1, <1>3, <2>1
    <3> QED BY <1>2, <2>1, <3>1 DEF AcceptPlace, AcceptNowhere
  <2>2. CASE accept # "idle" /\ asks
    <3>1. LoginHas = 0 /\ GateHas = 0 /\ ~KickRuns
      BY <1>1, <1>3, <2>2
    <3>2. PICK a \in Agents : KickAsks(a) > 0
      BY <2>2 DEF asks
    <3>3. KickAsks(a) = 1
      BY <1>1, <1>3, <3>2
    <3>4. ASSUME NEW b \in Agents, b # a PROVE KickAsks(b) = 0
      <4>1. ~(KickAsks(b) > 0)
        BY <1>1, <1>3, <3>2, <3>4
      <4> QED BY <4>1
    <3>5. AcceptAsks(a)
      BY <3>1, <3>3, <3>4 DEF AcceptAsks
    <3> QED BY <2>2, <3>5 DEF AcceptPlace
  <2>3. CASE accept # "idle" /\ ~asks
    <3>1. \/ LoginHas = 1 /\ GateHas = 0 /\ ~KickRuns
          \/ LoginHas = 0 /\ GateHas = 1 /\ ~KickRuns
          \/ LoginHas = 0 /\ GateHas = 0 /\ KickRuns
      BY <1>1, <1>3, <2>3
    <3> QED BY <1>2, <2>3, <3>1 DEF AcceptPlace, AcceptInLogin, AcceptInGate, AcceptRuns
  <2> QED BY <2>1, <2>2, <2>3
<1>4. ASSUME AcceptPlace PROVE AcceptInv
  <2>1. CASE accept = "idle" /\ AcceptNowhere
    BY <1>1, <1>2, <2>1 DEF AcceptNowhere
  <2>2. CASE accept # "idle" /\ (AcceptInLogin \/ AcceptInGate \/ AcceptRuns)
    BY <1>1, <1>2, <2>2 DEF AcceptInLogin, AcceptInGate, AcceptRuns
  <2>3. ASSUME accept # "idle", NEW a \in Agents, AcceptAsks(a) PROVE AcceptInv
    <3>1. /\ LoginHas = 0 /\ GateHas = 0 /\ ~KickRuns /\ KickAsks(a) = 1
          /\ \A b \in Agents : b # a => KickAsks(b) = 0
      BY <2>3 DEF AcceptAsks
    <3>2. asks
      BY <3>1 DEF asks
    <3>3. \A b \in Agents : KickAsks(b) <= 1 /\ (KickAsks(b) > 0 => b = a)
      BY <3>1
    <3> QED BY <1>1, <2>3, <3>1, <3>2, <3>3
  <2> QED BY <1>4, <2>1, <2>2, <2>3 DEF AcceptPlace
<1> QED BY <1>3, <1>4

LEMMA AcceptPlaceNow ==
    TypeOK => (AcceptInv <=> AcceptPlace)
BY CountsAreNat, AcceptPlaces DEF LoginHas, GateHas, KickAsks

LEMMA AcceptPlaceThen ==
    TypeOK' => (AcceptInv' <=> AcceptPlace')
BY AcceptPlaceNow, PTL

LEMMA AcceptFrame ==
    ASSUME AcceptPlace, LoginHas' = LoginHas, GateHas' = GateHas,
           \A a \in Agents : KickAsks(a)' = KickAsks(a),
           KickRuns' <=> KickRuns, accept' = "idle" <=> accept = "idle"
    PROVE  AcceptPlace'
BY DEF AcceptPlace, AcceptNowhere, AcceptInLogin, AcceptInGate, AcceptRuns, AcceptAsks

\* A message other than a kick's logout joins the queue of an agent, or is read.
LEMMA KickPut ==
    ASSUME TypeOK, NEW b, NEW m \in AgentMessages, m \notin AcceptAtAgent, Put(b, m)
    PROVE  \A a \in Agents : KickAsks(a)' = KickAsks(a)
BY AgentFrames DEF KickAsks

LEMMA KickTook ==
    ASSUME TypeOK, NEW b \in Agents, Took(b), Head(inbox[b]) \notin AcceptAtAgent
    PROVE  \A a \in Agents : KickAsks(a)' = KickAsks(a)
BY AgentFrames DEF KickAsks

\* A message that has nothing to do with the call of accept leaves or joins a queue.
LEMMA LoginHasFrame ==
    ASSUME TypeOK,
           \/ UNCHANGED toLogin
           \/ \E m \in LoginMessages : m \notin AcceptAtLogin /\ ToLogin(m)
           \/ \E t : Next1(toLogin, t) /\ toLogin' = Tail(toLogin) /\ Head(toLogin) \notin AcceptAtLogin
    PROVE  LoginHas' = LoginHas
BY LoginFrames DEF LoginHas

LEMMA GateHasFrame ==
    ASSUME TypeOK,
           \/ UNCHANGED toGate
           \/ \E m \in GateMessages : m \notin AcceptAtGate /\ ToGate(m)
           \/ \E t : Next1(toGate, t) /\ toGate' = Tail(toGate) /\ Head(toGate) \notin AcceptAtGate
    PROVE  GateHas' = GateHas
BY GateFrames DEF GateHas

\* A message of the call of accept joins or leaves a queue.
LEMMA LoginHasMore ==
    ASSUME TypeOK, NEW m \in LoginMessages, m \in AcceptAtLogin, ToLogin(m)
    PROVE  LoginHas' = LoginHas + 1
BY ToLoginFacts DEF LoginHas

LEMMA GateHasMore ==
    ASSUME TypeOK, NEW m \in GateMessages, m \in AcceptAtGate, ToGate(m)
    PROVE  GateHas' = GateHas + 1
BY ToGateFacts DEF GateHas

LEMMA LoginHasLess ==
    ASSUME TypeOK, AcceptInv, NEW t, Next1(toLogin, t), toLogin' = Tail(toLogin), Head(toLogin) \in AcceptAtLogin
    PROVE  accept # "idle" /\ AcceptInLogin /\ LoginHas' = 0
<1>0. /\ toLogin' \in Seq(LoginMessages) /\ Head(toLogin) \in Range(toLogin)
      /\ LoginHas = LoginHas' + (IF Head(toLogin) \in AcceptAtLogin THEN 1 ELSE 0)
  BY FromLoginFacts DEF LoginHas
<1>1. LoginHas = LoginHas' + 1 /\ LoginHas' \in Nat
  <2>1. LoginHas' \in Nat
    BY <1>0, CountNat DEF LoginHas
  <2> QED BY <1>0, <2>1
<1>2. accept # "idle" /\ AcceptInLogin
  BY <1>0, AtLogin DEF AcceptInLogin, LoginHas, GateHas, KickRuns
<1> QED BY <1>1, <1>2 DEF AcceptInLogin, LoginHas

LEMMA GateHasLess ==
    ASSUME TypeOK, AcceptInv, NEW t, Next1(toGate, t), toGate' = Tail(toGate), Head(toGate) \in AcceptAtGate
    PROVE  accept # "idle" /\ AcceptInGate /\ GateHas' = 0
<1>0. /\ toGate' \in Seq(GateMessages) /\ Head(toGate) \in Range(toGate)
      /\ GateHas = GateHas' + (IF Head(toGate) \in AcceptAtGate THEN 1 ELSE 0)
  BY FromGateFacts DEF GateHas
<1>1. GateHas = GateHas' + 1 /\ GateHas' \in Nat
  <2>1. GateHas' \in Nat
    BY <1>0, CountNat DEF GateHas
  <2> QED BY <1>0, <2>1
<1>2. accept # "idle" /\ AcceptInGate
  BY <1>0, AtGate DEF AcceptInGate, LoginHas, GateHas, KickRuns
<1> QED BY <1>1, <1>2 DEF AcceptInGate, GateHas

\* The gate has read a message of the call, and it goes on.
LEMMA AcceptGoesOn ==
    ASSUME TypeOK, AcceptInv, NEW t, Next1(toGate, t), toGate' = Tail(toGate), Head(toGate) \in AcceptAtGate,
           GoesOn, UNCHANGED <<accept, logout>>
    PROVE  AcceptPlace'
<1>0. accept # "idle" /\ AcceptInGate /\ GateHas' = 0 /\ (KickRuns' <=> KickRuns)
  BY GateHasLess DEF KickRuns
<1>1. ASSUME UNCHANGED inbox, NEW m \in LoginMessages, m \in AcceptAtLogin, ToLogin(m) PROVE AcceptPlace'
  <2>1. LoginHas' = LoginHas + 1 /\ \A a \in Agents : KickAsks(a)' = KickAsks(a)
    BY <1>1, LoginHasMore DEF KickAsks
  <2>2. accept' # "idle" /\ AcceptInLogin'
    BY <1>0, <2>1 DEF AcceptInGate, AcceptInLogin
  <2> QED BY <2>2 DEF AcceptPlace
<1>2. ASSUME NEW a \in Agents, Alive(a), Put(a, [type |-> "logout"]), UNCHANGED toLogin PROVE AcceptPlace'
  <2> DEFINE m == [type |-> "logout"]
  <2>1. m \in AgentMessages /\ m \in AcceptAtAgent /\ Put(a, m)
    BY <1>2, PlainToAgent
  <2> HIDE DEF m
  <2>2. /\ LoginHas' = LoginHas
        /\ \A b \in Agents : KickAsks(b)' = KickAsks(b) + (IF b = a THEN 1 ELSE 0)
    BY <1>2, <2>1, PutFacts DEF KickAsks, LoginHas
  <2>3. accept' # "idle" /\ AcceptAsks(a)'
    BY <1>0, <2>2 DEF AcceptInGate, AcceptAsks
  <2> QED BY <2>3 DEF AcceptPlace
<1> QED BY <1>1, <1>2 DEF GoesOn

\* Who has an answer coming from the gate, waits for it.
LEMMA GateAwaited ==
    ASSUME TypeOK, LogoutInv, NEW c \in Callers, NEW a \in Agents, agent[a].life # "dead",
           \/ \E m \in Range(inbox[a]) : m \in LogoutAtAgent(c)
           \/ \E m \in Range(toGate) : m \in LogoutAtGate(c, a)
           \/ \E m \in Range(toLogin) : m \in LogoutAtLogin(c, a)
    PROVE  logout[c].at = "gate" /\ logout[c].agent = a
<1> DEFINE i == Count(inbox[a], LogoutAtAgent(c))
           g == Count(toGate, LogoutAtGate(c, a))
           l == Count(toLogin, LogoutAtLogin(c, a))
<1>1. i \in Nat /\ g \in Nat /\ l \in Nat
  BY CountsAreNat
<1>2. i # 0 \/ g # 0 \/ l # 0
  BY CountsAreRanges
<1>3. l + g + i = IF logout[c].at = "gate" /\ logout[c].agent = a THEN 1 ELSE 0
  BY DEF LogoutInv, LogoutTokens
<1> HIDE DEF i, g, l
<1> QED BY <1>1, <1>2, <1>3

LEMMA AcceptDies ==
    ASSUME TypeOK, HandlersInv, AcceptInv, NEW a \in Agents, Died(a)
    PROVE  AcceptPlace'
<1>0. AcceptPlace
  BY AcceptPlaceNow
<1>1. LoginHas' = LoginHas /\ accept' = accept
  BY DEF Died, LoginHas, loginVars
<1>2. /\ GateHas' = GateHas + (IF KickWaits(a) THEN 1 ELSE 0)
      /\ \A b \in Agents : b # a => KickAsks(b)' = KickAsks(b)
  BY DEF Died, GateHas, KickAsks
<1>3. KickAsks(a)' = 0
  <2>1. inbox'[a] = <<>>
    BY DEF Died
  <2> QED BY <2>1, CountEmpty DEF KickAsks
<1>4. KickRuns' <=> KickRuns /\ logout[Kick].agent # a
  <2>1. logout'[Kick] = IF logout[Kick].agent = a THEN NoLogout ELSE logout[Kick]
    BY CallerFacts DEF Died
  <2>2. NoLogout.at = "none"
    BY DEF NoLogout
  <2> QED BY <2>1, <2>2 DEF KickRuns
<1>5. CASE logout[Kick].agent = a
  <2>1. KickRuns
    <3>1. a # None /\ Kick \in Callers
      BY Bounds, CallerFacts
    <3> QED BY <1>5, <3>1 DEF HandlersInv, KickRuns
  <2>2. KickWaits(a)
    BY <1>5 DEF KickWaits
  <2>3. accept # "idle" /\ LoginHas = 0 /\ GateHas = 0 /\ \A b \in Agents : KickAsks(b) = 0
    BY <2>1, AtHandler DEF KickRuns, LoginHas, GateHas
  <2>4. GateHas' = 1
    BY <1>2, <2>2, <2>3
  <2>5. AcceptInGate'
    BY <1>1, <1>2, <1>3, <1>4, <1>5, <2>3, <2>4 DEF AcceptInGate
  <2> QED BY <1>1, <2>3, <2>5 DEF AcceptPlace
<1>6. CASE \E m \in Range(inbox[a]) : m.type = "logout"
  <2>1. PICK m \in Range(inbox[a]) : m.type = "logout"
    BY <1>6
  <2>2. m \in AcceptAtAgent
    BY <2>1, MessageTypes, AgentRead
  <2>3. KickWaits(a)
    BY <1>6 DEF KickWaits
  <2>4. /\ accept # "idle" /\ LoginHas = 0 /\ GateHas = 0 /\ ~KickRuns
        /\ \A b \in Agents : b # a => KickAsks(b) = 0
    BY <2>2, AtAgent DEF KickRuns, LoginHas, GateHas
  <2>5. GateHas' = 1
    BY <1>2, <2>3, <2>4
  <2>6. AcceptInGate'
    BY <1>1, <1>2, <1>3, <1>4, <2>4, <2>5 DEF AcceptInGate
  <2> QED BY <1>1, <2>4, <2>6 DEF AcceptPlace
<1>7. CASE ~(logout[Kick].agent = a) /\ ~(\E m \in Range(inbox[a]) : m.type = "logout")
  <2>1. KickAsks(a) = 0
    <3>1. \A m \in Range(inbox[a]) : m \notin AcceptAtAgent
      BY <1>7, MessageTypes, AgentRead
    <3> QED BY <3>1, CountsAreRanges DEF KickAsks
  <2>2. GateHas' = GateHas
    <3>1. ~KickWaits(a) /\ GateHas \in Nat
      BY <1>7, CountsAreNat DEF KickWaits, GateHas
    <3> QED BY <1>2, <3>1
  <2>3. \A b \in Agents : KickAsks(b)' = KickAsks(b)
    BY <1>2, <1>3, <2>1
  <2>4. KickRuns' <=> KickRuns
    BY <1>4, <1>7
  <2> QED BY <1>0, <1>1, <2>2, <2>3, <2>4, AcceptFrame
<1> QED BY <1>5, <1>6, <1>7

\* The login server answers a logout with the message it has read.
LEMMA LogoutRelayed ==
    ASSUME NEW m \in LoginMessages, m.type = "logout"
    PROVE  LET x == [m EXCEPT !.type = "logoutDone"] IN
           /\ x \in GateMessages /\ x.type = "logoutDone" /\ x.caller = m.caller /\ x.agent = m.agent
<1>1. m \in [type : {"logout"}, caller : Callers, agent : Agents \cup {None}]
  BY DEF LoginMessages
<1> QED BY <1>1 DEF GateMessages

\* What _logoutComplete of another caller than the kick does to the call of accept: nothing.
LEMMA CompletesPlace ==
    ASSUME TypeOK, NEW c \in Callers, NEW a \in Agents, Completes(c, a)
    PROVE  /\ \A d \in Callers : d # c => logout'[d] = logout[d]
           /\ c # Kick => GateHas' = GateHas
           /\ Goes(c, a) => GateHas' = GateHas /\ logout'[c].at # "none"
           /\ Fails(c) => logout'[c].at = "none" /\ (c = Kick => GateHas' = GateHas + 1)
<1>1. CASE Tells(c, a)
  <2> DEFINE m == [type |-> "logout", caller |-> c, agent |-> a, subid |-> agent[a].subid]
  <2>1. ToGate(m) /\ m \in GateMessages /\ logout'[c] = [at |-> "gate", agent |-> a] /\ agent[a].subid \in 0..internal_id
    BY <1>1 DEF Tells
  <2>2. m \notin AcceptAtGate
    BY <2>1, LogoutToGate, Bounds
  <2>3. logout'[c].at # "none"
    BY <2>1
  <2> HIDE DEF m
  <2>4. GateHas' = GateHas
    BY <2>1, <2>2, GateHasFrame
  <2> QED BY <2>3, <2>4 DEF Completes, Fails
<1>2. CASE logout'[c] = [at |-> "offline", agent |-> a] /\ UNCHANGED toGate
  BY <1>2 DEF Completes, Fails, GateHas
<1>3. CASE Fails(c)
  <2>1. c = Kick => GateHas' = GateHas + 1
    BY <1>3, KickedToGate, GateHasMore DEF Fails
  <2>2. c # Kick => GateHas' = GateHas
    BY <1>3 DEF Fails, GateHas
  <2>3. logout'[c].at = "none" /\ ~Goes(c, a)
    BY <1>3 DEF Fails, Goes, Tells
  <2> QED BY <2>1, <2>2, <2>3 DEF Completes
<1> QED BY <1>1, <1>2, <1>3 DEF Completes, Goes

LEMMA AcceptStep ==
    ASSUME SessionInv, Step
    PROVE  AcceptInv'
<1>0. TypeOK /\ TablesInv /\ HandlersInv /\ AcceptInv /\ AuthInv /\ LogoutInv /\ RecordsInv /\ CountNeverShort
  BY DEF SessionInv
<1> SUFFICES AcceptPlace'
  BY TypeStep, AcceptPlaceThen
<1>p. AcceptPlace
  BY <1>0, AcceptPlaceNow
<1> DEFINE Asks  == \A a \in Agents : KickAsks(a)' = KickAsks(a)
           Waits == accept' = "idle" <=> accept = "idle"
           Runs  == KickRuns' <=> KickRuns
<1>1. ASSUME LoginHas' = LoginHas, GateHas' = GateHas, Asks, Runs, Waits PROVE AcceptPlace'
  BY <1>1, <1>p, AcceptFrame
<1>2. /\ UNCHANGED accept => Waits
      /\ UNCHANGED logout => Runs
      /\ UNCHANGED inbox => Asks
  BY DEF KickRuns, KickAsks
<1>3. /\ UNCHANGED toLogin => LoginHas' = LoginHas
      /\ UNCHANGED toGate => GateHas' = GateHas
  BY DEF LoginHas, GateHas
<1>4. ASSUME NEW a, NEW t \in {"reconnect", "afk", "request"}, Put(a, [type |-> t]) PROVE Asks
  <2> DEFINE m == [type |-> t]
  <2>1. m \in AgentMessages /\ m \notin AcceptAtAgent /\ Put(a, m)
    BY <1>4, PlainToAgent
  <2> HIDE DEF m
  <2> QED BY <1>0, <2>1, KickPut
<1>5. ASSUME NEW a, NEW c \in Callers, NEW ok \in BOOLEAN, Put(a, [type |-> "logoutDone", caller |-> c, ok |-> ok])
      PROVE  Asks
  <2> DEFINE m == [type |-> "logoutDone", caller |-> c, ok |-> ok]
  <2>1. m \in AgentMessages /\ m \notin AcceptAtAgent /\ Put(a, m)
    BY <1>5, LogoutDoneToAgent
  <2> HIDE DEF m
  <2> QED BY <1>0, <2>1, KickPut
<1>6. ASSUME NEW a \in Agents, Took(a), Head(inbox[a]).type # "logout" PROVE Asks
  <2>1. Head(inbox[a]) \in AgentMessages
    BY <1>0, <1>6, TookFacts
  <2>2. Head(inbox[a]) \notin AcceptAtAgent
    BY <1>6, <2>1, AgentRead
  <2> QED BY <1>0, <1>6, <2>2, KickTook
<1>7. ASSUME NEW f \in Fds, NEW s, NEW o, NEW a \in Agents, Called(f, s, o, a) PROVE Asks
  <2>1. CASE agent[a].life # "dead"
    <3> DEFINE m == [type |-> "login", fd |-> f, subid |-> obj[o].subid]
    <3>1. m \in AgentMessages /\ inbox' = [inbox EXCEPT ![a] = Append(@, m)] /\ obj[o].subid \in 0..internal_id
      BY <1>7, <2>1 DEF Called
    <3>2. m \notin AcceptAtAgent
      BY <3>1 DEF AcceptAtAgent
    <3> HIDE DEF m
    <3>3. \A b \in Agents : KickAsks(b)' = KickAsks(b) + (IF b = a /\ m \in AcceptAtAgent THEN 1 ELSE 0)
      <4>1. \A b \in Agents : \A S :
               Count(inbox'[b], S) = Count(inbox[b], S) + (IF b = a /\ m \in S THEN 1 ELSE 0)
        BY <1>0, <3>1, AppendFacts, Zenon
      <4> QED BY <4>1 DEF KickAsks
    <3>4. \A b \in Agents : KickAsks(b) \in Nat
      BY <1>0, CountsAreNat DEF KickAsks
    <3> QED BY <3>2, <3>3, <3>4
  <2>2. CASE agent[a].life = "dead"
    <3>1. inbox' = inbox
      BY <1>7, <2>2 DEF Called
    <3> QED BY <1>2, <3>1
  <2> QED BY <2>1, <2>2
<1> HIDE DEF Asks, Waits, Runs

<1>10. CASE Accept
  <2>1. /\ accept = "idle" /\ accept' \in {"kick", "login"} /\ UNCHANGED <<toLogin, inbox, logout>>
        /\ ToGate([type |-> accept', subid |-> online]) /\ online \in 0..MaxLogins
    BY <1>0, <1>10, Bounds DEF Accept, agentVars, TypeOK
  <2>2. GateHas' = GateHas + 1
    <3> DEFINE m == [type |-> accept', subid |-> online]
    <3>1. m \in GateMessages /\ m \in AcceptAtGate /\ ToGate(m)
      BY <2>1, CallToGate
    <3> HIDE DEF m
    <3> QED BY <1>0, <3>1, GateHasMore
  <2>3. AcceptNowhere
    BY <1>p, <2>1 DEF AcceptPlace
  <2>4. AcceptInGate'
    BY <1>2, <1>3, <2>1, <2>2, <2>3 DEF AcceptNowhere, AcceptInGate, Asks, Runs
  <2> QED BY <2>1, <2>4 DEF AcceptPlace
<1>11. CASE LogindLogout
  <2> DEFINE m == Head(toLogin)
             x == [m EXCEPT !.type = "logoutDone"]
  <2>1. /\ m \in LoginMessages /\ m.type = "logout" /\ Next1(toLogin, "logout") /\ toLogin' = Tail(toLogin)
        /\ m.caller \in Callers /\ m.agent \in Agents \cup {None} /\ (m \in AcceptAtLogin <=> m.agent = None)
        /\ UNCHANGED <<accept, logout, inbox>> /\ ToGate(x)
    BY <1>0, <1>11, FromLoginFacts, LoginRead DEF LogindLogout, agentVars
  <2>2. x \in GateMessages /\ (x \in AcceptAtGate <=> m.agent = None)
    BY <2>1, LogoutRelayed, GateRead
  <2> HIDE DEF m, x
  <2>3. CASE m.agent = None
    <3>1. accept # "idle" /\ AcceptInLogin /\ LoginHas' = 0
      BY <1>0, <2>1, <2>3, LoginHasLess DEF m
    <3>2. GateHas' = GateHas + 1
      BY <1>0, <2>1, <2>2, <2>3, GateHasMore
    <3>3. AcceptInGate'
      BY <1>2, <2>1, <3>1, <3>2 DEF AcceptInLogin, AcceptInGate, Asks, Runs
    <3> QED BY <2>1, <3>1, <3>3 DEF AcceptPlace
  <2>4. CASE m.agent # None
    <3>1. LoginHas' = LoginHas
      BY <1>0, <2>1, <2>4, LoginHasFrame DEF m
    <3>2. GateHas' = GateHas
      BY <1>0, <2>1, <2>2, <2>4, GateHasFrame
    <3> QED BY <1>1, <1>2, <2>1, <3>1, <3>2
  <2> QED BY <2>3, <2>4
<1>12. CASE KickAnswered
  <2> DEFINE m == Head(toLogin)
  <2>1. /\ m \in LoginMessages /\ m.type = "kicked" /\ Next1(toLogin, "kicked") /\ toLogin' = Tail(toLogin)
        /\ UNCHANGED <<logout, inbox>>
        /\ \/ accept' = "login" /\ ToGate([type |-> "login", subid |-> 0])
           \/ accept' = "idle" /\ UNCHANGED toGate
    BY <1>0, <1>12, FromLoginFacts DEF KickAnswered, agentVars
  <2>2. m \in AcceptAtLogin
    BY <2>1, LoginRead
  <2>3. accept # "idle" /\ AcceptInLogin /\ LoginHas' = 0
    BY <1>0, <2>1, <2>2, LoginHasLess
  <2>4. CASE accept' = "login" /\ ToGate([type |-> "login", subid |-> 0])
    <3> DEFINE x == [type |-> "login", subid |-> 0]
    <3>1. x \in GateMessages /\ x \in AcceptAtGate /\ ToGate(x)
      BY <2>4, CallToGate, SessionAssumption
    <3> HIDE DEF x
    <3>2. GateHas' = GateHas + 1
      BY <1>0, <3>1, GateHasMore
    <3>3. AcceptInGate'
      BY <1>2, <2>1, <2>3, <3>2 DEF AcceptInLogin, AcceptInGate, Asks, Runs
    <3> QED BY <2>4, <3>3 DEF AcceptPlace
  <2>5. CASE accept' = "idle" /\ UNCHANGED toGate
    <3>1. AcceptNowhere'
      BY <1>2, <1>3, <2>1, <2>3, <2>5 DEF AcceptInLogin, AcceptNowhere, Asks, Runs
    <3> QED BY <2>5, <3>1 DEF AcceptPlace
  <2> QED BY <2>1, <2>4, <2>5
<1>13. CASE LoginAnswered
  <2> DEFINE m == Head(toLogin)
  <2>1. /\ m \in LoginMessages /\ m.type = "loggedIn" /\ Next1(toLogin, "loggedIn") /\ toLogin' = Tail(toLogin)
        /\ UNCHANGED <<logout, inbox, toGate>> /\ accept' = "idle"
    BY <1>0, <1>13, FromLoginFacts DEF LoginAnswered, agentVars
  <2>2. m \in AcceptAtLogin
    BY <2>1, LoginRead
  <2>3. accept # "idle" /\ AcceptInLogin /\ LoginHas' = 0
    BY <1>0, <2>1, <2>2, LoginHasLess
  <2>4. AcceptNowhere'
    BY <1>2, <1>3, <2>1, <2>3 DEF AcceptInLogin, AcceptNowhere, Asks, Runs
  <2> QED BY <2>1, <2>4 DEF AcceptPlace
<1>14. CASE GateLogin \/ GateKicked
  <2>1. \E t \in {"login", "kicked"} : Next1(toGate, t) /\ toGate' = Tail(toGate) /\ Head(toGate).type = t
    BY <1>14 DEF GateLogin, GateKicked, Next1
  <2>2. Head(toGate) \in AcceptAtGate
    BY <1>0, <2>1, FromGateFacts, GateRead
  <2>3. accept # "idle" /\ AcceptInGate /\ GateHas' = 0
    BY <1>0, <2>1, <2>2, GateHasLess
  <2>4. UNCHANGED <<accept, logout, inbox>>
    BY <1>14 DEF GateLogin, GateKicked, loginVars, agentVars
  <2>5. \E x \in LoginMessages : x \in AcceptAtLogin /\ ToLogin(x)
    <3>1. \/ \E s \in 0..MaxLogins : ToLogin([type |-> "loggedIn", subid |-> s])
          \/ ToLogin([type |-> "kicked", ok |-> TRUE])
      <4>1. CASE GateLogin
        <5>1. 0 \in 0..MaxLogins
          BY SessionAssumption
        <5>2. LoggedNew \/ ToLogin([type |-> "loggedIn", subid |-> 0])
          BY <1>0, <4>1, GateLoginFacts
        <5>3. LoggedNew => internal_id + 1 \in 0..MaxLogins /\ ToLogin([type |-> "loggedIn", subid |-> internal_id + 1])
          BY <1>0, Bounds DEF LoggedNew
        <5> QED BY <5>1, <5>2, <5>3
      <4>2. CASE GateKicked
        BY <4>2 DEF GateKicked
      <4> QED BY <1>14, <4>1, <4>2
    <3>2. ASSUME NEW s \in 0..MaxLogins, ToLogin([type |-> "loggedIn", subid |-> s])
          PROVE  \E x \in LoginMessages : x \in AcceptAtLogin /\ ToLogin(x)
      BY <3>2, LoggedInToLogin
    <3>3. ASSUME ToLogin([type |-> "kicked", ok |-> TRUE])
          PROVE  \E x \in LoginMessages : x \in AcceptAtLogin /\ ToLogin(x)
      BY <3>3, KickedToLogin
    <3> QED BY <3>1, <3>2, <3>3
  <2>6. LoginHas' = LoginHas + 1
    BY <1>0, <2>5, LoginHasMore
  <2>7. AcceptInLogin'
    BY <1>2, <2>3, <2>4, <2>6 DEF AcceptInGate, AcceptInLogin, Asks, Runs
  <2> QED BY <2>3, <2>4, <2>7 DEF AcceptPlace
<1>15. CASE GateKick
  <2>1. /\ GoesOn /\ Head(toGate) \in AcceptAtGate /\ Next1(toGate, "kick") /\ toGate' = Tail(toGate)
        /\ UNCHANGED <<accept, logout>>
    BY <1>0, <1>15, GateKickGoesOn, GateRead DEF GateKick, loginVars, agentVars
  <2> QED BY <1>0, <2>1, AcceptGoesOn
<1>16. CASE GateLogoutDone
  <2> DEFINE m == Head(toGate)
  <2>1. /\ m \in GateMessages /\ m.type = "logoutDone" /\ m.caller \in Callers
        /\ \/ m.agent = None /\ GoesOn
           \/ /\ m.agent \in Agents /\ UNCHANGED toLogin
              /\ Put(m.agent, [type |-> "logoutDone", caller |-> m.caller, ok |-> TRUE])
        /\ Next1(toGate, "logoutDone") /\ toGate' = Tail(toGate) /\ UNCHANGED <<accept, logout>>
    BY <1>0, <1>16, GateLogoutDoneCases DEF GateLogoutDone, loginVars, agentVars
  <2>2. (m \in AcceptAtGate <=> m.agent = None) /\ None \notin Agents
    BY <1>0, <2>1, GateRead, Bounds
  <2>3. CASE m.agent = None /\ GoesOn
    BY <1>0, <2>1, <2>2, <2>3, AcceptGoesOn
  <2>4. CASE /\ m.agent \in Agents /\ UNCHANGED toLogin
             /\ Put(m.agent, [type |-> "logoutDone", caller |-> m.caller, ok |-> TRUE])
    <3>1. GateHas' = GateHas
      BY <1>0, <2>1, <2>2, <2>4, GateHasFrame
    <3>2. Asks
      BY <1>5, <2>1, <2>4
    <3> QED BY <1>1, <1>2, <1>3, <2>1, <2>4, <3>1, <3>2
  <2> QED BY <2>1, <2>3, <2>4
<1>17. CASE GateLogout
  <2> DEFINE m == Head(toGate)
  <2>1. /\ m \in GateMessages /\ m.type = "logout" /\ m.caller \in Callers /\ m.agent \in Agents
        /\ \/ Put(m.agent, [type |-> "logoutDone", caller |-> m.caller, ok |-> FALSE]) /\ UNCHANGED toLogin
           \/ ToLogin([type |-> "logout", caller |-> m.caller, agent |-> m.agent]) /\ UNCHANGED inbox
        /\ Next1(toGate, "logout") /\ toGate' = Tail(toGate) /\ UNCHANGED <<accept, logout>>
    BY <1>0, <1>17, GateLogoutCases DEF GateLogout, loginVars, agentVars
  <2>2. GateHas' = GateHas
    <3>1. m \notin AcceptAtGate
      BY <2>1, GateRead
    <3> QED BY <1>0, <2>1, <3>1, GateHasFrame
  <2>3. CASE Put(m.agent, [type |-> "logoutDone", caller |-> m.caller, ok |-> FALSE]) /\ UNCHANGED toLogin
    BY <1>1, <1>2, <1>3, <1>5, <2>1, <2>2, <2>3
  <2>4. CASE ToLogin([type |-> "logout", caller |-> m.caller, agent |-> m.agent]) /\ UNCHANGED inbox
    <3> DEFINE x == [type |-> "logout", caller |-> m.caller, agent |-> m.agent]
    <3>1. x \in LoginMessages /\ x \notin AcceptAtLogin /\ ToLogin(x)
      BY <1>0, <2>1, <2>4, LogoutToLogin, Bounds
    <3> HIDE DEF x
    <3>2. LoginHas' = LoginHas
      BY <1>0, <3>1, LoginHasFrame
    <3> QED BY <1>1, <1>2, <2>1, <2>2, <2>4, <3>2
  <2> QED BY <2>1, <2>3, <2>4
<1>18. CASE LoginReply \/ AgentExit
  <2>1. /\ \E t \in {"loggedIn", "agentexit"} : Next1(toGate, t) /\ toGate' = Tail(toGate) /\ Head(toGate).type = t
        /\ UNCHANGED <<accept, logout, inbox, toLogin>>
    BY <1>18 DEF LoginReply, AgentExit, Next1, loginVars, agentVars
  <2>2. Head(toGate) \notin AcceptAtGate
    BY <1>0, <2>1, FromGateFacts, GateRead
  <2>3. GateHas' = GateHas
    BY <1>0, <2>1, <2>2, GateHasFrame
  <2> QED BY <1>1, <1>2, <1>3, <2>1, <2>3
<1>19. ASSUME NEW f \in Fds, NEW s \in Subids, NEW index \in {"new", "expired"}, Handshake(f, s, index)
       PROVE  AcceptPlace'
  <2> DEFINE o == username_map[s]
             a == obj[o].agent
  <2>0. /\ UNCHANGED <<accept, logout, toLogin, toGate>> /\ s \in 1..internal_id
        /\ \/ UNCHANGED inbox
           \/ o \in 1..internal_id /\ a \in Agents /\ CallLogin(f, s, o, a)
           \/ Put(a, [type |-> "reconnect"])
    BY <1>0, <1>19, HandshakeCases DEF agentVars, loginVars
  <2> HIDE DEF o, a
  <2>1. CASE UNCHANGED inbox
    BY <1>1, <1>2, <1>3, <2>0, <2>1
  <2>2. CASE o \in 1..internal_id /\ a \in Agents /\ CallLogin(f, s, o, a)
    <3>1. Called(f, s, o, a)
      BY <1>0, <2>0, <2>2, CallLoginFacts
    <3> QED BY <1>1, <1>2, <1>3, <1>7, <2>0, <2>2, <3>1
  <2>3. CASE Put(a, [type |-> "reconnect"])
    BY <1>1, <1>2, <1>3, <1>4, <2>0, <2>3
  <2> QED BY <2>0, <2>1, <2>2, <2>3
<1>20. ASSUME NEW f \in Fds, NEW a \in Agents, GotAgent(f, a) PROVE AcceptPlace'
  <2>1. Called(f, auth[f].subid, auth[f].obj, a) /\ UNCHANGED <<accept, logout, toLogin, toGate>>
    BY <1>0, <1>20, GotAgentFacts DEF loginVars
  <2> QED BY <1>1, <1>2, <1>3, <1>7, <2>1
<1>21. ASSUME NEW f \in Fds, Disconnect(f) PROVE AcceptPlace'
  <2>1. UNCHANGED <<accept, logout, toLogin, toGate>>
    BY <1>21 DEF Disconnect, loginVars, agentVars
  <2>2. Asks
    BY <1>0, <1>2, <1>4, <1>21, TypeDisconnect
  <2> QED BY <1>1, <1>2, <1>3, <2>1, <2>2
<1>22. ASSUME NEW f \in Fds, NEW a \in Agents, RequestLogout(f, a) PROVE AcceptPlace'
  <2>1. /\ UNCHANGED <<accept, toLogin, toGate>> /\ Put(a, [type |-> "request"])
        /\ logout' = [logout EXCEPT ![ByClient] = [at |-> "asked", agent |-> a]]
    BY <1>0, <1>22, TypeRequestLogout DEF RequestLogout, loginVars
  <2>2. logout'[Kick] = logout[Kick]
    <3>1. logout \in [Callers -> [at : {"none", "asked", "offline", "gate"}, agent : Agents \cup {None}]]
      BY <1>0 DEF TypeOK
    <3> QED BY <2>1, <3>1, CallerFacts
  <2>3. Asks /\ Runs
    BY <1>4, <2>1, <2>2 DEF Runs, KickRuns
  <2> QED BY <1>1, <1>2, <1>3, <2>1, <2>3
<1>23. ASSUME NEW a \in Agents, LoginStart(a) PROVE AcceptPlace'
  <2>1. Started(a) /\ UNCHANGED <<accept, logout, toLogin, toGate>>
    BY <1>0, <1>23, LoginStartFacts DEF LoginStart, loginVars
  <2>2. Asks
    BY <1>6, <2>1 DEF Started
  <2> QED BY <1>1, <1>2, <1>3, <2>1, <2>2
<1>24. ASSUME NEW f \in Fds, LoginMarked(f) PROVE AcceptPlace'
  <2>1. UNCHANGED <<accept, logout, toLogin, toGate, inbox>>
    BY <1>24 DEF LoginMarked, loginVars
  <2> QED BY <1>1, <1>2, <1>3, <2>1
<1>25. ASSUME NEW f \in Fds, LoginEnd(f) \/ LoginForbidden(f) PROVE AcceptPlace'
  <2>1. /\ UNCHANGED <<accept, toLogin, inbox>>
        /\ \E ok \in BOOLEAN : ToGate([type |-> "loggedIn", fd |-> f, ok |-> ok])
        /\ UNCHANGED logout \/ logout' = [logout EXCEPT ![Forbid(f)] = [at |-> "asked", agent |-> auth[f].agent]]
    BY <1>25 DEF LoginEnd, LoginForbidden, loginVars
  <2>2. GateHas' = GateHas
    <3>1. \E m \in GateMessages : m \notin AcceptAtGate /\ ToGate(m)
      BY <2>1, LoggedInToGate
    <3> QED BY <1>0, <3>1, GateHasFrame
  <2>3. logout'[Kick] = logout[Kick]
    <3>1. logout \in [Callers -> [at : {"none", "asked", "offline", "gate"}, agent : Agents \cup {None}]]
      BY <1>0 DEF TypeOK
    <3> QED BY <2>1, <3>1, CallerFacts
  <2>4. Runs
    BY <2>3 DEF Runs, KickRuns
  <2> QED BY <1>1, <1>2, <1>3, <2>1, <2>2, <2>4
<1>26. ASSUME NEW a \in Agents, Reconnect(a) \/ Afk(a) PROVE AcceptPlace'
  <2>1. /\ Took(a) /\ Head(inbox[a]).type \in {"reconnect", "afk"}
        /\ UNCHANGED <<accept, logout, toLogin, toGate>>
    BY <1>0, <1>26, SetOnlineFacts DEF Reconnect, Afk, loginVars
  <2>2. Asks
    BY <1>6, <2>1
  <2> QED BY <1>1, <1>2, <1>3, <2>1, <2>2
<1>27. ASSUME NEW a \in Agents, Logout(a) PROVE AcceptPlace'
  <2> DEFINE m == Head(inbox[a])
  <2>1. /\ Took(a) /\ m.type = "logout" /\ Completes(Kick, a) /\ UNCHANGED <<accept, toLogin>>
    BY <1>0, <1>27, LogoutFacts DEF loginVars
  <2>2. m \in AcceptAtAgent /\ m \in Range(inbox[a])
    BY <1>0, <2>1, TookFacts, AgentRead
  <2>3. /\ accept # "idle" /\ LoginHas = 0 /\ GateHas = 0 /\ KickAsks(a) = 1
        /\ \A b \in Agents : b # a => KickAsks(b) = 0
    BY <1>0, <2>2, AtAgent DEF LoginHas, GateHas
  <2>4. LoginHas' = 0
    BY <1>3, <2>1, <2>3
  <2>5. \A b \in Agents : KickAsks(b)' = 0
    <3>1. /\ \A b \in Agents : b # a => inbox'[b] = inbox[b]
          /\ inbox' \in [Agents -> Seq(AgentMessages)]
          /\ Count(inbox[a], AcceptAtAgent) = Count(inbox'[a], AcceptAtAgent) + (IF m \in AcceptAtAgent THEN 1 ELSE 0)
      BY <1>0, <2>1, TookFacts
    <3>2. \A b \in Agents : b # a => KickAsks(b)' = 0
      BY <2>3, <3>1 DEF KickAsks
    <3>3. Count(inbox'[a], AcceptAtAgent) \in Nat
      BY <3>1, CountNat
    <3>4. KickAsks(a)' = 0
      BY <2>2, <2>3, <3>1, <3>3 DEF KickAsks
    <3> QED BY <3>2, <3>4
  <2>6. CASE Goes(Kick, a)
    <3>1. GateHas' = 0 /\ KickRuns'
      BY <1>0, <2>1, <2>3, <2>6, CompletesPlace, CallerFacts DEF KickRuns
    <3>2. AcceptRuns'
      BY <2>4, <2>5, <3>1 DEF AcceptRuns
    <3> QED BY <2>1, <2>3, <3>2 DEF AcceptPlace
  <2>7. CASE Fails(Kick)
    <3>1. GateHas' = 1 /\ ~KickRuns'
      BY <1>0, <2>1, <2>3, <2>7, CompletesPlace, CallerFacts DEF KickRuns
    <3>2. AcceptInGate'
      BY <2>4, <2>5, <3>1 DEF AcceptInGate
    <3> QED BY <2>1, <2>3, <3>2 DEF AcceptPlace
  <2> QED BY <2>1, <2>6, <2>7 DEF Completes
<1>28. ASSUME NEW a \in Agents, ClientLogout(a) PROVE AcceptPlace'
  <2>1. /\ Took(a) /\ Head(inbox[a]).type = "request" /\ Completes(ByClient, a) /\ UNCHANGED <<accept, toLogin>>
    BY <1>0, <1>28, ClientLogoutFacts DEF loginVars
  <2>2. GateHas' = GateHas /\ logout'[Kick] = logout[Kick]
    BY <1>0, <2>1, CompletesPlace, CallerFacts
  <2>3. Asks /\ Runs
    BY <1>6, <2>1, <2>2 DEF Runs, KickRuns
  <2> QED BY <1>1, <1>2, <1>3, <2>1, <2>2, <2>3
<1>29. ASSUME NEW c \in Callers, NEW a \in Agents, Completes(c, a), c # Kick \/ (KickRuns /\ Goes(c, a)),
              UNCHANGED <<accept, toLogin, inbox>>
       PROVE  AcceptPlace'
  <2>1. /\ GateHas' = GateHas /\ (c = Kick => logout'[c].at # "none")
        /\ \A d \in Callers : d # c => logout'[d] = logout[d]
    BY <1>0, <1>29, CompletesPlace
  <2>2. Runs
    BY <1>29, <2>1, CallerFacts DEF Runs, KickRuns
  <2> QED BY <1>1, <1>2, <1>3, <1>29, <2>1, <2>2
<1>30. ASSUME NEW a \in Agents, HeartbeatOut(a) PROVE AcceptPlace'
  BY <1>0, <1>29, <1>30, HeartbeatOutFacts, CallerFacts DEF loginVars
<1>31. ASSUME NEW f \in Fds, ForbiddenLogout(f) PROVE AcceptPlace'
  BY <1>0, <1>29, <1>31, ForbiddenLogoutFacts, CallerFacts DEF loginVars
<1>32. ASSUME NEW c \in Callers, WentOffline(c) PROVE AcceptPlace'
  <2> DEFINE a == logout[c].agent
  <2>1. c # Kick \/ KickRuns
    BY <1>32 DEF WentOffline, KickRuns
  <2>2. a \in Agents /\ Completes(c, a) /\ Goes(c, a) /\ UNCHANGED <<accept, toLogin, inbox>>
    BY <1>0, <1>32, WentOfflineFacts DEF loginVars, Goes
  <2> QED BY <1>29, <2>1, <2>2
<1>33. ASSUME NEW a \in Agents, LogoutDone(a) PROVE AcceptPlace'
  <2> DEFINE m == Head(inbox[a])
  <2>1. /\ Took(a) /\ m \in AgentMessages /\ m.type = "logoutDone" /\ m.caller \in Callers /\ m \in Range(inbox[a])
        /\ logout'[m.caller].at = "none" /\ \A d \in Callers : d # m.caller => logout'[d] = logout[d]
        /\ IF m.caller = Kick THEN ToGate([type |-> "kicked"]) ELSE UNCHANGED toGate
        /\ UNCHANGED <<accept, toLogin>>
    BY <1>0, <1>33, LogoutDoneFacts DEF Ends, loginVars
  <2>2. Asks
    BY <1>6, <2>1
  <2>3. CASE m.caller = Kick
    <3>1. Alive(a)
      BY <1>0, <2>1, TookFacts
    <3>2. KickRuns
      <4>1. m \in LogoutAtAgent(Kick)
        BY <2>1, <2>3, AgentRead
      <4> QED BY <1>0, <2>1, <3>1, <4>1, GateAwaited, CallerFacts DEF KickRuns, Alive
    <3>3. accept # "idle" /\ LoginHas = 0 /\ GateHas = 0 /\ \A b \in Agents : KickAsks(b) = 0
      BY <1>0, <3>2, AtHandler DEF KickRuns, LoginHas, GateHas
    <3>4. GateHas' = 1
      BY <1>0, <2>1, <2>3, <3>3, KickedToGate, GateHasMore
    <3>5. ~KickRuns'
      BY <2>1, <2>3 DEF KickRuns
    <3>6. AcceptInGate'
      BY <1>3, <2>1, <2>2, <3>3, <3>4, <3>5 DEF AcceptInGate, Asks
    <3> QED BY <2>1, <3>3, <3>6 DEF AcceptPlace
  <2>4. CASE m.caller # Kick
    <3>1. Runs
      BY <2>1, <2>4, CallerFacts DEF Runs, KickRuns
    <3> QED BY <1>1, <1>2, <1>3, <2>1, <2>2, <2>4, <3>1
  <2> QED BY <2>3, <2>4
<1>34. ASSUME NEW a \in Agents, AgentDies(a) PROVE AcceptPlace'
  BY <1>0, <1>34, AgentDiesFacts, AcceptDies
<1> QED BY <1>10, <1>11, <1>12, <1>13, <1>14, <1>15, <1>16, <1>17, <1>18, <1>19, <1>20, <1>21, <1>22, <1>23, <1>24,
           <1>25, <1>26, <1>27, <1>28, <1>30, <1>31, <1>32, <1>33, <1>34 DEF Step

----------------------------------------------------------------------------
(* Where the logins of do_auth are *)

AuthFine(f) ==
    IF auth[f].at = "login"
    THEN Count(toGate, LoginAtGate(f)) + Count(inbox[auth[f].agent], LoginAtAgent(f))
             + (IF login[f] # "none" THEN 1 ELSE 0) = 1
    ELSE Count(toGate, LoginAtGate(f)) = 0

GateLogins(f)  == Count(toGate', LoginAtGate(f)) = Count(toGate, LoginAtGate(f))
AgentLogins(f) == \A b \in Agents : Count(inbox'[b], LoginAtAgent(f)) = Count(inbox[b], LoginAtAgent(f))

LEMMA AuthAgent ==
    ASSUME TypeOK, HandlersInv, NEW f \in Fds, auth[f].at = "login"
    PROVE  auth[f].agent \in Agents
<1>1. auth[f].agent # None /\ auth[f].agent \in Agents \cup {None}
  BY DEF HandlersInv, TypeOK
<1> QED BY <1>1

LEMMA AuthFrame ==
    ASSUME TypeOK, HandlersInv, AuthInv, NEW f \in Fds, auth'[f] = auth[f], GateLogins(f), AgentLogins(f),
           login'[f] = "none" <=> login[f] = "none"
    PROVE  AuthFine(f)'
<1>1. CASE auth[f].at = "login"
  <2> DEFINE a == auth[f].agent
  <2>1. a \in Agents
    BY <1>1, AuthAgent
  <2>2. /\ Count(toGate', LoginAtGate(f)) = Count(toGate, LoginAtGate(f))
        /\ Count(inbox'[a], LoginAtAgent(f)) = Count(inbox[a], LoginAtAgent(f))
    BY <2>1 DEF GateLogins, AgentLogins
  <2>3. Count(toGate, LoginAtGate(f)) + Count(inbox[a], LoginAtAgent(f))
            + (IF login[f] # "none" THEN 1 ELSE 0) = 1
    BY <1>1 DEF AuthInv
  <2> QED BY <1>1, <2>2, <2>3 DEF AuthFine
<1>2. CASE auth[f].at # "login"
  BY <1>2 DEF AuthInv, AuthFine, GateLogins
<1> QED BY <1>1, <1>2

\* The queues of a step in which no login and no answer to one joins or leaves.
LEMMA GateLoginsFrame ==
    ASSUME TypeOK, NEW f \in Fds,
           \/ UNCHANGED toGate
           \/ \E m \in GateMessages : (m.type = "loggedIn" => m.fd # f) /\ ToGate(m)
           \/ \E t : /\ Next1(toGate, t) /\ toGate' = Tail(toGate)
                     /\ Head(toGate).type = "loggedIn" => Head(toGate).fd # f
    PROVE  GateLogins(f)
<1>1. ASSUME NEW m \in GateMessages, m.type = "loggedIn" => m.fd # f PROVE m \notin LoginAtGate(f)
  BY <1>1, GateRead
<1>2. ASSUME NEW t, Next1(toGate, t), toGate' = Tail(toGate) PROVE Head(toGate) \in GateMessages
  BY <1>2, FromGateFacts
<1> QED BY <1>1, <1>2, GateFrames DEF GateLogins

LEMMA AgentLoginsFrame ==
    ASSUME TypeOK, NEW f \in Fds,
           \/ UNCHANGED inbox
           \/ \E a : \E m \in AgentMessages : (m.type = "login" => m.fd # f) /\ Put(a, m)
           \/ \E a \in Agents : Took(a) /\ (Head(inbox[a]).type = "login" => Head(inbox[a]).fd # f)
    PROVE  AgentLogins(f)
<1>1. ASSUME NEW m \in AgentMessages, m.type = "login" => m.fd # f PROVE m \notin LoginAtAgent(f)
  BY <1>1, AgentRead
<1>2. ASSUME NEW a \in Agents, Took(a) PROVE Head(inbox[a]) \in AgentMessages
  BY <1>2, TookFacts
<1> QED BY <1>1, <1>2, AgentFrames DEF AgentLogins

\* do_auth calls an agent, or fails because the agent has exited.
LEMMA AuthCalled ==
    ASSUME TypeOK, HandlersInv, AuthInv, NEW f \in Fds, NEW s, NEW o, NEW a \in Agents, Called(f, s, o, a),
           UNCHANGED <<login, toGate>>, auth[f].at # "login"
    PROVE  AuthInv'
<1>1. /\ Count(toGate, LoginAtGate(f)) = 0 /\ login[f] = "none"
      /\ \A m \in Range(inbox[a]) : m.type = "login" => m.fd # f
  BY NoLogin DEF AuthInv
<1>2. \A g \in Fds : g # f => auth'[g] = auth[g]
  BY DEF Called
<1>3. CASE agent[a].life # "dead"
  <2> DEFINE m == [type |-> "login", fd |-> f, subid |-> obj[o].subid]
  <2>1. /\ auth'[f] = [at |-> "login", subid |-> s, obj |-> o, agent |-> a]
        /\ m \in AgentMessages /\ obj[o].subid \in 0..MaxLogins
        /\ inbox' = [inbox EXCEPT ![a] = Append(@, m)]
    BY <1>3, Bounds DEF Called
  <2>2. \A g \in Fds : m \in LoginAtAgent(g) <=> g = f
    BY <2>1, LoginToAgent
  <2> HIDE DEF m
  <2>3. \A b \in Agents : \A S : Count(inbox'[b], S) = Count(inbox[b], S) + (IF b = a /\ m \in S THEN 1 ELSE 0)
    BY <2>1, AppendFacts, Zenon
  <2>4. ASSUME NEW g \in Fds, g # f PROVE AuthFine(g)'
    <3>1. AgentLogins(g)
      <4>1. \A b \in Agents : Count(inbox[b], LoginAtAgent(g)) \in Nat
        BY CountsAreNat
      <4> QED BY <2>2, <2>3, <2>4, <4>1 DEF AgentLogins
    <3> QED BY <1>2, <2>4, <3>1, AuthFrame DEF GateLogins
  <2>5. AuthFine(f)'
    <3>1. Count(inbox[a], LoginAtAgent(f)) = 0
      <4>1. \A x \in Range(inbox[a]) : x \notin LoginAtAgent(f)
        BY <1>1, MessageTypes, AgentRead
      <4> QED BY <4>1, CountsAreRanges
    <3>2. Count(inbox'[a], LoginAtAgent(f)) = 1
      BY <2>2, <2>3, <3>1
    <3>3. auth'[f].at = "login" /\ auth'[f].agent = a
      BY <2>1
    <3> QED BY <1>1, <3>2, <3>3 DEF AuthFine
  <2> QED BY <2>4, <2>5 DEF AuthInv, AuthFine
<1>4. CASE agent[a].life = "dead"
  <2>1. auth'[f].at = "over" /\ inbox' = inbox
    BY <1>4 DEF Called
  <2>2. AuthFine(f)'
    BY <1>1, <2>1 DEF AuthFine
  <2>3. \A g \in Fds : g # f => AuthFine(g)'
    BY <1>2, <2>1, AuthFrame DEF GateLogins, AgentLogins
  <2> QED BY <2>2, <2>3 DEF AuthInv, AuthFine
<1> QED BY <1>3, <1>4

\* The agent reads the login: it runs.
LEMMA AuthStarts ==
    ASSUME TypeOK, HandlersInv, AuthInv, NEW a \in Agents, Started(a), UNCHANGED <<auth, toGate>>
    PROVE  AuthInv'
<1> DEFINE m == Head(inbox[a])
<1>1. PICK f \in Fds :
         /\ f = m.fd /\ Took(a) /\ m \in AgentMessages /\ m.type = "login" /\ m \in Range(inbox[a])
         /\ login'[f] = "shutdown" /\ \A h \in Fds : h # f => login'[h] = login[h]
  BY DEF Started
<1> DEFINE n == Count(inbox[a], LoginAtAgent(f))
           k == Count(inbox'[a], LoginAtAgent(f))
           g == Count(toGate, LoginAtGate(f))
<1>2. auth[f].at = "login" /\ auth[f].agent = a
  BY <1>1 DEF HandlersInv
<1>3. n = k + 1 /\ n \in Nat /\ k \in Nat /\ g \in Nat
  <2>1. m \in LoginAtAgent(f)
    BY <1>1, AgentRead
  <2>2. n = k + 1 /\ inbox' \in [Agents -> Seq(AgentMessages)]
    BY <1>1, <2>1, TookFacts
  <2>3. k \in Nat
    BY <2>2, CountNat
  <2> QED BY <1>1, <2>2, <2>3, CountsAreNat
<1>4. g + n + (IF login[f] # "none" THEN 1 ELSE 0) = 1
  BY <1>1, <1>2 DEF AuthInv
<1>5. ASSUME NEW h \in Fds, h # f PROVE AuthFine(h)'
  <2>1. AgentLogins(h)
    BY <1>1, <1>5, AgentLoginsFrame
  <2> QED BY <1>1, <1>5, <2>1, AuthFrame DEF GateLogins
<1> HIDE DEF m, n, k, g
<1>6. g + k + 1 = 1
  BY <1>3, <1>4
<1>7. AuthFine(f)'
  BY <1>1, <1>2, <1>6 DEF AuthFine, k, g
<1> QED BY <1>5, <1>7 DEF AuthInv, AuthFine

\* The agent answers: the answer is on its way.
LEMMA AuthEnds ==
    ASSUME TypeOK, HandlersInv, AuthInv, NEW f \in Fds, Logged(f, "none"), NEW ok \in BOOLEAN,
           ToGate([type |-> "loggedIn", fd |-> f, ok |-> ok]), UNCHANGED <<auth, inbox>>
    PROVE  AuthInv'
<1> DEFINE m == [type |-> "loggedIn", fd |-> f, ok |-> ok]
           a == auth[f].agent
           n == Count(inbox[a], LoginAtAgent(f))
           g == Count(toGate, LoginAtGate(f))
<1>1. m \in GateMessages /\ m.type = "loggedIn" /\ m.fd = f /\ m \in LoginAtGate(f) /\ ToGate(m)
  BY LoggedInToGate
<1> HIDE DEF m
<1>2. /\ auth[f].at = "login" /\ a \in Agents /\ login[f] # "none" /\ login'[f] = "none"
      /\ \A h \in Fds : h # f => login'[h] = login[h]
  BY DEF Logged
<1>3. g + n + (IF login[f] # "none" THEN 1 ELSE 0) = 1 /\ n \in Nat /\ g \in Nat
  BY <1>2, CountsAreNat DEF AuthInv
<1>4. Count(toGate', LoginAtGate(f)) = g + 1
  BY <1>1, ToGateFacts
<1>5. \A h \in Fds : h # f => AuthFine(h)'
  BY <1>1, <1>2, GateLoginsFrame, AuthFrame DEF AgentLogins
<1>6. AuthFine(f)'
  <2> HIDE DEF n, g
  <2>1. g = 0 /\ n = 0
    BY <1>2, <1>3
  <2> QED BY <1>2, <1>4, <2>1 DEF AuthFine, n
<1> QED BY <1>5, <1>6 DEF AuthInv, AuthFine

\* The answer reaches do_auth.
LEMMA AuthAnswered ==
    ASSUME TypeOK, HandlersInv, AuthInv, LoginReply
    PROVE  AuthInv'
<1> DEFINE m == Head(toGate)
<1>1. PICK f \in Fds :
         /\ f = m.fd /\ m \in GateMessages /\ m.type = "loggedIn" /\ auth[f].at = "login"
         /\ auth[f].agent \in Agents
         /\ auth'[f].at = "over" /\ \A h \in Fds : h # f => auth'[h] = auth[h]
         /\ UNCHANGED <<login, inbox>>
  BY LoginReplyFacts DEF agentVars
<1> DEFINE a == auth[f].agent
           n == Count(inbox[a], LoginAtAgent(f))
           g == Count(toGate, LoginAtGate(f))
           k == Count(toGate', LoginAtGate(f))
<1>2. Next1(toGate, "loggedIn") /\ toGate' = Tail(toGate)
  BY DEF LoginReply
<1>3. g = k + 1 /\ g \in Nat /\ k \in Nat /\ n \in Nat
  <2>1. m \in LoginAtGate(f)
    BY <1>1, GateRead
  <2>2. g = k + 1 /\ toGate' \in Seq(GateMessages)
    BY <1>2, <2>1, FromGateFacts
  <2>3. k \in Nat
    BY <2>2, CountNat
  <2> QED BY <1>1, <2>2, <2>3, CountsAreNat
<1>4. g + n + (IF login[f] # "none" THEN 1 ELSE 0) = 1
  BY <1>1 DEF AuthInv
<1>5. \A h \in Fds : h # f => AuthFine(h)'
  BY <1>1, <1>2, GateLoginsFrame, AuthFrame DEF AgentLogins
<1> HIDE DEF m, a, n, g, k
<1>6. k = 0
  BY <1>3, <1>4
<1>7. AuthFine(f)'
  BY <1>1, <1>6 DEF AuthFine, k
<1> QED BY <1>5, <1>7 DEF AuthInv, AuthFine

\* An agent exits: each login it has not answered is answered with an error.
LEMMA AuthDies ==
    ASSUME TypeOK, HandlersInv, AuthInv, NEW a \in Agents, Died(a)
    PROVE  AuthInv'
<1>1. /\ UNCHANGED auth /\ inbox'[a] = <<>> /\ \A b \in Agents : b # a => inbox'[b] = inbox[b]
      /\ \A f \in Fds : login'[f] = IF auth[f].agent = a THEN "none" ELSE login[f]
      /\ \A f \in Fds : Count(toGate', LoginAtGate(f)) =
                            Count(toGate, LoginAtGate(f)) + (IF f \in Unanswered(a) THEN 1 ELSE 0)
  BY DEF Died, clientVars
<1>2. ASSUME NEW f \in Fds PROVE AuthFine(f)'
  <2> DEFINE n == Count(inbox[a], LoginAtAgent(f))
             g == Count(toGate, LoginAtGate(f))
  <2>0. g \in Nat /\ n \in Nat
    BY CountsAreNat
  <2>1. CASE auth[f].agent = a
    <3>1. auth[f].at = "login"
      <4>1. a # None
        BY Bounds
      <4> QED BY <2>1, <4>1 DEF HandlersInv
    <3>2. g + n + (IF login[f] # "none" THEN 1 ELSE 0) = 1
      BY <2>1, <3>1 DEF AuthInv
    <3>3. n = 0 <=> ~\E m \in Range(inbox[a]) : m.type = "login" /\ m.fd = f
      <4>1. \A m \in Range(inbox[a]) : m \in LoginAtAgent(f) <=> m.type = "login" /\ m.fd = f
        BY MessageTypes, AgentRead
      <4> QED BY <4>1, CountsAreRanges
    <3>4. f \in Unanswered(a) <=> login[f] # "none" \/ n # 0
      BY <2>1, <3>3 DEF Unanswered
    <3> HIDE DEF n, g
    <3>5. g + (IF f \in Unanswered(a) THEN 1 ELSE 0) = 1
      BY <2>0, <3>2, <3>4
    <3>6. login'[f] = "none" /\ Count(inbox'[a], LoginAtAgent(f)) = 0
      BY <1>1, <2>1, CountEmpty
    <3>7. Count(toGate', LoginAtGate(f)) = 1
      BY <1>1, <3>5 DEF g
    <3> QED BY <1>1, <2>1, <3>1, <3>6, <3>7 DEF AuthFine
  <2>2. CASE auth[f].agent # a
    <3>1. f \notin Unanswered(a)
      BY <2>2 DEF Unanswered
    <3>2. GateLogins(f)
      BY <1>1, <2>0, <3>1 DEF GateLogins
    <3>3. AgentLogins(f)
      <4>1. \A m \in Range(inbox[a]) : m.type = "login" => m.fd # f
        BY <2>2 DEF HandlersInv
      <4>2. \A m \in Range(inbox[a]) : m \notin LoginAtAgent(f)
        BY <4>1, MessageTypes, AgentRead
      <4>3. n = 0 /\ Count(inbox'[a], LoginAtAgent(f)) = 0
        BY <1>1, <4>2, CountsAreRanges, CountEmpty
      <4> QED BY <1>1, <4>3 DEF AgentLogins
    <3> QED BY <1>1, <2>2, <3>2, <3>3, AuthFrame
  <2> QED BY <2>1, <2>2
<1> QED BY <1>2 DEF AuthInv, AuthFine

LEMMA AuthStep ==
    ASSUME SessionInv, Step
    PROVE  AuthInv'
<1>0. TypeOK /\ TablesInv /\ HandlersInv /\ AcceptInv /\ AuthInv /\ LogoutInv /\ RecordsInv /\ CountNeverShort
  BY DEF SessionInv
<1> DEFINE GateSame  == \A f \in Fds : GateLogins(f)
           AgentSame == \A f \in Fds : AgentLogins(f)
<1>1. ASSUME GateSame, AgentSame, UNCHANGED auth, \A f \in Fds : login'[f] = "none" <=> login[f] = "none"
      PROVE  AuthInv'
  <2>1. \A f \in Fds : AuthFine(f)'
    BY <1>0, <1>1, AuthFrame
  <2> QED BY <2>1 DEF AuthInv, AuthFine
<1>2. ASSUME \/ UNCHANGED toGate
             \/ \E m \in GateMessages : m.type # "loggedIn" /\ ToGate(m)
             \/ \E t : Next1(toGate, t) /\ toGate' = Tail(toGate) /\ t # "loggedIn"
      PROVE  GateSame
  BY <1>0, <1>2, GateLoginsFrame DEF Next1
<1>3. ASSUME \/ UNCHANGED inbox
             \/ \E a : \E m \in AgentMessages : m.type # "login" /\ Put(a, m)
             \/ \E a \in Agents : Took(a) /\ Head(inbox[a]).type # "login"
      PROVE  AgentSame
  BY <1>0, <1>3, AgentLoginsFrame
<1>4. ASSUME NEW a, NEW t \in {"reconnect", "afk", "request", "logout"}, Put(a, [type |-> t]) PROVE AgentSame
  <2>1. \E m \in AgentMessages : m.type # "login" /\ Put(a, m)
    BY <1>4, PlainToAgent, PlainMessage
  <2> QED BY <1>3, <2>1
<1>5. ASSUME NEW a, NEW c \in Callers, NEW ok \in BOOLEAN, Put(a, [type |-> "logoutDone", caller |-> c, ok |-> ok])
      PROVE  AgentSame
  <2> DEFINE m == [type |-> "logoutDone", caller |-> c, ok |-> ok]
  <2>1. m \in AgentMessages /\ m.type # "login" /\ Put(a, m)
    BY <1>5, LogoutDoneToAgent
  <2> HIDE DEF m
  <2> QED BY <1>3, <2>1
<1>6. ASSUME GoesOn PROVE AgentSame
  BY <1>3, <1>4, <1>6 DEF GoesOn
<1> HIDE DEF GateSame, AgentSame

<1>10. CASE Accept
  <2>1. /\ accept' \in {"kick", "login"} /\ ToGate([type |-> accept', subid |-> online])
        /\ online \in 0..MaxLogins /\ UNCHANGED <<inbox, auth, login>>
    BY <1>0, <1>10, Bounds DEF Accept, agentVars, clientVars, TypeOK
  <2>2. \E m \in GateMessages : m.type # "loggedIn" /\ ToGate(m)
    <3> DEFINE m == [type |-> accept', subid |-> online]
    <3>1. m \in GateMessages /\ m.type = accept' /\ ToGate(m)
      BY <2>1, CallToGate
    <3> HIDE DEF m
    <3> QED BY <2>1, <3>1
  <2> QED BY <1>1, <1>2, <1>3, <2>1, <2>2
<1>11. CASE LogindLogout
  <2>1. UNCHANGED <<inbox, auth, login>> /\ ToGate([Head(toLogin) EXCEPT !.type = "logoutDone"])
    BY <1>11 DEF LogindLogout, agentVars, clientVars
  <2>2. \E m \in GateMessages : m.type # "loggedIn" /\ ToGate(m)
    <3> DEFINE m == [Head(toLogin) EXCEPT !.type = "logoutDone"]
    <3>1. Head(toLogin) \in LoginMessages /\ Head(toLogin).type = "logout"
      BY <1>0, <1>11, FromLoginFacts DEF LogindLogout
    <3>2. m \in GateMessages /\ m.type = "logoutDone" /\ ToGate(m)
      BY <2>1, <3>1, LogoutRelayed
    <3> HIDE DEF m
    <3> QED BY <3>2
  <2> QED BY <1>1, <1>2, <1>3, <2>1, <2>2
<1>12. CASE KickAnswered
  <2>1. /\ UNCHANGED <<inbox, auth, login>>
        /\ UNCHANGED toGate \/ ToGate([type |-> "login", subid |-> 0])
    BY <1>12 DEF KickAnswered, agentVars, clientVars
  <2>2. UNCHANGED toGate \/ \E m \in GateMessages : m.type # "loggedIn" /\ ToGate(m)
    <3> DEFINE m == [type |-> "login", subid |-> 0]
    <3>1. m \in GateMessages /\ m.type # "loggedIn"
      BY CallToGate, SessionAssumption
    <3> QED BY <2>1, <3>1
  <2> QED BY <1>1, <1>2, <1>3, <2>1, <2>2
<1>13. CASE LoginAnswered
  BY <1>1, <1>2, <1>3, <1>13 DEF LoginAnswered, agentVars, clientVars
<1>14. CASE GateLogin \/ GateKicked \/ AgentExit
  <2>1. UNCHANGED <<inbox, auth, login>>
    BY <1>14 DEF GateLogin, GateKicked, AgentExit, agentVars, clientVars
  <2>2. \E t : Next1(toGate, t) /\ toGate' = Tail(toGate) /\ t # "loggedIn"
    BY <1>14 DEF GateLogin, GateKicked, AgentExit
  <2> QED BY <1>1, <1>2, <1>3, <2>1, <2>2
<1>15. CASE GateKick
  <2>1. UNCHANGED <<auth, login>> /\ GoesOn
    BY <1>0, <1>15, LogoutHereFrame, GateKickGoesOn DEF agentVars
  <2>2. \E t : Next1(toGate, t) /\ toGate' = Tail(toGate) /\ t # "loggedIn"
    BY <1>15 DEF GateKick
  <2> QED BY <1>1, <1>2, <1>6, <2>1, <2>2
<1>16. CASE GateLogoutDone
  <2>1. UNCHANGED <<auth, login>>
    BY <1>16 DEF GateLogoutDone, agentVars, clientVars
  <2>2. \E t : Next1(toGate, t) /\ toGate' = Tail(toGate) /\ t # "loggedIn"
    BY <1>16 DEF GateLogoutDone
  <2>3. AgentSame
    BY <1>0, <1>5, <1>6, <1>16, GateLogoutDoneCases
  <2> QED BY <1>1, <1>2, <2>1, <2>2, <2>3
<1>17. CASE GateLogout
  <2>1. UNCHANGED <<auth, login>>
    BY <1>0, <1>17, LogoutHereFrame DEF agentVars
  <2>2. \E t : Next1(toGate, t) /\ toGate' = Tail(toGate) /\ t # "loggedIn"
    BY <1>17 DEF GateLogout
  <2>3. AgentSame
    BY <1>0, <1>3, <1>5, <1>17, GateLogoutCases
  <2> QED BY <1>1, <1>2, <2>1, <2>2, <2>3
<1>18. CASE LoginReply
  BY <1>0, <1>18, AuthAnswered
<1>19. ASSUME NEW f \in Fds, NEW s \in Subids, NEW index \in {"new", "expired"}, Handshake(f, s, index)
       PROVE  AuthInv'
  <2> DEFINE o == username_map[s]
             a == obj[o].agent
  <2>0. /\ s \in 1..internal_id /\ auth[f].at = "none" /\ UNCHANGED <<login, toGate>>
        /\ \/ Refuse(f) /\ UNCHANGED inbox
           \/ o \in 1..internal_id /\ Await(f, "getAgent", s, o, None) /\ UNCHANGED inbox
           \/ o \in 1..internal_id /\ a \in Agents /\ CallLogin(f, s, o, a)
           \/ Establish(f, s) /\ Put(a, [type |-> "reconnect"])
    BY <1>0, <1>19, HandshakeCases DEF agentVars
  <2> HIDE DEF o, a
  <2>1. ASSUME \A g \in Fds : g # f => auth'[g] = auth[g], auth'[f].at # "login", AgentSame PROVE AuthInv'
    <3>1. \A g \in Fds : g # f => AuthFine(g)'
      BY <1>0, <2>0, <2>1, AuthFrame DEF GateLogins, AgentSame
    <3>2. AuthFine(f)'
      BY <1>0, <2>0, <2>1 DEF AuthFine, AuthInv
    <3> QED BY <3>1, <3>2 DEF AuthInv, AuthFine
  <2>2. CASE Refuse(f) /\ UNCHANGED inbox
    BY <1>0, <1>3, <2>1, <2>2, RefuseFacts
  <2>3. CASE o \in 1..internal_id /\ Await(f, "getAgent", s, o, None) /\ UNCHANGED inbox
    <3>1. s \in 0..internal_id /\ o \in 0..internal_id
      BY <1>0, <2>0, <2>3, Bounds
    <3>2. /\ auth'[f] = [at |-> "getAgent", subid |-> s, obj |-> o, agent |-> None]
          /\ \A g \in Fds : g # f => auth'[g] = auth[g]
      BY <1>0, <2>3, <3>1, AwaitFacts
    <3>3. auth'[f].at = "getAgent"
      BY <3>2
    <3> QED BY <1>3, <2>1, <2>3, <3>2, <3>3
  <2>4. CASE o \in 1..internal_id /\ a \in Agents /\ CallLogin(f, s, o, a)
    BY <1>0, <2>0, <2>4, CallLoginFacts, AuthCalled
  <2>5. CASE Establish(f, s) /\ Put(a, [type |-> "reconnect"])
    BY <1>0, <1>4, <2>0, <2>1, <2>5, EstablishFacts
  <2> QED BY <2>0, <2>2, <2>3, <2>4, <2>5
<1>20. ASSUME NEW f \in Fds, NEW a \in Agents, GotAgent(f, a) PROVE AuthInv'
  <2>1. /\ auth[f].at # "login" /\ Called(f, auth[f].subid, auth[f].obj, a) /\ UNCHANGED <<login, toGate>>
    BY <1>0, <1>20, GotAgentFacts
  <2> QED BY <1>0, <2>1, AuthCalled
<1>21. ASSUME NEW f \in Fds, Disconnect(f) PROVE AuthInv'
  <2>1. UNCHANGED <<auth, login, toGate>>
    BY <1>21 DEF Disconnect, agentVars
  <2>2. AgentSame
    BY <1>0, <1>3, <1>4, <1>21, TypeDisconnect
  <2> QED BY <1>1, <1>2, <2>1, <2>2
<1>22. ASSUME NEW f \in Fds, NEW a \in Agents, RequestLogout(f, a) PROVE AuthInv'
  <2>1. UNCHANGED <<auth, login, toGate>> /\ Put(a, [type |-> "request"])
    BY <1>0, <1>22, TypeRequestLogout DEF RequestLogout, clientVars
  <2> QED BY <1>1, <1>2, <1>4, <2>1
<1>23. ASSUME NEW a \in Agents, LoginStart(a) PROVE AuthInv'
  <2>1. Started(a) /\ UNCHANGED <<auth, toGate>>
    BY <1>0, <1>23, LoginStartFacts DEF LoginStart, clientVars
  <2> QED BY <1>0, <2>1, AuthStarts
<1>24. ASSUME NEW f \in Fds, LoginMarked(f) PROVE AuthInv'
  <2>1. UNCHANGED <<auth, toGate, inbox>> /\ Logged(f, "db")
    BY <1>0, <1>24, LoginMarkedFacts DEF LoginMarked, clientVars
  <2>2. \A g \in Fds : login'[g] = "none" <=> login[g] = "none"
    BY <2>1 DEF Logged
  <2> QED BY <1>1, <1>2, <1>3, <2>1, <2>2
<1>25. ASSUME NEW f \in Fds, LoginEnd(f) \/ LoginForbidden(f) PROVE AuthInv'
  <2>1. /\ UNCHANGED <<auth, inbox>> /\ Logged(f, "none")
        /\ \E ok \in BOOLEAN : ToGate([type |-> "loggedIn", fd |-> f, ok |-> ok])
    BY <1>0, <1>25, LoginEndFacts DEF LoginEnd, LoginForbidden, clientVars
  <2> QED BY <1>0, <2>1, AuthEnds
<1>26. ASSUME NEW a \in Agents, Reconnect(a) \/ Afk(a) PROVE AuthInv'
  <2>1. Took(a) /\ Head(inbox[a]).type # "login" /\ UNCHANGED <<auth, login, toGate>>
    BY <1>0, <1>26, SetOnlineFacts DEF Reconnect, Afk, clientVars
  <2> QED BY <1>1, <1>2, <1>3, <2>1
<1>27. ASSUME NEW c \in Callers, NEW a \in Agents, Completes(c, a), UNCHANGED <<auth, login>>, AgentSame
       PROVE  AuthInv'
  <2>1. UNCHANGED toGate \/ \E m \in GateMessages : m.type # "loggedIn" /\ ToGate(m)
    BY <1>27, CompletesGate
  <2> QED BY <1>1, <1>2, <1>27, <2>1
<1>28. ASSUME NEW a \in Agents, Logout(a) \/ ClientLogout(a) PROVE AuthInv'
  <2>1. /\ Took(a) /\ Head(inbox[a]).type # "login" /\ UNCHANGED <<auth, login>>
        /\ Completes(Kick, a) \/ Completes(ByClient, a)
    BY <1>0, <1>28, LogoutFacts, ClientLogoutFacts DEF clientVars
  <2> QED BY <1>3, <1>27, <2>1, CallerFacts
<1>29. ASSUME NEW a \in Agents, HeartbeatOut(a) PROVE AuthInv'
  BY <1>0, <1>3, <1>27, <1>29, HeartbeatOutFacts, CallerFacts DEF clientVars
<1>30. ASSUME NEW f \in Fds, ForbiddenLogout(f) PROVE AuthInv'
  BY <1>0, <1>3, <1>27, <1>30, ForbiddenLogoutFacts, CallerFacts DEF clientVars
<1>31. ASSUME NEW c \in Callers, WentOffline(c) PROVE AuthInv'
  BY <1>0, <1>3, <1>27, <1>31, WentOfflineFacts DEF clientVars
<1>32. ASSUME NEW a \in Agents, LogoutDone(a) PROVE AuthInv'
  <2>1. /\ Took(a) /\ Head(inbox[a]).type # "login" /\ UNCHANGED <<auth, login>>
        /\ UNCHANGED toGate \/ ToGate([type |-> "kicked"])
    BY <1>0, <1>32, LogoutDoneFacts DEF Ends, clientVars
  <2>2. UNCHANGED toGate \/ \E m \in GateMessages : m.type # "loggedIn" /\ ToGate(m)
    BY <2>1, KickedToGate
  <2> QED BY <1>1, <1>2, <1>3, <2>1, <2>2
<1>33. ASSUME NEW a \in Agents, AgentDies(a) PROVE AuthInv'
  BY <1>0, <1>33, AgentDiesFacts, AuthDies
<1> QED BY <1>10, <1>11, <1>12, <1>13, <1>14, <1>15, <1>16, <1>17, <1>18, <1>19, <1>20, <1>21, <1>22, <1>23, <1>24,
           <1>25, <1>26, <1>28, <1>29, <1>30, <1>31, <1>32, <1>33 DEF Step


----------------------------------------------------------------------------
(* Where the logouts of _logoutComplete are *)

AwaitsInv ==
    \A c \in Callers, a \in Agents : agent[a].life # "dead" =>
        LogoutTokens(c, a) = IF logout[c].at = "gate" /\ logout[c].agent = a THEN 1 ELSE 0

RequestInv ==
    /\ \A a \in Agents : Count(inbox[a], RequestAtAgent) <= 1
    /\ \A a \in Agents : Count(inbox[a], RequestAtAgent) > 0 =>
          logout[ByClient].at = "asked" /\ logout[ByClient].agent = a

ForbidFine(f) ==
    logout[Forbid(f)].at # "none" => auth[f].at = "over" \/ Count(toGate, LoginAtGate(f)) > 0

LEMMA LogoutParts == LogoutInv <=> AwaitsInv /\ RequestInv /\ \A f \in Fds : ForbidFine(f)
BY DEF LogoutInv, AwaitsInv, RequestInv, ForbidFine

LoginLogouts ==
    \A c \in Callers, a \in Agents : Count(toLogin', LogoutAtLogin(c, a)) = Count(toLogin, LogoutAtLogin(c, a))
GateLogouts ==
    \A c \in Callers, a \in Agents : Count(toGate', LogoutAtGate(c, a)) = Count(toGate, LogoutAtGate(c, a))
AgentLogouts ==
    \A c \in Callers, a \in Agents : Count(inbox'[a], LogoutAtAgent(c)) = Count(inbox[a], LogoutAtAgent(c))

\* The answers that are on their way stay the same, in one queue or another.
TokensSame ==
    \A c \in Callers, a \in Agents : agent[a].life # "dead" =>
        Count(toLogin', LogoutAtLogin(c, a)) + Count(toGate', LogoutAtGate(c, a))
                + Count(inbox'[a], LogoutAtAgent(c))
            = LogoutTokens(c, a)

LEMMA TokensFrame ==
    ASSUME LoginLogouts, GateLogouts, AgentLogouts
    PROVE  TokensSame
BY DEF LoginLogouts, GateLogouts, AgentLogouts, TokensSame, LogoutTokens

LEMMA LoginLogoutsFrame ==
    ASSUME TypeOK,
           \/ UNCHANGED toLogin
           \/ \E m \in LoginMessages : (\A c \in Callers, a \in Agents : m \notin LogoutAtLogin(c, a)) /\ ToLogin(m)
           \/ \E t : t # "logout" /\ Next1(toLogin, t) /\ toLogin' = Tail(toLogin)
    PROVE  LoginLogouts
<1> SUFFICES ASSUME NEW c \in Callers, NEW a \in Agents
             PROVE  Count(toLogin', LogoutAtLogin(c, a)) = Count(toLogin, LogoutAtLogin(c, a))
  BY DEF LoginLogouts
<1>1. ASSUME NEW t, t # "logout", Next1(toLogin, t), toLogin' = Tail(toLogin)
      PROVE  Head(toLogin) \notin LogoutAtLogin(c, a)
  BY <1>1, FromLoginFacts, LoginRead
<1> QED BY <1>1, LoginFrames

LEMMA GateLogoutsFrame ==
    ASSUME TypeOK,
           \/ UNCHANGED toGate
           \/ \E m \in GateMessages : (\A c \in Callers, a \in Agents : m \notin LogoutAtGate(c, a)) /\ ToGate(m)
           \/ \E t : /\ Next1(toGate, t) /\ toGate' = Tail(toGate)
                     /\ \A c \in Callers, a \in Agents : Head(toGate) \notin LogoutAtGate(c, a)
    PROVE  GateLogouts
BY GateFrames DEF GateLogouts

LEMMA AgentLogoutsFrame ==
    ASSUME TypeOK,
           \/ UNCHANGED inbox
           \/ \E a : \E m \in AgentMessages : m.type # "logoutDone" /\ Put(a, m)
           \/ \E a \in Agents : Took(a) /\ Head(inbox[a]).type # "logoutDone"
    PROVE  AgentLogouts
<1> SUFFICES ASSUME NEW c \in Callers
             PROVE  \A a \in Agents : Count(inbox'[a], LogoutAtAgent(c)) = Count(inbox[a], LogoutAtAgent(c))
  BY DEF AgentLogouts
<1>1. ASSUME NEW m \in AgentMessages, m.type # "logoutDone" PROVE m \notin LogoutAtAgent(c)
  BY <1>1, AgentRead
<1>2. ASSUME NEW a \in Agents, Took(a) PROVE Head(inbox[a]) \in AgentMessages
  BY <1>2, TookFacts
<1> QED BY <1>1, <1>2, AgentFrames

LEMMA CalledKeeps ==
    ASSUME TypeOK, NEW f \in Fds, NEW s, NEW o, NEW a \in Agents, Called(f, s, o, a)
    PROVE  /\ AgentLogouts
           /\ \A b \in Agents : Count(inbox'[b], RequestAtAgent) = Count(inbox[b], RequestAtAgent)
<1>1. CASE agent[a].life # "dead"
  <2> DEFINE m == [type |-> "login", fd |-> f, subid |-> obj[o].subid]
  <2>1. /\ m \in AgentMessages /\ obj[o].subid \in 0..MaxLogins
        /\ inbox' = [inbox EXCEPT ![a] = Append(@, m)]
    BY <1>1, Bounds DEF Called
  <2>2. m \notin RequestAtAgent /\ \A c : m \notin LogoutAtAgent(c)
    BY <2>1, LoginToAgent
  <2> HIDE DEF m
  <2>3. \A b \in Agents : \A S : Count(inbox'[b], S) = Count(inbox[b], S) + (IF b = a /\ m \in S THEN 1 ELSE 0)
    BY <2>1, AppendFacts, Zenon
  <2>4. \A b \in Agents : \A S : Count(inbox[b], S) \in Nat
    BY CountsAreNat
  <2>5. \A b \in Agents : \A S : m \notin S => Count(inbox'[b], S) = Count(inbox[b], S)
    BY <2>3, <2>4
  <2> QED BY <2>2, <2>5 DEF AgentLogouts
<1>2. CASE agent[a].life = "dead"
  <2>1. inbox' = inbox
    BY <1>2 DEF Called
  <2> QED BY <2>1 DEF AgentLogouts
<1> QED BY <1>1, <1>2

LEMMA AwaitsFrame ==
    ASSUME AwaitsInv, TokensSame, \A a \in Agents : agent'[a].life # "dead" => agent[a].life # "dead",
           \A c \in Callers, a \in Agents :
               logout'[c].at = "gate" /\ logout'[c].agent = a <=> logout[c].at = "gate" /\ logout[c].agent = a
    PROVE  AwaitsInv'
<1> SUFFICES ASSUME NEW c \in Callers, NEW a \in Agents, agent'[a].life # "dead"
             PROVE  LogoutTokens(c, a)' = IF logout'[c].at = "gate" /\ logout'[c].agent = a THEN 1 ELSE 0
  BY DEF AwaitsInv
<1>1. LogoutTokens(c, a)' = LogoutTokens(c, a)
  BY DEF TokensSame, LogoutTokens
<1>2. LogoutTokens(c, a) = IF logout[c].at = "gate" /\ logout[c].agent = a THEN 1 ELSE 0
  BY DEF AwaitsInv
<1> QED BY <1>1, <1>2

\* The login server answers the gate's logout.
LEMMA AwaitsRelayed ==
    ASSUME TypeOK, LogindLogout
    PROVE  TokensSame
<1> DEFINE m == Head(toLogin)
           x == [m EXCEPT !.type = "logoutDone"]
<1>1. /\ Next1(toLogin, "logout") /\ toLogin' = Tail(toLogin) /\ ToGate(x) /\ UNCHANGED inbox
      /\ m \in LoginMessages /\ m.type = "logout"
  BY FromLoginFacts DEF LogindLogout
<1>2. x \in GateMessages /\ x.type = "logoutDone" /\ x.caller = m.caller /\ x.agent = m.agent
  BY <1>1, LogoutRelayed
<1>4. \A S : Count(toLogin, S) = Count(toLogin', S) + (IF m \in S THEN 1 ELSE 0)
  BY <1>1, FromLoginFacts
<1> HIDE DEF x
<1>3. \A c \in Callers, a \in Agents : m \in LogoutAtLogin(c, a) <=> x \in LogoutAtGate(c, a)
  <2> HIDE DEF m
  <2>1. \A c, a : m \in LogoutAtLogin(c, a) <=> c = m.caller /\ a = m.agent
    BY <1>1, LoginRead
  <2>2. \A c, a : x \in LogoutAtGate(c, a) <=> c = x.caller /\ a = x.agent
    BY <1>2, GateRead
  <2> QED BY <1>2, <2>1, <2>2
<1>5. \A S : Count(toGate', S) = Count(toGate, S) + (IF x \in S THEN 1 ELSE 0)
  BY <1>1, <1>2, ToGateFacts
<1>6. \A S : Count(toLogin', S) \in Nat /\ Count(toGate, S) \in Nat /\ \A a \in Agents : Count(inbox[a], S) \in Nat
  <2>1. toLogin' \in Seq(LoginMessages)
    BY <1>1, FromLoginFacts
  <2> QED BY <2>1, CountNat, CountsAreNat
<1> HIDE DEF m
<1> SUFFICES ASSUME NEW c \in Callers, NEW a \in Agents
             PROVE  Count(toLogin', LogoutAtLogin(c, a)) + Count(toGate', LogoutAtGate(c, a))
                        + Count(inbox'[a], LogoutAtAgent(c)) = LogoutTokens(c, a)
  BY DEF TokensSame
<1> DEFINE l == Count(toLogin', LogoutAtLogin(c, a))
           g == Count(toGate, LogoutAtGate(c, a))
           i == Count(inbox[a], LogoutAtAgent(c))
           e == IF m \in LogoutAtLogin(c, a) THEN 1 ELSE 0
<1>7. /\ Count(toLogin, LogoutAtLogin(c, a)) = l + e /\ Count(toGate', LogoutAtGate(c, a)) = g + e
      /\ l \in Nat /\ g \in Nat /\ i \in Nat /\ e \in Nat /\ inbox' = inbox
  BY <1>1, <1>3, <1>4, <1>5, <1>6
<1> HIDE DEF l, g, i, e
<1>8. l + (g + e) + i = (l + e) + g + i
  BY <1>7
<1> QED BY <1>7, <1>8 DEF LogoutTokens, l, g, i

\* The gate answers the agent that has called.
LEMMA AwaitsAnswered ==
    ASSUME TypeOK, HandlersInv, LogoutInv, NEW t \in {"logout", "logoutDone"},
           Next1(toGate, t), toGate' = Tail(toGate), NEW d \in Callers, NEW b \in Agents, NEW ok \in BOOLEAN,
           d = Head(toGate).caller, b = Head(toGate).agent,
           Put(b, [type |-> "logoutDone", caller |-> d, ok |-> ok]), UNCHANGED toLogin
    PROVE  TokensSame
<1> DEFINE m == Head(toGate)
           x == [type |-> "logoutDone", caller |-> d, ok |-> ok]
<1>1. m \in GateMessages /\ m.type = t /\ m \in Range(toGate) /\ toGate' \in Seq(GateMessages)
      /\ \A S : Count(toGate, S) = Count(toGate', S) + (IF m \in S THEN 1 ELSE 0)
  BY FromGateFacts
<1>2. x \in AgentMessages /\ \A c : x \in LogoutAtAgent(c) <=> c = d
  BY LogoutDoneToAgent
<1>3. \A c, a : m \in LogoutAtGate(c, a) <=> c = d /\ a = b
  BY <1>1, GateRead
<1>4. agent[b].life # "dead" => Alive(b)
  <2>1. m \in LogoutAtGate(d, b)
    BY <1>3
  <2>2. agent[b].life # "dead" => logout[d].at = "gate" /\ logout[d].agent = b
    BY <1>1, <2>1, GateAwaited
  <2> QED BY <2>2, RunsIn
<1> HIDE DEF x
<1>5. \A a \in Agents : \A S :
         Count(inbox'[a], S) = Count(inbox[a], S) + (IF a = b /\ Alive(a) /\ x \in S THEN 1 ELSE 0)
  BY <1>2, PutFacts DEF x
<1>6. \A S : Count(toGate', S) \in Nat /\ Count(toLogin, S) \in Nat /\ \A a \in Agents : Count(inbox[a], S) \in Nat
  BY <1>1, CountNat, CountsAreNat
<1> HIDE DEF m
<1> SUFFICES ASSUME NEW c \in Callers, NEW a \in Agents, agent[a].life # "dead"
             PROVE  Count(toLogin', LogoutAtLogin(c, a)) + Count(toGate', LogoutAtGate(c, a))
                        + Count(inbox'[a], LogoutAtAgent(c)) = LogoutTokens(c, a)
  BY DEF TokensSame
<1> DEFINE l == Count(toLogin, LogoutAtLogin(c, a))
           g == Count(toGate', LogoutAtGate(c, a))
           i == Count(inbox[a], LogoutAtAgent(c))
           e == IF c = d /\ a = b THEN 1 ELSE 0
<1>7. /\ Count(toGate, LogoutAtGate(c, a)) = g + e /\ Count(inbox'[a], LogoutAtAgent(c)) = i + e
      /\ l \in Nat /\ g \in Nat /\ i \in Nat /\ e \in Nat /\ toLogin' = toLogin
  <2>1. Count(toGate, LogoutAtGate(c, a)) = g + e
    BY <1>1, <1>3
  <2>2. a = b /\ Alive(a) /\ x \in LogoutAtAgent(c) <=> c = d /\ a = b
    BY <1>2, <1>4
  <2>3. Count(inbox'[a], LogoutAtAgent(c)) = i + e
    BY <1>5, <2>2
  <2> QED BY <1>6, <2>1, <2>3
<1> HIDE DEF l, g, i, e
<1>8. l + g + (i + e) = l + (g + e) + i
  BY <1>7
<1> QED BY <1>7, <1>8 DEF LogoutTokens, l, g, i

\* The gate calls the login server for the agent.
LEMMA AwaitsCalled ==
    ASSUME TypeOK, Next1(toGate, "logout"), toGate' = Tail(toGate), NEW d \in Callers, NEW b \in Agents,
           d = Head(toGate).caller, b = Head(toGate).agent,
           ToLogin([type |-> "logout", caller |-> d, agent |-> b]), UNCHANGED inbox
    PROVE  TokensSame
<1> DEFINE m == Head(toGate)
           x == [type |-> "logout", caller |-> d, agent |-> b]
<1>1. m \in GateMessages /\ m.type = "logout" /\ toGate' \in Seq(GateMessages)
      /\ \A S : Count(toGate, S) = Count(toGate', S) + (IF m \in S THEN 1 ELSE 0)
  BY FromGateFacts
<1>2. x \in LoginMessages /\ \A c, a : x \in LogoutAtLogin(c, a) <=> c = d /\ a = b
  BY LogoutToLogin
<1>3. \A c, a : m \in LogoutAtGate(c, a) <=> c = d /\ a = b
  BY <1>1, GateRead
<1> HIDE DEF x
<1>4. \A S : Count(toLogin', S) = Count(toLogin, S) + (IF x \in S THEN 1 ELSE 0)
  BY <1>2, ToLoginFacts DEF x
<1>5. \A S : Count(toGate', S) \in Nat /\ Count(toLogin, S) \in Nat /\ \A a \in Agents : Count(inbox[a], S) \in Nat
  BY <1>1, CountNat, CountsAreNat
<1> HIDE DEF m
<1> SUFFICES ASSUME NEW c \in Callers, NEW a \in Agents
             PROVE  Count(toLogin', LogoutAtLogin(c, a)) + Count(toGate', LogoutAtGate(c, a))
                        + Count(inbox'[a], LogoutAtAgent(c)) = LogoutTokens(c, a)
  BY DEF TokensSame
<1> DEFINE l == Count(toLogin, LogoutAtLogin(c, a))
           g == Count(toGate', LogoutAtGate(c, a))
           i == Count(inbox[a], LogoutAtAgent(c))
           e == IF c = d /\ a = b THEN 1 ELSE 0
<1>6. /\ Count(toGate, LogoutAtGate(c, a)) = g + e /\ Count(toLogin', LogoutAtLogin(c, a)) = l + e
      /\ l \in Nat /\ g \in Nat /\ i \in Nat /\ e \in Nat /\ inbox' = inbox
  BY <1>1, <1>2, <1>3, <1>4, <1>5, ZenonT(60)
<1> HIDE DEF l, g, i, e
<1>7. (l + e) + g + i = l + (g + e) + i
  BY <1>6
<1> QED BY <1>6, <1>7 DEF LogoutTokens, l, g, i

\* _logoutComplete goes offline first, or tells the gate: its answer is then awaited; or it fails.
LEMMA AwaitsCompletes ==
    ASSUME TypeOK, HandlersInv, LogoutInv, NEW c \in Callers, NEW b \in Agents, Completes(c, b),
           logout[c].at # "gate", LoginLogouts, AgentLogouts, \A a \in Agents : agent'[a].life = agent[a].life
    PROVE  AwaitsInv'
<1>0. AwaitsInv
  BY LogoutParts
<1>1. \A d \in Callers : d # c => logout'[d] = logout[d]
  BY DEF Completes
<1>2. CASE logout'[c] = [at |-> "offline", agent |-> b] /\ UNCHANGED toGate
  <2>1. TokensSame
    BY <1>2, TokensFrame DEF GateLogouts
  <2>2. ASSUME NEW d \in Callers, NEW a \in Agents
        PROVE  logout'[d].at = "gate" /\ logout'[d].agent = a <=> logout[d].at = "gate" /\ logout[d].agent = a
    BY <1>1, <1>2
  <2> QED BY <1>0, <2>1, <2>2, AwaitsFrame
<1>3. CASE Tells(c, b)
  <2> DEFINE m == [type |-> "logout", caller |-> c, agent |-> b, subid |-> agent[b].subid]
  <2>1. ToGate(m) /\ m \in GateMessages /\ logout'[c] = [at |-> "gate", agent |-> b] /\ agent[b].subid \in 0..MaxLogins
    BY <1>3, Bounds DEF Tells
  <2>2. \A d, a : m \in LogoutAtGate(d, a) <=> d = c /\ a = b
    BY <2>1, LogoutToGate
  <2> HIDE DEF m
  <2>3. \A S : Count(toGate', S) = Count(toGate, S) + (IF m \in S THEN 1 ELSE 0)
    BY <2>1, ToGateFacts
  <2> SUFFICES ASSUME NEW d \in Callers, NEW a \in Agents, agent'[a].life # "dead"
               PROVE  LogoutTokens(d, a)' = IF logout'[d].at = "gate" /\ logout'[d].agent = a THEN 1 ELSE 0
    BY DEF AwaitsInv
  <2> DEFINE l == Count(toLogin, LogoutAtLogin(d, a))
             g == Count(toGate, LogoutAtGate(d, a))
             i == Count(inbox[a], LogoutAtAgent(d))
  <2>4. l \in Nat /\ g \in Nat /\ i \in Nat
    BY CountsAreNat
  <2>5. l + g + i = IF logout[d].at = "gate" /\ logout[d].agent = a THEN 1 ELSE 0
    BY <1>0 DEF AwaitsInv, LogoutTokens
  <2>6. LogoutTokens(d, a)' = l + (g + (IF d = c /\ a = b THEN 1 ELSE 0)) + i
    BY <2>2, <2>3 DEF LogoutTokens, LoginLogouts, AgentLogouts
  <2> HIDE DEF l, g, i
  <2>7. CASE d = c
    <3>1. logout'[d].at = "gate" /\ logout'[d].agent = b
      BY <2>1, <2>7
    <3>2. l = 0 /\ g = 0 /\ i = 0
      BY <2>4, <2>5, <2>7
    <3> QED BY <2>6, <2>7, <3>1, <3>2
  <2>8. CASE d # c
    BY <1>1, <2>4, <2>5, <2>6, <2>8
  <2> QED BY <2>7, <2>8
<1>4. CASE Fails(c)
  <2>1. logout'[c].at = "none" /\ (UNCHANGED toGate \/ ToGate([type |-> "kicked"]))
    BY <1>4 DEF Fails
  <2>2. GateLogouts
    BY <2>1, KickedToGate, GateLogoutsFrame
  <2>3. TokensSame
    BY <2>2, TokensFrame
  <2>4. ASSUME NEW d \in Callers, NEW a \in Agents
        PROVE  logout'[d].at = "gate" /\ logout'[d].agent = a <=> logout[d].at = "gate" /\ logout[d].agent = a
    BY <1>1, <2>1
  <2> QED BY <1>0, <2>3, <2>4, AwaitsFrame
<1> QED BY <1>2, <1>3, <1>4 DEF Completes, Goes

\* The gate's answer is read.
LEMMA AwaitsEnds ==
    ASSUME TypeOK, HandlersInv, LogoutInv, NEW b \in Agents, Ends(b)
    PROVE  AwaitsInv'
<1> DEFINE m == Head(inbox[b])
<1>0. AwaitsInv
  BY LogoutParts
<1>1. PICK c \in Callers :
         /\ c = m.caller /\ Took(b) /\ m \in AgentMessages /\ m.type = "logoutDone" /\ m \in Range(inbox[b])
         /\ logout'[c].at = "none" /\ logout'[c].agent = None /\ \A d \in Callers : d # c => logout'[d] = logout[d]
         /\ UNCHANGED <<agent, toLogin>>
         /\ UNCHANGED toGate \/ ToGate([type |-> "kicked"])
  BY DEF Ends
<1>2. \A d : m \in LogoutAtAgent(d) <=> d = c
  BY <1>1, AgentRead
<1>3. inbox' \in [Agents -> Seq(AgentMessages)] /\ Alive(b)
      /\ \A a \in Agents : \A S : Count(inbox[a], S) = Count(inbox'[a], S) + (IF a = b /\ Head(inbox[a]) \in S THEN 1 ELSE 0)
  BY <1>1, TookFacts
<1>4. logout[c].at = "gate" /\ logout[c].agent = b
  BY <1>1, <1>2, <1>3, GateAwaited DEF Alive
<1>5. GateLogouts
  BY <1>1, KickedToGate, GateLogoutsFrame
<1> SUFFICES ASSUME NEW d \in Callers, NEW a \in Agents, agent[a].life # "dead"
             PROVE  LogoutTokens(d, a)' = IF logout'[d].at = "gate" /\ logout'[d].agent = a THEN 1 ELSE 0
  BY <1>1 DEF AwaitsInv
<1> DEFINE l == Count(toLogin, LogoutAtLogin(d, a))
           g == Count(toGate, LogoutAtGate(d, a))
           i == Count(inbox'[a], LogoutAtAgent(d))
           e == IF d = c /\ a = b THEN 1 ELSE 0
<1>6. l \in Nat /\ g \in Nat /\ i \in Nat /\ Count(inbox[a], LogoutAtAgent(d)) = i + e
  <2>1. i \in Nat
    BY <1>3, CountNat
  <2>2. Count(inbox[a], LogoutAtAgent(d)) = i + e
    BY <1>2, <1>3
  <2> QED BY <2>1, <2>2, CountsAreNat
<1>7. l + g + (i + e) = IF logout[d].at = "gate" /\ logout[d].agent = a THEN 1 ELSE 0
  BY <1>0, <1>6 DEF AwaitsInv, LogoutTokens
<1>8. LogoutTokens(d, a)' = l + g + i
  BY <1>1, <1>5 DEF LogoutTokens, GateLogouts
<1> HIDE DEF l, g, i, m
<1>9. CASE d = c
  BY <1>1, <1>4, <1>6, <1>7, <1>8, <1>9
<1>10. CASE d # c
  BY <1>1, <1>6, <1>7, <1>8, <1>10
<1> QED BY <1>9, <1>10

\* An agent exits, and who waited in it with it.
LEMMA AwaitsDies ==
    ASSUME TypeOK, HandlersInv, AwaitsInv, NEW b \in Agents, Died(b)
    PROVE  AwaitsInv'
<1>1. /\ agent'[b].life = "dead" /\ \A a \in Agents : a # b => agent'[a] = agent[a] /\ inbox'[a] = inbox[a]
      /\ \A c \in Callers : logout'[c] = IF logout[c].agent = b THEN NoLogout ELSE logout[c]
      /\ \A c \in Callers, a \in Agents : Count(toGate', LogoutAtGate(c, a)) = Count(toGate, LogoutAtGate(c, a))
      /\ UNCHANGED toLogin
  BY DEF Died
<1> SUFFICES ASSUME NEW c \in Callers, NEW a \in Agents, agent'[a].life # "dead"
             PROVE  LogoutTokens(c, a)' = IF logout'[c].at = "gate" /\ logout'[c].agent = a THEN 1 ELSE 0
  BY DEF AwaitsInv
<1>2. a # b /\ agent[a].life # "dead"
  BY <1>1
<1>3. LogoutTokens(c, a)' = LogoutTokens(c, a)
  BY <1>1, <1>2 DEF LogoutTokens
<1>4. logout'[c].at = "gate" /\ logout'[c].agent = a <=> logout[c].at = "gate" /\ logout[c].agent = a
  BY <1>1, <1>2 DEF NoLogout
<1> QED BY <1>2, <1>3, <1>4 DEF AwaitsInv

\* The kick and the request of a client are read before their caller runs.
LEMMA NotYetAsked ==
    ASSUME TypeOK, AcceptInv, LogoutInv, NEW a \in Agents, Took(a)
    PROVE  /\ Head(inbox[a]).type = "logout" => logout[Kick].at = "none"
           /\ Head(inbox[a]).type = "request" => logout[ByClient].at = "asked" /\ logout[ByClient].agent = a
<1> DEFINE m == Head(inbox[a])
<1>1. m \in AgentMessages /\ m \in Range(inbox[a])
  BY TookFacts
<1>2. CASE m.type = "logout"
  BY <1>1, <1>2, AgentRead, AtAgent
<1>3. CASE m.type = "request"
  <2>1. m \in RequestAtAgent
    BY <1>1, <1>3, AgentRead
  <2>2. Count(inbox[a], RequestAtAgent) # 0 /\ Count(inbox[a], RequestAtAgent) \in Nat
    BY <1>1, <2>1, CountsAreRanges, CountsAreNat
  <2> QED BY <1>3, <2>2 DEF LogoutInv
<1> QED BY <1>2, <1>3

LEMMA AwaitsStep ==
    ASSUME SessionInv, Step
    PROVE  AwaitsInv'
<1>0. /\ TypeOK /\ TablesInv /\ HandlersInv /\ AcceptInv /\ AuthInv /\ LogoutInv /\ RecordsInv
      /\ CountNeverShort /\ AwaitsInv
  BY LogoutParts DEF SessionInv
<1> DEFINE Lives == \A b \in Agents : agent'[b].life # "dead" => agent[b].life # "dead"
<1>1. ASSUME LoginLogouts, GateLogouts, AgentLogouts, Lives, UNCHANGED logout PROVE AwaitsInv'
  BY <1>0, <1>1, TokensFrame, AwaitsFrame
<1>2. ASSUME TokensSame, UNCHANGED agentVars PROVE AwaitsInv'
  BY <1>0, <1>2, AwaitsFrame DEF agentVars
<1>3. /\ UNCHANGED toLogin => LoginLogouts
      /\ UNCHANGED toGate => GateLogouts
      /\ UNCHANGED inbox => AgentLogouts
      /\ UNCHANGED agent => Lives
  BY DEF LoginLogouts, GateLogouts, AgentLogouts
<1>4. ASSUME NEW a, NEW t \in {"reconnect", "afk", "request", "logout"}, Put(a, [type |-> t]) PROVE AgentLogouts
  <2> DEFINE m == [type |-> t]
  <2>1. m \in AgentMessages /\ m.type # "logoutDone" /\ Put(a, m)
    BY <1>4, PlainToAgent
  <2> HIDE DEF m
  <2> QED BY <1>0, <2>1, AgentLogoutsFrame
<1>5. ASSUME NEW a \in Agents, Took(a), Head(inbox[a]).type # "logoutDone" PROVE AgentLogouts
  BY <1>0, <1>5, AgentLogoutsFrame
<1>6. ASSUME GoesOn PROVE LoginLogouts /\ AgentLogouts
  BY <1>0, <1>3, <1>4, <1>6, LoginLogoutsFrame DEF GoesOn
<1>7. ASSUME NEW m \in GateMessages, m.type \notin {"logout", "logoutDone"}, ToGate(m) PROVE GateLogouts
  BY <1>0, <1>7, GateRead, GateLogoutsFrame
<1>8. ASSUME NEW t, t \notin {"logout", "logoutDone"}, Next1(toGate, t), toGate' = Tail(toGate) PROVE GateLogouts
  <2>1. Head(toGate) \in GateMessages /\ Head(toGate).type = t
    BY <1>0, <1>8, FromGateFacts
  <2>2. \A c, a : Head(toGate) \notin LogoutAtGate(c, a)
    BY <1>8, <2>1, GateRead
  <2> QED BY <1>0, <1>8, <2>2, GateLogoutsFrame
<1>9. ASSUME NEW m \in LoginMessages, m.type # "logout", ToLogin(m) PROVE LoginLogouts
  BY <1>0, <1>9, LoginRead, LoginLogoutsFrame
<1> HIDE DEF Lives

<1>10. CASE Accept
  <2>1. /\ accept' \in {"kick", "login"} /\ ToGate([type |-> accept', subid |-> online])
        /\ online \in 0..MaxLogins /\ UNCHANGED <<inbox, agent, logout, toLogin>>
    BY <1>0, <1>10, Bounds DEF Accept, agentVars, TypeOK
  <2>2. GateLogouts
    <3> DEFINE m == [type |-> accept', subid |-> online]
    <3>1. m \in GateMessages /\ m.type = accept' /\ ToGate(m)
      BY <2>1, CallToGate
    <3> HIDE DEF m
    <3> QED BY <1>7, <2>1, <3>1
  <2> QED BY <1>1, <1>3, <2>1, <2>2
<1>11. CASE LogindLogout
  BY <1>0, <1>2, <1>11, AwaitsRelayed DEF LogindLogout
<1>12. CASE KickAnswered
  <2>1. /\ UNCHANGED <<inbox, agent, logout>> /\ Next1(toLogin, "kicked") /\ toLogin' = Tail(toLogin)
        /\ UNCHANGED toGate \/ ToGate([type |-> "login", subid |-> 0])
    BY <1>12 DEF KickAnswered, agentVars
  <2>2. GateLogouts
    <3> DEFINE m == [type |-> "login", subid |-> 0]
    <3>1. m \in GateMessages /\ m.type = "login"
      BY CallToGate, SessionAssumption
    <3> QED BY <1>3, <1>7, <2>1, <3>1
  <2>3. LoginLogouts
    BY <1>0, <2>1, LoginLogoutsFrame
  <2> QED BY <1>1, <1>3, <2>1, <2>2, <2>3
<1>13. CASE LoginAnswered
  <2>1. LoginLogouts
    BY <1>0, <1>13, LoginLogoutsFrame DEF LoginAnswered
  <2> QED BY <1>1, <1>3, <1>13, <2>1 DEF LoginAnswered, agentVars
<1>14. CASE GateLogin \/ GateKicked \/ AgentExit
  <2>1. /\ UNCHANGED <<inbox, agent, logout>>
        /\ \E t : t \notin {"logout", "logoutDone"} /\ Next1(toGate, t) /\ toGate' = Tail(toGate)
    BY <1>14 DEF GateLogin, GateKicked, AgentExit, agentVars
  <2>2. LoginLogouts
    <3>1. CASE GateLogin
      <4>1. \E s \in 0..MaxLogins : ToLogin([type |-> "loggedIn", subid |-> s])
        <5>1. 0 \in 0..MaxLogins
          BY SessionAssumption
        <5>2. LoggedNew \/ ToLogin([type |-> "loggedIn", subid |-> 0])
          BY <1>0, <3>1, GateLoginFacts
        <5>3. LoggedNew => internal_id + 1 \in 0..MaxLogins /\ ToLogin([type |-> "loggedIn", subid |-> internal_id + 1])
          BY <1>0, Bounds DEF LoggedNew
        <5> QED BY <5>1, <5>2, <5>3
      <4> QED BY <1>9, <4>1, LoggedInToLogin
    <3>2. CASE GateKicked
      <4>1. ToLogin([type |-> "kicked", ok |-> TRUE])
        BY <3>2 DEF GateKicked
      <4> QED BY <1>9, <4>1, KickedToLogin
    <3>3. CASE AgentExit
      BY <1>3, <3>3 DEF AgentExit
    <3> QED BY <1>14, <3>1, <3>2, <3>3
  <2> QED BY <1>1, <1>3, <1>8, <2>1, <2>2
<1>15. CASE GateKick
  <2>1. GoesOn /\ Next1(toGate, "kick") /\ toGate' = Tail(toGate) /\ UNCHANGED <<agent, logout>>
    BY <1>0, <1>15, GateKickGoesOn DEF GateKick, agentVars
  <2> QED BY <1>1, <1>3, <1>6, <1>8, <2>1
<1>16. CASE GateLogoutDone
  <2> DEFINE m == Head(toGate)
  <2>1. /\ m \in GateMessages /\ m.type = "logoutDone" /\ m.caller \in Callers
        /\ \/ m.agent = None /\ GoesOn
           \/ /\ m.agent \in Agents /\ UNCHANGED toLogin
              /\ Put(m.agent, [type |-> "logoutDone", caller |-> m.caller, ok |-> TRUE])
        /\ Next1(toGate, "logoutDone") /\ toGate' = Tail(toGate) /\ UNCHANGED agentVars
    BY <1>0, <1>16, GateLogoutDoneCases DEF GateLogoutDone
  <2>2. CASE m.agent = None /\ GoesOn
    <3>1. \A c \in Callers, a \in Agents : m \notin LogoutAtGate(c, a)
      BY <1>0, <2>1, <2>2, GateRead, Bounds
    <3>2. GateLogouts
      BY <1>0, <2>1, <3>1, GateLogoutsFrame
    <3> QED BY <1>1, <1>3, <1>6, <2>1, <2>2, <3>2 DEF agentVars
  <2>3. CASE /\ m.agent \in Agents /\ UNCHANGED toLogin
             /\ Put(m.agent, [type |-> "logoutDone", caller |-> m.caller, ok |-> TRUE])
    BY <1>0, <1>2, <2>1, <2>3, AwaitsAnswered
  <2> QED BY <2>1, <2>2, <2>3
<1>17. CASE GateLogout
  <2> DEFINE m == Head(toGate)
  <2>1. /\ m.caller \in Callers /\ m.agent \in Agents
        /\ \/ Put(m.agent, [type |-> "logoutDone", caller |-> m.caller, ok |-> FALSE]) /\ UNCHANGED toLogin
           \/ ToLogin([type |-> "logout", caller |-> m.caller, agent |-> m.agent]) /\ UNCHANGED inbox
        /\ Next1(toGate, "logout") /\ toGate' = Tail(toGate) /\ UNCHANGED agentVars
    BY <1>0, <1>17, GateLogoutCases DEF GateLogout
  <2> QED BY <1>0, <1>2, <2>1, AwaitsAnswered, AwaitsCalled
<1>18. CASE LoginReply
  <2>1. UNCHANGED <<agent, logout, toLogin, inbox>> /\ Next1(toGate, "loggedIn") /\ toGate' = Tail(toGate)
    BY <1>18 DEF LoginReply, agentVars
  <2> QED BY <1>1, <1>3, <1>8, <2>1
<1>19. ASSUME NEW f \in Fds, NEW s \in Subids, NEW index \in {"new", "expired"}, Handshake(f, s, index)
       PROVE  AwaitsInv'
  <2> DEFINE o == username_map[s]
             a == obj[o].agent
  <2>0. /\ UNCHANGED <<agent, logout, toLogin, toGate>> /\ s \in 1..internal_id
        /\ \/ UNCHANGED inbox
           \/ o \in 1..internal_id /\ a \in Agents /\ CallLogin(f, s, o, a)
           \/ Put(a, [type |-> "reconnect"])
    BY <1>0, <1>19, HandshakeCases DEF agentVars
  <2> HIDE DEF o, a
  <2>1. AgentLogouts
    BY <1>0, <1>3, <1>4, <2>0, CallLoginFacts, CalledKeeps
  <2> QED BY <1>1, <1>3, <2>0, <2>1
<1>20. ASSUME NEW f \in Fds, NEW a \in Agents, GotAgent(f, a) PROVE AwaitsInv'
  <2>1. /\ Called(f, auth[f].subid, auth[f].obj, a) /\ UNCHANGED <<logout, toLogin, toGate>>
        /\ agent[a].life = "unborn" /\ \A b \in Agents : b # a => agent'[b] = agent[b]
    BY <1>0, <1>20, GotAgentFacts
  <2>2. Lives
    BY <2>1 DEF Lives
  <2> QED BY <1>0, <1>1, <1>3, <2>1, <2>2, CalledKeeps
<1>21. ASSUME NEW f \in Fds, Disconnect(f) PROVE AwaitsInv'
  <2>1. UNCHANGED <<agent, logout, toLogin, toGate>>
    BY <1>21 DEF Disconnect, agentVars
  <2>2. AgentLogouts
    BY <1>0, <1>3, <1>4, <1>21, TypeDisconnect
  <2> QED BY <1>1, <1>3, <2>1, <2>2
<1>22. ASSUME NEW f \in Fds, NEW b \in Agents, RequestLogout(f, b) PROVE AwaitsInv'
  <2>1. /\ UNCHANGED <<agent, toLogin, toGate>> /\ Put(b, [type |-> "request"]) /\ logout[ByClient].at = "none"
        /\ logout' = [logout EXCEPT ![ByClient] = [at |-> "asked", agent |-> b]]
    BY <1>0, <1>22, TypeRequestLogout DEF RequestLogout
  <2>2. ASSUME NEW c \in Callers, NEW a \in Agents
        PROVE  logout'[c].at = "gate" /\ logout'[c].agent = a <=> logout[c].at = "gate" /\ logout[c].agent = a
    <3>1. logout \in [Callers -> [at : {"none", "asked", "offline", "gate"}, agent : Agents \cup {None}]]
      BY <1>0 DEF TypeOK
    <3> QED BY <2>1, <3>1
  <2> QED BY <1>0, <1>3, <1>4, <2>1, <2>2, TokensFrame, AwaitsFrame DEF Lives
<1>23. ASSUME NEW a \in Agents, LoginStart(a) PROVE AwaitsInv'
  <2>1. Started(a) /\ UNCHANGED <<logout, toLogin, toGate>>
    BY <1>0, <1>23, LoginStartFacts DEF LoginStart
  <2>2. AgentLogouts /\ Lives
    BY <1>5, <2>1 DEF Started, Lives
  <2> QED BY <1>1, <1>3, <2>1, <2>2
<1>24. ASSUME NEW f \in Fds, LoginMarked(f) PROVE AwaitsInv'
  <2>1. UNCHANGED <<logout, toLogin, toGate, inbox>> /\ Logged(f, "db")
    BY <1>0, <1>24, LoginMarkedFacts DEF LoginMarked
  <2>2. Lives
    BY <2>1 DEF Logged, Lives
  <2> QED BY <1>1, <1>3, <2>1, <2>2
<1>25. ASSUME NEW f \in Fds, LoginEnd(f) \/ LoginForbidden(f) PROVE AwaitsInv'
  <2>1. /\ UNCHANGED <<toLogin, inbox>> /\ Logged(f, "none")
        /\ \E ok \in BOOLEAN : ToGate([type |-> "loggedIn", fd |-> f, ok |-> ok])
    BY <1>0, <1>25, LoginEndFacts DEF LoginEnd, LoginForbidden
  <2>2. GateLogouts
    <3>1. \E m \in GateMessages : m.type \notin {"logout", "logoutDone"} /\ ToGate(m)
      BY <2>1, LoggedInToGate
    <3> QED BY <1>7, <3>1
  <2>3. Lives
    BY <2>1 DEF Logged, Lives
  <2>4. CASE LoginEnd(f)
    BY <1>1, <1>3, <2>1, <2>2, <2>3, <2>4 DEF LoginEnd
  <2>5. CASE LoginForbidden(f)
    <3>1. /\ logout' = [logout EXCEPT ![Forbid(f)] = [at |-> "asked", agent |-> auth[f].agent]]
          /\ login[f] = "db"
      BY <2>5 DEF LoginForbidden
    <3>2. logout[Forbid(f)].at = "none"
      <4>1. auth[f].at = "login" /\ auth[f].agent \in Agents
        BY <2>1 DEF Logged
      <4>2. Count(toGate, LoginAtGate(f)) + Count(inbox[auth[f].agent], LoginAtAgent(f)) + 1 = 1
        BY <1>0, <3>1, <4>1 DEF AuthInv
      <4>3. Count(toGate, LoginAtGate(f)) \in Nat /\ Count(inbox[auth[f].agent], LoginAtAgent(f)) \in Nat
        BY <1>0, <4>1, CountsAreNat
      <4> QED BY <1>0, <4>1, <4>2, <4>3 DEF LogoutInv
    <3>3. ASSUME NEW c \in Callers, NEW a \in Agents
          PROVE  logout'[c].at = "gate" /\ logout'[c].agent = a <=> logout[c].at = "gate" /\ logout[c].agent = a
      <4>1. logout \in [Callers -> [at : {"none", "asked", "offline", "gate"}, agent : Agents \cup {None}]]
        BY <1>0 DEF TypeOK
      <4> QED BY <3>1, <3>2, <4>1
    <3> QED BY <1>0, <1>3, <2>1, <2>2, <2>3, <3>3, TokensFrame, AwaitsFrame DEF Lives
  <2> QED BY <1>25, <2>4, <2>5
<1>26. ASSUME NEW a \in Agents, Reconnect(a) \/ Afk(a) PROVE AwaitsInv'
  <2>1. /\ Took(a) /\ Head(inbox[a]).type # "logoutDone" /\ UNCHANGED <<logout, toLogin, toGate>>
        /\ \A b \in Agents : agent'[b].life = agent[b].life
    BY <1>0, <1>26, SetOnlineFacts DEF Reconnect, Afk
  <2> QED BY <1>1, <1>3, <1>5, <2>1 DEF Lives
<1>27. ASSUME NEW a \in Agents, Logout(a) PROVE AwaitsInv'
  <2>1. /\ Took(a) /\ Head(inbox[a]).type = "logout" /\ UNCHANGED toLogin /\ Completes(Kick, a)
        /\ \A b \in Agents : agent'[b].life = agent[b].life
    BY <1>0, <1>27, LogoutFacts, LeavesLife
  <2>2. logout[Kick].at # "gate"
    BY <1>0, <2>1, NotYetAsked
  <2> QED BY <1>0, <1>3, <1>5, <2>1, <2>2, AwaitsCompletes, CallerFacts
<1>28. ASSUME NEW a \in Agents, ClientLogout(a) PROVE AwaitsInv'
  <2>1. /\ Took(a) /\ Head(inbox[a]).type = "request" /\ UNCHANGED toLogin /\ Completes(ByClient, a)
        /\ \A b \in Agents : agent'[b].life = agent[b].life
    BY <1>0, <1>28, ClientLogoutFacts, LeavesLife
  <2>2. logout[ByClient].at # "gate"
    BY <1>0, <2>1, NotYetAsked
  <2> QED BY <1>0, <1>3, <1>5, <2>1, <2>2, AwaitsCompletes, CallerFacts
<1>29. ASSUME NEW a \in Agents, HeartbeatOut(a) PROVE AwaitsInv'
  <2>1. /\ UNCHANGED <<toLogin, inbox>> /\ Completes(Exit(a), a) /\ logout[Exit(a)].at # "gate"
        /\ \A b \in Agents : agent'[b].life = agent[b].life
    BY <1>0, <1>29, HeartbeatOutFacts, LeavesLife
  <2> QED BY <1>0, <1>3, <2>1, AwaitsCompletes, CallerFacts
<1>30. ASSUME NEW f \in Fds, ForbiddenLogout(f) PROVE AwaitsInv'
  <2>1. \E a \in Agents : /\ UNCHANGED <<toLogin, inbox>> /\ Completes(Forbid(f), a) /\ logout[Forbid(f)].at # "gate"
                          /\ \A b \in Agents : agent'[b].life = agent[b].life
    BY <1>0, <1>30, ForbiddenLogoutFacts, LeavesLife
  <2> QED BY <1>0, <1>3, <2>1, AwaitsCompletes, CallerFacts
<1>31. ASSUME NEW c \in Callers, WentOffline(c) PROVE AwaitsInv'
  <2>1. \E a \in Agents : /\ UNCHANGED <<toLogin, inbox, agent>> /\ Completes(c, a) /\ logout[c].at # "gate"
    BY <1>0, <1>31, WentOfflineFacts
  <2> QED BY <1>0, <1>3, <2>1, AwaitsCompletes
<1>32. ASSUME NEW a \in Agents, LogoutDone(a) PROVE AwaitsInv'
  BY <1>0, <1>32, LogoutDoneFacts, AwaitsEnds
<1>33. ASSUME NEW a \in Agents, AgentDies(a) PROVE AwaitsInv'
  BY <1>0, <1>33, AgentDiesFacts, AwaitsDies
<1> QED BY <1>10, <1>11, <1>12, <1>13, <1>14, <1>15, <1>16, <1>17, <1>18, <1>19, <1>20, <1>21, <1>22, <1>23, <1>24,
           <1>25, <1>26, <1>27, <1>28, <1>29, <1>30, <1>31, <1>32, <1>33 DEF Step

\* Requests of a client to log out.
Requests(a) == Count(inbox[a], RequestAtAgent)

LEMMA RequestFrame ==
    ASSUME TypeOK, RequestInv, \A a \in Agents : Requests(a)' = Requests(a) \/ Requests(a)' = 0,
           \A a \in Agents : Requests(a)' # 0 => logout'[ByClient] = logout[ByClient]
    PROVE  RequestInv'
<1>1. \A a \in Agents : Requests(a) \in Nat
  BY CountsAreNat DEF Requests
<1>2. \A a \in Agents : /\ Requests(a) <= 1
                        /\ Requests(a) > 0 => logout[ByClient].at = "asked" /\ logout[ByClient].agent = a
  BY DEF RequestInv, Requests
<1>3. ASSUME NEW a \in Agents
      PROVE  /\ Requests(a)' <= 1
             /\ Requests(a)' > 0 => logout'[ByClient].at = "asked" /\ logout'[ByClient].agent = a
  <2>1. CASE Requests(a)' = 0
    BY <2>1
  <2>2. CASE Requests(a)' # 0
    BY <1>1, <1>2, <2>2
  <2> QED BY <2>1, <2>2
<1> QED BY <1>3 DEF RequestInv, Requests

\* While no request is under way none waits.
LEMMA NoRequest ==
    ASSUME TypeOK, RequestInv, logout[ByClient].at # "asked"
    PROVE  \A a \in Agents : Requests(a) = 0
<1>1. \A a \in Agents : Requests(a) \in Nat
  BY CountsAreNat DEF Requests
<1> QED BY <1>1 DEF RequestInv, Requests

LEMMA RequestsFrame ==
    ASSUME TypeOK,
           \/ UNCHANGED inbox
           \/ \E a : \E m \in AgentMessages : m.type # "request" /\ Put(a, m)
           \/ \E a \in Agents : Took(a) /\ Head(inbox[a]).type # "request"
    PROVE  \A b \in Agents : Requests(b)' = Requests(b)
<1>1. ASSUME NEW m \in AgentMessages, m.type # "request" PROVE m \notin RequestAtAgent
  BY <1>1, AgentRead
<1>2. ASSUME NEW a \in Agents, Took(a) PROVE Head(inbox[a]) \in AgentMessages
  BY <1>2, TookFacts
<1> QED BY <1>1, <1>2, AgentFrames DEF Requests

\* The request is sent, and read.
LEMMA RequestSent ==
    ASSUME TypeOK, RequestInv, NEW a \in Agents, Put(a, [type |-> "request"]), logout[ByClient].at = "none",
           logout' = [logout EXCEPT ![ByClient] = [at |-> "asked", agent |-> a]]
    PROVE  RequestInv'
<1> DEFINE m == [type |-> "request"]
<1>1. m \in AgentMessages
  BY PlainToAgent
<1>2. \A b \in Agents : Requests(b)' = Requests(b) + (IF b = a /\ Alive(b) /\ m \in RequestAtAgent THEN 1 ELSE 0)
  BY <1>1, PutFacts DEF Requests
<1>3. \A b \in Agents : Requests(b) = 0
  BY NoRequest
<1>4. logout'[ByClient] = [at |-> "asked", agent |-> a]
  <2>1. logout \in [Callers -> [at : {"none", "asked", "offline", "gate"}, agent : Agents \cup {None}]]
    BY DEF TypeOK
  <2> QED BY <2>1, CallerFacts
<1> HIDE DEF m
<1>5. \A b \in Agents : Requests(b)' <= 1 /\ (Requests(b)' > 0 => b = a)
  BY <1>2, <1>3
<1> QED BY <1>4, <1>5 DEF RequestInv, Requests

LEMMA RequestRead ==
    ASSUME TypeOK, RequestInv, NEW a \in Agents, Took(a), Head(inbox[a]).type = "request"
    PROVE  \A b \in Agents : Requests(b)' = 0
<1> DEFINE m == Head(inbox[a])
<1>1. /\ m \in AgentMessages /\ m \in Range(inbox[a]) /\ inbox' \in [Agents -> Seq(AgentMessages)]
      /\ \A b \in Agents : b # a => inbox'[b] = inbox[b]
      /\ Count(inbox[a], RequestAtAgent) = Count(inbox'[a], RequestAtAgent) + (IF m \in RequestAtAgent THEN 1 ELSE 0)
  BY TookFacts
<1>2. m \in RequestAtAgent
  BY <1>1, AgentRead
<1>3. \A b \in Agents : Requests(b) \in Nat
  BY CountsAreNat DEF Requests
<1>4. Requests(a) = 1 /\ logout[ByClient].agent = a
  <2>1. Requests(a) # 0
    BY <1>1, <1>2, CountsAreRanges DEF Requests
  <2> QED BY <1>3, <2>1 DEF RequestInv, Requests
<1>5. ASSUME NEW b \in Agents, b # a PROVE Requests(b)' = 0
  <2>1. Requests(b) = 0
    BY <1>3, <1>4, <1>5 DEF RequestInv, Requests
  <2> QED BY <1>1, <1>5, <2>1 DEF Requests
<1>6. Requests(a)' = 0
  <2>1. Count(inbox'[a], RequestAtAgent) \in Nat
    BY <1>1, CountNat
  <2> QED BY <1>1, <1>2, <1>4, <2>1 DEF Requests
<1> QED BY <1>5, <1>6

LEMMA RequestStep ==
    ASSUME SessionInv, Step
    PROVE  RequestInv'
<1>0. TypeOK /\ TablesInv /\ HandlersInv /\ AcceptInv /\ AuthInv /\ LogoutInv /\ RecordsInv
      /\ CountNeverShort /\ RequestInv
  BY LogoutParts DEF SessionInv
<1> DEFINE Same == \A b \in Agents : Requests(b)' = Requests(b)
<1>1. ASSUME Same, logout'[ByClient] = logout[ByClient] PROVE RequestInv'
  BY <1>0, <1>1, RequestFrame
<1>2. UNCHANGED inbox => Same
  BY DEF Requests
<1>3. ASSUME NEW a, NEW t \in {"reconnect", "afk", "logout"}, Put(a, [type |-> t]) PROVE Same
  <2> DEFINE m == [type |-> t]
  <2>1. m \in AgentMessages /\ m.type # "request" /\ Put(a, m)
    BY <1>3, PlainToAgent
  <2> HIDE DEF m
  <2> QED BY <1>0, <2>1, RequestsFrame
<1>4. ASSUME NEW a, NEW c \in Callers, NEW ok \in BOOLEAN, Put(a, [type |-> "logoutDone", caller |-> c, ok |-> ok])
      PROVE  Same
  <2> DEFINE m == [type |-> "logoutDone", caller |-> c, ok |-> ok]
  <2>1. m \in AgentMessages /\ m.type # "request" /\ Put(a, m)
    BY <1>4, LogoutDoneToAgent
  <2> HIDE DEF m
  <2> QED BY <1>0, <2>1, RequestsFrame
<1>5. ASSUME NEW a \in Agents, Took(a), Head(inbox[a]).type # "request" PROVE Same
  BY <1>0, <1>5, RequestsFrame
<1>6. ASSUME GoesOn PROVE Same
  BY <1>2, <1>3, <1>6 DEF GoesOn
<1>7. ASSUME NEW f \in Fds, NEW s, NEW o, NEW a \in Agents, Called(f, s, o, a) PROVE Same
  BY <1>0, <1>7, CalledKeeps DEF Requests
<1> HIDE DEF Same

<1>10. CASE Accept \/ LogindLogout \/ KickAnswered \/ LoginAnswered \/ GateLogin \/ GateKicked \/ AgentExit \/ LoginReply
  BY <1>1, <1>2, <1>10 DEF Accept, LogindLogout, KickAnswered, LoginAnswered, GateLogin, GateKicked, AgentExit,
     LoginReply, agentVars
<1>15. CASE GateKick
  <2>1. GoesOn /\ UNCHANGED logout
    BY <1>0, <1>15, GateKickGoesOn DEF GateKick, agentVars
  <2> QED BY <1>1, <1>6, <2>1
<1>16. CASE GateLogoutDone
  <2>1. UNCHANGED logout /\ Same
    BY <1>0, <1>4, <1>6, <1>16, GateLogoutDoneCases DEF GateLogoutDone, agentVars
  <2> QED BY <1>1, <2>1
<1>17. CASE GateLogout
  <2>1. UNCHANGED logout /\ Same
    BY <1>0, <1>2, <1>4, <1>17, GateLogoutCases DEF GateLogout, agentVars
  <2> QED BY <1>1, <2>1
<1>19. ASSUME NEW f \in Fds, NEW s \in Subids, NEW index \in {"new", "expired"}, Handshake(f, s, index)
       PROVE  RequestInv'
  <2> DEFINE o == username_map[s]
             a == obj[o].agent
  <2>0. /\ UNCHANGED logout /\ s \in 1..internal_id
        /\ \/ UNCHANGED inbox
           \/ o \in 1..internal_id /\ a \in Agents /\ CallLogin(f, s, o, a)
           \/ Put(a, [type |-> "reconnect"])
    BY <1>0, <1>19, HandshakeCases DEF agentVars
  <2> HIDE DEF o, a
  <2>1. Same
    BY <1>0, <1>2, <1>3, <1>7, <2>0, CallLoginFacts
  <2> QED BY <1>1, <2>0, <2>1
<1>20. ASSUME NEW f \in Fds, NEW a \in Agents, GotAgent(f, a) PROVE RequestInv'
  <2>1. /\ Called(f, auth[f].subid, auth[f].obj, a) /\ UNCHANGED logout
    BY <1>0, <1>20, GotAgentFacts
  <2> QED BY <1>1, <1>7, <2>1
<1>21. ASSUME NEW f \in Fds, Disconnect(f) PROVE RequestInv'
  <2>1. UNCHANGED logout
    BY <1>21 DEF Disconnect, agentVars
  <2>2. Same
    BY <1>0, <1>2, <1>3, <1>21, TypeDisconnect
  <2> QED BY <1>1, <2>1, <2>2
<1>22. ASSUME NEW f \in Fds, NEW a \in Agents, RequestLogout(f, a) PROVE RequestInv'
  BY <1>0, <1>22, TypeRequestLogout, RequestSent DEF RequestLogout
<1>23. ASSUME NEW a \in Agents, LoginStart(a) PROVE RequestInv'
  <2>1. Started(a) /\ UNCHANGED logout
    BY <1>0, <1>23, LoginStartFacts DEF LoginStart
  <2>2. Same
    BY <1>5, <2>1 DEF Started
  <2> QED BY <1>1, <2>1, <2>2
<1>24. ASSUME NEW f \in Fds, LoginMarked(f) \/ LoginEnd(f) PROVE RequestInv'
  BY <1>1, <1>2, <1>24 DEF LoginMarked, LoginEnd
<1>25. ASSUME NEW f \in Fds, LoginForbidden(f) PROVE RequestInv'
  <2>1. UNCHANGED inbox /\ logout' = [logout EXCEPT ![Forbid(f)] = [at |-> "asked", agent |-> auth[f].agent]]
    BY <1>25 DEF LoginForbidden
  <2>2. logout'[ByClient] = logout[ByClient]
    <3>1. logout \in [Callers -> [at : {"none", "asked", "offline", "gate"}, agent : Agents \cup {None}]]
      BY <1>0 DEF TypeOK
    <3> QED BY <2>1, <3>1, CallerFacts
  <2> QED BY <1>1, <1>2, <2>1, <2>2
<1>26. ASSUME NEW a \in Agents, Reconnect(a) \/ Afk(a) PROVE RequestInv'
  <2>1. Took(a) /\ Head(inbox[a]).type # "request" /\ UNCHANGED logout
    BY <1>0, <1>26, SetOnlineFacts DEF Reconnect, Afk
  <2> QED BY <1>1, <1>5, <2>1
<1>27. ASSUME NEW c \in Callers, NEW a \in Agents, Completes(c, a), Same,
              c # ByClient \/ logout[ByClient].at # "asked"
       PROVE  RequestInv'
  <2>1. CASE c # ByClient
    <3>1. logout'[ByClient] = logout[ByClient]
      BY <1>27, <2>1, CallerFacts DEF Completes
    <3> QED BY <1>1, <1>27, <3>1
  <2>2. CASE logout[ByClient].at # "asked"
    <3>1. \A b \in Agents : Requests(b)' = 0
      BY <1>0, <1>27, <2>2, NoRequest DEF Same
    <3> QED BY <1>0, <3>1, RequestFrame
  <2> QED BY <1>27, <2>1, <2>2
<1>28. ASSUME NEW a \in Agents, Logout(a) PROVE RequestInv'
  BY <1>0, <1>5, <1>27, <1>28, LogoutFacts, CallerFacts
<1>29. ASSUME NEW a \in Agents, ClientLogout(a) PROVE RequestInv'
  <2>1. Took(a) /\ Head(inbox[a]).type = "request"
    BY <1>0, <1>29, ClientLogoutFacts
  <2>2. \A b \in Agents : Requests(b)' = 0
    BY <1>0, <2>1, RequestRead
  <2> QED BY <1>0, <2>2, RequestFrame
<1>30. ASSUME NEW a \in Agents, HeartbeatOut(a) PROVE RequestInv'
  BY <1>0, <1>2, <1>27, <1>30, HeartbeatOutFacts, CallerFacts
<1>31. ASSUME NEW f \in Fds, ForbiddenLogout(f) PROVE RequestInv'
  BY <1>0, <1>2, <1>27, <1>31, ForbiddenLogoutFacts, CallerFacts
<1>32. ASSUME NEW c \in Callers, WentOffline(c) PROVE RequestInv'
  <2>1. c # ByClient \/ logout[ByClient].at # "asked"
    BY <1>32 DEF WentOffline
  <2> QED BY <1>0, <1>2, <1>27, <1>32, <2>1, WentOfflineFacts
<1>33. ASSUME NEW a \in Agents, LogoutDone(a) PROVE RequestInv'
  <2> DEFINE m == Head(inbox[a])
  <2>1. /\ Took(a) /\ m \in AgentMessages /\ m.type = "logoutDone" /\ m.caller \in Callers /\ m \in Range(inbox[a])
        /\ \A d \in Callers : d # m.caller => logout'[d] = logout[d]
    BY <1>0, <1>33, LogoutDoneFacts DEF Ends
  <2>2. Same
    BY <1>5, <2>1
  <2>3. CASE m.caller = ByClient
    <3>1. m \in LogoutAtAgent(ByClient)
      BY <2>1, <2>3, AgentRead
    <3>2. Alive(a)
      BY <1>0, <2>1, TookFacts
    <3>3. logout[ByClient].at = "gate"
      BY <1>0, <2>1, <3>1, <3>2, GateAwaited, CallerFacts DEF Alive
    <3>4. \A b \in Agents : Requests(b)' = 0
      BY <1>0, <2>2, <3>3, NoRequest DEF Same
    <3> QED BY <1>0, <3>4, RequestFrame
  <2>4. CASE m.caller # ByClient
    BY <1>1, <2>1, <2>2, <2>4, CallerFacts
  <2> QED BY <2>3, <2>4
<1>34. ASSUME NEW a \in Agents, AgentDies(a) PROVE RequestInv'
  <2>1. /\ inbox'[a] = <<>> /\ \A b \in Agents : b # a => inbox'[b] = inbox[b]
        /\ \A c \in Callers : logout'[c] = IF logout[c].agent = a THEN NoLogout ELSE logout[c]
    BY <1>0, <1>34, AgentDiesFacts DEF Died
  <2>2. Requests(a)' = 0 /\ \A b \in Agents : b # a => Requests(b)' = Requests(b)
    BY <2>1, CountEmpty DEF Requests
  <2>3. ASSUME NEW b \in Agents, Requests(b)' # 0 PROVE logout'[ByClient] = logout[ByClient]
    <3>1. b # a /\ Requests(b) # 0 /\ Requests(b) \in Nat
      BY <1>0, <2>2, <2>3, CountsAreNat DEF Requests
    <3>2. logout[ByClient].agent = b
      BY <1>0, <3>1 DEF RequestInv, Requests
    <3> QED BY <2>1, <3>1, <3>2, CallerFacts
  <2> QED BY <1>0, <2>2, <2>3, RequestFrame
<1> QED BY <1>10, <1>15, <1>16, <1>17, <1>19, <1>20, <1>21, <1>22, <1>23, <1>24,
           <1>25, <1>26, <1>28, <1>29, <1>30, <1>31, <1>32, <1>33, <1>34 DEF Step

\* A forbidden login has been answered, or its answer is on its way.
LEMMA ForbidFrame ==
    ASSUME TypeOK, AuthInv, NEW f \in Fds, ForbidFine(f),
           logout'[Forbid(f)].at # "none" => logout[Forbid(f)].at # "none",
           \/ auth[f].at \in {"none", "getAgent"}
           \/ auth'[f].at = "over"
           \/ /\ auth'[f] = auth[f]
              /\ \/ Count(toGate', LoginAtGate(f)) = Count(toGate, LoginAtGate(f))
                 \/ Count(toGate', LoginAtGate(f)) = Count(toGate, LoginAtGate(f)) + 1
    PROVE  ForbidFine(f)'
<1>1. Count(toGate, LoginAtGate(f)) \in Nat
  BY CountsAreNat
<1>2. auth[f].at \in {"none", "getAgent"} => logout[Forbid(f)].at = "none"
  BY <1>1 DEF ForbidFine, AuthInv
<1>3. CASE logout[Forbid(f)].at = "none"
  BY <1>3 DEF ForbidFine
<1>4. CASE auth'[f].at = "over"
  BY <1>4 DEF ForbidFine
<1>5. CASE /\ auth'[f] = auth[f] /\ logout[Forbid(f)].at # "none"
           /\ \/ Count(toGate', LoginAtGate(f)) = Count(toGate, LoginAtGate(f))
              \/ Count(toGate', LoginAtGate(f)) = Count(toGate, LoginAtGate(f)) + 1
  <2>1. auth[f].at = "over" \/ Count(toGate, LoginAtGate(f)) > 0
    BY <1>5 DEF ForbidFine
  <2>2. auth'[f].at = "over" \/ Count(toGate', LoginAtGate(f)) > 0
    BY <1>1, <1>5, <2>1
  <2> QED BY <2>2 DEF ForbidFine
<1> QED BY <1>2, <1>3, <1>4, <1>5

LEMMA ForbidStep ==
    ASSUME SessionInv, Step
    PROVE  \A f \in Fds : ForbidFine(f)'
<1>0. /\ TypeOK /\ TablesInv /\ HandlersInv /\ AcceptInv /\ AuthInv /\ LogoutInv /\ RecordsInv
      /\ CountNeverShort /\ \A f \in Fds : ForbidFine(f)
  BY LogoutParts DEF SessionInv
<1> DEFINE Goal  == \A f \in Fds : ForbidFine(f)'
           Free  == \A f \in Fds : logout'[Forbid(f)].at # "none" => logout[Forbid(f)].at # "none"
           Grows == \A f \in Fds : \/ Count(toGate', LoginAtGate(f)) = Count(toGate, LoginAtGate(f))
                                   \/ Count(toGate', LoginAtGate(f)) = Count(toGate, LoginAtGate(f)) + 1
<1>1. ASSUME Free, Grows, UNCHANGED auth PROVE Goal
  BY <1>0, <1>1, ForbidFrame
<1>2. /\ UNCHANGED logout => Free
      /\ UNCHANGED toGate => Grows
  OBVIOUS
<1>3. ASSUME NEW m \in GateMessages, ToGate(m) PROVE Grows
  <2>1. \A f \in Fds : /\ Count(toGate', LoginAtGate(f)) = Count(toGate, LoginAtGate(f)) + (IF m \in LoginAtGate(f) THEN 1 ELSE 0)
                       /\ Count(toGate, LoginAtGate(f)) \in Nat
    BY <1>0, <1>3, ToGateFacts, CountsAreNat
  <2> QED BY <2>1
<1>4. ASSUME NEW t, t # "loggedIn", Next1(toGate, t), toGate' = Tail(toGate) PROVE Grows
  <2>1. \A f \in Fds : GateLogins(f)
    BY <1>0, <1>4, GateLoginsFrame DEF Next1
  <2> QED BY <2>1 DEF GateLogins
<1>5. ASSUME Free, UNCHANGED toGate, NEW f \in Fds, auth[f].at \in {"none", "getAgent"},
             \A g \in Fds : g # f => auth'[g] = auth[g]
      PROVE  Goal
  <2>1. \A g \in Fds : g # f => ForbidFine(g)'
    BY <1>0, <1>5, ForbidFrame
  <2>2. ForbidFine(f)'
    BY <1>0, <1>5, ForbidFrame
  <2> QED BY <2>1, <2>2
<1> SUFFICES Goal
  OBVIOUS
<1> HIDE DEF Goal, Free, Grows

<1>10. CASE Accept
  <2>1. /\ accept' \in {"kick", "login"} /\ ToGate([type |-> accept', subid |-> online])
        /\ online \in 0..MaxLogins /\ UNCHANGED <<auth, logout>>
    BY <1>0, <1>10, Bounds DEF Accept, agentVars, clientVars, TypeOK
  <2>2. Grows
    <3> DEFINE m == [type |-> accept', subid |-> online]
    <3>1. m \in GateMessages /\ ToGate(m)
      BY <2>1, CallToGate
    <3> HIDE DEF m
    <3> QED BY <1>3, <3>1
  <2> QED BY <1>1, <1>2, <2>1, <2>2
<1>11. CASE LogindLogout
  <2>1. UNCHANGED <<auth, logout>> /\ ToGate([Head(toLogin) EXCEPT !.type = "logoutDone"])
    BY <1>11 DEF LogindLogout, agentVars, clientVars
  <2>2. Grows
    <3> DEFINE m == [Head(toLogin) EXCEPT !.type = "logoutDone"]
    <3>1. Head(toLogin) \in LoginMessages /\ Head(toLogin).type = "logout"
      BY <1>0, <1>11, FromLoginFacts DEF LogindLogout
    <3>2. m \in GateMessages /\ ToGate(m)
      BY <2>1, <3>1, LogoutRelayed
    <3> HIDE DEF m
    <3> QED BY <1>3, <3>2
  <2> QED BY <1>1, <1>2, <2>1, <2>2
<1>12. CASE KickAnswered
  <2>1. UNCHANGED <<auth, logout>> /\ (UNCHANGED toGate \/ ToGate([type |-> "login", subid |-> 0]))
    BY <1>12 DEF KickAnswered, agentVars, clientVars
  <2>2. Grows
    <3> DEFINE m == [type |-> "login", subid |-> 0]
    <3>1. m \in GateMessages
      BY CallToGate, SessionAssumption
    <3> QED BY <1>2, <1>3, <2>1, <3>1
  <2> QED BY <1>1, <1>2, <2>1, <2>2
<1>13. CASE LoginAnswered
  BY <1>1, <1>2, <1>13 DEF LoginAnswered, agentVars, clientVars
<1>14. CASE GateLogin \/ GateKicked \/ AgentExit \/ GateLogoutDone
  <2>1. UNCHANGED <<auth, logout>> /\ \E t : t # "loggedIn" /\ Next1(toGate, t) /\ toGate' = Tail(toGate)
    BY <1>14 DEF GateLogin, GateKicked, AgentExit, GateLogoutDone, agentVars, clientVars
  <2> QED BY <1>1, <1>2, <1>4, <2>1
<1>15. CASE GateKick \/ GateLogout
  <2>1. UNCHANGED <<auth, logout>> /\ \E t : t # "loggedIn" /\ Next1(toGate, t) /\ toGate' = Tail(toGate)
    BY <1>0, <1>15, LogoutHereFrame DEF GateKick, GateLogout, agentVars
  <2> QED BY <1>1, <1>2, <1>4, <2>1
<1>18. CASE LoginReply
  <2>1. PICK f \in Fds :
           /\ f = Head(toGate).fd /\ auth'[f].at = "over" /\ \A h \in Fds : h # f => auth'[h] = auth[h]
           /\ UNCHANGED logout /\ Next1(toGate, "loggedIn") /\ toGate' = Tail(toGate)
    BY <1>0, <1>18, LoginReplyFacts DEF LoginReply, agentVars
  <2>2. Free
    BY <1>2, <2>1
  <2>3. ASSUME NEW h \in Fds, h # f PROVE ForbidFine(h)'
    <3>1. GateLogins(h)
      BY <1>0, <2>1, <2>3, GateLoginsFrame
    <3> QED BY <1>0, <2>1, <2>2, <2>3, <3>1, ForbidFrame DEF GateLogins, Free
  <2>4. ForbidFine(f)'
    BY <2>1 DEF ForbidFine
  <2> QED BY <2>3, <2>4 DEF Goal
<1>19. ASSUME NEW f \in Fds, NEW s \in Subids, NEW index \in {"new", "expired"}, Handshake(f, s, index)
       PROVE  Goal
  <2> DEFINE o == username_map[s]
             a == obj[o].agent
  <2>0. /\ UNCHANGED <<logout, toGate>> /\ s \in 1..internal_id /\ auth[f].at = "none"
        /\ \/ Refuse(f)
           \/ o \in 1..internal_id /\ Await(f, "getAgent", s, o, None)
           \/ o \in 1..internal_id /\ a \in Agents /\ CallLogin(f, s, o, a)
           \/ Establish(f, s)
    BY <1>0, <1>19, HandshakeCases DEF agentVars
  <2> HIDE DEF o, a
  <2>1. \A g \in Fds : g # f => auth'[g] = auth[g]
    <3>1. CASE Refuse(f)
      BY <1>0, <3>1, RefuseFacts
    <3>2. CASE o \in 1..internal_id /\ Await(f, "getAgent", s, o, None)
      <4>1. s \in 0..internal_id /\ o \in 0..internal_id
        BY <1>0, <2>0, <3>2, Bounds
      <4> QED BY <1>0, <3>2, <4>1, AwaitFacts
    <3>3. CASE o \in 1..internal_id /\ a \in Agents /\ CallLogin(f, s, o, a)
      <4>1. Called(f, s, o, a)
        BY <1>0, <2>0, <3>3, CallLoginFacts
      <4> QED BY <4>1 DEF Called
    <3>4. CASE Establish(f, s)
      BY <1>0, <2>0, <3>4, EstablishFacts
    <3> QED BY <2>0, <3>1, <3>2, <3>3, <3>4
  <2> QED BY <1>2, <1>5, <2>0, <2>1
<1>20. ASSUME NEW f \in Fds, NEW a \in Agents, GotAgent(f, a) PROVE Goal
  <2>1. /\ auth[f].at = "getAgent" /\ Called(f, auth[f].subid, auth[f].obj, a) /\ UNCHANGED <<logout, toGate>>
    BY <1>0, <1>20, GotAgentFacts
  <2>2. \A g \in Fds : g # f => auth'[g] = auth[g]
    BY <2>1 DEF Called
  <2> QED BY <1>2, <1>5, <2>1, <2>2
<1>21. ASSUME NEW f \in Fds, Disconnect(f) PROVE Goal
  BY <1>1, <1>2, <1>21 DEF Disconnect, agentVars
<1>22. ASSUME NEW f \in Fds, NEW a \in Agents, RequestLogout(f, a) PROVE Goal
  <2>1. UNCHANGED <<auth, toGate>> /\ logout' = [logout EXCEPT ![ByClient] = [at |-> "asked", agent |-> a]]
    BY <1>22 DEF RequestLogout, clientVars
  <2>2. Free
    <3>1. logout \in [Callers -> [at : {"none", "asked", "offline", "gate"}, agent : Agents \cup {None}]]
      BY <1>0 DEF TypeOK
    <3>2. \A c \in Callers : c # ByClient => logout'[c] = logout[c]
      BY <2>1, <3>1
    <3> QED BY <3>2, CallerFacts DEF Free
  <2> QED BY <1>1, <1>2, <2>1, <2>2
<1>23. ASSUME NEW a \in Agents, LoginStart(a) \/ Reconnect(a) \/ Afk(a) PROVE Goal
  BY <1>1, <1>2, <1>23 DEF LoginStart, Reconnect, Afk, SetOnline, clientVars
<1>24. ASSUME NEW f \in Fds, LoginMarked(f) PROVE Goal
  BY <1>1, <1>2, <1>24 DEF LoginMarked, clientVars
<1>25. ASSUME NEW f \in Fds, LoginEnd(f) PROVE Goal
  <2>1. UNCHANGED <<auth, logout>> /\ ToGate([type |-> "loggedIn", fd |-> f, ok |-> TRUE])
    BY <1>25 DEF LoginEnd, clientVars
  <2> QED BY <1>1, <1>2, <1>3, <2>1, LoggedInToGate
<1>26. ASSUME NEW f \in Fds, LoginForbidden(f) PROVE Goal
  <2> DEFINE m == [type |-> "loggedIn", fd |-> f, ok |-> FALSE]
  <2>1. /\ UNCHANGED auth /\ ToGate(m)
        /\ logout' = [logout EXCEPT ![Forbid(f)] = [at |-> "asked", agent |-> auth[f].agent]]
    BY <1>26 DEF LoginForbidden, clientVars
  <2>2. m \in GateMessages /\ m \in LoginAtGate(f)
    BY LoggedInToGate
  <2> HIDE DEF m
  <2>3. Grows
    BY <1>3, <2>1, <2>2
  <2>4. ForbidFine(f)'
    <3>1. Count(toGate', LoginAtGate(f)) = Count(toGate, LoginAtGate(f)) + 1 /\ Count(toGate, LoginAtGate(f)) \in Nat
      BY <1>0, <2>1, <2>2, ToGateFacts, CountsAreNat
    <3> QED BY <3>1 DEF ForbidFine
  <2>5. ASSUME NEW g \in Fds, g # f PROVE ForbidFine(g)'
    <3>1. logout'[Forbid(g)] = logout[Forbid(g)]
      <4>1. logout \in [Callers -> [at : {"none", "asked", "offline", "gate"}, agent : Agents \cup {None}]]
        BY <1>0 DEF TypeOK
      <4> QED BY <2>1, <2>5, <4>1, CallerFacts
    <3> QED BY <1>0, <2>1, <2>3, <3>1, ForbidFrame DEF Grows
  <2> QED BY <2>4, <2>5 DEF Goal
<1>27. ASSUME NEW c \in Callers, NEW a, Completes(c, a), UNCHANGED auth,
              \A f \in Fds : c = Forbid(f) => logout[c].at # "none"
       PROVE  Goal
  <2>1. Free
    BY <1>27, CallerFacts DEF Completes, Free
  <2>2. Grows
    BY <1>2, <1>3, <1>27, CompletesGate
  <2> QED BY <1>1, <1>27, <2>1, <2>2
<1>28. ASSUME NEW a \in Agents, Logout(a) PROVE Goal
  BY <1>0, <1>27, <1>28, LogoutFacts, CallerFacts DEF clientVars
<1>29. ASSUME NEW a \in Agents, ClientLogout(a) PROVE Goal
  BY <1>0, <1>27, <1>29, ClientLogoutFacts, CallerFacts DEF clientVars
<1>30. ASSUME NEW a \in Agents, HeartbeatOut(a) PROVE Goal
  BY <1>0, <1>27, <1>30, HeartbeatOutFacts, CallerFacts DEF clientVars
<1>31. ASSUME NEW f \in Fds, ForbiddenLogout(f) PROVE Goal
  BY <1>0, <1>27, <1>31, ForbiddenLogoutFacts, CallerFacts DEF clientVars
<1>32. ASSUME NEW c \in Callers, WentOffline(c) PROVE Goal
  BY <1>0, <1>27, <1>32, WentOfflineFacts DEF clientVars
<1>33. ASSUME NEW a \in Agents, LogoutDone(a) PROVE Goal
  <2>1. /\ UNCHANGED auth /\ (UNCHANGED toGate \/ ToGate([type |-> "kicked"]))
        /\ \E c \in Callers : logout'[c].at = "none" /\ \A d \in Callers : d # c => logout'[d] = logout[d]
    BY <1>0, <1>33, LogoutDoneFacts DEF Ends, clientVars
  <2>2. Free
    BY <2>1, CallerFacts DEF Free
  <2>3. Grows
    <3>1. [type |-> "kicked"] \in GateMessages
      BY KickedToGate, Zenon
    <3> QED BY <1>2, <1>3, <2>1, <3>1
  <2> QED BY <1>1, <2>1, <2>2, <2>3
<1>34. ASSUME NEW a \in Agents, AgentDies(a) PROVE Goal
  <2>1. /\ UNCHANGED auth
        /\ \A c \in Callers : logout'[c] = IF logout[c].agent = a THEN NoLogout ELSE logout[c]
        /\ \A f \in Fds : Count(toGate', LoginAtGate(f)) =
                              Count(toGate, LoginAtGate(f)) + (IF f \in Unanswered(a) THEN 1 ELSE 0)
        /\ \A f \in Fds : Count(toGate, LoginAtGate(f)) \in Nat
    BY <1>0, <1>34, AgentDiesFacts, CountsAreNat DEF Died, clientVars
  <2>2. Free
    BY <2>1, CallerFacts DEF NoLogout, Free
  <2>3. Grows
    BY <2>1 DEF Grows
  <2> QED BY <1>1, <2>1, <2>2, <2>3
<1> QED BY <1>10, <1>11, <1>12, <1>13, <1>14, <1>15, <1>18, <1>19, <1>20, <1>21, <1>22, <1>23, <1>24,
           <1>25, <1>26, <1>28, <1>29, <1>30, <1>31, <1>32, <1>33, <1>34 DEF Step

LEMMA LogoutStep ==
    ASSUME SessionInv, Step
    PROVE  LogoutInv'
<1>1. (LogoutInv <=> AwaitsInv /\ RequestInv /\ \A f \in Fds : ForbidFine(f))'
  BY LogoutParts, PTL
<1>2. (\A f \in Fds : ForbidFine(f))'
  BY ForbidStep
<1> QED BY <1>1, <1>2, AwaitsStep, RequestStep


----------------------------------------------------------------------------
(* The records of the login server and the gate *)

LoggedIns == {m \in Range(toLogin) : m.type = "loggedIn"}
Kicks     == {m \in Range(toGate) : m.type = "kick"}

\* The invariant in terms of the two sets.
RecordsFine ==
    /\ accept # "idle" => internal_id < MaxLogins \/ LoggedIns # {}
    /\ \A m \in LoggedIns : m.subid <= internal_id
    /\ users # 0 =>
        /\ \A m \in LoggedIns : m.subid # 0 => obj[users].subid = m.subid
        /\ online # 0 /\ (\A m \in LoggedIns : m.subid = 0) => obj[users].subid = online
        /\ \A m \in Kicks : obj[users].subid = m.subid

LEMMA RecordsParts == RecordsInv <=> RecordsFine
BY DEF RecordsInv, RecordsFine, LoggedIns, Kicks

\* What a step keeps that no login is answered in, and no kick is sent.
LEMMA RecordsFrame ==
    ASSUME RecordsInv, LoggedIns' = LoggedIns, Kicks' \subseteq Kicks,
           accept' # "idle" => accept # "idle", internal_id' = internal_id, online' \in {0, online},
           users' \in {0, users}, users # 0 => obj'[users].subid = obj[users].subid
    PROVE  RecordsInv'
<1>1. RecordsFine
  BY RecordsParts
<1>2. (RecordsInv <=> RecordsFine)'
  BY RecordsParts, PTL
<1>3. RecordsFine'
  <2> DEFINE L  == LoggedIns
             K  == Kicks
             K1 == Kicks'
  <2>1. accept' # "idle" => internal_id' < MaxLogins \/ LoggedIns' # {}
    BY <1>1 DEF RecordsFine
  <2>2. \A m \in LoggedIns' : m.subid <= internal_id'
    BY <1>1 DEF RecordsFine
  <2>3. ASSUME users' # 0
        PROVE  /\ \A m \in LoggedIns' : m.subid # 0 => obj'[users'].subid = m.subid
               /\ online' # 0 /\ (\A m \in LoggedIns' : m.subid = 0) => obj'[users'].subid = online'
               /\ \A m \in Kicks' : obj'[users'].subid = m.subid
    <3>1. users # 0 /\ users' = users /\ obj'[users'].subid = obj[users].subid
      BY <2>3
    <3>2. /\ \A m \in LoggedIns : m.subid # 0 => obj[users].subid = m.subid
          /\ online # 0 /\ (\A m \in LoggedIns : m.subid = 0) => obj[users].subid = online
          /\ \A m \in Kicks : obj[users].subid = m.subid
      BY <1>1, <3>1 DEF RecordsFine
    <3> QED BY <3>1, <3>2
  <2> QED BY <2>1, <2>2, <2>3 DEF RecordsFine
<1> QED BY <1>2, <1>3

\* A message that is not a login's answer leaves or joins the login server's queue.
LEMMA LoggedInsFrame ==
    ASSUME TypeOK,
           \/ UNCHANGED toLogin
           \/ \E m \in LoginMessages : m.type # "loggedIn" /\ ToLogin(m)
           \/ \E t : t # "loggedIn" /\ Next1(toLogin, t) /\ toLogin' = Tail(toLogin)
    PROVE  LoggedIns' = LoggedIns
<1>1. CASE UNCHANGED toLogin
  BY <1>1 DEF LoggedIns
<1>2. ASSUME NEW m \in LoginMessages, m.type # "loggedIn", ToLogin(m) PROVE LoggedIns' = LoggedIns
  <2>1. Range(toLogin') = Range(toLogin) \cup {m}
    BY <1>2, ToLoginFacts
  <2> QED BY <1>2, <2>1 DEF LoggedIns
<1>3. ASSUME NEW t, t # "loggedIn", Next1(toLogin, t), toLogin' = Tail(toLogin) PROVE LoggedIns' = LoggedIns
  <2>1. Range(toLogin) = Range(toLogin') \cup {Head(toLogin)} /\ Head(toLogin).type # "loggedIn"
    BY <1>3, FromLoginFacts
  <2> QED BY <2>1 DEF LoggedIns
<1> QED BY <1>1, <1>2, <1>3

\* Nothing but a kick adds to the kicks.
LEMMA KicksFrame ==
    ASSUME TypeOK,
           \/ UNCHANGED toGate
           \/ \E m \in GateMessages : m.type # "kick" /\ ToGate(m)
           \/ \E t : Next1(toGate, t) /\ toGate' = Tail(toGate)
    PROVE  Kicks' \subseteq Kicks
<1>1. CASE UNCHANGED toGate
  BY <1>1 DEF Kicks
<1>2. ASSUME NEW m \in GateMessages, m.type # "kick", ToGate(m) PROVE Kicks' \subseteq Kicks
  <2>1. Range(toGate') = Range(toGate) \cup {m}
    BY <1>2, ToGateFacts
  <2> QED BY <1>2, <2>1 DEF Kicks
<1>3. ASSUME NEW t, Next1(toGate, t), toGate' = Tail(toGate) PROVE Kicks' \subseteq Kicks
  <2>1. Range(toGate) = Range(toGate') \cup {Head(toGate)}
    BY <1>3, FromGateFacts
  <2> QED BY <2>1 DEF Kicks
<1> QED BY <1>1, <1>2, <1>3

\* Without a call of accept at the login server there is no login's answer.
LEMMA NoLoggedIn ==
    (TypeOK /\ LoginHas = 0) => LoggedIns = {}
<1> SUFFICES ASSUME TypeOK, LoginHas = 0 PROVE LoggedIns = {}
  OBVIOUS
<1>1. \A m \in Range(toLogin) : m \notin AcceptAtLogin /\ m \in LoginMessages
  BY CountsAreRanges, MessageTypes DEF LoginHas
<1> QED BY <1>1, LoginRead DEF LoggedIns

LEMMA NoKick ==
    (TypeOK /\ GateHas = 0) => Kicks = {}
<1> SUFFICES ASSUME TypeOK, GateHas = 0 PROVE Kicks = {}
  OBVIOUS
<1>1. \A m \in Range(toGate) : m \notin AcceptAtGate /\ m \in GateMessages
  BY CountsAreRanges, MessageTypes DEF GateHas
<1> QED BY <1>1, GateRead DEF Kicks

\* Accept: nothing is on its way, so that the kick names the session the gate has.
LEMMA RecordsAccept ==
    ASSUME SessionInv, Accept
    PROVE  RecordsInv'
<1>0. TypeOK /\ AcceptInv /\ RecordsFine
  BY RecordsParts DEF SessionInv
<1>1. (RecordsInv <=> RecordsFine)'
  BY RecordsParts, PTL
<1>2. /\ accept = "idle" /\ internal_id < MaxLogins
      /\ UNCHANGED <<online, internal_id, users, obj, toLogin>>
  BY DEF Accept, tableVars
<1>3. LoggedIns = {} /\ LoggedIns' = LoggedIns
  <2>1. accept = "idle" /\ AcceptPlace
    BY <1>0, <1>2, AcceptPlaceNow
  <2>2. LoginHas = 0
    BY <2>1 DEF AcceptPlace, AcceptNowhere
  <2> QED BY <1>0, <1>2, <2>2, NoLoggedIn DEF LoggedIns
<1> DEFINE m == [type |-> accept', subid |-> online]
<1>4. m.type = accept' /\ m.subid = online /\ accept' = (IF online # 0 THEN "kick" ELSE "login") /\ ToGate(m)
  BY DEF Accept
<1>5. m \in GateMessages
  <2>1. online \in 0..MaxLogins /\ accept' \in {"kick", "login"}
    BY <1>0, <1>4, Bounds DEF TypeOK
  <2> QED BY <2>1 DEF GateMessages
<1> HIDE DEF m
<1>6. Kicks' \subseteq Kicks \cup (IF online # 0 THEN {m} ELSE {})
  <2>1. Range(toGate') = Range(toGate) \cup {m}
    BY <1>0, <1>4, <1>5, ToGateFacts
  <2> QED BY <1>4, <2>1 DEF Kicks
<1>7. RecordsFine'
  <2>1. ASSUME users # 0, NEW k \in Kicks' PROVE obj[users].subid = k.subid
    BY <1>0, <1>3, <1>4, <1>6, <2>1 DEF RecordsFine
  <2> QED BY <1>0, <1>2, <1>3, <2>1 DEF RecordsFine
<1> QED BY <1>1, <1>7

\* The login's answer was the only message of accept's call.
LEMMA RecordsLoginAnswered ==
    ASSUME SessionInv, LoginAnswered
    PROVE  RecordsInv'
<1>0. TypeOK /\ AcceptInv /\ RecordsFine
  BY RecordsParts DEF SessionInv
<1>1. (RecordsInv <=> RecordsFine)'
  BY RecordsParts, PTL
<1> DEFINE h == Head(toLogin)
<1>2. /\ Next1(toLogin, "loggedIn") /\ toLogin' = Tail(toLogin) /\ accept' = "idle"
      /\ online' = (IF h.subid # 0 THEN h.subid ELSE online)
      /\ UNCHANGED <<internal_id, users, obj, toGate>>
  BY DEF LoginAnswered, tableVars
<1>3. /\ Range(toLogin) = Range(toLogin') \cup {h} /\ h \in LoginMessages /\ h.type = "loggedIn"
  BY <1>0, <1>2, FromLoginFacts
<1> HIDE DEF h
<1>4. TypeOK'
  BY <1>0, TypeLoginAnswered DEF SessionInv
<1>5. LoggedIns' = {} /\ LoggedIns = {h} /\ Kicks' = Kicks
  <2>1. h \in AcceptAtLogin
    BY <1>3, LoginRead
  <2>2. LoginHas' = 0
    BY <1>0, <1>2, <2>1, LoginHasLess DEF h
  <2>3. (TypeOK /\ LoginHas = 0 => LoggedIns = {})'
    BY NoLoggedIn, PTL
  <2>4. LoggedIns' = {}
    BY <1>4, <2>2, <2>3
  <2> QED BY <1>2, <1>3, <2>4 DEF LoggedIns, Kicks
<1>6. RecordsFine'
  BY <1>0, <1>2, <1>5 DEF RecordsFine
<1> QED BY <1>1, <1>6

\* The gate's login was the only message of accept's call, and its answer is now.
LEMMA RecordsGateLogin ==
    ASSUME SessionInv, GateLogin
    PROVE  RecordsInv'
<1>0. TypeOK /\ AcceptInv /\ RecordsInv /\ RecordsFine
  BY RecordsParts DEF SessionInv
<1>1. (RecordsInv <=> RecordsFine)'
  BY RecordsParts, PTL
<1>2. TypeOK'
  BY <1>0, TypeGateLogin
<1>3. Next1(toGate, "login") /\ toGate' = Tail(toGate)
  BY DEF GateLogin
<1>4. /\ Head(toGate) \in AcceptAtGate /\ Head(toGate) \in Range(toGate) /\ UNCHANGED <<accept, online>>
      /\ LoggedNew \/ (ToLogin([type |-> "loggedIn", subid |-> 0]) /\ UNCHANGED tableVars)
  BY <1>0, GateLoginFacts DEF loginVars
<1>5. LoggedIns = {}
  <2>1. LoginHas = 0
    BY <1>0, <1>4, AtGate DEF LoginHas
  <2> QED BY <1>0, <2>1, NoLoggedIn
<1>6. Kicks' = {}
  <2>1. GateHas' = 0
    BY <1>0, <1>3, <1>4, GateHasLess
  <2>2. (TypeOK /\ GateHas = 0 => Kicks = {})'
    BY NoKick, PTL
  <2> QED BY <1>2, <2>1, <2>2
<1>7. ASSUME NEW m \in LoginMessages, m.type = "loggedIn", ToLogin(m) PROVE LoggedIns' = {m}
  <2>1. Range(toLogin') = Range(toLogin) \cup {m}
    BY <1>0, <1>7, ToLoginFacts
  <2> QED BY <1>5, <1>7, <2>1 DEF LoggedIns
<1>8. CASE LoggedNew
  <2> DEFINE n == internal_id + 1
             m == [type |-> "loggedIn", subid |-> n]
  <2>1. m \in LoginMessages /\ ToLogin(m) /\ internal_id' = n /\ users' \in Subids /\ obj'[users'].subid = n
    BY <1>8 DEF LoggedNew
  <2>2. m.type = "loggedIn" /\ m.subid = n /\ n \in Nat /\ n # 0
    BY <1>0, Bounds
  <2> HIDE DEF m, n
  <2>3. LoggedIns' = {m}
    BY <1>7, <2>1, <2>2
  <2>4. RecordsFine'
    BY <1>6, <2>1, <2>2, <2>3 DEF RecordsFine
  <2> QED BY <1>1, <2>4
<1>9. CASE ToLogin([type |-> "loggedIn", subid |-> 0]) /\ UNCHANGED tableVars
  <2> DEFINE m == [type |-> "loggedIn", subid |-> 0]
  <2>1. m \in LoginMessages /\ m.type = "loggedIn" /\ m.subid = 0 /\ 0 <= internal_id
    BY <1>0, Bounds DEF LoginMessages
  <2> HIDE DEF m
  <2>2. LoggedIns' = {m}
    BY <1>7, <1>9, <2>1 DEF m
  <2>3. UNCHANGED <<internal_id, users, obj>>
    BY <1>9 DEF tableVars
  <2>4. RecordsFine'
    BY <1>0, <1>4, <1>5, <1>6, <2>1, <2>2, <2>3 DEF RecordsFine
  <2> QED BY <1>1, <2>4
<1> QED BY <1>4, <1>8, <1>9

\* A logout at the gate keeps the subid of the session.
LEMMA LogoutKeepsSubid ==
    ASSUME TypeOK, users # 0, NEW s, LogoutHere(s)
    PROVE  /\ obj'[users].subid = obj[users].subid /\ obj'[users].agent = obj[users].agent
           /\ obj'[users].islogout = TRUE
<1>1. obj \in [Subids -> [subid : 0..internal_id, agent : Agents \cup {None}, islogout : BOOLEAN]]
      /\ users \in Subids
  BY Bounds DEF TypeOK
<1>2. obj' = [obj EXCEPT ![users].islogout = TRUE]
  BY DEF LogoutHere
<1> QED BY <1>1, <1>2

\* What every step does but those of accept's call to the login: it keeps the queue of kicks and logins.
LEMMA RecordsStep ==
    ASSUME SessionInv, Step
    PROVE  RecordsInv'
<1>0. TypeOK /\ TablesInv /\ HandlersInv /\ AcceptInv /\ AuthInv /\ RecordsInv /\ CountNeverShort
  BY DEF SessionInv
<1> DEFINE Goal  == RecordsInv'
           Keeps == \/ UNCHANGED toLogin
                    \/ \E m \in LoginMessages : m.type # "loggedIn" /\ ToLogin(m)
                    \/ \E t : t # "loggedIn" /\ Next1(toLogin, t) /\ toLogin' = Tail(toLogin)
           Same  == UNCHANGED <<accept, online, internal_id, users, obj>>
           Calm  == \/ UNCHANGED toGate
                    \/ \E m \in GateMessages : m.type # "kick" /\ ToGate(m)
                    \/ \E t : Next1(toGate, t) /\ toGate' = Tail(toGate)
<1> SUFFICES Goal
  OBVIOUS
<1>1. /\ UNCHANGED <<loginVars, tableVars>> => Same
      /\ UNCHANGED toLogin => Keeps
      /\ UNCHANGED toGate => Calm
  BY DEF loginVars, tableVars
<1>2. ASSUME Keeps, Kicks' \subseteq Kicks, accept' # "idle" => accept # "idle", internal_id' = internal_id,
             online' \in {0, online}, users' \in {0, users}, users # 0 => obj'[users].subid = obj[users].subid
      PROVE  Goal
  BY <1>0, <1>2, LoggedInsFrame, RecordsFrame
<1>3. Calm => Kicks' \subseteq Kicks
  BY <1>0, KicksFrame
<1>4. ASSUME Same, Keeps, Calm PROVE Goal
  BY <1>2, <1>3, <1>4
<1>5. ASSUME NEW m \in GateMessages, m.type # "kick", ToGate(m) PROVE Calm
  BY <1>5
<1>6. ASSUME NEW t, Next1(toGate, t), toGate' = Tail(toGate) PROVE Calm
  BY <1>6
<1>7. ASSUME NEW m \in LoginMessages, m.type # "loggedIn", ToLogin(m) PROVE Keeps
  BY <1>7
<1>8. GoesOn => Keeps
  BY <1>7 DEF GoesOn
<1>9. ASSUME NEW t, t # "loggedIn", Next1(toLogin, t), toLogin' = Tail(toLogin) PROVE Keeps
  BY <1>9
<1>10. CASE Accept
  BY <1>10, RecordsAccept
<1>11. CASE LogindLogout
  <2> DEFINE m == [Head(toLogin) EXCEPT !.type = "logoutDone"]
  <2>1. /\ Next1(toLogin, "logout") /\ toLogin' = Tail(toLogin) /\ ToGate(m)
        /\ accept' = accept /\ online' = 0 /\ UNCHANGED <<internal_id, users, obj>>
    BY <1>11 DEF LogindLogout, tableVars
  <2>2. m \in GateMessages /\ m.type # "kick"
    <3>1. Head(toLogin) \in LoginMessages /\ Head(toLogin).type = "logout"
      BY <1>0, <2>1, FromLoginFacts
    <3>2. m \in GateMessages /\ m.type = "logoutDone"
      BY <3>1, LogoutRelayed
    <3> QED BY <3>2
  <2> HIDE DEF m
  <2>3. Calm
    BY <1>5, <2>1, <2>2
  <2>4. Keeps
    BY <1>9, <2>1
  <2> HIDE DEF Goal, Calm, Keeps
  <2> QED BY <1>2, <1>3, <2>1, <2>3, <2>4
<1>12. CASE KickAnswered
  <2>1. /\ Next1(toLogin, "kicked") /\ toLogin' = Tail(toLogin) /\ online' = online
        /\ UNCHANGED <<internal_id, users, obj>>
        /\ UNCHANGED toGate \/ ToGate([type |-> "login", subid |-> 0])
    BY <1>12 DEF KickAnswered, tableVars
  <2>2. accept # "idle"
    <3>1. Head(toLogin) \in AcceptAtLogin /\ Head(toLogin) \in Range(toLogin)
      BY <1>0, <2>1, FromLoginFacts, LoginRead
    <3> QED BY <1>0, <3>1, AtLogin
  <2>3. Calm
    <3>1. [type |-> "login", subid |-> 0] \in GateMessages
      BY <1>0, Bounds DEF GateMessages
    <3> QED BY <1>5, <2>1, <3>1
  <2>4. Keeps
    BY <1>9, <2>1
  <2> HIDE DEF Goal, Calm, Keeps
  <2> QED BY <1>2, <1>3, <2>1, <2>2, <2>3, <2>4
<1>13. CASE LoginAnswered
  BY <1>13, RecordsLoginAnswered
<1>14. CASE GateLogin
  BY <1>14, RecordsGateLogin
<1>15. CASE GateKick
  <2>1. /\ UNCHANGED <<accept, online, internal_id, users>> /\ Next1(toGate, "kick") /\ toGate' = Tail(toGate)
    BY <1>0, <1>15, LogoutHereFrame DEF GateKick, loginVars
  <2>2. users # 0 => obj'[users].subid = obj[users].subid
    BY <1>0, <1>15, LogoutKeepsSubid DEF GateKick, tableVars
  <2>3. Keeps
    BY <1>0, <1>8, <1>15, GateKickGoesOn
  <2>4. Calm
    BY <1>6, <2>1
  <2> HIDE DEF Goal, Calm, Keeps
  <2> QED BY <1>2, <1>3, <2>1, <2>2, <2>3, <2>4
<1>16. CASE GateLogoutDone
  <2>1. Same /\ Next1(toGate, "logoutDone") /\ toGate' = Tail(toGate)
    BY <1>16 DEF GateLogoutDone, loginVars
  <2>2. Keeps
    BY <1>0, <1>1, <1>8, <1>16, GateLogoutDoneCases
  <2>3. Calm
    BY <1>6, <2>1
  <2> QED BY <1>4, <2>1, <2>2, <2>3
<1>17. CASE GateLogout
  <2>1. /\ UNCHANGED <<accept, online, internal_id, users>> /\ Next1(toGate, "logout") /\ toGate' = Tail(toGate)
    BY <1>0, <1>17, LogoutHereFrame DEF GateLogout, loginVars
  <2>2. users # 0 => obj'[users].subid = obj[users].subid
    BY <1>0, <1>17, LogoutKeepsSubid DEF GateLogout, tableVars
  <2>3. Keeps
    <3> DEFINE x == [type |-> "logout", caller |-> Head(toGate).caller, agent |-> Head(toGate).agent]
    <3>1. UNCHANGED toLogin \/ (ToLogin(x) /\ Head(toGate).caller \in Callers /\ Head(toGate).agent \in Agents)
      BY <1>0, <1>17, GateLogoutCases
    <3>2. CASE ToLogin(x) /\ Head(toGate).caller \in Callers /\ Head(toGate).agent \in Agents
      <4>1. x \in LoginMessages /\ x.type = "logout"
        BY <3>2, LogoutToLogin
      <4> HIDE DEF x
      <4> QED BY <1>7, <3>2, <4>1
    <3> QED BY <1>1, <3>1, <3>2
  <2>4. Calm
    BY <1>6, <2>1
  <2> HIDE DEF Goal, Calm, Keeps
  <2> QED BY <1>2, <1>3, <2>1, <2>2, <2>3, <2>4
<1>18. CASE GateKicked
  <2>1. Same /\ Next1(toGate, "kicked") /\ toGate' = Tail(toGate) /\ ToLogin([type |-> "kicked", ok |-> TRUE])
    BY <1>1, <1>18 DEF GateKicked
  <2>2. Keeps
    <3>1. [type |-> "kicked", ok |-> TRUE] \in LoginMessages
      BY DEF LoginMessages
    <3> QED BY <1>7, <2>1, <3>1
  <2>3. Calm
    BY <1>6, <2>1
  <2> QED BY <1>4, <2>1, <2>2, <2>3
<1>19. CASE AgentExit
  <2>1. /\ UNCHANGED <<accept, online, internal_id, obj, toLogin>> /\ users' \in {0, users}
        /\ Next1(toGate, "agentexit") /\ toGate' = Tail(toGate)
    BY <1>19 DEF AgentExit, loginVars
  <2>2. Keeps /\ Calm
    BY <1>1, <1>6, <2>1
  <2> HIDE DEF Goal, Calm, Keeps
  <2> QED BY <1>2, <1>3, <2>1, <2>2
<1>20. CASE LoginReply
  <2>1. Same /\ Next1(toGate, "loggedIn") /\ toGate' = Tail(toGate) /\ UNCHANGED toLogin
    BY <1>1, <1>20 DEF LoginReply
  <2> QED BY <1>1, <1>4, <1>6, <2>1
<1>21. ASSUME NEW f, NEW s, NEW o \in 1..internal_id, NEW a, Called(f, s, o, a),
              UNCHANGED <<accept, online, internal_id, users, toLogin, toGate>>
       PROVE  Goal
  <2>1. users # 0 => obj'[users].subid = obj[users].subid
    <3>1. users # 0 => users \in Subids
      BY <1>0, Bounds DEF TypeOK
    <3> QED BY <1>21, <3>1 DEF Called
  <2>2. Keeps /\ Calm
    BY <1>1, <1>21
  <2> HIDE DEF Goal, Calm, Keeps
  <2> QED BY <1>2, <1>3, <1>21, <2>1, <2>2
<1>22. ASSUME NEW f \in Fds, NEW s \in Subids, NEW index \in {"new", "expired"}, Handshake(f, s, index)
       PROVE  Goal
  <2> DEFINE o == username_map[s]
             a == obj[o].agent
  <2>1. /\ s \in 1..internal_id /\ UNCHANGED <<accept, online, internal_id, users, toLogin, toGate>>
        /\ UNCHANGED obj \/ (o \in 1..internal_id /\ a \in Agents /\ CallLogin(f, s, o, a))
    BY <1>0, <1>22, HandshakeCases DEF loginVars
  <2> HIDE DEF o, a
  <2>2. CASE o \in 1..internal_id /\ a \in Agents /\ CallLogin(f, s, o, a)
    <3>1. Called(f, s, o, a)
      BY <1>0, <2>1, <2>2, CallLoginFacts
    <3> QED BY <1>21, <2>1, <2>2, <3>1
  <2> QED BY <1>1, <1>4, <2>1, <2>2
<1>23. ASSUME NEW f \in Fds, NEW a \in Agents, GotAgent(f, a) PROVE Goal
  <2>1. /\ auth[f].obj \in 1..internal_id /\ Called(f, auth[f].subid, auth[f].obj, a)
        /\ UNCHANGED <<accept, online, internal_id, users, toLogin, toGate>>
    BY <1>0, <1>23, GotAgentFacts DEF loginVars
  <2> QED BY <1>21, <2>1
<1>24. CASE \/ \E f \in Fds : Disconnect(f) \/ LoginMarked(f)
            \/ \E f \in Fds, a \in Agents : RequestLogout(f, a)
            \/ \E a \in Agents : LoginStart(a) \/ Reconnect(a) \/ Afk(a)
  <2>1. UNCHANGED <<loginVars, tableVars, toLogin, toGate>>
    BY <1>24 DEF Disconnect, LoginMarked, RequestLogout, LoginStart, Reconnect, Afk, SetOnline
  <2> QED BY <1>1, <1>4, <2>1
<1>25. ASSUME NEW f \in Fds, LoginEnd(f) \/ LoginForbidden(f) PROVE Goal
  <2>1. PICK ok \in BOOLEAN : /\ UNCHANGED <<loginVars, tableVars, toLogin>>
                              /\ ToGate([type |-> "loggedIn", fd |-> f, ok |-> ok])
    BY <1>25 DEF LoginEnd, LoginForbidden
  <2> DEFINE m == [type |-> "loggedIn", fd |-> f, ok |-> ok]
  <2>2. m \in GateMessages /\ m.type # "kick"
    BY LoggedInToGate
  <2> HIDE DEF m
  <2>3. Calm
    BY <1>5, <2>1, <2>2 DEF m
  <2> QED BY <1>1, <1>4, <2>1, <2>3
<1>26. ASSUME NEW c \in Callers, NEW a \in Agents, Completes(c, a), UNCHANGED <<loginVars, tableVars, toLogin>>
       PROVE  Goal
  <2>1. Calm
    <3>1. UNCHANGED toGate \/ \E m \in GateMessages : m.type # "kick" /\ ToGate(m)
      BY <1>26, CompletesGate
    <3> QED BY <1>1, <1>5, <3>1
  <2> QED BY <1>1, <1>4, <1>26, <2>1
<1>27. ASSUME NEW a \in Agents, Logout(a) \/ ClientLogout(a) \/ HeartbeatOut(a) PROVE Goal
  BY <1>0, <1>26, <1>27, LogoutFacts, ClientLogoutFacts, HeartbeatOutFacts, CallerFacts
<1>28. ASSUME NEW f \in Fds, ForbiddenLogout(f) PROVE Goal
  BY <1>0, <1>26, <1>28, ForbiddenLogoutFacts, CallerFacts
<1>29. ASSUME NEW c \in Callers, WentOffline(c) PROVE Goal
  BY <1>0, <1>26, <1>29, WentOfflineFacts
<1>30. ASSUME NEW a \in Agents, LogoutDone(a) PROVE Goal
  <2>1. UNCHANGED <<loginVars, tableVars, toLogin>> /\ (UNCHANGED toGate \/ ToGate([type |-> "kicked"]))
    BY <1>0, <1>30, LogoutDoneFacts DEF Ends
  <2>2. Calm
    <3> DEFINE m == [type |-> "kicked"]
    <3>1. m \in GateMessages /\ m.type # "kick"
      BY DEF GateMessages
    <3> HIDE DEF m
    <3> QED BY <1>1, <1>5, <2>1, <3>1 DEF m
  <2> QED BY <1>1, <1>4, <2>1, <2>2
<1>31. ASSUME NEW a \in Agents, AgentDies(a) PROVE Goal
  <2> DEFINE x == [type |-> "agentexit", agent |-> a]
  <2>1. /\ UNCHANGED <<loginVars, tableVars, toLogin>>
        /\ Range(toGate') = (Range(toGate) \cup {x}) \cup Errors(a)
    BY <1>0, <1>31, AgentDiesFacts DEF Died
  <2>2. x.type # "kick" /\ \A m \in Errors(a) : m.type # "kick"
    BY <1>0, ErrorsFacts
  <2> HIDE DEF x
  <2>3. Kicks' \subseteq Kicks
    BY <2>1, <2>2 DEF Kicks
  <2>4. Same /\ Keeps
    BY <1>1, <2>1
  <2> HIDE DEF Goal, Keeps
  <2> QED BY <1>2, <2>3, <2>4
<1> QED BY <1>10, <1>11, <1>12, <1>13, <1>14, <1>15, <1>16, <1>17, <1>18, <1>19, <1>20, <1>22, <1>23, <1>24,
           <1>25, <1>27, <1>28, <1>29, <1>30, <1>31 DEF Step

\* agent_mgr counts logins and logouts of the player only.
LEMMA CountStep ==
    ASSUME SessionInv, Step
    PROVE  CountNeverShort'
<1>0. TypeOK /\ HandlersInv /\ CountNeverShort
  BY DEF SessionInv
<1>1. UNCHANGED mgrVars => CountNeverShort'
  BY <1>0 DEF CountNeverShort, mgrVars
<1>2. CASE \/ Accept \/ LogindLogout \/ KickAnswered \/ LoginAnswered \/ GateLogin \/ GateKick
           \/ GateLogoutDone \/ LoginReply \/ GateLogout \/ GateKicked \/ AgentExit
  BY <1>1, <1>2 DEF Accept, LogindLogout, KickAnswered, LoginAnswered, GateLogin, GateKick, GateLogoutDone,
                    LoginReply, GateLogout, GateKicked, AgentExit
<1>3. CASE \/ \E f \in Fds, s \in Subids, index \in {"new", "expired"} : Handshake(f, s, index)
           \/ \E f \in Fds, a \in Agents : GotAgent(f, a) \/ RequestLogout(f, a)
           \/ \E f \in Fds : Disconnect(f)
  BY <1>1, <1>3, SMTT(30) DEF Handshake, GotAgent, RequestLogout, Disconnect
<1>4. CASE \/ \E a \in Agents : LoginStart(a) \/ Reconnect(a) \/ Afk(a) \/ LogoutDone(a) \/ AgentDies(a)
           \/ \E f \in Fds : LoginMarked(f) \/ LoginForbidden(f)
  BY <1>1, <1>4 DEF LoginStart, Reconnect, Afk, SetOnline, LogoutDone, AgentDies, LoginMarked, LoginForbidden
<1>5. CASE \E f \in Fds : LoginEnd(f)
  BY <1>0, <1>5, TypeLoginEnd
<1>6. CASE \/ \E a \in Agents : Logout(a) \/ ClientLogout(a) \/ HeartbeatOut(a)
           \/ \E f \in Fds : ForbiddenLogout(f)
           \/ \E c \in Callers : WentOffline(c)
  BY <1>0, <1>6, TypeLogouts
<1> QED BY <1>2, <1>3, <1>4, <1>5, <1>6 DEF Step

----------------------------------------------------------------------------
(* The agent in the way of a lockout *)

\* What joins and leaves an agent's queue does to the subid the agent will have.
LEMMA AppendLoginAsks ==
    ASSUME NEW q \in Seq(AgentMessages), NEW m \in AgentMessages
    PROVE  LoginAsks(Append(q, m)) <=> LoginAsks(q) \/ m.type = "login"
BY AppendRange DEF LoginAsks

LEMMA TailLoginAsks ==
    ASSUME NEW q \in Seq(AgentMessages), q # <<>>
    PROVE  LoginAsks(q) <=> LoginAsks(Tail(q)) \/ Head(q).type = "login"
BY TailRange DEF LoginAsks

LEMMA AppendWillHave ==
    ASSUME NEW q \in Seq(AgentMessages), NEW m \in AgentMessages, NEW now, NEW s,
           IF m.type = "login" THEN m.subid = s ELSE WillHave(q, now, s)
    PROVE  WillHave(Append(q, m), now, s)
<1> DEFINE p == Append(q, m)
<1>1. /\ p \in Seq(AgentMessages) /\ p[Len(q) + 1] = m /\ \A i \in 1..Len(q) : p[i] = q[i]
      /\ DOMAIN p = 1..(Len(q) + 1) /\ DOMAIN q = 1..Len(q) /\ Len(q) \in Nat
  OBVIOUS
<1>2. LoginAsks(p) <=> LoginAsks(q) \/ m.type = "login"
  BY AppendLoginAsks
<1> HIDE DEF p
<1>3. ~LoginAsks(p) => now = s
  BY <1>2 DEF WillHave
<1>4. ASSUME NEW i \in DOMAIN p, p[i].type = "login", \A j \in DOMAIN p : j > i => p[j].type # "login"
      PROVE  p[i].subid = s
  <2>1. CASE i = Len(q) + 1
    BY <1>1, <1>4, <2>1
  <2>2. CASE i # Len(q) + 1
    <3>1. i \in DOMAIN q /\ p[i] = q[i] /\ Len(q) + 1 \in DOMAIN p /\ Len(q) + 1 > i
      BY <1>1, <2>2
    <3>2. m.type # "login"
      BY <1>1, <1>4, <3>1
    <3>3. ASSUME NEW j \in DOMAIN q, j > i PROVE q[j].type # "login"
      BY <1>1, <1>4, <3>3
    <3> QED BY <1>4, <3>1, <3>2, <3>3 DEF WillHave
  <2> QED BY <2>1, <2>2
<1>5. WillHave(p, now, s)
  BY <1>3, <1>4 DEF WillHave
<1> QED BY <1>5 DEF p

LEMMA TailWillHave ==
    ASSUME NEW q \in Seq(AgentMessages), q # <<>>, NEW now, NEW s, WillHave(q, now, s)
    PROVE  WillHave(Tail(q), IF Head(q).type = "login" THEN Head(q).subid ELSE now, s)
<1> DEFINE p == Tail(q)
<1>1. /\ p \in Seq(AgentMessages) /\ q[1] = Head(q) /\ \A i \in 1..(Len(q) - 1) : p[i] = q[i + 1]
      /\ DOMAIN p = 1..(Len(q) - 1) /\ DOMAIN q = 1..Len(q) /\ Len(q) \in Nat /\ Len(q) > 0
  OBVIOUS
<1>2. LoginAsks(q) <=> LoginAsks(p) \/ Head(q).type = "login"
  BY TailLoginAsks
<1> HIDE DEF p
<1>3. ASSUME ~LoginAsks(p), Head(q).type = "login" PROVE Head(q).subid = s
  <2>1. 1 \in DOMAIN q /\ q[1].type = "login"
    BY <1>1, <1>3
  <2>2. ASSUME NEW j \in DOMAIN q, j > 1 PROVE q[j].type # "login"
    <3>1. j - 1 \in DOMAIN p /\ p[j - 1] = q[j]
      BY <1>1, <2>2
    <3> QED BY <1>3, <3>1 DEF LoginAsks, Range
  <2> QED BY <1>1, <2>1, <2>2 DEF WillHave
<1>4. ASSUME ~LoginAsks(p), Head(q).type # "login" PROVE now = s
  BY <1>2, <1>4 DEF WillHave
<1>5. ASSUME NEW i \in DOMAIN p, p[i].type = "login", \A j \in DOMAIN p : j > i => p[j].type # "login"
      PROVE  p[i].subid = s
  <2>1. i + 1 \in DOMAIN q /\ q[i + 1] = p[i] /\ i \in Nat
    BY <1>1
  <2>2. ASSUME NEW j \in DOMAIN q, j > i + 1 PROVE q[j].type # "login"
    <3>1. j - 1 \in DOMAIN p /\ p[j - 1] = q[j] /\ j - 1 > i
      BY <1>1, <2>1, <2>2
    <3> QED BY <1>5, <3>1
  <2> QED BY <1>5, <2>1, <2>2 DEF WillHave
<1>6. WillHave(p, IF Head(q).type = "login" THEN Head(q).subid ELSE now, s)
  BY <1>3, <1>4, <1>5 DEF WillHave
<1> QED BY <1>6 DEF p

\* The gate hears of an agent that has exited; an agent will have subid s and a heartbeat.
ExitMessage(a) == [type |-> "agentexit", agent |-> a]
Exited(a)      == agent[a].life = "dead" => ExitMessage(a) \in Range(toGate)
Ready(a, s)    == WillHave(inbox[a], agent[a].subid, s) /\ WillBeat(a, s)

LEMMA LockoutNow ==
    ASSUME LockoutInv, users # 0, NEW a, obj[users].agent = a, NEW s, obj[users].subid = s
    PROVE  /\ a # None => Exited(a)
           /\ ~obj[users].islogout => a # None /\ (Alive(a) => Ready(a, s))
BY DEF LockoutInv, Exited, ExitMessage, Ready

LEMMA LockoutThen ==
    ASSUME users' # 0 => \E a, s : /\ obj'[users'].agent = a /\ obj'[users'].subid = s
                                   /\ a # None => Exited(a)'
                                   /\ ~obj'[users'].islogout => a # None /\ (Alive(a)' => Ready(a, s)')
    PROVE  LockoutInv'
<1>1. SUFFICES ASSUME users' # 0 PROVE LET a == obj[users].agent IN
        (/\ a # None /\ agent[a].life = "dead" => [type |-> "agentexit", agent |-> a] \in Range(toGate)
         /\ ~obj[users].islogout => a # None
         /\ ~obj[users].islogout /\ Alive(a) =>
               WillHave(inbox[a], agent[a].subid, obj[users].subid) /\ WillBeat(a, obj[users].subid))'
  BY DEF LockoutInv
<1>2. PICK a, s : /\ obj'[users'].agent = a /\ obj'[users'].subid = s
                  /\ a # None => Exited(a)'
                  /\ ~obj'[users'].islogout => a # None /\ (Alive(a)' => Ready(a, s)')
  BY <1>1
<1> QED BY <1>2 DEF Exited, ExitMessage, Ready, Alive, WillBeat

\* What a step keeps of the agent a of the session, with subid s.
Kept(a, s) ==
    /\ Exited(a) => Exited(a)'
    /\ ~obj'[users].islogout /\ Alive(a)' => Alive(a) /\ (Ready(a, s) => Ready(a, s)')

SameSession ==
    users # 0 => /\ obj'[users].agent = obj[users].agent /\ obj'[users].subid = obj[users].subid
                 /\ ~obj'[users].islogout => ~obj[users].islogout

LEMMA LockoutFrame ==
    ASSUME TypeOK, LockoutInv, users' \in {0, users}, SameSession,
           ASSUME NEW a \in Agents, NEW s, users' # 0, obj[users].agent = a, obj[users].subid = s PROVE Kept(a, s)
    PROVE  LockoutInv'
<1>1. ASSUME users' # 0
      PROVE  \E a, s : /\ obj'[users'].agent = a /\ obj'[users'].subid = s
                       /\ a # None => Exited(a)'
                       /\ ~obj'[users'].islogout => a # None /\ (Alive(a)' => Ready(a, s)')
  <2>1. PICK a, s : a = obj[users].agent /\ s = obj[users].subid
    OBVIOUS
  <2>2. users # 0 /\ users' = users /\ obj'[users].agent = a /\ obj'[users].subid = s
        /\ (~obj'[users].islogout => ~obj[users].islogout)
    BY <1>1, <2>1 DEF SameSession
  <2>3. /\ a # None => Exited(a)
        /\ ~obj[users].islogout => a # None /\ (Alive(a) => Ready(a, s))
    BY <2>1, <2>2, LockoutNow
  <2>4. a # None => Kept(a, s)
    <3>1. users \in Subids
      BY <2>2, Bounds DEF TypeOK
    <3>2. a \in Agents \cup {None}
      BY <2>1, <3>1 DEF TypeOK
    <3> QED BY <1>1, <2>1, <3>2
  <2>5. /\ a # None => Exited(a)'
        /\ ~obj'[users].islogout => a # None /\ (Alive(a)' => Ready(a, s)')
    BY <2>2, <2>3, <2>4 DEF Kept
  <2> QED BY <2>2, <2>5
<1> QED BY <1>1, LockoutThen

\* The logout that follows when the heartbeat of agent a has run out.
LogoutMessage(a, s) == [type |-> "logout", caller |-> Exit(a), agent |-> a, subid |-> s]

\* How a queue may change without a login.
CalmQueue(a) ==
    \/ inbox'[a] = inbox[a]
    \/ \E m \in AgentMessages : m.type # "login" /\ inbox'[a] = Append(inbox[a], m)
    \/ inbox[a] # <<>> /\ Head(inbox[a]).type # "login" /\ inbox'[a] = Tail(inbox[a])

\* Nothing happens to agent a that has to do with its subid, its heartbeat or its exit.
Still(a, s) ==
    /\ agent'[a].life = agent[a].life /\ agent'[a].subid = agent[a].subid
    /\ agent[a].beat => agent'[a].beat
    /\ CalmQueue(a)
    /\ logout[Exit(a)].at = "offline" => logout'[Exit(a)].at = "offline"
    /\ \A f \in Fds : login[f] = "shutdown" /\ auth[f].agent = a => login'[f] = "shutdown" /\ auth'[f].agent = a
    /\ ExitMessage(a) \in Range(toGate) => ExitMessage(a) \in Range(toGate')
    /\ LogoutMessage(a, s) \in Range(toGate) => LogoutMessage(a, s) \in Range(toGate')

LEMMA CalmQueueFacts ==
    ASSUME TypeOK, NEW a \in Agents, CalmQueue(a), NEW now, NEW s, WillHave(inbox[a], now, s)
    PROVE  WillHave(inbox'[a], now, s) /\ (LoginAsks(inbox[a]) => LoginAsks(inbox'[a]))
<1>1. inbox[a] \in Seq(AgentMessages)
  BY DEF TypeOK
<1>2. CASE inbox'[a] = inbox[a]
  BY <1>2
<1>3. ASSUME NEW m \in AgentMessages, m.type # "login", inbox'[a] = Append(inbox[a], m)
      PROVE  WillHave(inbox'[a], now, s) /\ (LoginAsks(inbox[a]) => LoginAsks(inbox'[a]))
  BY <1>1, <1>3, AppendWillHave, AppendLoginAsks
<1>4. CASE inbox[a] # <<>> /\ Head(inbox[a]).type # "login" /\ inbox'[a] = Tail(inbox[a])
  <2>1. WillHave(Tail(inbox[a]), IF Head(inbox[a]).type = "login" THEN Head(inbox[a]).subid ELSE now, s)
    BY <1>1, <1>4, TailWillHave
  <2> QED BY <1>1, <1>4, <2>1, TailLoginAsks
<1> QED BY <1>2, <1>3, <1>4 DEF CalmQueue

LEMMA WillBeatThen ==
    ASSUME NEW a, NEW s,
           \/ agent'[a].beat \/ LoginAsks(inbox'[a]) \/ logout'[Exit(a)].at = "offline"
           \/ \E f \in Fds : login'[f] = "shutdown" /\ auth'[f].agent = a
           \/ LogoutMessage(a, s) \in Range(toGate')
    PROVE  WillBeat(a, s)'
BY DEF WillBeat, LogoutMessage, LoginAsks, Exit

LEMMA StillKept ==
    ASSUME TypeOK, NEW a \in Agents, NEW s, Still(a, s)
    PROVE  Kept(a, s)
<1>1. Exited(a) => Exited(a)'
  BY DEF Still, Exited, ExitMessage
<1>2. Alive(a)' => Alive(a)
  BY DEF Still, Alive
<1>3. ASSUME Ready(a, s) PROVE Ready(a, s)'
  <2>1. WillHave(inbox[a], agent[a].subid, s) /\ WillBeat(a, s)
    BY <1>3 DEF Ready
  <2>2. WillHave(inbox'[a], agent[a].subid, s) /\ (LoginAsks(inbox[a]) => LoginAsks(inbox'[a]))
    BY <2>1, CalmQueueFacts DEF Still
  <2>3. WillHave(inbox'[a], agent'[a].subid, s)
    BY <2>2 DEF Still
  <2>4. WillBeat(a, s)'
    BY <2>1, <2>2, WillBeatThen DEF Still, WillBeat, LogoutMessage
  <2> QED BY <2>3, <2>4 DEF Ready, WillHave, LoginAsks
<1> QED BY <1>1, <1>2, <1>3 DEF Kept

\* The same for all agents, part by part.
AgentsStill == \A b \in Agents : /\ agent'[b].life = agent[b].life /\ agent'[b].subid = agent[b].subid
                                 /\ agent[b].beat => agent'[b].beat
QueuesStill == \A b \in Agents : CalmQueue(b)
ExitsStill  == \A b \in Agents : logout[Exit(b)].at = "offline" => logout'[Exit(b)].at = "offline"
LoginsStill == \A f \in Fds : login[f] = "shutdown" => login'[f] = "shutdown" /\ auth'[f].agent = auth[f].agent
GateStill   == \A m \in Range(toGate) : m.type \in {"logout", "agentexit"} => m \in Range(toGate')

LEMMA AllStill ==
    ASSUME AgentsStill, QueuesStill, ExitsStill, LoginsStill, GateStill, NEW a \in Agents, NEW s
    PROVE  Still(a, s)
<1>1. ExitMessage(a).type = "agentexit" /\ LogoutMessage(a, s).type = "logout"
  BY DEF ExitMessage, LogoutMessage
<1> QED BY <1>1 DEF Still, AgentsStill, QueuesStill, ExitsStill, LoginsStill, GateStill

LEMMA LockoutStill ==
    ASSUME TypeOK, LockoutInv, users' \in {0, users}, SameSession,
           AgentsStill, QueuesStill, ExitsStill, LoginsStill, GateStill
    PROVE  LockoutInv'
<1>1. ASSUME NEW a \in Agents, NEW s PROVE Kept(a, s)
  BY AllStill, StillKept
<1> QED BY <1>1, LockoutFrame

\* Which steps are still for the queues and the gate.
LEMMA QueuesStillWhen ==
    ASSUME TypeOK,
           \/ UNCHANGED inbox
           \/ \E a : \E m \in AgentMessages : m.type # "login" /\ Put(a, m)
           \/ \E a \in Agents : Took(a) /\ Head(inbox[a]).type # "login"
    PROVE  QueuesStill
BY DEF QueuesStill, CalmQueue, Put, Took

LEMMA GateStillWhen ==
    ASSUME TypeOK,
           \/ UNCHANGED toGate
           \/ \E m \in GateMessages : ToGate(m)
           \/ \E t : t \notin {"logout", "agentexit"} /\ Next1(toGate, t) /\ toGate' = Tail(toGate)
    PROVE  GateStill
<1>1. CASE UNCHANGED toGate
  BY <1>1 DEF GateStill
<1>2. ASSUME NEW m \in GateMessages, ToGate(m) PROVE GateStill
  <2>1. Range(toGate') = Range(toGate) \cup {m}
    BY <1>2, ToGateFacts
  <2> QED BY <2>1 DEF GateStill
<1>3. ASSUME NEW t, t \notin {"logout", "agentexit"}, Next1(toGate, t), toGate' = Tail(toGate) PROVE GateStill
  <2>1. Range(toGate) = Range(toGate') \cup {Head(toGate)} /\ Head(toGate).type = t
    BY <1>3, FromGateFacts
  <2> QED BY <1>3, <2>1 DEF GateStill
<1> QED BY <1>1, <1>2, <1>3

\* A new object has no agent, and an object that is used again counts as logged out.
LEMMA LockoutLoggedNew ==
    ASSUME TypeOK, TablesInv, LockoutInv, LoggedNew, UNCHANGED agent, GateStill
    PROVE  LockoutInv'
<1>1. PICK a, s : a = obj'[users'].agent /\ s = obj'[users'].subid
  OBVIOUS
<1>2. users' \in Subids /\ obj'[users'].islogout = TRUE /\ obj'[users'].agent = obj[users'].agent
  BY DEF LoggedNew
<1>3. ASSUME a # None PROVE Exited(a)'
  <2>1. users # 0
    <3>1. SUFFICES ASSUME users = 0 PROVE FALSE
      OBVIOUS
    <3>2. users' = internal_id + 1
      BY <3>1 DEF LoggedNew
    <3>3. users' > internal_id
      BY <3>2, Bounds
    <3>4. obj[users'] = NoObject
      BY <1>2, <3>3 DEF TablesInv
    <3> QED BY <1>1, <1>2, <1>3, <3>4 DEF NoObject
  <2>2. users' = users /\ a = obj[users].agent
    BY <1>1, <1>2, <2>1 DEF LoggedNew
  <2>3. Exited(a)
    BY <1>3, <2>1, <2>2, LockoutNow
  <2>4. ExitMessage(a).type = "agentexit"
    BY DEF ExitMessage
  <2> QED BY <2>3, <2>4 DEF Exited, ExitMessage, GateStill
<1> QED BY <1>1, <1>2, <1>3, LockoutThen

\* The session is logged out.
LEMMA LockoutShut ==
    ASSUME TypeOK, LockoutInv, users # 0, NEW s, LogoutHere(s), UNCHANGED agent,
           NEW t, t # "agentexit", Next1(toGate, t), toGate' = Tail(toGate)
    PROVE  LockoutInv'
<1>1. users' = users /\ obj'[users].agent = obj[users].agent /\ obj'[users].subid = obj[users].subid
      /\ obj'[users].islogout = TRUE
  BY LogoutKeepsSubid DEF LogoutHere
<1>2. Range(toGate) = Range(toGate') \cup {Head(toGate)} /\ Head(toGate).type = t
  BY FromGateFacts
<1>3. ASSUME NEW a \in Agents, NEW x PROVE Kept(a, x)
  <2>1. ExitMessage(a).type = "agentexit"
    BY DEF ExitMessage
  <2>2. ExitMessage(a) \in Range(toGate) => ExitMessage(a) \in Range(toGate')
    BY <1>2, <2>1
  <2>3. Exited(a) => Exited(a)'
    BY <2>2 DEF Exited, ExitMessage
  <2> QED BY <1>1, <2>3 DEF Kept
<1>4. SameSession
  BY <1>1 DEF SameSession
<1> QED BY <1>1, <1>3, <1>4, LockoutFrame

\* do_auth calls agent a for object o, which may be the one of the session.
LEMMA LockoutCalled ==
    ASSUME TypeOK, TablesInv, LockoutInv, NEW f \in Fds, NEW s, NEW o \in 1..internal_id, NEW a \in Agents,
           Called(f, s, o, a), UNCHANGED <<users, login, logout, toGate>>, login[f] = "none",
           (agent'[a].life = "dead" <=> agent[a].life = "dead"), \A b \in Agents : b # a => agent'[b] = agent[b],
           obj[o].agent = a \/ agent[a].life = "unborn"
    PROVE  LockoutInv'
<1>1. o \in Subids /\ (users # 0 => users \in Subids)
  BY Bounds DEF TypeOK
<1>2. CASE o = users
  <2>1. PICK x : x = obj[o].subid
    OBVIOUS
  <2>2. obj'[users'].agent = a /\ obj'[users'].subid = x
    BY <1>2, <2>1 DEF Called
  <2>3. Exited(a)'
    <3>1. SUFFICES ASSUME agent'[a].life = "dead" PROVE ExitMessage(a) \in Range(toGate')
      BY DEF Exited, ExitMessage
    <3>2. agent[a].life = "dead" /\ obj[users].agent = a /\ users # 0 /\ a # None
      BY <1>2, <3>1, SessionAssumption
    <3>3. Exited(a)
      BY <3>2, LockoutNow
    <3> QED BY <3>2, <3>3 DEF Exited
  <2>4. ASSUME Alive(a)' PROVE Ready(a, x)'
    <3> DEFINE m == [type |-> "login", fd |-> f, subid |-> x]
               q == inbox[a]
    <3>1. agent[a].life # "dead"
      BY <2>4 DEF Alive
    <3>2. inbox'[a] = Append(q, m) /\ m \in AgentMessages
      BY <2>1, <3>1 DEF Called, TypeOK
    <3>3. q \in Seq(AgentMessages) /\ m.type = "login" /\ m.subid = x
      BY DEF TypeOK
    <3> HIDE DEF m, q
    <3>4. WillHave(inbox'[a], agent'[a].subid, x)
      BY <3>2, <3>3, AppendWillHave
    <3>5. LoginAsks(inbox'[a])
      BY <3>2, <3>3, AppendLoginAsks
    <3>6. WillBeat(a, x)'
      BY <3>5, WillBeatThen
    <3> QED BY <3>4, <3>6 DEF Ready, WillHave, LoginAsks
  <2> QED BY <2>2, <2>3, <2>4, SessionAssumption, LockoutThen
<1>3. CASE o # users
  <2>1. users # 0 => obj'[users] = obj[users]
    BY <1>1, <1>3 DEF Called
  <2>2. ASSUME NEW b \in Agents, NEW x, users' # 0, obj[users].agent = b PROVE Kept(b, x)
    <3>1. users \in Subids /\ b # None
      BY <1>1, <2>2, SessionAssumption
    <3>2. b # a
      BY <1>1, <1>3, <2>2, <3>1 DEF TablesInv
    <3>3. agent'[b] = agent[b] /\ inbox'[b] = inbox[b]
      BY <3>2 DEF Called
    <3>4. \A g \in Fds : login[g] = "shutdown" /\ auth[g].agent = b => login'[g] = "shutdown" /\ auth'[g].agent = b
      BY DEF Called
    <3>5. Still(b, x)
      BY <3>3, <3>4 DEF Still, CalmQueue
    <3> QED BY <3>5, StillKept
  <2>3. SameSession
    BY <2>1 DEF SameSession
  <2> QED BY <2>2, <2>3, LockoutFrame
<1> QED BY <1>2, <1>3

\* The gate has read a logout or an exit: another message than the one the session waits for.
LEMMA StillAtGate ==
    ASSUME TypeOK, NEW t, Next1(toGate, t), toGate' = Tail(toGate),
           UNCHANGED <<agent, auth, login, logout>>, QueuesStill, NEW a \in Agents, NEW s,
           Head(toGate) # ExitMessage(a), Head(toGate) # LogoutMessage(a, s)
    PROVE  Kept(a, s)
<1>1. Range(toGate) = Range(toGate') \cup {Head(toGate)}
  BY FromGateFacts
<1>2. Still(a, s)
  BY <1>1 DEF Still, QueuesStill
<1> QED BY <1>2, StillKept

\* A logout is refused because of its subid.
LEMMA LockoutRefused ==
    ASSUME TypeOK, LockoutInv, Next1(toGate, "logout"), toGate' = Tail(toGate),
           UNCHANGED <<users, obj, agent, auth, login, logout>>, QueuesStill,
           users # 0 => obj[users].subid # Head(toGate).subid
    PROVE  LockoutInv'
<1>1. ASSUME NEW a \in Agents, NEW s, users' # 0, obj[users].subid = s PROVE Kept(a, s)
  <2>1. Head(toGate).type = "logout" /\ Head(toGate).subid # s
    BY <1>1 DEF Next1
  <2>2. ExitMessage(a).type # "logout" /\ LogoutMessage(a, s).subid = s
    BY DEF ExitMessage, LogoutMessage
  <2>3. Head(toGate) # ExitMessage(a) /\ Head(toGate) # LogoutMessage(a, s)
    BY <2>1, <2>2
  <2> QED BY <2>3, StillAtGate
<1> QED BY <1>1, LockoutFrame DEF SameSession

LEMMA LockoutExit ==
    ASSUME TypeOK, LockoutInv, AgentExit
    PROVE  LockoutInv'
<1>1. /\ Next1(toGate, "agentexit") /\ toGate' = Tail(toGate)
      /\ UNCHANGED <<obj, agent, auth, login, logout, inbox>>
      /\ users' = IF users # 0 /\ obj[users].agent = Head(toGate).agent THEN 0 ELSE users
  BY DEF AgentExit, clientVars, agentVars
<1>2. ASSUME NEW a \in Agents, NEW s, users' # 0, obj[users].agent = a PROVE Kept(a, s)
  <2>1. Head(toGate).type = "agentexit" /\ Head(toGate).agent # a
    BY <1>1, <1>2 DEF Next1
  <2>2. ExitMessage(a).agent = a /\ LogoutMessage(a, s).type # "agentexit"
    BY DEF ExitMessage, LogoutMessage
  <2>3. Head(toGate) # ExitMessage(a) /\ Head(toGate) # LogoutMessage(a, s)
    BY <2>1, <2>2
  <2>4. QueuesStill
    BY <1>1, QueuesStillWhen
  <2> QED BY <1>1, <2>3, <2>4, StillAtGate
<1> QED BY <1>1, <1>2, LockoutFrame DEF SameSession

\* The agent reads a login: it has its subid, and will start the heartbeat.
LEMMA LockoutStarted ==
    ASSUME TypeOK, HandlersInv, LockoutInv, NEW a \in Agents, Started(a),
           UNCHANGED <<users, obj, auth, logout, toGate>>
    PROVE  LockoutInv'
<1> DEFINE m == Head(inbox[a])
           g == m.fd
<1>1. /\ inbox[a] # <<>> /\ inbox[a] \in Seq(AgentMessages) /\ m.type = "login" /\ m.fd \in Fds
      /\ inbox'[a] = Tail(inbox[a]) /\ \A b \in Agents : b # a => inbox'[b] = inbox[b] /\ agent'[b] = agent[b]
      /\ agent'[a].subid = m.subid /\ agent'[a].life = agent[a].life
      /\ login'[g] = "shutdown" /\ \A h \in Fds : h # g => login'[h] = login[h]
  BY DEF Started, Took, TypeOK
<1>2. auth[g].agent = a /\ g \in Fds
  BY <1>1 DEF HandlersInv, Started
<1>3. ASSUME NEW s, Ready(a, s) PROVE Ready(a, s)'
  <2>1. WillHave(inbox'[a], agent'[a].subid, s)
    <3>1. WillHave(inbox[a], agent[a].subid, s)
      BY <1>3 DEF Ready
    <3>2. WillHave(Tail(inbox[a]), IF m.type = "login" THEN m.subid ELSE agent[a].subid, s)
      BY <1>1, <3>1, TailWillHave
    <3> QED BY <1>1, <3>2
  <2>2. WillBeat(a, s)'
    BY <1>1, <1>2, WillBeatThen
  <2> QED BY <2>1, <2>2 DEF Ready, WillHave, LoginAsks
<1> HIDE DEF m, g
<1>4. ASSUME NEW s PROVE Kept(a, s)
  BY <1>1, <1>3 DEF Kept, Exited, ExitMessage, Alive
<1>5. ASSUME NEW b \in Agents, NEW s, b # a PROVE Kept(b, s)
  <2>1. Still(b, s)
    BY <1>1, <1>5 DEF Still, CalmQueue
  <2> QED BY <2>1, StillKept
<1> QED BY <1>4, <1>5, LockoutFrame DEF SameSession

\* The heartbeat of the agent has been started.
LEMMA LockoutMarked ==
    ASSUME TypeOK, HandlersInv, LockoutInv, NEW f \in Fds, Logged(f, "db"),
           UNCHANGED <<users, obj, auth, logout, toGate, inbox>>
    PROVE  LockoutInv'
<1> DEFINE a == auth[f].agent
<1>1. /\ a \in Agents /\ \A b \in Agents : b # a => agent'[b] = agent[b]
      /\ agent'[a].life = agent[a].life /\ agent'[a].subid = agent[a].subid /\ agent'[a].beat
      /\ \A g \in Fds : g # f => login'[g] = login[g]
  BY DEF Logged
<1> HIDE DEF a
<1>2. ASSUME NEW b \in Agents, NEW s, b = a PROVE Kept(b, s)
  <2>1. Ready(b, s) => Ready(b, s)'
    <3>1. SUFFICES ASSUME Ready(b, s) PROVE Ready(b, s)'
      OBVIOUS
    <3>2. WillHave(inbox'[b], agent'[b].subid, s)
      BY <1>1, <1>2, <3>1 DEF Ready
    <3>3. WillBeat(b, s)'
      BY <1>1, <1>2, WillBeatThen
    <3> QED BY <3>2, <3>3 DEF Ready, WillHave, LoginAsks
  <2> QED BY <1>1, <1>2, <2>1 DEF Kept, Exited, ExitMessage, Alive
<1>3. ASSUME NEW b \in Agents, NEW s, b # a PROVE Kept(b, s)
  <2>1. \A g \in Fds : login[g] = "shutdown" /\ auth[g].agent = b => login'[g] = "shutdown" /\ auth'[g].agent = b
    BY <1>1, <1>3 DEF a
  <2>2. Still(b, s)
    BY <1>1, <1>3, <2>1 DEF Still, CalmQueue
  <2> QED BY <2>2, StillKept
<1> QED BY <1>2, <1>3, LockoutFrame DEF SameSession

\* _logoutComplete of caller c in agent a.  When that is the exit after a heartbeat, the logout
\* is on its way, or its message.
LEMMA LockoutCompletes ==
    ASSUME TypeOK, LockoutInv, NEW c \in Callers, NEW a \in Agents, Completes(c, a),
           UNCHANGED <<users, obj, auth, login>>, QueuesStill,
           \A b \in Agents : agent'[b].life = agent[b].life /\ agent'[b].subid = agent[b].subid,
           \A b \in Agents : c # Exit(b) => (agent[b].beat => agent'[b].beat),
           \A b \in Agents : c = Exit(b) => b = a /\ UNCHANGED inbox /\ Goes(c, a)
    PROVE  LockoutInv'
<1> DEFINE x == [type |-> "logout", caller |-> c, agent |-> a, subid |-> agent[a].subid]
<1>1. /\ \A d \in Callers : d # c => logout'[d] = logout[d]
      /\ Goes(c, a) => \/ logout'[c].at = "offline" /\ UNCHANGED toGate
                       \/ x \in GateMessages /\ ToGate(x)
  BY DEF Completes, Goes, Tells
<1> HIDE DEF x
<1>2. GateStill
  BY CompletesGate, GateStillWhen
<1>3. ASSUME NEW b \in Agents, NEW s, c # Exit(b) PROVE Kept(b, s)
  <2>1. logout'[Exit(b)] = logout[Exit(b)]
    BY <1>1, <1>3 DEF Callers
  <2>2. ExitMessage(b).type = "agentexit" /\ LogoutMessage(b, s).type = "logout"
    BY DEF ExitMessage, LogoutMessage
  <2>3. Still(b, s)
    BY <1>2, <1>3, <2>1, <2>2 DEF Still, QueuesStill, GateStill
  <2> QED BY <2>3, StillKept
<1>4. ASSUME NEW s, c = Exit(a) PROVE Kept(a, s)
  <2>1. UNCHANGED inbox
    BY <1>4
  <2>2. ASSUME Ready(a, s) PROVE Ready(a, s)'
    <3>1. WillHave(inbox'[a], agent'[a].subid, s)
      BY <2>1, <2>2 DEF Ready
    <3>2. CASE LoginAsks(inbox[a])
      <4>1. LoginAsks(inbox'[a])
        BY <2>1, <3>2
      <4>2. WillBeat(a, s)'
        BY <4>1, WillBeatThen
      <4> QED BY <3>1, <4>2 DEF Ready, WillHave, LoginAsks
    <3>3. CASE ~LoginAsks(inbox[a])
      <4>1. agent[a].subid = s
        BY <2>2, <3>3 DEF Ready, WillHave
      <4>2. logout'[Exit(a)].at = "offline" \/ LogoutMessage(a, s) \in Range(toGate')
        <5>1. ASSUME x \in GateMessages, ToGate(x) PROVE LogoutMessage(a, s) \in Range(toGate')
          <6>1. x \in Range(toGate')
            BY <5>1, ToGateFacts
          <6> QED BY <1>4, <4>1, <6>1 DEF x, LogoutMessage
        <5> QED BY <1>1, <1>4, <5>1
      <4>3. WillBeat(a, s)'
        BY <4>2, WillBeatThen
      <4> QED BY <3>1, <4>3 DEF Ready, WillHave, LoginAsks
    <3> QED BY <3>2, <3>3
  <2>3. Exited(a) => Exited(a)'
    BY <1>2 DEF Exited, ExitMessage, GateStill
  <2> QED BY <2>2, <2>3 DEF Kept, Alive
<1>5. ASSUME NEW b \in Agents, NEW s PROVE Kept(b, s)
  BY <1>3, <1>4
<1> QED BY <1>5, LockoutFrame DEF SameSession

\* An agent exits, and the gate will hear of it.
LEMMA LockoutDies ==
    ASSUME TypeOK, HandlersInv, LockoutInv, NEW a \in Agents, Died(a)
    PROVE  LockoutInv'
<1>1. /\ agent'[a].life = "dead" /\ UNCHANGED <<users, obj, auth>>
      /\ \A b \in Agents : b # a => agent'[b] = agent[b] /\ inbox'[b] = inbox[b]
      /\ \A f \in Fds : login'[f] = IF auth[f].agent = a THEN "none" ELSE login[f]
      /\ \A c \in Callers : logout'[c] = IF logout[c].agent = a THEN NoLogout ELSE logout[c]
  BY DEF Died, tableVars, clientVars
<1>2. ExitMessage(a) \in Range(toGate') /\ \A m \in Range(toGate) : m \in Range(toGate')
  BY DEF Died, ExitMessage
<1>3. ASSUME NEW s PROVE Kept(a, s)
  BY <1>1, <1>2 DEF Kept, Exited, ExitMessage, Alive
<1>4. ASSUME NEW b \in Agents, NEW s, b # a PROVE Kept(b, s)
  <2>1. logout'[Exit(b)] = logout[Exit(b)]
    <3>1. logout[Exit(b)].agent \in {None, b}
      BY DEF HandlersInv
    <3>2. logout[Exit(b)].agent # a
      BY <1>4, <3>1, SessionAssumption
    <3> QED BY <1>1, <3>2 DEF Callers
  <2>2. Still(b, s)
    BY <1>1, <1>2, <1>4, <2>1 DEF Still, CalmQueue
  <2> QED BY <2>2, StillKept
<1> QED BY <1>1, <1>3, <1>4, LockoutFrame DEF SameSession

LEMMA LockoutStep ==
    ASSUME SessionInv, Step
    PROVE  LockoutInv'
<1>0. /\ TypeOK /\ TablesInv /\ HandlersInv /\ AcceptInv /\ AuthInv /\ LogoutInv /\ RecordsInv
      /\ CountNeverShort /\ LockoutInv
  BY DEF SessionInv
<1> DEFINE Goal     == LockoutInv'
           Calls    == \/ UNCHANGED inbox
                       \/ \E a : \E m \in AgentMessages : m.type # "login" /\ Put(a, m)
                       \/ \E a \in Agents : Took(a) /\ Head(inbox[a]).type # "login"
           Passes   == \/ UNCHANGED toGate
                       \/ \E m \in GateMessages : ToGate(m)
                       \/ \E t : t \notin {"logout", "agentexit"} /\ Next1(toGate, t) /\ toGate' = Tail(toGate)
           Handlers == UNCHANGED <<agent, login, logout, auth>>
<1> SUFFICES Goal
  OBVIOUS
<1>1. Calls => QueuesStill
  BY <1>0, QueuesStillWhen
<1>2. Passes => GateStill
  BY <1>0, GateStillWhen
<1>3. /\ UNCHANGED agentVars /\ UNCHANGED auth => Handlers
      /\ UNCHANGED clientVars => UNCHANGED auth
      /\ UNCHANGED tableVars => UNCHANGED <<users, obj>>
  BY DEF agentVars, clientVars, tableVars
<1>4. /\ UNCHANGED agent => AgentsStill
      /\ UNCHANGED logout => ExitsStill
      /\ UNCHANGED <<login, auth>> => LoginsStill
      /\ UNCHANGED <<users, obj>> => users' \in {0, users} /\ SameSession
  BY DEF AgentsStill, ExitsStill, LoginsStill, SameSession
<1>5. ASSUME UNCHANGED <<users, obj>>, Handlers, Calls, Passes PROVE Goal
  BY <1>0, <1>1, <1>2, <1>4, <1>5, LockoutStill
<1>6. ASSUME NEW a, NEW m \in AgentMessages, m.type # "login", Put(a, m) PROVE Calls
  BY <1>6
<1>7. GoesOn => Calls
  <2>1. [type |-> "logout"] \in AgentMessages /\ [type |-> "logout"].type # "login"
    BY PlainToAgent
  <2> QED BY <1>6, <2>1 DEF GoesOn
<1>8. ASSUME NEW a \in Agents, Took(a), Head(inbox[a]).type # "login" PROVE Calls
  BY <1>8
<1>9. ASSUME NEW m \in GateMessages, ToGate(m) PROVE Passes
  BY <1>9
<1>10. ASSUME NEW t, t \notin {"logout", "agentexit"}, Next1(toGate, t), toGate' = Tail(toGate) PROVE Passes
  BY <1>10
<1>11. CASE Accept
  <2> DEFINE m == [type |-> accept', subid |-> online]
  <2>1. ToGate(m) /\ accept' \in {"kick", "login"} /\ UNCHANGED <<tableVars, clientVars, agentVars, inbox>>
    BY <1>11 DEF Accept
  <2>2. m \in GateMessages
    <3>1. online \in 0..MaxLogins
      BY <1>0, Bounds DEF TypeOK
    <3> QED BY <2>1, <3>1 DEF GateMessages
  <2> HIDE DEF m
  <2> QED BY <1>3, <1>5, <1>9, <2>1, <2>2
<1>12. CASE LogindLogout
  <2> DEFINE m == [Head(toLogin) EXCEPT !.type = "logoutDone"]
  <2>1. /\ Next1(toLogin, "logout") /\ toLogin' = Tail(toLogin) /\ ToGate(m)
        /\ UNCHANGED <<tableVars, clientVars, agentVars, inbox>>
    BY <1>12 DEF LogindLogout
  <2>2. m \in GateMessages
    BY <1>0, <2>1, FromLoginFacts, LogoutRelayed
  <2> HIDE DEF m
  <2> QED BY <1>3, <1>5, <1>9, <2>1, <2>2
<1>13. CASE KickAnswered \/ LoginAnswered
  <2>1. /\ UNCHANGED <<tableVars, clientVars, agentVars, inbox>>
        /\ UNCHANGED toGate \/ ToGate([type |-> "login", subid |-> 0])
    BY <1>13 DEF KickAnswered, LoginAnswered
  <2>2. [type |-> "login", subid |-> 0] \in GateMessages
    BY <1>0, Bounds DEF GateMessages
  <2> QED BY <1>3, <1>5, <1>9, <2>1, <2>2
<1>14. CASE GateLogin
  <2>1. /\ Next1(toGate, "login") /\ toGate' = Tail(toGate) /\ UNCHANGED <<clientVars, agentVars, inbox>>
        /\ LoggedNew \/ UNCHANGED tableVars
    BY <1>0, <1>14, GateLoginFacts DEF GateLogin
  <2>2. Passes
    BY <1>10, <2>1
  <2>3. CASE LoggedNew
    <3>1. GateStill
      BY <1>2, <2>2
    <3> QED BY <1>0, <2>1, <2>3, <3>1, LockoutLoggedNew DEF agentVars
  <2> QED BY <1>3, <1>5, <2>1, <2>2, <2>3
<1>15. CASE GateKick
  <2>1. /\ Next1(toGate, "kick") /\ toGate' = Tail(toGate) /\ UNCHANGED <<agentVars, auth>>
        /\ (users # 0 /\ \E s : LogoutHere(s)) \/ UNCHANGED tableVars
    BY <1>0, <1>15, LogoutHereFrame DEF GateKick
  <2>2. CASE users # 0 /\ \E s : LogoutHere(s)
    BY <1>0, <2>1, <2>2, LockoutShut DEF agentVars
  <2>3. Calls /\ Passes
    BY <1>0, <1>7, <1>10, <1>15, <2>1, GateKickGoesOn
  <2> QED BY <1>3, <1>5, <2>1, <2>2, <2>3
<1>16. CASE GateLogoutDone
  <2> DEFINE m == [type |-> "logoutDone", caller |-> Head(toGate).caller, ok |-> TRUE]
  <2>1. /\ Next1(toGate, "logoutDone") /\ toGate' = Tail(toGate)
        /\ UNCHANGED <<users, obj, agentVars, clientVars>>
    BY <1>16 DEF GateLogoutDone
  <2>2. Head(toGate).caller \in Callers /\ (GoesOn \/ Put(Head(toGate).agent, m))
    BY <1>0, <1>16, GateLogoutDoneCases
  <2>3. m \in AgentMessages /\ m.type # "login"
    BY <2>2, LogoutDoneToAgent
  <2> HIDE DEF m
  <2>4. Calls /\ Passes
    BY <1>6, <1>7, <1>10, <2>1, <2>2, <2>3
  <2> QED BY <1>3, <1>5, <2>1, <2>4
<1>17. CASE GateLogout
  <2> DEFINE m == [type |-> "logoutDone", caller |-> Head(toGate).caller, ok |-> FALSE]
  <2>1. /\ Next1(toGate, "logout") /\ toGate' = Tail(toGate) /\ UNCHANGED <<agentVars, auth>>
        /\ \/ UNCHANGED tableVars /\ users # 0 /\ obj[users].subid # Head(toGate).subid
           \/ UNCHANGED tableVars /\ users = 0
           \/ users # 0 /\ \E s : LogoutHere(s)
    BY <1>0, <1>17, LogoutHereFrame DEF GateLogout
  <2>2. Calls
    <3>1. /\ Head(toGate).caller \in Callers
          /\ Put(Head(toGate).agent, m) \/ UNCHANGED inbox
      BY <1>0, <1>17, GateLogoutCases
    <3>2. m \in AgentMessages /\ m.type # "login"
      BY <3>1, LogoutDoneToAgent
    <3> HIDE DEF m
    <3> QED BY <1>6, <3>1, <3>2
  <2>3. CASE users # 0 /\ \E s : LogoutHere(s)
    BY <1>0, <2>1, <2>3, LockoutShut DEF agentVars
  <2>4. CASE UNCHANGED tableVars /\ (users # 0 => obj[users].subid # Head(toGate).subid)
    <3>1. UNCHANGED <<users, obj, agent, auth, login, logout>>
      BY <1>3, <2>1, <2>4
    <3> QED BY <1>0, <1>1, <2>1, <2>2, <2>4, <3>1, LockoutRefused
  <2> QED BY <2>1, <2>3, <2>4
<1>18. CASE GateKicked
  <2>1. /\ Next1(toGate, "kicked") /\ toGate' = Tail(toGate)
        /\ UNCHANGED <<tableVars, clientVars, agentVars, inbox>>
    BY <1>18 DEF GateKicked
  <2>2. Passes
    BY <1>10, <2>1
  <2> QED BY <1>3, <1>5, <2>1, <2>2
<1>19. CASE AgentExit
  BY <1>0, <1>19, LockoutExit
<1>20. ASSUME NEW f \in Fds, login[f] = "none", \A g \in Fds : g # f => auth'[g] = auth[g],
              UNCHANGED <<users, obj, agentVars>>, Calls, Passes
       PROVE  Goal
  <2>1. LoginsStill
    BY <1>20 DEF LoginsStill, agentVars
  <2> QED BY <1>0, <1>1, <1>2, <1>4, <1>20, <2>1, LockoutStill DEF agentVars
<1>21. CASE LoginReply
  <2> DEFINE f == Head(toGate).fd
  <2>1. /\ Head(toGate) \in Range(toGate) /\ Head(toGate).type = "loggedIn" /\ Head(toGate) \in GateMessages
        /\ f \in Fds /\ \A g \in Fds : g # f => auth'[g] = auth[g]
        /\ UNCHANGED <<tableVars, agentVars, inbox>>
    BY <1>0, <1>21, LoginReplyFacts
  <2>2. login[f] = "none"
    <3>1. Head(toGate) \in LoginAtGate(f)
      BY <2>1, GateRead
    <3>2. Count(toGate, LoginAtGate(f)) # 0
      BY <1>0, <2>1, <3>1, CountsAreRanges
    <3>3. Count(toGate, LoginAtGate(f)) > 0
      BY <1>0, <3>2, CountsAreNat
    <3> QED BY <1>0, <2>1, <3>3, NoLogin
  <2>3. Passes
    BY <1>10, <1>21 DEF LoginReply
  <2> HIDE DEF f
  <2> QED BY <1>3, <1>20, <2>1, <2>2, <2>3
<1>22. ASSUME NEW f \in Fds, NEW s \in Subids, NEW index \in {"new", "expired"}, Handshake(f, s, index)
       PROVE  Goal
  <2> DEFINE o == username_map[s]
             a == obj[o].agent
  <2>1. /\ s \in 1..internal_id /\ auth[f].at = "none" /\ UNCHANGED <<users, agentVars, toGate>>
        /\ \/ Refuse(f) /\ UNCHANGED <<obj, inbox>>
           \/ o \in 1..internal_id /\ Await(f, "getAgent", s, o, None) /\ UNCHANGED <<obj, inbox>>
           \/ o \in 1..internal_id /\ a \in Agents /\ CallLogin(f, s, o, a)
           \/ a \in Agents /\ Put(a, [type |-> "reconnect"]) /\ Establish(f, s) /\ UNCHANGED obj
    BY <1>0, <1>22, HandshakeCases
  <2> HIDE DEF o
  <2>2. login[f] = "none"
    BY <1>0, <2>1, NoLogin
  <2>3. CASE Refuse(f) /\ UNCHANGED <<obj, inbox>>
    BY <1>0, <1>20, <2>1, <2>2, <2>3, RefuseFacts
  <2>4. CASE o \in 1..internal_id /\ Await(f, "getAgent", s, o, None) /\ UNCHANGED <<obj, inbox>>
    <3>1. s \in 0..internal_id /\ o \in 0..internal_id
      BY <1>0, <2>1, <2>4, Bounds
    <3>2. \A g \in Fds : g # f => auth'[g] = auth[g]
      BY <1>0, <2>4, <3>1, AwaitFacts
    <3> QED BY <1>20, <2>1, <2>2, <2>4, <3>2
  <2>5. CASE o \in 1..internal_id /\ a \in Agents /\ CallLogin(f, s, o, a)
    <3>1. Called(f, s, o, a)
      BY <1>0, <2>1, <2>5, CallLoginFacts
    <3>2. PICK b \in Agents : b = a
      BY <2>5
    <3>3. Called(f, s, o, b) /\ obj[o].agent = b
      BY <3>1, <3>2
    <3> QED BY <1>0, <2>1, <2>2, <2>5, <3>3, LockoutCalled DEF agentVars
  <2>6. CASE a \in Agents /\ Put(a, [type |-> "reconnect"]) /\ Establish(f, s) /\ UNCHANGED obj
    <3>1. Calls
      <4>1. [type |-> "reconnect"] \in AgentMessages /\ [type |-> "reconnect"].type # "login"
        BY PlainToAgent
      <4> QED BY <1>6, <2>6, <4>1
    <3>2. \A g \in Fds : g # f => auth'[g] = auth[g]
      BY <1>0, <2>1, <2>6, EstablishFacts
    <3> QED BY <1>20, <2>1, <2>2, <2>6, <3>1, <3>2
  <2> QED BY <2>1, <2>3, <2>4, <2>5, <2>6
<1>23. ASSUME NEW f \in Fds, NEW a \in Agents, GotAgent(f, a) PROVE Goal
  <2>1. /\ auth[f].obj \in 1..internal_id /\ agent[a].life = "unborn" /\ auth[f].at = "getAgent"
        /\ Called(f, auth[f].subid, auth[f].obj, a)
        /\ agent'[a].life = "alive" /\ \A b \in Agents : b # a => agent'[b] = agent[b]
        /\ UNCHANGED <<users, login, logout, toGate>>
    BY <1>0, <1>23, GotAgentFacts
  <2>2. login[f] = "none"
    BY <1>0, <2>1, NoLogin
  <2> QED BY <1>0, <2>1, <2>2, LockoutCalled
<1>24. ASSUME NEW f \in Fds, Disconnect(f) PROVE Goal
  <2>1. UNCHANGED <<tableVars, auth, agentVars, toGate>>
    BY <1>24 DEF Disconnect
  <2>2. Calls
    <3>1. UNCHANGED inbox \/ \E a \in Agents \cup {None} : Put(a, [type |-> "afk"])
      BY <1>0, <1>24, TypeDisconnect
    <3>2. [type |-> "afk"] \in AgentMessages /\ [type |-> "afk"].type # "login"
      BY PlainToAgent
    <3> QED BY <1>6, <3>1, <3>2
  <2> QED BY <1>3, <1>5, <2>1, <2>2
<1>25. ASSUME NEW f \in Fds, NEW a \in Agents, RequestLogout(f, a) PROVE Goal
  <2>1. /\ UNCHANGED <<tableVars, clientVars, agent, login, toGate>>
        /\ logout' = [logout EXCEPT ![ByClient] = [at |-> "asked", agent |-> a]]
    BY <1>25 DEF RequestLogout
  <2>2. Calls
    <3>1. Put(a, [type |-> "request"])
      BY <1>0, <1>25, TypeRequestLogout
    <3>2. [type |-> "request"] \in AgentMessages /\ [type |-> "request"].type # "login"
      BY PlainToAgent
    <3> QED BY <1>6, <3>1, <3>2
  <2>3. ExitsStill
    BY <1>0, <2>1, CallerFacts DEF ExitsStill, TypeOK
  <2> HIDE DEF Calls, Goal
  <2> QED BY <1>0, <1>1, <1>2, <1>3, <1>4, <2>1, <2>2, <2>3, LockoutStill DEF Goal
<1>26. ASSUME NEW a \in Agents, LoginStart(a) PROVE Goal
  <2>1. Started(a) /\ UNCHANGED <<tableVars, clientVars, logout, toGate>>
    BY <1>0, <1>26, LoginStartFacts DEF LoginStart
  <2> QED BY <1>0, <1>3, <2>1, LockoutStarted
<1>27. ASSUME NEW f \in Fds, LoginMarked(f) PROVE Goal
  <2>1. Logged(f, "db") /\ UNCHANGED <<tableVars, clientVars, logout, toGate, inbox>>
    BY <1>0, <1>27, LoginMarkedFacts DEF LoginMarked
  <2> QED BY <1>0, <1>3, <2>1, LockoutMarked
<1>28. ASSUME NEW f \in Fds, LoginEnd(f) \/ LoginForbidden(f) PROVE Goal
  <2>1. PICK ok \in BOOLEAN : /\ UNCHANGED <<tableVars, clientVars, inbox>> /\ login[f] = "db"
                              /\ ToGate([type |-> "loggedIn", fd |-> f, ok |-> ok])
    BY <1>28 DEF LoginEnd, LoginForbidden
  <2>2. Logged(f, "none")
    BY <1>0, <1>28, LoginEndFacts
  <2>3. Passes
    <3> DEFINE m == [type |-> "loggedIn", fd |-> f, ok |-> ok]
    <3>1. m \in GateMessages
      BY LoggedInToGate
    <3> HIDE DEF m
    <3> QED BY <1>9, <2>1, <3>1 DEF m
  <2>4. AgentsStill
    BY <2>2 DEF AgentsStill, Logged
  <2>5. LoginsStill
    BY <1>3, <2>1, <2>2 DEF LoginsStill, Logged
  <2>6. ExitsStill
    <3>1. \A b \in Agents : logout'[Exit(b)] = logout[Exit(b)]
      BY <1>0, <1>28, CallerFacts DEF LoginEnd, LoginForbidden, TypeOK
    <3> QED BY <3>1 DEF ExitsStill
  <2> HIDE DEF Passes
  <2> QED BY <1>0, <1>1, <1>2, <1>3, <1>4, <2>1, <2>3, <2>4, <2>5, <2>6, LockoutStill
<1>29. ASSUME NEW a \in Agents, NEW t \in {"reconnect", "afk"}, NEW v \in {"on", "off"}, SetOnline(a, t, v)
       PROVE  Goal
  <2>1. /\ Took(a) /\ Head(inbox[a]).type = t /\ UNCHANGED <<tableVars, clientVars, login, logout, toGate>>
        /\ \A b \in Agents : /\ agent'[b].life = agent[b].life /\ agent'[b].subid = agent[b].subid
                             /\ agent'[b].beat = agent[b].beat
    BY <1>0, <1>29, SetOnlineFacts
  <2>2. AgentsStill
    BY <2>1 DEF AgentsStill
  <2>3. Calls
    BY <1>8, <2>1
  <2> HIDE DEF Calls
  <2> QED BY <1>0, <1>1, <1>2, <1>3, <1>4, <2>1, <2>2, <2>3, LockoutStill
<1>30. ASSUME NEW a \in Agents, Reconnect(a) \/ Afk(a) PROVE Goal
  BY <1>29, <1>30 DEF Reconnect, Afk
<1>31. ASSUME NEW c \in Callers, NEW a \in Agents, NEW beat, Completes(c, a), Leaves(a, beat), Calls,
              UNCHANGED <<tableVars, clientVars, login>>,
              agent[a].beat => beat, \A b \in Agents : c # Exit(b)
       PROVE  Goal
  <2>1. \A b \in Agents : agent'[b].life = agent[b].life /\ agent'[b].subid = agent[b].subid
    BY <1>31, LeavesLife
  <2>2. \A b \in Agents : c # Exit(b) => (agent[b].beat => agent'[b].beat)
    BY <1>31 DEF Leaves
  <2>3. UNCHANGED <<users, obj, auth, login>>
    BY <1>3, <1>31
  <2> HIDE DEF Goal, Calls
  <2>4. QueuesStill
    BY <1>1, <1>31
  <2> QED BY <1>0, <1>31, <2>1, <2>2, <2>3, <2>4, LockoutCompletes DEF Goal
<1>32. ASSUME NEW a \in Agents, Logout(a) PROVE Goal
  <2>1. /\ Took(a) /\ Head(inbox[a]).type = "logout" /\ Completes(Kick, a) /\ Leaves(a, agent[a].beat)
        /\ UNCHANGED <<tableVars, clientVars, login>>
    BY <1>0, <1>32, LogoutFacts
  <2>2. Calls
    BY <1>8, <2>1
  <2> QED BY <1>31, <2>1, <2>2, CallerFacts
<1>33. ASSUME NEW a \in Agents, ClientLogout(a) PROVE Goal
  <2>1. /\ Took(a) /\ Head(inbox[a]).type = "request" /\ Completes(ByClient, a) /\ Leaves(a, agent[a].beat)
        /\ UNCHANGED <<tableVars, clientVars, login>>
    BY <1>0, <1>33, ClientLogoutFacts
  <2>2. Calls
    BY <1>8, <2>1
  <2> QED BY <1>31, <2>1, <2>2, CallerFacts
<1>34. ASSUME NEW f \in Fds, ForbiddenLogout(f) PROVE Goal
  <2>1. PICK a \in Agents : /\ Completes(Forbid(f), a) /\ Leaves(a, agent[a].beat)
                            /\ UNCHANGED <<tableVars, clientVars, login, inbox>>
    BY <1>0, <1>34, ForbiddenLogoutFacts
  <2> QED BY <1>31, <2>1, CallerFacts
<1>35. ASSUME NEW a \in Agents, HeartbeatOut(a) PROVE Goal
  <2>1. /\ Completes(Exit(a), a) /\ Goes(Exit(a), a) /\ Leaves(a, FALSE)
        /\ UNCHANGED <<tableVars, clientVars, login, inbox>>
    BY <1>0, <1>35, HeartbeatOutFacts
  <2>2. \A b \in Agents : Exit(b) = Exit(a) => b = a
    BY CallerFacts
  <2>3. Exit(a) \in Callers /\ QueuesStill /\ UNCHANGED <<users, obj, auth, login>>
    BY <1>1, <1>3, <2>1, CallerFacts
  <2>4. /\ \A b \in Agents : agent'[b].life = agent[b].life /\ agent'[b].subid = agent[b].subid
        /\ \A b \in Agents : Exit(a) # Exit(b) => (agent[b].beat => agent'[b].beat)
    BY <2>1, LeavesLife DEF Leaves
  <2>5. \A b \in Agents : Exit(a) = Exit(b) => b = a /\ UNCHANGED inbox /\ Goes(Exit(a), a)
    BY <2>1, <2>2
  <2> QED BY <1>0, <2>1, <2>3, <2>4, <2>5, LockoutCompletes
<1>36. ASSUME NEW c \in Callers, WentOffline(c) PROVE Goal
  <2>1. PICK a \in Agents : /\ a = logout[c].agent /\ logout[c].at = "offline" /\ Completes(c, a) /\ Goes(c, a)
                            /\ UNCHANGED <<tableVars, clientVars, agent, login, inbox>>
    BY <1>0, <1>36, WentOfflineFacts DEF Goes
  <2>2. \A b \in Agents : c = Exit(b) => b = a
    <3>1. \A b \in Agents : logout[Exit(b)].agent \in {None, b}
      BY <1>0 DEF HandlersInv
    <3> QED BY <2>1, <3>1, SessionAssumption
  <2>3. QueuesStill /\ UNCHANGED <<users, obj, auth, login>>
    BY <1>1, <1>3, <2>1
  <2> QED BY <1>0, <2>1, <2>2, <2>3, LockoutCompletes
<1>37. ASSUME NEW a \in Agents, LogoutDone(a) PROVE Goal
  <2> DEFINE m == Head(inbox[a])
  <2>1. /\ Took(a) /\ m \in AgentMessages /\ m.type = "logoutDone" /\ m.caller \in Callers /\ m \in Range(inbox[a])
        /\ \A d \in Callers : d # m.caller => logout'[d] = logout[d]
        /\ UNCHANGED toGate \/ ToGate([type |-> "kicked"])
        /\ UNCHANGED <<tableVars, clientVars, agent, login>>
    BY <1>0, <1>37, LogoutDoneFacts DEF Ends
  <2>2. logout[m.caller].at = "gate"
    <3>1. m \in LogoutAtAgent(m.caller) /\ agent[a].life # "dead"
      BY <1>0, <2>1, AgentRead, TookFacts DEF Alive
    <3> QED BY <1>0, <2>1, <3>1, GateAwaited
  <2>3. ExitsStill
    BY <2>1, <2>2 DEF ExitsStill, Callers
  <2>4. Passes
    <3>1. [type |-> "kicked"] \in GateMessages
      BY DEF GateMessages
    <3> QED BY <1>9, <2>1, <3>1
  <2>5. Calls
    BY <1>8, <2>1
  <2> HIDE DEF Calls, Passes, m
  <2> QED BY <1>0, <1>1, <1>2, <1>3, <1>4, <2>1, <2>3, <2>4, <2>5, LockoutStill
<1>38. ASSUME NEW a \in Agents, AgentDies(a) PROVE Goal
  BY <1>0, <1>38, AgentDiesFacts, LockoutDies
<1> HIDE DEF Goal
<1> QED BY <1>11, <1>12, <1>13, <1>14, <1>15, <1>16, <1>17, <1>18, <1>19, <1>21, <1>22, <1>23, <1>24, <1>25,
           <1>26, <1>27, <1>28, <1>30, <1>32, <1>33, <1>34, <1>35, <1>36, <1>37, <1>38 DEF Step

----------------------------------------------------------------------------
(* The invariant, and what follows from it *)

LEMMA SessionInitially ==
    ASSUME Init
    PROVE  SessionInv
<1> USE SessionAssumption
<1>1. /\ accept = "idle" /\ online = 0 /\ internal_id = 0 /\ users = 0 /\ kicked = 0
      /\ toLogin = <<>> /\ toGate = <<>> /\ user_online = {}
      /\ players = None /\ onlineNum = 0
  BY DEF Init
<1>2. /\ \A s \in Subids : obj[s] = NoObject /\ username_map[s] = 0
      /\ \A f \in Fds : sock[f] = "none" /\ auth[f] = NoAuth /\ login[f] = "none"
      /\ \A a \in Agents : agent[a] = Unborn /\ inbox[a] = <<>>
      /\ \A c \in Callers : logout[c] = NoLogout
  BY DEF Init
<1>3. /\ NoObject.agent = None /\ NoAuth.at = "none" /\ NoAuth.agent = None /\ Unborn.life = "unborn"
      /\ NoLogout.at = "none" /\ NoLogout.agent = None
  BY DEF NoObject, NoAuth, Unborn, NoLogout
<1>4. \A S : Count(<<>>, S) = 0
  BY CountEmpty
<1>5. TypeOK
  BY <1>1 DEF Init, TypeOK, NoObject, NoAuth, NoLogout, Unborn, Subids
<1>6. TablesInv
  BY <1>1, <1>2, <1>3 DEF TablesInv
<1>7. HandlersInv
  <2>1. \A a \in Agents : Range(inbox[a]) = {}
    BY <1>2, EmptyRange
  <2>2. \A a \in Agents : Exit(a) \in Callers
    BY DEF Callers
  <2> QED BY <1>2, <1>3, <2>1, <2>2 DEF HandlersInv
<1>8. AcceptInv
  <2>1. Kick \in Callers
    BY DEF Callers
  <2>2. AcceptPlace
    BY <1>1, <1>2, <1>3, <1>4, <2>1 DEF AcceptPlace, AcceptNowhere, LoginHas, GateHas, KickAsks, KickRuns
  <2> QED BY <1>5, <2>2, AcceptPlaceNow
<1>9. AuthInv
  BY <1>1, <1>2, <1>3, <1>4 DEF AuthInv
<1>10. LogoutInv
  <2>1. AwaitsInv
    BY <1>1, <1>2, <1>3, <1>4 DEF AwaitsInv, LogoutTokens
  <2>2. RequestInv
    BY <1>2, <1>4 DEF RequestInv
  <2>3. \A f \in Fds : ForbidFine(f)
    BY <1>2, <1>3 DEF ForbidFine, Callers
  <2> QED BY <2>1, <2>2, <2>3, LogoutParts
<1>11. RecordsInv
  BY <1>1, EmptyRange DEF RecordsInv
<1>12. CountNeverShort /\ LockoutInv
  BY <1>1 DEF CountNeverShort, LockoutInv
<1> QED BY <1>5, <1>6, <1>7, <1>8, <1>9, <1>10, <1>11, <1>12 DEF SessionInv

LEMMA SessionStutters ==
    ASSUME SessionInv,
           UNCHANGED <<loginVars, tableVars, clientVars, agentVars, mgrVars, toLogin, toGate, inbox>>
    PROVE  SessionInv'
<1> USE DEF loginVars, tableVars, clientVars, agentVars, mgrVars
<1>1. TypeOK'
  BY DEF SessionInv, TypeOK, Alive
<1>2. TablesInv' /\ HandlersInv'
  BY DEF SessionInv, TablesInv, HandlersInv, Alive
<1>3. AcceptInv' /\ AuthInv'
  BY DEF SessionInv, AcceptInv, AuthInv, KickAsks
<1>4. LogoutInv'
  BY DEF SessionInv, LogoutInv, LogoutTokens
<1>5. RecordsInv' /\ CountNeverShort'
  BY DEF SessionInv, RecordsInv, CountNeverShort
<1>6. LockoutInv'
  BY DEF SessionInv, LockoutInv, Alive, WillBeat
<1> QED BY <1>1, <1>2, <1>3, <1>4, <1>5, <1>6 DEF SessionInv

LEMMA SessionInductive ==
    SessionInv /\ [Next]_vars => SessionInv'
<1>1. ASSUME SessionInv, Step PROVE SessionInv'
  BY <1>1, TypeStep, TablesStep, HandlersStep, AcceptStep, AuthStep, LogoutStep, RecordsStep, CountStep,
     LockoutStep DEF SessionInv
<1> QED BY <1>1, NextIsStep, SessionStutters

\* Every step of the services, in whatever order they read their queues, keeps the inductive
\* invariant: where each call and its answer are, who owns which agent, and which session the
\* records name.
THEOREM SessionInvariance == Spec => []SessionInv
<1>1. Init => SessionInv
  BY SessionInitially
<1> QED BY <1>1, SessionInductive, PTL DEF Spec

\* The kick of logind.lua finds in kick_handler (gated.lua) the session it names, and
\* onlineNum (agent_mgr.lua) never counts too few.
THEOREM RecordsAgreement == Spec => []RecordsAgree
<1>1. SessionInv => RecordsAgree
  BY DEF SessionInv, RecordsAgree, RecordsInv, KickFindsSession
<1> QED BY <1>1, SessionInvariance, PTL

\* In a set where one thing at most has a property, the things that have it are one or none.
LEMMA OneOrNone ==
    ASSUME NEW S, NEW P \in SUBSET S, \A x, y \in P : x = y
    PROVE  Cardinality(P) = IF P = {} THEN 0 ELSE 1
<1>1. CASE P = {}
  BY <1>1, FS_EmptySet
<1>2. CASE P # {}
  <2>1. PICK x \in P : TRUE
    BY <1>2
  <2>2. P = {x}
    BY <2>1
  <2> QED BY <1>2, <2>2, FS_Singleton
<1> QED BY <1>1, <1>2

\* Every call of accept (loginserver.lua), do_auth (msgserver.lua) and _logoutComplete
\* (msgagent.lua) has exactly one answer on its way, also when the agent that was to give it
\* exits.
THEOREM AnswersAreUnique == Spec => []OneAnswer
<1>1. ASSUME SessionInv PROVE OneAnswer
  <2>0. TypeOK /\ HandlersInv /\ AcceptInv /\ AuthInv /\ LogoutInv
    BY <1>1 DEF SessionInv
  <2>1. AcceptTokens = IF accept = "idle" THEN 0 ELSE 1
    <3> DEFINE P == {a \in Agents : Count(inbox[a], AcceptAtAgent) > 0}
    <3>1. Cardinality(P) = IF P = {} THEN 0 ELSE 1
      BY <2>0, OneOrNone DEF AcceptInv, KickAsks
    <3>2. P # {} <=> \E a \in Agents : KickAsks(a) > 0
      BY DEF KickAsks
    <3>3. AcceptTokens = Count(toLogin, AcceptAtLogin) + Count(toGate, AcceptAtGate) + Cardinality(P)
                             + (IF logout[Kick].at # "none" THEN 1 ELSE 0)
      BY DEF AcceptTokens
    <3> HIDE DEF P
    <3> QED BY <2>0, <3>1, <3>2, <3>3 DEF AcceptInv
  <2>2. ASSUME NEW f \in Fds PROVE LoginTokens(f) = IF auth[f].at = "login" THEN 1 ELSE 0
    <3> DEFINE P == {a \in Agents : Count(inbox[a], LoginAtAgent(f)) > 0}
               b == auth[f].agent
    <3>1. ASSUME NEW a \in P PROVE auth[f].at = "login" /\ a = b
      <4>1. Count(inbox[a], LoginAtAgent(f)) # 0
        OBVIOUS
      <4>2. PICK m \in Range(inbox[a]) : m \in LoginAtAgent(f)
        BY <2>0, <4>1, CountsAreRanges
      <4>3. m.type = "login" /\ m.fd = f
        BY <4>2 DEF LoginAtAgent
      <4> QED BY <2>0, <4>2, <4>3 DEF HandlersInv
    <3>2. Cardinality(P) = IF P = {} THEN 0 ELSE 1
      BY <3>1, OneOrNone
    <3>3. LoginTokens(f) = Count(toGate, LoginAtGate(f)) + Cardinality(P) + (IF login[f] # "none" THEN 1 ELSE 0)
      BY DEF LoginTokens
    <3>4. CASE auth[f].at = "login"
      <4>1. b \in Agents
        <5>1. b # None /\ auth[f].agent \in Agents \cup {None}
          BY <2>0, <3>4 DEF HandlersInv, TypeOK
        <5> QED BY <5>1
      <4>2. /\ Count(toGate, LoginAtGate(f)) + Count(inbox[b], LoginAtAgent(f))
                    + (IF login[f] # "none" THEN 1 ELSE 0) = 1
            /\ Count(toGate, LoginAtGate(f)) \in Nat /\ Count(inbox[b], LoginAtAgent(f)) \in Nat
        BY <2>0, <3>4, <4>1, CountsAreNat DEF AuthInv
      <4>3. P = {} <=> Count(inbox[b], LoginAtAgent(f)) = 0
        BY <3>1, <4>1, <4>2
      <4> HIDE DEF P, b
      <4> QED BY <3>2, <3>3, <3>4, <4>2, <4>3
    <3>5. CASE auth[f].at # "login"
      <4>1. P = {}
        BY <3>1, <3>5
      <4>2. Count(toGate, LoginAtGate(f)) = 0 /\ login[f] = "none"
        BY <2>0, <3>5 DEF AuthInv, HandlersInv
      <4> HIDE DEF P
      <4> QED BY <3>2, <3>3, <3>5, <4>1, <4>2
    <3> QED BY <3>4, <3>5
  <2>3. ASSUME NEW c \in Callers, logout[c].at = "gate" PROVE LogoutTokens(c, logout[c].agent) = 1
    <3>1. logout[c].agent \in Agents /\ agent[logout[c].agent].life # "dead"
      BY <2>0, <2>3, RunsIn DEF Alive
    <3> QED BY <2>0, <2>3, <3>1 DEF LogoutInv
  <2> QED BY <2>1, <2>2, <2>3 DEF OneAnswer
<1> QED BY <1>1, SessionInvariance, PTL

\* When the gate (gated.lua) refuses every login of a user who is not online, the agent in
\* the way is alive, its heartbeat (msgagent.lua) runs, and the subid it has will pass
\* logout_handler.
THEOREM LockoutsEnd == Spec => []LockoutEnds
<1>1. ASSUME SessionInv PROVE LockoutEnds
  <2>0. TypeOK /\ TablesInv /\ LockoutInv
    BY <1>1 DEF SessionInv
  <2>1. SUFFICES ASSUME Quiet, users # 0, ~obj[users].islogout
                 PROVE  LET a == obj[users].agent IN
                        Alive(a) /\ agent[a].beat /\ agent[a].subid = obj[users].subid
    BY DEF LockoutEnds
  <2>2. PICK a, s : a = obj[users].agent /\ s = obj[users].subid
    OBVIOUS
  <2>3. users \in Subids /\ a \in Agents \cup {None}
    BY <2>0, <2>1, <2>2, Bounds DEF TypeOK
  <2>4. a # None /\ Exited(a) /\ (Alive(a) => Ready(a, s))
    BY <2>0, <2>1, <2>2, LockoutNow
  <2>5. /\ toGate = <<>> /\ inbox[a] = <<>> /\ Range(toGate) = {} /\ Range(inbox[a]) = {}
        /\ logout[Exit(a)].at = "none" /\ \A f \in Fds : login[f] = "none"
    BY <2>1, <2>3, <2>4, EmptyRange DEF Quiet, Callers
  <2>6. Alive(a)
    <3>1. agent[a].life # "dead"
      BY <2>4, <2>5 DEF Exited
    <3>2. agent[a].life # "unborn"
      BY <2>0, <2>2, <2>3, <2>4 DEF TablesInv
    <3> QED BY <2>0, <2>3, <2>4, <3>1, <3>2 DEF TypeOK, Alive
  <2>7. WillHave(inbox[a], agent[a].subid, s) /\ WillBeat(a, s)
    BY <2>4, <2>6 DEF Ready
  <2>8. ~LoginAsks(inbox[a])
    BY <2>5 DEF LoginAsks
  <2>9. agent[a].subid = s
    BY <2>7, <2>8 DEF WillHave
  <2>10. agent[a].beat
    BY <2>5, <2>7, <2>8 DEF WillBeat
  <2> QED BY <2>2, <2>6, <2>9, <2>10
<1> QED BY <1>1, SessionInvariance, PTL
=============================================================================
