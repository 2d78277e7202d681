-------------------------- MODULE Settlement_proofs --------------------------
(***************************************************************************)
(* The settlement for any stakes, caps, doubles, balances and number of    *)
(* bean changes.                                                           *)
(***************************************************************************)
EXTENDS Settlement, TLAPS

\* What the verdict of a player whose agent has applied it was.
Done(p) == IF p \in inRoom THEN 0 ELSE change[p]

\* The verdict adds up to nothing or to the bean the system ate.
Verdict ==
    /\ ~over => inRoom = Seats /\ change = [p \in Seats |-> 0]
    /\ over => Total(change) \in {-1, 0} /\ \A p \in Seats : gold[p] + change[p] >= 0

\* Without spending the room's copies, and all news of them, stay below the balances.
Fresh ==
    ~spent =>
        /\ \A p \in inRoom : gold[p] <= balance[p]
        /\ ~over => /\ \A s \in saving : s.num <= balance[s.who]
                    /\ \A p \in Seats : \A i \in 1 .. Len(syncs[p]) : syncs[p][i] <= balance[p]

\* Losers who cannot pay only add to the beans of all; without spending all can pay.
Books ==
    /\ Total(balance) >= ledger + Done(1) + Done(2) + Done(3)
    /\ ~spent => Total(balance) = ledger + Done(1) + Done(2) + Done(3)

\* No news waits for a room that is gone.
Quiet == over => \A p \in Seats : syncs[p] = <<>>

IndInv == TypeOK /\ Verdict /\ Quiet /\ Fresh /\ Books

-----------------------------------------------------------------------------
LEMMA Products ==
    /\ \A a, b \in Nat \ {0} : a * b \in Nat \ {0}
    /\ \A a, b \in Nat : a * b \in Nat
  OBVIOUS

LEMMA SeatsAre ==
    /\ Seats = {1, 2, 3} /\ Landlord = 1 /\ Farmers = {2, 3}
    /\ 1 \in Seats /\ 2 \in Seats /\ 3 \in Seats
  BY DEF Seats, Landlord, Farmers

\* The farmers' multiples add up to the landlord's.
LEMMA Multiples ==
    ASSUME TypeOK
    PROVE  /\ Multiple(2) \in Nat \ {0} /\ Multiple(3) \in Nat \ {0}
           /\ Multiple(1) = Multiple(2) + Multiple(3)
  <1> DEFINE c == public * Factor(1)
  <1>1. \A p \in Seats : Factor(p) \in Nat \ {0}
    BY Products DEF TypeOK, Factor
  <1>2. c \in Nat \ {0}
    BY <1>1, SeatsAre, Products DEF TypeOK
  <1>3. /\ Multiple(1) = c * (Factor(2) + Factor(3))
        /\ Multiple(2) = c * Factor(2) /\ Multiple(3) = c * Factor(3)
    BY DEF Multiple, Landlord
  <1> HIDE DEF c
  <1>4. \A a, b, d \in Nat : d * (a + b) = d * a + d * b
    OBVIOUS
  <1>5. QED
    BY <1>1, <1>2, <1>3, <1>4, SeatsAre, Products

\* Two shares of g beans, each rounded down, are no more than g.
LEMMA Shares ==
    ASSUME NEW g \in Nat, NEW m2 \in Nat \ {0}, NEW m3 \in Nat \ {0},
           NEW k2 \in Nat, NEW k3 \in Nat,
           k2 * (m2 + m3) <= g * m2, k3 * (m2 + m3) <= g * m3
    PROVE  k2 + k3 <= g
  <1> DEFINE m == m2 + m3
  <1>1. m \in Nat \ {0} /\ g * m = g * m2 + g * m3
    OBVIOUS
  <1>2. (k2 + k3) * m = k2 * m + k3 * m
    OBVIOUS
  <1>3. (k2 + k3) * m <= g * m
    BY <1>1, <1>2
  <1> HIDE DEF m
  <1>4. \A a, b \in Nat, d \in Nat \ {0} : a * d <= b * d => a <= b
    OBVIOUS
  <1>5. k2 + k3 \in Nat
    OBVIOUS
  <1>6. QED
    BY <1>1, <1>3, <1>4, <1>5

\* A stake is at most what the farmer owns and the landlord's share of it.
LEMMA Stakes ==
    ASSUME TypeOK, NEW f \in Farmers, NEW k \in Nat
    PROVE  Stake(f, k) \in Nat /\ Stake(f, k) <= k /\ Stake(f, k) <= gold[f]
  <1>1. Multiple(f) \in Nat
    BY Multiples, SeatsAre
  <1>2. Difen * Multiple(f) \in Nat
    BY <1>1, Products, SettlementAssumption
  <1>3. Capped >= 0 => RewardMax \in Nat
    BY SettlementAssumption DEF RewardMax
  <1>4. gold[f] \in Nat
    BY SeatsAre DEF TypeOK
  <1>5. Limit(f) \in Nat /\ Limit(f) <= gold[f]
    BY <1>2, <1>3, <1>4, SettlementAssumption DEF Limit, Lesser
  <1>6. QED
    BY <1>4, <1>5 DEF Stake, Lesser

\* The verdict: nobody overdrawn, one bean lost at most.
LEMMA GameOverVerdict ==
    ASSUME TypeOK, NEW w \in BOOLEAN, NEW k2, NEW k3, GameOver(w, k2, k3)
    PROVE  /\ change' \in [Seats -> Int] /\ Total(change') \in {-1, 0}
           /\ \A p \in Seats : gold[p] + change'[p] >= 0
  <1> DEFINE a == Stake(2, k2)
             b == Stake(3, k3)
             e == Eaten(w, a + b)
             s == IF w THEN 1 ELSE -1
  <1>1. /\ k2 \in Nat /\ k2 * Multiple(1) <= gold[1] * Multiple(2)
        /\ k3 \in Nat /\ k3 * Multiple(1) <= gold[1] * Multiple(3)
        /\ gold[1] \in Nat /\ gold[2] \in Nat /\ gold[3] \in Nat
    BY SeatsAre DEF GameOver, GoldReal, TypeOK
  <1>2. k2 + k3 <= gold[1]
    BY <1>1, Multiples, Shares
  <1>3. /\ a \in Nat /\ a <= k2 /\ a <= gold[2]
        /\ b \in Nat /\ b <= k3 /\ b <= gold[3]
    BY <1>1, Stakes, SeatsAre
  <1>4. change' = [p \in Seats |-> IF p = Landlord THEN s * (a + b + e)
                                   ELSE IF p = 2 THEN -s * a ELSE -s * b]
    BY DEF GameOver
  <1>5. e = IF ~w /\ gold[1] - (a + b) = 1 THEN 1 ELSE 0
    BY DEF Eaten, Landlord
  <1> HIDE DEF a, b, e
  <1>6. /\ change'[1] = s * (a + b + e) /\ change'[2] = -s * a /\ change'[3] = -s * b
    BY <1>4, SeatsAre
  <1>7. CASE w
    <2>1. change'[1] = a + b /\ change'[2] = -a /\ change'[3] = -b
      BY <1>3, <1>5, <1>6, <1>7
    <2>2. QED
      BY <1>1, <1>3, <1>4, <2>1, SeatsAre DEF Total
  <1>8. CASE ~w
    <2>1. change'[1] = -(a + b + e) /\ change'[2] = a /\ change'[3] = b /\ e \in {0, 1}
      BY <1>3, <1>5, <1>6, <1>8
    <2>2. a + b + e <= gold[1]
      BY <1>1, <1>2, <1>3, <1>5
    <2>3. QED
      BY <1>1, <1>3, <1>4, <2>1, <2>2, SeatsAre DEF Total
  <1>9. QED
    BY <1>7, <1>8

-----------------------------------------------------------------------------
LEMMA GameOverPreserves ==
    ASSUME IndInv, NEW w \in BOOLEAN, NEW k2, NEW k3, GameOver(w, k2, k3)
    PROVE  IndInv'
  <1>1. /\ change' \in [Seats -> Int] /\ Total(change') \in {-1, 0}
        /\ \A p \in Seats : gold[p] + change'[p] >= 0
    BY GameOverVerdict DEF IndInv
  <1>2. /\ over' = TRUE /\ ~over /\ syncs' = [p \in Seats |-> <<>>]
        /\ UNCHANGED <<fixed, gold, balance, saving, inRoom, ghosts>>
    BY DEF GameOver
  <1>3. TypeOK'
    <2>1. syncs' \in [Seats -> Seq(Nat)]
      BY <1>2
    <2>2. QED
      BY <1>1, <1>2, <2>1 DEF IndInv, TypeOK, fixed, ghosts
  <1>4. Verdict'
    <2>1. Total(change)' = Total(change')
      BY DEF Total
    <2>2. QED
      BY <1>1, <1>2, <2>1 DEF Verdict
  <1>8. Quiet'
    BY <1>2 DEF Quiet
  <1>5. Fresh'
    BY <1>2 DEF IndInv, Fresh, ghosts
  <1>6. Books'
    <2>1. inRoom = Seats /\ change = [p \in Seats |-> 0]
      BY <1>2 DEF IndInv, Verdict
    <2>2. \A p \in Seats : Done(p) = 0 /\ Done(p)' = 0
      BY <1>2, <2>1 DEF Done
    <2>3. Total(balance)' = Total(balance)
      BY <1>2 DEF Total
    <2>4. QED
      BY <1>2, <2>2, <2>3, SeatsAre DEF IndInv, Books, ghosts
  <1>7. QED
    BY <1>3, <1>4, <1>8, <1>5, <1>6 DEF IndInv

\* One balance changes by d: what becomes of the sum.
LEMMA OneChanged ==
    \A c : \A b \in [Seats -> Nat], p \in Seats, d \in Int :
        c = [b EXCEPT ![p] = b[p] + d] =>
            Total(c) = Total(b) + d /\ Total(b) \in Int
  <1> SUFFICES ASSUME NEW b \in [Seats -> Nat], NEW c, NEW p \in Seats, NEW d \in Int,
                      c = [b EXCEPT ![p] = b[p] + d]
               PROVE  Total(c) = Total(b) + d /\ Total(b) \in Int
    OBVIOUS
  <1>1. b[1] \in Nat /\ b[2] \in Nat /\ b[3] \in Nat
    BY SeatsAre
  <1>2. \A q \in Seats : c[q] = IF q = p THEN b[q] + d ELSE b[q]
    OBVIOUS
  <1>3. QED
    BY <1>1, <1>2, SeatsAre DEF Total

LEMMA ChangeGoldPreserves ==
    ASSUME IndInv, NEW p \in Seats, NEW d \in Deltas, ChangeGold(p, d)
    PROVE  IndInv'
  <1>1. /\ d \in Int /\ balance \in [Seats -> Nat] /\ balance[p] \in Nat
        /\ balance[p] + d \in Nat /\ ledger \in Int /\ spent \in BOOLEAN /\ changes \in Nat
    BY SettlementAssumption DEF IndInv, TypeOK, ChangeGold
  <1>2. /\ balance' = [balance EXCEPT ![p] = balance[p] + d]
        /\ changes' = changes + 1
        /\ saving' = saving \cup {[id |-> changes', who |-> p, num |-> balance[p] + d]}
        /\ ledger' = ledger + d /\ spent' = (spent \/ d < 0)
        /\ UNCHANGED <<fixed, gold, change, over, syncs, inRoom>>
    BY DEF ChangeGold
  <1>3. balance' \in [Seats -> Nat]
    BY <1>1, <1>2
  <1>4. TypeOK'
    <2>1. saving' \subseteq [id : Nat, who : Seats, num : Nat]
      BY <1>1, <1>2 DEF IndInv, TypeOK
    <2>2. changes' \in Nat /\ ledger' \in Int
      BY <1>1, <1>2
    <2>3. spent' \in BOOLEAN
      BY <1>2
    <2>4. QED
      BY <1>2, <1>3, <2>1, <2>2, <2>3 DEF IndInv, TypeOK, fixed
  <1>5. Verdict' /\ Quiet'
    BY <1>2 DEF IndInv, Verdict, Quiet, Total
  <1>6. Fresh'
    <2>1. CASE ~spent /\ d >= 0
      <3>1. \A q \in Seats : balance'[q] >= balance[q]
        BY <1>1, <1>2, <2>1
      <3>2. \A q \in inRoom : q \in Seats /\ gold[q] \in Nat /\ gold[q] <= balance[q]
        BY <2>1 DEF IndInv, Fresh, TypeOK
      <3>3. \A q \in inRoom : gold'[q] <= balance'[q]
        BY <1>2, <1>3, <1>1, <3>1, <3>2
      <3>4. ~over => \A s \in saving' : s.num <= balance'[s.who]
        <4>1. ~over => \A s \in saving : s.who \in Seats /\ s.num \in Nat /\ s.num <= balance[s.who]
          BY <2>1 DEF IndInv, Fresh, TypeOK
        <4>2. ~over => \A s \in saving : s.num <= balance'[s.who]
          BY <1>1, <1>3, <3>1, <4>1
        <4>3. balance'[p] = balance[p] + d
          BY <1>1, <1>2
        <4>4. QED
          BY <1>1, <1>2, <4>2, <4>3
      <3>5. ~over => \A q \in Seats : \A i \in 1 .. Len(syncs[q]) : syncs'[q][i] <= balance'[q]
        <4>1. \A q \in Seats : \A i \in 1 .. Len(syncs[q]) : syncs[q][i] \in Nat
          BY SMTT(30) DEF IndInv, TypeOK
        <4>2. ~over => \A q \in Seats : \A i \in 1 .. Len(syncs[q]) : syncs[q][i] <= balance[q]
          BY <2>1 DEF IndInv, Fresh
        <4>3. QED
          BY <1>1, <1>2, <1>3, <3>1, <4>1, <4>2
      <3>6. QED
        BY <1>2, <3>3, <3>4, <3>5 DEF Fresh
    <2>2. CASE spent \/ d < 0
      BY <1>2, <2>2 DEF Fresh
    <2>3. QED
      BY <1>1, <2>1, <2>2
  <1>7. Books'
    <2>1. Total(balance') = Total(balance) + d
      BY <1>1, <1>2, OneChanged, ZenonT(40)
    <2>2. \A q \in Seats : Done(q)' = Done(q) /\ Done(q) \in Int
      BY <1>2 DEF Done, IndInv, TypeOK
    <2>3. Total(balance) \in Int
      BY <1>1, <1>2, OneChanged
    <2>4. Total(balance)' = Total(balance')
      BY DEF Total
    <2>5. Total(balance') >= ledger' + Done(1)' + Done(2)' + Done(3)'
      BY <1>1, <1>2, <2>1, <2>2, <2>3, SeatsAre DEF IndInv, Books
    <2>6. ~spent => Total(balance') = ledger' + Done(1)' + Done(2)' + Done(3)'
      BY <1>1, <1>2, <2>1, <2>2, <2>3, SeatsAre DEF IndInv, Books
    <2>7. ~spent' => ~spent
      BY <1>2, Zenon
    <2>8. QED
      BY <2>4, <2>5, <2>6, <2>7 DEF Books
  <1>8. QED
    BY <1>4, <1>5, <1>6, <1>7 DEF IndInv

\* News leaves the agent, in whatever order the database answers.
LEMMA SavedPreserves ==
    ASSUME IndInv, NEW s \in saving, Saved(s) PROVE IndInv'
  <1>1. /\ s.who \in Seats /\ s.num \in Nat /\ syncs \in [Seats -> Seq(Nat)]
        /\ syncs[s.who] \in Seq(Nat) /\ balance \in [Seats -> Nat]
    BY DEF IndInv, TypeOK
  <1>2. /\ saving' = saving \ {s}
        /\ syncs' = IF over THEN syncs
                    ELSE [syncs EXCEPT ![s.who] = Append(syncs[s.who], s.num)]
        /\ UNCHANGED <<fixed, gold, change, over, balance, inRoom, ghosts>>
    BY DEF Saved
  <1>3. Append(syncs[s.who], s.num) \in Seq(Nat)
    BY <1>1
  <1>4. TypeOK'
    <2>1. syncs' \in [Seats -> Seq(Nat)]
      BY <1>1, <1>2, <1>3
    <2>2. saving' \subseteq [id : Nat, who : Seats, num : Nat]
      BY <1>2 DEF IndInv, TypeOK
    <2>3. QED
      BY <1>2, <2>1, <2>2 DEF IndInv, TypeOK, fixed, ghosts
  <1>5. Verdict' /\ Quiet'
    BY <1>2 DEF IndInv, Verdict, Quiet, Total
  <1>6. Fresh'
    <2> SUFFICES ASSUME ~spent PROVE Fresh'
      BY <1>2 DEF Fresh, ghosts
    <2>1. \A p \in inRoom : gold'[p] <= balance'[p]
      BY <1>2 DEF IndInv, Fresh
    <2>2. ~over => \A q \in saving' : q.num <= balance'[q.who]
      BY <1>2 DEF IndInv, Fresh
    <2>3. ASSUME ~over, NEW p \in Seats, NEW i \in 1 .. Len(syncs'[p])
          PROVE  syncs'[p][i] <= balance'[p]
      <3>1. CASE p # s.who
        <4>1. syncs'[p] = syncs[p]
          BY <1>1, <1>2, <2>3, <3>1
        <4>2. QED
          BY <1>2, <2>3, <4>1 DEF IndInv, Fresh
      <3>2. CASE p = s.who
        <4> DEFINE q == syncs[s.who]
        <4>1. syncs'[p] = Append(q, s.num) /\ q \in Seq(Nat)
          BY <1>1, <1>2, <2>3, <3>2
        <4>2. s.num <= balance[p]
          BY <2>3, <3>2 DEF IndInv, Fresh
        <4>3. \A j \in 1 .. Len(q) : q[j] <= balance[p]
          BY <2>3, <3>2, <1>1 DEF IndInv, Fresh
        <4> HIDE DEF q
        <4>4. (i \in 1 .. Len(q) /\ syncs'[p][i] = q[i]) \/ syncs'[p][i] = s.num
          BY <1>1, <2>3, <4>1
        <4>5. QED
          BY <1>2, <4>2, <4>3, <4>4
      <3>3. QED
        BY <3>1, <3>2
    <2>4. QED
      BY <1>2, <2>1, <2>2, <2>3 DEF Fresh
  <1>7. Books'
    BY <1>2 DEF IndInv, Books, Done, Total, ghosts
  <1>8. QED
    BY <1>4, <1>5, <1>6, <1>7 DEF IndInv

LEMMA SyncPreserves ==
    ASSUME IndInv, NEW p \in Seats, SyncRoomData(p) PROVE IndInv'
  <1>1. /\ syncs \in [Seats -> Seq(Nat)] /\ syncs[p] \in Seq(Nat) /\ syncs[p] # <<>>
        /\ gold \in [Seats -> Nat] /\ balance \in [Seats -> Nat]
    BY DEF IndInv, TypeOK, SyncRoomData
  <1>2. /\ gold' = [gold EXCEPT ![p] = Head(syncs[p])]
        /\ syncs' = [syncs EXCEPT ![p] = Tail(syncs[p])]
        /\ UNCHANGED <<fixed, change, over, balance, saving, inRoom, ghosts>>
    BY DEF SyncRoomData
  <1>3. /\ Head(syncs[p]) \in Nat /\ Head(syncs[p]) = syncs[p][1] /\ 1 \in 1 .. Len(syncs[p])
        /\ Tail(syncs[p]) \in Seq(Nat)
        /\ \A i \in 1 .. Len(Tail(syncs[p])) :
               i + 1 \in 1 .. Len(syncs[p]) /\ Tail(syncs[p])[i] = syncs[p][i + 1]
    BY <1>1
  <1>4. TypeOK'
    <2>1. gold' \in [Seats -> Nat] /\ syncs' \in [Seats -> Seq(Nat)]
      BY <1>1, <1>2, <1>3
    <2>2. QED
      BY <1>2, <2>1 DEF IndInv, TypeOK, fixed, ghosts
  <1>5. ~over
    BY <1>1 DEF IndInv, Quiet
  <1>6. Verdict' /\ Quiet'
    BY <1>2, <1>5 DEF IndInv, Verdict, Quiet
  <1>7. Fresh'
    <2> SUFFICES ASSUME ~spent PROVE Fresh'
      BY <1>2 DEF Fresh, ghosts
    <2>1. \A q \in Seats : \A i \in 1 .. Len(syncs[q]) : syncs[q][i] <= balance[q]
      BY <1>5 DEF IndInv, Fresh
    <2>2. \A q \in inRoom : gold'[q] <= balance'[q]
      <3>1. \A q \in inRoom : q \in Seats /\ gold[q] <= balance[q]
        BY DEF IndInv, Fresh, TypeOK
      <3>2. Head(syncs[p]) <= balance[p]
        BY <1>3, <2>1
      <3>3. QED
        BY <1>1, <1>2, <3>1, <3>2
    <2>3. \A s \in saving' : s.num <= balance'[s.who]
      BY <1>2, <1>5 DEF IndInv, Fresh
    <2>4. \A q \in Seats : \A i \in 1 .. Len(syncs'[q]) : syncs'[q][i] <= balance'[q]
      <3> SUFFICES ASSUME NEW q \in Seats, NEW i \in 1 .. Len(syncs'[q])
                   PROVE  syncs'[q][i] <= balance'[q]
        OBVIOUS
      <3>1. CASE q # p
        <4>1. syncs'[q] = syncs[q]
          BY <1>1, <1>2, <3>1
        <4>2. QED
          BY <1>2, <2>1, <4>1
      <3>2. CASE q = p
        <4>1. syncs'[q] = Tail(syncs[p])
          BY <1>1, <1>2, <3>2
        <4>2. QED
          BY <1>2, <1>3, <2>1, <3>2, <4>1
      <3>3. QED
        BY <3>1, <3>2
    <2>5. QED
      BY <1>2, <2>2, <2>3, <2>4 DEF Fresh
  <1>8. Books'
    BY <1>2 DEF IndInv, Books, Done, Total, ghosts
  <1>9. QED
    BY <1>4, <1>6, <1>7, <1>8 DEF IndInv

\* An agent applies the verdict: more than the loser has is not taken.
LEMMA RoomGameOverPreserves ==
    ASSUME IndInv, NEW p \in Seats, RoomGameOver_C(p) PROVE IndInv'
  <1> DEFINE a == Applied(p)
  <1>1. /\ balance \in [Seats -> Nat] /\ balance[p] \in Nat /\ change[p] \in Int
        /\ gold[p] \in Nat /\ over /\ p \in inRoom /\ inRoom \subseteq Seats
    BY DEF IndInv, TypeOK, RoomGameOver_C
  <1>2. /\ inRoom' = inRoom \ {p} /\ balance' = [balance EXCEPT ![p] = balance[p] + a]
        /\ UNCHANGED <<fixed, gold, change, over, saving, syncs, ghosts>>
    BY DEF RoomGameOver_C
  <1>3. a \in Int /\ balance[p] + a \in Nat /\ a >= change[p]
    BY <1>1 DEF Applied, Lesser
  <1>4. ~spent => a = change[p]
    <2>1. ~spent => gold[p] <= balance[p]
      BY <1>1 DEF IndInv, Fresh
    <2>2. gold[p] + change[p] >= 0
      BY <1>1 DEF IndInv, Verdict
    <2>3. QED
      BY <1>1, <2>1, <2>2 DEF Applied, Lesser
  <1> HIDE DEF a
  <1>5. TypeOK'
    <2>1. balance' \in [Seats -> Nat]
      BY <1>1, <1>2, <1>3
    <2>2. inRoom' \subseteq Seats
      BY <1>1, <1>2
    <2>3. QED
      BY <1>2, <2>1, <2>2 DEF IndInv, TypeOK, fixed, ghosts
  <1>6. Verdict' /\ Quiet'
    BY <1>1, <1>2 DEF IndInv, Verdict, Quiet, Total
  <1>7. Fresh'
    <2>1. \A q \in inRoom' : q \in inRoom /\ balance'[q] = balance[q]
      BY <1>1, <1>2
    <2>2. QED
      BY <1>1, <1>2, <2>1 DEF IndInv, Fresh, ghosts
  <1>8. Books'
    <2>1. Total(balance') = Total(balance) + a
      BY <1>1, <1>2, <1>3, OneChanged, ZenonT(40)
    <2>2. \A q \in Seats : Done(q) \in Int /\ change[q] \in Int
      BY DEF IndInv, TypeOK, Done
    <2>3. \A q \in Seats : q # p => Done(q)' = Done(q)
      BY <1>1, <1>2 DEF Done
    <2>4. Done(p) = 0 /\ Done(p)' = change[p]
      BY <1>1, <1>2 DEF Done
    <2>5. Done(1)' + Done(2)' + Done(3)' = Done(1) + Done(2) + Done(3) + change[p]
      BY <2>2, <2>3, <2>4, SeatsAre
    <2>6. Total(balance)' = Total(balance') /\ Total(balance) \in Int /\ ledger \in Int
      BY <1>1, <1>2, <1>3, OneChanged DEF Total, IndInv, TypeOK
    <2>7. Total(balance') >= ledger + (Done(1)' + Done(2)' + Done(3)')
      BY <1>1, <1>3, <2>1, <2>2, <2>5, <2>6, SeatsAre DEF IndInv, Books
    <2>8. ~spent => Total(balance') = ledger + (Done(1)' + Done(2)' + Done(3)')
      BY <1>1, <1>4, <2>1, <2>2, <2>5, <2>6, SeatsAre DEF IndInv, Books
    <2>9. \A q \in Seats : Done(q)' \in Int
      BY <2>2, <2>3, <2>4
    <2>10. ledger' = ledger /\ spent' = spent
      BY <1>2 DEF ghosts
    <2>11. QED
      BY <2>6, <2>7, <2>8, <2>9, <2>10, SeatsAre DEF Books
  <1>9. QED
    BY <1>5, <1>6, <1>7, <1>8 DEF IndInv

LEMMA Initially ==
    ASSUME Init PROVE IndInv
  <1>1. TypeOK
    <2>1. /\ public \in Nat \ {0} /\ double \in [Seats -> Nat \ {0}]
          /\ doubleMax \in [Seats -> Nat \ {0}] /\ balance \in [Seats -> Nat]
      BY SettlementAssumption DEF Init
    <2>2. Total(balance) \in Int
      BY <2>1, SeatsAre DEF Total
    <2>3. change \in [Seats -> Int] /\ syncs \in [Seats -> Seq(Nat)]
      BY DEF Init
    <2>4. QED
      BY <2>1, <2>2, <2>3 DEF Init, TypeOK
  <1>2. Verdict /\ Quiet
    BY DEF Init, Verdict, Quiet
  <1>3. Fresh
    <2>1. \A p \in Seats : syncs[p] = <<>> /\ gold[p] \in Nat /\ balance[p] = gold[p]
      BY <1>1 DEF Init, TypeOK
    <2>2. \A p \in Seats : 1 .. Len(syncs[p]) = {}
      BY <2>1
    <2>3. QED
      BY <2>1, <2>2 DEF Fresh, Init
  <1>4. Books
    <2>1. \A p \in Seats : Done(p) = 0
      BY DEF Init, Done
    <2>2. ledger = Total(balance) /\ ledger \in Int
      BY <1>1 DEF Init, TypeOK
    <2>3. QED
      BY <2>1, <2>2, SeatsAre DEF Books
  <1>5. QED
    BY <1>1, <1>2, <1>3, <1>4 DEF IndInv

LEMMA Inductive ==
    ASSUME IndInv, [Next]_vars PROVE IndInv'
  <1>1. CASE \E w \in BOOLEAN, k2, k3 \in 0 .. gold[Landlord] : GameOver(w, k2, k3)
    BY <1>1, GameOverPreserves
  <1>2. CASE \E p \in Seats, d \in Deltas : ChangeGold(p, d)
    BY <1>2, ChangeGoldPreserves
  <1>3. CASE \E s \in saving : Saved(s)
    BY <1>3, SavedPreserves
  <1>4. CASE \E p \in Seats : SyncRoomData(p) \/ RoomGameOver_C(p)
    BY <1>4, SyncPreserves, RoomGameOverPreserves
  <1>5. CASE UNCHANGED vars
    BY <1>5 DEF vars, fixed, ghosts, IndInv, TypeOK, Verdict, Quiet, Fresh, Books, Done, Total
  <1>6. QED
    BY <1>1, <1>2, <1>3, <1>4, <1>5 DEF Next

\* The inductive invariant of settlement and agents.
THEOREM SettlementInvariance == Spec => []IndInv
  <1>1. Init => IndInv
    BY Initially
  <1>2. IndInv /\ [Next]_vars => IndInv'
    BY Inductive
  <1>3. QED
    BY <1>1, <1>2, PTL DEF Spec

\* No balance is ever negative: the assertion of _addGold (ma_useritem.lua, line 80).
THEOREM BalancesNonnegative == Spec => []TypeOK
  <1>1. IndInv => TypeOK
    BY DEF IndInv
  <1>2. QED
    BY <1>1, SettlementInvariance, PTL

\* Room.gameover takes from nobody more than the room knows the player to have, for
\* all stakes, caps, doubles and roundings.
THEOREM NeverOverdrawn == Spec => []NobodyOverdrawn
  <1>1. IndInv => NobodyOverdrawn
    BY DEF IndInv, Verdict, NobodyOverdrawn
  <1>2. QED
    BY <1>1, SettlementInvariance, PTL

\* Settlement and agents together lose one bean at most, and make none unless beans
\* were spent during the game.
THEOREM Conservation == Spec => []SettlementConserves
  <1>1. IndInv => SettlementConserves
    <2> SUFFICES ASSUME IndInv, over, inRoom = {}
                 PROVE  Total(balance) >= ledger - 1 /\ (Total(balance) > ledger => spent)
      BY DEF SettlementConserves
    <2>1. Done(1) + Done(2) + Done(3) = Total(change)
      BY DEF Done, Total
    <2>2. Total(change) \in {-1, 0}
      BY DEF IndInv, Verdict
    <2>3. /\ ledger \in Int /\ Total(balance) \in Int
          /\ change[1] \in Int /\ change[2] \in Int /\ change[3] \in Int
      <3>1. balance \in [Seats -> Nat] /\ change \in [Seats -> Int] /\ ledger \in Int
        BY DEF IndInv, TypeOK
      <3>2. balance[1] \in Nat /\ balance[2] \in Nat /\ balance[3] \in Nat
        BY <3>1, SeatsAre
      <3>3. QED
        BY <3>1, <3>2, SeatsAre DEF Total
    <2>4. Total(balance) >= ledger + Total(change)
      BY <2>3 DEF IndInv, Books, Done, Total
    <2>5. ~spent => Total(balance) = ledger + Total(change)
      BY <2>3 DEF IndInv, Books, Done, Total
    <2>6. QED
      BY <2>2, <2>3, <2>4, <2>5
  <1>2. QED
    BY <1>1, SettlementInvariance, PTL

=============================================================================
