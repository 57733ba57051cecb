----------------------- MODULE HandoverDeliveryProof -----------------------
(***************************************************************************)
(* Proof that Handover implements Delivery, for every set of cells and     *)
(* every number of packets and handovers, and that the UE receives in      *)
(* order the packets that were in no tunnel when it changed its cell.  The *)
(* packets under way stand in a family of queues; no packet stands in two  *)
(* places of it.                                                           *)
(***************************************************************************)
EXTENDS HandoverProof

\* A family of queues Q, the packets in it, and that each is in one place.
All(Q) == UNION {Elements(Q[i]) : i \in DOMAIN Q}
Once(Q) ==
    \A i, j \in DOMAIN Q : \A m \in DOMAIN Q[i], n \in DOMAIN Q[j] :
        Q[i][m] = Q[j][n] => i = j /\ m = n

\* A family after one step: the head of a queue was taken, a packet put at the end of
\* one, a queue emptied, a queue moved to the end of another.
Pop(Q, i) == [Q EXCEPT ![i] = Tail(Q[i])]
Push(Q, i, p) == [Q EXCEPT ![i] = Append(Q[i], p)]
Clear(Q, i) == [Q EXCEPT ![i] = <<>>]
Join(Q, i, j) == [Q EXCEPT ![i] = Q[i] \o Q[j], ![j] = <<>>]

\* All and Once of a family, one element at a time.
LEMMA AllLemma ==
    ASSUME NEW Q, NEW p
    PROVE  p \in All(Q) <=> \E i \in DOMAIN Q : \E m \in DOMAIN Q[i] : Q[i][m] = p
  BY DEF All, Elements

\* The places of the tail of a sequence, of an append and of a concatenation.
LEMMA PlacesLemma ==
    ASSUME NEW S, NEW s \in Seq(S)
    PROVE  /\ Len(s) \in Nat /\ DOMAIN s = 1 .. Len(s)
           /\ s # <<>> => /\ Len(s) \in Nat \ {0} /\ Head(s) = s[1] /\ Tail(s) \in Seq(S)
                          /\ DOMAIN Tail(s) = 1 .. Len(s) - 1
                          /\ \A m \in 1 .. Len(s) - 1 : Tail(s)[m] = s[m + 1]
           /\ \A e \in S : /\ Append(s, e) \in Seq(S)
                           /\ DOMAIN Append(s, e) = 1 .. Len(s) + 1
                           /\ Append(s, e)[Len(s) + 1] = e
                           /\ \A m \in 1 .. Len(s) : Append(s, e)[m] = s[m]
           /\ \A t \in Seq(S) : /\ s \o t \in Seq(S)
                                /\ DOMAIN (s \o t) = 1 .. Len(s) + Len(t)
                                /\ \A m \in 1 .. Len(s) : (s \o t)[m] = s[m]
                                /\ \A m \in 1 .. Len(t) : (s \o t)[Len(s) + m] = t[m]
<1>1. Len(s) \in Nat /\ DOMAIN s = 1 .. Len(s)
  OBVIOUS
<1>2. ASSUME s # <<>>
      PROVE  /\ Len(s) \in Nat \ {0} /\ Head(s) = s[1] /\ Tail(s) \in Seq(S)
             /\ DOMAIN Tail(s) = 1 .. Len(s) - 1
             /\ \A m \in 1 .. Len(s) - 1 : Tail(s)[m] = s[m + 1]
  <2>1. /\ Len(s) \in Nat \ {0} /\ Head(s) = s[1] /\ Tail(s) \in Seq(S)
        /\ Len(Tail(s)) = Len(s) - 1
        /\ \A m \in 1 .. Len(s) - 1 : Tail(s)[m] = s[m + 1]
    BY <1>2
  <2> QED BY <2>1
<1>3. ASSUME NEW e \in S
      PROVE  /\ Append(s, e) \in Seq(S) /\ DOMAIN Append(s, e) = 1 .. Len(s) + 1
             /\ Append(s, e)[Len(s) + 1] = e
             /\ \A m \in 1 .. Len(s) : Append(s, e)[m] = s[m]
  <2>1. /\ Append(s, e) \in Seq(S) /\ Len(Append(s, e)) = Len(s) + 1
        /\ Append(s, e)[Len(s) + 1] = e
        /\ \A m \in 1 .. Len(s) : Append(s, e)[m] = s[m]
    OBVIOUS
  <2> QED BY <2>1
<1>4. ASSUME NEW t \in Seq(S)
      PROVE  /\ s \o t \in Seq(S) /\ DOMAIN (s \o t) = 1 .. Len(s) + Len(t)
             /\ \A m \in 1 .. Len(s) : (s \o t)[m] = s[m]
             /\ \A m \in 1 .. Len(t) : (s \o t)[Len(s) + m] = t[m]
  <2>1. s \o t \in Seq(S) /\ Len(s \o t) = Len(s) + Len(t)
    OBVIOUS
  <2>2. /\ \A m \in 1 .. Len(s) : (s \o t)[m] = s[m]
        /\ \A m \in 1 .. Len(t) : (s \o t)[Len(s) + m] = t[m]
    OBVIOUS
  <2> QED BY <2>1, <2>2
<1> QED BY <1>1, <1>2, <1>3, <1>4

\* Taking the head of a queue takes the packet out of the family.
LEMMA PopLemma ==
    ASSUME NEW I, NEW S, NEW Q \in [I -> Seq(S)], NEW i \in I, Q[i] # <<>>
    PROVE  /\ Pop(Q, i) \in [I -> Seq(S)] /\ Head(Q[i]) \in All(Q)
           /\ Once(Q) => Once(Pop(Q, i)) /\ All(Pop(Q, i)) = All(Q) \ {Head(Q[i])}
<1> DEFINE R == Pop(Q, i)
           s == Q[i]
<1>1. /\ Len(s) \in Nat \ {0} /\ Head(s) = s[1] /\ Tail(s) \in Seq(S)
      /\ DOMAIN s = 1 .. Len(s) /\ DOMAIN Tail(s) = 1 .. Len(s) - 1
      /\ \A m \in 1 .. Len(s) - 1 : Tail(s)[m] = s[m + 1]
  BY PlacesLemma
<1>2. /\ R \in [I -> Seq(S)] /\ DOMAIN R = I /\ DOMAIN Q = I
      /\ R[i] = Tail(s) /\ \A j \in I : j # i => R[j] = Q[j]
  BY <1>1 DEF Pop
<1> HIDE DEF R
<1>3. 1 \in DOMAIN s /\ \A m \in DOMAIN Tail(s) : m + 1 \in DOMAIN s /\ m + 1 # 1
  BY <1>1
<1>4. \A m \in DOMAIN s : m # 1 => m - 1 \in DOMAIN Tail(s) /\ Tail(s)[m - 1] = s[m]
  <2> SUFFICES ASSUME NEW m \in 1 .. Len(s), m # 1
               PROVE  m - 1 \in 1 .. Len(s) - 1 /\ Tail(s)[m - 1] = s[m]
    BY <1>1
  <2>1. m - 1 \in 1 .. Len(s) - 1 /\ (m - 1) + 1 = m
    BY <1>1
  <2> QED BY <1>1, <2>1
<1>5. Head(s) \in All(Q)
  BY <1>1, <1>2, <1>3, AllLemma
<1>6. ASSUME Once(Q) PROVE Once(R)
  <2> SUFFICES ASSUME NEW j \in I, NEW k \in I, NEW m \in DOMAIN R[j], NEW n \in DOMAIN R[k],
                      R[j][m] = R[k][n]
               PROVE  j = k /\ m = n
    BY <1>2 DEF Once
  <2>1. \A x, y \in I : \A a \in DOMAIN Q[x], b \in DOMAIN Q[y] :
            Q[x][a] = Q[y][b] => x = y /\ a = b
    BY <1>2, <1>6 DEF Once
  <2>2. CASE j = i /\ k = i
    <3>1. /\ m + 1 \in DOMAIN s /\ n + 1 \in DOMAIN s /\ s[m + 1] = s[n + 1]
          /\ m \in Nat /\ n \in Nat
      BY <1>1, <1>2, <1>3, <2>2
    <3>2. m + 1 = n + 1
      BY <2>1, <3>1
    <3> QED BY <2>2, <3>1, <3>2
  <2>3. CASE j = i /\ k # i
    <3>1. m + 1 \in DOMAIN s /\ s[m + 1] = Q[k][n] /\ n \in DOMAIN Q[k]
      BY <1>1, <1>2, <1>3, <2>3
    <3> QED BY <2>1, <2>3, <3>1
  <2>4. CASE j # i /\ k = i
    <3>1. n + 1 \in DOMAIN s /\ s[n + 1] = Q[j][m] /\ m \in DOMAIN Q[j]
      BY <1>1, <1>2, <1>3, <2>4
    <3> QED BY <2>1, <2>4, <3>1
  <2>5. CASE j # i /\ k # i
    BY <1>2, <2>1, <2>5
  <2> QED BY <2>2, <2>3, <2>4, <2>5
<1>7. ASSUME Once(Q) PROVE All(R) = All(Q) \ {Head(s)}
  <2>1. ASSUME NEW p \in All(R) PROVE p \in All(Q) /\ p # Head(s)
    <3>1. PICK j \in I : \E m \in DOMAIN R[j] : R[j][m] = p
      BY <1>2, <2>1 DEF All, Elements
    <3>2. PICK m \in DOMAIN R[j] : R[j][m] = p
      BY <3>1
    <3>3. PICK n \in DOMAIN Q[j] : Q[j][n] = p /\ (j = i => n # 1)
      <4>1. CASE j = i
        BY <1>1, <1>2, <1>3, <3>2, <4>1
      <4>2. CASE j # i
        BY <1>2, <3>2, <4>2
      <4> QED BY <4>1, <4>2
    <3> QED BY <1>1, <1>2, <1>3, <1>7, <3>3, AllLemma DEF Once
  <2>2. ASSUME NEW p \in All(Q), p # Head(s) PROVE p \in All(R)
    <3>1. PICK j \in I : \E m \in DOMAIN Q[j] : Q[j][m] = p
      BY <1>2, AllLemma
    <3>2. PICK m \in DOMAIN Q[j] : Q[j][m] = p
      BY <3>1
    <3>3. \E n \in DOMAIN R[j] : R[j][n] = p
      <4>1. CASE j = i
        BY <1>1, <1>2, <1>4, <2>2, <3>2, <4>1
      <4>2. CASE j # i
        BY <1>2, <3>2, <4>2
      <4> QED BY <4>1, <4>2
    <3> QED BY <1>2, <3>3, AllLemma
  <2> QED BY <2>1, <2>2
<1> QED BY <1>2, <1>5, <1>6, <1>7 DEF R

\* Putting a packet at the end of a queue adds it to the family; it stays in one place
\* if it was nowhere.
LEMMA PushLemma ==
    ASSUME NEW I, NEW S, NEW Q \in [I -> Seq(S)], NEW i \in I, NEW p \in S
    PROVE  /\ Push(Q, i, p) \in [I -> Seq(S)] /\ All(Push(Q, i, p)) = All(Q) \cup {p}
           /\ Once(Q) /\ p \notin All(Q) => Once(Push(Q, i, p))
<1> DEFINE R == Push(Q, i, p)
           s == Q[i]
           l == Len(s) + 1
<1>1. /\ Len(s) \in Nat /\ DOMAIN s = 1 .. Len(s) /\ Append(s, p) \in Seq(S)
      /\ DOMAIN Append(s, p) = 1 .. l /\ Append(s, p)[l] = p
      /\ \A m \in 1 .. Len(s) : Append(s, p)[m] = s[m]
  BY PlacesLemma
<1>2. /\ R \in [I -> Seq(S)] /\ DOMAIN R = I /\ DOMAIN Q = I
      /\ R[i] = Append(s, p) /\ \A j \in I : j # i => R[j] = Q[j]
  BY <1>1 DEF Push
<1>3. \A m : m \in DOMAIN R[i] <=> m \in DOMAIN s \/ m = l
  <2>1. \A m : m \in 1 .. l <=> m \in 1 .. Len(s) \/ m = l
    BY <1>1
  <2> QED BY <1>1, <1>2, <2>1
<1>4. \A j \in I : \A m \in DOMAIN R[j] :
          IF j = i /\ m = l THEN R[j][m] = p ELSE m \in DOMAIN Q[j] /\ R[j][m] = Q[j][m]
  BY <1>1, <1>2, <1>3
<1>5. \A j \in I : \A m \in DOMAIN Q[j] : m \in DOMAIN R[j] /\ R[j][m] = Q[j][m]
  BY <1>1, <1>2, <1>3
<1>6. l \in DOMAIN R[i] /\ R[i][l] = p
  BY <1>1, <1>2, <1>3
<1>7. All(R) = All(Q) \cup {p}
  <2>1. ASSUME NEW q PROVE q \in All(R) <=> q \in All(Q) \/ q = p
    <3>1. q \in All(R) <=> \E j \in I : \E m \in DOMAIN R[j] : R[j][m] = q
      BY <1>2 DEF All, Elements
    <3>2. q \in All(Q) <=> \E j \in I : \E m \in DOMAIN Q[j] : Q[j][m] = q
      BY <1>2, AllLemma
    <3>3. q \in All(R) => q \in All(Q) \/ q = p
      BY <1>4, <3>1, <3>2
    <3>4. q \in All(Q) \/ q = p => q \in All(R)
      BY <1>5, <1>6, <3>1, <3>2
    <3> QED BY <3>3, <3>4
  <2> QED BY <2>1
<1>8. ASSUME Once(Q), p \notin All(Q) PROVE Once(R)
  <2> SUFFICES ASSUME NEW j \in I, NEW k \in I, NEW m \in DOMAIN R[j], NEW n \in DOMAIN R[k],
                      R[j][m] = R[k][n]
               PROVE  j = k /\ m = n
    BY <1>2 DEF Once
  <2>1. \A x \in I : \A a \in DOMAIN Q[x] : Q[x][a] # p
    BY <1>2, <1>8, AllLemma
  <2>2. CASE j = i /\ m = l
    BY <1>4, <2>1, <2>2
  <2>3. CASE ~(j = i /\ m = l) /\ k = i /\ n = l
    BY <1>4, <2>1, <2>3
  <2>4. CASE ~(j = i /\ m = l) /\ ~(k = i /\ n = l)
    BY <1>2, <1>4, <1>8, <2>4 DEF Once
  <2> QED BY <2>2, <2>3, <2>4
<1> QED BY <1>2, <1>7, <1>8

\* Emptying a queue takes its packets out of the family.
LEMMA ClearLemma ==
    ASSUME NEW I, NEW S, NEW Q \in [I -> Seq(S)], NEW i \in I
    PROVE  /\ Clear(Q, i) \in [I -> Seq(S)] /\ Elements(Q[i]) \subseteq All(Q)
           /\ Once(Q) => Once(Clear(Q, i)) /\ All(Clear(Q, i)) = All(Q) \ Elements(Q[i])
<1> DEFINE R == Clear(Q, i)
<1>1. /\ R \in [I -> Seq(S)] /\ DOMAIN R = I /\ DOMAIN Q = I
      /\ R[i] = <<>> /\ \A j \in I : j # i => R[j] = Q[j]
  <2>1. <<>> \in Seq(S)
    OBVIOUS
  <2> QED BY <2>1 DEF Clear
<1>2. DOMAIN R[i] = {}
  BY <1>1
<1> HIDE DEF R
<1>3. ASSUME NEW p
      PROVE  p \in All(R) <=> \E j \in I : j # i /\ \E m \in DOMAIN Q[j] : Q[j][m] = p
  <2>1. p \in All(R) <=> \E j \in I : \E m \in DOMAIN R[j] : R[j][m] = p
    BY <1>1, AllLemma
  <2>2. ASSUME NEW j \in I
        PROVE  (\E m \in DOMAIN R[j] : R[j][m] = p)
                   <=> j # i /\ \E m \in DOMAIN Q[j] : Q[j][m] = p
    BY <1>1, <1>2
  <2> QED BY <2>1, <2>2
<1>4. \A p : p \in All(Q) <=> \E j \in I : \E m \in DOMAIN Q[j] : Q[j][m] = p
  BY <1>1, AllLemma
<1>5. ASSUME Once(Q) PROVE All(R) = All(Q) \ Elements(Q[i])
  <2>1. \A x, y \in I : \A a \in DOMAIN Q[x], b \in DOMAIN Q[y] : Q[x][a] = Q[y][b] => x = y
    BY <1>1, <1>5 DEF Once
  <2>2. \A p : p \in Elements(Q[i]) <=> \E m \in DOMAIN Q[i] : Q[i][m] = p
    BY DEF Elements
  <2>3. ASSUME NEW p PROVE p \in All(R) <=> p \in All(Q) \ Elements(Q[i])
    <3>1. p \in All(R) => p \in All(Q) \ Elements(Q[i])
      BY <1>3, <1>4, <2>1, <2>2
    <3>2. p \in All(Q) \ Elements(Q[i]) => p \in All(R)
      BY <1>3, <1>4, <2>2
    <3> QED BY <3>1, <3>2
  <2> QED BY <2>3
<1>6. ASSUME Once(Q) PROVE Once(R)
  <2>1. \A x, y \in I : \A a \in DOMAIN Q[x], b \in DOMAIN Q[y] :
            Q[x][a] = Q[y][b] => x = y /\ a = b
    BY <1>1, <1>6 DEF Once
  <2> SUFFICES ASSUME NEW j \in I, NEW k \in I, NEW m \in DOMAIN R[j], NEW n \in DOMAIN R[k],
                      R[j][m] = R[k][n]
               PROVE  j = k /\ m = n
    BY <1>1 DEF Once
  <2>2. j # i /\ k # i
    BY <1>2
  <2> QED BY <1>1, <2>1, <2>2
<1>7. Elements(Q[i]) \subseteq All(Q)
  BY <1>1 DEF All
<1> QED BY <1>1, <1>5, <1>6, <1>7 DEF R

\* Moving a whole queue to the end of another changes no packet.
LEMMA JoinLemma ==
    ASSUME NEW I, NEW S, NEW Q \in [I -> Seq(S)], NEW i \in I, NEW j \in I, i # j
    PROVE  /\ Join(Q, i, j) \in [I -> Seq(S)] /\ All(Join(Q, i, j)) = All(Q)
           /\ Once(Q) => Once(Join(Q, i, j))
<1> DEFINE R == Join(Q, i, j)
           s == Q[i]
           t == Q[j]
           l == Len(s)
           X(k, m) == IF k = i /\ m > l THEN j ELSE k
           N(k, m) == IF k = i /\ m > l THEN m - l ELSE m
<1>1. /\ l \in Nat /\ DOMAIN s = 1 .. l /\ Len(t) \in Nat /\ DOMAIN t = 1 .. Len(t)
      /\ s \o t \in Seq(S) /\ DOMAIN (s \o t) = 1 .. l + Len(t)
      /\ \A m \in 1 .. l : (s \o t)[m] = s[m]
      /\ \A m \in 1 .. Len(t) : (s \o t)[l + m] = t[m]
  BY PlacesLemma
<1>2. /\ R \in [I -> Seq(S)] /\ DOMAIN R = I /\ DOMAIN Q = I
      /\ R[i] = s \o t /\ R[j] = <<>> /\ DOMAIN R[j] = {}
      /\ \A k \in I : k # i /\ k # j => R[k] = Q[k]
  <2>1. <<>> \in Seq(S) /\ DOMAIN <<>> = {}
    OBVIOUS
  <2> DEFINE P == [Q EXCEPT ![i] = s \o t]
             e == <<>>
  <2>2. P \in [I -> Seq(S)] /\ P[i] = s \o t /\ \A k \in I : k # i => P[k] = Q[k]
    BY <1>1
  <2>3. R = [P EXCEPT ![j] = e]
    BY DEF Join
  <2> HIDE DEF P, e
  <2>4. /\ R \in [I -> Seq(S)] /\ R[j] = e /\ R[i] = P[i]
        /\ \A k \in I : k # j => R[k] = P[k]
    <3>1. e \in Seq(S)
      BY <2>1 DEF e
    <3> QED BY <2>2, <2>3, <3>1
  <2> QED BY <2>1, <2>2, <2>4 DEF e
<1> HIDE DEF R
<1>3. \A m \in DOMAIN R[i] :
          IF m > l THEN m - l \in DOMAIN t /\ R[i][m] = t[m - l]
                   ELSE m \in DOMAIN s /\ R[i][m] = s[m]
  <2> SUFFICES ASSUME NEW m \in 1 .. l + Len(t)
               PROVE  IF m > l THEN m - l \in 1 .. Len(t) /\ (s \o t)[m] = t[m - l]
                               ELSE m \in 1 .. l /\ (s \o t)[m] = s[m]
    BY <1>1, <1>2
  <2>1. CASE m > l
    <3>1. m - l \in 1 .. Len(t) /\ l + (m - l) = m
      BY <1>1, <2>1
    <3> QED BY <1>1, <2>1, <3>1
  <2>2. CASE ~(m > l)
    <3>1. m \in 1 .. l
      BY <1>1, <2>2
    <3> QED BY <1>1, <2>2, <3>1
  <2> QED BY <2>1, <2>2
<1>4. \A k \in I : \A m \in DOMAIN R[k] :
          /\ k # j /\ X(k, m) \in I /\ N(k, m) \in DOMAIN Q[X(k, m)]
          /\ Q[X(k, m)][N(k, m)] = R[k][m]
  BY <1>2, <1>3
<1>5. \A k, h \in I : \A m \in DOMAIN R[k], n \in DOMAIN R[h] :
          X(k, m) = X(h, n) /\ N(k, m) = N(h, n) => k = h /\ m = n
  <2>1. \A m \in DOMAIN R[i] : m \in Nat
    BY <1>1, <1>2
  <2>2. \A m, n \in Nat : m > l /\ n > l /\ m - l = n - l => m = n
    BY <1>1
  <2> QED BY <1>1, <1>4, <2>1, <2>2
<1>6. ASSUME Once(Q) PROVE Once(R)
  <2> SUFFICES ASSUME NEW k \in I, NEW h \in I, NEW m \in DOMAIN R[k], NEW n \in DOMAIN R[h],
                      R[k][m] = R[h][n]
               PROVE  k = h /\ m = n
    BY <1>2 DEF Once
  <2> HIDE DEF X, N
  <2>1. /\ X(k, m) \in I /\ N(k, m) \in DOMAIN Q[X(k, m)]
        /\ X(h, n) \in I /\ N(h, n) \in DOMAIN Q[X(h, n)]
        /\ Q[X(k, m)][N(k, m)] = Q[X(h, n)][N(h, n)]
    BY <1>4
  <2>2. X(k, m) = X(h, n) /\ N(k, m) = N(h, n)
    BY <1>2, <1>6, <2>1 DEF Once
  <2> QED BY <1>5, <2>2
<1>7. \A k \in I : \A m \in DOMAIN Q[k] : \E h \in I : \E n \in DOMAIN R[h] : R[h][n] = Q[k][m]
  <2> SUFFICES ASSUME NEW k \in I, NEW m \in DOMAIN Q[k]
               PROVE  \E h \in I : \E n \in DOMAIN R[h] : R[h][n] = Q[k][m]
    OBVIOUS
  <2>1. CASE k = i
    <3>1. m \in 1 .. l /\ m \in 1 .. l + Len(t)
      BY <1>1, <2>1
    <3>2. m \in DOMAIN R[i] /\ R[i][m] = Q[k][m]
      BY <1>1, <1>2, <2>1, <3>1
    <3> QED BY <3>2
  <2>2. CASE k = j
    <3>1. m \in 1 .. Len(t) /\ l + m \in 1 .. l + Len(t)
      BY <1>1, <2>2
    <3>2. l + m \in DOMAIN R[i] /\ R[i][l + m] = Q[k][m]
      BY <1>1, <1>2, <2>2, <3>1
    <3> QED BY <3>2
  <2>3. CASE k # i /\ k # j
    BY <1>2, <2>3
  <2> QED BY <2>1, <2>2, <2>3
<1>8. All(R) = All(Q)
  <2>1. \A p : p \in All(R) <=> \E k \in I : \E m \in DOMAIN R[k] : R[k][m] = p
    BY <1>2, AllLemma
  <2>2. \A p : p \in All(Q) <=> \E k \in I : \E m \in DOMAIN Q[k] : Q[k][m] = p
    BY <1>2, AllLemma
  <2> HIDE DEF X, N
  <2>3. ASSUME NEW p \in All(R) PROVE p \in All(Q)
    <3>1. PICK k \in I : \E m \in DOMAIN R[k] : R[k][m] = p
      BY <2>1
    <3>2. PICK m \in DOMAIN R[k] : R[k][m] = p
      BY <3>1
    <3> QED BY <1>4, <2>2, <3>2
  <2>4. ASSUME NEW p \in All(Q) PROVE p \in All(R)
    BY <1>7, <2>1, <2>2
  <2> QED BY <2>3, <2>4
<1> QED BY <1>2, <1>6, <1>8 DEF R

\* Moving the head of a queue to the end of another changes no packet.
LEMMA MoveLemma ==
    ASSUME NEW I, NEW S, NEW Q \in [I -> Seq(S)], NEW i \in I, NEW j \in I,
           Q[i] # <<>>, Once(Q)
    PROVE  LET R == Push(Pop(Q, i), j, Head(Q[i])) IN Once(R) /\ All(R) = All(Q)
<1> DEFINE P == Pop(Q, i)
           p == Head(Q[i])
<1>1. P \in [I -> Seq(S)] /\ p \in All(Q) /\ Once(P) /\ All(P) = All(Q) \ {p}
  BY PopLemma
<1>2. p \in S
  BY ElementsLemma
<1> HIDE DEF P, p
<1>3. /\ Push(P, j, p) \in [I -> Seq(S)] /\ All(Push(P, j, p)) = All(P) \cup {p}
      /\ Once(P) /\ p \notin All(P) => Once(Push(P, j, p))
  BY <1>1, <1>2, PushLemma
<1>4. p \notin All(P)
  BY <1>1
<1>5. Once(Push(P, j, p))
  BY <1>1, <1>2, <1>4, PushLemma
<1> QED BY <1>1, <1>3, <1>5 DEF P, p

-----------------------------------------------------------------------------
(* The queues of Handover *)

QueueId == ({"core", "fromX2", "fromIp", "stack"} \X Cell) \cup ({"x2"} \X Link)

Bundle(co, xd, fx, fi, st) ==
    [i \in QueueId |-> CASE i[1] = "core" -> co[i[2]]
                         [] i[1] = "fromX2" -> fx[i[2]]
                         [] i[1] = "fromIp" -> fi[i[2]]
                         [] i[1] = "stack" -> st[i[2]]
                         [] OTHER -> xd[i[2]]]
Queues == Bundle(core, x2Data, hoFromX2, hoFromIp, stack)

\* What the family holds.
Holds(B, T, co, xd, fx, fi, st) ==
    /\ B \in [QueueId -> T]
    /\ \A c \in Cell : /\ <<"core", c>> \in QueueId /\ B[<<"core", c>>] = co[c]
                       /\ <<"fromX2", c>> \in QueueId /\ B[<<"fromX2", c>>] = fx[c]
                       /\ <<"fromIp", c>> \in QueueId /\ B[<<"fromIp", c>>] = fi[c]
                       /\ <<"stack", c>> \in QueueId /\ B[<<"stack", c>>] = st[c]
    /\ \A l \in Link : <<"x2", l>> \in QueueId /\ B[<<"x2", l>>] = xd[l]
    /\ \A i \in QueueId : \/ \E c \in Cell : i \in {<<"core", c>>, <<"fromX2", c>>,
                                                    <<"fromIp", c>>, <<"stack", c>>}
                          \/ \E l \in Link : i = <<"x2", l>>

LEMMA BundleLemma ==
    ASSUME NEW T, NEW co \in [Cell -> T], NEW xd \in [Link -> T], NEW fx \in [Cell -> T],
           NEW fi \in [Cell -> T], NEW st \in [Cell -> T]
    PROVE  Holds(Bundle(co, xd, fx, fi, st), T, co, xd, fx, fi, st)
<1> DEFINE B == Bundle(co, xd, fx, fi, st)
<1>1. \A i \in QueueId : \/ \E c \in Cell : i \in {<<"core", c>>, <<"fromX2", c>>,
                                                   <<"fromIp", c>>, <<"stack", c>>}
                         \/ \E l \in Link : i = <<"x2", l>>
  BY DEF QueueId
<1>2. \A c \in Cell : /\ <<"core", c>> \in QueueId /\ <<"fromX2", c>> \in QueueId
                      /\ <<"fromIp", c>> \in QueueId /\ <<"stack", c>> \in QueueId
  BY DEF QueueId
<1>3. \A l \in Link : <<"x2", l>> \in QueueId
  BY DEF QueueId
<1>4. \A c \in Cell : /\ B[<<"core", c>>] = co[c] /\ B[<<"fromX2", c>>] = fx[c]
                      /\ B[<<"fromIp", c>>] = fi[c] /\ B[<<"stack", c>>] = st[c]
  BY <1>2 DEF Bundle
<1>5. \A l \in Link : B[<<"x2", l>>] = xd[l]
  BY <1>3 DEF Bundle
<1>6. B \in [QueueId -> T]
  <2>1. ASSUME NEW i \in QueueId PROVE B[i] \in T
    <3> HIDE DEF B
    <3>1. CASE \E c \in Cell : i \in {<<"core", c>>, <<"fromX2", c>>,
                                      <<"fromIp", c>>, <<"stack", c>>}
      <4>1. PICK c \in Cell : i \in {<<"core", c>>, <<"fromX2", c>>,
                                      <<"fromIp", c>>, <<"stack", c>>}
        BY <3>1
      <4>2. co[c] \in T /\ fx[c] \in T /\ fi[c] \in T /\ st[c] \in T
        OBVIOUS
      <4> QED BY <1>4, <4>1, <4>2
    <3>2. CASE \E l \in Link : i = <<"x2", l>>
      BY <1>5, <3>2
    <3> QED BY <1>1, <3>1, <3>2
  <2>2. B = [i \in QueueId |-> B[i]]
    BY DEF Bundle
  <2> HIDE DEF B
  <2> QED BY <2>1, <2>2
<1> HIDE DEF B
<1>7. Holds(B, T, co, xd, fx, fi, st)
  BY <1>1, <1>2, <1>3, <1>4, <1>5, <1>6 DEF Holds
<1> QED BY <1>7 DEF B

LEMMA UniqueLemma ==
    ASSUME NEW T, NEW co, NEW xd, NEW fx, NEW fi, NEW st, NEW A, NEW B,
           Holds(A, T, co, xd, fx, fi, st), Holds(B, T, co, xd, fx, fi, st)
    PROVE  A = B
<1>1. A \in [QueueId -> T] /\ B \in [QueueId -> T]
  BY DEF Holds
<1>2. ASSUME NEW i \in QueueId PROVE A[i] = B[i]
  <2>1. CASE \E c \in Cell : i \in {<<"core", c>>, <<"fromX2", c>>, <<"fromIp", c>>, <<"stack", c>>}
    <3>1. PICK c \in Cell : i \in {<<"core", c>>, <<"fromX2", c>>, <<"fromIp", c>>, <<"stack", c>>}
      BY <2>1
    <3>2. /\ A[<<"core", c>>] = B[<<"core", c>>] /\ A[<<"fromX2", c>>] = B[<<"fromX2", c>>]
          /\ A[<<"fromIp", c>>] = B[<<"fromIp", c>>] /\ A[<<"stack", c>>] = B[<<"stack", c>>]
      BY DEF Holds
    <3> QED BY <3>1, <3>2
  <2>2. CASE \E l \in Link : i = <<"x2", l>>
    BY <2>2 DEF Holds
  <2> QED BY <2>1, <2>2 DEF Holds
<1> QED BY <1>1, <1>2

\* A change of one queue is one of the family.
Put(f, k, e) == [f EXCEPT ![k] = e]

LEMMA PutCoreLemma ==
    ASSUME NEW T, NEW co \in [Cell -> T], NEW xd \in [Link -> T], NEW fx \in [Cell -> T],
           NEW fi \in [Cell -> T], NEW st \in [Cell -> T], NEW e \in T, NEW k \in Cell
    PROVE  Bundle(Put(co, k, e), xd, fx, fi, st)
               = Put(Bundle(co, xd, fx, fi, st), <<"core", k>>, e)
<1> DEFINE B == Bundle(co, xd, fx, fi, st)
           f == Put(co, k, e)
           A == Put(B, <<"core", k>>, e)
<1>1. Holds(B, T, co, xd, fx, fi, st)
  BY BundleLemma
<1>2. f \in [Cell -> T] /\ f[k] = e /\ \A j \in Cell : j # k => f[j] = co[j]
  BY DEF Put
<1> HIDE DEF B, f
<1>3. /\ A \in [QueueId -> T] /\ A[<<"core", k>>] = e
      /\ \A i \in QueueId : i # <<"core", k>> => A[i] = B[i]
  BY <1>1 DEF Holds, Put
<1> HIDE DEF A
<1>4. Holds(A, T, f, xd, fx, fi, st)
  BY <1>1, <1>2, <1>3 DEF Holds
<1>5. Holds(Bundle(f, xd, fx, fi, st), T, f, xd, fx, fi, st)
  BY <1>2, BundleLemma
<1>6. A = Bundle(f, xd, fx, fi, st)
  BY <1>4, <1>5, UniqueLemma
<1> QED BY <1>6 DEF A, B, f

LEMMA PutFromX2Lemma ==
    ASSUME NEW T, NEW co \in [Cell -> T], NEW xd \in [Link -> T], NEW fx \in [Cell -> T],
           NEW fi \in [Cell -> T], NEW st \in [Cell -> T], NEW e \in T, NEW k \in Cell
    PROVE  Bundle(co, xd, Put(fx, k, e), fi, st)
               = Put(Bundle(co, xd, fx, fi, st), <<"fromX2", k>>, e)
<1> DEFINE B == Bundle(co, xd, fx, fi, st)
           f == Put(fx, k, e)
           A == Put(B, <<"fromX2", k>>, e)
<1>1. Holds(B, T, co, xd, fx, fi, st)
  BY BundleLemma
<1>2. f \in [Cell -> T] /\ f[k] = e /\ \A j \in Cell : j # k => f[j] = fx[j]
  BY DEF Put
<1> HIDE DEF B, f
<1>3. /\ A \in [QueueId -> T] /\ A[<<"fromX2", k>>] = e
      /\ \A i \in QueueId : i # <<"fromX2", k>> => A[i] = B[i]
  BY <1>1 DEF Holds, Put
<1> HIDE DEF A
<1>4. Holds(A, T, co, xd, f, fi, st)
  BY <1>1, <1>2, <1>3 DEF Holds
<1>5. Holds(Bundle(co, xd, f, fi, st), T, co, xd, f, fi, st)
  BY <1>2, BundleLemma
<1>6. A = Bundle(co, xd, f, fi, st)
  BY <1>4, <1>5, UniqueLemma
<1> QED BY <1>6 DEF A, B, f

LEMMA PutFromIpLemma ==
    ASSUME NEW T, NEW co \in [Cell -> T], NEW xd \in [Link -> T], NEW fx \in [Cell -> T],
           NEW fi \in [Cell -> T], NEW st \in [Cell -> T], NEW e \in T, NEW k \in Cell
    PROVE  Bundle(co, xd, fx, Put(fi, k, e), st)
               = Put(Bundle(co, xd, fx, fi, st), <<"fromIp", k>>, e)
<1> DEFINE B == Bundle(co, xd, fx, fi, st)
           f == Put(fi, k, e)
           A == Put(B, <<"fromIp", k>>, e)
<1>1. Holds(B, T, co, xd, fx, fi, st)
  BY BundleLemma
<1>2. f \in [Cell -> T] /\ f[k] = e /\ \A j \in Cell : j # k => f[j] = fi[j]
  BY DEF Put
<1> HIDE DEF B, f
<1>3. /\ A \in [QueueId -> T] /\ A[<<"fromIp", k>>] = e
      /\ \A i \in QueueId : i # <<"fromIp", k>> => A[i] = B[i]
  BY <1>1 DEF Holds, Put
<1> HIDE DEF A
<1>4. Holds(A, T, co, xd, fx, f, st)
  BY <1>1, <1>2, <1>3 DEF Holds
<1>5. Holds(Bundle(co, xd, fx, f, st), T, co, xd, fx, f, st)
  BY <1>2, BundleLemma
<1>6. A = Bundle(co, xd, fx, f, st)
  BY <1>4, <1>5, UniqueLemma
<1> QED BY <1>6 DEF A, B, f

LEMMA PutStackLemma ==
    ASSUME NEW T, NEW co \in [Cell -> T], NEW xd \in [Link -> T], NEW fx \in [Cell -> T],
           NEW fi \in [Cell -> T], NEW st \in [Cell -> T], NEW e \in T, NEW k \in Cell
    PROVE  Bundle(co, xd, fx, fi, Put(st, k, e))
               = Put(Bundle(co, xd, fx, fi, st), <<"stack", k>>, e)
<1> DEFINE B == Bundle(co, xd, fx, fi, st)
           f == Put(st, k, e)
           A == Put(B, <<"stack", k>>, e)
<1>1. Holds(B, T, co, xd, fx, fi, st)
  BY BundleLemma
<1>2. f \in [Cell -> T] /\ f[k] = e /\ \A j \in Cell : j # k => f[j] = st[j]
  BY DEF Put
<1> HIDE DEF B, f
<1>3. /\ A \in [QueueId -> T] /\ A[<<"stack", k>>] = e
      /\ \A i \in QueueId : i # <<"stack", k>> => A[i] = B[i]
  BY <1>1 DEF Holds, Put
<1> HIDE DEF A
<1>4. Holds(A, T, co, xd, fx, fi, f)
  BY <1>1, <1>2, <1>3 DEF Holds
<1>5. Holds(Bundle(co, xd, fx, fi, f), T, co, xd, fx, fi, f)
  BY <1>2, BundleLemma
<1>6. A = Bundle(co, xd, fx, fi, f)
  BY <1>4, <1>5, UniqueLemma
<1> QED BY <1>6 DEF A, B, f

LEMMA PutX2Lemma ==
    ASSUME NEW T, NEW co \in [Cell -> T], NEW xd \in [Link -> T], NEW fx \in [Cell -> T],
           NEW fi \in [Cell -> T], NEW st \in [Cell -> T], NEW e \in T, NEW k \in Link
    PROVE  Bundle(co, Put(xd, k, e), fx, fi, st)
               = Put(Bundle(co, xd, fx, fi, st), <<"x2", k>>, e)
<1> DEFINE B == Bundle(co, xd, fx, fi, st)
           f == Put(xd, k, e)
           A == Put(B, <<"x2", k>>, e)
<1>1. Holds(B, T, co, xd, fx, fi, st)
  BY BundleLemma
<1>2. f \in [Link -> T] /\ f[k] = e /\ \A j \in Link : j # k => f[j] = xd[j]
  BY DEF Put
<1> HIDE DEF B, f
<1>3. /\ A \in [QueueId -> T] /\ A[<<"x2", k>>] = e
      /\ \A i \in QueueId : i # <<"x2", k>> => A[i] = B[i]
  BY <1>1 DEF Holds, Put
<1> HIDE DEF A
<1>4. Holds(A, T, co, f, fx, fi, st)
  BY <1>1, <1>2, <1>3 DEF Holds
<1>5. Holds(Bundle(co, f, fx, fi, st), T, co, f, fx, fi, st)
  BY <1>2, BundleLemma
<1>6. A = Bundle(co, f, fx, fi, st)
  BY <1>4, <1>5, UniqueLemma
<1> QED BY <1>6 DEF A, B, f

Typed(S) ==
    /\ core \in [Cell -> Seq(S)] /\ x2Data \in [Link -> Seq(S)]
    /\ hoFromX2 \in [Cell -> Seq(S)] /\ hoFromIp \in [Cell -> Seq(S)]
    /\ stack \in [Cell -> Seq(S)]

LEMMA TypedLemma == ASSUME TypeOK PROVE Typed(1 .. downSent)
  BY DEF TypeOK, Typed

LEMMA QueuesLemma ==
    ASSUME NEW S, Typed(S)
    PROVE  /\ Holds(Queues, Seq(S), core, x2Data, hoFromX2, hoFromIp, stack)
           /\ Queues \in [QueueId -> Seq(S)]
<1>1. Holds(Queues, Seq(S), core, x2Data, hoFromX2, hoFromIp, stack)
  BY BundleLemma DEF Typed, Queues
<1> QED BY <1>1 DEF Holds

\* What is pending is what is in the queues.
Pending == InTunnels \cup InQueues

LEMMA PendingLemma == ASSUME TypeOK PROVE Pending = All(Queues)
<1>1. Typed(1 .. downSent) /\ DOMAIN Queues = QueueId
      /\ Holds(Queues, Seq(1 .. downSent), core, x2Data, hoFromX2, hoFromIp, stack)
  BY TypedLemma, QueuesLemma
<1>2. ASSUME NEW p \in Pending PROVE p \in All(Queues)
  <2>1. ASSUME NEW i \in QueueId, p \in Elements(Queues[i]) PROVE p \in All(Queues)
    BY <1>1, <2>1 DEF All
  <2>2. ASSUME NEW l \in Link, p \in Elements(x2Data[l]) PROVE p \in All(Queues)
    BY <1>1, <2>1, <2>2 DEF Holds
  <2>3. ASSUME NEW c \in Cell,
               p \in Elements(core[c]) \cup Elements(hoFromX2[c]) \cup Elements(hoFromIp[c])
                         \cup Elements(stack[c])
        PROVE  p \in All(Queues)
    <3>1. /\ <<"core", c>> \in QueueId /\ Queues[<<"core", c>>] = core[c]
          /\ <<"fromX2", c>> \in QueueId /\ Queues[<<"fromX2", c>>] = hoFromX2[c]
          /\ <<"fromIp", c>> \in QueueId /\ Queues[<<"fromIp", c>>] = hoFromIp[c]
          /\ <<"stack", c>> \in QueueId /\ Queues[<<"stack", c>>] = stack[c]
      BY <1>1 DEF Holds
    <3> QED BY <2>1, <2>3, <3>1
  <2> QED BY <1>2, <2>2, <2>3 DEF Pending, InTunnels, InQueues
<1>3. ASSUME NEW p \in All(Queues) PROVE p \in Pending
  <2>1. PICK i \in QueueId : p \in Elements(Queues[i])
    BY <1>1, <1>3 DEF All
  <2>2. p \in 1 .. downSent
    <3>1. Queues[i] \in Seq(1 .. downSent)
      BY <1>1 DEF Holds
    <3> QED BY <2>1, <3>1, ElementsLemma
  <2>3. CASE \E l \in Link : i = <<"x2", l>>
    BY <1>1, <2>1, <2>2, <2>3 DEF Holds, Pending, InTunnels
  <2>4. CASE \E c \in Cell : i \in {<<"core", c>>, <<"fromX2", c>>,
                                    <<"fromIp", c>>, <<"stack", c>>}
    <3>1. PICK c \in Cell : i \in {<<"core", c>>, <<"fromX2", c>>,
                                    <<"fromIp", c>>, <<"stack", c>>}
      BY <2>4
    <3>2. /\ Queues[<<"core", c>>] = core[c] /\ Queues[<<"fromX2", c>>] = hoFromX2[c]
          /\ Queues[<<"fromIp", c>>] = hoFromIp[c] /\ Queues[<<"stack", c>>] = stack[c]
      BY <1>1 DEF Holds
    <3>3. p \in Elements(core[c]) \cup Elements(hoFromX2[c]) \cup Elements(hoFromIp[c])
                         \cup Elements(stack[c])
      BY <2>1, <3>1, <3>2
    <3> QED BY <2>2, <3>3 DEF Pending, InTunnels, InQueues
  <2> QED BY <1>1, <2>3, <2>4 DEF Holds
<1> QED BY <1>2, <1>3

-----------------------------------------------------------------------------
(* What each action does to the queues *)

LEMMA QueuesPrime ==
    ASSUME NEW co, NEW xd, NEW fx, NEW fi, NEW st, core' = co, x2Data' = xd,
           hoFromX2' = fx, hoFromIp' = fi, stack' = st
    PROVE  Queues' = Bundle(co, xd, fx, fi, st)
  BY DEF Queues, Bundle, QueueId, Link

LEMMA PacketQueues ==
  ASSUME TypeOK, Once(Queues), NEW s \in Cell, NEW t \in Cell, ReceiveTunneledPacket(s, t)
  PROVE  Once(Queues') /\ All(Queues') = All(Queues)
<1> DEFINE S == 1 .. downSent
           T == Seq(S)
           l == <<s, t>>
           p == Head(x2Data[l])
           r == Tail(x2Data[l])
           q == Append(hoFromX2[t], p)
           fa == Put(x2Data, l, r)
           fb == Put(hoFromX2, t, q)
           Q1 == Bundle(core, fa, hoFromX2, hoFromIp, stack)
           Q2 == Bundle(core, fa, fb, hoFromIp, stack)
<1>1. /\ l \in Link /\ x2Data[l] # <<>>
      /\ core' = core /\ x2Data' = fa /\ hoFromX2' = fb
      /\ hoFromIp' = hoFromIp /\ stack' = stack
  BY DEF ReceiveTunneledPacket, Link, Put
<1>2. /\ core \in [Cell -> T] /\ x2Data \in [Link -> T] /\ hoFromX2 \in [Cell -> T]
      /\ hoFromIp \in [Cell -> T] /\ stack \in [Cell -> T] /\ Queues \in [QueueId -> T]
      /\ Holds(Queues, T, core, x2Data, hoFromX2, hoFromIp, stack)
  BY TypedLemma, QueuesLemma DEF Typed
<1>3. /\ <<"x2", l>> \in QueueId /\ Queues[<<"x2", l>>] = x2Data[l]
      /\ <<"fromX2", t>> \in QueueId
  BY <1>1, <1>2 DEF Holds
<1>4. p \in S /\ r \in T /\ q \in T
  <2>1. x2Data[l] \in Seq(S) /\ hoFromX2[t] \in Seq(S)
    BY <1>1, <1>2
  <2> HIDE DEF S, l
  <2>2. p \in S /\ r \in T
    BY <1>1, <2>1, ElementsLemma
  <2> HIDE DEF p
  <2>3. q \in T
    BY <2>1, <2>2, AppendLemma
  <2> QED BY <2>2, <2>3
<1>5. Queues' = Q2
  BY <1>1, QueuesPrime
<1> HIDE DEF S, T, l, p, r, q
<1>6. fa \in [Link -> T]
  BY <1>1, <1>2, <1>4 DEF Put
<1>7. Q1 = Pop(Queues, <<"x2", l>>)
  <2>1. Q1 = Put(Queues, <<"x2", l>>, r)
    BY <1>1, <1>2, <1>4, PutX2Lemma DEF Queues
  <2> QED BY <1>3, <2>1 DEF Pop, Put, r
<1> HIDE DEF fa
<1>8. Q2 = Push(Q1, <<"fromX2", t>>, p)
  <2>1. Holds(Q1, T, core, fa, hoFromX2, hoFromIp, stack)
    BY <1>2, <1>6, BundleLemma
  <2>2. Q1[<<"fromX2", t>>] = hoFromX2[t]
    BY <1>1, <2>1 DEF Holds
  <2>3. Q2 = Put(Q1, <<"fromX2", t>>, q)
    BY <1>1, <1>2, <1>4, <1>6, PutFromX2Lemma
  <2> HIDE DEF Q1
  <2> QED BY <2>2, <2>3 DEF Push, Put, q
<1> HIDE DEF Q1, Q2, fb
<1>9. /\ Once(Push(Pop(Queues, <<"x2", l>>), <<"fromX2", t>>, Head(Queues[<<"x2", l>>])))
      /\ All(Push(Pop(Queues, <<"x2", l>>), <<"fromX2", t>>, Head(Queues[<<"x2", l>>])))
             = All(Queues)
  BY <1>1, <1>2, <1>3, MoveLemma DEF T
<1> QED BY <1>3, <1>5, <1>7, <1>8, <1>9 DEF p

LEMMA ForwardQueues ==
  ASSUME TypeOK, Once(Queues), NEW c \in Cell, FromIpBs(c), Forward(c, Head(core[c]))
  PROVE  Once(Queues') /\ All(Queues') = All(Queues)
<1> DEFINE S == 1 .. downSent
           T == Seq(S)
           l == <<c, hoForwarding[c]>>
           p == Head(core[c])
           r == Tail(core[c])
           q == Append(x2Data[l], p)
           fa == Put(core, c, r)
           fb == Put(x2Data, l, q)
           Q1 == Bundle(fa, x2Data, hoFromX2, hoFromIp, stack)
           Q2 == Bundle(fa, fb, hoFromX2, hoFromIp, stack)
<1>1. /\ l \in Link /\ core[c] # <<>>
      /\ core' = fa /\ x2Data' = fb /\ hoFromX2' = hoFromX2
      /\ hoFromIp' = hoFromIp /\ stack' = stack
  BY DEF FromIpBs, Forward, Link, TypeOK, Place, Put
<1>2. /\ core \in [Cell -> T] /\ x2Data \in [Link -> T] /\ hoFromX2 \in [Cell -> T]
      /\ hoFromIp \in [Cell -> T] /\ stack \in [Cell -> T] /\ Queues \in [QueueId -> T]
      /\ Holds(Queues, T, core, x2Data, hoFromX2, hoFromIp, stack)
  BY TypedLemma, QueuesLemma DEF Typed
<1>3. /\ <<"core", c>> \in QueueId /\ Queues[<<"core", c>>] = core[c]
      /\ <<"x2", l>> \in QueueId
  BY <1>1, <1>2 DEF Holds
<1>4. p \in S /\ r \in T /\ q \in T
  <2>1. core[c] \in Seq(S) /\ x2Data[l] \in Seq(S)
    BY <1>1, <1>2
  <2> HIDE DEF S, l
  <2>2. p \in S /\ r \in T
    BY <1>1, <2>1, ElementsLemma
  <2> HIDE DEF p
  <2>3. q \in T
    BY <2>1, <2>2, AppendLemma
  <2> QED BY <2>2, <2>3
<1>5. Queues' = Q2
  BY <1>1, QueuesPrime
<1> HIDE DEF S, T, l, p, r, q
<1>6. fa \in [Cell -> T]
  BY <1>1, <1>2, <1>4 DEF Put
<1>7. Q1 = Pop(Queues, <<"core", c>>)
  <2>1. Q1 = Put(Queues, <<"core", c>>, r)
    BY <1>1, <1>2, <1>4, PutCoreLemma DEF Queues
  <2> QED BY <1>3, <2>1 DEF Pop, Put, r
<1> HIDE DEF fa
<1>8. Q2 = Push(Q1, <<"x2", l>>, p)
  <2>1. Holds(Q1, T, fa, x2Data, hoFromX2, hoFromIp, stack)
    BY <1>2, <1>6, BundleLemma
  <2>2. Q1[<<"x2", l>>] = x2Data[l]
    BY <1>1, <2>1 DEF Holds
  <2>3. Q2 = Put(Q1, <<"x2", l>>, q)
    BY <1>1, <1>2, <1>4, <1>6, PutX2Lemma
  <2> HIDE DEF Q1
  <2> QED BY <2>2, <2>3 DEF Push, Put, q
<1> HIDE DEF Q1, Q2, fb
<1>9. /\ Once(Push(Pop(Queues, <<"core", c>>), <<"x2", l>>, Head(Queues[<<"core", c>>])))
      /\ All(Push(Pop(Queues, <<"core", c>>), <<"x2", l>>, Head(Queues[<<"core", c>>])))
             = All(Queues)
  BY <1>1, <1>2, <1>3, MoveLemma DEF T
<1> QED BY <1>3, <1>5, <1>7, <1>8, <1>9 DEF p

LEMMA HoldQueues ==
  ASSUME TypeOK, Once(Queues), NEW c \in Cell, FromIpBs(c), Hold(c, Head(core[c]))
  PROVE  Once(Queues') /\ All(Queues') = All(Queues)
<1> DEFINE S == 1 .. downSent
           T == Seq(S)
           p == Head(core[c])
           r == Tail(core[c])
           q == Append(hoFromIp[c], p)
           fa == Put(core, c, r)
           fb == Put(hoFromIp, c, q)
           Q1 == Bundle(fa, x2Data, hoFromX2, hoFromIp, stack)
           Q2 == Bundle(fa, x2Data, hoFromX2, fb, stack)
<1>1. /\ c \in Cell /\ core[c] # <<>>
      /\ core' = fa /\ x2Data' = x2Data /\ hoFromX2' = hoFromX2
      /\ hoFromIp' = fb /\ stack' = stack
  BY DEF FromIpBs, Hold, Put
<1>2. /\ core \in [Cell -> T] /\ x2Data \in [Link -> T] /\ hoFromX2 \in [Cell -> T]
      /\ hoFromIp \in [Cell -> T] /\ stack \in [Cell -> T] /\ Queues \in [QueueId -> T]
      /\ Holds(Queues, T, core, x2Data, hoFromX2, hoFromIp, stack)
  BY TypedLemma, QueuesLemma DEF Typed
<1>3. /\ <<"core", c>> \in QueueId /\ Queues[<<"core", c>>] = core[c]
      /\ <<"fromIp", c>> \in QueueId
  BY <1>1, <1>2 DEF Holds
<1>4. p \in S /\ r \in T /\ q \in T
  <2>1. core[c] \in Seq(S) /\ hoFromIp[c] \in Seq(S)
    BY <1>1, <1>2
  <2> HIDE DEF S
  <2>2. p \in S /\ r \in T
    BY <1>1, <2>1, ElementsLemma
  <2> HIDE DEF p
  <2>3. q \in T
    BY <2>1, <2>2, AppendLemma
  <2> QED BY <2>2, <2>3
<1>5. Queues' = Q2
  BY <1>1, QueuesPrime
<1> HIDE DEF S, T, p, r, q
<1>6. fa \in [Cell -> T]
  BY <1>1, <1>2, <1>4 DEF Put
<1>7. Q1 = Pop(Queues, <<"core", c>>)
  <2>1. Q1 = Put(Queues, <<"core", c>>, r)
    BY <1>1, <1>2, <1>4, PutCoreLemma DEF Queues
  <2> QED BY <1>3, <2>1 DEF Pop, Put, r
<1> HIDE DEF fa
<1>8. Q2 = Push(Q1, <<"fromIp", c>>, p)
  <2>1. Holds(Q1, T, fa, x2Data, hoFromX2, hoFromIp, stack)
    BY <1>2, <1>6, BundleLemma
  <2>2. Q1[<<"fromIp", c>>] = hoFromIp[c]
    BY <1>1, <2>1 DEF Holds
  <2>3. Q2 = Put(Q1, <<"fromIp", c>>, q)
    BY <1>1, <1>2, <1>4, <1>6, PutFromIpLemma
  <2> HIDE DEF Q1
  <2> QED BY <2>2, <2>3 DEF Push, Put, q
<1> HIDE DEF Q1, Q2, fb
<1>9. /\ Once(Push(Pop(Queues, <<"core", c>>), <<"fromIp", c>>, Head(Queues[<<"core", c>>])))
      /\ All(Push(Pop(Queues, <<"core", c>>), <<"fromIp", c>>, Head(Queues[<<"core", c>>])))
             = All(Queues)
  BY <1>1, <1>2, <1>3, MoveLemma DEF T
<1> QED BY <1>3, <1>5, <1>7, <1>8, <1>9 DEF p

LEMMA ToStackQueues ==
  ASSUME TypeOK, Once(Queues), NEW c \in Cell, FromIpBs(c), ToStackBs(c, Head(core[c])), serving # NoCell
  PROVE  Once(Queues') /\ All(Queues') = All(Queues)
<1> DEFINE S == 1 .. downSent
           T == Seq(S)
           p == Head(core[c])
           r == Tail(core[c])
           q == Append(stack[c], p)
           fa == Put(core, c, r)
           fb == Put(stack, c, q)
           Q1 == Bundle(fa, x2Data, hoFromX2, hoFromIp, stack)
           Q2 == Bundle(fa, x2Data, hoFromX2, hoFromIp, fb)
<1>1. /\ c \in Cell /\ core[c] # <<>>
      /\ core' = fa /\ x2Data' = x2Data /\ hoFromX2' = hoFromX2
      /\ hoFromIp' = hoFromIp /\ stack' = fb
  BY DEF FromIpBs, ToStackBs, Put
<1>2. /\ core \in [Cell -> T] /\ x2Data \in [Link -> T] /\ hoFromX2 \in [Cell -> T]
      /\ hoFromIp \in [Cell -> T] /\ stack \in [Cell -> T] /\ Queues \in [QueueId -> T]
      /\ Holds(Queues, T, core, x2Data, hoFromX2, hoFromIp, stack)
  BY TypedLemma, QueuesLemma DEF Typed
<1>3. /\ <<"core", c>> \in QueueId /\ Queues[<<"core", c>>] = core[c]
      /\ <<"stack", c>> \in QueueId
  BY <1>1, <1>2 DEF Holds
<1>4. p \in S /\ r \in T /\ q \in T
  <2>1. core[c] \in Seq(S) /\ stack[c] \in Seq(S)
    BY <1>1, <1>2
  <2> HIDE DEF S
  <2>2. p \in S /\ r \in T
    BY <1>1, <2>1, ElementsLemma
  <2> HIDE DEF p
  <2>3. q \in T
    BY <2>1, <2>2, AppendLemma
  <2> QED BY <2>2, <2>3
<1>5. Queues' = Q2
  BY <1>1, QueuesPrime
<1> HIDE DEF S, T, p, r, q
<1>6. fa \in [Cell -> T]
  BY <1>1, <1>2, <1>4 DEF Put
<1>7. Q1 = Pop(Queues, <<"core", c>>)
  <2>1. Q1 = Put(Queues, <<"core", c>>, r)
    BY <1>1, <1>2, <1>4, PutCoreLemma DEF Queues
  <2> QED BY <1>3, <2>1 DEF Pop, Put, r
<1> HIDE DEF fa
<1>8. Q2 = Push(Q1, <<"stack", c>>, p)
  <2>1. Holds(Q1, T, fa, x2Data, hoFromX2, hoFromIp, stack)
    BY <1>2, <1>6, BundleLemma
  <2>2. Q1[<<"stack", c>>] = stack[c]
    BY <1>1, <2>1 DEF Holds
  <2>3. Q2 = Put(Q1, <<"stack", c>>, q)
    BY <1>1, <1>2, <1>4, <1>6, PutStackLemma
  <2> HIDE DEF Q1
  <2> QED BY <2>2, <2>3 DEF Push, Put, q
<1> HIDE DEF Q1, Q2, fb
<1>9. /\ Once(Push(Pop(Queues, <<"core", c>>), <<"stack", c>>, Head(Queues[<<"core", c>>])))
      /\ All(Push(Pop(Queues, <<"core", c>>), <<"stack", c>>, Head(Queues[<<"core", c>>])))
             = All(Queues)
  BY <1>1, <1>2, <1>3, MoveLemma DEF T
<1> QED BY <1>3, <1>5, <1>7, <1>8, <1>9 DEF p

LEMMA ToNobodyQueues ==
  ASSUME TypeOK, Once(Queues), NEW c \in Cell, FromIpBs(c), ToStackBs(c, Head(core[c])),
         serving = NoCell
  PROVE  /\ Head(core[c]) \in All(Queues) /\ Once(Queues')
         /\ All(Queues') = All(Queues) \ {Head(core[c])}
<1> DEFINE S == 1 .. downSent
           T == Seq(S)
           r == Tail(core[c])
           fa == Put(core, c, r)
           Q1 == Bundle(fa, x2Data, hoFromX2, hoFromIp, stack)
<1>1. /\ c \in Cell /\ core[c] # <<>>
      /\ core' = fa /\ x2Data' = x2Data /\ hoFromX2' = hoFromX2
      /\ hoFromIp' = hoFromIp /\ stack' = stack
  BY DEF FromIpBs, ToStackBs, Put
<1>2. /\ core \in [Cell -> T] /\ x2Data \in [Link -> T] /\ hoFromX2 \in [Cell -> T]
      /\ hoFromIp \in [Cell -> T] /\ stack \in [Cell -> T] /\ Queues \in [QueueId -> T]
      /\ Holds(Queues, T, core, x2Data, hoFromX2, hoFromIp, stack)
  BY TypedLemma, QueuesLemma DEF Typed
<1>3. <<"core", c>> \in QueueId /\ Queues[<<"core", c>>] = core[c]
  BY <1>1, <1>2 DEF Holds
<1>4. r \in T
  <2>1. core[c] \in Seq(S)
    BY <1>1, <1>2
  <2> HIDE DEF S
  <2> QED BY <1>1, <2>1, ElementsLemma
<1>5. Queues' = Q1
  BY <1>1, QueuesPrime
<1> HIDE DEF S, T, r
<1>6. Q1 = Pop(Queues, <<"core", c>>)
  <2>1. Q1 = Put(Queues, <<"core", c>>, r)
    BY <1>1, <1>2, <1>4, PutCoreLemma DEF Queues
  <2> QED BY <1>3, <2>1 DEF Pop, Put, r
<1> HIDE DEF Q1
<1> DEFINE i == <<"core", c>>
<1>7. /\ Head(Queues[i]) \in All(Queues) /\ Once(Pop(Queues, i))
      /\ All(Pop(Queues, i)) = All(Queues) \ {Head(Queues[i])}
  <2>1. Queues \in [QueueId -> Seq(S)] /\ i \in QueueId /\ Queues[i] # <<>>
    BY <1>1, <1>2, <1>3 DEF T
  <2> HIDE DEF i
  <2>2. /\ Pop(Queues, i) \in [QueueId -> Seq(S)] /\ Head(Queues[i]) \in All(Queues)
        /\ Once(Queues) => Once(Pop(Queues, i)) /\ All(Pop(Queues, i)) = All(Queues) \ {Head(Queues[i])}
    BY <2>1, PopLemma
  <2> QED BY <2>2
<1> QED BY <1>3, <1>5, <1>6, <1>7

LEMMA DeliverQueues ==
  ASSUME TypeOK, Once(Queues), Deliver
  PROVE  /\ Head(stack[serving]) \in All(Queues) /\ Once(Queues')
         /\ All(Queues') = All(Queues) \ {Head(stack[serving])}
<1> DEFINE S == 1 .. downSent
           T == Seq(S)
           r == Tail(stack[serving])
           fa == Put(stack, serving, r)
           Q1 == Bundle(core, x2Data, hoFromX2, hoFromIp, fa)
<1>1. /\ serving \in Cell /\ stack[serving] # <<>>
      /\ core' = core /\ x2Data' = x2Data /\ hoFromX2' = hoFromX2
      /\ hoFromIp' = hoFromIp /\ stack' = fa
  BY DEF Deliver, netVars, TypeOK, Place, Put
<1>2. /\ core \in [Cell -> T] /\ x2Data \in [Link -> T] /\ hoFromX2 \in [Cell -> T]
      /\ hoFromIp \in [Cell -> T] /\ stack \in [Cell -> T] /\ Queues \in [QueueId -> T]
      /\ Holds(Queues, T, core, x2Data, hoFromX2, hoFromIp, stack)
  BY TypedLemma, QueuesLemma DEF Typed
<1>3. <<"stack", serving>> \in QueueId /\ Queues[<<"stack", serving>>] = stack[serving]
  BY <1>1, <1>2 DEF Holds
<1>4. r \in T
  <2>1. stack[serving] \in Seq(S)
    BY <1>1, <1>2
  <2> HIDE DEF S
  <2> QED BY <1>1, <2>1, ElementsLemma
<1>5. Queues' = Q1
  BY <1>1, QueuesPrime
<1> HIDE DEF S, T, r
<1>6. Q1 = Pop(Queues, <<"stack", serving>>)
  <2>1. Q1 = Put(Queues, <<"stack", serving>>, r)
    BY <1>1, <1>2, <1>4, PutStackLemma DEF Queues
  <2> QED BY <1>3, <2>1 DEF Pop, Put, r
<1> HIDE DEF Q1
<1> DEFINE i == <<"stack", serving>>
<1>7. /\ Head(Queues[i]) \in All(Queues) /\ Once(Pop(Queues, i))
      /\ All(Pop(Queues, i)) = All(Queues) \ {Head(Queues[i])}
  <2>1. Queues \in [QueueId -> Seq(S)] /\ i \in QueueId /\ Queues[i] # <<>>
    BY <1>1, <1>2, <1>3 DEF T
  <2> HIDE DEF i
  <2>2. /\ Pop(Queues, i) \in [QueueId -> Seq(S)] /\ Head(Queues[i]) \in All(Queues)
        /\ Once(Queues) => Once(Pop(Queues, i)) /\ All(Pop(Queues, i)) = All(Queues) \ {Head(Queues[i])}
    BY <2>1, PopLemma
  <2> QED BY <2>2
<1> QED BY <1>3, <1>5, <1>6, <1>7

LEMMA AirLossQueues ==
  ASSUME TypeOK, Once(Queues), NEW c \in Cell, AirLoss(c)
  PROVE  /\ Head(stack[c]) \in All(Queues) /\ Once(Queues')
         /\ All(Queues') = All(Queues) \ {Head(stack[c])}
<1> DEFINE S == 1 .. downSent
           T == Seq(S)
           r == Tail(stack[c])
           fa == Put(stack, c, r)
           Q1 == Bundle(core, x2Data, hoFromX2, hoFromIp, fa)
<1>1. /\ c \in Cell /\ stack[c] # <<>>
      /\ core' = core /\ x2Data' = x2Data /\ hoFromX2' = hoFromX2
      /\ hoFromIp' = hoFromIp /\ stack' = fa
  BY DEF AirLoss, netVars, Put
<1>2. /\ core \in [Cell -> T] /\ x2Data \in [Link -> T] /\ hoFromX2 \in [Cell -> T]
      /\ hoFromIp \in [Cell -> T] /\ stack \in [Cell -> T] /\ Queues \in [QueueId -> T]
      /\ Holds(Queues, T, core, x2Data, hoFromX2, hoFromIp, stack)
  BY TypedLemma, QueuesLemma DEF Typed
<1>3. <<"stack", c>> \in QueueId /\ Queues[<<"stack", c>>] = stack[c]
  BY <1>1, <1>2 DEF Holds
<1>4. r \in T
  <2>1. stack[c] \in Seq(S)
    BY <1>1, <1>2
  <2> HIDE DEF S
  <2> QED BY <1>1, <2>1, ElementsLemma
<1>5. Queues' = Q1
  BY <1>1, QueuesPrime
<1> HIDE DEF S, T, r
<1>6. Q1 = Pop(Queues, <<"stack", c>>)
  <2>1. Q1 = Put(Queues, <<"stack", c>>, r)
    BY <1>1, <1>2, <1>4, PutStackLemma DEF Queues
  <2> QED BY <1>3, <2>1 DEF Pop, Put, r
<1> HIDE DEF Q1
<1> DEFINE i == <<"stack", c>>
<1>7. /\ Head(Queues[i]) \in All(Queues) /\ Once(Pop(Queues, i))
      /\ All(Pop(Queues, i)) = All(Queues) \ {Head(Queues[i])}
  <2>1. Queues \in [QueueId -> Seq(S)] /\ i \in QueueId /\ Queues[i] # <<>>
    BY <1>1, <1>2, <1>3 DEF T
  <2> HIDE DEF i
  <2>2. /\ Pop(Queues, i) \in [QueueId -> Seq(S)] /\ Head(Queues[i]) \in All(Queues)
        /\ Once(Queues) => Once(Pop(Queues, i)) /\ All(Pop(Queues, i)) = All(Queues) \ {Head(Queues[i])}
    BY <2>1, PopLemma
  <2> QED BY <2>2
<1> QED BY <1>3, <1>5, <1>6, <1>7

LEMMA PutPutFromX2Lemma ==
    ASSUME NEW T, NEW co \in [Cell -> T], NEW xd \in [Link -> T],
           NEW fx \in [Cell -> T], NEW fi \in [Cell -> T], NEW st \in [Cell -> T],
           NEW k \in Cell, NEW q \in T, NEW e \in T
    PROVE  Bundle(co, xd, Put(fx, k, e), fi, Put(st, k, q))
               = Put(Put(Bundle(co, xd, fx, fi, st), <<"stack", k>>, q), <<"fromX2", k>>, e)
<1> DEFINE st2 == Put(st, k, q)
           Q1 == Bundle(co, xd, fx, fi, st2)
<1>1. st2 \in [Cell -> T]
  BY DEF Put
<1>2. Q1 = Put(Bundle(co, xd, fx, fi, st), <<"stack", k>>, q)
  BY PutStackLemma
<1> HIDE DEF st2
<1>3. Bundle(co, xd, Put(fx, k, e), fi, st2) = Put(Q1, <<"fromX2", k>>, e)
  BY <1>1, PutFromX2Lemma
<1> HIDE DEF Q1
<1> QED BY <1>2, <1>3 DEF st2

LEMMA PutPutFromIpLemma ==
    ASSUME NEW T, NEW co \in [Cell -> T], NEW xd \in [Link -> T],
           NEW fx \in [Cell -> T], NEW fi \in [Cell -> T], NEW st \in [Cell -> T],
           NEW k \in Cell, NEW q \in T, NEW e \in T
    PROVE  Bundle(co, xd, fx, Put(fi, k, e), Put(st, k, q))
               = Put(Put(Bundle(co, xd, fx, fi, st), <<"stack", k>>, q), <<"fromIp", k>>, e)
<1> DEFINE st2 == Put(st, k, q)
           Q1 == Bundle(co, xd, fx, fi, st2)
<1>1. st2 \in [Cell -> T]
  BY DEF Put
<1>2. Q1 = Put(Bundle(co, xd, fx, fi, st), <<"stack", k>>, q)
  BY PutStackLemma
<1> HIDE DEF st2
<1>3. Bundle(co, xd, fx, Put(fi, k, e), st2) = Put(Q1, <<"fromIp", k>>, e)
  BY <1>1, PutFromIpLemma
<1> HIDE DEF Q1
<1> QED BY <1>2, <1>3 DEF st2

LEMMA DoHandoverQueues ==
  ASSUME TypeOK, UeInv, Once(Queues), DoHandover
  PROVE  /\ Once(Queues')
         /\ All(Queues') = IF serving = NoCell THEN All(Queues)
                                               ELSE All(Queues) \ Elements(stack[serving])
         /\ serving # NoCell => Elements(stack[serving]) \subseteq All(Queues)
<1> DEFINE S == 1 .. downSent
           T == Seq(S)
           e == <<>>
           i == <<"stack", serving>>
           st1 == Put(stack, serving, e)
           Q1 == Bundle(core, x2Data, hoFromX2, hoFromIp, st1)
<1>1. x2Data' = x2Data /\ core' = core
  BY DEF DoHandover
<1>2. /\ core \in [Cell -> T] /\ x2Data \in [Link -> T] /\ hoFromX2 \in [Cell -> T]
      /\ hoFromIp \in [Cell -> T] /\ stack \in [Cell -> T] /\ Queues \in [QueueId -> T]
      /\ Holds(Queues, T, core, x2Data, hoFromX2, hoFromIp, stack)
  BY TypedLemma, QueuesLemma DEF Typed
<1>0. e \in T
  OBVIOUS
<1> HIDE DEF S, e
<1>3. CASE serving = NoCell
  <2>1. /\ stack' = [c \in Cell |-> IF c = serving THEN <<>> ELSE stack[c]]
        /\ UNCHANGED <<hoFromX2, hoFromIp>>
    BY <1>3 DEF DoHandover
  <2>2. stack' = stack
    BY <1>2, <1>3, <2>1, CellAssumption
  <2>3. Queues' = Queues
    BY <1>1, <2>1, <2>2, QueuesPrime DEF Queues
  <2> QED BY <1>3, <2>3
<1>4. CASE serving # NoCell
  <2>1. serving \in Cell /\ target \in Place
    BY <1>4 DEF DoHandover, SC!Complete, TypeOK, Place
  <2>2. i \in QueueId /\ Queues[i] = stack[serving]
    BY <1>2, <2>1 DEF Holds
  <2>3. st1 \in [Cell -> T]
    BY <1>0, <1>2 DEF Put
  <2>4. Q1 = Clear(Queues, i)
    <3> HIDE DEF T
    <3>1. Q1 = Put(Queues, i, e)
      BY <1>0, <1>2, <2>1, PutStackLemma DEF Queues
    <3> QED BY <3>1 DEF Clear, Put, e
  <2>5. /\ Q1 \in [QueueId -> T] /\ Once(Q1) /\ All(Q1) = All(Queues) \ Elements(stack[serving])
        /\ Elements(stack[serving]) \subseteq All(Queues)
    <3>2. Queues \in [QueueId -> Seq(S)] /\ i \in QueueId
      BY <1>2, <2>2
    <3> HIDE DEF i, Q1
    <3>1. /\ Clear(Queues, i) \in [QueueId -> T] /\ Elements(Queues[i]) \subseteq All(Queues)
          /\ Once(Queues) => Once(Clear(Queues, i))
                             /\ All(Clear(Queues, i)) = All(Queues) \ Elements(Queues[i])
      BY <3>2, ClearLemma
    <3> QED BY <2>2, <2>4, <3>1
  <2>6. CASE target = NoCell
    <3>1. /\ stack' = [c \in Cell |-> IF c = serving THEN <<>> ELSE stack[c]]
          /\ UNCHANGED <<hoFromX2, hoFromIp>>
      BY <2>6 DEF DoHandover
    <3>2. stack' = st1
      BY <1>2, <3>1 DEF Put, e
    <3> HIDE DEF st1
    <3>3. Queues' = Q1
      BY <1>1, <3>1, <3>2, QueuesPrime
    <3> HIDE DEF Q1
    <3> QED BY <1>4, <2>5, <3>3
  <2>7. CASE target \in Cell
    <3> DEFINE q2 == st1[target] \o hoFromX2[target]
               st2 == Put(st1, target, q2)
               q3 == st2[target] \o hoFromIp[target]
               st3 == Put(st2, target, q3)
               fx2 == Put(hoFromX2, target, e)
               fi3 == Put(hoFromIp, target, e)
               a == <<"stack", target>>
               b == <<"fromX2", target>>
               d == <<"fromIp", target>>
               Q2 == Bundle(core, x2Data, fx2, hoFromIp, st2)
               Q3 == Bundle(core, x2Data, fx2, fi3, st3)
    <3>1. target # NoCell
      BY <2>7, CellAssumption
    <3>2. SignalHandoverCompleteTarget
      BY <1>4, <3>1 DEF DoHandover
    <3>3. hoFromX2' = fx2 /\ hoFromIp' = fi3
      BY <3>2 DEF SignalHandoverCompleteTarget, Put, e
    <3>4. stack' = st3
      <4> DEFINE q == hoFromX2[target]
                 u == hoFromIp[target]
      <4>1. target # serving
        BY DEF UeInv
      <4>2. \A c \in Cell : stack'[c] = IF c = target THEN stack[c] \o q \o u
                                        ELSE IF c = serving THEN e ELSE stack[c]
        <5>1. stack' = [stack EXCEPT ![serving] = <<>>, ![target] = @ \o q \o u]
          BY <3>2 DEF SignalHandoverCompleteTarget
        <5> HIDE DEF q, u
        <5> QED BY <1>2, <2>1, <2>7, <4>1, <5>1 DEF e
      <4>3. stack' = [c \in Cell |-> stack'[c]]
        BY <1>2, <3>2 DEF SignalHandoverCompleteTarget
      <4> HIDE DEF q, u
      <4>4. st1[target] = stack[target]
        BY <1>2, <2>7, <4>1 DEF Put
      <4>5. \A c \in Cell : c # target => st1[c] = IF c = serving THEN e ELSE stack[c]
        BY <1>2, <2>1 DEF Put
      <4> HIDE DEF st1
      <4>6. st2[target] = q2 /\ \A c \in Cell : c # target => st2[c] = st1[c]
        BY <2>3, <2>7 DEF Put
      <4>7. st3[target] = q3 /\ \A c \in Cell : c # target => st3[c] = st2[c]
        BY <2>3, <2>7 DEF Put
      <4>8. q3 = stack[target] \o q \o u
        BY <4>4, <4>6 DEF q, u
      <4>9. st3 = [c \in Cell |-> st3[c]]
        BY <2>3 DEF Put
      <4> HIDE DEF st2, st3, q3
      <4>10. \A c \in Cell : stack'[c] = st3[c]
        BY <4>2, <4>5, <4>6, <4>7, <4>8
      <4> QED BY <4>3, <4>9, <4>10
    <3>5. /\ st2 \in [Cell -> T] /\ fx2 \in [Cell -> T] /\ Q2 = Join(Q1, a, b)
      <4>1. hoFromX2[target] \in Seq(S) /\ st1[target] \in Seq(S)
        BY <1>2, <2>3, <2>7
      <4>2. q2 = st1[target] \o hoFromX2[target] /\ e = <<>>
        BY DEF e
      <4>0. q2 \in T /\ e \in T
        BY <1>0, <4>1, ConcatLemma
      <4>3. /\ core \in [Cell -> T] /\ x2Data \in [Link -> T] /\ hoFromX2 \in [Cell -> T]
            /\ hoFromIp \in [Cell -> T]
        BY <1>2
      <4>4. Holds(Q1, T, core, x2Data, hoFromX2, hoFromIp, st1)
        BY <2>3, <4>3, BundleLemma
      <4>5. Q1[a] = st1[target] /\ Q1[b] = hoFromX2[target]
        BY <2>7, <4>4 DEF Holds
      <4> HIDE DEF st1, T, q2, e
      <4>6. st2 \in [Cell -> T] /\ fx2 \in [Cell -> T]
        BY <2>3, <4>0, <4>3 DEF Put
      <4>7. Q2 = Put(Put(Q1, a, q2), b, e)
        BY <2>3, <2>7, <4>0, <4>3, PutPutFromX2Lemma
      <4> HIDE DEF Q1, Q2
      <4>8. Q2 = Join(Q1, a, b)
        BY <4>2, <4>5, <4>7 DEF Join, Put
      <4> QED BY <4>6, <4>8
    <3> HIDE DEF st2, fx2
    <3>6. Q3 = Join(Q2, a, d)
      <4>1. hoFromIp[target] \in Seq(S) /\ st2[target] \in Seq(S)
        BY <1>2, <3>5, <2>7
      <4>2. q3 = st2[target] \o hoFromIp[target] /\ e = <<>>
        BY DEF e
      <4>0. q3 \in T /\ e \in T
        BY <1>0, <4>1, ConcatLemma
      <4>3. /\ core \in [Cell -> T] /\ x2Data \in [Link -> T] /\ fx2 \in [Cell -> T]
            /\ hoFromIp \in [Cell -> T] /\ st2 \in [Cell -> T]
        BY <1>2, <3>5
      <4>4. Holds(Q2, T, core, x2Data, fx2, hoFromIp, st2)
        BY <4>3, BundleLemma
      <4>5. Q2[a] = st2[target] /\ Q2[d] = hoFromIp[target]
        BY <2>7, <4>4 DEF Holds
      <4> HIDE DEF T, q3, e
      <4>6. Q3 = Put(Put(Q2, a, q3), d, e)
        BY <2>7, <4>0, <4>3, PutPutFromIpLemma
      <4> HIDE DEF Q2, Q3
      <4> QED BY <4>2, <4>5, <4>6 DEF Join, Put
    <3>7. Queues' = Q3
      <4> HIDE DEF fi3, st3
      <4> QED BY <1>1, <3>3, <3>4, QueuesPrime
    <3>8. a \in QueueId /\ b \in QueueId /\ d \in QueueId /\ a # b /\ a # d
      BY <1>2, <2>7 DEF Holds
    <3> HIDE DEF Q1, Q2, Q3, a, b, d
    <3>9. Q2 \in [QueueId -> T] /\ All(Q2) = All(Q1) /\ Once(Q2)
      <4>1. /\ Join(Q1, a, b) \in [QueueId -> T] /\ All(Join(Q1, a, b)) = All(Q1)
            /\ Once(Q1) => Once(Join(Q1, a, b))
        BY <2>5, <3>8, JoinLemma
      <4> QED BY <2>5, <3>5, <4>1
    <3>10. All(Q3) = All(Q2) /\ Once(Q3)
      <4>1. /\ Join(Q2, a, d) \in [QueueId -> T] /\ All(Join(Q2, a, d)) = All(Q2)
            /\ Once(Q2) => Once(Join(Q2, a, d))
        BY <3>8, <3>9, JoinLemma
      <4> QED BY <3>6, <3>9, <4>1
    <3> QED BY <1>4, <2>5, <3>7, <3>9, <3>10
  <2> QED BY <2>1, <2>6, <2>7 DEF Place
<1> QED BY <1>3, <1>4

LEMMA SendQueues ==
  ASSUME TypeOK, Once(Queues), GatewaySend
  PROVE  LET p == downSent + 1
         IN  /\ p \notin All(Queues) /\ Once(Queues')
             /\ All(Queues') = IF serving = NoCell THEN All(Queues) ELSE All(Queues) \cup {p}
<1> DEFINE p == downSent + 1
           S == 1 .. p
           T == Seq(S)
           i == <<"core", serving>>
<1>1. /\ x2Data' = x2Data /\ hoFromX2' = hoFromX2 /\ hoFromIp' = hoFromIp /\ stack' = stack
      /\ core' = IF serving = NoCell THEN core ELSE Put(core, serving, Append(core[serving], p))
  BY DEF GatewaySend, cellVars, Put
<1>2. downSent \in Nat /\ 1 .. downSent \subseteq S /\ p \in S /\ p \notin 1 .. downSent
  BY DEF TypeOK
<1>3. Typed(S)
  <2>1. Seq(1 .. downSent) \subseteq T
    BY <1>2, WidenLemma
  <2> QED BY <2>1 DEF TypeOK, Typed
<1>4. /\ core \in [Cell -> T] /\ x2Data \in [Link -> T] /\ hoFromX2 \in [Cell -> T]
      /\ hoFromIp \in [Cell -> T] /\ stack \in [Cell -> T] /\ Queues \in [QueueId -> T]
      /\ Holds(Queues, T, core, x2Data, hoFromX2, hoFromIp, stack)
  BY <1>3, QueuesLemma DEF Typed
<1>5. p \notin All(Queues)
  <2>1. Pending = All(Queues)
    BY PendingLemma
  <2>2. Pending \subseteq 1 .. downSent
    BY DEF Pending, InTunnels, InQueues
  <2> QED BY <1>2, <2>1, <2>2
<1> HIDE DEF S, p
<1>6. CASE serving = NoCell
  <2>1. Queues' = Queues
    BY <1>1, <1>6, QueuesPrime DEF Queues
  <2> QED BY <1>5, <1>6, <2>1 DEF p
<1>7. CASE serving # NoCell
  <2> DEFINE q == Append(core[serving], p)
             co == Put(core, serving, q)
             Q1 == Bundle(co, x2Data, hoFromX2, hoFromIp, stack)
  <2>1. serving \in Cell
    BY <1>7 DEF TypeOK, Place
  <2>2. q \in T
    BY <1>2, <1>4, <2>1, AppendLemma
  <2>3. i \in QueueId /\ Queues[i] = core[serving]
    BY <1>4, <2>1 DEF Holds
  <2>4. Queues' = Q1
    BY <1>1, <1>7, QueuesPrime
  <2>5. Q1 = Push(Queues, i, p)
    <3> HIDE DEF T, q
    <3>1. Q1 = Put(Queues, i, q)
      BY <1>4, <2>1, <2>2, PutCoreLemma DEF Queues
    <3> QED BY <2>3, <3>1 DEF Push, Put, q
  <2> HIDE DEF Q1, i
  <2>6. /\ Push(Queues, i, p) \in [QueueId -> T] /\ All(Push(Queues, i, p)) = All(Queues) \cup {p}
        /\ Once(Queues) /\ p \notin All(Queues) => Once(Push(Queues, i, p))
    BY <1>2, <1>4, <2>3, PushLemma
  <2> QED BY <1>5, <1>7, <2>4, <2>5, <2>6 DEF p
<1> QED BY <1>6, <1>7

-----------------------------------------------------------------------------
(* The refinement *)

LEMMA PendingPrime == TypeOK' => Pending' = All(Queues')
<1>1. TypeOK => Pending = All(Queues)
  BY PendingLemma
<1>2. (TypeOK => Pending = All(Queues))'
  BY <1>1, PTL
<1> QED BY <1>2

\* The steps of Delivery, on what is pending.
LEMMA SendStep ==
  ASSUME NEW p \in 1 .. DownMax, p \notin Pending \cup lost \cup Elements(received),
         \/ Pending' = Pending \cup {p} /\ UNCHANGED <<received, lost>>
         \/ lost' = lost \cup {p} /\ Pending' = Pending /\ UNCHANGED received
  PROVE  D!Next
<1>1. D!Fresh(p)
  BY DEF D!Fresh, Pending, Elements
<1>2. D!Send(p) \/ D!Refuse(p)
  BY DEF D!Send, D!Refuse, Pending
<1> QED BY <1>1, <1>2 DEF D!Next

LEMMA DeliverStep ==
  ASSUME NEW p \in Pending, Pending' = Pending \ {p}, received' = Append(received, p),
         UNCHANGED lost
  PROVE  D!Next
<1>1. D!Deliver(p)
  BY DEF D!Deliver, Pending
<1> QED BY <1>1 DEF D!Next, Pending

LEMMA LoseStep ==
  ASSUME NEW P \in SUBSET Pending, Pending' = Pending \ P, lost' = lost \cup P,
         UNCHANGED received
  PROVE  D!Next
<1>1. D!Lose(P)
  BY DEF D!Lose, Pending
<1> QED BY <1>1 DEF D!Next, Pending

LEMMA Stutter == ASSUME UNCHANGED <<Pending, received, lost>> PROVE UNCHANGED D!vars
  BY DEF D!vars, Pending

LEMMA NextDelivers ==
  ASSUME TypeOK, TypeOK', UeInv, Once(Queues), [Next]_vars
  PROVE  Once(Queues') /\ [D!Next]_D!vars
<1> DEFINE Good == Once(Queues') /\ (D!Next \/ UNCHANGED D!vars)
<1>1. Pending = All(Queues) /\ Pending' = All(Queues')
  BY PendingLemma, PendingPrime
<1>2. ASSUME Once(Queues'), All(Queues') = All(Queues), UNCHANGED <<received, lost>>
      PROVE  Good
  BY <1>1, <1>2, Stutter
<1>3. ASSUME UNCHANGED <<core, x2Data, hoFromX2, hoFromIp, stack, received, lost>>
      PROVE  Good
  <2>1. Queues' = Queues
    BY <1>3, QueuesPrime DEF Queues
  <2> QED BY <1>2, <1>3, <2>1
<1>4. ASSUME NEW P \in SUBSET All(Queues), Once(Queues'), All(Queues') = All(Queues) \ P,
             lost' = lost \cup P, UNCHANGED received
      PROVE  Good
  BY <1>1, <1>4, LoseStep
<1>5. ASSUME NEW c \in Place, TriggerHandover(c) PROVE Good
  BY <1>3, <1>5 DEF TriggerHandover, downVars
<1>6. CASE DoHandover
  <2>1. /\ Once(Queues')
        /\ All(Queues') = IF serving = NoCell THEN All(Queues)
                                              ELSE All(Queues) \ Elements(stack[serving])
        /\ serving # NoCell => Elements(stack[serving]) \subseteq All(Queues)
    BY <1>6, DoHandoverQueues
  <2>2. /\ received' = received
        /\ lost' = IF serving = NoCell THEN lost ELSE lost \cup Elements(stack[serving])
    BY <1>6 DEF DoHandover
  <2>3. CASE serving = NoCell
    BY <1>2, <2>1, <2>2, <2>3
  <2>4. CASE serving # NoCell
    BY <1>4, <2>1, <2>2, <2>4
  <2> QED BY <2>3, <2>4
<1>7. ASSUME NEW s \in Cell, NEW t \in Cell, ReceiveHandoverCommand(s, t) PROVE Good
  BY <1>3, <1>7 DEF ReceiveHandoverCommand, downVars
<1>8. ASSUME NEW s \in Cell, NEW t \in Cell, ReceiveTunneledPacket(s, t) PROVE Good
  <2>1. UNCHANGED <<received, lost>>
    BY <1>8 DEF ReceiveTunneledPacket, downVars
  <2> QED BY <1>2, <1>8, <2>1, PacketQueues
<1>9. CASE GatewaySend
  <2> DEFINE p == downSent + 1
  <2>1. /\ p \notin All(Queues) /\ Once(Queues')
        /\ All(Queues') = IF serving = NoCell THEN All(Queues) ELSE All(Queues) \cup {p}
    BY <1>9, SendQueues
  <2>2. /\ received' = received
        /\ lost' = IF serving = NoCell THEN lost \cup {p} ELSE lost
    BY <1>9 DEF GatewaySend
  <2>3. p \in 1 .. DownMax /\ p \notin lost /\ p \notin Elements(received)
    <3>1. downSent \in Nat /\ downSent < DownMax /\ DownMax \in Nat
      BY <1>9, BoundAssumption DEF GatewaySend, TypeOK
    <3>2. lost \subseteq 1 .. downSent /\ Elements(received) \subseteq 1 .. downSent
      BY ElementsLemma DEF TypeOK
    <3> QED BY <3>1, <3>2
  <2> HIDE DEF p
  <2>4. p \notin Pending \cup lost \cup Elements(received)
    BY <1>1, <2>1, <2>3
  <2>5. CASE serving = NoCell
    BY <1>1, <2>1, <2>2, <2>3, <2>4, <2>5, SendStep
  <2>6. CASE serving # NoCell
    BY <1>1, <2>1, <2>2, <2>3, <2>4, <2>6, SendStep
  <2> QED BY <2>5, <2>6
<1>10. ASSUME NEW c \in Cell, FromIpBs(c) PROVE Good
  <2> DEFINE p == Head(core[c])
  <2>1. received' = received /\ (Forward(c, p) \/ Hold(c, p) \/ ToStackBs(c, p))
    BY <1>10 DEF FromIpBs
  <2>2. CASE Forward(c, p)
    BY <1>2, <1>10, <2>1, <2>2, ForwardQueues DEF Forward
  <2>3. CASE Hold(c, p)
    BY <1>2, <1>10, <2>1, <2>3, HoldQueues DEF Hold
  <2>4. CASE ToStackBs(c, p) /\ serving # NoCell
    BY <1>2, <1>10, <2>1, <2>4, ToStackQueues DEF ToStackBs
  <2>5. CASE ToStackBs(c, p) /\ serving = NoCell
    <3>1. p \in All(Queues) /\ Once(Queues') /\ All(Queues') = All(Queues) \ {p}
      BY <1>10, <2>5, ToNobodyQueues
    <3>2. lost' = lost \cup {p}
      BY <2>5 DEF ToStackBs
    <3> HIDE DEF p
    <3> QED BY <1>4, <2>1, <3>1, <3>2
  <2> QED BY <2>1, <2>2, <2>3, <2>4, <2>5
<1>11. ASSUME NEW c \in Cell, AirLoss(c) PROVE Good
  <2> DEFINE p == Head(stack[c])
  <2>1. p \in All(Queues) /\ Once(Queues') /\ All(Queues') = All(Queues) \ {p}
    BY <1>11, AirLossQueues
  <2>2. lost' = lost \cup {p} /\ received' = received
    BY <1>11 DEF AirLoss
  <2> HIDE DEF p
  <2> QED BY <1>4, <2>1, <2>2
<1>12. CASE Deliver
  <2> DEFINE p == Head(stack[serving])
  <2>1. p \in All(Queues) /\ Once(Queues') /\ All(Queues') = All(Queues) \ {p}
    BY <1>12, DeliverQueues
  <2>2. received' = Append(received, p) /\ lost' = lost
    BY <1>12 DEF Deliver
  <2> HIDE DEF p
  <2> QED BY <1>1, <2>1, <2>2, DeliverStep
<1>13. CASE FromIpUe
  BY <1>3, <1>13 DEF FromIpUe, cellVars, netVars, downVars
<1>14. CASE UNCHANGED vars
  BY <1>3, <1>14 DEF vars, cellVars, netVars, downVars
<1> QED
  BY <1>5, <1>6, <1>7, <1>8, <1>9, <1>10, <1>11, <1>12, <1>13, <1>14 DEF Next

LEMMA InitDelivers == Init => Once(Queues) /\ D!Init
<1> SUFFICES ASSUME Init PROVE Once(Queues) /\ D!Init
  OBVIOUS
<1>1. TypeOK
  BY InitTypeOK
<1>2. Holds(Queues, Seq(1 .. downSent), core, x2Data, hoFromX2, hoFromIp, stack)
  BY <1>1, TypedLemma, QueuesLemma
<1>3. ASSUME NEW i \in QueueId PROVE Queues[i] = <<>>
  <2>1. CASE \E l \in Link : i = <<"x2", l>>
    BY <1>2, <2>1 DEF Holds, Init
  <2>2. CASE \E c \in Cell : i \in {<<"core", c>>, <<"fromX2", c>>,
                                    <<"fromIp", c>>, <<"stack", c>>}
    <3>1. PICK c \in Cell : i \in {<<"core", c>>, <<"fromX2", c>>,
                                    <<"fromIp", c>>, <<"stack", c>>}
      BY <2>2
    <3>2. /\ Queues[<<"core", c>>] = core[c] /\ Queues[<<"fromX2", c>>] = hoFromX2[c]
          /\ Queues[<<"fromIp", c>>] = hoFromIp[c] /\ Queues[<<"stack", c>>] = stack[c]
      BY <1>2 DEF Holds
    <3> QED BY <3>1, <3>2 DEF Init
  <2> QED BY <1>2, <2>1, <2>2 DEF Holds
<1>4. DOMAIN Queues = QueueId
  BY <1>2 DEF Holds
<1>5. DOMAIN <<>> = {}
  OBVIOUS
<1>6. Once(Queues)
  BY <1>3, <1>4, <1>5 DEF Once
<1>7. Pending = {}
  BY <1>1, <1>3, <1>4, <1>5, PendingLemma DEF All, Elements
<1> QED BY <1>6, <1>7 DEF D!Init, Init, Pending

\* A packet sent to the UE is delivered at most once or lost, whatever handovers happen
\* and however slow the X2 commands are: no queue of a cell, tunnel or buffer duplicates
\* one or drops one unnoticed.
THEOREM Refinement == Spec => ImplementsDelivery
<1>1. Init => Once(Queues) /\ D!Init
  BY InitDelivers
<1>2. IInv /\ IInv' /\ Once(Queues) /\ [Next]_vars => Once(Queues') /\ [D!Next]_D!vars
  BY NextDelivers DEF IInv
<1>3. (Once(Queues))' <=> Once(Queues')
  OBVIOUS
<1> QED BY <1>1, <1>2, <1>3, Inductive, PTL DEF Spec, ImplementsDelivery, D!Spec
-----------------------------------------------------------------------------
(* In order: the packets that were in no tunnel when the UE changed its cell *)

\* In order but for the packets of X.
Sorted(s, X) == \A m, n \in DOMAIN s : m < n /\ s[m] \notin X /\ s[n] \notin X => s[m] < s[n]
Earlier(A, B, X) == \A p \in A \ X, q \in B \ X : p < q

AllSorted(f, X) == \A k \in DOMAIN f : Sorted(f[k], X)

\* Only the serving cell has packets in its stack that were never in a tunnel during a
\* change of cell, and none has held such a packet.
StrayInv ==
    x2InTime => \A c \in Cell :
        /\ c # serving => Elements(stack[c]) \subseteq displaced
        /\ Elements(hoFromIp[c]) \subseteq displaced

\* Each of five stages is ahead of those behind it.
Chain(A0, A1, A2, A3, A4, X) ==
    /\ Earlier(A0, A1 \cup A2 \cup A3 \cup A4, X)
    /\ Earlier(A1, A2 \cup A3 \cup A4, X)
    /\ Earlier(A2, A3 \cup A4, X)
    /\ Earlier(A3, A4, X)

\* The way of a packet to the UE, from its end; each queue on it is in order.
OrderInv ==
    x2InTime =>
        /\ Sorted(received, displaced) /\ AllSorted(stack, displaced)
        /\ AllSorted(hoFromX2, displaced) /\ AllSorted(x2Data, displaced)
        /\ AllSorted(core, displaced)
        /\ Chain(Elements(received), All(stack), All(hoFromX2), All(x2Data), All(core),
                 displaced)

-----------------------------------------------------------------------------
(* Lemmas about order *)

\* The head of a queue in order is before its tail, which is in order.
LEMMA SortedTailLemma ==
    ASSUME NEW S, NEW s \in Seq(S), s # <<>>, NEW X, Sorted(s, X)
    PROVE  Sorted(Tail(s), X) /\ Earlier({Head(s)}, Elements(Tail(s)), X)
<1>1. /\ Len(s) \in Nat \ {0} /\ Head(s) = s[1] /\ DOMAIN s = 1 .. Len(s)
      /\ DOMAIN Tail(s) = 1 .. Len(s) - 1
      /\ \A m \in 1 .. Len(s) - 1 : Tail(s)[m] = s[m + 1]
  BY PlacesLemma
<1>2. \A m \in DOMAIN Tail(s) : /\ m + 1 \in DOMAIN s /\ Tail(s)[m] = s[m + 1]
                                /\ 1 \in DOMAIN s /\ 1 < m + 1
  BY <1>1
<1>3. \A m, n \in DOMAIN Tail(s) : m < n => m + 1 < n + 1
  BY <1>1
<1>4. Sorted(Tail(s), X)
  BY <1>2, <1>3 DEF Sorted
<1>5. Earlier({Head(s)}, Elements(Tail(s)), X)
  <2> SUFFICES ASSUME NEW m \in DOMAIN Tail(s), Head(s) \notin X, Tail(s)[m] \notin X
               PROVE  Head(s) < Tail(s)[m]
    BY DEF Earlier, Elements
  <2> QED BY <1>1, <1>2 DEF Sorted
<1> QED BY <1>4, <1>5

\* A packet after all others keeps a queue in order at its end.
LEMMA SortedAppendLemma ==
    ASSUME NEW S, NEW s \in Seq(S), NEW e \in S, NEW X, Sorted(s, X),
           Earlier(Elements(s), {e}, X)
    PROVE  Sorted(Append(s, e), X)
<1> DEFINE r == Append(s, e)
           l == Len(s) + 1
<1>1. /\ Len(s) \in Nat /\ DOMAIN s = 1 .. Len(s) /\ DOMAIN r = 1 .. l /\ r[l] = e
      /\ \A m \in 1 .. Len(s) : r[m] = s[m]
  BY PlacesLemma
<1> HIDE DEF r
<1> SUFFICES ASSUME NEW m \in DOMAIN r, NEW n \in DOMAIN r, m < n, r[m] \notin X, r[n] \notin X
             PROVE  r[m] < r[n]
  BY DEF Sorted, r
<1>2. m \in DOMAIN s /\ r[m] = s[m] /\ (n \in DOMAIN s \/ n = l)
  BY <1>1
<1>3. CASE n \in DOMAIN s
  BY <1>1, <1>2, <1>3 DEF Sorted
<1>4. CASE n = l
  BY <1>1, <1>2, <1>4 DEF Earlier, Elements
<1> QED BY <1>2, <1>3, <1>4

\* Two queues in order, the first before the second, make one in order.
LEMMA SortedConcatLemma ==
    ASSUME NEW S, NEW s \in Seq(S), NEW t \in Seq(S)
    PROVE  /\ s \o t \in Seq(S) /\ Elements(s \o t) = Elements(s) \cup Elements(t)
           /\ \A X : Sorted(s, X) /\ Sorted(t, X) /\ Earlier(Elements(s), Elements(t), X)
                         => Sorted(s \o t, X)
<1> DEFINE r == s \o t
           l == Len(s)
<1>1. /\ l \in Nat /\ Len(t) \in Nat /\ DOMAIN s = 1 .. l /\ DOMAIN t = 1 .. Len(t)
      /\ r \in Seq(S) /\ DOMAIN r = 1 .. l + Len(t)
      /\ \A m \in 1 .. l : r[m] = s[m]
      /\ \A m \in 1 .. Len(t) : r[l + m] = t[m]
  BY PlacesLemma
<1> HIDE DEF r
<1>2. \A m \in DOMAIN r :
          \/ m \in DOMAIN s /\ r[m] = s[m]
          \/ m > l /\ m - l \in DOMAIN t /\ r[m] = t[m - l]
  <2> SUFFICES ASSUME NEW m \in 1 .. l + Len(t), m > l
               PROVE  m - l \in 1 .. Len(t) /\ r[m] = t[m - l]
    BY <1>1
  <2>1. m - l \in 1 .. Len(t) /\ l + (m - l) = m
    BY <1>1
  <2> QED BY <1>1, <2>1
<1>3. \A m \in DOMAIN s : m \in DOMAIN r /\ r[m] = s[m]
  BY <1>1
<1>4. \A m \in DOMAIN t : l + m \in DOMAIN r /\ r[l + m] = t[m]
  BY <1>1
<1>5. Elements(r) = Elements(s) \cup Elements(t)
  BY <1>2, <1>3, <1>4 DEF Elements
<1>6. ASSUME NEW X, Sorted(s, X), Sorted(t, X), Earlier(Elements(s), Elements(t), X)
      PROVE  Sorted(r, X)
  <2> SUFFICES ASSUME NEW m \in DOMAIN r, NEW n \in DOMAIN r, m < n, r[m] \notin X,
                      r[n] \notin X
               PROVE  r[m] < r[n]
    BY DEF Sorted
  <2>1. m \in Nat /\ n \in Nat /\ (m > l => m - l < n - l) /\ (n \in DOMAIN s => ~(m > l))
    BY <1>1
  <2>2. CASE m \in DOMAIN s /\ n \in DOMAIN s
    BY <1>3, <1>6, <2>2 DEF Sorted
  <2>3. CASE m \in DOMAIN s /\ n > l /\ n - l \in DOMAIN t /\ r[n] = t[n - l]
    BY <1>3, <1>6, <2>3 DEF Earlier, Elements
  <2>4. CASE /\ m > l /\ m - l \in DOMAIN t /\ r[m] = t[m - l]
             /\ n > l /\ n - l \in DOMAIN t /\ r[n] = t[n - l]
    BY <1>6, <2>1, <2>4 DEF Sorted
  <2> QED BY <1>2, <2>1, <2>2, <2>3, <2>4
<1> QED BY <1>1, <1>5, <1>6 DEF r

\* A larger X asks for less.
\* Exempting more packets keeps an order; a queue of exempt packets is in order.
LEMMA WeakenLemma ==
    ASSUME NEW X, NEW Y, X \subseteq Y
    PROVE  /\ \A s : Sorted(s, X) => Sorted(s, Y)
           /\ \A A, B, A1, B1 : Earlier(A, B, X) /\ A1 \ Y \subseteq A /\ B1 \ Y \subseteq B
                                    => Earlier(A1, B1, Y)
           /\ \A s : Elements(s) \subseteq X => Sorted(s, X)
  BY DEF Sorted, Earlier, Elements

\* A queue of a family without its head.
LEMMA HeadLemma ==
    ASSUME NEW K, NEW S, NEW f \in [K -> Seq(S)], NEW k \in K, f[k] # <<>>, NEW X,
           AllSorted(f, X)
    PROVE  LET g == Put(f, k, Tail(f[k]))
           IN  /\ AllSorted(g, X) /\ All(g) \subseteq All(f) /\ Head(f[k]) \in All(f)
               /\ Head(f[k]) \in Elements(f[k])
               /\ \A j \in K : Elements(g[j]) \subseteq Elements(f[j])
               /\ Earlier({Head(f[k])}, Elements(g[k]), X)
<1> DEFINE s == f[k]
           g == Put(f, k, Tail(s))
<1>1. s \in Seq(S) /\ DOMAIN f = K /\ Sorted(s, X)
  BY DEF AllSorted
<1>2. /\ Elements(s) = {Head(s)} \cup Elements(Tail(s))
      /\ Sorted(Tail(s), X) /\ Earlier({Head(s)}, Elements(Tail(s)), X)
  BY <1>1, ElementsLemma, SortedTailLemma
<1>3. DOMAIN g = K /\ g[k] = Tail(s) /\ \A j \in K : j # k => g[j] = f[j]
  BY DEF Put
<1> HIDE DEF g
<1>4. \A j \in K : Elements(g[j]) \subseteq Elements(f[j])
  BY <1>2, <1>3
<1>5. AllSorted(g, X)
  BY <1>1, <1>2, <1>3 DEF AllSorted
<1>6. All(g) \subseteq All(f) /\ Head(s) \in All(f) /\ Head(s) \in Elements(s)
  BY <1>1, <1>2, <1>3, <1>4 DEF All
<1> QED BY <1>2, <1>3, <1>4, <1>5, <1>6 DEF g

\* One with another packet at the end.
LEMMA LastLemma ==
    ASSUME NEW K, NEW S, NEW f \in [K -> Seq(S)], NEW k \in K, NEW p \in S, NEW X,
           AllSorted(f, X), Earlier(All(f), {p}, X)
    PROVE  LET g == Put(f, k, Append(f[k], p))
           IN  /\ AllSorted(g, X) /\ All(g) \subseteq All(f) \cup {p}
               /\ \A j \in K : Elements(g[j]) \subseteq
                                   Elements(f[j]) \cup (IF j = k THEN {p} ELSE {})
<1> DEFINE s == f[k]
           r == Append(s, p)
           g == Put(f, k, r)
<1>1. /\ s \in Seq(S) /\ DOMAIN f = K /\ Sorted(s, X) /\ Earlier(Elements(s), {p}, X)
  BY DEF AllSorted, All, Earlier
<1>2. Elements(r) = Elements(s) \cup {p} /\ Sorted(r, X)
  BY <1>1, AppendLemma, SortedAppendLemma
<1>3. DOMAIN g = K /\ g[k] = r /\ \A j \in K : j # k => g[j] = f[j]
  BY DEF Put
<1> HIDE DEF g
<1>4. \A j \in K : Elements(g[j]) \subseteq Elements(f[j]) \cup (IF j = k THEN {p} ELSE {})
  BY <1>2, <1>3
<1>5. AllSorted(g, X)
  BY <1>1, <1>2, <1>3 DEF AllSorted
<1>6. All(g) \subseteq All(f) \cup {p}
  BY <1>1, <1>3, <1>4 DEF All
<1> QED BY <1>4, <1>5, <1>6 DEF g

-----------------------------------------------------------------------------
(* Where the packets are that were not displaced *)

Live ==
    /\ \A p \in All(core) \ displaced : serving \in Cell /\ p \in Elements(core[serving])
    /\ \A p \in All(x2Data) \ displaced :
           <<serving, target>> \in Link /\ p \in Elements(x2Data[<<serving, target>>])
    /\ \A p \in All(hoFromX2) \ displaced :
           serving \in Cell /\ target \in Cell /\ p \in Elements(hoFromX2[target])
    /\ \A p \in All(stack) \ displaced : serving \in Cell /\ p \in Elements(stack[serving])

LEMMA LiveLemma == TypeOK /\ StrayInv /\ BehindInv /\ x2InTime => Live
<1> SUFFICES ASSUME TypeOK, StrayInv, BehindInv, x2InTime PROVE Live
  OBVIOUS
<1>1. /\ DOMAIN core = Cell /\ DOMAIN x2Data = Link /\ DOMAIN hoFromX2 = Cell
      /\ DOMAIN stack = Cell
  BY DEF TypeOK
<1>2. ASSUME NEW p \in All(core) \ displaced
      PROVE  serving \in Cell /\ p \in Elements(core[serving])
  <2>1. PICK c \in Cell : p \in Elements(core[c])
    BY <1>1, <1>2 DEF All
  <2>2. c = serving
    BY <1>2, <2>1 DEF BehindInv, TunnelInv
  <2> QED BY <2>1, <2>2
<1>3. ASSUME NEW p \in All(x2Data) \ displaced
      PROVE  <<serving, target>> \in Link /\ p \in Elements(x2Data[<<serving, target>>])
  <2>1. PICK l \in Link : p \in Elements(x2Data[l])
    BY <1>1, <1>3 DEF All
  <2>2. PICK s \in Cell, u \in Cell : l = <<s, u>>
    BY DEF Link
  <2>3. UnderWay(s, u)
    BY <1>3, <2>1, <2>2 DEF BehindInv, TunnelInv
  <2>4. l = <<serving, target>>
    BY <2>2, <2>3 DEF UnderWay
  <2> QED BY <2>1, <2>4
<1>4. ASSUME NEW p \in All(hoFromX2) \ displaced
      PROVE  serving \in Cell /\ target \in Cell /\ p \in Elements(hoFromX2[target])
  <2>1. PICK c \in Cell : p \in Elements(hoFromX2[c])
    BY <1>1, <1>4 DEF All
  <2>2. target = c /\ serving \in Cell
    BY <1>4, <2>1 DEF BehindInv, OnlyDisplacedStayBehind
  <2> QED BY <2>1, <2>2
<1>5. ASSUME NEW p \in All(stack) \ displaced
      PROVE  serving \in Cell /\ p \in Elements(stack[serving])
  <2>1. PICK c \in Cell : p \in Elements(stack[c])
    BY <1>1, <1>5 DEF All
  <2>2. c = serving
    BY <1>5, <2>1 DEF StrayInv
  <2> QED BY <2>1, <2>2
<1> QED BY <1>2, <1>3, <1>4, <1>5 DEF Live

\* The same after a step.
LEMMA LivePrime == (TypeOK /\ StrayInv /\ BehindInv /\ x2InTime)' => Live'
  BY LiveLemma, PTL

-----------------------------------------------------------------------------
(* StrayInv *)

LEMMA InitStrayInv == Init => StrayInv
  BY EmptyLemma DEF Init, StrayInv

\* Taking packets from the stacks keeps StrayInv.
LEMMA StrayShrinks ==
  ASSUME StrayInv, UNCHANGED <<serving, x2InTime, displaced, hoFromIp>>,
         \A c \in Cell : Elements(stack'[c]) \subseteq Elements(stack[c])
  PROVE  StrayInv'
  BY DEF StrayInv

LEMMA ShorterStack ==
  ASSUME TypeOK, NEW c \in Cell, stack[c] # <<>>, stack' = [stack EXCEPT ![c] = Tail(@)]
  PROVE  \A d \in Cell : Elements(stack'[d]) \subseteq Elements(stack[d])
<1>1. stack \in [Cell -> Seq(1 .. downSent)]
  BY DEF TypeOK
<1>2. Elements(Tail(stack[c])) \subseteq Elements(stack[c])
  <2> DEFINE S == 1 .. downSent
             s == stack[c]
  <2>1. s \in Seq(S) /\ s # <<>>
    BY <1>1
  <2> HIDE DEF S, s
  <2>2. Elements(s) = {Head(s)} \cup Elements(Tail(s))
    BY <2>1, ElementsLemma
  <2> QED BY <2>2 DEF s
<1> QED BY <1>1, <1>2

\* What the old serving cell and the target hold goes to the new serving cell; the rest was
\* displaced.
LEMMA DoHandoverStray ==
  ASSUME TypeOK, UeInv, BehindInv, StrayInv, DoHandover
  PROVE  StrayInv'
<1> SUFFICES ASSUME x2InTime', NEW c \in Cell
             PROVE  /\ c # serving' => Elements(stack'[c]) \subseteq displaced'
                    /\ Elements(hoFromIp'[c]) \subseteq displaced'
  BY DEF StrayInv
<1>1. x2InTime /\ serving' = target /\ target # serving /\ displaced \subseteq displaced'
  BY DEF DoHandover, SC!Complete, UeInv
<1>2. /\ c # serving => Elements(stack[c]) \subseteq displaced
      /\ Elements(hoFromIp[c]) \subseteq displaced
  BY <1>1 DEF StrayInv
<1>3. hoFromIp'[c] = hoFromIp[c] \/ hoFromIp'[c] = <<>>
  BY DEF DoHandover, SignalHandoverCompleteTarget, TypeOK
<1>4. ASSUME c # target PROVE stack'[c] = IF c = serving THEN <<>> ELSE stack[c]
  <2>1. CASE serving # NoCell /\ target # NoCell
    BY <1>1, <1>4, <2>1 DEF DoHandover, SignalHandoverCompleteTarget, TypeOK
  <2>2. CASE ~(serving # NoCell /\ target # NoCell)
    BY <1>4, <2>2 DEF DoHandover
  <2> QED BY <2>1, <2>2
<1> QED BY <1>1, <1>2, <1>3, <1>4, EmptyLemma

\* A packet of the core network enters the stack of the serving cell only.
LEMMA FromIpBsStray ==
  ASSUME TypeOK, UeInv, ControlInv, BehindInv, StrayInv, NEW c \in Cell, FromIpBs(c)
  PROVE  StrayInv'
<1> DEFINE p == Head(core[c])
<1> SUFFICES ASSUME x2InTime', NEW d \in Cell
             PROVE  /\ d # serving' => Elements(stack'[d]) \subseteq displaced'
                    /\ Elements(hoFromIp'[d]) \subseteq displaced'
  BY DEF StrayInv
<1>1. /\ UNCHANGED <<serving, target, x2InTime, displaced>> /\ core[c] # <<>>
      /\ Forward(c, p) \/ Hold(c, p) \/ ToStackBs(c, p)
  BY DEF FromIpBs, handoverVars
<1>2. /\ d # serving => Elements(stack[d]) \subseteq displaced
      /\ Elements(hoFromIp[d]) \subseteq displaced
  BY <1>1 DEF StrayInv
<1>3. /\ p \in 1 .. downSent /\ p \in Elements(core[c])
      /\ \A q \in Seq(1 .. downSent) : Elements(Append(q, p)) = Elements(q) \cup {p}
  <2> DEFINE S == 1 .. downSent
             s == core[c]
  <2>1. s \in Seq(S) /\ s # <<>>
    BY <1>1 DEF TypeOK
  <2> HIDE DEF S, s
  <2>2. Head(s) \in S /\ Head(s) \in Elements(s)
    BY <2>1, ElementsLemma
  <2>3. \A q \in Seq(S) : Elements(Append(q, Head(s))) = Elements(q) \cup {Head(s)}
    BY <2>2, AppendLemma
  <2> QED BY <2>2, <2>3 DEF S, s
<1>4. c # serving => p \in displaced
  BY <1>1, <1>3 DEF BehindInv, TunnelInv
<1> HIDE DEF p
<1>5. CASE Forward(c, p)
  BY <1>1, <1>2, <1>5 DEF Forward
<1>6. CASE Hold(c, p)
  <2>1. c # serving
    BY <1>1, <1>6 DEF Hold, UeInv, ControlInv, HoldingMatchesHandover
  <2>2. hoFromIp'[d] = IF d = c THEN Append(hoFromIp[c], p) ELSE hoFromIp[d]
    BY <1>6 DEF Hold, TypeOK
  <2>3. hoFromIp[c] \in Seq(1 .. downSent)
    BY DEF TypeOK
  <2>4. Elements(hoFromIp'[d]) \subseteq Elements(hoFromIp[d]) \cup {p}
    BY <1>3, <2>2, <2>3
  <2> QED BY <1>1, <1>2, <1>4, <1>6, <2>1, <2>4 DEF Hold
<1>7. CASE ToStackBs(c, p)
  <2>1. \/ stack'[d] = stack[d]
        \/ d = c /\ stack'[d] = Append(stack[c], p)
    BY <1>7 DEF ToStackBs, TypeOK
  <2>2. stack[c] \in Seq(1 .. downSent)
    BY DEF TypeOK
  <2>3. Elements(stack'[d]) \subseteq Elements(stack[d]) \cup (IF d = c THEN {p} ELSE {})
    BY <1>3, <2>1, <2>2
  <2> QED BY <1>1, <1>2, <1>4, <1>7, <2>3 DEF ToStackBs
<1> QED BY <1>1, <1>5, <1>6, <1>7

LEMMA NextStrayInv ==
  ASSUME TypeOK, UeInv, ControlInv, BehindInv, StrayInv, [Next]_vars
  PROVE  StrayInv'
<1>1. ASSUME UNCHANGED <<serving, x2InTime, displaced, hoFromIp, stack>> PROVE StrayInv'
  BY <1>1 DEF StrayInv
<1>2. ASSUME NEW c \in Place, TriggerHandover(c) PROVE StrayInv'
  BY <1>1, <1>2 DEF TriggerHandover, SC!Start, downVars
<1>3. ASSUME NEW s \in Cell, NEW u \in Cell, ReceiveHandoverCommand(s, u) PROVE StrayInv'
  BY <1>1, <1>3 DEF ReceiveHandoverCommand, handoverVars, downVars
<1>4. ASSUME NEW s \in Cell, NEW u \in Cell, ReceiveTunneledPacket(s, u) PROVE StrayInv'
  BY <1>1, <1>4 DEF ReceiveTunneledPacket, handoverVars, downVars
<1>5. CASE GatewaySend
  BY <1>1, <1>5 DEF GatewaySend, handoverVars, cellVars
<1>6. CASE FromIpUe
  BY <1>1, <1>6 DEF FromIpUe, handoverVars, cellVars, downVars
<1>7. CASE UNCHANGED vars
  BY <1>1, <1>7 DEF vars, handoverVars, cellVars, downVars
<1>8. CASE Deliver
  <2>1. serving \in Cell
    BY <1>8 DEF Deliver, TypeOK, Place
  <2>2. \A c \in Cell : Elements(stack'[c]) \subseteq Elements(stack[c])
    BY <1>8, <2>1, ShorterStack DEF Deliver
  <2> QED BY <1>8, <2>2, StrayShrinks DEF Deliver, handoverVars
<1>9. ASSUME NEW c \in Cell, AirLoss(c) PROVE StrayInv'
  <2>1. \A d \in Cell : Elements(stack'[d]) \subseteq Elements(stack[d])
    BY <1>9, ShorterStack DEF AirLoss
  <2> QED BY <1>9, <2>1, StrayShrinks DEF AirLoss, handoverVars
<1> QED
  BY <1>2, <1>3, <1>4, <1>5, <1>6, <1>7, <1>8, <1>9, DoHandoverStray, FromIpBsStray DEF Next

-----------------------------------------------------------------------------
(* OrderInv *)

\* How a step changes the stages: two shrink, a packet moves on by a stage or past two
\* that hold nothing undisplaced, one enters behind the others.
\* Chain, when packets are lost, delivered, leave a tunnel, are forwarded, enter a stack or
\* are sent.
LEMMA ShrinkChain ==
    ASSUME NEW A0, NEW A1, NEW A2, NEW A3, NEW A4, NEW X, Chain(A0, A1, A2, A3, A4, X),
           NEW B1, NEW B4,
           B1 \subseteq A1, B4 \subseteq A4
    PROVE  Chain(A0, B1, A2, A3, B4, X)
<1>1. /\ Earlier(A0, A1, X) /\ Earlier(A0, A2, X) /\ Earlier(A0, A3, X) /\ Earlier(A0, A4, X)
      /\ Earlier(A1, A2, X) /\ Earlier(A1, A3, X) /\ Earlier(A1, A4, X)
      /\ Earlier(A2, A3, X) /\ Earlier(A2, A4, X) /\ Earlier(A3, A4, X)
  BY DEF Chain, Earlier
<1> QED BY <1>1 DEF Chain, Earlier

LEMMA DeliverChain ==
    ASSUME NEW A0, NEW A1, NEW A2, NEW A3, NEW A4, NEW X, Chain(A0, A1, A2, A3, A4, X),
           NEW p, NEW B0, NEW B1,
           B0 \subseteq A0 \cup {p}, B1 \subseteq A1, p \in A1, Earlier({p}, B1, X)
    PROVE  Chain(B0, B1, A2, A3, A4, X)
<1>1. /\ Earlier(A0, A1, X) /\ Earlier(A0, A2, X) /\ Earlier(A0, A3, X) /\ Earlier(A0, A4, X)
      /\ Earlier(A1, A2, X) /\ Earlier(A1, A3, X) /\ Earlier(A1, A4, X)
      /\ Earlier(A2, A3, X) /\ Earlier(A2, A4, X) /\ Earlier(A3, A4, X)
  BY DEF Chain, Earlier
<1> QED BY <1>1 DEF Chain, Earlier

LEMMA TunnelChain ==
    ASSUME NEW A0, NEW A1, NEW A2, NEW A3, NEW A4, NEW X, Chain(A0, A1, A2, A3, A4, X),
           NEW p, NEW B2, NEW B3,
           B2 \subseteq A2 \cup {p}, B3 \subseteq A3, p \in A3, Earlier({p}, B3, X)
    PROVE  Chain(A0, A1, B2, B3, A4, X)
<1>1. /\ Earlier(A0, A1, X) /\ Earlier(A0, A2, X) /\ Earlier(A0, A3, X) /\ Earlier(A0, A4, X)
      /\ Earlier(A1, A2, X) /\ Earlier(A1, A3, X) /\ Earlier(A1, A4, X)
      /\ Earlier(A2, A3, X) /\ Earlier(A2, A4, X) /\ Earlier(A3, A4, X)
  BY DEF Chain, Earlier
<1> QED BY <1>1 DEF Chain, Earlier

LEMMA ForwardChain ==
    ASSUME NEW A0, NEW A1, NEW A2, NEW A3, NEW A4, NEW X, Chain(A0, A1, A2, A3, A4, X),
           NEW p, NEW B3, NEW B4,
           B3 \subseteq A3 \cup {p}, B4 \subseteq A4, p \in A4, Earlier({p}, B4, X)
    PROVE  Chain(A0, A1, A2, B3, B4, X)
<1>1. /\ Earlier(A0, A1, X) /\ Earlier(A0, A2, X) /\ Earlier(A0, A3, X) /\ Earlier(A0, A4, X)
      /\ Earlier(A1, A2, X) /\ Earlier(A1, A3, X) /\ Earlier(A1, A4, X)
      /\ Earlier(A2, A3, X) /\ Earlier(A2, A4, X) /\ Earlier(A3, A4, X)
  BY DEF Chain, Earlier
<1> QED BY <1>1 DEF Chain, Earlier

LEMMA StackChain ==
    ASSUME NEW A0, NEW A1, NEW A2, NEW A3, NEW A4, NEW X, Chain(A0, A1, A2, A3, A4, X),
           NEW p, NEW B1, NEW B4,
           B1 \subseteq A1 \cup {p}, B4 \subseteq A4, p \in A4,
           Earlier({p}, A2 \cup A3 \cup B4, X)
    PROVE  Chain(A0, B1, A2, A3, B4, X)
<1>1. /\ Earlier(A0, A1, X) /\ Earlier(A0, A2, X) /\ Earlier(A0, A3, X) /\ Earlier(A0, A4, X)
      /\ Earlier(A1, A2, X) /\ Earlier(A1, A3, X) /\ Earlier(A1, A4, X)
      /\ Earlier(A2, A3, X) /\ Earlier(A2, A4, X) /\ Earlier(A3, A4, X)
  BY DEF Chain, Earlier
<1> QED BY <1>1 DEF Chain, Earlier

LEMMA SendChain ==
    ASSUME NEW A0, NEW A1, NEW A2, NEW A3, NEW A4, NEW X, Chain(A0, A1, A2, A3, A4, X),
           NEW p, NEW B4,
           B4 \subseteq A4 \cup {p}, Earlier(A0 \cup A1 \cup A2 \cup A3, {p}, X)
    PROVE  Chain(A0, A1, A2, A3, B4, X)
<1>1. /\ Earlier(A0, A1, X) /\ Earlier(A0, A2, X) /\ Earlier(A0, A3, X) /\ Earlier(A0, A4, X)
      /\ Earlier(A1, A2, X) /\ Earlier(A1, A3, X) /\ Earlier(A1, A4, X)
      /\ Earlier(A2, A3, X) /\ Earlier(A2, A4, X) /\ Earlier(A3, A4, X)
  BY DEF Chain, Earlier
<1> QED BY <1>1 DEF Chain, Earlier

\* Where packet p stands, it is ahead of what is behind it.
\* A packet of a stage is behind the stages before it.
LEMMA AheadLemma ==
    ASSUME NEW A0, NEW A1, NEW A2, NEW A3, NEW A4, NEW X, Chain(A0, A1, A2, A3, A4, X), NEW p
    PROVE  /\ p \in A1 => Earlier(A0, {p}, X)
           /\ p \in A3 => Earlier(A2, {p}, X)
           /\ p \in A4 => Earlier(A3, {p}, X) /\ Earlier(A1, {p}, X)
  BY DEF Chain, Earlier

LEMMA InitOrderInv == Init => OrderInv
<1> SUFFICES ASSUME Init PROVE OrderInv
  OBVIOUS
<1>1. DOMAIN <<>> = {} /\ Elements(<<>>) = {}
  BY EmptyLemma
<1>2. \A X : Sorted(<<>>, X)
  BY <1>1 DEF Sorted
<1>3. All(stack) = {} /\ All(hoFromX2) = {} /\ All(x2Data) = {} /\ All(core) = {}
  BY <1>1 DEF Init, All
<1>4. Elements(received) = {} /\ Sorted(received, displaced)
  BY <1>1, <1>2 DEF Init
<1>5. /\ AllSorted(stack, displaced) /\ AllSorted(hoFromX2, displaced)
      /\ AllSorted(x2Data, displaced) /\ AllSorted(core, displaced)
  BY <1>2 DEF Init, AllSorted
<1> QED BY <1>3, <1>4, <1>5 DEF OrderInv, Chain, Earlier

LEMMA PacketOrder ==
  ASSUME TypeOK, BehindInv, OrderInv, x2InTime, Live',
         NEW s \in Cell, NEW u \in Cell, ReceiveTunneledPacket(s, u)
  PROVE  OrderInv'
<1> DEFINE S == 1 .. downSent
           l == <<s, u>>
           p == Head(x2Data[l])
<1>1. /\ UNCHANGED <<serving, target, x2InTime, received, stack, core, displaced>>
      /\ x2Data[l] # <<>> /\ l \in Link
      /\ x2Data' = Put(x2Data, l, Tail(x2Data[l]))
      /\ hoFromX2' = Put(hoFromX2, u, Append(hoFromX2[u], p))
  BY DEF ReceiveTunneledPacket, handoverVars, downVars, Put, Link
<1>2. /\ x2Data \in [Link -> Seq(S)] /\ hoFromX2 \in [Cell -> Seq(S)]
      /\ DOMAIN x2Data' = Link
  BY <1>1 DEF TypeOK, Put
<1>3. /\ Sorted(received, displaced) /\ AllSorted(stack, displaced)
      /\ AllSorted(hoFromX2, displaced) /\ AllSorted(x2Data, displaced)
      /\ AllSorted(core, displaced)
      /\ Chain(Elements(received), All(stack), All(hoFromX2), All(x2Data), All(core), displaced)
  BY DEF OrderInv
<1>4. p \in displaced \/ l = <<serving, target>>
  <2>1. p \in Elements(x2Data[l])
    <3> DEFINE q == x2Data[l]
    <3>1. q \in Seq(S) /\ q # <<>>
      BY <1>1, <1>2
    <3> HIDE DEF S, q
    <3>2. Head(q) \in Elements(q)
      BY <3>1, ElementsLemma
    <3> QED BY <3>2 DEF q
  <2> QED BY <2>1 DEF BehindInv, TunnelInv, UnderWay
<1> HIDE DEF S, l
<1>5. /\ AllSorted(x2Data', displaced) /\ All(x2Data') \subseteq All(x2Data)
      /\ p \in All(x2Data) /\ Earlier({p}, Elements(x2Data'[l]), displaced)
  BY <1>1, <1>2, <1>3, HeadLemma
<1>6. p \in S
  BY <1>1, <1>2, ElementsLemma
<1> HIDE DEF p
<1>7. Earlier(All(hoFromX2), {p}, displaced)
  BY <1>3, <1>5, AheadLemma
<1>8. AllSorted(hoFromX2', displaced) /\ All(hoFromX2') \subseteq All(hoFromX2) \cup {p}
  BY <1>1, <1>2, <1>3, <1>6, <1>7, LastLemma
<1>9. Earlier({p}, All(x2Data'), displaced)
  BY <1>1, <1>4, <1>5 DEF Earlier, Live
<1>10. Chain(Elements(received), All(stack), All(hoFromX2'), All(x2Data'), All(core), displaced)
  BY <1>3, <1>5, <1>8, <1>9, TunnelChain
<1> QED BY <1>1, <1>3, <1>5, <1>8, <1>10 DEF OrderInv

LEMMA FromIpBsOrder ==
  ASSUME TypeOK, UeInv, ControlInv, BehindInv, OrderInv, x2InTime, Live, Live',
         NEW c \in Cell, FromIpBs(c)
  PROVE  OrderInv'
<1> DEFINE S == 1 .. downSent
           p == Head(core[c])
           l == <<c, hoForwarding[c]>>
<1>1. /\ UNCHANGED <<serving, target, x2InTime, received, hoFromX2, displaced>>
      /\ core[c] # <<>> /\ core' = Put(core, c, Tail(core[c]))
      /\ Forward(c, p) \/ Hold(c, p) \/ ToStackBs(c, p)
  BY DEF FromIpBs, handoverVars, Put
<1>2. /\ core \in [Cell -> Seq(S)] /\ x2Data \in [Link -> Seq(S)] /\ stack \in [Cell -> Seq(S)]
      /\ DOMAIN core' = Cell
  BY <1>1 DEF TypeOK, Put
<1>3. /\ Sorted(received, displaced) /\ AllSorted(stack, displaced)
      /\ AllSorted(hoFromX2, displaced) /\ AllSorted(x2Data, displaced)
      /\ AllSorted(core, displaced)
      /\ Chain(Elements(received), All(stack), All(hoFromX2), All(x2Data), All(core), displaced)
  BY DEF OrderInv
<1> HIDE DEF S
<1>4. /\ AllSorted(core', displaced) /\ All(core') \subseteq All(core)
      /\ p \in All(core) /\ p \in Elements(core[c]) /\ Earlier({p}, Elements(core'[c]), displaced)
  BY <1>1, <1>2, <1>3, HeadLemma
<1>5. p \in S
  BY <1>1, <1>2, ElementsLemma
<1>6. c # serving => p \in displaced
  BY <1>4 DEF BehindInv, TunnelInv
<1> HIDE DEF p
<1>7. Earlier(All(x2Data), {p}, displaced) /\ Earlier(All(stack), {p}, displaced)
  BY <1>3, <1>4, AheadLemma
<1>8. Earlier({p}, All(core'), displaced)
  BY <1>1, <1>4, <1>6 DEF Earlier, Live
<1>9. CASE Forward(c, p)
  <2>1. /\ UNCHANGED stack /\ l \in Link /\ x2Data' = Put(x2Data, l, Append(x2Data[l], p))
    BY <1>9 DEF Forward, Link, Put, TypeOK, Place
  <2> HIDE DEF l
  <2>2. AllSorted(x2Data', displaced) /\ All(x2Data') \subseteq All(x2Data) \cup {p}
    BY <1>2, <1>3, <1>5, <1>7, <2>1, LastLemma
  <2>3. Chain(Elements(received), All(stack), All(hoFromX2), All(x2Data'), All(core'), displaced)
    BY <1>3, <1>4, <1>8, <2>2, ForwardChain
  <2> QED BY <1>1, <1>3, <1>4, <2>1, <2>2, <2>3 DEF OrderInv
<1>10. ASSUME UNCHANGED <<stack, x2Data>> PROVE OrderInv'
  <2>1. Chain(Elements(received), All(stack), All(hoFromX2), All(x2Data), All(core'), displaced)
    BY <1>3, <1>4, ShrinkChain
  <2> QED BY <1>1, <1>3, <1>4, <1>10, <2>1 DEF OrderInv
<1>11. CASE Hold(c, p)
  BY <1>10, <1>11 DEF Hold
<1>12. CASE ToStackBs(c, p) /\ serving = NoCell
  BY <1>10, <1>12 DEF ToStackBs
<1>13. CASE ToStackBs(c, p) /\ serving # NoCell
  <2>1. UNCHANGED x2Data /\ stack' = Put(stack, c, Append(stack[c], p)) /\ hoForwarding[c] = NoCell
    BY <1>13 DEF ToStackBs, Put
  <2>2. AllSorted(stack', displaced) /\ All(stack') \subseteq All(stack) \cup {p}
    BY <1>2, <1>3, <1>5, <1>7, <2>1, LastLemma
  <2>3. p \in displaced \/ target \notin Cell
    BY <1>6, <2>1, CellAssumption DEF ControlInv, ForwardingMatchesHandover, UnderWay
  <2>4. Earlier({p}, All(hoFromX2) \cup All(x2Data) \cup All(core'), displaced)
    <3>1. \A q \in All(hoFromX2) \cup All(x2Data) : q \in displaced \/ target \in Cell
      BY DEF Live, Link
    <3> QED BY <1>8, <2>3, <3>1 DEF Earlier
  <2>5. Chain(Elements(received), All(stack'), All(hoFromX2), All(x2Data), All(core'), displaced)
    BY <1>3, <1>4, <2>2, <2>4, StackChain
  <2> QED BY <1>1, <1>3, <1>4, <2>1, <2>2, <2>5 DEF OrderInv
<1> QED BY <1>1, <1>9, <1>11, <1>12, <1>13

LEMMA SendOrder ==
  ASSUME TypeOK, OrderInv, x2InTime, GatewaySend
  PROVE  OrderInv'
<1> DEFINE p == downSent + 1
           S == 1 .. p
<1>1. /\ UNCHANGED <<x2InTime, received, stack, hoFromX2, x2Data, displaced>>
      /\ serving = NoCell => core' = core
      /\ serving # NoCell => core' = Put(core, serving, Append(core[serving], p))
  BY DEF GatewaySend, handoverVars, cellVars, Put
<1>2. /\ Sorted(received, displaced) /\ AllSorted(stack, displaced)
      /\ AllSorted(hoFromX2, displaced) /\ AllSorted(x2Data, displaced)
      /\ AllSorted(core, displaced)
      /\ Chain(Elements(received), All(stack), All(hoFromX2), All(x2Data), All(core), displaced)
  BY DEF OrderInv
<1>3. CASE serving = NoCell
  BY <1>1, <1>2, <1>3 DEF OrderInv
<1>4. CASE serving # NoCell
  <2>1. downSent \in Nat /\ 1 .. downSent \subseteq S /\ p \in S /\ \A q \in 1 .. downSent : q < p
    BY DEF TypeOK
  <2>2. serving \in Cell /\ core \in [Cell -> Seq(S)]
    <3>1. Seq(1 .. downSent) \subseteq Seq(S)
      BY <2>1, WidenLemma
    <3> QED BY <1>4, <3>1 DEF TypeOK, Place
  <2>3. /\ Elements(received) \subseteq 1 .. downSent /\ All(stack) \subseteq 1 .. downSent
        /\ All(hoFromX2) \subseteq 1 .. downSent /\ All(x2Data) \subseteq 1 .. downSent
        /\ All(core) \subseteq 1 .. downSent
    <3>1. \A s \in Seq(1 .. downSent) : Elements(s) \subseteq 1 .. downSent
      BY ElementsLemma
    <3>2. \A K : \A f \in [K -> Seq(1 .. downSent)] : All(f) \subseteq 1 .. downSent
      BY <3>1 DEF All
    <3> QED BY <3>1, <3>2 DEF TypeOK
  <2> HIDE DEF S, p
  <2>4. /\ Earlier(All(core), {p}, displaced)
        /\ Earlier(Elements(received) \cup All(stack) \cup All(hoFromX2) \cup All(x2Data), {p},
                   displaced)
    BY <2>1, <2>3 DEF Earlier
  <2>5. AllSorted(core', displaced) /\ All(core') \subseteq All(core) \cup {p}
    <3>1. core' = Put(core, serving, Append(core[serving], p)) /\ p \in S
      BY <1>1, <1>4, <2>1
    <3>2. Earlier(All(core), {p}, displaced) /\ AllSorted(core, displaced)
      BY <1>2, <2>4
    <3> QED BY <2>2, <3>1, <3>2, LastLemma
  <2>6. Chain(Elements(received), All(stack), All(hoFromX2), All(x2Data), All(core'), displaced)
    BY <1>2, <2>4, <2>5, SendChain
  <2> QED BY <1>1, <1>2, <2>5, <2>6 DEF OrderInv
<1> QED BY <1>3, <1>4

LEMMA DeliverOrder ==
  ASSUME TypeOK, OrderInv, x2InTime, Live', Deliver
  PROVE  OrderInv'
<1> DEFINE S == 1 .. downSent
           p == Head(stack[serving])
<1>1. /\ UNCHANGED <<serving, x2InTime, hoFromX2, x2Data, core, displaced>>
      /\ stack[serving] # <<>> /\ stack' = Put(stack, serving, Tail(stack[serving]))
      /\ received' = Append(received, p)
  BY DEF Deliver, handoverVars, netVars, Put
<1>2. serving \in Cell /\ stack \in [Cell -> Seq(S)] /\ received \in Seq(S)
  BY DEF Deliver, TypeOK, Place
<1>3. /\ Sorted(received, displaced) /\ AllSorted(stack, displaced)
      /\ AllSorted(hoFromX2, displaced) /\ AllSorted(x2Data, displaced)
      /\ AllSorted(core, displaced)
      /\ Chain(Elements(received), All(stack), All(hoFromX2), All(x2Data), All(core), displaced)
  BY DEF OrderInv
<1> HIDE DEF S
<1>4. /\ AllSorted(stack', displaced) /\ All(stack') \subseteq All(stack)
      /\ p \in All(stack) /\ Earlier({p}, Elements(stack'[serving]), displaced)
  BY <1>1, <1>2, <1>3, HeadLemma
<1>5. p \in S
  BY <1>1, <1>2, ElementsLemma
<1> HIDE DEF p
<1>6. Earlier(Elements(received), {p}, displaced)
  BY <1>3, <1>4, AheadLemma
<1>7. Sorted(received', displaced)
  BY <1>1, <1>2, <1>3, <1>5, <1>6, SortedAppendLemma
<1>8. Elements(received') = Elements(received) \cup {p}
  BY <1>1, <1>2, <1>5, AppendLemma
<1>9. Earlier({p}, All(stack'), displaced)
  BY <1>1, <1>4 DEF Earlier, Live
<1>10. Chain(Elements(received'), All(stack'), All(hoFromX2), All(x2Data), All(core), displaced)
  BY <1>3, <1>4, <1>8, <1>9, DeliverChain
<1> QED BY <1>1, <1>3, <1>4, <1>7, <1>10 DEF OrderInv

LEMMA AirLossOrder ==
  ASSUME TypeOK, OrderInv, x2InTime, NEW c \in Cell, AirLoss(c)
  PROVE  OrderInv'
<1> DEFINE S == 1 .. downSent
<1>1. /\ UNCHANGED <<x2InTime, received, hoFromX2, x2Data, core, displaced>>
      /\ stack[c] # <<>> /\ stack' = Put(stack, c, Tail(stack[c]))
      /\ stack \in [Cell -> Seq(S)]
  BY DEF AirLoss, handoverVars, netVars, Put, TypeOK
<1>2. /\ Sorted(received, displaced) /\ AllSorted(stack, displaced)
      /\ AllSorted(hoFromX2, displaced) /\ AllSorted(x2Data, displaced)
      /\ AllSorted(core, displaced)
      /\ Chain(Elements(received), All(stack), All(hoFromX2), All(x2Data), All(core), displaced)
  BY DEF OrderInv
<1> HIDE DEF S
<1>3. AllSorted(stack', displaced) /\ All(stack') \subseteq All(stack)
  BY <1>1, <1>2, HeadLemma
<1>4. Chain(Elements(received), All(stack'), All(hoFromX2), All(x2Data), All(core), displaced)
  BY <1>2, <1>3, ShrinkChain
<1> QED BY <1>1, <1>2, <1>3, <1>4 DEF OrderInv

\* The change of the cell displaces what is in the tunnels: of the stages after it only what
\* the target held remains in order to be delivered, and it moves on as a whole.
LEMMA DoHandoverOrder ==
  ASSUME TypeOK, UeInv, BehindInv', StrayInv, OrderInv, x2InTime, DoHandover
  PROVE  OrderInv'
<1>1. /\ UNCHANGED <<core, x2Data, received, x2InTime>>
      /\ serving' = target /\ target' = Idle /\ target # serving
      /\ displaced' = displaced \cup InTunnels
  BY DEF DoHandover, SC!Complete, UeInv
<1>2. /\ Sorted(received, displaced) /\ AllSorted(stack, displaced)
      /\ AllSorted(hoFromX2, displaced) /\ AllSorted(x2Data, displaced)
      /\ AllSorted(core, displaced)
      /\ Chain(Elements(received), All(stack), All(hoFromX2), All(x2Data), All(core), displaced)
  BY DEF OrderInv
<1>3. /\ DOMAIN core = Cell /\ DOMAIN x2Data = Link /\ DOMAIN hoFromX2 = Cell
      /\ DOMAIN hoFromX2' = Cell /\ DOMAIN stack' = Cell
  BY DEF TypeOK, DoHandover, SignalHandoverCompleteTarget
<1>4. All(core) \cup All(x2Data) \subseteq displaced'
  <2>1. \A s \in Seq(1 .. downSent) : Elements(s) \subseteq 1 .. downSent
    BY ElementsLemma
  <2>2. /\ \A c \in Cell : Elements(core[c]) \subseteq 1 .. downSent
        /\ \A l \in Link : Elements(x2Data[l]) \subseteq 1 .. downSent
    BY <2>1 DEF TypeOK
  <2> QED BY <1>1, <1>3, <2>2 DEF InTunnels, All
<1>5. All(hoFromX2') \subseteq displaced'
  <2>1. \A c \in Cell : Elements(hoFromX2'[c]) \subseteq displaced'
    BY <1>1, CellAssumption DEF BehindInv, OnlyDisplacedStayBehind
  <2> QED BY <1>3, <2>1 DEF All
<1>6. ASSUME NEW c \in Cell
      PROVE  /\ Sorted(stack'[c], displaced')
             /\ Elements(stack'[c]) \ displaced' \subseteq All(hoFromX2)
  <2> DEFINE S == 1 .. downSent
             s == stack[c]
             f == hoFromX2[c]
             i == hoFromIp[c]
  <2>1. CASE c = target /\ serving # NoCell
    <3>1. stack'[c] = s \o f \o i
      <4>1. SignalHandoverCompleteTarget
        BY <2>1, CellAssumption DEF DoHandover
      <4>2. /\ stack' = [stack EXCEPT ![serving] = <<>>,
                              ![target] = @ \o hoFromX2[target] \o hoFromIp[target]]
            /\ serving \in Cell /\ stack \in [Cell -> Seq(S)]
        BY <2>1, <4>1 DEF SignalHandoverCompleteTarget, TypeOK, Place
      <4> HIDE DEF S
      <4> QED BY <1>1, <2>1, <4>2
    <3>2. s \in Seq(S) /\ f \in Seq(S) /\ i \in Seq(S) /\ Sorted(f, displaced)
      BY <1>2, <1>3 DEF TypeOK, AllSorted
    <3>3. Elements(s) \subseteq displaced /\ Elements(i) \subseteq displaced
      BY <1>1, <2>1 DEF StrayInv
    <3>4. Elements(f) \subseteq All(hoFromX2)
      BY <1>3 DEF All
    <3> HIDE DEF S, s, f, i
    <3>5. Sorted(s, displaced) /\ Sorted(i, displaced)
      BY <3>3, WeakenLemma
    <3>6. /\ s \o f \in Seq(S) /\ Elements(s \o f) = Elements(s) \cup Elements(f)
          /\ Sorted(s \o f, displaced)
      <4>1. Earlier(Elements(s), Elements(f), displaced)
        BY <3>3 DEF Earlier
      <4> QED BY <3>2, <3>5, <4>1, SortedConcatLemma
    <3> DEFINE r == s \o f
    <3>7. r \in Seq(S) /\ Elements(r) = Elements(s) \cup Elements(f) /\ Sorted(r, displaced)
      BY <3>6
    <3> HIDE DEF r
    <3>8. /\ Elements(r \o i) = Elements(r) \cup Elements(i) /\ Sorted(r \o i, displaced)
      <4>1. Earlier(Elements(r), Elements(i), displaced)
        BY <3>3 DEF Earlier
      <4>2. r \in Seq(S) /\ i \in Seq(S)
        BY <3>2, <3>7
      <4>3. /\ r \o i \in Seq(S) /\ Elements(r \o i) = Elements(r) \cup Elements(i)
            /\ \A X : Sorted(r, X) /\ Sorted(i, X) /\ Earlier(Elements(r), Elements(i), X)
                          => Sorted(r \o i, X)
        BY <4>2, SortedConcatLemma
      <4>4. Sorted(r, displaced) /\ Sorted(i, displaced)
        BY <3>5, <3>7
      <4> QED BY <4>1, <4>3, <4>4
    <3>9. stack'[c] = r \o i
      BY <3>1 DEF r
    <3>10. Sorted(stack'[c], displaced')
      BY <1>1, <3>8, <3>9, WeakenLemma
    <3> QED BY <1>1, <3>3, <3>4, <3>7, <3>8, <3>9, <3>10
  <2>2. CASE ~(c = target /\ serving # NoCell)
    <3>1. stack'[c] = IF c = serving THEN <<>> ELSE stack[c]
      <4>1. CASE serving # NoCell /\ target # NoCell
        BY <2>2, <4>1 DEF DoHandover, SignalHandoverCompleteTarget, TypeOK
      <4>2. CASE ~(serving # NoCell /\ target # NoCell)
        BY <4>2 DEF DoHandover
      <4> QED BY <4>1, <4>2
    <3>2. Elements(stack'[c]) \subseteq displaced'
      <4>1. CASE c = serving
        BY <3>1, <4>1, EmptyLemma
      <4>2. CASE c # serving
        BY <1>1, <3>1, <4>2 DEF StrayInv
      <4> QED BY <4>1, <4>2
    <3>3. Sorted(stack'[c], displaced')
      BY <3>2, WeakenLemma
    <3> QED BY <3>2, <3>3
  <2> QED BY <2>1, <2>2
<1>7. AllSorted(stack', displaced') /\ All(stack') \ displaced' \subseteq All(hoFromX2)
  BY <1>3, <1>6 DEF AllSorted, All
<1>8. AllSorted(hoFromX2', displaced')
  <2>1. \A c \in Cell : Elements(hoFromX2'[c]) \subseteq displaced'
    BY <1>3, <1>5 DEF All
  <2> QED BY <1>3, <2>1, WeakenLemma DEF AllSorted
<1>9. /\ Sorted(received, displaced') /\ AllSorted(core, displaced')
      /\ AllSorted(x2Data, displaced')
  <2>1. \A q : Sorted(q, displaced) => Sorted(q, displaced')
    BY <1>1, WeakenLemma
  <2> QED BY <1>2, <2>1 DEF AllSorted
<1>10. Chain(Elements(received), All(stack'), All(hoFromX2'), All(x2Data), All(core), displaced')
  <2>1. \A p \in Elements(received) \ displaced, q \in All(hoFromX2) \ displaced : p < q
    BY <1>2 DEF Chain, Earlier
  <2> QED BY <1>1, <1>4, <1>5, <1>7, <2>1 DEF Chain, Earlier
<1> QED BY <1>1, <1>7, <1>8, <1>9, <1>10 DEF OrderInv

LEMMA NextOrderInv ==
  ASSUME TypeOK, UeInv, ControlInv, BehindInv, StrayInv, OrderInv, [Next]_vars,
         TypeOK', BehindInv', StrayInv'
  PROVE  OrderInv'
<1>1. UNCHANGED x2InTime
  BY DEF Next, vars, handoverVars, TriggerHandover, DoHandover, ReceiveHandoverCommand,
         ReceiveTunneledPacket, GatewaySend, FromIpBs, AirLoss, Deliver, FromIpUe
<1> SUFFICES ASSUME x2InTime PROVE OrderInv'
  BY <1>1 DEF OrderInv
<1>2. Live /\ Live'
  BY <1>1, LiveLemma, LivePrime
<1>3. ASSUME UNCHANGED <<received, stack, hoFromX2, x2Data, core, displaced>> PROVE OrderInv'
  BY <1>1, <1>3 DEF OrderInv
<1>4. ASSUME NEW c \in Place, TriggerHandover(c) PROVE OrderInv'
  BY <1>3, <1>4 DEF TriggerHandover, downVars
<1>5. ASSUME NEW s \in Cell, NEW u \in Cell, ReceiveHandoverCommand(s, u) PROVE OrderInv'
  BY <1>3, <1>5 DEF ReceiveHandoverCommand, downVars
<1>6. CASE FromIpUe
  BY <1>3, <1>6 DEF FromIpUe, cellVars, netVars, downVars
<1>7. CASE UNCHANGED vars
  BY <1>3, <1>7 DEF vars, cellVars, netVars, downVars
<1> QED
  BY <1>2, <1>4, <1>5, <1>6, <1>7, DoHandoverOrder, PacketOrder, FromIpBsOrder, SendOrder,
     DeliverOrder, AirLossOrder DEF Next

\* With commands that are faster than a handover, the UE receives in order all packets but
\* those that were in a tunnel when it changed its cell.
THEOREM AlwaysInOrder == Spec => []InOrder
<1>1. Init => StrayInv /\ OrderInv
  BY InitStrayInv, InitOrderInv
<1>2. IInv /\ IInv' /\ StrayInv /\ OrderInv /\ [Next]_vars => StrayInv' /\ OrderInv'
  BY NextStrayInv, NextOrderInv DEF IInv
<1>3. OrderInv => InOrder
  BY DEF OrderInv, InOrder, Sorted
<1> QED BY <1>1, <1>2, <1>3, Inductive, PTL DEF Spec
=============================================================================
