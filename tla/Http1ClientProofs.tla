-------------------------- MODULE Http1ClientProofs --------------------------
(* The connections of one HTTP/1.1 engine, for every number of requests, any *)
(* size of the pool and every mixture of troubles but one.                   *)
EXTENDS Http1Client, FiniteSetTheorems, TLAPS

-----------------------------------------------------------------------------
(* The linked lists. *)

\* A set that a walk from the head does not leave.
Walled(L, l, S) == /\ L.head[l] \in S \cup {0}
                   /\ \A n \in S : L.next[n] \in S \cup {0}

Neighbours(L, l, n) ==
  /\ L.next[n] # 0 => L.prev[L.next[n]] = n
  /\ L.prev[n] = 0 => n = L.head[l]
  /\ L.prev[n] # 0 => L.prev[n] \in In(L, l) /\ L.next[L.prev[n]] = n

\* Both lists are linked both ways, from a head without a predecessor, and
\* apart; a node that is in neither has no neighbours.
Wf(L) ==
  /\ L \in Lists
  /\ \A l \in {"pool", "use"} :
       /\ L.head[l] # 0 => L.prev[L.head[l]] = 0
       /\ \A n \in In(L, l) : Neighbours(L, l, n)
  /\ \A n \in Nodes : ~ (n \in In(L, "pool") /\ n \in In(L, "use"))
  /\ \A n \in Nodes : n \notin In(L, "pool") /\ n \notin In(L, "use") => L.prev[n] = 0 /\ L.next[n] = 0

\* None is not a node.
LEMMA ZeroIsNoNode == 0 \notin Nodes
BY ClientAssumption DEF Nodes

\* A list is the smallest set that holds its head and what follows.
LEMMA ListIsWalled ==
  ASSUME NEW L \in Lists, NEW l \in {"pool", "use"}
  PROVE  /\ In(L, l) \subseteq Nodes /\ Walled(L, l, In(L, l))
         /\ \A S \in SUBSET Nodes : Walled(L, l, S) => In(L, l) \subseteq S
<1>1. L.head[l] \in Nodes \cup {0} /\ \A n \in Nodes : L.next[n] \in Nodes \cup {0}
  BY DEF Lists
<1>2. In(L, l) \subseteq Nodes
  BY DEF In
<1>3. ASSUME NEW S \in SUBSET Nodes, Walled(L, l, S) PROVE In(L, l) \subseteq S
  BY <1>3 DEF In, Walled
<1>4. L.head[l] \in In(L, l) \cup {0}
  BY <1>1 DEF In
<1>5. ASSUME NEW n \in In(L, l) PROVE L.next[n] \in In(L, l) \cup {0}
  BY <1>1 DEF In
<1> QED
  BY <1>2, <1>3, <1>4, <1>5 DEF Walled

\* A node of no list is put at the head of one; the other list stays.
LEMMA PrependAdds ==
  ASSUME NEW L, Wf(L), NEW l \in {"pool", "use"}, NEW n \in Nodes,
         n \notin In(L, "pool"), n \notin In(L, "use")
  PROVE  /\ Wf(Prepend(L, l, n))
         /\ In(Prepend(L, l, n), l) = In(L, l) \cup {n}
         /\ \A k \in {"pool", "use"} : k # l => In(Prepend(L, l, n), k) = In(L, k)
<1> DEFINE M == Prepend(L, l, n)
           h == L.head[l]
<1>1. /\ L \in Lists /\ 0 \notin Nodes /\ h \in Nodes \cup {0}
      /\ L.head \in [{"pool", "use"} -> Nodes \cup {0}]
      /\ L.prev \in [Nodes -> Nodes \cup {0}] /\ L.next \in [Nodes -> Nodes \cup {0}]
  BY ZeroIsNoNode DEF Wf, Lists
<1>2. /\ M.head = [L.head EXCEPT ![l] = n] /\ M.next = [L.next EXCEPT ![n] = h]
      /\ M.prev = Link([L.prev EXCEPT ![n] = 0], h, n)
  BY DEF Prepend
<1>3. M \in Lists
  BY <1>1 DEF Prepend, Link, Lists
<1>4. h # n
  BY <1>1, ListIsWalled DEF Walled
<1>5. /\ M.head[l] = n /\ M.next[n] = h /\ M.prev[n] = 0
      /\ \A k \in {"pool", "use"} : k # l => M.head[k] = L.head[k]
      /\ \A m \in Nodes : m # n => M.next[m] = L.next[m]
      /\ \A m \in Nodes : m # n /\ m # h => M.prev[m] = L.prev[m]
      /\ h # 0 => M.prev[h] = n
  BY <1>1, <1>2, <1>4 DEF Link
<1>a. L \in Lists /\ M \in Lists
  BY <1>1, <1>3
<1> HIDE DEF M, h
<1>6. In(M, l) = In(L, l) \cup {n}
  <2>1. Walled(M, l, In(L, l) \cup {n})
    <3>1. Walled(L, l, In(L, l)) /\ In(L, l) \subseteq Nodes
      BY <1>a, ListIsWalled
    <3> QED
      BY <1>5, <3>1 DEF Walled, h
  <2>2. In(M, l) \subseteq In(L, l) \cup {n}
    <3>1. In(L, l) \cup {n} \in SUBSET Nodes
      BY <1>a, ListIsWalled
    <3> QED
      BY <1>a, <2>1, <3>1, ListIsWalled
  <2>3. Walled(M, l, In(M, l)) /\ In(M, l) \subseteq Nodes
    BY <1>a, ListIsWalled
  <2>4. n \in In(M, l) /\ h \in In(M, l) \cup {0}
    BY <1>1, <1>5, <2>3 DEF Walled
  <2>5. Walled(L, l, In(M, l))
    <3>1. ASSUME NEW m \in In(M, l) PROVE L.next[m] \in In(M, l) \cup {0}
      <4>1. CASE m = n
        BY <4>1 DEF Wf
      <4>2. CASE m # n
        BY <1>5, <2>3, <4>2 DEF Walled
      <4> QED
        BY <4>1, <4>2
    <3> QED
      BY <2>4, <3>1 DEF Walled, h
  <2>6. In(L, l) \subseteq In(M, l)
    BY <1>a, <2>3, <2>5, ListIsWalled
  <2> QED
    BY <2>2, <2>4, <2>6
<1>7. ASSUME NEW k \in {"pool", "use"}, k # l PROVE In(M, k) = In(L, k)
  <2>1. n \notin In(L, k)
    BY <1>7
  <2>2. Walled(L, k, In(L, k)) /\ In(L, k) \subseteq Nodes /\ Walled(M, k, In(M, k)) /\ In(M, k) \subseteq Nodes
    BY <1>a, ListIsWalled
  <2>3. Walled(M, k, In(L, k))
    BY <1>5, <1>7, <2>1, <2>2 DEF Walled
  <2>4. In(M, k) \subseteq In(L, k)
    BY <1>a, <2>2, <2>3, ListIsWalled
  <2>5. Walled(L, k, In(M, k))
    BY <1>5, <1>7, <2>1, <2>2, <2>4 DEF Walled
  <2>6. In(L, k) \subseteq In(M, k)
    BY <1>a, <2>2, <2>5, ListIsWalled
  <2> QED
    BY <2>4, <2>6
<1>8. In(L, l) \subseteq Nodes /\ \A k \in {"pool", "use"} : In(L, k) \subseteq Nodes
  BY <1>a, ListIsWalled
<1>9. h # 0 => h \in In(L, l) /\ L.prev[h] = 0
  <2>1. Walled(L, l, In(L, l))
    BY <1>a, ListIsWalled
  <2> QED
    BY <2>1 DEF Walled, h, Wf
<1>10. ASSUME NEW k \in {"pool", "use"}, NEW m \in In(M, k) PROVE Neighbours(M, k, m)
  <2>1. CASE m = n
    <3>1. k = l
      BY <1>7, <1>10, <2>1
    <3> QED
      BY <1>5, <2>1, <3>1 DEF Neighbours
  <2>2. CASE m # n
    <3>1. m \in In(L, k) /\ Neighbours(L, k, m) /\ m \in Nodes
      BY <1>6, <1>7, <1>8, <1>10, <2>2 DEF Wf
    <3>2. M.next[m] = L.next[m]
      BY <1>5, <2>2, <3>1
    <3>3. L.next[m] # n /\ (L.next[m] # 0 => L.next[m] \in Nodes /\ L.next[m] \in In(L, k))
      <4>1. Walled(L, k, In(L, k))
        BY <1>a, ListIsWalled
      <4> QED
        BY <1>1, <1>8, <3>1, <4>1 DEF Walled
    <3>4. L.next[m] # 0 => L.next[m] # h
      BY <1>1, <1>8, <1>9, <3>1, <3>3 DEF Neighbours
    <3>5. M.next[m] # 0 => M.prev[M.next[m]] = m
      BY <1>5, <3>1, <3>2, <3>3, <3>4 DEF Neighbours
    <3>6. CASE m = h
      <4>1. k = l
        <5>1. m \in In(L, l)
          BY <1>1, <1>9, <3>1, <3>6
        <5>2. ~ (m \in In(L, "pool") /\ m \in In(L, "use"))
          BY <3>1 DEF Wf
        <5> QED
          BY <3>1, <5>1, <5>2
      <4>2. M.prev[m] = n /\ M.next[n] = m /\ n \in In(M, k)
        BY <1>1, <1>5, <1>6, <3>1, <3>6, <4>1
      <4> QED
        BY <1>1, <3>5, <4>2 DEF Neighbours
    <3>7. CASE m # h
      <4>1. M.prev[m] = L.prev[m]
        BY <1>5, <2>2, <3>1, <3>7
      <4>2. CASE L.prev[m] = 0
        <5>1. m = L.head[k]
          BY <3>1, <4>2 DEF Neighbours
        <5>2. k # l
          BY <3>7, <5>1 DEF h
        <5>3. m = M.head[k]
          BY <1>5, <5>1, <5>2
        <5> QED
          BY <3>5, <4>1, <4>2, <5>3 DEF Neighbours
      <4>3. CASE L.prev[m] # 0
        <5>1. L.prev[m] \in In(L, k) /\ L.next[L.prev[m]] = m
          BY <3>1, <4>3 DEF Neighbours
        <5>2. L.prev[m] \in In(M, k) /\ L.prev[m] \in Nodes /\ L.prev[m] # n
          BY <1>6, <1>7, <1>8, <5>1
        <5> QED
          BY <1>5, <3>5, <4>1, <4>3, <5>1, <5>2 DEF Neighbours
      <4> QED
        BY <4>2, <4>3
    <3> QED
      BY <3>6, <3>7
  <2> QED
    BY <2>1, <2>2
<1>11. \A k \in {"pool", "use"} : M.head[k] # 0 => M.prev[M.head[k]] = 0
  <2>1. ASSUME NEW k \in {"pool", "use"}, k # l, L.head[k] # 0 PROVE M.prev[L.head[k]] = 0
    <3>1. L.head[k] \in In(L, k) /\ L.prev[L.head[k]] = 0
      <4>1. Walled(L, k, In(L, k))
        BY <1>a, ListIsWalled
      <4> QED
        BY <2>1, <4>1 DEF Walled, Wf
    <3>2. L.head[k] # n /\ L.head[k] # h /\ L.head[k] \in Nodes
      BY <1>1, <1>8, <1>9, <2>1, <3>1 DEF Wf
    <3> QED
      BY <1>5, <3>1, <3>2
  <2> QED
    BY <1>5, <2>1
<1>12. \A m \in Nodes : ~ (m \in In(M, "pool") /\ m \in In(M, "use"))
  BY <1>6, <1>7 DEF Wf
<1>13. ASSUME NEW m \in Nodes, m \notin In(M, "pool"), m \notin In(M, "use")
       PROVE  M.prev[m] = 0 /\ M.next[m] = 0
  <2>1. m # n /\ m # h /\ m \notin In(L, "pool") /\ m \notin In(L, "use")
    BY <1>1, <1>6, <1>7, <1>9, <1>13
  <2> QED
    BY <1>5, <2>1 DEF Wf
<1> QED
  BY <1>3, <1>6, <1>7, <1>10, <1>11, <1>12, <1>13 DEF Wf, M

\* Taking a node out of the list that holds it.
LEMMA RemoveTakes ==
  ASSUME NEW L, Wf(L), NEW l \in {"pool", "use"}, NEW n \in In(L, l)
  PROVE  /\ Wf(Remove(L, l, n))
         /\ In(Remove(L, l, n), l) = In(L, l) \ {n}
         /\ \A k \in {"pool", "use"} : k # l => In(Remove(L, l, n), k) = In(L, k)
<1> DEFINE M == Remove(L, l, n)
           p == L.prev[n]
           q == L.next[n]
<1>1. /\ L \in Lists /\ 0 \notin Nodes
      /\ L.head \in [{"pool", "use"} -> Nodes \cup {0}]
      /\ L.prev \in [Nodes -> Nodes \cup {0}] /\ L.next \in [Nodes -> Nodes \cup {0}]
  BY ZeroIsNoNode DEF Wf, Lists
<1>2. /\ \A k \in {"pool", "use"} : In(L, k) \subseteq Nodes /\ Walled(L, k, In(L, k))
      /\ n \in Nodes
  BY <1>1, ListIsWalled
<1>3. p \in Nodes \cup {0} /\ q \in Nodes \cup {0} /\ Neighbours(L, l, n)
  BY <1>1, <1>2 DEF Wf
<1>4. /\ q # 0 => q \in In(L, l) /\ L.prev[q] = n
      /\ p # 0 => p \in In(L, l) /\ L.next[p] = n
      /\ p = 0 => L.head[l] = n
  BY <1>2, <1>3 DEF Neighbours, Walled
<1>5. L.head[l] # 0 => L.prev[L.head[l]] = 0
  BY DEF Wf
<1>6. p # n /\ q # n
  <2>1. CASE q = n
    <3>1. p = n
      BY <1>1, <1>2, <1>4, <2>1
    <3>2. Walled(L, l, In(L, l) \ {n})
      <4>1. ASSUME NEW m \in In(L, l) \ {n} PROVE L.next[m] # n
        <5>1. Neighbours(L, l, m)
          BY DEF Wf
        <5> QED
          BY <1>1, <1>2, <3>1, <5>1 DEF Neighbours
      <4>2. L.head[l] # n
        BY <1>1, <1>2, <1>5, <3>1
      <4> QED
        BY <1>2, <4>1, <4>2 DEF Walled
    <3>3. In(L, l) \ {n} \in SUBSET Nodes
      BY <1>2
    <3>4. In(L, l) \subseteq In(L, l) \ {n}
      BY <1>1, <3>2, <3>3, ListIsWalled
    <3> QED
      BY <3>4
  <2>2. CASE p = n
    <3>1. q = n
      BY <1>1, <1>2, <1>4, <2>2
    <3> QED
      BY <2>1, <3>1
  <2> QED
    BY <2>1, <2>2
<1>7. /\ M.head = IF p = 0 THEN [L.head EXCEPT ![l] = q] ELSE L.head
      /\ M.prev = [Link(L.prev, q, p) EXCEPT ![n] = 0]
      /\ M.next = [Link(L.next, p, q) EXCEPT ![n] = 0]
  BY DEF Remove
<1>8. M \in Lists
  BY <1>1, <1>2, <1>3 DEF Remove, Link, Lists
<1>9. /\ M.head[l] = IF p = 0 THEN q ELSE L.head[l]
      /\ \A k \in {"pool", "use"} : k # l => M.head[k] = L.head[k]
      /\ M.next[n] = 0 /\ M.prev[n] = 0
      /\ p # 0 => M.next[p] = q
      /\ q # 0 => M.prev[q] = p
      /\ \A m \in Nodes : m # n /\ m # p => M.next[m] = L.next[m]
      /\ \A m \in Nodes : m # n /\ m # q => M.prev[m] = L.prev[m]
  BY <1>1, <1>2, <1>3, <1>6, <1>7 DEF Link
<1>a. L \in Lists /\ M \in Lists
  BY <1>1, <1>8
<1> HIDE DEF M, p, q
<1>b. ASSUME NEW m \in In(L, l), L.next[m] = n PROVE m = p
  <2>1. Neighbours(L, l, m)
    BY DEF Wf
  <2> QED
    BY <1>1, <1>2, <1>b, <2>1 DEF Neighbours, p
<1>c. L.head[l] = n => p = 0
  BY <1>1, <1>2, <1>5 DEF p
<1>10. In(M, l) = In(L, l) \ {n}
  <2>1. Walled(M, l, In(L, l) \ {n})
    <3>1. M.head[l] \in (In(L, l) \ {n}) \cup {0}
      BY <1>2, <1>4, <1>6, <1>9, <1>c DEF Walled
    <3>2. ASSUME NEW m \in In(L, l) \ {n} PROVE M.next[m] \in (In(L, l) \ {n}) \cup {0}
      <4>1. m \in Nodes /\ L.next[m] \in In(L, l) \cup {0}
        BY <1>2 DEF Walled
      <4>2. CASE m = p
        BY <1>1, <1>4, <1>6, <1>9, <4>1, <4>2
      <4>3. CASE m # p
        BY <1>9, <1>b, <4>1, <4>3
      <4> QED
        BY <4>2, <4>3
    <3> QED
      BY <3>1, <3>2 DEF Walled
  <2>2. In(L, l) \ {n} \in SUBSET Nodes
    BY <1>2
  <2>3. In(M, l) \subseteq In(L, l) \ {n}
    BY <1>a, <2>1, <2>2, ListIsWalled
  <2>4. Walled(M, l, In(M, l)) /\ In(M, l) \subseteq Nodes
    BY <1>a, ListIsWalled
  <2>5. Walled(L, l, In(M, l) \cup {n})
    <3>1. L.head[l] \in In(M, l) \cup {n} \cup {0}
      BY <1>4, <1>9, <2>4 DEF Walled
    <3>2. ASSUME NEW m \in In(M, l), m # n PROVE L.next[m] \in In(M, l) \cup {n} \cup {0}
      BY <1>1, <1>4, <1>9, <2>4, <3>2 DEF Walled
    <3>3. q \in In(M, l) \cup {0}
      <4>1. CASE p = 0
        BY <1>9, <2>4, <4>1 DEF Walled
      <4>2. CASE p # 0 /\ p \in In(M, l)
        BY <1>9, <2>4, <4>2 DEF Walled
      <4>3. CASE p # 0 /\ p \notin In(M, l)
        <5>1. Walled(L, l, In(M, l))
          <6>1. L.head[l] \in In(M, l) \cup {0}
            BY <1>9, <2>4, <4>3 DEF Walled
          <6>2. ASSUME NEW m \in In(M, l) PROVE L.next[m] \in In(M, l) \cup {0}
            BY <1>9, <2>3, <2>4, <4>3, <6>2 DEF Walled
          <6> QED
            BY <6>1, <6>2 DEF Walled
        <5>2. In(L, l) \subseteq In(M, l)
          BY <1>a, <2>4, <5>1, ListIsWalled
        <5> QED
          BY <1>4, <4>3, <5>2
      <4> QED
        BY <4>1, <4>2, <4>3
    <3> QED
      BY <3>1, <3>2, <3>3 DEF Walled, q
  <2>6. In(M, l) \cup {n} \in SUBSET Nodes
    BY <1>2, <2>4
  <2>7. In(L, l) \subseteq In(M, l) \cup {n}
    BY <1>a, <2>5, <2>6, ListIsWalled
  <2> QED
    BY <2>3, <2>7
<1>11. ASSUME NEW k \in {"pool", "use"}, k # l PROVE In(M, k) = In(L, k)
  <2>1. \A m \in In(L, k) : m \notin In(L, l)
    BY <1>2, <1>11 DEF Wf
  <2>2. Walled(L, k, In(L, k)) /\ In(L, k) \subseteq Nodes /\ Walled(M, k, In(M, k)) /\ In(M, k) \subseteq Nodes
    BY <1>a, ListIsWalled
  <2>3. \A m \in In(L, k) : M.next[m] = L.next[m]
    BY <1>1, <1>4, <1>9, <2>1, <2>2
  <2>4. Walled(M, k, In(L, k))
    BY <1>9, <1>11, <2>2, <2>3 DEF Walled
  <2>5. In(M, k) \subseteq In(L, k)
    BY <1>a, <2>2, <2>4, ListIsWalled
  <2>6. Walled(L, k, In(M, k))
    BY <1>9, <1>11, <2>2, <2>3, <2>5 DEF Walled
  <2>7. In(L, k) \subseteq In(M, k)
    BY <1>a, <2>2, <2>6, ListIsWalled
  <2> QED
    BY <2>5, <2>7
<1>12. ASSUME NEW k \in {"pool", "use"}, NEW m \in In(M, k) PROVE Neighbours(M, k, m)
  <2>1. m \in In(L, k) /\ m # n /\ m \in Nodes /\ Neighbours(L, k, m)
    <3>1. m \in In(L, k) /\ m # n
      <4>1. CASE k = l
        BY <1>10, <1>12, <4>1
      <4>2. CASE k # l
        <5>1. m \in In(L, k)
          BY <1>11, <1>12, <4>2
        <5>2. ~ (n \in In(L, "pool") /\ n \in In(L, "use"))
          BY <1>2 DEF Wf
        <5> QED
          BY <4>2, <5>1, <5>2
      <4> QED
        BY <4>1, <4>2
    <3> QED
      BY <1>2, <3>1 DEF Wf
  <2>2. L.next[m] \in In(L, k) \cup {0}
    BY <1>2, <2>1 DEF Walled
  <2>3. \A i \in In(L, k) : i # n => i \in In(M, k) /\ i \in Nodes
    BY <1>2, <1>10, <1>11
  <2>4. M.next[m] # 0 => M.prev[M.next[m]] = m
    <3>1. CASE m = p
      BY <1>1, <1>4, <1>9, <2>1, <3>1
    <3>2. CASE m # p
      <4>1. M.next[m] = L.next[m]
        BY <1>9, <2>1, <3>2
      <4>2. CASE L.next[m] = 0
        BY <4>1, <4>2
      <4>3. CASE L.next[m] # 0
        <5>1. L.prev[L.next[m]] = m /\ L.next[m] \in Nodes
          BY <1>2, <2>1, <2>2, <4>3 DEF Neighbours
        <5>2. L.next[m] # n
          BY <3>2, <5>1 DEF p
        <5>3. L.next[m] # q
          BY <1>4, <2>1, <4>3, <5>1
        <5> QED
          BY <1>9, <4>1, <5>1, <5>2, <5>3
      <4> QED
        BY <4>2, <4>3
    <3> QED
      BY <3>1, <3>2
  <2>5. CASE m = q
    <3>1. k = l
      <4>1. m \in In(L, l)
        BY <1>1, <1>4, <2>1, <2>5
      <4>2. ~ (m \in In(L, "pool") /\ m \in In(L, "use"))
        BY <2>1 DEF Wf
      <4> QED
        BY <2>1, <4>1, <4>2
    <3>2. M.prev[m] = p
      BY <1>1, <1>9, <2>1, <2>5
    <3>3. CASE p = 0
      BY <1>9, <2>4, <2>5, <3>1, <3>2, <3>3 DEF Neighbours
    <3>4. CASE p # 0
      BY <1>4, <1>6, <1>9, <2>3, <2>4, <2>5, <3>1, <3>2, <3>4 DEF Neighbours
    <3> QED
      BY <3>3, <3>4
  <2>6. CASE m # q
    <3>1. M.prev[m] = L.prev[m]
      BY <1>9, <2>1, <2>6
    <3>2. CASE L.prev[m] = 0
      <4>1. m = L.head[k]
        BY <2>1, <3>2 DEF Neighbours
      <4>2. m = M.head[k]
        <5>1. CASE k # l
          BY <1>9, <4>1, <5>1
        <5>2. CASE k = l
          BY <1>4, <1>9, <2>1, <4>1, <5>2
        <5> QED
          BY <5>1, <5>2
      <4> QED
        BY <2>4, <3>1, <3>2, <4>2 DEF Neighbours
    <3>3. CASE L.prev[m] # 0
      <4>1. L.prev[m] \in In(L, k) /\ L.next[L.prev[m]] = m
        BY <2>1, <3>3 DEF Neighbours
      <4>2. L.prev[m] # n
        BY <2>6, <4>1 DEF q
      <4>3. L.prev[m] # p
        BY <1>4, <2>1, <3>3, <4>1
      <4> QED
        BY <1>9, <2>3, <2>4, <3>1, <3>3, <4>1, <4>2, <4>3 DEF Neighbours
    <3> QED
      BY <3>2, <3>3
  <2> QED
    BY <2>5, <2>6
<1>13. \A k \in {"pool", "use"} : M.head[k] # 0 => M.prev[M.head[k]] = 0
  <2>1. ASSUME NEW k \in {"pool", "use"}, M.head[k] # 0 PROVE M.prev[M.head[k]] = 0
    <3>1. CASE k = l /\ p = 0
      BY <1>9, <2>1, <3>1
    <3>2. CASE k # l \/ p # 0
      <4>1. M.head[k] = L.head[k]
        BY <1>9, <3>2
      <4>2. L.head[k] \in In(L, k) /\ L.prev[L.head[k]] = 0 /\ L.head[k] \in Nodes
        BY <1>2, <2>1, <4>1 DEF Walled, Wf
      <4>3. CASE L.head[k] = q /\ q # 0
        BY <1>1, <1>2, <1>4, <4>2, <4>3
      <4>4. CASE L.head[k] # q \/ q = 0
        BY <1>1, <1>9, <4>1, <4>2, <4>4
      <4> QED
        BY <4>3, <4>4
    <3> QED
      BY <3>1, <3>2
  <2> QED
    BY <2>1
<1>14. \A m \in Nodes : ~ (m \in In(M, "pool") /\ m \in In(M, "use"))
  BY <1>10, <1>11 DEF Wf
<1>15. ASSUME NEW m \in Nodes, m \notin In(M, "pool"), m \notin In(M, "use")
       PROVE  M.prev[m] = 0 /\ M.next[m] = 0
  <2>1. CASE m = n
    BY <1>9, <2>1
  <2>2. CASE m # n
    <3>1. m \notin In(L, "pool") /\ m \notin In(L, "use")
      BY <1>10, <1>11, <1>15, <2>2
    <3>2. m # p /\ m # q
      BY <1>1, <1>4, <3>1
    <3> QED
      BY <1>9, <2>2, <3>1, <3>2 DEF Wf
  <2> QED
    BY <2>1, <2>2
<1> QED
  BY <1>8, <1>10, <1>11, <1>12, <1>13, <1>14, <1>15 DEF Wf, M

\* The head of a list is in it, and a list without one is empty.
LEMMA HeadIsIn ==
  ASSUME NEW L, Wf(L), NEW l \in {"pool", "use"}
  PROVE  /\ In(L, l) \subseteq Nodes
         /\ L.head[l] = 0 => In(L, l) = {}
         /\ L.head[l] # 0 => L.head[l] \in In(L, l)
<1>1. L \in Lists
  BY DEF Wf
<1>2. Walled(L, l, In(L, l)) /\ In(L, l) \subseteq Nodes
  BY <1>1, ListIsWalled
<1>3. ASSUME L.head[l] = 0 PROVE In(L, l) = {}
  <2>1. Walled(L, l, {})
    BY <1>3 DEF Walled
  <2>2. In(L, l) \subseteq {}
    BY <1>1, <2>1, ListIsWalled
  <2> QED
    BY <2>2
<1> QED
  BY <1>2, <1>3 DEF Walled

\* prepop takes the head: it removes it.
LEMMA PrepopTakes ==
  ASSUME NEW L, Wf(L), NEW l \in {"pool", "use"}, L.head[l] # 0
  PROVE  LET n == L.head[l] IN
         /\ n \in In(L, l) /\ n \in Nodes
         /\ Wf(Prepop(L, l))
         /\ In(Prepop(L, l), l) = In(L, l) \ {n}
         /\ \A k \in {"pool", "use"} : k # l => In(Prepop(L, l), k) = In(L, k)
<1> DEFINE n == L.head[l]
<1>1. n \in In(L, l) /\ n \in Nodes
  BY HeadIsIn
<1>2. /\ L \in Lists /\ 0 \notin Nodes
      /\ L.head \in [{"pool", "use"} -> Nodes \cup {0}]
      /\ L.prev \in [Nodes -> Nodes \cup {0}] /\ L.next \in [Nodes -> Nodes \cup {0}]
  BY ZeroIsNoNode DEF Wf, Lists
<1>3. L.prev[n] = 0 /\ (L.next[n] # 0 => L.prev[L.next[n]] = n)
  BY <1>1 DEF Wf, Neighbours
<1>4. L.next[n] # n
  BY <1>1, <1>2, <1>3
<1>5. Prepop(L, l) = Remove(L, l, n)
  <2>1. [Link(L.prev, L.next[n], L.prev[n]) EXCEPT ![n] = 0] = Link(L.prev, L.next[n], 0)
    BY <1>1, <1>2, <1>3, <1>4 DEF Link
  <2>2. Link(L.next, L.prev[n], L.next[n]) = L.next
    BY <1>3 DEF Link
  <2> QED
    BY <1>3, <2>1, <2>2 DEF Prepop, Remove
<1> QED
  BY <1>1, <1>5, RemoveTakes

\* Removing a node from an empty list that it is not in changes nothing.
LEMMA RemoveUnlisted ==
  ASSUME NEW L, Wf(L), NEW n \in Nodes,
         n \notin In(L, "pool"), n \notin In(L, "use"), In(L, "use") = {}
  PROVE  Remove(L, "use", n) = L
<1>1. L.prev[n] = 0 /\ L.next[n] = 0 /\ L.head["use"] = 0
  BY HeadIsIn DEF Wf
<1>2. /\ L \in Lists
      /\ L = [head |-> L.head, prev |-> L.prev, next |-> L.next]
      /\ L.head \in [{"pool", "use"} -> Nodes \cup {0}]
      /\ L.prev \in [Nodes -> Nodes \cup {0}] /\ L.next \in [Nodes -> Nodes \cup {0}]
  BY DEF Wf, Lists
<1>3. [L.head EXCEPT !["use"] = 0] = L.head
  BY <1>1, <1>2
<1>4. [L.prev EXCEPT ![n] = 0] = L.prev /\ [L.next EXCEPT ![n] = 0] = L.next
  BY <1>1, <1>2
<1>5. Remove(L, "use", n) = [head |-> L.head, prev |-> L.prev, next |-> L.next]
  BY <1>1, <1>3, <1>4 DEF Remove, Link
<1> QED
  BY <1>2, <1>5

\* What close makes of the lists.
LEMMA Emptied ==
  ASSUME NEW L, Wf(L)
  PROVE  LET ns == In(L, "pool") \cup In(L, "use")
             M  == [head |-> [pool |-> 0, use |-> 0],
                    prev |-> [n \in Nodes |-> IF n \in ns THEN 0 ELSE L.prev[n]],
                    next |-> [n \in Nodes |-> IF n \in ns THEN 0 ELSE L.next[n]]]
         IN  Wf(M) /\ In(M, "pool") = {} /\ In(M, "use") = {}
<1> DEFINE ns == In(L, "pool") \cup In(L, "use")
           M  == [head |-> [pool |-> 0, use |-> 0],
                  prev |-> [n \in Nodes |-> IF n \in ns THEN 0 ELSE L.prev[n]],
                  next |-> [n \in Nodes |-> IF n \in ns THEN 0 ELSE L.next[n]]]
<1>1. \A n \in Nodes : M.prev[n] = 0 /\ M.next[n] = 0
  BY DEF Wf
<1>2. M.head["pool"] = 0 /\ M.head["use"] = 0
  OBVIOUS
<1>3. M \in Lists
  BY <1>1 DEF Lists
<1> HIDE DEF M
<1>4. \A l \in {"pool", "use"} : In(M, l) = {}
  <2>1. \A l \in {"pool", "use"} : Walled(M, l, {})
    BY <1>2 DEF Walled
  <2> QED
    BY <1>3, <2>1, ListIsWalled
<1>5. Wf(M)
  BY <1>1, <1>2, <1>3, <1>4 DEF Wf
<1> QED
  BY <1>4, <1>5 DEF M

-----------------------------------------------------------------------------
(* The inductive invariant. *)

Pooled == In(lists, "pool")
Used == In(lists, "use")

\* Here a request has a connection that no list holds.
Apart == {"enlist", "own"}

Types ==
  /\ connNum \in Int /\ isClosed \in BOOLEAN /\ made \in 0 .. MaxNodes
  /\ closed \in [Nodes -> BOOLEAN] /\ lifeState \in [Nodes -> Nat]
  /\ upgraded \in [Nodes -> BOOLEAN] /\ last \in [Nodes -> BOOLEAN]
  /\ armed \in [Nodes -> SUBSET [by : Timers, cap : Nat]] /\ won \subseteq [node : Nodes, cap : Nat]
  /\ pc \in [Reqs -> States] /\ node \in [Reqs -> Nodes \cup {0}]
  /\ kind \in [Reqs -> {"plain", "upgrade"}]
  /\ resp \in [Reqs -> {"none", "empty", "body", "read", "rest", "switch"}]
  /\ ~ ({"upgrade", "timeout"} \subseteq troubles)

Links == Wf(lists) /\ \A n \in Pooled \cup Used : n <= made

\* Whose a connection is.
Owned ==
  /\ \A r \in Reqs : pc[r] \in Holding \cup Apart => node[r] \in 1 .. made
  /\ \A r, s \in Reqs :
       pc[r] \in Holding \cup Apart /\ pc[s] \in Holding \cup Apart /\ node[r] = node[s] => r = s
  /\ \A r \in Reqs : pc[r] \in Holding =>
                       node[r] \notin Pooled /\ (closed[node[r]] \/ node[r] \in Used)
  /\ \A r \in Reqs : pc[r] \in Apart => node[r] \notin Pooled /\ node[r] \notin Used
  /\ \A r \in Reqs : pc[r] = "enlist" => ~ closed[node[r]]
  /\ \A r \in Reqs : pc[r] \in {"put", "extract"} /\ closed[node[r]] => isClosed

\* What the lists say of a connection.
Kept ==
  /\ \A n \in Pooled : closed[n] <=> isClosed
  /\ \A n \in Used : ~ closed[n] /\ ~ isClosed
  /\ \A n \in Nodes : n > made => ~ closed[n]
  /\ \A n \in 1 .. made : closed[n] \/ n \in Pooled \/ n \in Used
                          \/ \E r \in Reqs : pc[r] \in Apart /\ node[r] = n

\* Where timers fire nothing is upgraded and a request that ends lets go.
Singly(r) == /\ kind[r] = "plain" /\ resp[r] # "switch"
             /\ pc[r] \notin {"user", "extract", "own"}
             /\ (pc[r] = "close" => resp[r] # "read")
             /\ (pc[r] = "wait" /\ resp[r] = "read" => closed[node[r]])

Taken == \A n \in Used : \E r \in Reqs : pc[r] \in Holding /\ node[r] = n

Plain ==
  "timeout" \in troubles =>
    /\ \A r \in Reqs : Singly(r)
    /\ \A n \in Nodes : ~ upgraded[n]
    /\ Taken

\* No timer is armed for the use that a connection is about to begin.
Quiet(n) == /\ lifeState[n] % 4 = 0
            /\ \A a \in armed[n] : a.cap < lifeState[n]
            /\ \A w \in won : w.node # n

Idle(n) == n \in Pooled \/ n > made \/ \E r \in Reqs : pc[r] \in {"send", "put", "enlist"} /\ node[r] = n

\* A timer is armed for this use or one before; at most two win.
Fit(n) == /\ lifeState[n] % 4 <= 2
          /\ \A a \in armed[n] : a.cap <= lifeState[n] /\ a.cap % 4 <= 1

\* The write timer is the only one of this use.
Sent(n) == /\ lifeState[n] % 4 <= 1
           /\ \A a \in armed[n] : a.cap <= lifeState[n] - (lifeState[n] % 4)

\* The connection is in the use that the task was armed for.
Late(w) == /\ w.node \in Used /\ lifeState[w.node] % 4 # 0
           /\ lifeState[w.node] \div 4 = w.cap \div 4

OnTime ==
  /\ \A n \in Nodes : ~ closed[n] => Fit(n) /\ (Idle(n) => Quiet(n))
  /\ \A r \in Reqs : pc[r] = "arm" /\ ~ closed[node[r]] => Sent(node[r])
  /\ \A w \in won : ~ closed[w.node] => Late(w)

Timely == IF "timeout" \in troubles THEN OnTime ELSE won = {}

ListsInv == Links /\ Owned /\ Kept

-----------------------------------------------------------------------------
(* The lists and their owners. *)

\* Facts about the states of a request and the numbers of connections.
LEMMA Kinds ==
  /\ Holding \cap Apart = {} /\ Holding \subseteq States /\ Apart \subseteq States
  /\ 0 \notin Nodes /\ \A m \in 0 .. MaxNodes : 1 .. m \subseteq Nodes
BY ZeroIsNoNode, ClientAssumption DEF Holding, Apart, States, Nodes

\* The lists hold nodes, are apart, and a list without a head is empty.
LEMMA ListsOk ==
  ASSUME Types, Links
  PROVE  /\ Pooled \subseteq Nodes /\ Used \subseteq Nodes /\ Pooled \cap Used = {}
         /\ lists.head["pool"] \in Nodes \cup {0}
         /\ lists.head["pool"] = 0 => Pooled = {}
         /\ lists.head["pool"] # 0 => lists.head["pool"] \in Pooled
<1>1. Wf(lists)
  BY DEF Links
<1>2. Pooled \subseteq Nodes /\ Used \subseteq Nodes
  BY <1>1, HeadIsIn DEF Pooled, Used
<1>3. Pooled \cap Used = {}
  BY <1>1, <1>2 DEF Wf, Pooled, Used
<1>4. lists.head["pool"] \in Nodes \cup {0}
  BY <1>1 DEF Wf, Lists
<1> QED
  BY <1>1, <1>2, <1>3, <1>4, HeadIsIn DEF Pooled

\* closeConnInUse closes the connection and takes it out of the list.
LEMMA Closing ==
  ASSUME Types, Links, Kept, NEW n \in Nodes, closed[n] \/ n \in Used, CloseConnInUse(n)
  PROVE  /\ Wf(lists') /\ Pooled' = Pooled /\ Used' = Used \ {n}
         /\ closed' = [closed EXCEPT ![n] = TRUE]
         /\ armed' \in [Nodes -> SUBSET [by : Timers, cap : Nat]]
         /\ \A m \in Nodes : armed'[m] \subseteq armed[m]
         /\ connNum' = IF closed[n] THEN connNum ELSE connNum - 1
<1>1. Wf(lists)
  BY DEF Links
<1>2. closed \in [Nodes -> BOOLEAN] /\ armed \in [Nodes -> SUBSET [by : Timers, cap : Nat]]
  BY DEF Types
<1>3. CASE closed[n]
  <2>1. lists' = lists /\ connNum' = connNum /\ closed' = closed /\ armed' = armed
    BY <1>3 DEF CloseConnInUse
  <2>2. n \notin Used
    BY <1>3 DEF Kept
  <2>3. Pooled' = Pooled /\ Used' = Used
    BY <2>1 DEF Pooled, Used
  <2>4. [closed EXCEPT ![n] = TRUE] = closed
    BY <1>2, <1>3
  <2> QED
    BY <1>1, <1>2, <1>3, <2>1, <2>2, <2>3, <2>4
<1>4. CASE ~ closed[n]
  <2>1. /\ lists' = Remove(lists, "use", n) /\ armed' = [armed EXCEPT ![n] = {}]
        /\ closed' = [closed EXCEPT ![n] = TRUE] /\ connNum' = connNum - 1
    BY <1>4 DEF CloseConnInUse
  <2>2. n \in In(lists, "use")
    BY <1>4 DEF Used
  <2>3. /\ Wf(lists') /\ In(lists', "use") = In(lists, "use") \ {n}
        /\ In(lists', "pool") = In(lists, "pool")
    BY <1>1, <2>1, <2>2, RemoveTakes
  <2>4. /\ armed' \in [Nodes -> SUBSET [by : Timers, cap : Nat]]
        /\ \A m \in Nodes : armed'[m] \subseteq armed[m]
    BY <1>2, <2>1
  <2> QED
    BY <1>4, <2>1, <2>3, <2>4 DEF Pooled, Used
<1> QED
  BY <1>3, <1>4

\* A request moves on and leaves the lists and the engine alone.
LEMMA Moves ==
  ASSUME Types, ListsInv, NEW r \in Reqs, NEW x,
         UNCHANGED <<lists, made, closed, isClosed, node>>, pc' = [pc EXCEPT ![r] = x],
         pc[r] \notin Apart, x \notin Apart, x \in Holding => pc[r] \in Holding,
         x \in {"put", "extract"} => ~ closed[node[r]]
  PROVE  ListsInv'
<1>1. Pooled' = Pooled /\ Used' = Used
  BY DEF Pooled, Used
<1>2. \A s \in Reqs : pc'[s] = IF s = r THEN x ELSE pc[s]
  BY DEF Types
<1>3. Links'
  BY <1>1 DEF ListsInv, Links
<1>4. \A s \in Reqs : /\ pc'[s] \in Holding => pc[s] \in Holding
                      /\ pc'[s] \in Apart <=> pc[s] \in Apart
                      /\ pc'[s] = "enlist" => pc[s] = "enlist"
                      /\ pc'[s] \in {"put", "extract"} /\ closed[node[s]] => pc[s] \in {"put", "extract"}
  BY <1>2 DEF Apart
<1>5. Owned'
  BY <1>1, <1>4 DEF ListsInv, Owned
<1>6. Kept'
  BY <1>1, <1>4 DEF ListsInv, Kept
<1> QED
  BY <1>3, <1>5, <1>6 DEF ListsInv

\* A request moves on and closes its connection.
LEMMA MovesAndCloses ==
  ASSUME Types, ListsInv, NEW r \in Reqs, NEW x,
         CloseConnInUse(node[r]), UNCHANGED <<made, isClosed, node>>, pc' = [pc EXCEPT ![r] = x],
         pc[r] \in Holding, x \notin Apart, x \notin {"put", "extract"}
  PROVE  ListsInv'
<1> DEFINE n == node[r]
<1>1. n \in Nodes /\ n \in 1 .. made /\ n \notin Pooled /\ (closed[n] \/ n \in Used)
  BY Kinds DEF ListsInv, Owned, Types
<1>2. /\ Wf(lists') /\ Pooled' = Pooled /\ Used' = Used \ {n}
      /\ closed' = [closed EXCEPT ![n] = TRUE]
  BY <1>1, Closing DEF ListsInv
<1>3. /\ \A m \in Nodes : closed'[m] = (m = n \/ closed[m])
      /\ Pooled \subseteq Nodes /\ Used \subseteq Nodes /\ 1 .. made \subseteq Nodes
  BY <1>1, <1>2, ListsOk, Kinds DEF Types, ListsInv
<1>4. \A s \in Reqs : pc'[s] = IF s = r THEN x ELSE pc[s]
  BY DEF Types
<1>5. \A s \in Reqs : /\ pc'[s] \in Holding => pc[s] \in Holding
                      /\ pc'[s] \in Apart <=> pc[s] \in Apart
                      /\ pc'[s] = "enlist" => pc[s] = "enlist"
                      /\ pc'[s] \in {"put", "extract"} => pc[s] \in {"put", "extract"} /\ s # r
  BY <1>4, Kinds DEF Apart
<1>6. \A s \in Reqs : s # r /\ pc[s] \in Holding \cup Apart => node[s] # n
  BY DEF ListsInv, Owned
<1> HIDE DEF n
<1>7. Links'
  BY <1>2 DEF ListsInv, Links
<1>8. Owned'
  <2>1. \A s \in Reqs : pc'[s] \in Holding \cup Apart => node'[s] \in 1 .. made' /\ node'[s] \in Nodes
    BY <1>3, <1>5 DEF ListsInv, Owned
  <2>2. \A s, t \in Reqs :
          pc'[s] \in Holding \cup Apart /\ pc'[t] \in Holding \cup Apart /\ node'[s] = node'[t] => s = t
    BY <1>5 DEF ListsInv, Owned
  <2>3. \A s \in Reqs : pc'[s] \in Holding =>
                          node'[s] \notin Pooled' /\ (closed'[node'[s]] \/ node'[s] \in Used')
    BY <1>2, <1>3, <1>5, <2>1 DEF ListsInv, Owned
  <2>4. \A s \in Reqs : pc'[s] \in Apart => node'[s] \notin Pooled' /\ node'[s] \notin Used'
    BY <1>2, <1>5 DEF ListsInv, Owned
  <2>5. \A s \in Reqs : pc'[s] = "enlist" => ~ closed'[node'[s]]
    <3>1. ASSUME NEW s \in Reqs, pc'[s] = "enlist" PROVE ~ closed'[node[s]]
      <4>1. pc[s] = "enlist" /\ pc[s] \in Apart /\ s # r
        BY <1>5, <3>1, Kinds DEF Apart
      <4>2. node[s] # n /\ node[s] \in Nodes /\ ~ closed[node[s]]
        BY <1>3, <1>6, <4>1 DEF ListsInv, Owned
      <4> QED
        BY <1>3, <4>2
    <3> QED
      BY <3>1
  <2>6. \A s \in Reqs : pc'[s] \in {"put", "extract"} /\ closed'[node'[s]] => isClosed'
    <3>1. ASSUME NEW s \in Reqs, pc'[s] \in {"put", "extract"}, closed'[node[s]] PROVE isClosed
      <4>1. pc[s] \in {"put", "extract"} /\ pc[s] \in Holding /\ s # r
        BY <1>5, <3>1 DEF Holding
      <4>2. node[s] # n /\ node[s] \in Nodes
        BY <1>3, <1>6, <4>1 DEF ListsInv, Owned
      <4> QED
        BY <1>3, <3>1, <4>1, <4>2 DEF ListsInv, Owned
    <3> QED
      BY <3>1
  <2> QED
    BY <2>1, <2>2, <2>3, <2>4, <2>5, <2>6 DEF Owned
<1>9. Kept'
  <2>1. \A m \in Pooled' : closed'[m] <=> isClosed'
    BY <1>1, <1>2, <1>3 DEF ListsInv, Kept
  <2>2. \A m \in Used' : ~ closed'[m] /\ ~ isClosed'
    BY <1>2, <1>3 DEF ListsInv, Kept
  <2>3. \A m \in Nodes : m > made' => ~ closed'[m]
    BY <1>1, <1>3 DEF ListsInv, Kept, Types
  <2>4. \A m \in 1 .. made' : \/ closed'[m] \/ m \in Pooled' \/ m \in Used'
                              \/ \E s \in Reqs : pc'[s] \in Apart /\ node'[s] = m
    BY <1>2, <1>3, <1>5 DEF ListsInv, Kept
  <2> QED
    BY <2>1, <2>2, <2>3, <2>4 DEF Kept
<1> QED
  BY <1>7, <1>8, <1>9 DEF ListsInv

\* tryGetConnFromPool: the head of the pool becomes the request's.
LEMMA TakesPooled ==
  ASSUME Types, ListsInv, NEW r \in Reqs, pc[r] = "get", GetConn(r),
         ~ isClosed, lists.head["pool"] # 0
  PROVE  /\ ListsInv'
         /\ lists.head["pool"] \in Pooled /\ Pooled' = Pooled \ {lists.head["pool"]}
         /\ Used' = Used \cup {lists.head["pool"]}
<1> DEFINE n == lists.head["pool"]
<1>1. /\ pc' = [pc EXCEPT ![r] = "send"] /\ node' = [node EXCEPT ![r] = n]
      /\ lists' = Prepend(Prepop(lists, "pool"), "use", n)
      /\ UNCHANGED <<isClosed, made, closed>>
  BY DEF GetConn, Goto, nodeVars
<1>2. /\ n \in Pooled /\ n \notin Used /\ n \in 1 .. made /\ n <= made /\ ~ closed[n]
      /\ Pooled \subseteq Nodes /\ Used \subseteq Nodes /\ 1 .. made \subseteq Nodes
  <2>1. n \in Pooled /\ n \notin Used /\ Pooled \subseteq Nodes /\ Used \subseteq Nodes
    BY ListsOk DEF ListsInv
  <2>2. n <= made /\ ~ closed[n]
    BY <2>1 DEF ListsInv, Links, Kept
  <2>3. made \in 0 .. MaxNodes
    BY DEF Types
  <2>4. n \in Nodes /\ 1 .. made \subseteq Nodes
    BY <2>1, <2>3, Kinds
  <2>5. n \in 1 .. made
    BY <2>2, <2>3, <2>4, ClientAssumption DEF Nodes
  <2> QED
    BY <2>1, <2>2, <2>4, <2>5
<1>3. Wf(lists') /\ Pooled' = Pooled \ {n} /\ Used' = Used \cup {n}
  <2>1. /\ Wf(Prepop(lists, "pool"))
        /\ In(Prepop(lists, "pool"), "pool") = In(lists, "pool") \ {n}
        /\ In(Prepop(lists, "pool"), "use") = In(lists, "use")
    BY PrepopTakes DEF ListsInv, Links
  <2>2. n \notin In(Prepop(lists, "pool"), "pool") /\ n \notin In(Prepop(lists, "pool"), "use") /\ n \in Nodes
    BY <1>2, <2>1 DEF Pooled, Used
  <2>3. /\ Wf(lists') /\ In(lists', "use") = In(Prepop(lists, "pool"), "use") \cup {n}
        /\ In(lists', "pool") = In(Prepop(lists, "pool"), "pool")
    BY <1>1, <2>1, <2>2, PrependAdds
  <2> QED
    BY <2>1, <2>3 DEF Pooled, Used
<1> HIDE DEF n
<1>4. \A s \in Reqs : /\ pc'[s] = IF s = r THEN "send" ELSE pc[s]
                      /\ node'[s] = IF s = r THEN n ELSE node[s]
  BY <1>1 DEF Types
<1>5. \A s \in Reqs : /\ s # r => pc'[s] = pc[s] /\ node'[s] = node[s]
                      /\ pc'[r] = "send" /\ node'[r] = n
                      /\ pc[s] \in Holding \cup Apart => s # r /\ node[s] # n
  <2>1. pc[r] \notin Holding \cup Apart
    BY DEF Holding, Apart
  <2>2. \A s \in Reqs : pc[s] \in Holding \cup Apart => node[s] # n
    BY <1>2 DEF ListsInv, Owned
  <2> QED
    BY <1>4, <2>1, <2>2
<1>6. Links'
  BY <1>1, <1>2, <1>3 DEF ListsInv, Links
<1>7. Owned'
  <2>1. \A s \in Reqs : pc'[s] \in Holding \cup Apart => node'[s] \in 1 .. made'
    BY <1>1, <1>2, <1>5 DEF ListsInv, Owned
  <2>2. \A s, t \in Reqs :
          pc'[s] \in Holding \cup Apart /\ pc'[t] \in Holding \cup Apart /\ node'[s] = node'[t] => s = t
    BY <1>5 DEF ListsInv, Owned
  <2>3. \A s \in Reqs : pc'[s] \in Holding =>
                          node'[s] \notin Pooled' /\ (closed'[node'[s]] \/ node'[s] \in Used')
    BY <1>1, <1>3, <1>5 DEF ListsInv, Owned
  <2>4. \A s \in Reqs : pc'[s] \in Apart => node'[s] \notin Pooled' /\ node'[s] \notin Used'
    BY <1>3, <1>5 DEF ListsInv, Owned, Apart
  <2>5. \A s \in Reqs : pc'[s] = "enlist" => ~ closed'[node'[s]]
    BY <1>1, <1>5 DEF ListsInv, Owned
  <2>6. \A s \in Reqs : pc'[s] \in {"put", "extract"} /\ closed'[node'[s]] => isClosed'
    BY <1>1, <1>5 DEF ListsInv, Owned
  <2> QED
    BY <2>1, <2>2, <2>3, <2>4, <2>5, <2>6 DEF Owned
<1>8. Kept'
  <2>1. \A s \in Reqs : pc[s] \in Apart => pc'[s] \in Apart /\ node'[s] = node[s]
    BY <1>5
  <2> QED
    BY <1>1, <1>2, <1>3, <2>1 DEF ListsInv, Kept
<1> QED
  BY <1>2, <1>3, <1>6, <1>7, <1>8 DEF ListsInv, n

\* createNewConn has a connection.
LEMMA Makes ==
  ASSUME Types, ListsInv, NEW r \in Reqs, pc[r] = "connect", made < MaxNodes,
         pc' = [pc EXCEPT ![r] = "enlist"], node' = [node EXCEPT ![r] = made + 1],
         made' = made + 1, UNCHANGED <<lists, closed, isClosed>>
  PROVE  ListsInv'
<1> DEFINE n == made + 1
<1>1. Pooled' = Pooled /\ Used' = Used
  BY DEF Pooled, Used
<1>2. made \in Nat /\ n \in Nodes /\ n \in 1 .. made' /\ 1 .. made \subseteq 1 .. made' /\ n \notin 1 .. made
  BY ClientAssumption DEF Types, Nodes
<1>3. n \notin Pooled /\ n \notin Used /\ ~ closed[n] /\ n = made + 1
  BY <1>2 DEF ListsInv, Links, Kept
<1>4. pc[r] \notin Holding \cup Apart /\ "enlist" \in Apart /\ "enlist" \notin Holding
  BY DEF Holding, Apart
<1>5. \A m \in 1 .. made' : m \in 1 .. made \/ m = n
  BY <1>2
<1> HIDE DEF n
<1>6. \A s \in Reqs : /\ s # r => pc'[s] = pc[s] /\ node'[s] = node[s]
                      /\ pc'[r] = "enlist" /\ node'[r] = n
                      /\ pc[s] \in Holding \cup Apart => s # r /\ node[s] # n
  BY <1>2, <1>3, <1>4 DEF ListsInv, Owned, Types
<1>7. Links'
  <2>1. \A m \in Pooled \cup Used : m \in Nat
    BY ListsOk DEF ListsInv, Nodes
  <2> QED
    BY <1>1, <1>2, <2>1 DEF ListsInv, Links
<1>8. Owned'
  <2>1. \A s \in Reqs : pc'[s] \in Holding \cup Apart => node'[s] \in 1 .. made'
    BY <1>2, <1>6 DEF ListsInv, Owned
  <2>2. \A s, t \in Reqs :
          pc'[s] \in Holding \cup Apart /\ pc'[t] \in Holding \cup Apart /\ node'[s] = node'[t] => s = t
    BY <1>6 DEF ListsInv, Owned
  <2>3. \A s \in Reqs : pc'[s] \in Holding =>
                          node'[s] \notin Pooled' /\ (closed'[node'[s]] \/ node'[s] \in Used')
    BY <1>1, <1>4, <1>6 DEF ListsInv, Owned
  <2>4. \A s \in Reqs : pc'[s] \in Apart => node'[s] \notin Pooled' /\ node'[s] \notin Used'
    BY <1>1, <1>3, <1>6 DEF ListsInv, Owned
  <2>5. \A s \in Reqs : pc'[s] = "enlist" => ~ closed'[node'[s]]
    BY <1>3, <1>6 DEF ListsInv, Owned
  <2>6. \A s \in Reqs : pc'[s] \in {"put", "extract"} /\ closed'[node'[s]] => isClosed'
    BY <1>6 DEF ListsInv, Owned
  <2> QED
    BY <2>1, <2>2, <2>3, <2>4, <2>5, <2>6 DEF Owned
<1>9. Kept'
  <2>1. \A s \in Reqs : pc[s] \in Apart => pc'[s] \in Apart /\ node'[s] = node[s]
    BY <1>6
  <2>2. \A m \in Nodes : m > made' => m > made
    BY <1>2 DEF Nodes
  <2>3. \A m \in 1 .. made' : \/ closed'[m] \/ m \in Pooled' \/ m \in Used'
                              \/ \E s \in Reqs : pc'[s] \in Apart /\ node'[s] = m
    BY <1>1, <1>4, <1>5, <1>6, <2>1 DEF ListsInv, Kept
  <2> QED
    BY <1>1, <2>2, <2>3 DEF ListsInv, Kept
<1> QED
  BY <1>7, <1>8, <1>9 DEF ListsInv

\* The new connection joins the list of a working engine; ...
LEMMA Enlists ==
  ASSUME Types, ListsInv, NEW r \in Reqs, pc[r] = "enlist", ~ isClosed,
         pc' = [pc EXCEPT ![r] = "send"], lists' = Prepend(lists, "use", node[r]),
         UNCHANGED <<closed, isClosed, made, node>>
  PROVE  ListsInv' /\ Pooled' = Pooled /\ Used' = Used \cup {node[r]}
<1> DEFINE n == node[r]
<1>1. pc[r] \in Apart /\ "send" \in Holding /\ "send" \notin Apart
  BY DEF Apart, Holding
<1>2. /\ n \in 1 .. made /\ n \in Nodes /\ 1 .. made \subseteq Nodes
      /\ n \notin Pooled /\ n \notin Used /\ ~ closed[n]
  BY <1>1, Kinds DEF ListsInv, Owned, Types
<1>3. Wf(lists') /\ Pooled' = Pooled /\ Used' = Used \cup {n}
  <2>1. Wf(lists) /\ n \notin In(lists, "pool") /\ n \notin In(lists, "use")
    BY <1>2 DEF ListsInv, Links, Pooled, Used
  <2>2. /\ Wf(lists') /\ In(lists', "use") = In(lists, "use") \cup {n}
        /\ In(lists', "pool") = In(lists, "pool")
    BY <1>2, <2>1, PrependAdds
  <2> QED
    BY <2>2 DEF Pooled, Used
<1>4. \A s \in Reqs : /\ s # r => pc'[s] = pc[s]
                      /\ pc'[r] = "send"
                      /\ pc[s] \in Holding \cup Apart /\ s # r => node[s] # n
                      /\ pc'[s] \in Holding \cup Apart => pc[s] \in Holding \cup Apart
  BY <1>1 DEF ListsInv, Owned, Types
<1> HIDE DEF n
<1>5. Links'
  BY <1>2, <1>3 DEF ListsInv, Links
<1>6. Owned'
  <2>1. \A s \in Reqs : pc'[s] \in Holding =>
                          node'[s] \notin Pooled' /\ (closed'[node'[s]] \/ node'[s] \in Used')
    BY <1>2, <1>3, <1>4 DEF ListsInv, Owned, n
  <2>2. \A s \in Reqs : pc'[s] \in Apart => node'[s] \notin Pooled' /\ node'[s] \notin Used'
    BY <1>1, <1>3, <1>4 DEF ListsInv, Owned
  <2>3. \A s \in Reqs : pc'[s] = "enlist" => ~ closed'[node'[s]]
    BY <1>4 DEF ListsInv, Owned
  <2>4. \A s \in Reqs : pc'[s] \in {"put", "extract"} /\ closed'[node'[s]] => isClosed'
    BY <1>4 DEF ListsInv, Owned
  <2> QED
    BY <1>4, <2>1, <2>2, <2>3, <2>4 DEF ListsInv, Owned
<1>7. Kept'
  <2>1. \A s \in Reqs : pc[s] \in Apart => (pc'[s] \in Apart /\ node'[s] = node[s]) \/ node[s] = n
    BY <1>4 DEF n
  <2>2. \A m \in 1 .. made' : \/ closed'[m] \/ m \in Pooled' \/ m \in Used'
                              \/ \E s \in Reqs : pc'[s] \in Apart /\ node'[s] = m
    BY <1>3, <2>1 DEF ListsInv, Kept
  <2> QED
    BY <1>2, <1>3, <2>2 DEF ListsInv, Kept
<1> QED
  BY <1>3, <1>5, <1>6, <1>7 DEF ListsInv, n

\* ... that of a closed one is closed.
LEMMA EnlistsNot ==
  ASSUME Types, ListsInv, NEW r \in Reqs, pc[r] = "enlist", isClosed,
         pc' = [pc EXCEPT ![r] = "over"], closed' = [closed EXCEPT ![node[r]] = TRUE],
         UNCHANGED <<lists, isClosed, made, node>>
  PROVE  ListsInv'
<1> DEFINE n == node[r]
<1>1. pc[r] \in Apart /\ "over" \notin Holding \cup Apart
  BY DEF Apart, Holding
<1>2. /\ n \in 1 .. made /\ n \in Nodes /\ 1 .. made \subseteq Nodes
      /\ n \notin Pooled /\ n \notin Used
  BY <1>1, Kinds DEF ListsInv, Owned, Types
<1>3. /\ Pooled' = Pooled /\ Used' = Used /\ Pooled \subseteq Nodes /\ Used \subseteq Nodes
      /\ \A m \in Nodes : closed'[m] = (m = n \/ closed[m])
  BY <1>2, ListsOk DEF Pooled, Used, Types, ListsInv
<1>4. \A s \in Reqs : /\ s # r => pc'[s] = pc[s]
                      /\ pc'[s] \in Holding \cup Apart => s # r /\ node[s] # n /\ node[s] \in Nodes
  BY <1>1, <1>2 DEF ListsInv, Owned, Types
<1> HIDE DEF n
<1>5. Links'
  BY <1>3 DEF ListsInv, Links
<1>6. Owned'
  <2>1. \A s \in Reqs : pc'[s] \in Holding =>
                          node'[s] \notin Pooled' /\ (closed'[node'[s]] \/ node'[s] \in Used')
    BY <1>3, <1>4 DEF ListsInv, Owned
  <2>2. \A s \in Reqs : pc'[s] \in Apart => node'[s] \notin Pooled' /\ node'[s] \notin Used'
    BY <1>3, <1>4 DEF ListsInv, Owned
  <2>3. \A s \in Reqs : pc'[s] = "enlist" => ~ closed'[node'[s]]
    BY <1>3, <1>4 DEF ListsInv, Owned, Apart
  <2> QED
    BY <1>4, <2>1, <2>2, <2>3 DEF ListsInv, Owned
<1>7. Kept'
  <2>1. \A s \in Reqs : pc[s] \in Apart => (pc'[s] \in Apart /\ node'[s] = node[s]) \/ node[s] = n
    BY <1>4 DEF n
  <2>2. \A m \in 1 .. made' : \/ closed'[m] \/ m \in Pooled' \/ m \in Used'
                              \/ \E s \in Reqs : pc'[s] \in Apart /\ node'[s] = m
    BY <1>2, <1>3, <2>1 DEF ListsInv, Kept
  <2>3. made \in 0 .. MaxNodes
    BY DEF Types
  <2>4. \A m \in Nodes : m > made => m # n
    BY <1>2, <2>3, ClientAssumption DEF Nodes
  <2>5. \A m \in Nodes : m > made' => ~ closed'[m]
    BY <1>3, <2>4 DEF ListsInv, Kept
  <2> QED
    BY <1>3, <2>2, <2>5 DEF ListsInv, Kept
<1> QED
  BY <1>5, <1>6, <1>7 DEF ListsInv

\* close leaves nothing in the lists and nothing open that they held.
LEMMA Shuts ==
  ASSUME Types, ListsInv, EngineClose
  PROVE  /\ ListsInv' /\ Pooled' = {} /\ Used' = {}
         /\ \A n \in Nodes : closed'[n] = (closed[n] \/ n \in Pooled \cup Used)
<1>1. /\ isClosed' = TRUE
      /\ closed' = [n \in Nodes |-> closed[n] \/ n \in In(lists, "pool") \cup In(lists, "use")]
      /\ UNCHANGED <<made, pc, node>>
  BY DEF EngineClose, reqVars
<1>2. Wf(lists') /\ Pooled' = {} /\ Used' = {}
  BY Emptied DEF EngineClose, ListsInv, Links, Pooled, Used
<1>3. \A n \in Nodes : closed'[n] = (closed[n] \/ n \in Pooled \cup Used)
  BY <1>1 DEF Pooled, Used
<1>4. 1 .. made \subseteq Nodes
  BY Kinds DEF Types
<1>5. Links'
  BY <1>2 DEF Links
<1>6. Owned'
  <2>1. \A s \in Reqs : pc[s] \in Holding \cup Apart => node[s] \in Nodes
    BY <1>4 DEF ListsInv, Owned
  <2>2. \A s \in Reqs : pc'[s] \in Holding =>
                          node'[s] \notin Pooled' /\ (closed'[node'[s]] \/ node'[s] \in Used')
    BY <1>1, <1>2, <1>3, <2>1 DEF ListsInv, Owned
  <2>3. \A s \in Reqs : pc'[s] = "enlist" => ~ closed'[node'[s]]
    BY <1>1, <1>3, <2>1 DEF ListsInv, Owned, Apart
  <2> QED
    BY <1>1, <1>2, <2>2, <2>3 DEF ListsInv, Owned
<1>7. Kept'
  <2>1. \A n \in Nodes : n > made' => ~ closed'[n]
    <3>1. \A n \in Nodes : n > made => n \notin Pooled \cup Used
      BY DEF ListsInv, Links, Types, Nodes
    <3> QED
      BY <1>1, <1>3, <3>1 DEF ListsInv, Kept
  <2>2. \A n \in 1 .. made' : \/ closed'[n] \/ n \in Pooled' \/ n \in Used'
                              \/ \E s \in Reqs : pc'[s] \in Apart /\ node'[s] = n
    BY <1>1, <1>3, <1>4 DEF ListsInv, Kept
  <2> QED
    BY <1>2, <2>1, <2>2 DEF Kept
<1> QED
  BY <1>2, <1>3, <1>5, <1>6, <1>7 DEF ListsInv

\* extractFromConnInUse: the connection is the user's.
LEMMA Extracts ==
  ASSUME Types, ListsInv, NEW r \in Reqs, pc[r] = "extract", pc' = [pc EXCEPT ![r] = "own"],
         lists' = Remove(lists, "use", node[r]), UNCHANGED <<closed, isClosed, made, node>>
  PROVE  /\ ListsInv' /\ Pooled' = Pooled /\ Used' = Used \ {node[r]}
<1> DEFINE n == node[r]
<1>1. pc[r] \in Holding /\ "own" \in Apart /\ "own" \notin Holding
  BY DEF Apart, Holding
<1>2. /\ n \in Nodes /\ n \in 1 .. made /\ 1 .. made \subseteq Nodes
      /\ n \notin Pooled /\ (closed[n] \/ n \in Used)
  BY <1>1, Kinds DEF ListsInv, Owned, Types
<1>3. Wf(lists') /\ Pooled' = Pooled /\ Used' = Used \ {n}
  <2>1. CASE n \in Used
    <3>1. Wf(lists) /\ n \in In(lists, "use")
      BY <2>1 DEF ListsInv, Links, Used
    <3>2. /\ Wf(lists') /\ In(lists', "use") = In(lists, "use") \ {n}
          /\ In(lists', "pool") = In(lists, "pool")
      BY <3>1, RemoveTakes
    <3> QED
      BY <3>2 DEF Pooled, Used
  <2>2. CASE n \notin Used
    <3>1. isClosed /\ Used = {}
      BY <1>2, <2>2 DEF ListsInv, Owned, Kept
    <3>2. Wf(lists) /\ n \notin In(lists, "pool") /\ n \notin In(lists, "use") /\ In(lists, "use") = {}
      BY <1>2, <2>2, <3>1 DEF ListsInv, Links, Pooled, Used
    <3>3. lists' = lists
      BY <1>2, <3>2, RemoveUnlisted
    <3> QED
      BY <2>2, <3>2, <3>3 DEF Pooled, Used
  <2> QED
    BY <2>1, <2>2
<1>4. \A s \in Reqs : /\ s # r => pc'[s] = pc[s]
                      /\ pc'[r] = "own"
                      /\ pc[s] \in Holding \cup Apart /\ s # r => node[s] # n
                      /\ pc'[s] \in Holding \cup Apart => pc[s] \in Holding \cup Apart
  BY <1>1 DEF ListsInv, Owned, Types
<1> HIDE DEF n
<1>5. Links'
  BY <1>3 DEF ListsInv, Links
<1>6. Owned'
  <2>1. \A s \in Reqs : pc'[s] \in Holding =>
                          node'[s] \notin Pooled' /\ (closed'[node'[s]] \/ node'[s] \in Used')
    BY <1>1, <1>3, <1>4 DEF ListsInv, Owned
  <2>2. \A s \in Reqs : pc'[s] \in Apart => node'[s] \notin Pooled' /\ node'[s] \notin Used'
    BY <1>2, <1>3, <1>4 DEF ListsInv, Owned, n
  <2>3. \A s \in Reqs : pc'[s] = "enlist" => ~ closed'[node'[s]]
    BY <1>4 DEF ListsInv, Owned
  <2>4. \A s \in Reqs : pc'[s] \in {"put", "extract"} /\ closed'[node'[s]] => isClosed'
    BY <1>4 DEF ListsInv, Owned
  <2> QED
    BY <1>4, <2>1, <2>2, <2>3, <2>4 DEF ListsInv, Owned
<1>7. Kept'
  <2>1. \A s \in Reqs : pc[s] \in Apart => pc'[s] \in Apart /\ node'[s] = node[s]
    BY <1>1, <1>4
  <2>2. pc'[r] \in Apart /\ node'[r] = n
    BY <1>1, <1>4 DEF n
  <2>3. \A m \in 1 .. made' : \/ closed'[m] \/ m \in Pooled' \/ m \in Used'
                              \/ \E s \in Reqs : pc'[s] \in Apart /\ node'[s] = m
    BY <1>3, <2>1, <2>2 DEF ListsInv, Kept
  <2> QED
    BY <1>3, <2>3 DEF ListsInv, Kept
<1> QED
  BY <1>3, <1>5, <1>6, <1>7 DEF ListsInv, n

\* putConn: the connection is in the pool again.
LEMMA Puts ==
  ASSUME Types, ListsInv, NEW r \in Reqs, pc[r] = "put", pc' = [pc EXCEPT ![r] = "done"],
         lists' = Prepend(Remove(lists, "use", node[r]), "pool", node[r]),
         UNCHANGED <<closed, isClosed, made, node>>
  PROVE  /\ ListsInv' /\ Pooled' = Pooled \cup {node[r]} /\ Used' = Used \ {node[r]}
<1> DEFINE n == node[r]
           M == Remove(lists, "use", n)
<1>1. pc[r] \in Holding /\ "done" \notin Apart /\ "done" \notin Holding
  BY DEF Apart, Holding
<1>2. /\ n \in Nodes /\ n \in 1 .. made /\ n <= made /\ 1 .. made \subseteq Nodes
      /\ n \notin Pooled /\ (closed[n] \/ n \in Used) /\ (closed[n] => isClosed)
  BY <1>1, Kinds DEF ListsInv, Owned, Types
<1>3. Wf(M) /\ In(M, "pool") = Pooled /\ In(M, "use") = Used \ {n}
  <2>1. CASE n \in Used
    <3>1. Wf(lists) /\ n \in In(lists, "use")
      BY <2>1 DEF ListsInv, Links, Used
    <3>2. Wf(M) /\ In(M, "use") = In(lists, "use") \ {n} /\ In(M, "pool") = In(lists, "pool")
      BY <3>1, RemoveTakes
    <3> QED
      BY <3>2 DEF Pooled, Used
  <2>2. CASE n \notin Used
    <3>1. isClosed /\ Used = {}
      BY <1>2, <2>2 DEF ListsInv, Kept
    <3>2. Wf(lists) /\ n \notin In(lists, "pool") /\ n \notin In(lists, "use") /\ In(lists, "use") = {}
      BY <1>2, <2>2, <3>1 DEF ListsInv, Links, Pooled, Used
    <3>3. M = lists
      BY <1>2, <3>2, RemoveUnlisted
    <3> QED
      BY <2>2, <3>2, <3>3 DEF Pooled, Used
  <2> QED
    BY <2>1, <2>2
<1>a. lists' = Prepend(M, "pool", n)
  OBVIOUS
<1>4. Wf(lists') /\ Pooled' = Pooled \cup {n} /\ Used' = Used \ {n}
  <2> HIDE DEF M
  <2>1. n \notin In(M, "pool") /\ n \notin In(M, "use")
    BY <1>2, <1>3
  <2>2. /\ Wf(lists') /\ In(lists', "pool") = In(M, "pool") \cup {n}
        /\ In(lists', "use") = In(M, "use")
    BY <1>2, <1>3, <1>a, <2>1, PrependAdds
  <2> QED
    BY <1>3, <2>2 DEF Pooled, Used
<1>5. \A s \in Reqs : /\ s # r => pc'[s] = pc[s]
                      /\ pc'[r] = "done"
                      /\ pc'[s] \in Holding \cup Apart => s # r /\ node[s] # n
  BY <1>1 DEF ListsInv, Owned, Types
<1> HIDE DEF n, M
<1>6. Links'
  BY <1>2, <1>4 DEF ListsInv, Links
<1>7. Owned'
  <2>1. \A s \in Reqs : pc'[s] \in Holding =>
                          node'[s] \notin Pooled' /\ (closed'[node'[s]] \/ node'[s] \in Used')
    BY <1>4, <1>5 DEF ListsInv, Owned
  <2>2. \A s \in Reqs : pc'[s] \in Apart => node'[s] \notin Pooled' /\ node'[s] \notin Used'
    BY <1>4, <1>5 DEF ListsInv, Owned
  <2>3. \A s \in Reqs : pc'[s] = "enlist" => ~ closed'[node'[s]]
    BY <1>5 DEF ListsInv, Owned
  <2>4. \A s \in Reqs : pc'[s] \in {"put", "extract"} /\ closed'[node'[s]] => isClosed'
    BY <1>5 DEF ListsInv, Owned
  <2> QED
    BY <1>5, <2>1, <2>2, <2>3, <2>4 DEF ListsInv, Owned
<1>8. Kept'
  <2>1. \A s \in Reqs : pc[s] \in Apart => pc'[s] \in Apart /\ node'[s] = node[s]
    BY <1>5 DEF Apart, Types
  <2>2. closed[n] <=> isClosed
    BY <1>2 DEF ListsInv, Kept
  <2>3. \A m \in 1 .. made' : \/ closed'[m] \/ m \in Pooled' \/ m \in Used'
                              \/ \E s \in Reqs : pc'[s] \in Apart /\ node'[s] = m
    BY <1>4, <2>1 DEF ListsInv, Kept
  <2> QED
    BY <1>4, <2>2, <2>3 DEF ListsInv, Kept
<1> QED
  BY <1>4, <1>6, <1>7, <1>8 DEF ListsInv, n

\* A timer closes a connection that is in use.
LEMMA TimerShuts ==
  ASSUME Types, ListsInv, Plain, Timely, NEW w \in won, TimerCloses(w)
  PROVE  ListsInv'
<1> DEFINE n == w.node
<1>1. n \in Nodes /\ "timeout" \in troubles
  BY DEF Types, Timely, OnTime, Late
<1>2. ~ closed[n] => n \in Used /\ lifeState[n] % 4 # 0
  BY <1>1 DEF Timely, OnTime, Late
<1>3. CloseConnInUse(n) /\ UNCHANGED <<made, isClosed, pc, node>>
  BY DEF TimerCloses, reqVars
<1>4. /\ Wf(lists') /\ Pooled' = Pooled /\ Used' = Used \ {n}
      /\ closed' = [closed EXCEPT ![n] = TRUE]
  BY <1>1, <1>2, <1>3, Closing DEF ListsInv
<1>5. /\ \A m \in Nodes : closed'[m] = (m = n \/ closed[m])
      /\ Pooled \subseteq Nodes /\ Used \subseteq Nodes /\ 1 .. made \subseteq Nodes /\ Pooled \cap Used = {}
  BY <1>1, <1>4, ListsOk, Kinds DEF Types, ListsInv
<1>6. ASSUME NEW s \in Reqs, pc[s] \in {"put", "enlist"}, node[s] = n PROVE closed[n]
  <2>1. Idle(n) /\ (~ closed[n] => Quiet(n))
    BY <1>1, <1>6 DEF Timely, OnTime, Idle
  <2> QED
    BY <1>2, <2>1 DEF Quiet
<1> HIDE DEF n
<1>7. Links'
  BY <1>3, <1>4 DEF ListsInv, Links
<1>8. Owned'
  <2>1. \A s \in Reqs : pc[s] \in Holding \cup Apart => node[s] \in Nodes
    BY <1>5 DEF ListsInv, Owned
  <2>2. \A s \in Reqs : pc'[s] \in Holding =>
                          node'[s] \notin Pooled' /\ (closed'[node'[s]] \/ node'[s] \in Used')
    BY <1>3, <1>4, <1>5, <2>1 DEF ListsInv, Owned
  <2>3. \A s \in Reqs : pc'[s] = "enlist" => ~ closed'[node'[s]]
    BY <1>3, <1>5, <1>6, <2>1 DEF ListsInv, Owned, Apart
  <2>4. \A s \in Reqs : pc'[s] \in {"put", "extract"} /\ closed'[node'[s]] => isClosed'
    <3>1. ASSUME NEW s \in Reqs, pc[s] \in {"put", "extract"}, closed'[node[s]] PROVE isClosed
      <4>1. pc[s] = "put" /\ pc[s] \in Holding /\ node[s] \in Nodes
        BY <1>1, <2>1, <3>1 DEF Plain, Singly, Holding
      <4>2. closed[node[s]]
        BY <1>5, <1>6, <3>1, <4>1
      <4> QED
        BY <3>1, <4>2 DEF ListsInv, Owned
    <3> QED
      BY <1>3, <3>1
  <2> QED
    BY <1>3, <1>4, <2>2, <2>3, <2>4 DEF ListsInv, Owned
<1>9. Kept'
  <2>1. n \in Pooled => closed[n]
    BY <1>2, <1>5
  <2>2. \A m \in Pooled' : closed'[m] <=> isClosed'
    BY <1>3, <1>4, <1>5, <2>1 DEF ListsInv, Kept
  <2>3. ~ (n > made)
    <3>1. n > made => n \in Used
      BY <1>1, <1>2 DEF ListsInv, Kept
    <3>2. n \in Used => n <= made
      BY DEF ListsInv, Links
    <3>3. n \in Int /\ made \in Int
      BY <1>1 DEF Types, Nodes
    <3> QED
      BY <3>1, <3>2, <3>3
  <2>4. \A m \in Nodes : m > made' => ~ closed'[m]
    BY <1>3, <1>5, <2>3, <1>1 DEF ListsInv, Kept
  <2>5. \A m \in 1 .. made' : \/ closed'[m] \/ m \in Pooled' \/ m \in Used'
                              \/ \E s \in Reqs : pc'[s] \in Apart /\ node'[s] = m
    BY <1>3, <1>4, <1>5 DEF ListsInv, Kept
  <2> QED
    BY <1>3, <1>4, <1>5, <2>2, <2>4, <2>5 DEF ListsInv, Kept
<1> QED
  BY <1>7, <1>8, <1>9 DEF ListsInv

\* Every step keeps the lists well linked and the connections with their owners.
LEMMA ListsStep ==
  ASSUME Types, ListsInv, Plain, Timely, [Next]_vars
  PROVE  ListsInv'
<1>1. ASSUME NEW r \in Reqs, GetConn(r) PROVE ListsInv'
  <2>1. pc[r] = "get"
    BY <1>1 DEF GetConn, Goto
  <2>2. CASE ~ isClosed /\ lists.head["pool"] # 0
    BY <1>1, <2>1, <2>2, TakesPooled
  <2>3. CASE isClosed
    BY <1>1, <2>1, <2>3, Moves DEF GetConn, Goto, nodeVars, Holding, Apart
  <2>4. CASE ~ isClosed /\ lists.head["pool"] = 0
    BY <1>1, <2>1, <2>4, Moves DEF GetConn, Goto, nodeVars, Holding, Apart
  <2> QED
    BY <2>2, <2>3, <2>4
<1>2. ASSUME NEW r \in Reqs, CountConn(r) PROVE ListsInv'
  <2>1. PICK x \in {"over", "undo", "connect"} : pc[r] = "new" /\ pc' = [pc EXCEPT ![r] = x]
    BY <1>2 DEF CountConn, Goto
  <2> QED
    BY <1>2, <2>1, Moves DEF CountConn, nodeVars, Holding, Apart
<1>3. ASSUME NEW r \in Reqs, UndoCount(r) PROVE ListsInv'
  BY <1>3, Moves DEF UndoCount, Goto, nodeVars, Holding, Apart
<1>4. ASSUME NEW r \in Reqs, Connect(r) PROVE ListsInv'
  <2>1. CASE Goto(r, "connect", "undo") /\ UNCHANGED <<made, node>>
    BY <1>4, <2>1, Moves DEF Connect, Goto, nodeVars, Holding, Apart
  <2>2. CASE /\ Goto(r, "connect", "enlist") /\ made < MaxNodes
             /\ made' = made + 1 /\ node' = [node EXCEPT ![r] = made + 1]
    BY <1>4, <2>2, Makes DEF Connect, Goto, nodeVars
  <2> QED
    BY <1>4, <2>1, <2>2 DEF Connect
<1>5. ASSUME NEW r \in Reqs, Enlist(r) PROVE ListsInv'
  <2>1. CASE isClosed
    BY <1>5, <2>1, EnlistsNot DEF Enlist, Goto
  <2>2. CASE ~ isClosed
    BY <1>5, <2>2, Enlists DEF Enlist, Goto
  <2> QED
    BY <2>1, <2>2
<1>6. ASSUME NEW r \in Reqs, Send(r) PROVE ListsInv'
  <2>1. PICK x \in {"arm", "failed"} : pc[r] = "send" /\ pc' = [pc EXCEPT ![r] = x]
    BY <1>6 DEF Send, Goto
  <2> QED
    BY <1>6, <2>1, Moves DEF Send, engineVars, Holding, Apart
<1>7. ASSUME NEW r \in Reqs, BodySent(r) PROVE ListsInv'
  <2>1. Pooled' = Pooled /\ Used' = Used
    BY <1>7 DEF BodySent, engineVars, Pooled, Used
  <2> QED
    BY <1>7, <2>1 DEF BodySent, engineVars, nodeVars, ListsInv, Links, Owned, Kept
<1>8. ASSUME NEW r \in Reqs, ArmRead(r) PROVE ListsInv'
  BY <1>8, Moves DEF ArmRead, Goto, engineVars, nodeVars, Holding, Apart
<1>9. ASSUME NEW r \in Reqs, Receive(r) PROVE ListsInv'
  <2>1. PICK x \in {"close", "failed"} : pc[r] = "recv" /\ pc' = [pc EXCEPT ![r] = x]
    BY <1>9 DEF Receive, Goto
  <2> QED
    BY <1>9, <2>1, Moves DEF Receive, engineVars, Holding, Apart
<1>10. ASSUME NEW r \in Reqs, CloseLast(r) PROVE ListsInv'
  <2>1. PICK x \in {"wait", "failed"} : pc[r] = "close" /\ pc' = [pc EXCEPT ![r] = x]
    BY <1>10 DEF CloseLast, Goto
  <2>2. CASE UNCHANGED <<lists, closed>>
    BY <1>10, <2>1, <2>2, Moves DEF CloseLast, Holding, Apart
  <2>3. CASE CloseConnInUse(node[r])
    BY <1>10, <2>1, <2>3, MovesAndCloses DEF CloseLast, Holding, Apart
  <2> QED
    BY <1>10, <2>2, <2>3 DEF CloseLast
<1>11. ASSUME NEW r \in Reqs, Respond(r) PROVE ListsInv'
  <2>1. PICK x \in {"body", "return", "user", "done"} : pc[r] = "wait" /\ pc' = [pc EXCEPT ![r] = x]
    BY <1>11 DEF Respond, Goto
  <2> QED
    BY <1>11, <2>1, Moves DEF Respond, engineVars, nodeVars, Holding, Apart
<1>12. ASSUME NEW r \in Reqs, Fail(r) PROVE ListsInv'
  <2>1. PICK x \in {"over", "new"} : pc[r] = "failed" /\ pc' = [pc EXCEPT ![r] = x]
    BY <1>12 DEF Fail, Goto
  <2> QED
    BY <1>12, <2>1, MovesAndCloses DEF Fail, Holding, Apart
<1>13. ASSUME NEW r \in Reqs, ReadBody(r) PROVE ListsInv'
  BY <1>13, Moves DEF ReadBody, Goto, engineVars, nodeVars, Holding, Apart
<1>14. ASSUME NEW r \in Reqs, CloseBody(r) PROVE ListsInv'
  <2>1. pc[r] = "body" /\ pc' = [pc EXCEPT ![r] = "over"] /\ CloseConnInUse(node[r]) /\ UNCHANGED <<made, isClosed, node>>
    BY <1>14 DEF CloseBody, Goto
  <2>2. pc[r] \in Holding /\ "over" \notin Apart /\ "over" \notin {"put", "extract"}
    BY <2>1 DEF Holding, Apart
  <2> QED
    BY <2>1, <2>2, MovesAndCloses
<1>15. ASSUME NEW r \in Reqs, Upgrade(r) PROVE ListsInv'
  <2>1. CASE /\ Goto(r, "extract", "own")
             /\ lists' = Remove(lists, "use", node[r]) /\ connNum' = connNum - 1
    BY <1>15, <2>1, Extracts DEF Upgrade, Goto, nodeVars
  <2>2. CASE UNCHANGED <<lists, connNum>> /\ pc[r] = "user"
    <3>1. PICK x \in {"over", "extract", "return"} :
            pc' = [pc EXCEPT ![r] = x] /\ (x = "extract" => ~ closed[node[r]])
      BY <1>15, <2>2 DEF Upgrade, Goto
    <3> QED
      BY <1>15, <2>2, <3>1, Moves DEF Upgrade, nodeVars, Holding, Apart
  <2> QED
    BY <1>15, <2>1, <2>2 DEF Upgrade, Goto
<1>16. ASSUME NEW r \in Reqs, ReturnConn(r) PROVE ListsInv'
  <2>1. PICK x \in {"put", "done"} : pc[r] = "return" /\ pc' = [pc EXCEPT ![r] = x]
    BY <1>16 DEF ReturnConn, Goto
  <2>2. CASE UNCHANGED <<lists, closed>> /\ (x = "put" => ~ closed[node[r]])
    BY <1>16, <2>1, <2>2, Moves DEF ReturnConn, Holding, Apart
  <2>3. CASE CloseConnInUse(node[r]) /\ x = "done"
    BY <1>16, <2>1, <2>3, MovesAndCloses DEF ReturnConn, Holding, Apart
  <2>4. pc[r] \in States /\ pc'[r] = x
    BY <2>1 DEF Types
  <2> QED
    BY <1>16, <2>1, <2>2, <2>3, <2>4 DEF ReturnConn, Goto
<1>17. ASSUME NEW r \in Reqs, PutConn(r) PROVE ListsInv'
  BY <1>17, Puts DEF PutConn, Goto, nodeVars
<1>18. ASSUME UNCHANGED <<lists, made, closed, isClosed, pc, node>> PROVE ListsInv'
  <2>1. Pooled' = Pooled /\ Used' = Used
    BY <1>18 DEF Pooled, Used
  <2> QED
    BY <1>18, <2>1 DEF ListsInv, Links, Owned, Kept
<1>19. ASSUME NEW n \in Nodes, ServerCloses(n) PROVE ListsInv'
  BY <1>18, <1>19 DEF ServerCloses, engineVars, reqVars
<1>20. ASSUME NEW n \in Nodes, NEW a \in armed[n], TimerWins(n, a) PROVE ListsInv'
  BY <1>18, <1>20 DEF TimerWins, engineVars, reqVars
<1>21. ASSUME NEW w \in won, TimerCloses(w) PROVE ListsInv'
  BY <1>21, TimerShuts
<1>22. ASSUME EngineClose PROVE ListsInv'
  BY <1>22, Shuts
<1>23. ASSUME UNCHANGED vars PROVE ListsInv'
  BY <1>18, <1>23 DEF vars, engineVars, nodeVars, reqVars
<1> QED
  BY <1>1, <1>2, <1>3, <1>4, <1>5, <1>6, <1>7, <1>8, <1>9, <1>10, <1>11, <1>12, <1>13, <1>14, <1>15, <1>16, <1>17,
     <1>19, <1>20, <1>21, <1>22, <1>23 DEF Next, Step

-----------------------------------------------------------------------------
(* Types. *)

\* The connection of a request that holds one is in use, or closed.
LEMMA Holds ==
  ASSUME Types, ListsInv, NEW r \in Reqs, pc[r] \in Holding
  PROVE  node[r] \in Nodes /\ (closed[node[r]] \/ node[r] \in Used) /\ node[r] \notin Pooled
BY Kinds DEF Types, ListsInv, Owned

\* cancel takes timers away, ...
LEMMA Cancelling ==
  ASSUME Types, NEW n, NEW ts, Cancel(n, ts)
  PROVE  /\ armed' \in [Nodes -> SUBSET [by : Timers, cap : Nat]] /\ won' = won
         /\ \A m \in Nodes : armed'[m] \subseteq armed[m]
<1>1. PICK started \in SUBSET {a \in armed[n] : /\ a.by \in ts /\ a.cap = lifeState[n]
                                                /\ "timeout" \in troubles} :
        armed' = [armed EXCEPT ![n] = Without(n, ts) \cup started]
  BY DEF Cancel
<1>2. Without(n, ts) \cup started \subseteq armed[n]
  BY DEF Without
<1>3. armed \in [Nodes -> SUBSET [by : Timers, cap : Nat]]
  BY DEF Types
<1> DEFINE X == Without(n, ts) \cup started
<1> HIDE DEF X
<1>4. X \subseteq armed[n] /\ armed' = [armed EXCEPT ![n] = X]
  BY <1>1, <1>2 DEF X
<1> QED
  BY <1>3, <1>4 DEF Cancel

\* ... and a new one is for the use at hand.
LEMMA Arming ==
  ASSUME Types, NEW n \in Nodes, NEW t \in Timers, Arm(n, t)
  PROVE  /\ armed' \in [Nodes -> SUBSET [by : Timers, cap : Nat]]
         /\ \A m \in Nodes : m # n => armed'[m] = armed[m]
         /\ \A a \in armed'[n] : a \in armed[n] \/ a.cap = lifeState[n]
<1> DEFINE X == IF closed[n] THEN {} ELSE Without(n, {t}) \cup {[by |-> t, cap |-> lifeState[n]]}
<1>1. armed \in [Nodes -> SUBSET [by : Timers, cap : Nat]] /\ lifeState[n] \in Nat
  BY DEF Types
<1>2. armed' = [armed EXCEPT ![n] = X]
  BY DEF Arm
<1>3. X \subseteq [by : Timers, cap : Nat] /\ \A a \in X : a \in armed[n] \/ a.cap = lifeState[n]
  BY <1>1 DEF Without
<1> HIDE DEF X
<1> QED
  BY <1>1, <1>2, <1>3

\* Every step keeps the types.
LEMMA TypesStep ==
  ASSUME Types, ListsInv, Timely, [Next]_vars
  PROVE  Types'
<1>1. ASSUME NEW r \in Reqs, GetConn(r) PROVE Types'
  <2>1. lists.head["pool"] \in Nodes \cup {0}
    BY ListsOk DEF ListsInv
  <2> QED
    BY <1>1, <2>1 DEF GetConn, Types, Goto, engineVars, nodeVars, timerVars, States, Holding
<1>2. ASSUME NEW r \in Reqs, CountConn(r) PROVE Types'
  BY <1>2 DEF CountConn, Types, Goto, engineVars, nodeVars, timerVars, States, Holding
<1>3. ASSUME NEW r \in Reqs, UndoCount(r) PROVE Types'
  BY <1>3 DEF UndoCount, Types, Goto, engineVars, nodeVars, timerVars, States, Holding
<1>4. ASSUME NEW r \in Reqs, Connect(r) PROVE Types'
  <2>1. pc' \in [Reqs -> States]
    BY <1>4 DEF Connect, Goto, Types, States
  <2>2. made \in Nat /\ MaxNodes \in Nat /\ made <= MaxNodes /\ node \in [Reqs -> Nodes \cup {0}]
    BY ClientAssumption DEF Types
  <2>3. made' \in 0 .. MaxNodes /\ node' \in [Reqs -> Nodes \cup {0}]
    BY <1>4, <2>2 DEF Connect, Nodes
  <2> QED
    BY <1>4, <2>1, <2>3 DEF Connect, Types, nodeVars, timerVars
<1>5. ASSUME NEW r \in Reqs, Enlist(r) PROVE Types'
  <2>1. pc' \in [Reqs -> States]
    BY <1>5 DEF Enlist, Goto, Types, States, Holding
  <2>2. connNum' \in Int
    BY <1>5 DEF Enlist, Types
  <2>3. closed \in [Nodes -> BOOLEAN] /\ (closed' = closed \/ closed' = [closed EXCEPT ![node[r]] = TRUE])
    BY <1>5 DEF Enlist, Types
  <2>4. closed' \in [Nodes -> BOOLEAN]
    BY <2>3
  <2> QED
    BY <1>5, <2>1, <2>2, <2>4 DEF Enlist, Types, timerVars
<1>6. ASSUME NEW r \in Reqs, Send(r) PROVE Types'
  <2>1. node[r] \in Nodes
    BY <1>6, Holds DEF Send, Goto, Holding
  <2>2. armed' \in [Nodes -> SUBSET [by : Timers, cap : Nat]]
    BY <1>6, <2>1, Arming DEF Send, Timers
  <2> QED
    BY <1>6, <2>2 DEF Send, Types, Goto, engineVars, nodeVars, timerVars, States, Holding
<1>7. ASSUME NEW r \in Reqs, BodySent(r) PROVE Types'
  <2>1. armed' \in [Nodes -> SUBSET [by : Timers, cap : Nat]] /\ won' = won
    BY <1>7, Cancelling DEF BodySent
  <2> QED
    BY <1>7, <2>1 DEF BodySent, Types, Goto, engineVars, nodeVars, timerVars, States, Holding
<1>8. ASSUME NEW r \in Reqs, ArmRead(r) PROVE Types'
  <2>1. node[r] \in Nodes
    BY <1>8, Holds DEF ArmRead, Goto, Holding
  <2>2. armed' \in [Nodes -> SUBSET [by : Timers, cap : Nat]]
    BY <1>8, <2>1, Arming DEF ArmRead, Timers
  <2> QED
    BY <1>8, <2>2 DEF ArmRead, Types, Goto, engineVars, nodeVars, timerVars, States, Holding
<1>9. ASSUME NEW r \in Reqs, Receive(r) PROVE Types'
  <2>1. armed' \in [Nodes -> SUBSET [by : Timers, cap : Nat]] /\ won' = won
    <3>1. \/ UNCHANGED timerVars \/ Cancel(node[r], {"read"})
      BY <1>9 DEF Receive
    <3> QED
      BY <3>1, Cancelling DEF timerVars, Types
  <2>2. resp' \in [Reqs -> {"none", "empty", "body", "read", "rest", "switch"}]
    BY <1>9 DEF Receive, Answers, Types
  <2>3. pc' \in [Reqs -> States] /\ last' \in [Nodes -> BOOLEAN]
    BY <1>9 DEF Receive, Goto, Types, States, Holding
  <2> QED
    BY <1>9, <2>1, <2>2, <2>3 DEF Receive, Types, engineVars
<1>10. ASSUME NEW r \in Reqs, CloseLast(r) PROVE Types'
  <2>1. pc[r] \in Holding
    BY <1>10 DEF CloseLast, Goto, Holding
  <2>2. node[r] \in Nodes /\ (closed[node[r]] \/ node[r] \in Used)
    BY <2>1, Holds
  <2>3. \/ UNCHANGED <<connNum, closed, armed>>
        \/ CloseConnInUse(node[r])
    BY <1>10 DEF CloseLast
  <2>4. /\ connNum' \in Int /\ closed' \in [Nodes -> BOOLEAN]
        /\ armed' \in [Nodes -> SUBSET [by : Timers, cap : Nat]]
    <3>1. /\ connNum \in Int /\ closed \in [Nodes -> BOOLEAN]
          /\ armed \in [Nodes -> SUBSET [by : Timers, cap : Nat]]
      BY DEF Types
    <3>2. CASE UNCHANGED <<connNum, closed, armed>>
      BY <3>1, <3>2
    <3>3. CASE CloseConnInUse(node[r])
      <4>1. /\ closed' = [closed EXCEPT ![node[r]] = TRUE]
            /\ armed' \in [Nodes -> SUBSET [by : Timers, cap : Nat]]
            /\ connNum' = IF closed[node[r]] THEN connNum ELSE connNum - 1
        BY <2>2, <3>3, Closing DEF ListsInv
      <4>2. closed' \in [Nodes -> BOOLEAN]
        BY <3>1, <4>1
      <4>3. connNum' \in Int
        BY <3>1, <4>1
      <4> QED
        BY <4>1, <4>2, <4>3
    <3> QED
      BY <2>3, <3>2, <3>3
  <2>5. /\ pc' \in [Reqs -> States] /\ lifeState' \in [Nodes -> Nat]
        /\ resp' \in [Reqs -> {"none", "empty", "body", "read", "rest", "switch"}]
    BY <1>10 DEF CloseLast, Types, Goto, States, Holding
  <2> QED
    BY <1>10, <2>4, <2>5 DEF CloseLast, Types
<1>11. ASSUME NEW r \in Reqs, Respond(r) PROVE Types'
  BY <1>11 DEF Respond, Types, Goto, engineVars, nodeVars, timerVars, States, Holding
<1>12. ASSUME NEW r \in Reqs, Fail(r) PROVE Types'
  <2>1. pc[r] \in Holding
    BY <1>12 DEF Fail, Goto, Holding
  <2>2. node[r] \in Nodes /\ (closed[node[r]] \/ node[r] \in Used)
    BY <2>1, Holds
  <2>3. \/ UNCHANGED <<connNum, closed, armed>>
        \/ CloseConnInUse(node[r])
    BY <1>12 DEF Fail
  <2>4. /\ connNum' \in Int /\ closed' \in [Nodes -> BOOLEAN]
        /\ armed' \in [Nodes -> SUBSET [by : Timers, cap : Nat]]
    <3>1. /\ connNum \in Int /\ closed \in [Nodes -> BOOLEAN]
          /\ armed \in [Nodes -> SUBSET [by : Timers, cap : Nat]]
      BY DEF Types
    <3>2. CASE UNCHANGED <<connNum, closed, armed>>
      BY <3>1, <3>2
    <3>3. CASE CloseConnInUse(node[r])
      <4>1. /\ closed' = [closed EXCEPT ![node[r]] = TRUE]
            /\ armed' \in [Nodes -> SUBSET [by : Timers, cap : Nat]]
            /\ connNum' = IF closed[node[r]] THEN connNum ELSE connNum - 1
        BY <2>2, <3>3, Closing DEF ListsInv
      <4>2. closed' \in [Nodes -> BOOLEAN]
        BY <3>1, <4>1
      <4>3. connNum' \in Int
        BY <3>1, <4>1
      <4> QED
        BY <4>1, <4>2, <4>3
    <3> QED
      BY <2>3, <3>2, <3>3
  <2>5. /\ pc' \in [Reqs -> States] /\ lifeState' \in [Nodes -> Nat]
        /\ resp' \in [Reqs -> {"none", "empty", "body", "read", "rest", "switch"}]
    BY <1>12 DEF Fail, Types, Goto, States, Holding
  <2> QED
    BY <1>12, <2>4, <2>5 DEF Fail, Types
<1>13. ASSUME NEW r \in Reqs, ReadBody(r) PROVE Types'
  <2>1. armed' \in [Nodes -> SUBSET [by : Timers, cap : Nat]] /\ won' = won
    BY <1>13, Cancelling DEF ReadBody
  <2> QED
    BY <1>13, <2>1 DEF ReadBody, Types, Goto, engineVars, nodeVars, timerVars, States, Holding
<1>14. ASSUME NEW r \in Reqs, CloseBody(r) PROVE Types'
  <2>1. pc[r] \in Holding
    BY <1>14 DEF CloseBody, Goto, Holding
  <2>2. node[r] \in Nodes /\ (closed[node[r]] \/ node[r] \in Used)
    BY <2>1, Holds
  <2>3. \/ UNCHANGED <<connNum, closed, armed>>
        \/ CloseConnInUse(node[r])
    BY <1>14 DEF CloseBody
  <2>4. /\ connNum' \in Int /\ closed' \in [Nodes -> BOOLEAN]
        /\ armed' \in [Nodes -> SUBSET [by : Timers, cap : Nat]]
    <3>1. /\ connNum \in Int /\ closed \in [Nodes -> BOOLEAN]
          /\ armed \in [Nodes -> SUBSET [by : Timers, cap : Nat]]
      BY DEF Types
    <3>2. CASE UNCHANGED <<connNum, closed, armed>>
      BY <3>1, <3>2
    <3>3. CASE CloseConnInUse(node[r])
      <4>1. /\ closed' = [closed EXCEPT ![node[r]] = TRUE]
            /\ armed' \in [Nodes -> SUBSET [by : Timers, cap : Nat]]
            /\ connNum' = IF closed[node[r]] THEN connNum ELSE connNum - 1
        BY <2>2, <3>3, Closing DEF ListsInv
      <4>2. closed' \in [Nodes -> BOOLEAN]
        BY <3>1, <4>1
      <4>3. connNum' \in Int
        BY <3>1, <4>1
      <4> QED
        BY <4>1, <4>2, <4>3
    <3> QED
      BY <2>3, <3>2, <3>3
  <2>5. /\ pc' \in [Reqs -> States] /\ lifeState' \in [Nodes -> Nat]
        /\ resp' \in [Reqs -> {"none", "empty", "body", "read", "rest", "switch"}]
    BY <1>14 DEF CloseBody, Types, Goto, States, Holding
  <2> QED
    BY <1>14, <2>4, <2>5 DEF CloseBody, Types
<1>15. ASSUME NEW r \in Reqs, Upgrade(r) PROVE Types'
  BY <1>15 DEF Upgrade, Types, Goto, engineVars, nodeVars, timerVars, States, Holding
<1>16. ASSUME NEW r \in Reqs, ReturnConn(r) PROVE Types'
  <2>1. pc[r] \in Holding
    BY <1>16 DEF ReturnConn, Goto, Holding
  <2>2. node[r] \in Nodes /\ (closed[node[r]] \/ node[r] \in Used)
    BY <2>1, Holds
  <2>3. \/ UNCHANGED <<connNum, closed, armed>>
        \/ CloseConnInUse(node[r])
    BY <1>16 DEF ReturnConn
  <2>4. /\ connNum' \in Int /\ closed' \in [Nodes -> BOOLEAN]
        /\ armed' \in [Nodes -> SUBSET [by : Timers, cap : Nat]]
    <3>1. /\ connNum \in Int /\ closed \in [Nodes -> BOOLEAN]
          /\ armed \in [Nodes -> SUBSET [by : Timers, cap : Nat]]
      BY DEF Types
    <3>2. CASE UNCHANGED <<connNum, closed, armed>>
      BY <3>1, <3>2
    <3>3. CASE CloseConnInUse(node[r])
      <4>1. /\ closed' = [closed EXCEPT ![node[r]] = TRUE]
            /\ armed' \in [Nodes -> SUBSET [by : Timers, cap : Nat]]
            /\ connNum' = IF closed[node[r]] THEN connNum ELSE connNum - 1
        BY <2>2, <3>3, Closing DEF ListsInv
      <4>2. closed' \in [Nodes -> BOOLEAN]
        BY <3>1, <4>1
      <4>3. connNum' \in Int
        BY <3>1, <4>1
      <4> QED
        BY <4>1, <4>2, <4>3
    <3> QED
      BY <2>3, <3>2, <3>3
  <2>5. /\ pc' \in [Reqs -> States] /\ lifeState' \in [Nodes -> Nat]
        /\ resp' \in [Reqs -> {"none", "empty", "body", "read", "rest", "switch"}]
    BY <1>16 DEF ReturnConn, Types, Goto, States, Holding
  <2> QED
    BY <1>16, <2>4, <2>5 DEF ReturnConn, Types
<1>17. ASSUME NEW r \in Reqs, PutConn(r) PROVE Types'
  BY <1>17 DEF PutConn, Types, Goto, engineVars, nodeVars, timerVars, States, Holding
<1>19. ASSUME NEW n \in Nodes, ServerCloses(n) PROVE Types'
  BY <1>19 DEF ServerCloses, Types, engineVars, reqVars, timerVars
<1>20. ASSUME NEW n \in Nodes, NEW a \in armed[n], TimerWins(n, a) PROVE Types'
  <2>1. a \in [by : Timers, cap : Nat]
    BY DEF Types
  <2>2. won' \subseteq [node : Nodes, cap : Nat]
    BY <1>20, <2>1 DEF TimerWins, Types
  <2>3. armed' \in [Nodes -> SUBSET [by : Timers, cap : Nat]]
    BY <1>20 DEF TimerWins, Types
  <2>4. lifeState' \in [Nodes -> Nat]
    BY <1>20 DEF TimerWins, Types
  <2> QED
    BY <1>20, <2>2, <2>3, <2>4 DEF TimerWins, Types, engineVars, reqVars
<1>21. ASSUME NEW w \in won, TimerCloses(w) PROVE Types'
  <2>1. w.node \in Nodes /\ (closed[w.node] \/ w.node \in Used)
    BY DEF Types, Timely, OnTime, Late
  <2>2. /\ closed' = [closed EXCEPT ![w.node] = TRUE]
        /\ armed' \in [Nodes -> SUBSET [by : Timers, cap : Nat]]
        /\ connNum' = IF closed[w.node] THEN connNum ELSE connNum - 1
    BY <1>21, <2>1, Closing DEF TimerCloses, ListsInv
  <2> QED
    BY <1>21, <2>2 DEF TimerCloses, Types, reqVars
<1>22. ASSUME EngineClose PROVE Types'
  <2>1. connNum' \in Int
    <3>1. Pooled \cup Used \subseteq Nodes
      BY ListsOk DEF ListsInv
    <3>2. IsFiniteSet(Nodes)
      BY ClientAssumption, FS_Interval DEF Nodes
    <3>3. Cardinality(Pooled \cup Used) \in Nat
      BY <3>1, <3>2, FS_Subset, FS_CardinalityType
    <3> QED
      BY <1>22, <3>3 DEF EngineClose, Types, Pooled, Used
  <2>2. closed' \in [Nodes -> BOOLEAN] /\ armed' \in [Nodes -> SUBSET [by : Timers, cap : Nat]]
    BY <1>22 DEF EngineClose, Types
  <2> QED
    BY <1>22, <2>1, <2>2 DEF EngineClose, Types, reqVars
<1>23. ASSUME UNCHANGED vars PROVE Types'
  BY <1>23 DEF vars, engineVars, nodeVars, timerVars, reqVars, Types
<1> QED
  BY <1>1, <1>2, <1>3, <1>4, <1>5, <1>6, <1>7, <1>8, <1>9, <1>10, <1>11, <1>12, <1>13, <1>14, <1>15, <1>16, <1>17,
     <1>19, <1>20, <1>21, <1>22, <1>23 DEF Next, Step

-----------------------------------------------------------------------------
(* Where timers fire. *)

\* A closed connection is never opened again.
LEMMA ClosedStays ==
  ASSUME Types, [Next]_vars, NEW n \in Nodes, closed[n]
  PROVE  closed'[n]
<1>1. closed \in [Nodes -> BOOLEAN]
  BY DEF Types
<1>2. ASSUME NEW m, closed' = closed \/ closed' = [closed EXCEPT ![m] = TRUE] PROVE closed'[n]
  BY <1>1, <1>2
<1>3. ASSUME NEW m, CloseConnInUse(m) PROVE closed'[n]
  BY <1>2, <1>3 DEF CloseConnInUse
<1>4. ASSUME NEW r \in Reqs, GetConn(r) \/ CountConn(r) \/ UndoCount(r) \/ Connect(r) \/ Send(r)
                              \/ BodySent(r) \/ ArmRead(r) \/ Receive(r) \/ Respond(r) \/ ReadBody(r)
                              \/ Upgrade(r) \/ PutConn(r)
      PROVE  closed'[n]
  <2>1. closed' = closed
    BY <1>4 DEF GetConn, CountConn, UndoCount, Connect, Send, BodySent, ArmRead, Receive, Respond,
                ReadBody, Upgrade, PutConn, nodeVars
  <2> QED
    BY <2>1
<1>5. ASSUME NEW r \in Reqs, Enlist(r) PROVE closed'[n]
  BY <1>2, <1>5 DEF Enlist
<1>6. ASSUME NEW r \in Reqs, CloseLast(r) \/ Fail(r) \/ CloseBody(r) \/ ReturnConn(r) PROVE closed'[n]
  <2>1. closed' = closed \/ CloseConnInUse(node[r])
    BY <1>6 DEF CloseLast, Fail, CloseBody, ReturnConn
  <2> QED
    BY <1>2, <1>3, <2>1
<1>7. ASSUME NEW w \in won, TimerCloses(w) PROVE closed'[n]
  BY <1>3, <1>7 DEF TimerCloses
<1>8. ASSUME EngineClose PROVE closed'[n]
  BY <1>8 DEF EngineClose
<1>9. ASSUME \/ UNCHANGED vars
             \/ \E m \in Nodes : ServerCloses(m) \/ \E a \in armed[m] : TimerWins(m, a)
      PROVE  closed'[n]
  BY <1>2, <1>9 DEF vars, nodeVars, ServerCloses, TimerWins
<1> QED
  BY <1>4, <1>5, <1>6, <1>7, <1>8, <1>9 DEF Next, Step

\* A request moves on with its connection, or that is closed.
LEMMA TakenMoves ==
  ASSUME Types, ListsInv, Taken, NEW r \in Reqs, NEW x, UNCHANGED <<lists, node>>,
         pc' = [pc EXCEPT ![r] = x], pc[r] \in Holding => x \in Holding \/ closed[node[r]]
  PROVE  Taken'
<1>1. Used' = Used
  BY DEF Used
<1>2. \A s \in Reqs : pc'[s] = IF s = r THEN x ELSE pc[s]
  BY DEF Types
<1>3. \A n \in Used : ~ closed[n]
  BY DEF ListsInv, Kept
<1> QED
  BY <1>1, <1>2, <1>3 DEF Taken

\* A request moves on and its connection leaves the list.
LEMMA TakenLess ==
  ASSUME Types, Taken, NEW r \in Reqs, NEW x, UNCHANGED node, Used' = Used \ {node[r]},
         pc' = [pc EXCEPT ![r] = x]
  PROVE  Taken'
<1>1. \A s \in Reqs : pc'[s] = IF s = r THEN x ELSE pc[s]
  BY DEF Types
<1> QED
  BY <1>1 DEF Taken

\* Where timers fire, every connection in use keeps a request that holds it.
LEMMA TakenStep ==
  ASSUME Types, ListsInv, Plain, Timely, "timeout" \in troubles, [Next]_vars
  PROVE  Taken'
<1>0. Taken /\ \A r \in Reqs : Singly(r) /\ (pc[r] \in Holding => ~ upgraded[node[r]])
  <2>1. \A r \in Reqs : pc[r] \in Holding => node[r] \in Nodes
    BY Holds
  <2>2. Taken /\ (\A r \in Reqs : Singly(r)) /\ \A n \in Nodes : ~ upgraded[n]
    BY DEF Plain
  <2> QED
    BY <2>1, <2>2
<1>1. ASSUME NEW r \in Reqs, GetConn(r) PROVE Taken'
  <2>1. CASE ~ isClosed /\ lists.head["pool"] # 0
    <3>1. pc[r] = "get" /\ pc' = [pc EXCEPT ![r] = "send"] /\ node' = [node EXCEPT ![r] = lists.head["pool"]]
      BY <1>1, <2>1 DEF GetConn, Goto
    <3>2. Used' = Used \cup {lists.head["pool"]}
      BY <1>1, <2>1, <3>1, TakesPooled
    <3>3. \A s \in Reqs : pc[s] \in Holding => s # r
      BY <3>1 DEF Holding
    <3>4. /\ pc'[r] \in Holding /\ node'[r] = lists.head["pool"]
          /\ \A s \in Reqs : s # r => pc'[s] = pc[s] /\ node'[s] = node[s]
      BY <3>1 DEF Types, Holding
    <3> QED
      BY <1>0, <3>2, <3>3, <3>4 DEF Taken
  <2>2. CASE isClosed \/ lists.head["pool"] = 0
    <3>1. PICK x \in {"over", "new"} : pc[r] = "get" /\ pc' = [pc EXCEPT ![r] = x]
      BY <1>1, <2>2 DEF GetConn, Goto
    <3> QED
      BY <1>0, <1>1, <2>2, <3>1, TakenMoves DEF GetConn, Holding
  <2> QED
    BY <2>1, <2>2
<1>2. ASSUME NEW r \in Reqs, CountConn(r) PROVE Taken'
  <2>1. PICK x \in {"over", "undo", "connect"} : pc[r] = "new" /\ pc' = [pc EXCEPT ![r] = x]
    BY <1>2 DEF CountConn, Goto
  <2> QED
    BY <1>0, <1>2, <2>1, TakenMoves DEF CountConn, engineVars, nodeVars, Holding
<1>3. ASSUME NEW r \in Reqs, UndoCount(r) PROVE Taken'
  <2>1. PICK x \in {"over"} : pc[r] = "undo" /\ pc' = [pc EXCEPT ![r] = x]
    BY <1>3 DEF UndoCount, Goto
  <2> QED
    BY <1>0, <1>3, <2>1, TakenMoves DEF UndoCount, engineVars, nodeVars, Holding
<1>4. ASSUME NEW r \in Reqs, Connect(r) PROVE Taken'
  <2>1. Used' = Used /\ pc[r] = "connect"
    BY <1>4 DEF Connect, Goto, Used
  <2>2. \A s \in Reqs : s # r => pc'[s] = pc[s] /\ node'[s] = node[s]
    BY <1>4 DEF Connect, Goto, Types
  <2>3. pc[r] \notin Holding
    BY <2>1 DEF Holding
  <2> QED
    BY <1>0, <2>1, <2>2, <2>3 DEF Taken
<1>5. ASSUME NEW r \in Reqs, Enlist(r) PROVE Taken'
  <2>1. CASE isClosed
    BY <1>0, <1>5, <2>1, TakenMoves DEF Enlist, Goto, Holding
  <2>2. CASE ~ isClosed
    <3>1. Used' = Used \cup {node[r]} /\ pc[r] = "enlist" /\ pc' = [pc EXCEPT ![r] = "send"] /\ node' = node
      BY <1>5, <2>2, Enlists DEF Enlist, Goto
    <3>2. \A s \in Reqs : (s # r => pc'[s] = pc[s]) /\ pc'[r] \in Holding /\ (pc[s] \in Holding => s # r)
      BY <3>1 DEF Types, Holding
    <3> QED
      BY <1>0, <3>1, <3>2 DEF Taken
  <2> QED
    BY <2>1, <2>2
<1>6. ASSUME NEW r \in Reqs, Send(r) PROVE Taken'
  <2>1. PICK x \in {"arm", "failed"} : pc[r] = "send" /\ pc' = [pc EXCEPT ![r] = x]
    BY <1>6 DEF Send, Goto
  <2> QED
    BY <1>0, <1>6, <2>1, TakenMoves DEF Send, engineVars, nodeVars, Holding
<1>7. ASSUME NEW r \in Reqs, BodySent(r) PROVE Taken'
  <2>1. Used' = Used /\ UNCHANGED <<pc, node>>
    BY <1>7 DEF BodySent, engineVars, Used
  <2> QED
    BY <1>0, <2>1 DEF Taken
<1>8. ASSUME NEW r \in Reqs, ArmRead(r) PROVE Taken'
  <2>1. PICK x \in {"recv"} : pc[r] = "arm" /\ pc' = [pc EXCEPT ![r] = x]
    BY <1>8 DEF ArmRead, Goto
  <2> QED
    BY <1>0, <1>8, <2>1, TakenMoves DEF ArmRead, engineVars, nodeVars, Holding
<1>9. ASSUME NEW r \in Reqs, Receive(r) PROVE Taken'
  <2>1. PICK x \in {"close", "failed"} : pc[r] = "recv" /\ pc' = [pc EXCEPT ![r] = x]
    BY <1>9 DEF Receive, Goto
  <2> QED
    BY <1>0, <1>9, <2>1, TakenMoves DEF Receive, engineVars, nodeVars, Holding
<1>10. ASSUME NEW r \in Reqs, CloseLast(r) PROVE Taken'
  <2>1. PICK x \in {"wait", "failed"} : pc[r] = "close" /\ pc' = [pc EXCEPT ![r] = x] /\ UNCHANGED node
    BY <1>10 DEF CloseLast, Goto
  <2>2. node[r] \in Nodes /\ (closed[node[r]] \/ node[r] \in Used)
    BY <2>1, Holds DEF Holding
  <2>3. ASSUME CloseConnInUse(node[r]) PROVE Taken'
    <3>1. Used' = Used \ {node[r]}
      BY <2>2, <2>3, Closing DEF ListsInv
    <3> QED
      BY <1>0, <2>1, <3>1, TakenLess
  <2>4. CASE UNCHANGED lists
    BY <1>0, <1>10, <2>1, <2>4, TakenMoves DEF CloseLast, Holding
  <2> QED
    BY <1>10, <2>3, <2>4 DEF CloseLast
<1>11. ASSUME NEW r \in Reqs, Respond(r) PROVE Taken'
  <2>1. PICK x \in {"body", "return", "user", "done"} : pc[r] = "wait" /\ pc' = [pc EXCEPT ![r] = x]
    BY <1>11 DEF Respond, Goto
  <2>2. pc[r] \in Holding /\ Singly(r) /\ ~ upgraded[node[r]]
    BY <1>0, <2>1 DEF Holding
  <2>3. pc'[r] = x
    BY <2>1 DEF Types
  <2>4. x = "done" => closed[node[r]]
    BY <1>11, <2>1, <2>2, <2>3 DEF Respond, Goto, Singly, Types
  <2> QED
    BY <1>0, <1>11, <2>1, <2>4, TakenMoves DEF Respond, engineVars, Holding
<1>12. ASSUME NEW r \in Reqs, Fail(r) PROVE Taken'
  <2>1. PICK x \in {"over", "new"} : pc[r] = "failed" /\ pc' = [pc EXCEPT ![r] = x] /\ UNCHANGED node
    BY <1>12 DEF Fail, Goto
  <2>2. node[r] \in Nodes /\ (closed[node[r]] \/ node[r] \in Used)
    BY <2>1, Holds DEF Holding
  <2>3. ASSUME CloseConnInUse(node[r]) PROVE Taken'
    <3>1. Used' = Used \ {node[r]}
      BY <2>2, <2>3, Closing DEF ListsInv
    <3> QED
      BY <1>0, <2>1, <3>1, TakenLess
  <2> QED
    BY <1>12, <2>3 DEF Fail
<1>13. ASSUME NEW r \in Reqs, ReadBody(r) PROVE Taken'
  <2>1. PICK x \in {"return"} : pc[r] = "body" /\ pc' = [pc EXCEPT ![r] = x]
    BY <1>13 DEF ReadBody, Goto
  <2> QED
    BY <1>0, <1>13, <2>1, TakenMoves DEF ReadBody, engineVars, nodeVars, Holding
<1>14. ASSUME NEW r \in Reqs, CloseBody(r) PROVE Taken'
  <2>1. PICK x \in {"over"} : pc[r] = "body" /\ pc' = [pc EXCEPT ![r] = x] /\ UNCHANGED node
    BY <1>14 DEF CloseBody, Goto
  <2>2. node[r] \in Nodes /\ (closed[node[r]] \/ node[r] \in Used)
    BY <2>1, Holds DEF Holding
  <2>3. ASSUME CloseConnInUse(node[r]) PROVE Taken'
    <3>1. Used' = Used \ {node[r]}
      BY <2>2, <2>3, Closing DEF ListsInv
    <3> QED
      BY <1>0, <2>1, <3>1, TakenLess
  <2> QED
    BY <1>14, <2>3 DEF CloseBody
<1>15. ASSUME NEW r \in Reqs, Upgrade(r) PROVE Taken'
  BY <1>0, <1>15 DEF Upgrade, Goto, Singly
<1>16. ASSUME NEW r \in Reqs, ReturnConn(r) PROVE Taken'
  <2>1. PICK x \in {"put", "done"} : pc[r] = "return" /\ pc' = [pc EXCEPT ![r] = x] /\ UNCHANGED node
    BY <1>16 DEF ReturnConn, Goto
  <2>2. node[r] \in Nodes /\ (closed[node[r]] \/ node[r] \in Used)
    BY <2>1, Holds DEF Holding
  <2>3. CASE CloseConnInUse(node[r])
    <3>1. Used' = Used \ {node[r]}
      BY <2>2, <2>3, Closing DEF ListsInv
    <3> QED
      BY <1>0, <2>1, <3>1, TakenLess
  <2>4. CASE UNCHANGED lists /\ (x = "done" => closed[node[r]])
    BY <1>0, <1>16, <2>1, <2>4, TakenMoves DEF Holding
  <2>5. pc'[r] = x
    BY <2>1 DEF Types
  <2> QED
    BY <1>16, <2>1, <2>3, <2>4, <2>5 DEF ReturnConn, Goto, Types
<1>17. ASSUME NEW r \in Reqs, PutConn(r) PROVE Taken'
  <2>1. /\ pc[r] = "put" /\ pc' = [pc EXCEPT ![r] = "done"]
        /\ lists' = Prepend(Remove(lists, "use", node[r]), "pool", node[r])
        /\ UNCHANGED <<closed, isClosed, made, node>>
    BY <1>17 DEF PutConn, Goto, nodeVars
  <2>2. Used' = Used \ {node[r]}
    BY <2>1, Puts
  <2> QED
    BY <1>0, <2>1, <2>2, TakenLess
<1>18. ASSUME UNCHANGED <<lists, pc, node>> PROVE Taken'
  <2>1. Used' = Used
    BY <1>18 DEF Used
  <2> QED
    BY <1>0, <1>18, <2>1 DEF Taken
<1>19. ASSUME NEW n \in Nodes, ServerCloses(n) PROVE Taken'
  BY <1>18, <1>19 DEF ServerCloses, engineVars, reqVars
<1>20. ASSUME NEW n \in Nodes, NEW a \in armed[n], TimerWins(n, a) PROVE Taken'
  BY <1>18, <1>20 DEF TimerWins, engineVars, reqVars
<1>21. ASSUME NEW w \in won, TimerCloses(w) PROVE Taken'
  <2>1. w.node \in Nodes /\ (closed[w.node] \/ w.node \in Used)
    BY DEF Types, Timely, OnTime, Late
  <2>2. Used' = Used \ {w.node}
    BY <1>21, <2>1, Closing DEF TimerCloses, ListsInv
  <2> QED
    BY <1>0, <1>21, <2>2 DEF TimerCloses, reqVars, Taken
<1>22. ASSUME EngineClose PROVE Taken'
  BY <1>22, Shuts DEF Taken
<1>23. ASSUME UNCHANGED vars PROVE Taken'
  BY <1>18, <1>23 DEF vars, engineVars, reqVars
<1> QED
  BY <1>1, <1>2, <1>3, <1>4, <1>5, <1>6, <1>7, <1>8, <1>9, <1>10, <1>11, <1>12, <1>13, <1>14, <1>15, <1>16, <1>17,
     <1>19, <1>20, <1>21, <1>22, <1>23 DEF Next, Step

\* Where timers fire, every step leaves requests and connections plain.
LEMMA PlainStep ==
  ASSUME Types, ListsInv, Plain, Timely, [Next]_vars
  PROVE  Plain'
<1>0. troubles' = troubles
  BY DEF Next, Step, vars, GetConn, CountConn, UndoCount, Connect, Enlist, Send, BodySent, ArmRead,
     Receive, CloseLast, Respond, Fail, ReadBody, CloseBody, Upgrade, ReturnConn, PutConn, ServerCloses,
     TimerWins, TimerCloses, EngineClose
<1> SUFFICES ASSUME "timeout" \in troubles
             PROVE  /\ \A s \in Reqs : Singly(s)'
                    /\ \A n \in Nodes : ~ upgraded'[n]
                    /\ Taken'
  BY <1>0 DEF Plain
<1>a. /\ \A s \in Reqs : Singly(s)
      /\ \A n \in Nodes : ~ upgraded[n]
  BY DEF Plain
<1>b. \A s \in Reqs : pc[s] = "wait" => node[s] \in Nodes
  BY Holds DEF Holding
<1>c. \A s \in Reqs : pc[s] = "wait" /\ closed[node[s]] => closed'[node[s]]
  BY <1>b, ClosedStays
<1> DEFINE Goal == (\A s \in Reqs : Singly(s)') /\ \A n \in Nodes : ~ upgraded'[n]
<1>d. ASSUME NEW r \in Reqs, NEW x, pc' = [pc EXCEPT ![r] = x],
             x \notin {"user", "extract", "own", "close", "wait"},
             UNCHANGED <<kind, resp, upgraded>>, \A s \in Reqs : s # r => node'[s] = node[s]
      PROVE  Goal
  <2>1. \A s \in Reqs : pc'[s] = IF s = r THEN x ELSE pc[s]
    BY <1>d DEF Types
  <2> QED
    BY <1>a, <1>c, <1>d, <2>1 DEF Singly
<1>e. ASSUME UNCHANGED <<kind, resp, upgraded, pc, node>> PROVE Goal
  BY <1>a, <1>c, <1>e DEF Singly
<1>1. ASSUME NEW r \in Reqs, GetConn(r) PROVE Goal
  <2>1. PICK x \in {"over", "new", "send"} : pc' = [pc EXCEPT ![r] = x]
    BY <1>1 DEF GetConn, Goto
  <2>2. UNCHANGED <<kind, resp, upgraded>> /\ \A s \in Reqs : s # r => node'[s] = node[s]
    BY <1>1 DEF GetConn, Types, nodeVars
  <2> QED
    BY <1>d, <2>1, <2>2
<1>2. ASSUME NEW r \in Reqs, CountConn(r) PROVE Goal
  <2>1. PICK x \in {"over", "undo", "connect"} : pc' = [pc EXCEPT ![r] = x]
    BY <1>2 DEF CountConn, Goto
  <2>2. UNCHANGED <<kind, resp, upgraded>> /\ \A s \in Reqs : s # r => node'[s] = node[s]
    BY <1>2 DEF CountConn, Types, nodeVars
  <2> QED
    BY <1>d, <2>1, <2>2
<1>3. ASSUME NEW r \in Reqs, UndoCount(r) PROVE Goal
  <2>1. PICK x \in {"over"} : pc' = [pc EXCEPT ![r] = x]
    BY <1>3 DEF UndoCount, Goto
  <2>2. UNCHANGED <<kind, resp, upgraded>> /\ \A s \in Reqs : s # r => node'[s] = node[s]
    BY <1>3 DEF UndoCount, Types, nodeVars
  <2> QED
    BY <1>d, <2>1, <2>2
<1>4. ASSUME NEW r \in Reqs, Connect(r) PROVE Goal
  <2>1. PICK x \in {"undo", "enlist"} : pc' = [pc EXCEPT ![r] = x]
    BY <1>4 DEF Connect, Goto
  <2>2. UNCHANGED <<kind, resp, upgraded>> /\ \A s \in Reqs : s # r => node'[s] = node[s]
    BY <1>4 DEF Connect, Types, nodeVars
  <2> QED
    BY <1>d, <2>1, <2>2
<1>5. ASSUME NEW r \in Reqs, Enlist(r) PROVE Goal
  <2>1. PICK x \in {"over", "send"} : pc' = [pc EXCEPT ![r] = x]
    BY <1>5 DEF Enlist, Goto
  <2>2. UNCHANGED <<kind, resp, upgraded>> /\ \A s \in Reqs : s # r => node'[s] = node[s]
    BY <1>5 DEF Enlist, Types, nodeVars
  <2> QED
    BY <1>d, <2>1, <2>2
<1>6. ASSUME NEW r \in Reqs, Send(r) PROVE Goal
  <2>1. PICK x \in {"arm", "failed"} : pc' = [pc EXCEPT ![r] = x]
    BY <1>6 DEF Send, Goto
  <2>2. kind[r] # "upgrade"
    BY <1>a DEF Singly
  <2>3. upgraded' = [upgraded EXCEPT ![node[r]] = @ \/ kind[r] = "upgrade"]
    BY <1>6 DEF Send
  <2>4. \A n \in Nodes : ~ upgraded'[n]
    BY <1>a, <2>2, <2>3 DEF Types
  <2>5. \A s \in Reqs : pc'[s] = IF s = r THEN x ELSE pc[s]
    BY <2>1 DEF Types
  <2>6. UNCHANGED <<kind, resp, node>>
    BY <1>6 DEF Send
  <2>7. \A s \in Reqs : Singly(s)'
    BY <1>a, <1>c, <2>5, <2>6 DEF Singly
  <2> QED
    BY <2>4, <2>7
<1>7. ASSUME NEW r \in Reqs, BodySent(r) PROVE Goal
  BY <1>7, <1>e DEF BodySent, nodeVars
<1>8. ASSUME NEW r \in Reqs, ArmRead(r) PROVE Goal
  <2>1. PICK x \in {"recv"} : pc' = [pc EXCEPT ![r] = x]
    BY <1>8 DEF ArmRead, Goto
  <2>2. UNCHANGED <<kind, resp, upgraded>> /\ \A s \in Reqs : s # r => node'[s] = node[s]
    BY <1>8 DEF ArmRead, Types, nodeVars
  <2> QED
    BY <1>d, <2>1, <2>2
<1>9. ASSUME NEW r \in Reqs, Receive(r) PROVE Goal
  <2>1. PICK x \in {"close", "failed"} : pc' = [pc EXCEPT ![r] = x]
    BY <1>9 DEF Receive, Goto
  <2>2. UNCHANGED <<kind, upgraded, node>>
    BY <1>9 DEF Receive
  <2>3. resp' = resp \/ \E v \in {"empty", "body", "rest"} : resp' = [resp EXCEPT ![r] = v]
    BY <1>9, <1>a DEF Receive, Answers, Singly
  <2>4. \A s \in Reqs : pc'[s] = IF s = r THEN x ELSE pc[s]
    BY <2>1 DEF Types
  <2>5. \A s \in Reqs : s # r => resp'[s] = resp[s]
    BY <2>3 DEF Types
  <2>6. resp'[r] # "switch" /\ (x = "close" => resp'[r] # "read")
    <3>1. x = "failed" \/ \E v \in {"empty", "body", "rest"} : resp' = [resp EXCEPT ![r] = v]
      <4>1. pc'[r] = x
        BY <2>4
      <4> QED
        BY <1>9, <1>a, <4>1 DEF Receive, Goto, Answers, Singly, Types
    <3>2. (\E v \in {"empty", "body", "rest"} : resp' = [resp EXCEPT ![r] = v])
          => resp'[r] \in {"empty", "body", "rest"}
      BY DEF Types
    <3> QED
      BY <1>a, <2>3, <3>1, <3>2 DEF Singly
  <2> QED
    BY <1>a, <1>c, <2>2, <2>4, <2>5, <2>6 DEF Singly
<1>10. ASSUME NEW r \in Reqs, CloseLast(r) PROVE Goal
  <2>1. UNCHANGED <<kind, upgraded, node>> /\ pc[r] = "close"
    BY <1>10 DEF CloseLast, Goto
  <2>2. node[r] \in Nodes /\ (closed[node[r]] \/ node[r] \in Used)
    BY <2>1, Holds DEF Holding
  <2>3. CASE Goto(r, "close", "wait") /\ resp' = resp
    <3>1. \A s \in Reqs : pc'[s] = IF s = r THEN "wait" ELSE pc[s]
      BY <2>3 DEF Goto, Types
    <3> QED
      BY <1>a, <1>c, <2>1, <2>3, <3>1 DEF Singly
  <2>4. CASE /\ Goto(r, "close", "wait") /\ CloseConnInUse(node[r])
             /\ resp' = [resp EXCEPT ![r] = IF @ = "body" THEN "read" ELSE @]
    <3>1. \A s \in Reqs : pc'[s] = IF s = r THEN "wait" ELSE pc[s]
      BY <2>4 DEF Goto, Types
    <3>2. \A s \in Reqs : resp'[s] = IF s = r /\ resp[s] = "body" THEN "read" ELSE resp[s]
      BY <2>4 DEF Types
    <3>3. closed' = [closed EXCEPT ![node[r]] = TRUE]
      BY <2>2, <2>4, Closing DEF ListsInv
    <3>4. closed'[node[r]]
      BY <2>2, <3>3 DEF Types
    <3> QED
      BY <1>a, <1>c, <2>1, <3>1, <3>2, <3>4 DEF Singly
  <2>5. CASE Goto(r, "close", "failed") /\ resp' = resp
    BY <1>d, <2>1, <2>5 DEF Goto
  <2> QED
    BY <1>10, <2>3, <2>4, <2>5 DEF CloseLast
<1>11. ASSUME NEW r \in Reqs, Respond(r) PROVE Goal
  <2>1. PICK x \in {"body", "return", "user", "done"} : pc' = [pc EXCEPT ![r] = x]
    BY <1>11 DEF Respond, Goto
  <2>2. UNCHANGED <<kind, resp, upgraded, node>> /\ pc[r] = "wait" /\ pc'[r] = x
    BY <1>11, <2>1 DEF Respond, Goto, Types, nodeVars
  <2>3. node[r] \in Nodes
    BY <1>b, <2>2
  <2>4. x # "user"
    BY <1>11, <1>a, <2>1, <2>2, <2>3 DEF Respond, Goto, Types
  <2> QED
    BY <1>d, <2>1, <2>2, <2>4
<1>12. ASSUME NEW r \in Reqs, Fail(r) PROVE Goal
  <2>1. PICK x \in {"over", "new"} : pc' = [pc EXCEPT ![r] = x]
    BY <1>12 DEF Fail, Goto
  <2>2. UNCHANGED <<kind, resp, upgraded>> /\ \A s \in Reqs : s # r => node'[s] = node[s]
    BY <1>12 DEF Fail, Types, nodeVars
  <2> QED
    BY <1>d, <2>1, <2>2
<1>13. ASSUME NEW r \in Reqs, ReadBody(r) PROVE Goal
  <2>1. PICK x \in {"return"} : pc' = [pc EXCEPT ![r] = x]
    BY <1>13 DEF ReadBody, Goto
  <2>2. UNCHANGED <<kind, resp, upgraded>> /\ \A s \in Reqs : s # r => node'[s] = node[s]
    BY <1>13 DEF ReadBody, Types, nodeVars
  <2> QED
    BY <1>d, <2>1, <2>2
<1>14. ASSUME NEW r \in Reqs, CloseBody(r) PROVE Goal
  <2>1. PICK x \in {"over"} : pc' = [pc EXCEPT ![r] = x]
    BY <1>14 DEF CloseBody, Goto
  <2>2. UNCHANGED <<kind, resp, upgraded>> /\ \A s \in Reqs : s # r => node'[s] = node[s]
    BY <1>14 DEF CloseBody, Types, nodeVars
  <2> QED
    BY <1>d, <2>1, <2>2
<1>15. ASSUME NEW r \in Reqs, Upgrade(r) PROVE Goal
  BY <1>a, <1>15 DEF Upgrade, Goto, Singly
<1>16. ASSUME NEW r \in Reqs, ReturnConn(r) PROVE Goal
  <2>1. PICK x \in {"put", "done"} : pc' = [pc EXCEPT ![r] = x]
    BY <1>16 DEF ReturnConn, Goto
  <2>2. UNCHANGED <<kind, resp, upgraded>> /\ \A s \in Reqs : s # r => node'[s] = node[s]
    BY <1>16 DEF ReturnConn, Types, nodeVars
  <2> QED
    BY <1>d, <2>1, <2>2
<1>17. ASSUME NEW r \in Reqs, PutConn(r) PROVE Goal
  <2>1. PICK x \in {"done"} : pc' = [pc EXCEPT ![r] = x]
    BY <1>17 DEF PutConn, Goto
  <2>2. UNCHANGED <<kind, resp, upgraded>> /\ \A s \in Reqs : s # r => node'[s] = node[s]
    BY <1>17 DEF PutConn, Types, nodeVars
  <2> QED
    BY <1>d, <2>1, <2>2
<1>19. ASSUME NEW n \in Nodes, ServerCloses(n) PROVE Goal
  BY <1>e, <1>19 DEF ServerCloses, reqVars
<1>20. ASSUME NEW n \in Nodes, NEW a \in armed[n], TimerWins(n, a) PROVE Goal
  BY <1>e, <1>20 DEF TimerWins, reqVars
<1>21. ASSUME NEW w \in won, TimerCloses(w) PROVE Goal
  BY <1>e, <1>21 DEF TimerCloses, reqVars
<1>22. ASSUME EngineClose PROVE Goal
  BY <1>e, <1>22 DEF EngineClose, reqVars
<1>23. ASSUME UNCHANGED vars PROVE Goal
  BY <1>e, <1>23 DEF vars, nodeVars, reqVars
<1>24. Goal
  BY <1>1, <1>2, <1>3, <1>4, <1>5, <1>6, <1>7, <1>8, <1>9, <1>10, <1>11, <1>12, <1>13, <1>14, <1>15, <1>16, <1>17,
     <1>19, <1>20, <1>21, <1>22, <1>23 DEF Next, Step
<1> QED
  BY <1>24, TakenStep

-----------------------------------------------------------------------------
(* The timers. *)

\* lifeState counts the uses in fours and the timers that won in ones.
LEMMA Uses ==
  ASSUME NEW x \in Nat
  PROVE  /\ x % 4 \in 0 .. 3 /\ (x + 4) % 4 = x % 4
         /\ x % 4 # 3 => (x + 1) % 4 = (x % 4) + 1 /\ (x + 1) \div 4 = x \div 4
OBVIOUS

\* States of connections and captured states are numbers.
LEMMA ArmedTypes ==
  ASSUME Types
  PROVE  \A n \in Nodes : lifeState[n] \in Nat /\ \A a \in armed[n] : a.cap \in Nat
BY DEF Types

\* No use begins or ends.
LEMMA Calm ==
  ASSUME Types, ListsInv, OnTime, [Next]_vars,
         UNCHANGED lifeState, won' \subseteq won, \A n \in Nodes : armed'[n] \subseteq armed[n],
         \A n \in Nodes : Idle(n)' => Idle(n),
         \A r \in Reqs : pc'[r] = "arm" => pc[r] = "arm" /\ node'[r] = node[r],
         \A w \in won' : w.node \in Used => w.node \in Used' \/ closed'[w.node]
  PROVE  OnTime'
<1>1. \A n \in Nodes : ~ closed'[n] => ~ closed[n]
  BY ClosedStays
<1>2. \A n \in Nodes : ~ closed'[n] => Fit(n)' /\ (Idle(n)' => Quiet(n)')
  BY <1>1 DEF OnTime, Fit, Quiet
<1>3. \A r \in Reqs : pc'[r] = "arm" /\ ~ closed'[node'[r]] => Sent(node[r])' /\ node'[r] = node[r]
  <2>1. \A r \in Reqs : pc[r] = "arm" => node[r] \in Nodes
    BY Holds DEF Holding
  <2> QED
    BY <1>1, <2>1 DEF OnTime, Sent
<1>4. \A w \in won' : ~ closed'[w.node] => Late(w)'
  <2>1. \A w \in won : w.node \in Nodes
    BY DEF Types
  <2> QED
    BY <1>1, <2>1 DEF OnTime, Late
<1> QED
  BY <1>2, <1>3, <1>4 DEF OnTime, Sent

\* A request moves on within its use.
LEMMA CalmMoves ==
  ASSUME Types, ListsInv, OnTime, [Next]_vars, NEW r \in Reqs, NEW x,
         UNCHANGED <<made, node, lifeState, won>>, \A n \in Nodes : armed'[n] \subseteq armed[n],
         pc' = [pc EXCEPT ![r] = x], x \notin {"send", "put", "enlist", "arm"},
         Pooled' = Pooled, \A n \in Used : n \in Used' \/ closed'[n]
  PROVE  OnTime'
<1>1. \A s \in Reqs : pc'[s] = IF s = r THEN x ELSE pc[s]
  BY DEF Types
<1>2. \A n \in Nodes : Idle(n)' => Idle(n)
  BY <1>1 DEF Idle
<1>3. \A s \in Reqs : pc'[s] = "arm" => pc[s] = "arm" /\ node'[s] = node[s]
  BY <1>1
<1> QED
  BY <1>2, <1>3, Calm

\* A timer that is about to win is armed for the use that is going on.
LEMMA Matched ==
  ASSUME Types, ListsInv, Plain, OnTime, "timeout" \in troubles,
         NEW n \in Nodes, NEW a \in armed[n], Matches(n, a)
  PROVE  /\ lifeState[n] = a.cap /\ a.cap % 4 <= 1 /\ ~ Idle(n) /\ ~ closed[n] /\ n \in Used
<1>1. lifeState[n] = a.cap /\ ~ closed[n] /\ Fit(n) /\ (Idle(n) => Quiet(n))
  BY DEF Matches, OnTime
<1>2. a.cap \in Nat /\ ~ (a.cap < a.cap)
  BY ArmedTypes
<1>3. a.cap % 4 <= 1 /\ ~ Idle(n)
  BY <1>1, <1>2 DEF Fit, Quiet
<1>4. n \in 1 .. made /\ n \notin Pooled
  BY <1>3 DEF Idle, Types, Nodes
<1>5. \A s \in Reqs : pc[s] \in Apart => node[s] # n
  BY <1>3 DEF Idle, Apart, Plain, Singly
<1>6. n \in Used
  BY <1>1, <1>4, <1>5 DEF ListsInv, Kept
<1> QED
  BY <1>1, <1>3, <1>6

\* A timer wins: its task is about the use that is going on.
LEMMA TimerWinsOnTime ==
  ASSUME Types, ListsInv, Plain, OnTime, "timeout" \in troubles,
         NEW n \in Nodes, NEW a \in armed[n], TimerWins(n, a)
  PROVE  OnTime'
<1> DEFINE x == lifeState[n]
<1>1. /\ Matches(n, a) /\ lifeState' = [lifeState EXCEPT ![n] = @ + 1]
      /\ armed' = [armed EXCEPT ![n] = @ \ {a}]
      /\ won' = won \cup {[node |-> n, cap |-> a.cap]}
      /\ UNCHANGED <<lists, made, closed, pc, node>>
  BY DEF TimerWins, engineVars, reqVars
<1>2. x = a.cap /\ x % 4 <= 1 /\ ~ Idle(n) /\ ~ closed[n] /\ n \in Used
  BY <1>1, Matched
<1>3. x \in Nat /\ x % 4 \in 0 .. 3 /\ (x + 1) % 4 = (x % 4) + 1 /\ (x + 1) \div 4 = x \div 4
  <2>1. x \in Nat
    BY DEF Types
  <2>2. x % 4 # 3
    BY <1>2
  <2> HIDE DEF x
  <2> QED
    BY <2>1, <2>2, Uses
<1>4. /\ lifeState'[n] = x + 1
      /\ \A m \in Nodes : m # n => lifeState'[m] = lifeState[m]
      /\ \A m \in Nodes : armed'[m] \subseteq armed[m]
      /\ armed'[n] = armed[n] \ {a}
  BY <1>1 DEF Types
<1>5. \A m \in Nodes : Idle(m)' => Idle(m)
  BY <1>1 DEF Idle, Pooled
<1>6. \A b \in armed[n] : b.cap <= x /\ b.cap % 4 <= 1 /\ b.cap \in Nat
  BY <1>2, ArmedTypes DEF OnTime, Fit
<1> HIDE DEF x
<1>7. Fit(n)'
  BY <1>2, <1>3, <1>4, <1>6 DEF Fit
<1>8. \A m \in Nodes : ~ closed'[m] => Fit(m)' /\ (Idle(m)' => Quiet(m)')
  <2>1. \A m \in Nodes : m # n /\ ~ closed[m] => Fit(m)' /\ (Idle(m)' => Quiet(m)')
    BY <1>1, <1>4, <1>5 DEF OnTime, Fit, Quiet
  <2> QED
    BY <1>1, <1>2, <1>5, <1>7, <2>1
<1>9. ASSUME NEW s \in Reqs, pc[s] = "arm", ~ closed[node[s]] PROVE Sent(node[s])'
  <2>1. Sent(node[s]) /\ node[s] \in Nodes
    BY <1>9, Holds DEF OnTime, Holding
  <2>2. CASE node[s] # n
    <3>1. lifeState'[node[s]] = lifeState[node[s]] /\ armed'[node[s]] \subseteq armed[node[s]] /\ node'[s] = node[s]
      BY <1>1, <1>4, <2>1, <2>2
    <3> QED
      BY <2>1, <3>1 DEF Sent
  <2>3. CASE node[s] = n
    <3>1. x <= x - (x % 4) /\ \A b \in armed[n] : b.cap <= x - (x % 4)
      BY <1>2, <2>1, <2>3 DEF Sent, x
    <3>2. x % 4 = 0 /\ (x + 1) % 4 = 1
      BY <1>3, <3>1
    <3>3. \A b \in armed'[n] : b.cap <= (x + 1) - 1
      BY <1>3, <1>4, <1>6
    <3>4. node'[s] = n
      BY <1>1, <2>3
    <3> QED
      BY <1>4, <3>2, <3>3, <3>4 DEF Sent
  <2> QED
    BY <2>2, <2>3
<1>10. ASSUME NEW w \in won', ~ closed[w.node] PROVE Late(w)'
  <2>1. Used' = Used
    BY <1>1 DEF Used
  <2>2. CASE w = [node |-> n, cap |-> a.cap]
    <3>1. w.node = n /\ w.cap = x
      BY <1>2, <2>2
    <3>2. lifeState'[w.node] = x + 1 /\ w.node \in Used
      BY <1>2, <1>4, <3>1
    <3>3. (x + 1) % 4 # 0
      BY <1>3
    <3> QED
      BY <1>3, <2>1, <3>1, <3>2, <3>3 DEF Late
  <2>3. CASE w \in won
    <3>1. Late(w) /\ w.node \in Nodes
      BY <1>10, <2>3 DEF OnTime, Types
    <3>2. CASE w.node = n
      <4>1. x \div 4 = w.cap \div 4 /\ x % 4 # 0 /\ w.node \in Used
        BY <3>1, <3>2 DEF Late, x
      <4>2. (x + 1) % 4 # 0 /\ lifeState'[w.node] = x + 1
        BY <1>3, <1>4, <3>2
      <4> QED
        BY <1>3, <2>1, <4>1, <4>2 DEF Late
    <3>3. CASE w.node # n
      BY <1>4, <2>1, <3>1, <3>3 DEF Late
    <3> QED
      BY <3>2, <3>3
  <2> QED
    BY <1>1, <2>2, <2>3
<1> QED
  BY <1>1, <1>8, <1>9, <1>10 DEF OnTime

\* returnConn begins the next use.
LEMMA ReturnsOnTime ==
  ASSUME Types, ListsInv, Plain, OnTime, NEW r \in Reqs, [Next]_vars, pc[r] = "return",
         ~ closed[node[r]], Phase(lifeState[node[r]]) = 0,
         lifeState' = [lifeState EXCEPT ![node[r]] = @ + 4], UNCHANGED <<made, node, won>>,
         Pooled' = Pooled, \A n \in Used : n \in Used' \/ closed'[n],
         \A m \in Nodes : armed'[m] \subseteq armed[m],
         NEW q \in {"put", "done"}, pc' = [pc EXCEPT ![r] = q], q = "done" => closed'[node[r]]
  PROVE  OnTime'
<1>0. PICK n \in Nodes : n = node[r] /\ n \in Used /\ n \notin Pooled
  BY Holds DEF Holding
<1> DEFINE x == lifeState[n]
<1>1. n \in Nodes /\ n \in Used /\ n \notin Pooled /\ ~ closed[n]
  BY <1>0
<1>2. x \in Nat /\ x % 4 = 0 /\ (x + 4) % 4 = 0
  <2>1. x \in Nat /\ x % 4 = 0
    BY <1>0, <1>1 DEF Types, Phase
  <2> HIDE DEF x
  <2> QED
    BY <2>1, Uses
<1>3. lifeState'[n] = x + 4 /\ \A m \in Nodes : m # n => lifeState'[m] = lifeState[m]
  BY <1>0 DEF Types
<1>4. \A s \in Reqs : pc'[s] = IF s = r THEN q ELSE pc[s]
  BY DEF Types
<1>5. \A s \in Reqs : s # r /\ pc[s] \in Holding \cup Apart => node[s] # n
  BY <1>0 DEF ListsInv, Owned, Holding
<1>6. \A m \in Nodes : ~ closed'[m] => ~ closed[m]
  BY ClosedStays
<1>7. \A w \in won : w.node # n
  BY <1>0, <1>2 DEF OnTime, Late
<1>8. \A b \in armed[n] : b.cap <= x /\ b.cap % 4 <= 1 /\ b.cap \in Nat
  BY <1>0, <1>1, ArmedTypes DEF OnTime, Fit
<1>a. UNCHANGED <<made, node, won>> /\ Pooled' = Pooled /\ \A m \in Nodes : armed'[m] \subseteq armed[m]
  OBVIOUS
<1> HIDE DEF x
<1>9. Fit(n)' /\ Quiet(n)'
  <2>1. \A b \in armed'[n] : b.cap < x + 4 /\ b.cap <= x + 4 /\ b.cap % 4 <= 1
    BY <1>1, <1>2, <1>8, <1>a
  <2> QED
    BY <1>2, <1>3, <1>7, <1>a, <2>1 DEF Fit, Quiet
<1>10. \A m \in Nodes : m # n /\ Idle(m)' => Idle(m)
  BY <1>0, <1>4, <1>a DEF Idle
<1>11. \A m \in Nodes : ~ closed'[m] => Fit(m)' /\ (Idle(m)' => Quiet(m)')
  <2>1. \A m \in Nodes : m # n /\ ~ closed'[m] => Fit(m)' /\ (Idle(m)' => Quiet(m)')
    BY <1>3, <1>6, <1>10, <1>a DEF OnTime, Fit, Quiet
  <2> QED
    BY <1>9, <2>1
<1>12. ASSUME NEW s \in Reqs, pc'[s] = "arm", ~ closed'[node'[s]] PROVE Sent(node[s])' /\ node'[s] = node[s]
  <2>1. pc[s] = "arm" /\ s # r /\ pc[s] \in Holding
    BY <1>4, <1>12 DEF Holding
  <2>2. node[s] \in Nodes /\ node[s] # n /\ Sent(node[s]) /\ node'[s] = node[s]
    BY <1>5, <1>6, <1>12, <1>a, <2>1, Holds DEF OnTime
  <2>3. lifeState'[node[s]] = lifeState[node[s]] /\ armed'[node[s]] \subseteq armed[node[s]]
    BY <1>3, <1>a, <2>2
  <2> QED
    BY <2>2, <2>3 DEF Sent
<1>13. ASSUME NEW w \in won', ~ closed'[w.node] PROVE Late(w)'
  <2>1. w \in won /\ w.node \in Nodes /\ w.node # n
    BY <1>7, <1>13, <1>a DEF Types
  <2>2. Late(w) /\ lifeState'[w.node] = lifeState[w.node]
    BY <1>3, <1>6, <1>13, <2>1 DEF OnTime
  <2> QED
    BY <1>13, <2>2 DEF Late
<1> QED
  BY <1>11, <1>12, <1>13 DEF OnTime, Sent

\* The timers of a use are armed.
LEMMA ArmsOnTime ==
  ASSUME Types, ListsInv, OnTime, NEW r \in Reqs, [Next]_vars, NEW t \in Timers, Arm(node[r], t),
         UNCHANGED <<lists, made, closed, lifeState, node, won>>,
         NEW q \in {"arm", "recv", "failed"}, pc' = [pc EXCEPT ![r] = q],
         pc[r] = "send" \/ (pc[r] = "arm" /\ q = "recv")
  PROVE  OnTime'
<1>0. PICK n \in Nodes : n = node[r] /\ (closed[n] \/ n \in Used) /\ n \notin Pooled /\ pc[r] \in Holding
  BY Holds DEF Holding
<1> DEFINE x == lifeState[n]
<1>1. n \in Nodes /\ (closed[n] \/ n \in Used) /\ n \notin Pooled /\ pc[r] \in Holding
  BY <1>0
<1>2. x \in Nat /\ x % 4 \in 0 .. 3
  <2>1. x \in Nat
    BY <1>1 DEF Types
  <2> HIDE DEF x
  <2> QED
    BY <2>1, Uses
<1>3. /\ \A m \in Nodes : m # n => armed'[m] = armed[m]
      /\ \A a \in armed'[n] : a \in armed[n] \/ a.cap = x
  BY <1>0, Arming
<1>4. \A s \in Reqs : pc'[s] = IF s = r THEN q ELSE pc[s]
  BY DEF Types
<1>5. \A s \in Reqs : s # r /\ pc[s] \in Holding \cup Apart => node[s] # n
  BY <1>0 DEF ListsInv, Owned
<1>6. ~ (n > made)
  <2>1. n \in 1 .. made /\ made \in Int
    BY <1>0 DEF ListsInv, Owned, Types
  <2> QED
    BY <2>1
<1>7. \A m \in Nodes : Idle(m)' => Idle(m) /\ m # n
  <2>1. Pooled' = Pooled
    BY DEF Pooled
  <2>2. \A s \in Reqs : pc'[s] \in {"send", "put", "enlist"} => pc[s] = pc'[s] /\ s # r /\ pc[s] \in Holding \cup Apart
    BY <1>4 DEF Holding, Apart
  <2> QED
    BY <1>1, <1>5, <1>6, <2>1, <2>2 DEF Idle
<1>8. ~ closed[n] => /\ x % 4 <= 1 /\ Fit(n)
                     /\ \A b \in armed[n] : b.cap <= x /\ b.cap % 4 <= 1 /\ b.cap \in Nat
                     /\ pc[r] = "send" => x % 4 = 0
  <2>1. ~ closed[n] => Fit(n) /\ (Idle(n) => Quiet(n)) /\ (pc[r] = "arm" => Sent(n))
    BY <1>0, <1>1 DEF OnTime
  <2>2. pc[r] = "send" => Idle(n)
    BY <1>0 DEF Idle
  <2>3. \A b \in armed[n] : b.cap \in Nat
    BY <1>1, ArmedTypes
  <2> QED
    BY <2>1, <2>2, <2>3 DEF Fit, Quiet, Sent
<1>a. UNCHANGED <<closed, lifeState, node, won>> /\ (q = "arm" => pc[r] = "send")
  OBVIOUS
<1> HIDE DEF x
<1>9. ~ closed[n] => Fit(n)'
  <2>1. ~ closed[n] => \A b \in armed'[n] : b.cap <= x /\ b.cap % 4 <= 1
    BY <1>2, <1>3, <1>8
  <2> QED
    BY <1>8, <1>a, <2>1 DEF Fit, x
<1>10. \A m \in Nodes : ~ closed'[m] => Fit(m)' /\ (Idle(m)' => Quiet(m)')
  <2>1. \A m \in Nodes : m # n /\ ~ closed[m] => Fit(m)' /\ (Idle(m)' => Quiet(m)')
    BY <1>3, <1>7, <1>a DEF OnTime, Fit, Quiet
  <2> QED
    BY <1>7, <1>9, <1>a, <2>1
<1>11. ASSUME NEW s \in Reqs, pc'[s] = "arm", ~ closed[node[s]] PROVE Sent(node[s])'
  <2>1. CASE s = r
    <3>1. x % 4 = 0 /\ \A b \in armed'[n] : b.cap <= x
      BY <1>0, <1>2, <1>3, <1>4, <1>8, <1>11, <1>a, <2>1
    <3>2. x - (x % 4) = x
      BY <1>2, <3>1
    <3>3. lifeState'[node'[s]] = x /\ node'[s] = n
      BY <1>0, <1>a, <2>1 DEF x
    <3> QED
      BY <3>1, <3>2, <3>3 DEF Sent
  <2>2. CASE s # r
    <3>1. pc[s] = "arm" /\ pc[s] \in Holding
      BY <1>4, <1>11, <2>2 DEF Holding
    <3>2. node[s] \in Nodes /\ node[s] # n /\ Sent(node[s])
      BY <1>5, <1>11, <2>2, <3>1, Holds DEF OnTime
    <3>3. armed'[node[s]] = armed[node[s]]
      BY <1>3, <3>2
    <3> QED
      BY <1>a, <3>2, <3>3 DEF Sent
  <2> QED
    BY <2>1, <2>2
<1>12. ASSUME NEW w \in won, ~ closed[w.node] PROVE Late(w)'
  <2>1. Used' = Used
    BY DEF Used
  <2> QED
    BY <1>12, <1>a, <2>1 DEF OnTime, Late
<1> QED
  BY <1>10, <1>11, <1>12, <1>a DEF OnTime

\* Every step keeps the timers in time.
LEMMA OnTimeStep ==
  ASSUME Types, ListsInv, Plain, OnTime, "timeout" \in troubles, [Next]_vars
  PROVE  OnTime'
<1>a. ASSUME UNCHANGED lists PROVE Pooled' = Pooled /\ Used' = Used
  BY <1>a DEF Pooled, Used
<1>b. Links /\ Kept
  BY DEF ListsInv
<1>c. ASSUME NEW n \in Nodes, closed[n] \/ n \in Used, CloseConnInUse(n)
      PROVE  /\ Pooled' = Pooled /\ \A m \in Nodes : armed'[m] \subseteq armed[m]
             /\ \A m \in Used : m \in Used' \/ closed'[m]
  <2>1. /\ Pooled' = Pooled /\ \A m \in Nodes : armed'[m] \subseteq armed[m]
        /\ Used' = Used \ {n} /\ closed' = [closed EXCEPT ![n] = TRUE]
    BY <1>b, <1>c, Closing
  <2>2. closed'[n]
    BY <2>1 DEF Types
  <2> QED
    BY <2>1, <2>2
<1>e. ASSUME UNCHANGED <<lists, made, node, lifeState, pc>>, won' \subseteq won,
             \A n \in Nodes : armed'[n] \subseteq armed[n]
      PROVE  OnTime'
  <2>1. \A n \in Nodes : Idle(n)' => Idle(n)
    BY <1>a, <1>e DEF Idle
  <2> QED
    BY <1>a, <1>e, <2>1, Calm
<1>1. ASSUME NEW r \in Reqs, GetConn(r) PROVE OnTime'
  <2>1. CASE ~ isClosed /\ lists.head["pool"] # 0
    <3>1. pc[r] = "get" /\ pc' = [pc EXCEPT ![r] = "send"] /\ node' = [node EXCEPT ![r] = lists.head["pool"]]
      BY <1>1, <2>1 DEF GetConn, Goto
    <3>2. /\ lists.head["pool"] \in Pooled /\ Pooled' = Pooled \ {lists.head["pool"]}
          /\ Used' = Used \cup {lists.head["pool"]}
      BY <1>1, <2>1, <3>1, TakesPooled
    <3>3. /\ pc'[r] = "send" /\ node'[r] = lists.head["pool"]
          /\ \A s \in Reqs : s # r => pc'[s] = pc[s] /\ node'[s] = node[s]
      BY <3>1 DEF Types
    <3>4. UNCHANGED <<made, lifeState, armed, won>>
      BY <1>1 DEF GetConn, nodeVars, timerVars
    <3>5. \A n \in Nodes : Idle(n)' => Idle(n)
      BY <3>2, <3>3, <3>4 DEF Idle
    <3>6. \A s \in Reqs : pc'[s] = "arm" => pc[s] = "arm" /\ node'[s] = node[s]
      BY <3>3
    <3> QED
      BY <3>2, <3>4, <3>5, <3>6, Calm
  <2>2. CASE isClosed \/ lists.head["pool"] = 0
    <3>1. PICK x \in {"over", "new"} : pc' = [pc EXCEPT ![r] = x]
      BY <1>1, <2>2 DEF GetConn, Goto
    <3>2. UNCHANGED <<lists, made, node, lifeState, armed, won>>
      BY <1>1, <2>2 DEF GetConn, nodeVars, timerVars
    <3> QED
      BY <1>a, <3>1, <3>2, CalmMoves
  <2> QED
    BY <2>1, <2>2
<1>2. ASSUME NEW r \in Reqs, CountConn(r) PROVE OnTime'
  <2>1. PICK x \in {"over", "undo", "connect"} : pc' = [pc EXCEPT ![r] = x]
    BY <1>2 DEF CountConn, Goto
  <2>2. UNCHANGED <<lists, made, node, lifeState, won>>
    BY <1>2, Cancelling DEF CountConn, engineVars, nodeVars, timerVars
  <2>3. \A n \in Nodes : armed'[n] \subseteq armed[n]
    BY <1>2, Cancelling DEF CountConn, timerVars
  <2> QED
    BY <1>a, <2>1, <2>2, <2>3, CalmMoves
<1>3. ASSUME NEW r \in Reqs, UndoCount(r) PROVE OnTime'
  <2>1. PICK x \in {"over"} : pc' = [pc EXCEPT ![r] = x]
    BY <1>3 DEF UndoCount, Goto
  <2>2. UNCHANGED <<lists, made, node, lifeState, won>>
    BY <1>3, Cancelling DEF UndoCount, engineVars, nodeVars, timerVars
  <2>3. \A n \in Nodes : armed'[n] \subseteq armed[n]
    BY <1>3, Cancelling DEF UndoCount, timerVars
  <2> QED
    BY <1>a, <2>1, <2>2, <2>3, CalmMoves
<1>4. ASSUME NEW r \in Reqs, Connect(r) PROVE OnTime'
  <2>1. CASE Goto(r, "connect", "undo") /\ UNCHANGED <<made, node>>
    <3>1. UNCHANGED <<lists, lifeState, armed, won>>
      BY <1>4 DEF Connect, nodeVars, timerVars
    <3> QED
      BY <1>a, <2>1, <3>1, CalmMoves DEF Goto
  <2>2. CASE /\ Goto(r, "connect", "enlist") /\ made < MaxNodes
             /\ made' = made + 1 /\ node' = [node EXCEPT ![r] = made + 1]
    <3>1. UNCHANGED <<lists, lifeState, armed, won>>
      BY <1>4 DEF Connect, nodeVars, timerVars
    <3>2. made \in Nat /\ made + 1 \in Nodes
      BY <2>2, ClientAssumption DEF Types, Nodes
    <3>3. /\ pc'[r] = "enlist" /\ node'[r] = made + 1
          /\ \A s \in Reqs : s # r => pc'[s] = pc[s] /\ node'[s] = node[s]
      BY <2>2, <3>2 DEF Goto, Types
    <3>4. \A n \in Nodes : n > made' => n > made
      BY <2>2, <3>2 DEF Nodes
    <3>5. \A n \in Nodes : n = made + 1 => n > made
      BY <3>2
    <3>6. \A n \in Nodes : Idle(n)' => Idle(n)
      BY <1>a, <3>1, <3>3, <3>4, <3>5 DEF Idle
    <3>7. \A s \in Reqs : pc'[s] = "arm" => pc[s] = "arm" /\ node'[s] = node[s]
      BY <3>3
    <3> QED
      BY <1>a, <3>1, <3>6, <3>7, Calm
  <2> QED
    BY <1>4, <2>1, <2>2 DEF Connect
<1>5. ASSUME NEW r \in Reqs, Enlist(r) PROVE OnTime'
  <2>1. CASE isClosed
    <3>1. UNCHANGED <<lists, made, node, lifeState, armed, won>> /\ pc' = [pc EXCEPT ![r] = "over"]
      BY <1>5, <2>1 DEF Enlist, Goto, timerVars
    <3> QED
      BY <1>a, <3>1, CalmMoves
  <2>2. CASE ~ isClosed
    <3>1. Used' = Used \cup {node[r]} /\ Pooled' = Pooled /\ pc[r] = "enlist" /\ pc' = [pc EXCEPT ![r] = "send"]
      BY <1>5, <2>2, Enlists DEF Enlist, Goto
    <3>2. UNCHANGED <<made, node, lifeState, armed, won>>
      BY <1>5 DEF Enlist, timerVars
    <3>3. \A s \in Reqs : pc'[s] = IF s = r THEN "send" ELSE pc[s]
      BY <3>1 DEF Types
    <3>4. \A n \in Nodes : Idle(n)' => Idle(n)
      BY <3>1, <3>2, <3>3 DEF Idle
    <3>5. \A s \in Reqs : pc'[s] = "arm" => pc[s] = "arm" /\ node'[s] = node[s]
      BY <3>2, <3>3
    <3> QED
      BY <3>1, <3>2, <3>4, <3>5, Calm
  <2> QED
    BY <2>1, <2>2
<1>6. ASSUME NEW r \in Reqs, Send(r) PROVE OnTime'
  <2>1. PICK x \in {"arm", "failed"} : pc[r] = "send" /\ pc' = [pc EXCEPT ![r] = x]
    BY <1>6 DEF Send, Goto
  <2>2. Arm(node[r], "write") /\ UNCHANGED <<lists, made, closed, lifeState, node, won>>
    BY <1>6 DEF Send, engineVars
  <2>3. "write" \in Timers /\ x \in {"arm", "recv", "failed"}
    BY <2>1 DEF Timers
  <2>4. pc[r] = "send" \/ (pc[r] = "arm" /\ x = "recv")
    BY <2>1
  <2>5. pc' = [pc EXCEPT ![r] = x]
    BY <2>1
  <2> QED
    BY <2>2, <2>3, <2>4, <2>5, ArmsOnTime, Zenon
<1>7. ASSUME NEW r \in Reqs, BodySent(r) PROVE OnTime'
  <2>1. UNCHANGED <<lists, made, node, lifeState, won, pc>> /\ \A n \in Nodes : armed'[n] \subseteq armed[n]
    BY <1>7, Cancelling DEF BodySent, engineVars, nodeVars
  <2> QED
    BY <1>e, <2>1
<1>8. ASSUME NEW r \in Reqs, ArmRead(r) PROVE OnTime'
  <2>1. pc[r] = "arm" /\ pc' = [pc EXCEPT ![r] = "recv"]
    BY <1>8 DEF ArmRead, Goto
  <2>2. Arm(node[r], "read") /\ UNCHANGED <<lists, made, closed, lifeState, node, won>>
    BY <1>8 DEF ArmRead, engineVars, nodeVars
  <2> QED
    BY <2>1, <2>2, ArmsOnTime DEF Timers
<1>9. ASSUME NEW r \in Reqs, Receive(r) PROVE OnTime'
  <2>1. PICK x \in {"close", "failed"} : pc' = [pc EXCEPT ![r] = x]
    BY <1>9 DEF Receive, Goto
  <2>2. UNCHANGED timerVars \/ Cancel(node[r], {"read"})
    BY <1>9 DEF Receive
  <2>3. UNCHANGED won /\ \A n \in Nodes : armed'[n] \subseteq armed[n]
    BY <2>2, Cancelling DEF timerVars
  <2>4. UNCHANGED <<lists, made, node, lifeState>>
    BY <1>9 DEF Receive, engineVars
  <2> QED
    BY <1>a, <2>1, <2>3, <2>4, CalmMoves
<1>10. ASSUME NEW r \in Reqs, CloseLast(r) PROVE OnTime'
  <2>1. PICK x \in {"wait", "failed"} : pc[r] = "close" /\ pc' = [pc EXCEPT ![r] = x]
    BY <1>10 DEF CloseLast, Goto
  <2>2. UNCHANGED <<made, node, lifeState, won>>
    BY <1>10 DEF CloseLast
  <2>3. node[r] \in Nodes /\ (closed[node[r]] \/ node[r] \in Used)
    BY <2>1, Holds DEF Holding
  <2>4. CASE CloseConnInUse(node[r])
    BY <1>c, <2>1, <2>2, <2>3, <2>4, CalmMoves
  <2>5. CASE UNCHANGED <<lists, armed>>
    BY <1>a, <2>1, <2>2, <2>5, CalmMoves
  <2> QED
    BY <1>10, <2>4, <2>5 DEF CloseLast
<1>11. ASSUME NEW r \in Reqs, Respond(r) PROVE OnTime'
  <2>1. PICK x \in {"body", "return", "user", "done"} : pc' = [pc EXCEPT ![r] = x]
    BY <1>11 DEF Respond, Goto
  <2>2. UNCHANGED <<lists, made, node, lifeState, won>>
    BY <1>11, Cancelling DEF Respond, engineVars, nodeVars, timerVars
  <2>3. \A n \in Nodes : armed'[n] \subseteq armed[n]
    BY <1>11, Cancelling DEF Respond, timerVars
  <2> QED
    BY <1>a, <2>1, <2>2, <2>3, CalmMoves
<1>12. ASSUME NEW r \in Reqs, Fail(r) PROVE OnTime'
  <2>1. PICK x \in {"over", "new"} : pc[r] = "failed" /\ pc' = [pc EXCEPT ![r] = x]
    BY <1>12 DEF Fail, Goto
  <2>2. UNCHANGED <<made, node, lifeState, won>>
    BY <1>12 DEF Fail
  <2>3. node[r] \in Nodes /\ (closed[node[r]] \/ node[r] \in Used)
    BY <2>1, Holds DEF Holding
  <2>4. CASE CloseConnInUse(node[r])
    BY <1>c, <2>1, <2>2, <2>3, <2>4, CalmMoves
  <2>5. CASE UNCHANGED <<lists, armed>>
    BY <1>a, <2>1, <2>2, <2>5, CalmMoves
  <2> QED
    BY <1>12, <2>4, <2>5 DEF Fail
<1>13. ASSUME NEW r \in Reqs, ReadBody(r) PROVE OnTime'
  <2>1. PICK x \in {"return"} : pc' = [pc EXCEPT ![r] = x]
    BY <1>13 DEF ReadBody, Goto
  <2>2. UNCHANGED <<lists, made, node, lifeState, won>>
    BY <1>13, Cancelling DEF ReadBody, engineVars, nodeVars, timerVars
  <2>3. \A n \in Nodes : armed'[n] \subseteq armed[n]
    BY <1>13, Cancelling DEF ReadBody, timerVars
  <2> QED
    BY <1>a, <2>1, <2>2, <2>3, CalmMoves
<1>14. ASSUME NEW r \in Reqs, CloseBody(r) PROVE OnTime'
  <2>1. PICK x \in {"over"} : pc[r] = "body" /\ pc' = [pc EXCEPT ![r] = x]
    BY <1>14 DEF CloseBody, Goto
  <2>2. UNCHANGED <<made, node, lifeState, won>>
    BY <1>14 DEF CloseBody
  <2>3. node[r] \in Nodes /\ (closed[node[r]] \/ node[r] \in Used)
    BY <2>1, Holds DEF Holding
  <2>4. CASE CloseConnInUse(node[r])
    BY <1>c, <2>1, <2>2, <2>3, <2>4, CalmMoves
  <2>5. CASE UNCHANGED <<lists, armed>>
    BY <1>a, <2>1, <2>2, <2>5, CalmMoves
  <2> QED
    BY <1>14, <2>4, <2>5 DEF CloseBody
<1>15. ASSUME NEW r \in Reqs, Upgrade(r) PROVE OnTime'
  BY <1>15 DEF Upgrade, Goto, Plain, Singly
<1>16. ASSUME NEW r \in Reqs, ReturnConn(r) PROVE OnTime'
  <2>1. PICK q \in {"put", "done"} : pc[r] = "return" /\ pc' = [pc EXCEPT ![r] = q]
    BY <1>16 DEF ReturnConn, Goto
  <2>2. UNCHANGED <<made, node, won>> /\ pc'[r] = q
    BY <1>16, <2>1 DEF ReturnConn, Types
  <2>3. node[r] \in Nodes /\ (closed[node[r]] \/ node[r] \in Used)
    BY <2>1, Holds DEF Holding
  <2>4. CASE closed[node[r]]
    <3>1. UNCHANGED <<lists, armed, lifeState>> /\ q = "done"
      BY <1>16, <2>2, <2>4 DEF ReturnConn, Goto, Types
    <3> QED
      BY <1>a, <2>1, <2>2, <3>1, CalmMoves
  <2>5. CASE ~ closed[node[r]] /\ Phase(lifeState[node[r]]) # 0
    <3>1. CloseConnInUse(node[r]) /\ UNCHANGED lifeState /\ q = "done"
      BY <1>16, <2>2, <2>5 DEF ReturnConn, Goto, Types
    <3> QED
      BY <1>c, <2>1, <2>2, <2>3, <3>1, CalmMoves
  <2>6. CASE ~ closed[node[r]] /\ Phase(lifeState[node[r]]) = 0
    <3>1. lifeState' = [lifeState EXCEPT ![node[r]] = @ + 4]
      BY <1>16, <2>6 DEF ReturnConn
    <3>2. /\ Pooled' = Pooled /\ \A m \in Nodes : armed'[m] \subseteq armed[m]
          /\ \A m \in Used : m \in Used' \/ closed'[m]
          /\ q = "done" => closed'[node[r]]
      <4>1. CASE CloseConnInUse(node[r])
        <5>1. closed' = [closed EXCEPT ![node[r]] = TRUE]
          BY <2>6, <4>1 DEF CloseConnInUse
        <5>2. closed'[node[r]]
          BY <2>3, <5>1 DEF Types
        <5> QED
          BY <1>c, <2>3, <4>1, <5>2
      <4>2. CASE UNCHANGED <<lists, closed, armed>> /\ q = "put"
        BY <1>a, <4>2
      <4> QED
        BY <1>16, <2>2, <2>6, <4>1, <4>2 DEF ReturnConn, Goto, Types
    <3> QED
      BY <2>1, <2>2, <2>6, <3>1, <3>2, ReturnsOnTime
  <2> QED
    BY <2>4, <2>5, <2>6
<1>17. ASSUME NEW r \in Reqs, PutConn(r) PROVE OnTime'
  <2>1. /\ pc[r] = "put" /\ pc' = [pc EXCEPT ![r] = "done"]
        /\ lists' = Prepend(Remove(lists, "use", node[r]), "pool", node[r])
        /\ UNCHANGED <<closed, isClosed, made, node, lifeState, armed, won>>
    BY <1>17 DEF PutConn, Goto, nodeVars, timerVars
  <2>2. Used' = Used \ {node[r]} /\ Pooled' = Pooled \cup {node[r]}
    BY <2>1, Puts
  <2>3. \A s \in Reqs : pc'[s] = IF s = r THEN "done" ELSE pc[s]
    BY <2>1 DEF Types
  <2>4. \A n \in Nodes : Idle(n)' => Idle(n)
    BY <2>1, <2>2, <2>3 DEF Idle
  <2>5. \A s \in Reqs : pc'[s] = "arm" => pc[s] = "arm" /\ node'[s] = node[s]
    BY <2>1, <2>3
  <2>6. \A w \in won : w.node = node[r] => closed'[node[r]]
    <3>1. Idle(node[r]) /\ node[r] \in Nodes
      BY <2>1, Holds DEF Idle, Holding
    <3>2. ~ closed[node[r]] => Quiet(node[r])
      BY <3>1 DEF OnTime
    <3> QED
      BY <2>1, <3>2 DEF Quiet
  <2> QED
    BY <2>1, <2>2, <2>4, <2>5, <2>6, Calm
<1>19. ASSUME NEW n \in Nodes, ServerCloses(n) PROVE OnTime'
  BY <1>e, <1>19 DEF ServerCloses, engineVars, reqVars, timerVars
<1>20. ASSUME NEW n \in Nodes, NEW a \in armed[n], TimerWins(n, a) PROVE OnTime'
  BY <1>20, TimerWinsOnTime
<1>21. ASSUME NEW w \in won, TimerCloses(w) PROVE OnTime'
  <2>1. w.node \in Nodes /\ (closed[w.node] \/ w.node \in Used) /\ CloseConnInUse(w.node)
    BY <1>21 DEF Types, OnTime, Late, TimerCloses
  <2>2. UNCHANGED <<made, node, pc, lifeState>> /\ won' \subseteq won
    BY <1>21 DEF TimerCloses, reqVars
  <2>3. \A n \in Nodes : Idle(n)' => Idle(n)
    BY <1>c, <2>1, <2>2 DEF Idle
  <2> QED
    BY <1>c, <2>1, <2>2, <2>3, Calm
<1>22. ASSUME EngineClose PROVE OnTime'
  <2>1. UNCHANGED <<made, node, pc, lifeState, won>> /\ \A n \in Nodes : armed'[n] \subseteq armed[n]
    BY <1>22 DEF EngineClose, reqVars
  <2>2. Pooled' = {} /\ \A n \in Nodes : closed'[n] = (closed[n] \/ n \in Pooled \cup Used)
    BY <1>22, Shuts
  <2>3. \A n \in Nodes : Idle(n)' => Idle(n)
    BY <2>1, <2>2 DEF Idle
  <2>4. \A w \in won' : w.node \in Used => w.node \in Used' \/ closed'[w.node]
    BY <2>2, ListsOk DEF ListsInv
  <2> QED
    BY <2>1, <2>3, <2>4, Calm
<1>23. ASSUME UNCHANGED vars PROVE OnTime'
  BY <1>e, <1>23 DEF vars, engineVars, nodeVars, timerVars, reqVars
<1> QED
  BY <1>1, <1>2, <1>3, <1>4, <1>5, <1>6, <1>7, <1>8, <1>9, <1>10, <1>11, <1>12, <1>13, <1>14, <1>15, <1>16, <1>17,
     <1>19, <1>20, <1>21, <1>22, <1>23 DEF Next, Step

\* Where no timers fire, none ever wins.
LEMMA TimelyStep ==
  ASSUME Types, ListsInv, Plain, Timely, [Next]_vars
  PROVE  Timely'
<1>1. troubles' = troubles
  BY DEF Next, Step, vars, GetConn, CountConn, UndoCount, Connect, Enlist, Send, BodySent, ArmRead,
     Receive, CloseLast, Respond, Fail, ReadBody, CloseBody, Upgrade, ReturnConn, PutConn, ServerCloses,
     TimerWins, TimerCloses, EngineClose
<1>2. CASE "timeout" \in troubles
  BY <1>1, <1>2, OnTimeStep DEF Timely
<1>3. CASE "timeout" \notin troubles
  <2>1. won = {}
    BY <1>3 DEF Timely
  <2>2. won' = won
    BY <1>3, <2>1 DEF Next, Step, vars, timerVars, Cancel, GetConn, CountConn, UndoCount, Connect, Enlist,
       Send, BodySent, ArmRead, Receive, CloseLast, Respond, Fail, ReadBody, CloseBody, Upgrade,
       ReturnConn, PutConn, ServerCloses,
       TimerWins, TimerCloses, EngineClose
  <2> QED
    BY <1>1, <1>3, <2>1, <2>2 DEF Timely
<1> QED
  BY <1>2, <1>3

-----------------------------------------------------------------------------
(* The count.  A: requests that are counted for a connection in the making,  *)
(* B: those of them that the pool has room for, O: open connections of the   *)
(* engine.                                                                   *)

Accounts(A, B, O) == /\ IsFiniteSet(A) /\ B \subseteq A /\ IsFiniteSet(O)
                     /\ Cardinality(B) + Cardinality(O) <= PoolSize

Tally(A, O) == Cardinality(A) + Cardinality(O)

Counting == {r \in Reqs : pc[r] \in {"connect", "undo", "enlist"}}
Joining == {r \in Reqs : pc[r] \in {"connect", "enlist"}}
Open == {n \in 1 .. made : ~ closed[n]} \ {node[r] : r \in {q \in Reqs : pc[q] \in {"enlist", "own"}}}

Counted == /\ Accounts(Counting, Joining, Open)
           /\ ~ isClosed => connNum = Tally(Counting, Open)

\* The sizes that the account compares are numbers.
LEMMA Sizes ==
  ASSUME NEW A, NEW B, NEW O, Accounts(A, B, O)
  PROVE  /\ IsFiniteSet(A) /\ IsFiniteSet(B) /\ IsFiniteSet(O) /\ B \subseteq A
         /\ Cardinality(A) \in Nat /\ Cardinality(B) \in Nat /\ Cardinality(O) \in Nat
         /\ Cardinality(B) <= Cardinality(A) /\ PoolSize \in Nat
         /\ Cardinality(B) + Cardinality(O) <= PoolSize
<1>1. IsFiniteSet(A) /\ IsFiniteSet(O) /\ B \subseteq A
  BY DEF Accounts
<1>2. IsFiniteSet(B) /\ Cardinality(B) <= Cardinality(A)
  BY <1>1, FS_Subset
<1> QED
  BY <1>1, <1>2, FS_CardinalityType, ClientAssumption DEF Accounts

\* A request is counted: below PoolSize there is room for it.
LEMMA CountsOn ==
  ASSUME NEW A, NEW B, NEW O, Accounts(A, B, O), NEW r, r \notin A
  PROVE  /\ Accounts(A \cup {r}, B, O) /\ Tally(A \cup {r}, O) = Tally(A, O) + 1
         /\ Tally(A, O) < PoolSize => Accounts(A \cup {r}, B \cup {r}, O)
<1>1. /\ IsFiniteSet(A) /\ IsFiniteSet(B) /\ IsFiniteSet(O) /\ B \subseteq A /\ r \notin B
      /\ Cardinality(A) \in Nat /\ Cardinality(B) \in Nat /\ Cardinality(O) \in Nat
      /\ Cardinality(B) <= Cardinality(A) /\ PoolSize \in Nat
      /\ Cardinality(B) + Cardinality(O) <= PoolSize
  BY Sizes
<1>2. IsFiniteSet(A \cup {r}) /\ Cardinality(A \cup {r}) = Cardinality(A) + 1
  BY <1>1, FS_AddElement
<1>3. Cardinality(B \cup {r}) = Cardinality(B) + 1
  BY <1>1, FS_AddElement
<1> QED
  BY <1>1, <1>2, <1>3 DEF Accounts, Tally

\* A request is not counted any more: it had no room, or its connection counts.
LEMMA CountsOff ==
  ASSUME NEW A, NEW B, NEW O, Accounts(A, B, O), NEW r \in A
  PROVE  /\ r \notin B => Accounts(A \ {r}, B, O) /\ Tally(A \ {r}, O) = Tally(A, O) - 1
         /\ r \in B => Accounts(A, B \ {r}, O) /\ Accounts(A \ {r}, B \ {r}, O)
<1>1. /\ IsFiniteSet(A) /\ IsFiniteSet(B) /\ IsFiniteSet(O) /\ B \subseteq A
      /\ Cardinality(A) \in Nat /\ Cardinality(B) \in Nat /\ Cardinality(O) \in Nat
      /\ Cardinality(B) <= Cardinality(A) /\ PoolSize \in Nat
      /\ Cardinality(B) + Cardinality(O) <= PoolSize
  BY Sizes
<1>2. IsFiniteSet(A \ {r}) /\ Cardinality(A \ {r}) = Cardinality(A) - 1
  BY <1>1, FS_RemoveElement
<1>3. r \in B => Cardinality(B \ {r}) = Cardinality(B) - 1
  BY <1>1, FS_RemoveElement
<1>4. r \notin B => Accounts(A \ {r}, B, O) /\ Tally(A \ {r}, O) = Tally(A, O) - 1
  BY <1>1, <1>2 DEF Accounts, Tally
<1>5. r \in B => Accounts(A, B \ {r}, O) /\ Accounts(A \ {r}, B \ {r}, O)
  BY <1>1, <1>2, <1>3 DEF Accounts
<1> QED
  BY <1>4, <1>5

\* The connection that a request is counted for is made.
LEMMA CountsOver ==
  ASSUME NEW A, NEW B, NEW O, Accounts(A, B, O), NEW r \in B, NEW n, n \notin O
  PROVE  Accounts(A \ {r}, B \ {r}, O \cup {n}) /\ Tally(A \ {r}, O \cup {n}) = Tally(A, O)
<1>1. /\ IsFiniteSet(A) /\ IsFiniteSet(B) /\ IsFiniteSet(O) /\ B \subseteq A /\ r \in A
      /\ Cardinality(A) \in Nat /\ Cardinality(B) \in Nat /\ Cardinality(O) \in Nat
      /\ Cardinality(B) + Cardinality(O) <= PoolSize /\ PoolSize \in Nat
  BY Sizes
<1>2. IsFiniteSet(A \ {r}) /\ Cardinality(A \ {r}) = Cardinality(A) - 1
  BY <1>1, FS_RemoveElement
<1>3. B \ {r} \subseteq A \ {r} /\ Cardinality(B \ {r}) = Cardinality(B) - 1
  BY <1>1, FS_RemoveElement
<1>4. IsFiniteSet(O \cup {n}) /\ Cardinality(O \cup {n}) = Cardinality(O) + 1
  BY <1>1, FS_AddElement
<1>5. Cardinality(B \ {r}) + Cardinality(O \cup {n}) <= PoolSize
  BY <1>1, <1>3, <1>4
<1>6. Tally(A \ {r}, O \cup {n}) = Tally(A, O)
  BY <1>1, <1>2, <1>4 DEF Tally
<1> QED
  BY <1>2, <1>3, <1>4, <1>5, <1>6 DEF Accounts

\* A connection is closed, or the user's.
LEMMA CountsDown ==
  ASSUME NEW A, NEW B, NEW O, Accounts(A, B, O)
  PROVE  /\ \A n \in O : Accounts(A, B, O \ {n}) /\ Tally(A, O \ {n}) = Tally(A, O) - 1
         /\ \A Q \in SUBSET O : Accounts(A, B, Q)
<1>1. /\ IsFiniteSet(A) /\ IsFiniteSet(B) /\ IsFiniteSet(O) /\ B \subseteq A
      /\ Cardinality(A) \in Nat /\ Cardinality(B) \in Nat /\ Cardinality(O) \in Nat
      /\ Cardinality(B) <= Cardinality(A) /\ PoolSize \in Nat
      /\ Cardinality(B) + Cardinality(O) <= PoolSize
  BY Sizes
<1>2. ASSUME NEW n \in O PROVE Accounts(A, B, O \ {n}) /\ Tally(A, O \ {n}) = Tally(A, O) - 1
  <2>1. IsFiniteSet(O \ {n}) /\ Cardinality(O \ {n}) = Cardinality(O) - 1
    BY <1>1, FS_RemoveElement
  <2> QED
    BY <1>1, <2>1 DEF Accounts, Tally
<1>3. ASSUME NEW Q \in SUBSET O PROVE Accounts(A, B, Q)
  <2>1. IsFiniteSet(Q) /\ Cardinality(Q) <= Cardinality(O)
    BY <1>1, FS_Subset
  <2>2. Cardinality(Q) \in Nat
    BY <2>1, FS_CardinalityType
  <2> QED
    BY <1>1, <2>1, <2>2 DEF Accounts
<1> QED
  BY <1>2, <1>3

\* Nothing that is counted changes.
LEMMA CountsSame ==
  ASSUME Types, Counted, NEW r \in Reqs, NEW x, UNCHANGED <<made, closed, node, connNum, isClosed>>,
         pc' = [pc EXCEPT ![r] = x],
         pc[r] \notin {"connect", "undo", "enlist", "own"}, x \notin {"connect", "undo", "enlist", "own"}
  PROVE  Counted'
<1>1. \A s \in Reqs : pc'[s] = IF s = r THEN x ELSE pc[s]
  BY DEF Types
<1>2. Counting' = Counting /\ Joining' = Joining
  BY <1>1 DEF Counting, Joining
<1>3. Open' = Open
  <2>1. {q \in Reqs : pc'[q] \in {"enlist", "own"}} = {q \in Reqs : pc[q] \in {"enlist", "own"}}
    BY <1>1
  <2> QED
    BY <2>1 DEF Open
<1> QED
  BY <1>2, <1>3 DEF Counted

\* A connection in use is closed.
LEMMA CountsClosed ==
  ASSUME Types, ListsInv, Counted, NEW n \in Nodes, closed[n] \/ n \in Used, CloseConnInUse(n),
         UNCHANGED <<made, node, isClosed>>,
         \A s \in Reqs : pc'[s] # pc[s] => /\ pc[s] \notin {"connect", "undo", "enlist", "own"}
                                          /\ pc'[s] \notin {"connect", "undo", "enlist", "own"}
  PROVE  Counted'
<1>1. /\ closed' = [closed EXCEPT ![n] = TRUE]
      /\ connNum' = IF closed[n] THEN connNum ELSE connNum - 1
  BY Closing DEF ListsInv
<1>2. Counting' = Counting /\ Joining' = Joining
  BY DEF Counting, Joining
<1>3. \A m \in Nodes : closed'[m] = (m = n \/ closed[m])
  BY <1>1 DEF Types
<1>4. {q \in Reqs : pc'[q] \in {"enlist", "own"}} = {q \in Reqs : pc[q] \in {"enlist", "own"}}
  OBVIOUS
<1>5. Open' = Open \ {n}
  <2>1. 1 .. made \subseteq Nodes
    BY Kinds DEF Types
  <2> QED
    BY <1>3, <1>4, <2>1 DEF Open
<1>6. closed[n] <=> n \notin Open
  <2>1. n \in Used => n \in 1 .. made
    BY DEF ListsInv, Links, Types, Nodes
  <2>2. n \in Used => \A s \in Reqs : pc[s] \in {"enlist", "own"} => node[s] # n
    BY DEF ListsInv, Owned, Apart
  <2> QED
    BY <2>1, <2>2 DEF Open
<1>7. CASE closed[n]
  <2>1. Open' = Open /\ connNum' = connNum
    BY <1>1, <1>5, <1>6, <1>7
  <2> QED
    BY <1>2, <2>1 DEF Counted
<1>8. CASE ~ closed[n]
  <2>1. /\ Accounts(Counting, Joining, Open \ {n})
        /\ Tally(Counting, Open \ {n}) = Tally(Counting, Open) - 1
    BY <1>6, <1>8, CountsDown DEF Counted
  <2>2. Accounts(Counting', Joining', Open') /\ Tally(Counting', Open') = Tally(Counting, Open) - 1
    BY <1>2, <1>5, <2>1
  <2> QED
    BY <1>1, <1>8, <2>2 DEF Counted
<1> QED
  BY <1>7, <1>8

\* Every step keeps connNum and what it counts together.
LEMMA CountedStep ==
  ASSUME Types, ListsInv, Plain, Timely, Counted, [Next]_vars
  PROVE  Counted'
<1>a. connNum \in Int /\ isClosed \in BOOLEAN /\ pc \in [Reqs -> States] /\ 1 .. made \subseteq Nodes
  BY Kinds DEF Types
<1>b. Accounts(Counting, Joining, Open) /\ (~ isClosed => connNum = Tally(Counting, Open))
  BY DEF Counted
<1>c. ASSUME UNCHANGED <<made, closed, node, connNum, isClosed, pc>> PROVE Counted'
  BY <1>c DEF Counted, Counting, Joining, Open
<1>d. ASSUME NEW r \in Reqs, NEW x, pc' = [pc EXCEPT ![r] = x]
      PROVE  \A s \in Reqs : pc'[s] = IF s = r THEN x ELSE pc[s]
  BY <1>a, <1>d
<1>e. ASSUME NEW r \in Reqs, NEW x, pc' = [pc EXCEPT ![r] = x], UNCHANGED <<made, closed, node>>,
             pc[r] \notin {"enlist", "own"}, x \notin {"enlist", "own"}
      PROVE  Open' = Open
  <2>1. {q \in Reqs : pc'[q] \in {"enlist", "own"}} = {q \in Reqs : pc[q] \in {"enlist", "own"}}
    BY <1>d, <1>e
  <2> QED
    BY <1>e, <2>1 DEF Open
<1>1. ASSUME NEW r \in Reqs, GetConn(r) PROVE Counted'
  <2>1. PICK x \in {"over", "new", "send"} : pc[r] = "get" /\ pc' = [pc EXCEPT ![r] = x]
    BY <1>1 DEF GetConn, Goto
  <2>2. UNCHANGED <<made, closed, connNum, isClosed>> /\ \A s \in Reqs : s # r => node'[s] = node[s]
    BY <1>1 DEF GetConn, nodeVars, Types
  <2>3. Counting' = Counting /\ Joining' = Joining
    BY <1>d, <2>1 DEF Counting, Joining
  <2>a. /\ \A s \in Reqs : s # r => pc'[s] = pc[s] /\ node'[s] = node[s]
        /\ pc[r] \notin {"enlist", "own"} /\ pc'[r] \notin {"enlist", "own"}
    BY <1>d, <2>1, <2>2
  <2>4. \A s \in Reqs : /\ (pc'[s] \in {"enlist", "own"} <=> pc[s] \in {"enlist", "own"})
                         /\ (pc[s] \in {"enlist", "own"} => node'[s] = node[s])
    BY <2>a
  <2>5. Open' = Open
    BY <2>2, <2>4 DEF Open
  <2> QED
    BY <2>2, <2>3, <2>5 DEF Counted
<1>2. ASSUME NEW r \in Reqs, CountConn(r) PROVE Counted'
  <2>1. CASE isClosed
    <3>1. pc[r] = "new" /\ pc' = [pc EXCEPT ![r] = "over"] /\ UNCHANGED <<made, closed, node, connNum, isClosed>>
      BY <1>2, <2>1 DEF CountConn, Goto, nodeVars
    <3> QED
      BY <3>1, CountsSame
  <2>2. CASE ~ isClosed
    <3>1. /\ pc[r] = "new" /\ pc' = [pc EXCEPT ![r] = IF connNum >= PoolSize THEN "undo" ELSE "connect"]
          /\ connNum' = connNum + 1 /\ UNCHANGED <<made, closed, node, isClosed>>
      BY <1>2, <2>2 DEF CountConn, Goto, nodeVars
    <3>2. Open' = Open /\ Counting' = Counting \cup {r} /\ r \notin Counting
      <4>1. PICK x \in {"undo", "connect"} : pc' = [pc EXCEPT ![r] = x]
        BY <3>1
      <4> QED
        BY <1>d, <1>e, <3>1, <4>1 DEF Counting
    <3>3. CASE connNum >= PoolSize
      <4>1. Joining' = Joining
        BY <1>d, <3>1, <3>3 DEF Joining
      <4>2. Accounts(Counting \cup {r}, Joining, Open) /\ Tally(Counting \cup {r}, Open) = Tally(Counting, Open) + 1
        BY <1>a, <1>b, <2>2, <3>2, CountsOn
      <4> QED
        BY <1>b, <2>2, <3>1, <3>2, <4>1, <4>2 DEF Counted
    <3>4. CASE ~ (connNum >= PoolSize)
      <4>1. Joining' = Joining \cup {r}
        BY <1>d, <3>1, <3>4 DEF Joining
      <4>2. Tally(Counting, Open) < PoolSize
        BY <1>a, <1>b, <2>2, <3>4, ClientAssumption
      <4>3. Accounts(Counting \cup {r}, Joining \cup {r}, Open) /\ Tally(Counting \cup {r}, Open) = Tally(Counting, Open) + 1
        BY <1>a, <1>b, <2>2, <3>2, <4>2, CountsOn
      <4> QED
        BY <1>b, <2>2, <3>1, <3>2, <4>1, <4>3 DEF Counted
    <3> QED
      BY <3>3, <3>4
  <2> QED
    BY <2>1, <2>2
<1>3. ASSUME NEW r \in Reqs, UndoCount(r) PROVE Counted'
  <2>1. /\ pc[r] = "undo" /\ pc' = [pc EXCEPT ![r] = "over"]
        /\ connNum' = connNum - 1 /\ UNCHANGED <<made, closed, node, isClosed>>
    BY <1>3 DEF UndoCount, Goto, nodeVars
  <2>a. Open' = Open
    BY <1>e, <2>1
  <2>b. \A s \in Reqs : pc'[s] = IF s = r THEN "over" ELSE pc[s]
    BY <1>d, <2>1
  <2>2. /\ Counting' = Counting \ {r} /\ Joining' = Joining
        /\ r \in Counting /\ r \notin Joining
    BY <2>1, <2>b DEF Counting, Joining
  <2>3. Accounts(Counting \ {r}, Joining, Open) /\ Tally(Counting \ {r}, Open) = Tally(Counting, Open) - 1
    BY <1>b, <2>2, CountsOff
  <2> QED
    BY <1>b, <2>1, <2>a, <2>2, <2>3 DEF Counted
<1>4. ASSUME NEW r \in Reqs, Connect(r) PROVE Counted'
  <2>1. CASE Goto(r, "connect", "undo") /\ UNCHANGED <<made, node>>
    <3>1. /\ pc[r] = "connect" /\ pc' = [pc EXCEPT ![r] = "undo"]
          /\ UNCHANGED <<made, closed, node, connNum, isClosed>>
      BY <1>4, <2>1 DEF Connect, Goto, nodeVars
    <3>a. Open' = Open
      BY <1>e, <2>1, <3>1
    <3>b. \A s \in Reqs : pc'[s] = IF s = r THEN "undo" ELSE pc[s]
      BY <1>d, <3>1
    <3>2. /\ Counting' = Counting /\ Joining' = Joining \ {r}
          /\ r \in Counting /\ r \in Joining
      BY <3>1, <3>b DEF Counting, Joining
    <3>3. Accounts(Counting, Joining \ {r}, Open)
      BY <1>b, <3>2, CountsOff
    <3> QED
      BY <1>b, <3>1, <3>a, <3>2, <3>3 DEF Counted
  <2>2. CASE /\ Goto(r, "connect", "enlist") /\ made < MaxNodes
             /\ made' = made + 1 /\ node' = [node EXCEPT ![r] = made + 1]
    <3>1. /\ pc[r] = "connect" /\ pc' = [pc EXCEPT ![r] = "enlist"]
          /\ UNCHANGED <<closed, connNum, isClosed>>
      BY <1>4, <2>2 DEF Connect, Goto, nodeVars
    <3>2. Counting' = Counting /\ Joining' = Joining
      BY <1>d, <3>1 DEF Counting, Joining
    <3>3. \A s \in Reqs : node'[s] = IF s = r THEN made + 1 ELSE node[s]
      BY <2>2 DEF Types, Nodes
    <3>4. \A n \in 1 .. made' : n # made + 1 => n \in 1 .. made
      BY <2>2 DEF Types
    <3>5. \A n \in 1 .. made : n \in 1 .. made' /\ n # made + 1
      BY <2>2 DEF Types
    <3>6. /\ pc'[r] \in {"enlist", "own"} /\ pc[r] \notin {"enlist", "own"}
          /\ \A s \in Reqs : s # r => pc'[s] = pc[s]
      BY <1>d, <3>1
    <3>7. Open' = Open
      <4>1. \A n \in Open' : n # made + 1
        BY <3>3, <3>6 DEF Open
      <4> QED
        BY <3>1, <3>3, <3>4, <3>5, <3>6, <4>1 DEF Open
    <3> QED
      BY <3>1, <3>2, <3>7 DEF Counted
  <2> QED
    BY <1>4, <2>1, <2>2 DEF Connect
<1>5. ASSUME NEW r \in Reqs, Enlist(r) PROVE Counted'
  <2>1. pc[r] = "enlist" /\ r \in Counting /\ r \in Joining
    BY <1>5 DEF Enlist, Goto, Counting, Joining
  <2>2. node[r] \in 1 .. made /\ ~ closed[node[r]]
    BY <2>1 DEF ListsInv, Owned, Apart
  <2>3. PICK x \in {"over", "send"} : pc' = [pc EXCEPT ![r] = x]
    BY <1>5 DEF Enlist, Goto
  <2>4. Counting' = Counting \ {r} /\ Joining' = Joining \ {r}
    BY <1>d, <2>1, <2>3 DEF Counting, Joining
  <2>5. \A s \in Reqs : pc[s] \in {"enlist", "own"} /\ s # r => node[s] # node[r]
    BY <2>1 DEF ListsInv, Owned, Apart
  <2>b. \A s \in Reqs : pc'[s] = IF s = r THEN x ELSE pc[s]
    BY <1>d, <2>3
  <2>a. (\A s \in Reqs : s # r => pc'[s] = pc[s]) /\ pc'[r] \notin {"enlist", "own"}
    BY <2>b, x \in {"over", "send"}
  <2>6. \A s \in Reqs : pc'[s] \in {"enlist", "own"} <=> (pc[s] \in {"enlist", "own"} /\ s # r)
    BY <2>a
  <2>7. UNCHANGED <<made, node, isClosed>>
    BY <1>5 DEF Enlist
  <2>8. CASE isClosed
    <3>1. closed' = [closed EXCEPT ![node[r]] = TRUE]
      BY <1>5, <2>8 DEF Enlist
    <3>2. \A n \in Nodes : closed'[n] = (n = node[r] \/ closed[n])
      BY <1>a, <2>2, <3>1 DEF Types
    <3>a. ASSUME NEW n \in 1 .. made
          PROVE  /\ closed'[n] <=> n = node[r] \/ closed[n]
                 /\ (\E s \in Reqs : pc'[s] \in {"enlist", "own"} /\ node'[s] = n)
                    <=> (n # node[r] /\ \E s \in Reqs : pc[s] \in {"enlist", "own"} /\ node[s] = n)
      BY <1>a, <2>1, <2>5, <2>6, <2>7, <3>2
    <3>b. \E s \in Reqs : pc[s] \in {"enlist", "own"} /\ node[s] = node[r]
      BY <2>1
    <3>3. Open' = Open
      BY <2>7, <3>a, <3>b DEF Open
    <3>4. Accounts(Counting \ {r}, Joining \ {r}, Open)
      BY <1>b, <2>1, CountsOff
    <3> QED
      BY <2>4, <2>7, <2>8, <3>3, <3>4 DEF Counted
  <2>9. CASE ~ isClosed
    <3>1. UNCHANGED <<closed, connNum>>
      BY <1>5, <2>9 DEF Enlist
    <3>2. Open' = Open \cup {node[r]} /\ node[r] \notin Open
      BY <2>1, <2>2, <2>5, <2>6, <2>7, <3>1 DEF Open
    <3>3. /\ Accounts(Counting \ {r}, Joining \ {r}, Open \cup {node[r]})
          /\ Tally(Counting \ {r}, Open \cup {node[r]}) = Tally(Counting, Open)
      <4>1. PICK n : n = node[r]
        OBVIOUS
      <4>2. n \notin Open /\ Accounts(Counting, Joining, Open)
        BY <1>b, <3>2, <4>1
      <4>3. /\ Accounts(Counting \ {r}, Joining \ {r}, Open \cup {n})
            /\ Tally(Counting \ {r}, Open \cup {n}) = Tally(Counting, Open)
        BY <2>1, <4>2, CountsOver
      <4> QED
        BY <4>1, <4>3
    <3> QED
      BY <1>b, <2>4, <2>7, <3>1, <3>2, <3>3 DEF Counted
  <2> QED
    BY <2>8, <2>9
<1>6. ASSUME NEW r \in Reqs, Send(r) PROVE Counted'
  <2>1. PICK x \in {"arm", "failed"} : pc[r] = "send" /\ pc' = [pc EXCEPT ![r] = x]
    BY <1>6 DEF Send, Goto
  <2>2. UNCHANGED <<made, closed, node, connNum, isClosed>>
    BY <1>6 DEF Send, engineVars, nodeVars
  <2> QED
    BY <2>1, <2>2, CountsSame
<1>7. ASSUME NEW r \in Reqs, BodySent(r) PROVE Counted'
  BY <1>7, <1>c DEF BodySent, engineVars, nodeVars
<1>8. ASSUME NEW r \in Reqs, ArmRead(r) PROVE Counted'
  <2>1. PICK x \in {"recv"} : pc[r] = "arm" /\ pc' = [pc EXCEPT ![r] = x]
    BY <1>8 DEF ArmRead, Goto
  <2>2. UNCHANGED <<made, closed, node, connNum, isClosed>>
    BY <1>8 DEF ArmRead, engineVars, nodeVars
  <2> QED
    BY <2>1, <2>2, CountsSame
<1>9. ASSUME NEW r \in Reqs, Receive(r) PROVE Counted'
  <2>1. PICK x \in {"close", "failed"} : pc[r] = "recv" /\ pc' = [pc EXCEPT ![r] = x]
    BY <1>9 DEF Receive, Goto
  <2>2. UNCHANGED <<made, closed, node, connNum, isClosed>>
    BY <1>9 DEF Receive, engineVars, nodeVars
  <2> QED
    BY <2>1, <2>2, CountsSame
<1>10. ASSUME NEW r \in Reqs, CloseLast(r) PROVE Counted'
  <2>1. PICK x \in {"wait", "failed"} : pc[r] = "close" /\ pc' = [pc EXCEPT ![r] = x]
    BY <1>10 DEF CloseLast, Goto
  <2>2. UNCHANGED <<made, node, isClosed>>
    BY <1>10 DEF CloseLast
  <2>3. node[r] \in Nodes /\ (closed[node[r]] \/ node[r] \in Used)
    BY <2>1, Holds DEF Holding
  <2>4. \A s \in Reqs : pc'[s] # pc[s] => /\ pc[s] \notin {"connect", "undo", "enlist", "own"}
                                         /\ pc'[s] \notin {"connect", "undo", "enlist", "own"}
    BY <1>d, <2>1
  <2>5. CASE CloseConnInUse(node[r])
    BY <2>2, <2>3, <2>4, <2>5, CountsClosed
  <2>6. CASE UNCHANGED <<connNum, closed>>
    BY <2>1, <2>2, <2>6, CountsSame
  <2> QED
    BY <1>10, <2>5, <2>6 DEF CloseLast
<1>11. ASSUME NEW r \in Reqs, Respond(r) PROVE Counted'
  <2>1. PICK x \in {"body", "return", "user", "done"} : pc[r] = "wait" /\ pc' = [pc EXCEPT ![r] = x]
    BY <1>11 DEF Respond, Goto
  <2>2. UNCHANGED <<made, closed, node, connNum, isClosed>>
    BY <1>11 DEF Respond, engineVars, nodeVars
  <2> QED
    BY <2>1, <2>2, CountsSame
<1>12. ASSUME NEW r \in Reqs, Fail(r) PROVE Counted'
  <2>1. PICK x \in {"over", "new"} : pc[r] = "failed" /\ pc' = [pc EXCEPT ![r] = x]
    BY <1>12 DEF Fail, Goto
  <2>2. UNCHANGED <<made, node, isClosed>>
    BY <1>12 DEF Fail
  <2>3. node[r] \in Nodes /\ (closed[node[r]] \/ node[r] \in Used)
    BY <2>1, Holds DEF Holding
  <2>4. \A s \in Reqs : pc'[s] # pc[s] => /\ pc[s] \notin {"connect", "undo", "enlist", "own"}
                                         /\ pc'[s] \notin {"connect", "undo", "enlist", "own"}
    BY <1>d, <2>1
  <2>5. CASE CloseConnInUse(node[r])
    BY <2>2, <2>3, <2>4, <2>5, CountsClosed
  <2>6. CASE UNCHANGED <<connNum, closed>>
    BY <2>1, <2>2, <2>6, CountsSame
  <2> QED
    BY <1>12, <2>5, <2>6 DEF Fail
<1>13. ASSUME NEW r \in Reqs, ReadBody(r) PROVE Counted'
  <2>1. PICK x \in {"return"} : pc[r] = "body" /\ pc' = [pc EXCEPT ![r] = x]
    BY <1>13 DEF ReadBody, Goto
  <2>2. UNCHANGED <<made, closed, node, connNum, isClosed>>
    BY <1>13 DEF ReadBody, engineVars, nodeVars
  <2> QED
    BY <2>1, <2>2, CountsSame
<1>14. ASSUME NEW r \in Reqs, CloseBody(r) PROVE Counted'
  <2>1. PICK x \in {"over"} : pc[r] = "body" /\ pc' = [pc EXCEPT ![r] = x]
    BY <1>14 DEF CloseBody, Goto
  <2>2. UNCHANGED <<made, node, isClosed>>
    BY <1>14 DEF CloseBody
  <2>3. node[r] \in Nodes /\ (closed[node[r]] \/ node[r] \in Used)
    BY <2>1, Holds DEF Holding
  <2>4. \A s \in Reqs : pc'[s] # pc[s] => /\ pc[s] \notin {"connect", "undo", "enlist", "own"}
                                         /\ pc'[s] \notin {"connect", "undo", "enlist", "own"}
    BY <1>d, <2>1
  <2>5. CASE CloseConnInUse(node[r])
    BY <2>2, <2>3, <2>4, <2>5, CountsClosed
  <2>6. CASE UNCHANGED <<connNum, closed>>
    BY <2>1, <2>2, <2>6, CountsSame
  <2> QED
    BY <1>14, <2>5, <2>6 DEF CloseBody
<1>15. ASSUME NEW r \in Reqs, Upgrade(r) PROVE Counted'
  <2>1. CASE pc[r] = "user"
    <3>1. PICK x \in {"over", "extract", "return"} : pc' = [pc EXCEPT ![r] = x] /\ UNCHANGED connNum
      BY <1>15, <2>1 DEF Upgrade, Goto
    <3>2. UNCHANGED <<made, closed, node, isClosed>>
      BY <1>15 DEF Upgrade, nodeVars
    <3> QED
      BY <2>1, <3>1, <3>2, CountsSame
  <2>2. CASE /\ Goto(r, "extract", "own")
             /\ lists' = Remove(lists, "use", node[r]) /\ connNum' = connNum - 1
    <3>1. pc[r] = "extract" /\ pc' = [pc EXCEPT ![r] = "own"] /\ UNCHANGED <<made, closed, node, isClosed>>
      BY <1>15, <2>2 DEF Upgrade, Goto, nodeVars
    <3>2. Counting' = Counting /\ Joining' = Joining
      BY <1>d, <3>1 DEF Counting, Joining
    <3>3. \A s \in Reqs : pc'[s] \in {"enlist", "own"} <=> pc[s] \in {"enlist", "own"} \/ s = r
      BY <1>d, <3>1
    <3>4. Open' = Open \ {node[r]}
      BY <3>1, <3>3 DEF Open
    <3>5. node[r] \in Open \/ isClosed
      <4>1. node[r] \in 1 .. made /\ (closed[node[r]] => isClosed)
        BY <3>1 DEF ListsInv, Owned, Holding
      <4>2. \A s \in Reqs : pc[s] \in {"enlist", "own"} => node[s] # node[r]
        <5>1. \A s \in Reqs : pc[s] \in {"enlist", "own"} => s # r /\ pc[s] \in Apart
          BY <3>1 DEF Apart
        <5>2. pc[r] \in Holding
          BY <3>1 DEF Holding
        <5> QED
          BY <5>1, <5>2 DEF ListsInv, Owned
      <4> QED
        BY <4>1, <4>2 DEF Open
    <3>6. CASE node[r] \in Open
      <4>1. /\ Accounts(Counting, Joining, Open \ {node[r]})
            /\ Tally(Counting, Open \ {node[r]}) = Tally(Counting, Open) - 1
        BY <1>b, <3>6, CountsDown
      <4> QED
        BY <1>b, <2>2, <3>1, <3>2, <3>4, <4>1 DEF Counted
    <3>7. CASE isClosed
      <4>1. Accounts(Counting, Joining, Open \ {node[r]})
        BY <1>b, CountsDown
      <4> QED
        BY <2>2, <3>1, <3>2, <3>4, <3>7, <4>1 DEF Counted
    <3> QED
      BY <3>5, <3>6, <3>7
  <2> QED
    BY <1>15, <2>1, <2>2 DEF Upgrade, Goto
<1>16. ASSUME NEW r \in Reqs, ReturnConn(r) PROVE Counted'
  <2>1. PICK x \in {"put", "done"} : pc[r] = "return" /\ pc' = [pc EXCEPT ![r] = x]
    BY <1>16 DEF ReturnConn, Goto
  <2>2. UNCHANGED <<made, node, isClosed>>
    BY <1>16 DEF ReturnConn
  <2>3. node[r] \in Nodes /\ (closed[node[r]] \/ node[r] \in Used)
    BY <2>1, Holds DEF Holding
  <2>4. \A s \in Reqs : pc'[s] # pc[s] => /\ pc[s] \notin {"connect", "undo", "enlist", "own"}
                                         /\ pc'[s] \notin {"connect", "undo", "enlist", "own"}
    BY <1>d, <2>1
  <2>5. CASE CloseConnInUse(node[r])
    BY <2>2, <2>3, <2>4, <2>5, CountsClosed
  <2>6. CASE UNCHANGED <<connNum, closed>>
    BY <2>1, <2>2, <2>6, CountsSame
  <2> QED
    BY <1>16, <2>5, <2>6 DEF ReturnConn
<1>17. ASSUME NEW r \in Reqs, PutConn(r) PROVE Counted'
  <2>1. PICK x \in {"done"} : pc[r] = "put" /\ pc' = [pc EXCEPT ![r] = x]
    BY <1>17 DEF PutConn, Goto
  <2>2. UNCHANGED <<made, closed, node, connNum, isClosed>>
    BY <1>17 DEF PutConn, engineVars, nodeVars
  <2> QED
    BY <2>1, <2>2, CountsSame
<1>19. ASSUME NEW n \in Nodes, ServerCloses(n) PROVE Counted'
  BY <1>c, <1>19 DEF ServerCloses, engineVars, reqVars
<1>20. ASSUME NEW n \in Nodes, NEW a \in armed[n], TimerWins(n, a) PROVE Counted'
  BY <1>c, <1>20 DEF TimerWins, engineVars, reqVars
<1>21. ASSUME NEW w \in won, TimerCloses(w) PROVE Counted'
  <2>1. w.node \in Nodes /\ (closed[w.node] \/ w.node \in Used)
    BY DEF Types, Timely, OnTime, Late
  <2>2. CloseConnInUse(w.node) /\ UNCHANGED <<made, node, isClosed, pc>>
    BY <1>21 DEF TimerCloses, reqVars
  <2> QED
    BY <2>1, <2>2, CountsClosed
<1>22. ASSUME EngineClose PROVE Counted'
  <2>1. isClosed' = TRUE /\ UNCHANGED <<made, node, pc>>
    BY <1>22 DEF EngineClose, reqVars
  <2>2. \A n \in Nodes : closed'[n] = (closed[n] \/ n \in Pooled \cup Used)
    BY <1>22, Shuts
  <2>3. Counting' = Counting /\ Joining' = Joining /\ Open' \subseteq Open
    BY <1>a, <2>1, <2>2 DEF Counting, Joining, Open
  <2>4. Accounts(Counting, Joining, Open')
    BY <1>b, <2>3, CountsDown
  <2> QED
    BY <2>1, <2>3, <2>4 DEF Counted
<1>23. ASSUME UNCHANGED vars PROVE Counted'
  BY <1>c, <1>23 DEF vars, engineVars, nodeVars, reqVars
<1> QED
  BY <1>1, <1>2, <1>3, <1>4, <1>5, <1>6, <1>7, <1>8, <1>9, <1>10, <1>11, <1>12, <1>13, <1>14, <1>15, <1>16, <1>17,
     <1>19, <1>20, <1>21, <1>22, <1>23 DEF Next, Step

-----------------------------------------------------------------------------
(* The theorems. *)

\* Where timers fire nothing is upgraded: extractFromConnInUse hands a
\* connection over without a look at lifeState, and the task of a timer that has
\* won would close it, take it out of a list that it is not in, and count it off
\* once more.
TroublesApart == \A s \in Scenes : ~ ({"upgrade", "timeout"} \subseteq s.troubles)

EngineInv == Types /\ ListsInv /\ Plain /\ Timely /\ Counted

\* An engine begins with empty lists and nothing counted.
LEMMA InitEngine ==
  ASSUME TroublesApart, Init
  PROVE  EngineInv
<1>1. Types
  <2>1. pc \in [Reqs -> States] /\ ~ ({"upgrade", "timeout"} \subseteq troubles)
    BY DEF Init, States, TroublesApart
  <2>2. kind \in [Reqs -> {"plain", "upgrade"}]
    <3>1. CASE "upgrade" \in troubles
      BY <3>1 DEF Init
    <3>2. CASE "upgrade" \notin troubles
      BY <3>2 DEF Init
    <3> QED
      BY <3>1, <3>2
  <2>a. connNum \in Int /\ made \in 0 .. MaxNodes /\ lifeState \in [Nodes -> Nat]
    BY ClientAssumption DEF Init
  <2>3. /\ isClosed \in BOOLEAN /\ closed \in [Nodes -> BOOLEAN]
        /\ upgraded \in [Nodes -> BOOLEAN] /\ last \in [Nodes -> BOOLEAN]
    BY DEF Init
  <2>4. /\ armed \in [Nodes -> SUBSET [by : Timers, cap : Nat]] /\ won \subseteq [node : Nodes, cap : Nat]
        /\ node \in [Reqs -> Nodes \cup {0}]
        /\ resp \in [Reqs -> {"none", "empty", "body", "read", "rest", "switch"}]
    BY DEF Init
  <2> QED
    BY <2>1, <2>2, <2>a, <2>3, <2>4 DEF Types
<1>2. Wf(lists) /\ Pooled = {} /\ Used = {}
  <2>1. \A n \in Nodes : lists.prev[n] = 0 /\ lists.next[n] = 0
    BY DEF Init
  <2>2. lists.head["pool"] = 0 /\ lists.head["use"] = 0
    BY DEF Init
  <2>3. lists \in Lists
    BY DEF Init, Lists
  <2>4. \A l \in {"pool", "use"} : Walled(lists, l, {})
    BY <2>2 DEF Walled
  <2>5. \A l \in {"pool", "use"} : In(lists, l) = {}
    BY <2>3, <2>4, ListIsWalled
  <2> QED
    BY <2>1, <2>2, <2>3, <2>5 DEF Wf, Pooled, Used
<1>3. \A r \in Reqs : pc[r] \in {"get", "over"}
  BY DEF Init
<1>4. /\ \A n \in Nodes : ~ closed[n] /\ ~ upgraded[n] /\ lifeState[n] = 0 /\ armed[n] = {}
      /\ won = {} /\ made = 0 /\ connNum = 0
  BY DEF Init
<1>5. ListsInv
  <2>1. 1 .. made = {}
    BY <1>4
  <2>2. \A n \in Nodes : ~ closed[n] /\ ~ isClosed
    BY DEF Init
  <2> QED
    BY <1>2, <1>3, <2>1, <2>2 DEF ListsInv, Links, Owned, Kept, Holding, Apart
<1>6. Plain
  <2>1. "timeout" \in troubles => "upgrade" \notin troubles
    BY <1>1 DEF Types
  <2>2. "timeout" \in troubles => \A r \in Reqs : kind[r] = "plain" /\ resp[r] = "none"
    BY <2>1 DEF Init
  <2> QED
    BY <1>2, <1>3, <1>4, <2>2 DEF Plain, Singly, Taken
<1>7. Timely
  <2>1. \A n \in Nodes : Fit(n) /\ Quiet(n)
    BY <1>4 DEF Fit, Quiet
  <2> QED
    BY <1>3, <1>4, <2>1 DEF Timely, OnTime
<1>8. Counted
  <2>1. Counting = {} /\ Joining = {}
    BY <1>3 DEF Counting, Joining
  <2>2. Open = {}
    BY <1>4 DEF Open
  <2>3. IsFiniteSet({}) /\ Cardinality({}) = 0
    BY FS_EmptySet
  <2> QED
    BY <1>4, <2>1, <2>2, <2>3, ClientAssumption DEF Counted, Accounts, Tally
<1> QED
  BY <1>1, <1>5, <1>6, <1>7, <1>8 DEF EngineInv

\* The invariant is inductive.
LEMMA NextEngine ==
  ASSUME EngineInv, [Next]_vars
  PROVE  EngineInv'
BY TypesStep, ListsStep, PlainStep, TimelyStep, CountedStep DEF EngineInv

\* The invariant, for every scene in which upgrades and timers do not meet.
LEMMA Engine == TroublesApart => (Spec => []EngineInv)
<1> SUFFICES ASSUME TroublesApart PROVE Spec => []EngineInv
  OBVIOUS
<1>1. Init => EngineInv
  BY InitEngine
<1>2. EngineInv /\ [Next]_vars => EngineInv'
  BY NextEngine
<1> QED
  BY <1>1, <1>2, PTL DEF Spec

\* A timer's task that has won never meets a connection of the pool, nor one in
\* a later use than its own: it is closed already, or the request of that very
\* use still holds it.
THEOREM StaleTimers == TroublesApart => (Spec => []StaleNeverKills)
<1>1. ASSUME EngineInv PROVE StaleNeverKills
  <2>1. SUFFICES ASSUME NEW w \in won, ~ closed[w.node]
                 PROVE  /\ Holders(w.node) # {} /\ w.node \notin In(lists, "pool")
                        /\ lifeState[w.node] \div 4 = w.cap \div 4
    BY DEF StaleNeverKills
  <2>2. "timeout" \in troubles /\ Late(w)
    BY <1>1, <2>1 DEF EngineInv, Timely, OnTime
  <2>3. w.node \in Used /\ w.node \notin Pooled
    BY <1>1, <2>2, ListsOk DEF EngineInv, ListsInv, Late
  <2>4. PICK r \in Reqs : pc[r] \in Holding /\ node[r] = w.node
    BY <1>1, <2>2, <2>3 DEF EngineInv, Plain, Taken
  <2> QED
    BY <2>2, <2>3, <2>4 DEF Late, Holders, Pooled
<1> QED
  BY <1>1, Engine, PTL

\* While the engine is open the connections of its pool are open and nobody's,
\* and no two requests ever hold one connection.
THEOREM PoolIsFree == TroublesApart => (Spec => []PooledIsFree)
<1>1. ASSUME EngineInv PROVE PooledIsFree
  <2>1. \A n \in Pooled : Holders(n) = {}
    BY <1>1 DEF EngineInv, ListsInv, Owned, Holders
  <2>2. \A n \in Pooled : ~ isClosed => ~ closed[n]
    BY <1>1 DEF EngineInv, ListsInv, Kept
  <2>3. ASSUME NEW n \in Nodes PROVE Cardinality(Holders(n)) <= 1
    <3>1. CASE Holders(n) = {}
      BY <3>1, FS_EmptySet
    <3>2. CASE Holders(n) # {}
      <4>1. PICK r \in Holders(n) : TRUE
        BY <3>2
      <4>2. Holders(n) = {r}
        BY <1>1, <4>1 DEF EngineInv, ListsInv, Owned, Holders
      <4> QED
        BY <4>2, FS_Singleton
    <3> QED
      BY <3>1, <3>2
  <2> QED
    BY <2>1, <2>2, <2>3 DEF PooledIsFree, Pooled
<1> QED
  BY <1>1, Engine, PTL

\* A request's open connection is in the list that close walks and not in the
\* pool's, whoever links and unlinks nodes around it.
THEOREM HeldListed == TroublesApart => (Spec => []HeldIsListed)
<1>1. ASSUME EngineInv PROVE HeldIsListed
  BY <1>1 DEF EngineInv, ListsInv, Owned, Holders, HeldIsListed, Pooled, Used
<1> QED
  BY <1>1, Engine, PTL

\* connNum is the number of connections in the making and of open ones until the
\* engine closes, and the pool's size bounds those that get so far.
THEOREM PoolSizeBounds == TroublesApart => (Spec => []NumAccounts)
<1>1. ASSUME EngineInv PROVE NumAccounts
  <2>1. /\ ~ isClosed => connNum = Cardinality(Counting) + Cardinality(Open)
        /\ Cardinality(Joining) + Cardinality(Open) <= PoolSize
    BY <1>1 DEF EngineInv, Counted, Accounts, Tally
  <2> QED
    BY <2>1 DEF NumAccounts, Counting, Joining, Open
<1> QED
  BY <1>1, Engine, PTL

=============================================================================
