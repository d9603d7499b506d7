---------------------------- MODULE PlatformProofs ----------------------------
(* Proofs about the platform's own tables: the points of the merchants, what *)
(* it knows of an agent's presence, and the consoles it has registered.      *)
EXTENDS PointsLedger, AgentPresence, HostRegistry, FiniteSetTheorems, WellFoundedInduction, TLAPS

-----------------------------------------------------------------------------
(* PointsLedger *)

TablesTyped ==
  /\ account \in [Merchant -> Account]
  /\ entries \in [Merchant \X Ref -> Nat]
  /\ used \subseteq Card \cup Code /\ recorded \subseteq Event
RequestsTyped == req \in [Request -> {Free} \cup Serving]

\* What is served is about a thing of its kind, and at a place of its method.
Sorted(s) ==
  /\ s.kind = "card" => s.ref \in Card /\ s.at \in {"write", "add"}
  /\ s.kind = "code" => s.ref \in Code /\ s.at \in {"read", "add", "mark"}
  /\ s.kind = "deduct" => s.ref \in Key /\ s.at \in {"read", "deduct"}
  /\ s.kind = "event" => s.ref \in Event /\ s.at \in {"insert", "read", "deduct"}
  /\ s.at = "deduct" => s.seen.balance >= 1

\* A snapshot is of the past, and one whose version still stands is the account as it is.
Past(s) ==
  /\ s.seen.version <= account[s.merchant].version
  /\ s.seen.version = account[s.merchant].version => s.seen = account[s.merchant]
RequestsSorted == \A q \in Request : req[q].at # "free" => Sorted(req[q]) /\ Past(req[q])

\* A merchant that was paid for a card has a newer version than any of its requests
\* that took the card for unused.
CardsOnce ==
  \A m \in Merchant, c \in Card :
    /\ entries[<<m, c>>] \in {0, 1}
    /\ entries[<<m, c>>] = 1 =>
         /\ c \in used
         /\ \A q \in Request : req[q].at # "free" /\ req[q].ref = c /\ req[q].merchant = m =>
              req[q].seen.version < account[m].version

\* An event is charged by the one request that inserted it.
Charges(s, e) == s.at \in {"read", "deduct"} /\ s.ref = e
EventsOnce ==
  \A e \in Event :
    /\ \A q \in Request : Charges(req[q], e) => e \in recorded
    /\ \A q, p \in Request : Charges(req[q], e) /\ Charges(req[p], e) => q = p
    /\ \A m \in Merchant :
         /\ entries[<<m, e>>] \in {0, 1}
         /\ entries[<<m, e>>] = 1 => e \in recorded /\ \A q \in Request : ~Charges(req[q], e)

Booked ==
  \A m \in Merchant :
    /\ IsFiniteSet(Transactions(m, Card \cup Code)) /\ IsFiniteSet(Transactions(m, Event \cup Key))
    /\ account[m].balance = Cardinality(Transactions(m, Card \cup Code))
                          - Cardinality(Transactions(m, Event \cup Key))

LedgerInv ==
  TablesTyped /\ RequestsTyped /\ RequestsSorted /\ CardsOnce /\ EventsOnce /\ Booked

LEMMA LedgerInvInit == LedgerInit => LedgerInv
<1> SUFFICES ASSUME LedgerInit PROVE LedgerInv
  OBVIOUS
<1> USE LedgerAssumption DEF LedgerInit
<1>1. TablesTyped /\ RequestsTyped
  BY DEF TablesTyped, RequestsTyped, Account
<1>2. RequestsSorted /\ EventsOnce /\ CardsOnce
  BY DEF RequestsSorted, EventsOnce, CardsOnce, Charges, Free, Ref
<1>3. ASSUME NEW m \in Merchant, NEW R \in {Card \cup Code, Event \cup Key}
      PROVE  Transactions(m, R) = {}
  <2>1. \A r \in R : entries[<<m, r>>] = 0
    BY DEF Ref
  <2>2. \A r \in R : 1..entries[<<m, r>>] = {}
    BY <2>1
  <2>3. \A r \in R : {<<r, n>> : n \in 1..entries[<<m, r>>]} = {}
    BY <2>2
  <2> QED BY <2>3, Zenon DEF Transactions
<1>4. ASSUME NEW m \in Merchant PROVE account[m].balance = 0
  OBVIOUS
<1>5. Booked
  <2> SUFFICES ASSUME NEW m \in Merchant
               PROVE  /\ IsFiniteSet(Transactions(m, Card \cup Code))
                      /\ IsFiniteSet(Transactions(m, Event \cup Key))
                      /\ account[m].balance = Cardinality(Transactions(m, Card \cup Code))
                                            - Cardinality(Transactions(m, Event \cup Key))
    BY DEF Booked
  <2>1. Transactions(m, Card \cup Code) = {} /\ Transactions(m, Event \cup Key) = {}
    BY <1>3
  <2>2. account[m].balance = 0
    BY <1>4
  <2> QED BY ONLY <2>1, <2>2, FS_EmptySet
<1> QED BY <1>1, <1>2, <1>5 DEF LedgerInv

\* A request in service is a whole record.
LEMMA Served1 ==
  ASSUME RequestsTyped, NEW q \in Request, req[q].at # "free" PROVE req[q] \in Serving
BY DEF RequestsTyped, Free

\* The transactions that a table's rows stand for.
RowsOf(f, m, kind) == UNION {{<<r, n>> : n \in 1..f[<<m, r>>]} : r \in kind}

LEMMA TransactionsAreRows ==
  ASSUME NEW m, NEW kind
  PROVE  Transactions(m, kind) = RowsOf(entries, m, kind) /\ Transactions(m, kind)' = RowsOf(entries', m, kind)
BY DEF Transactions, RowsOf

\* A row more for a reference is a transaction more of its kind.
RowMore(f, m, r) == [f EXCEPT ![<<m, r>>] = @ + 1]

LEMMA OneRowMore ==
  ASSUME NEW f \in [Merchant \X Ref -> Nat], NEW m \in Merchant, NEW r \in Ref,
         NEW R \in SUBSET Ref, NEW l \in Merchant, IsFiniteSet(RowsOf(f, l, R))
  PROVE  /\ IsFiniteSet(RowsOf(RowMore(f, m, r), l, R))
         /\ l = m /\ r \in R => Cardinality(RowsOf(RowMore(f, m, r), l, R)) = Cardinality(RowsOf(f, l, R)) + 1
         /\ l # m \/ r \notin R => Cardinality(RowsOf(RowMore(f, m, r), l, R)) = Cardinality(RowsOf(f, l, R))
<1> DEFINE g == RowMore(f, m, r)
           n == f[<<m, r>>] + 1
           x == <<r, n>>
           old(s) == {<<s, i>> : i \in 1..f[<<l, s>>]}
           new(s) == {<<s, i>> : i \in 1..g[<<l, s>>]}
<1>0. n \in Nat /\ n \in 1..n
  OBVIOUS
<1>1. \A k \in Merchant, s \in Ref : g[<<k, s>>] = IF k = m /\ s = r THEN n ELSE f[<<k, s>>]
  BY DEF RowMore
<1>2. Cardinality(RowsOf(f, l, R)) \in Nat
  BY FS_CardinalityType
<1>3. RowsOf(f, l, R) = UNION {old(s) : s \in R} /\ RowsOf(g, l, R) = UNION {new(s) : s \in R}
  BY DEF RowsOf
<1> SUFFICES /\ IsFiniteSet(RowsOf(g, l, R))
             /\ l = m /\ r \in R => Cardinality(RowsOf(g, l, R)) = Cardinality(RowsOf(f, l, R)) + 1
             /\ l # m \/ r \notin R => Cardinality(RowsOf(g, l, R)) = Cardinality(RowsOf(f, l, R))
  OBVIOUS
<1> HIDE DEF g
<1>4. CASE l = m /\ r \in R
  <2>1. \A s \in R : s # r => new(s) = old(s)
    BY <1>1
  <2>2. 1..g[<<l, r>>] = (1..f[<<l, r>>]) \cup {n}
    BY <1>0, <1>1, <1>4
  <2>3. new(r) = old(r) \cup {x}
    BY <2>2
  <2>4. n \notin 1..f[<<l, r>>]
    BY <1>0, <1>4
  <2>5. \A s \in R : x \in old(s) => s = r /\ n \in 1..f[<<l, s>>]
    OBVIOUS
  <2>6. \A s \in R : x \notin old(s)
    BY <2>4, <2>5
  <2> HIDE DEF old, new, x
  <2>7. x \notin RowsOf(f, l, R)
    BY <2>6, <1>3
  <2>8. RowsOf(g, l, R) = RowsOf(f, l, R) \cup {x}
    BY ONLY <2>1, <2>3, <1>3, <1>4
  <2> DEFINE F == RowsOf(f, l, R)
  <2>9. IsFiniteSet(F \cup {x}) /\ Cardinality(F \cup {x}) = Cardinality(F) + 1
    <3>1. IsFiniteSet(F) /\ x \notin F
      BY <2>7
    <3> HIDE DEF F
    <3> QED BY ONLY <3>1, FS_AddElement
  <2>10. RowsOf(g, l, R) = F \cup {x}
    BY <2>8
  <2> QED BY <2>9, <2>10, <1>4
<1>5. CASE ~(l = m /\ r \in R)
  <2>1. \A s \in R : new(s) = old(s)
    BY <1>1, <1>5
  <2> HIDE DEF old, new
  <2>2. RowsOf(g, l, R) = RowsOf(f, l, R)
    BY ONLY <2>1, <1>3
  <2> QED BY <2>2, <1>2, <1>5
<1> QED BY <1>4, <1>5

\* A request that moves on without booking anything: it charges no event but what it
\* charged, or has just inserted.
LEMMA MovesOn ==
  ASSUME LedgerInv, NEW q \in Request, NEW s, req' = [req EXCEPT ![q] = s],
         s = Free \/ (s \in Serving /\ Sorted(s) /\ Past(s)),
         UNCHANGED <<account, entries>>,
         used \subseteq used', used' \subseteq Card \cup Code,
         recorded \subseteq recorded', recorded' \subseteq Event,
         \A e \in Event : Charges(s, e) => e \in recorded' /\ (e \in recorded => Charges(req[q], e)),
         s # Free /\ s.ref \in Card /\ entries[<<s.merchant, s.ref>>] = 1 =>
           s.seen.version < account[s.merchant].version
  PROVE  LedgerInv'
<1> USE DEF LedgerInv
<1>1. TablesTyped'
  BY DEF TablesTyped
<1>9. Booked'
  <2>1. \A m, kind : Transactions(m, kind)' = Transactions(m, kind)
    BY TransactionsAreRows
  <2> QED BY <2>1 DEF Booked
<1>2. \A p \in Request : req'[p] = IF p = q THEN s ELSE req[p]
  BY DEF RequestsTyped
<1>3. RequestsTyped'
  BY DEF RequestsTyped
<1>4. RequestsSorted'
  BY <1>2 DEF RequestsSorted, Sorted, Past, Free
<1>5. CardsOnce'
  <2> SUFFICES ASSUME NEW m \in Merchant, NEW c \in Card
               PROVE  /\ entries[<<m, c>>] \in {0, 1}
                      /\ entries[<<m, c>>] = 1 =>
                           /\ c \in used'
                           /\ \A p \in Request : req'[p].at # "free" /\ req'[p].ref = c /\ req'[p].merchant = m =>
                                req'[p].seen.version < account[m].version
    BY DEF CardsOnce
  <2>1. CardsOnce
    OBVIOUS
  <2> HIDE DEF LedgerInv
  <2>2. entries[<<m, c>>] \in {0, 1} /\ (entries[<<m, c>>] = 1 => c \in used')
    BY <2>1 DEF CardsOnce
  <2>3. ASSUME NEW p \in Request, entries[<<m, c>>] = 1, req'[p].at # "free", req'[p].ref = c, req'[p].merchant = m
        PROVE  req'[p].seen.version < account[m].version
    <3>1. CASE p = q
      BY <3>1, <2>3, <1>2 DEF Free
    <3>2. CASE p # q
      BY <3>2, <2>1, <2>3, <1>2 DEF CardsOnce
    <3> QED BY <3>1, <3>2
  <2> QED BY <2>2, <2>3
<1>6. EventsOnce'
  <2> SUFFICES ASSUME NEW e \in Event
               PROVE  /\ \A p \in Request : Charges(req'[p], e) => e \in recorded'
                      /\ \A p, o \in Request : Charges(req'[p], e) /\ Charges(req'[o], e) => p = o
                      /\ \A m \in Merchant :
                           /\ entries'[<<m, e>>] \in {0, 1}
                           /\ entries'[<<m, e>>] = 1 =>
                                e \in recorded' /\ \A p \in Request : ~Charges(req'[p], e)
    BY DEF EventsOnce, Charges
  <2>1. \A p \in Request : Charges(req'[p], e) => Charges(req[p], e) \/ (p = q /\ e \notin recorded)
    BY <1>2
  <2>2. \A p \in Request : Charges(req[p], e) => e \in recorded
    BY DEF EventsOnce
  <2>3. e \notin recorded => \A p \in Request : ~Charges(req[p], e) /\ \A m \in Merchant : entries[<<m, e>>] = 0
    BY <2>2 DEF EventsOnce
  <2>4. \A p \in Request : Charges(req'[p], e) => e \in recorded'
    BY <1>2, <2>2
  <2> HIDE DEF LedgerInv
  <2>5. EventsOnce
    BY DEF LedgerInv
  <2>6. CASE e \in recorded
    BY <2>1, <2>4, <2>5, <2>6 DEF EventsOnce
  <2>7. CASE e \notin recorded
    BY <2>1, <2>3, <2>4, <2>7
  <2> QED BY <2>6, <2>7
<1> QED BY <1>1, <1>3, <1>4, <1>5, <1>6, <1>9

\* A fresh request books a point: it paid for no card and charged no event before.
LEMMA BookStep ==
  ASSUME LedgerInv, NEW q \in Request, req[q].at # "free", NEW points \in {1, -1},
         Fresh(q), Books(q, points), NEW s, req' = [req EXCEPT ![q] = s],
         s = Free \/ (req[q].kind = "code" /\ s = [req[q] EXCEPT !.at = "mark"]),
         points = 1 => req[q].ref \in Card \cup Code,
         points = -1 => req[q].ref \in Event \cup Key /\ req[q].at = "deduct",
         used \subseteq used', used' \subseteq Card \cup Code, req[q].ref \in Card => req[q].ref \in used',
         UNCHANGED recorded
  PROVE  LedgerInv'
<1> DEFINE m == req[q].merchant
           r == req[q].ref
           a == account[m]
<1>0. TablesTyped /\ RequestsTyped /\ RequestsSorted /\ CardsOnce /\ EventsOnce /\ Booked
  BY DEF LedgerInv
<1>1. req[q] \in Serving /\ Sorted(req[q]) /\ m \in Merchant /\ r \in Ref
  BY <1>0, Served1 DEF RequestsSorted, Serving
<1>2. a \in Account /\ req[q].seen = a
  BY <1>0, <1>1 DEF RequestsSorted, Past, Fresh, TablesTyped
<1>3. a.balance + points \in Nat /\ a.version + 1 \in Nat
  BY <1>1, <1>2 DEF Sorted, Account
<1>4. /\ account' = [account EXCEPT ![m] = [balance |-> a.balance + points, version |-> a.version + 1]]
      /\ entries' = [entries EXCEPT ![<<m, r>>] = @ + 1]
  BY <1>2 DEF Books
<1>5. TablesTyped'
  <2>1. [balance |-> a.balance + points, version |-> a.version + 1] \in Account
    BY <1>3 DEF Account
  <2> HIDE DEF a, m, r
  <2>2. account' \in [Merchant -> Account]
    BY <2>1, <1>0, <1>4 DEF TablesTyped
  <2>3. entries' \in [Merchant \X Ref -> Nat]
    BY <1>0, <1>1, <1>4 DEF TablesTyped
  <2> QED BY <2>2, <2>3, <1>0 DEF TablesTyped
<1>6. \A p \in Request : req'[p] = IF p = q THEN s ELSE req[p]
  BY <1>0 DEF RequestsTyped
<1>7. s = Free \/ (s \in Serving /\ s.kind = "code" /\ s.at = "mark" /\ s.merchant = m /\ s.ref = r /\ s.seen = a
                   /\ r \in Code)
  BY <1>1, <1>2 DEF Serving, Sorted
<1>8. RequestsTyped'
  BY <1>0, <1>7 DEF RequestsTyped
<1>9. \A l \in Merchant : account'[l] = IF l = m THEN [balance |-> a.balance + points, version |-> a.version + 1] ELSE account[l]
  BY <1>0, <1>4 DEF TablesTyped
<1>10. \A l \in Merchant, x \in Ref : entries'[<<l, x>>] = IF l = m /\ x = r THEN entries[<<m, r>>] + 1 ELSE entries[<<l, x>>]
  BY <1>0, <1>4 DEF TablesTyped
<1> HIDE DEF a, m, r
<1>11. RequestsSorted'
  <2> SUFFICES ASSUME NEW p \in Request, req'[p].at # "free" PROVE Sorted(req[p])' /\ Past(req[p])'
    BY DEF RequestsSorted, Sorted, Past
  <2>1. CASE p = q
    <3>1. req'[p] = s /\ s # Free
      BY <2>1, <1>6 DEF Free
    <3>2. s.seen.version < account'[m].version
      BY <3>1, <1>7, <1>9, <1>2, <1>1 DEF Account
    <3>3. s.seen.version \in Nat /\ account'[m].version \in Nat
      BY <1>7, <3>1, <1>2, <1>3, <1>9, <1>1 DEF Account
    <3>4. Sorted(s)
      BY <1>7, <3>1 DEF Sorted
    <3> QED BY <3>1, <3>2, <3>3, <3>4, <1>7 DEF Past
  <2>2. CASE p # q
    <3>1. req'[p] = req[p] /\ req[p] \in Serving /\ Sorted(req[p]) /\ Past(req[p])
      BY <2>2, <1>0, <1>6, Served1 DEF RequestsSorted
    <3>2. req[p].merchant = m => req[p].seen.version < account'[m].version
      BY <3>1, <1>2, <1>9, <1>1 DEF Past, Serving, Account, m, a
    <3>3. req[p].merchant \in Merchant /\ req[p].seen.version \in Nat /\ a.version + 1 \in Nat
      BY <3>1, <1>3 DEF Serving, Account
    <3>4. CASE req[p].merchant = m
      BY <3>1, <3>2, <3>3, <3>4, <1>9 DEF Past
    <3>5. CASE req[p].merchant # m
      BY <3>1, <3>3, <3>5, <1>9 DEF Past
    <3> QED BY <3>4, <3>5
  <2> QED BY <2>1, <2>2
<1>12. CardsOnce'
  <2> SUFFICES ASSUME NEW l \in Merchant, NEW c \in Card
               PROVE  /\ entries'[<<l, c>>] \in {0, 1}
                      /\ entries'[<<l, c>>] = 1 =>
                           /\ c \in used'
                           /\ \A p \in Request : req'[p].at # "free" /\ req'[p].ref = c /\ req'[p].merchant = l =>
                                req'[p].seen.version < account'[l].version
    BY DEF CardsOnce
  <2>0. c \in Ref /\ c \notin Code
    BY LedgerAssumption DEF Ref
  <2>1. CASE l = m /\ c = r
    <3>1. entries[<<m, r>>] = 0
      BY <2>1, <1>0, <1>2, <1>1 DEF CardsOnce, m, r, a, Account
    <3>2. entries'[<<l, c>>] = 1 /\ c \in used'
      BY <3>1, <2>0, <2>1, <1>10 DEF r
    <3>3. ASSUME NEW p \in Request, req'[p].at # "free", req'[p].ref = c, req'[p].merchant = l
          PROVE  req'[p].seen.version < account'[l].version
      <4>1. p # q
        BY <3>3, <2>0, <2>1, <1>6, <1>7 DEF Free
      <4>2. req'[p] = req[p] /\ req[p] \in Serving /\ Past(req[p])
        BY <4>1, <3>3, <1>0, <1>6, Served1 DEF RequestsSorted
      <4> QED BY <4>2, <3>3, <2>1, <1>2, <1>9 DEF Past, Serving, Account, a
    <3> QED BY <3>2, <3>3
  <2>2. CASE ~(l = m /\ c = r)
    <3>1. entries'[<<l, c>>] = entries[<<l, c>>]
      BY <2>0, <2>2, <1>10
    <3>2. \A p \in Request : req'[p].at # "free" /\ req'[p].ref = c => req'[p] = req[p]
      BY <2>0, <1>6, <1>7 DEF Free
    <3>3. account[l].version <= account'[l].version /\ account[l].version \in Nat /\ account'[l].version \in Nat
      BY <1>0, <1>2, <1>9 DEF TablesTyped, Account, a
    <3>4. \A p \in Request : req'[p].at # "free" /\ req'[p].ref = c => req[p].seen.version \in Nat
      BY <3>2, <1>0, Served1 DEF Serving, Account
    <3>5. /\ entries[<<l, c>>] \in {0, 1}
          /\ entries[<<l, c>>] = 1 =>
               /\ c \in used
               /\ \A p \in Request : req[p].at # "free" /\ req[p].ref = c /\ req[p].merchant = l =>
                    req[p].seen.version < account[l].version
      BY <1>0 DEF CardsOnce
    <3> QED BY <3>1, <3>2, <3>3, <3>4, <3>5
  <2> QED BY <2>1, <2>2
<1>13. EventsOnce'
  <2> SUFFICES ASSUME NEW e \in Event
               PROVE  /\ \A p \in Request : Charges(req'[p], e) => e \in recorded
                      /\ \A p, o \in Request : Charges(req'[p], e) /\ Charges(req'[o], e) => p = o
                      /\ \A l \in Merchant :
                           /\ entries'[<<l, e>>] \in {0, 1}
                           /\ entries'[<<l, e>>] = 1 =>
                                e \in recorded /\ \A p \in Request : ~Charges(req'[p], e)
    BY DEF EventsOnce, Charges
  <2>0. e \in Ref /\ e \notin Code /\ e \notin Card
    BY LedgerAssumption DEF Ref
  <2>1. \A p \in Request : Charges(req'[p], e) => p # q /\ Charges(req[p], e)
    BY <1>6, <1>7 DEF Charges, Free
  <2>2. \A l \in Merchant :
          /\ entries'[<<l, e>>] \in {0, 1}
          /\ entries'[<<l, e>>] = 1 =>
               e \in recorded /\ \A p \in Request : ~Charges(req'[p], e)
    <3>1. CASE r = e
      <4>1. Charges(req[q], e)
        BY <3>1, <2>0 DEF Charges, r
      <4>2. e \in recorded /\ (\A p \in Request : Charges(req[p], e) => p = q) /\ \A l \in Merchant : entries[<<l, e>>] = 0
        BY <4>1, <1>0 DEF EventsOnce
      <4> QED BY <4>2, <2>0, <2>1, <1>10, <3>1
    <3>2. CASE r # e
      <4>1. \A l \in Merchant : entries'[<<l, e>>] = entries[<<l, e>>]
        BY <3>2, <2>0, <1>10
      <4> QED BY <4>1, <2>1, <1>0 DEF EventsOnce
    <3> QED BY <3>1, <3>2
  <2> QED BY <2>1, <2>2, <1>0 DEF EventsOnce
<1>14. Booked'
  <2> SUFFICES ASSUME NEW l \in Merchant
               PROVE  /\ IsFiniteSet(Transactions(l, Card \cup Code)') /\ IsFiniteSet(Transactions(l, Event \cup Key)')
                      /\ account'[l].balance = Cardinality(Transactions(l, Card \cup Code)')
                                             - Cardinality(Transactions(l, Event \cup Key)')
    BY DEF Booked
  <2> DEFINE In == Card \cup Code
             Out == Event \cup Key
             i == Cardinality(Transactions(l, In))
             o == Cardinality(Transactions(l, Out))
  <2>1. /\ IsFiniteSet(Transactions(l, In)) /\ IsFiniteSet(Transactions(l, Out))
        /\ account[l].balance = i - o
    BY <1>0 DEF Booked
  <2>2. i \in Nat /\ o \in Nat
    BY <2>1, FS_CardinalityType
  <2>3. In \in SUBSET Ref /\ Out \in SUBSET Ref /\ In \cap Out = {}
    BY LedgerAssumption DEF Ref
  <2>0. /\ entries \in [Merchant \X Ref -> Nat] /\ m \in Merchant /\ r \in Ref
        /\ entries' = [entries EXCEPT ![<<m, r>>] = @ + 1]
        /\ \A k : Transactions(l, k) = RowsOf(entries, l, k) /\ Transactions(l, k)' = RowsOf(entries', l, k)
    BY <1>0, <1>1, <1>4, TransactionsAreRows DEF TablesTyped
  <2> DEFINE more(k) == IF l = m /\ r \in k THEN 1 ELSE 0
  <2>9. ASSUME NEW k \in SUBSET Ref, IsFiniteSet(Transactions(l, k))
        PROVE  /\ IsFiniteSet(Transactions(l, k)')
               /\ Cardinality(Transactions(l, k)') = Cardinality(Transactions(l, k)) + more(k)
    <3>1. Transactions(l, k) = RowsOf(entries, l, k) /\ Transactions(l, k)' = RowsOf(entries', l, k)
      BY <2>0
    <3>2. IsFiniteSet(RowsOf(entries, l, k))
      BY <3>1, <2>9
    <3>3. /\ IsFiniteSet(RowsOf(entries', l, k))
          /\ Cardinality(RowsOf(entries', l, k)) = Cardinality(RowsOf(entries, l, k)) + more(k)
      <4> HIDE DEF more
      <4>1. entries \in [Merchant \X Ref -> Nat] /\ m \in Merchant /\ r \in Ref
        BY <2>0
      <4>2. entries' = RowMore(entries, m, r)
        BY <2>0 DEF RowMore
      <4>3. /\ IsFiniteSet(RowsOf(RowMore(entries, m, r), l, k))
            /\ l = m /\ r \in k =>
                 Cardinality(RowsOf(RowMore(entries, m, r), l, k)) = Cardinality(RowsOf(entries, l, k)) + 1
            /\ l # m \/ r \notin k =>
                 Cardinality(RowsOf(RowMore(entries, m, r), l, k)) = Cardinality(RowsOf(entries, l, k))
        <5>1. IsFiniteSet(RowsOf(RowMore(entries, m, r), l, k))
          BY ONLY <4>1, <3>2, k \in SUBSET Ref, l \in Merchant, OneRowMore
        <5>2. l = m /\ r \in k =>
                Cardinality(RowsOf(RowMore(entries, m, r), l, k)) = Cardinality(RowsOf(entries, l, k)) + 1
          BY ONLY <4>1, <3>2, k \in SUBSET Ref, l \in Merchant, OneRowMore
        <5>3. l # m \/ r \notin k =>
                Cardinality(RowsOf(RowMore(entries, m, r), l, k)) = Cardinality(RowsOf(entries, l, k))
          BY ONLY <4>1, <3>2, k \in SUBSET Ref, l \in Merchant, OneRowMore
        <5> QED BY ONLY <5>1, <5>2, <5>3
      <4>4. /\ IsFiniteSet(RowsOf(entries', l, k))
            /\ l = m /\ r \in k => Cardinality(RowsOf(entries', l, k)) = Cardinality(RowsOf(entries, l, k)) + 1
            /\ l # m \/ r \notin k => Cardinality(RowsOf(entries', l, k)) = Cardinality(RowsOf(entries, l, k))
        BY ONLY <4>2, <4>3
      <4>5. Cardinality(RowsOf(entries, l, k)) \in Nat
        BY <3>2, FS_CardinalityType
      <4> QED BY ONLY <4>4, <4>5 DEF more
    <3> QED BY <3>1, <3>3
  <2>4. IsFiniteSet(Transactions(l, In)') /\ Cardinality(Transactions(l, In)') = i + (IF l = m /\ r \in In THEN 1 ELSE 0)
    BY <2>1, <2>3, <2>9
  <2>5. IsFiniteSet(Transactions(l, Out)') /\ Cardinality(Transactions(l, Out)') = o + (IF l = m /\ r \in Out THEN 1 ELSE 0)
    BY <2>1, <2>3, <2>9
  <2>6. (points = 1 => r \in In /\ r \notin Out) /\ (points = -1 => r \in Out /\ r \notin In)
    BY <2>3 DEF r
  <2>7. account'[l].balance = account[l].balance + (IF l = m THEN points ELSE 0)
    BY <1>9, <1>1, <1>2, <1>0 DEF a, TablesTyped, Account
  <2> HIDE DEF i, o, In, Out
  <2>8. account'[l].balance = Cardinality(Transactions(l, In)') - Cardinality(Transactions(l, Out)')
    BY ONLY <2>1, <2>2, <2>4, <2>5, <2>6, <2>7, points \in {1, -1}
  <2> QED BY <2>4, <2>5, <2>8 DEF In, Out
<1> QED BY <1>5, <1>8, <1>11, <1>12, <1>13, <1>14 DEF LedgerInv

LEMMA LedgerInvStep ==
  ASSUME LedgerInv, [LedgerNext]_ledgerVars PROVE LedgerInv'
<1>0. TablesTyped /\ RequestsTyped /\ RequestsSorted /\ CardsOnce /\ EventsOnce
  BY DEF LedgerInv
<1>1. ASSUME NEW q \in Request, req[q].at # "free"
      PROVE  req[q] \in Serving /\ Sorted(req[q]) /\ Past(req[q])
  BY <1>0, <1>1, Served1 DEF RequestsSorted
<1>2. \A m \in Merchant : account[m] \in Account
  BY <1>0 DEF TablesTyped
<1>3. used \subseteq Card \cup Code /\ recorded \subseteq Event
  BY <1>0 DEF TablesTyped
\* A snapshot that is taken now.
<1>4. ASSUME NEW kind, NEW m \in Merchant, NEW r, NEW at PROVE Past(Served(kind, m, r, at))
  BY <1>2, <1>4 DEF Past, Served, Account
<1>5. ASSUME NEW q \in Request, NEW m \in Merchant, NEW c \in Card, UseCard(q, m, c) PROVE LedgerInv'
  <2> DEFINE s == Served("card", m, c, "write")
  <2>1. s \in Serving /\ Sorted(s) /\ Past(s)
    BY <1>2, <1>4 DEF Serving, Served, Sorted, Ref
  <2>2. entries[<<m, c>>] # 1
    BY <1>0, <1>5 DEF CardsOnce, UseCard
  <2>3. \A e \in Event : ~Charges(s, e)
    BY DEF Charges, Served
  <2>4. s.ref = c /\ s.merchant = m
    BY DEF Served
  <2>5. req' = [req EXCEPT ![q] = s] /\ UNCHANGED <<account, entries>> /\ used' = used /\ recorded' = recorded
    BY <1>5 DEF UseCard, DataUnchanged
  <2> HIDE DEF s
  <2> QED BY <2>1, <2>2, <2>3, <2>4, <2>5, <1>3, MovesOn
<1>6. ASSUME NEW q \in Request, MarkCard(q) PROVE LedgerInv'
  <2> DEFINE s == [req[q] EXCEPT !.at = "add"]
  <2>1. req[q] \in Serving /\ Sorted(req[q]) /\ Past(req[q]) /\ req[q].at = "write"
    BY <1>1, <1>6 DEF MarkCard
  <2>2. /\ s \in Serving /\ s.kind = req[q].kind /\ s.ref = req[q].ref /\ s.merchant = req[q].merchant
        /\ s.seen = req[q].seen /\ s.at = "add"
    BY <2>1 DEF Serving
  <2>3. Sorted(s) /\ Past(s)
    BY <2>1, <2>2 DEF Sorted, Past
  <2>4. \A e \in Event : ~Charges(s, e)
    BY <2>2 DEF Charges
  <2>5. req' = [req EXCEPT ![q] = s] /\ UNCHANGED <<account, entries>> /\ used' = used /\ recorded' = recorded
    BY <1>6 DEF MarkCard, Goes, DataUnchanged
  <2>6. s.ref \in Card /\ entries[<<s.merchant, s.ref>>] = 1 => s.seen.version < account[s.merchant].version
    BY <2>1, <2>2, <1>0 DEF CardsOnce, Serving
  <2> HIDE DEF s
  <2> QED BY <2>2, <2>3, <2>4, <2>5, <2>6, <1>3, MovesOn
\* The other ways to start.
<1>7. ASSUME NEW q \in Request, NEW r \in Ref, NEW s,
             \/ r \in Code /\ s = Served("code", Home, r, "read")
             \/ r \in Key /\ s = Served("deduct", Home, r, "read")
             \/ r \in Event /\ s = Served("event", Home, r, "insert"),
             req' = [req EXCEPT ![q] = s], DataUnchanged
      PROVE  LedgerInv'
  <2>1. Home \in Merchant
    BY LedgerAssumption
  <2>2. s \in Serving /\ Sorted(s)
    BY <2>1, <1>2, <1>7 DEF Serving, Served, Sorted, Ref
  <2>3. Past(s)
    BY <2>1, <1>4, <1>7
  <2>4. s.ref \notin Card /\ \A e \in Event : ~Charges(s, e)
    BY <1>7, LedgerAssumption DEF Served, Charges
  <2> QED BY <2>2, <2>3, <2>4, <1>3, <1>7, MovesOn DEF DataUnchanged
<1>8. ASSUME NEW q \in Request, ReadBalance(q) PROVE LedgerInv'
  <2> DEFINE m == req[q].merchant
             r == req[q].ref
  <2>1. req[q] \in Serving /\ Sorted(req[q]) /\ req[q].at = "read" /\ m \in Merchant /\ account[m] \in Account
    BY <1>1, <1>2, <1>8 DEF ReadBalance, Serving
  <2>2. PICK s : /\ req' = [req EXCEPT ![q] = s]
                 /\ \/ s = Free
                    \/ req[q].kind = "code" /\ s = Served("code", m, r, "add")
                    \/ req[q].kind # "code" /\ account[m].balance >= 1 /\ s = Served(req[q].kind, m, r, "deduct")
    BY <1>8 DEF ReadBalance
  <2>3. s = Free \/ (s \in Serving /\ Sorted(s) /\ s.ref = r /\ Past(s))
    <3>1. s # Free => s \in Serving /\ Sorted(s) /\ s.ref = r
      BY <2>1, <2>2 DEF Serving, Served, Sorted, Account
    <3>2. s # Free => Past(s)
      BY <2>1, <2>2, <1>4
    <3> QED BY <3>1, <3>2
  <2>4. \A e \in Event : Charges(s, e) => Charges(req[q], e)
    BY <2>1, <2>3 DEF Charges, Free
  <2>5. \A e \in Event : Charges(req[q], e) => e \in recorded
    BY <1>0 DEF EventsOnce
  <2>6. r \notin Card
    BY <2>1, LedgerAssumption DEF Sorted, Serving
  <2>7. UNCHANGED <<account, entries>> /\ used' = used /\ recorded' = recorded
    BY <1>8 DEF ReadBalance, DataUnchanged
  <2>8. s # Free => s.ref \notin Card
    BY <2>3, <2>6
  <2>9. \A e \in Event : Charges(s, e) => e \in recorded' /\ (e \in recorded => Charges(req[q], e))
    BY <2>4, <2>5, <2>7
  <2> HIDE DEF m, r
  <2> QED BY <2>2, <2>3, <2>7, <2>8, <2>9, <1>3, MovesOn
\* A request that ends without booking.
<1>9. ASSUME NEW q \in Request, Finish(q), UNCHANGED <<account, entries, recorded>>,
             used \subseteq used', used' \subseteq Card \cup Code
      PROVE  LedgerInv'
  <2>1. \A e \in Event : ~Charges(Free, e)
    BY DEF Charges, Free
  <2> QED BY <2>1, <1>3, <1>9, MovesOn DEF Finish
<1>10. ASSUME NEW q \in Request, PayCard(q) PROVE LedgerInv'
  <2>1. req[q].at # "free" /\ req[q].ref \in Card
    BY <1>1, <1>10 DEF PayCard, Sorted
  <2>2. CASE Fresh(q)
    <3>1. /\ Books(q, 1) /\ req' = [req EXCEPT ![q] = Free] /\ UNCHANGED recorded
          /\ used \subseteq used' /\ used' \subseteq Card \cup Code /\ req[q].ref \in used'
      BY <2>1, <2>2, <1>3, <1>10 DEF PayCard, Finish
    <3>2. req[q].ref \in Card \cup Code /\ 1 \in {1, -1} /\ 1 # -1
      BY <2>1
    <3> QED BY ONLY LedgerInv, q \in Request, <2>1, <2>2, <3>1, <3>2, BookStep
  <2>3. CASE ~Fresh(q)
    BY <2>3, <1>3, <1>9, <1>10 DEF PayCard
  <2> QED BY <2>2, <2>3
<1>11. ASSUME NEW q \in Request, PayCode(q) PROVE LedgerInv'
  <2>1. req[q].at # "free" /\ req[q].kind = "code" /\ req[q].ref \in Code /\ req[q].ref \notin Card
    BY <1>1, <1>11, LedgerAssumption DEF PayCode, Sorted
  <2>2. CASE Fresh(q)
    BY <2>1, <2>2, <1>3, <1>11, BookStep DEF PayCode, Goes
  <2>3. CASE ~Fresh(q)
    BY <2>3, <1>3, <1>9, <1>11 DEF PayCode
  <2> QED BY <2>2, <2>3
<1>12. ASSUME NEW q \in Request, MarkCode(q) PROVE LedgerInv'
  <2>1. req[q].ref \in Code
    BY <1>1, <1>12 DEF MarkCode, Sorted, Serving
  <2> QED BY <2>1, <1>3, <1>9, <1>12 DEF MarkCode
<1>13. ASSUME NEW q \in Request, InsertEvent(q) PROVE LedgerInv'
  <2>1. CASE req[q].ref \in recorded
    BY <2>1, <1>3, <1>9, <1>13 DEF InsertEvent
  <2>2. CASE req[q].ref \notin recorded
    <3> DEFINE s == [req[q] EXCEPT !.at = "read"]
    <3>1. req[q] \in Serving /\ Sorted(req[q]) /\ Past(req[q]) /\ req[q].at = "insert"
      BY <1>1, <1>13 DEF InsertEvent
    <3>2. req[q].kind = "event" /\ req[q].ref \in Event
      BY <3>1 DEF Sorted, Serving
    <3>3. /\ s \in Serving /\ s.kind = "event" /\ s.ref = req[q].ref /\ s.merchant = req[q].merchant
          /\ s.seen = req[q].seen /\ s.at = "read"
      BY <3>1, <3>2 DEF Serving
    <3>4. Sorted(s) /\ Past(s) /\ s.ref \notin Card
      BY <3>1, <3>2, <3>3, LedgerAssumption DEF Sorted, Past
    <3>5. /\ req' = [req EXCEPT ![q] = s] /\ UNCHANGED <<account, entries>> /\ used' = used
          /\ recorded' = recorded \cup {req[q].ref}
      BY <2>2, <1>13 DEF InsertEvent, Goes
    <3>6. \A e \in Event : Charges(s, e) => e \in recorded' /\ e \notin recorded
      BY <2>2, <3>3, <3>5 DEF Charges
    <3>7. recorded' \subseteq Event /\ recorded \subseteq recorded'
      BY <3>2, <3>5, <1>3
    <3> HIDE DEF s
    <3> QED BY <3>3, <3>4, <3>5, <3>6, <3>7, <1>3, MovesOn
  <2> QED BY <2>1, <2>2
<1>14. ASSUME NEW q \in Request, DeductPoints(q) PROVE LedgerInv'
  <2>1. req[q].at = "deduct" /\ req[q].ref \in Event \cup Key /\ req[q].ref \notin Card
    BY <1>1, <1>14, LedgerAssumption DEF DeductPoints, Sorted, Serving
  <2>2. CASE Fresh(q)
    <3>1. /\ Books(q, -1) /\ req' = [req EXCEPT ![q] = Free] /\ UNCHANGED recorded
          /\ used \subseteq used' /\ used' \subseteq Card \cup Code
      BY <2>2, <1>3, <1>14 DEF DeductPoints, Finish
    <3>2. req[q].at # "free" /\ -1 \in {1, -1} /\ 1 # -1
      BY <2>1
    <3> QED BY ONLY LedgerInv, q \in Request, <2>1, <2>2, <3>1, <3>2, BookStep
  <2>3. CASE ~Fresh(q)
    BY <2>3, <1>3, <1>9, <1>14 DEF DeductPoints
  <2> QED BY <2>2, <2>3
<1>15. ASSUME LedgerCrash \/ UNCHANGED ledgerVars PROVE LedgerInv'
  <2>1. UNCHANGED <<account, entries, used, recorded>>
    BY <1>15 DEF LedgerCrash, DataUnchanged, ledgerVars
  <2>2. \A q \in Request : req'[q] = Free \/ req'[q] = req[q]
    BY <1>15 DEF LedgerCrash, ledgerVars
  <2>3. TablesTyped' /\ RequestsTyped'
    <3>1. req' = [q \in Request |-> Free] \/ req' = req
      BY <1>15 DEF LedgerCrash, ledgerVars
    <3> QED BY <3>1, <2>1, <1>0 DEF TablesTyped, RequestsTyped
  <2>4. RequestsSorted' /\ CardsOnce'
    BY <2>1, <2>2, <1>0 DEF RequestsSorted, Sorted, Past, CardsOnce, Free
  <2>5. EventsOnce'
    <3>1. \A q \in Request, e \in Event : Charges(req'[q], e) => Charges(req[q], e)
      BY <2>2 DEF Charges, Free
    <3>2. EventsOnce' <=>
            \A e \in Event :
              /\ \A q \in Request : Charges(req'[q], e) => e \in recorded
              /\ \A q, p \in Request : Charges(req'[q], e) /\ Charges(req'[p], e) => q = p
              /\ \A m \in Merchant :
                   /\ entries[<<m, e>>] \in {0, 1}
                   /\ entries[<<m, e>>] = 1 => e \in recorded /\ \A q \in Request : ~Charges(req'[q], e)
      BY <2>1 DEF EventsOnce, Charges
    <3> QED BY <3>1, <3>2, <1>0 DEF EventsOnce
  <2>6. Booked'
    <3>1. \A m, kind : Transactions(m, kind)' = Transactions(m, kind)
      BY <2>1, TransactionsAreRows
    <3> QED BY <2>1, <3>1 DEF LedgerInv, Booked
  <2> QED BY <2>3, <2>4, <2>5, <2>6 DEF LedgerInv
<1>16. ASSUME NEW q \in Request, NEW k \in Code, Activate(q, k) PROVE LedgerInv'
  BY <1>7, <1>16 DEF Activate, Ref
<1>17. ASSUME NEW q \in Request, NEW k \in Key, DeductFor(q, k) PROVE LedgerInv'
  BY <1>7, <1>17 DEF DeductFor, Ref
<1>18. ASSUME NEW q \in Request, NEW e \in Event, BillEvent(q, e) PROVE LedgerInv'
  BY <1>7, <1>18 DEF BillEvent, Ref
<1> QED BY <1>5, <1>6, <1>8, <1>10, <1>11, <1>12, <1>13, <1>14, <1>15, <1>16, <1>17, <1>18 DEF LedgerNext

\* Whatever overlaps and wherever the platform stops, a balance is what its transactions
\* add up to and never negative, a merchant is paid once for a card, and an event is
\* charged once.
THEOREM BalancesAddUp == LedgerSpec => [](LedgerIsSound /\ \A m \in Merchant : account[m].balance >= 0)
<1>1. LedgerInv => LedgerIsSound /\ \A m \in Merchant : account[m].balance >= 0
  <2> SUFFICES ASSUME LedgerInv PROVE LedgerIsSound /\ \A m \in Merchant : account[m].balance >= 0
    OBVIOUS
  <2>1. AddsUp
    BY DEF LedgerInv, Booked, AddsUp
  <2>2. CardPaysAMerchantOnce /\ EventChargedOnce
    BY DEF LedgerInv, CardsOnce, EventsOnce, CardPaysAMerchantOnce, EventChargedOnce
  <2>3. \A m \in Merchant : account[m].balance >= 0
    BY DEF LedgerInv, TablesTyped, Account
  <2> QED BY <2>1, <2>2, <2>3 DEF LedgerIsSound
<1> QED BY <1>1, LedgerInvInit, LedgerInvStep, PTL DEF LedgerSpec

-----------------------------------------------------------------------------
(* AgentPresence *)

Opening == {"put", "clear", "beat"}
NoneOpening == \A s \in Sess : phase[s] \notin Opening

\* A mark is in Redis or in the map.
OneMark == IF redis THEN local = Never ELSE mark = Never
TheMark == IF redis THEN mark ELSE local

\* The one connection belongs to the session that came last.
LastIs(s) ==
  /\ phase[s] \in {"clear", "beat", "open"} => current \in {s, NoSess}
  /\ \A x \in Sess \ {s} : phase[x] \notin Opening
WiresAre ==
  \A s \in Sess : wire[s] =>
    /\ alive /\ phase[s] \in Opening \cup {"open"} /\ LastIs(s)
    /\ \A x \in Sess \ {s} : ~wire[x]

\* Until the last session of an agent that died has left its mark, that session is on its
\* way there, and no longer than it may be idle; from then on the mark grows with the
\* wait and is not taken away.
OnItsWay(s) ==
  /\ phase[s] \in Opening \cup {"open", "erring", "lost", "mark"} /\ LastIs(s)
  /\ phase[s] \in {"erring", "lost"} => current \in {s, NoSess}
  /\ phase[s] = "mark" => current = NoSess
MarkTells ==
  /\ current = NoSess /\ NoneOpening
  /\ TheMark # Never /\ TheMark <= orphaned
  /\ TheMark < Grace => orphaned <= Idle + TheMark
  /\ orphaned <= Idle + Grace
Waits(age) == orphaned <= age \/ age = OldBeat
OrphanWaits ==
  orphaned # Never =>
    /\ ~alive /\ (\A s \in Sess : ~wire[s])
    /\ \A s \in Sess :
         /\ phase[s] \in Opening => orphaned = 0
         /\ phase[s] = "open" => orphaned <= quiet
         /\ phase[s] \in {"erring", "lost", "mark"} => orphaned <= Idle
    /\ job \notin {"row", "clear"}
    /\ Waits(heard) /\ (job \in {"stale", "offline"} => Waits(held))
    /\ (\E s \in Sess : OnItsWay(s)) \/ MarkTells

GoneInv == PresenceTypeOK /\ OneMark /\ WiresAre /\ OrphanWaits

\* Once a minute has gone by with a connection, its session is open, and as long as the
\* map holds it nothing of the past can take it for lost: of the older sessions one that
\* breaks only now ends in onClose, which leaves the successor alone.
Settled ==
  steady > 0 =>
    /\ \E s \in Sess : wire[s] /\ phase[s] = "open"
    /\ IsAgentOnline =>
         /\ job = "none"
         /\ \A x \in Sess \ {current} : phase[x] \in {"none", "open", "erring", "lost"}
         /\ quiet = 0 \/ steady = 2 => shown = "online"

LEMMA PresenceTypeStep ==
  ASSUME PresenceTypeOK, [PresenceNext]_presenceVars PROVE PresenceTypeOK'
<1> DEFINE Phase == {"none", "put", "clear", "beat", "open", "erring", "lost", "mark", "row"}
<1>0. /\ Grace \in Nat /\ Timeout \in Nat /\ Idle \in Nat /\ Grace > 0 /\ Timeout > 0 /\ Idle > 0
      /\ MarkTtl = Grace + Timeout + 1 /\ OldBeat = Timeout + 1 /\ CleanedAfter = Idle + Grace + 1 /\ Never = -1
  BY PresenceAssumption DEF MarkTtl, OldBeat, CleanedAfter, Never
<1>1. /\ wire \in [Sess -> BOOLEAN] /\ quiet \in 0..Idle /\ phase \in [Sess -> Phase]
      /\ current \in Sess \cup {NoSess}
      /\ mark \in Never..MarkTtl - 1 /\ local \in Never..Grace
      /\ shown \in {"online", "reconnecting", "offline"} /\ heard \in 0..OldBeat
      /\ job \in {"none", "tasks", "row", "clear", "stale", "offline", "reassign"} /\ held \in 0..OldBeat
      /\ orphaned \in Never..CleanedAfter /\ steady \in 0..2
  BY DEF PresenceTypeOK
<1>2. alive \in BOOLEAN /\ redis \in BOOLEAN
  BY DEF PresenceTypeOK
\* The marks.
<1>3. ASSUME StoreDisconnectTime \/ RemoveDisconnectTime \/ UNCHANGED <<mark, local>>
      PROVE  mark' \in Never..MarkTtl - 1 /\ local' \in Never..Grace
  BY <1>0, <1>1, <1>3 DEF StoreDisconnectTime, RemoveDisconnectTime
<1>4. ASSUME NEW s \in Sess, NEW p \in Phase, phase' = [phase EXCEPT ![s] = p] PROVE phase' \in [Sess -> Phase]
  BY <1>1, <1>4
<1>5. CASE Tick
  <2>1. mark' \in Never..MarkTtl - 1
    BY <1>0, <1>1, <1>5 DEF Tick, Older
  <2>2. local' \in Never..Grace
    BY <1>0, <1>1, <1>5 DEF Tick, Older
  <2>3. heard' \in 0..OldBeat
    BY <1>0, <1>1, <1>5 DEF Tick, Older
  <2>4. orphaned' \in Never..CleanedAfter
    BY <1>0, <1>1, <1>5 DEF Tick, Older
  <2>5. steady' \in 0..2
    BY <1>0, <1>1, <1>5 DEF Tick, Older
  <2>6. quiet' \in 0..Idle
    BY <1>0, <1>1, <1>5 DEF Tick
  <2>7. UNCHANGED <<alive, wire, phase, current, redis, shown, job, held>>
    BY <1>5 DEF Tick
  <2> QED BY <2>1, <2>2, <2>3, <2>4, <2>5, <2>6, <2>7 DEF PresenceTypeOK
<1>6. ASSUME NEW s \in Sess, Open(s) PROVE PresenceTypeOK'
  <2>1. wire' \in [Sess -> BOOLEAN] /\ quiet' \in 0..Idle /\ steady' \in 0..2
    BY <1>0, <1>1, <1>6 DEF Open
  <2>2. phase' \in [Sess -> Phase] /\ current' \in Sess \cup {NoSess}
    BY <1>1, <1>6 DEF Open
  <2>3. UNCHANGED <<alive, redis, mark, local, shown, heard, job, held, orphaned>>
    BY <1>6 DEF Open, markVars, rowVars, jobVars
  <2> QED BY <2>1, <2>2, <2>3 DEF PresenceTypeOK
<1> DEFINE Rest == UNCHANGED <<alive, wire, quiet, redis, job, held, orphaned, steady>>
<1>7. ASSUME NEW s \in Sess, NEW p \in Phase, phase' = [phase EXCEPT ![s] = p], current' \in {current, s, NoSess}, Rest,
             StoreDisconnectTime \/ RemoveDisconnectTime \/ UNCHANGED <<mark, local>>,
             shown' \in {shown, "online", "reconnecting"}, heard' \in {heard, 0}
      PROVE  PresenceTypeOK'
  <2>1. phase' \in [Sess -> Phase] /\ current' \in Sess \cup {NoSess}
    BY <1>1, <1>4, <1>7
  <2>2. mark' \in Never..MarkTtl - 1 /\ local' \in Never..Grace
    BY <1>3, <1>7
  <2>3. shown' \in {"online", "reconnecting", "offline"} /\ heard' \in 0..OldBeat
    BY <1>0, <1>1, <1>7
  <2> HIDE DEF Phase
  <2> QED BY <2>1, <2>2, <2>3, <1>1, <1>7 DEF PresenceTypeOK, Phase
<1>8. ASSUME NEW s \in Sess, OpenPut(s) \/ OpenClear(s) \/ OpenBeat(s) \/ OnError(s) \/ OnClose(s) \/ StoreMark(s) \/ MarkRow(s)
      PROVE  PresenceTypeOK'
  <2>1. Rest
    BY <1>8 DEF OpenPut, OpenClear, OpenBeat, OnError, OnClose, StoreMark, MarkRow, markVars, rowVars, jobVars, ghosts
  <2>2. \E p \in Phase : phase' = [phase EXCEPT ![s] = p]
    BY <1>8 DEF OpenPut, OpenClear, OpenBeat, OnError, OnClose, StoreMark, MarkRow
  <2>3. current' \in {current, s, NoSess}
    BY <1>8 DEF OpenPut, OpenClear, OpenBeat, OnError, OnClose, StoreMark, MarkRow
  <2>4. StoreDisconnectTime \/ RemoveDisconnectTime \/ UNCHANGED <<mark, local>>
    BY <1>8 DEF OpenPut, OpenClear, OpenBeat, OnError, OnClose, StoreMark, MarkRow, markVars
  <2>5. shown' \in {shown, "online", "reconnecting"} /\ heard' \in {heard, 0}
    BY <1>8 DEF OpenPut, OpenClear, OpenBeat, OnError, OnClose, StoreMark, MarkRow, rowVars, UpdateHeartbeat
  <2> HIDE DEF Phase, Rest
  <2> QED BY <2>1, <2>2, <2>3, <2>4, <2>5, <1>7
<1>9. ASSUME NEW s \in Sess, NEW how \in {"lost", "erring"}, Broken(s, how) PROVE PresenceTypeOK'
  <2>1. how \in Phase
    BY <1>9
  <2> HIDE DEF Phase
  <2> QED BY <1>7, <1>9, <2>1 DEF Broken, markVars, rowVars, jobVars, ghosts
<1>10. ASSUME NEW s \in Sess, Heartbeat(s) PROVE PresenceTypeOK'
  BY <1>0, <1>10 DEF PresenceTypeOK, Heartbeat, UpdateHeartbeat, markVars, jobVars, ghosts
<1>11. ASSUME NEW s \in Sess, Unplug(s) PROVE PresenceTypeOK'
  BY <1>0, <1>11 DEF PresenceTypeOK, Unplug, markVars, rowVars, jobVars
<1>12. ASSUME FindReady \/ CleanMark PROVE PresenceTypeOK'
  <2>1. mark' \in Never..MarkTtl - 1 /\ local' \in Never..Grace
    BY <1>3, <1>12 DEF FindReady, CleanMark
  <2>2. job' \in {"none", "tasks", "row", "clear", "stale", "offline", "reassign"}
    BY <1>1, <1>12 DEF FindReady, CleanMark
  <2>3. UNCHANGED <<alive, wire, quiet, phase, current, redis, shown, heard, held, orphaned, steady>>
    BY <1>12 DEF FindReady, CleanMark, sessionVars, rowVars, ghosts
  <2> QED BY <2>1, <2>2, <2>3 DEF PresenceTypeOK
<1>13. ASSUME CleanTasks \/ CleanRow \/ FindStale \/ WriteOffline \/ Reassign \/ HttpHeartbeat \/ TellUninstall
       PROVE  PresenceTypeOK'
  <2>1. UNCHANGED <<alive, wire, quiet, phase, current, redis, mark, local, steady>>
    BY <1>13 DEF CleanTasks, CleanRow, FindStale, WriteOffline, Reassign, HttpHeartbeat, TellUninstall, JobOnly,
                 sessionVars, markVars, ghosts
  <2>2. job' \in {"none", "tasks", "row", "clear", "stale", "offline", "reassign"}
    BY <1>1, <1>13 DEF CleanTasks, CleanRow, FindStale, WriteOffline, Reassign, HttpHeartbeat, TellUninstall, jobVars
  <2>3. orphaned' \in {orphaned, Never} /\ held' \in {held, heard, 0} /\ heard' \in {heard, held, 0}
    BY <1>13 DEF CleanTasks, CleanRow, FindStale, WriteOffline, Reassign, HttpHeartbeat, TellUninstall, JobOnly,
                 rowVars, jobVars, ghosts, UpdateHeartbeat, AcceptHeartbeat
  <2>4. shown' \in {"online", "reconnecting", "offline"}
    BY <1>1, <1>13 DEF CleanTasks, CleanRow, FindStale, WriteOffline, Reassign, HttpHeartbeat, TellUninstall, rowVars,
                 UpdateHeartbeat, AcceptHeartbeat, ReportedStatus
  <2>5. orphaned' \in Never..CleanedAfter /\ held' \in 0..OldBeat /\ heard' \in 0..OldBeat
    BY <1>0, <1>1, <2>3
  <2> QED BY <2>1, <2>2, <2>4, <2>5 DEF PresenceTypeOK
<1>14. ASSUME Die \/ Quit PROVE PresenceTypeOK'
  <2>1. phase' \in [Sess -> Phase]
    BY <1>1, <1>14 DEF Die, Quit
  <2>2. alive' \in BOOLEAN /\ wire' \in [Sess -> BOOLEAN]
    BY <1>14 DEF Die, Quit, Gone
  <2>3. orphaned' \in Never..CleanedAfter /\ steady' \in 0..2
    BY <1>0, <1>14 DEF Die, Quit, Gone
  <2>4. UNCHANGED <<quiet, current, redis, mark, local, shown, heard, job, held>>
    BY <1>14 DEF Die, Quit, Gone, markVars, rowVars, jobVars
  <2> QED BY <2>1, <2>2, <2>3, <2>4 DEF PresenceTypeOK
<1>15. ASSUME Return PROVE PresenceTypeOK'
  <2>1. alive' \in BOOLEAN /\ orphaned' \in Never..CleanedAfter
    BY <1>0, <1>15 DEF Return
  <2>2. shown' \in {"online", "reconnecting", "offline"} /\ heard' \in 0..OldBeat
    BY <1>0, <1>1, <1>15 DEF Return, AcceptHeartbeat, UpdateHeartbeat, ReportedStatus, rowVars
  <2>3. UNCHANGED <<wire, quiet, phase, current, redis, mark, local, job, held, steady>>
    BY <1>15 DEF Return, sessionVars, markVars, jobVars
  <2> QED BY <2>1, <2>2, <2>3 DEF PresenceTypeOK
<1>16. ASSUME PlatformRestarts PROVE PresenceTypeOK'
  <2>1. wire' \in [Sess -> BOOLEAN] /\ phase' \in [Sess -> Phase] /\ current' \in Sess \cup {NoSess}
    BY <1>16 DEF PlatformRestarts
  <2>2. quiet' \in 0..Idle /\ local' \in Never..Grace /\ held' \in 0..OldBeat /\ orphaned' \in Never..CleanedAfter /\ steady' \in 0..2
    BY <1>0, <1>16 DEF PlatformRestarts
  <2>3. job' = "none" /\ UNCHANGED <<alive, mark, redis, shown, heard>>
    BY <1>16 DEF PlatformRestarts, rowVars
  <2> QED BY <2>1, <2>2, <2>3 DEF PresenceTypeOK
<1>17. ASSUME UNCHANGED presenceVars PROVE PresenceTypeOK'
  BY <1>17 DEF PresenceTypeOK, presenceVars, markVars, rowVars, jobVars, ghosts, sessionVars
<1> QED BY <1>5, <1>6, <1>8, <1>9, <1>10, <1>11, <1>12, <1>13, <1>14, <1>15, <1>16, <1>17 DEF PresenceNext

LEMMA OneMarkStep ==
  ASSUME PresenceTypeOK, OneMark, [PresenceNext]_presenceVars PROVE OneMark'
<1>0. UNCHANGED redis
  BY DEF PresenceNext, presenceVars, markVars, Open, OpenPut, OpenClear, OpenBeat, Heartbeat, Broken, OnError, OnClose,
         StoreMark, MarkRow, Unplug, FindReady, CleanTasks, CleanRow, CleanMark, FindStale, WriteOffline, Reassign,
         HttpHeartbeat, Die, Quit, Gone, Return, TellUninstall, PlatformRestarts, Tick, JobOnly
<1>1. StoreDisconnectTime \/ RemoveDisconnectTime \/ UNCHANGED <<mark, local>> \/ PlatformRestarts \/ Tick
  BY DEF PresenceNext, presenceVars, markVars, Open, OpenPut, OpenClear, OpenBeat, Heartbeat, Broken, OnError, OnClose,
         StoreMark, MarkRow, Unplug, FindReady, CleanTasks, CleanRow, CleanMark, FindStale, WriteOffline, Reassign,
         HttpHeartbeat, Die, Quit, Gone, Return, TellUninstall, JobOnly
<1>2. CASE redis
  <2>1. local' = Never
    BY <1>1, <1>2 DEF OneMark, StoreDisconnectTime, RemoveDisconnectTime, PlatformRestarts, Tick, Older
  <2> QED BY <1>0, <1>2, <2>1 DEF OneMark
<1>3. CASE ~redis
  <2>1. mark' = Never
    BY <1>1, <1>3, PresenceAssumption
       DEF OneMark, StoreDisconnectTime, RemoveDisconnectTime, PlatformRestarts, Tick, Older, Never, MarkTtl
  <2> QED BY <1>0, <1>3, <2>1 DEF OneMark
<1> QED BY <1>2, <1>3

LEMMA WiresStep ==
  ASSUME PresenceTypeOK, WiresAre, [PresenceNext]_presenceVars PROVE WiresAre'
<1>0. wire \in [Sess -> BOOLEAN] /\ phase \in [Sess -> {"none", "put", "clear", "beat", "open", "erring", "lost", "mark", "row"}]
  BY DEF PresenceTypeOK
<1> SUFFICES ASSUME NEW z \in Sess, wire'[z]
             PROVE  /\ alive' /\ phase'[z] \in Opening \cup {"open"} /\ \A x \in Sess \ {z} : ~wire'[x]
                    /\ phase'[z] \in {"clear", "beat", "open"} => current' \in {z, NoSess}
                    /\ \A x \in Sess \ {z} : phase'[x] \notin Opening
  BY DEF WiresAre, LastIs
<1>1. wire[z] => /\ alive /\ phase[z] \in Opening \cup {"open"} /\ \A x \in Sess \ {z} : ~wire[x]
                 /\ phase[z] \in {"clear", "beat", "open"} => current \in {z, NoSess}
                 /\ \A x \in Sess \ {z} : phase[x] \notin Opening
  BY DEF WiresAre, LastIs
<1>2. ASSUME NEW s \in Sess, Open(s) PROVE WiresAre'
  <2>2. \A x \in Sess \ {s} : phase'[x] \notin Opening
    BY <1>0, <1>2 DEF Open, Opening
  <2>3. alive' /\ phase'[s] = "put"
    BY <1>0, <1>2 DEF Open, IsAgentOnline, IsOpen
  <2>4. \A x \in Sess \ {s} : ~wire'[x]
    BY <1>0, <1>2 DEF Open
  <2>5. \A x \in Sess : wire'[x] => x = s
    BY <1>0, <1>2 DEF Open
  <2> QED BY <2>2, <2>3, <2>4, <2>5 DEF WiresAre, LastIs, Opening
<1>3. ASSUME NEW s \in Sess, OpenPut(s) \/ OpenClear(s) \/ OpenBeat(s) PROVE WiresAre'
  BY <1>0, <1>3 DEF OpenPut, OpenClear, OpenBeat, WiresAre, LastIs, Opening
<1>4. ASSUME NEW s \in Sess, OnError(s) \/ OnClose(s) \/ StoreMark(s) \/ MarkRow(s) \/ (\E how \in {"lost", "erring"} : Broken(s, how))
      PROVE  WiresAre'
  BY <1>0, <1>4 DEF OnError, OnClose, StoreMark, MarkRow, Broken, WiresAre, LastIs, Opening
<1>5. ASSUME NEW s \in Sess, Unplug(s) PROVE WiresAre'
  BY <1>0, <1>5 DEF Unplug, WiresAre, LastIs, Opening
<1>6. ASSUME UNCHANGED <<alive, wire, phase, current>> PROVE WiresAre'
  BY <1>6 DEF WiresAre, LastIs
<1>7. ASSUME Die \/ Quit \/ PlatformRestarts PROVE FALSE
  BY <1>7 DEF Die, Quit, Gone, PlatformRestarts
<1>8. CASE Return
  BY <1>1, <1>8 DEF Return, sessionVars
<1> HIDE DEF WiresAre
<1>9. ASSUME NEW s \in Sess, Heartbeat(s) PROVE WiresAre'
  BY <1>6, <1>9 DEF Heartbeat
<1>10. ASSUME FindReady \/ CleanTasks \/ CleanRow \/ CleanMark \/ FindStale \/ WriteOffline \/ Reassign
              \/ HttpHeartbeat \/ TellUninstall \/ Tick \/ UNCHANGED presenceVars
       PROVE  WiresAre'
  BY <1>6, <1>10 DEF FindReady, CleanTasks, CleanRow, CleanMark, FindStale, WriteOffline, Reassign,
         HttpHeartbeat, TellUninstall, Tick, presenceVars, sessionVars, JobOnly
<1>11. WiresAre' => /\ alive' /\ phase'[z] \in Opening \cup {"open"} /\ \A x \in Sess \ {z} : ~wire'[x]
                    /\ phase'[z] \in {"clear", "beat", "open"} => current' \in {z, NoSess}
                    /\ \A x \in Sess \ {z} : phase'[x] \notin Opening
  BY DEF WiresAre, LastIs, Opening
<1> QED BY <1>2, <1>3, <1>4, <1>5, <1>7, <1>8, <1>9, <1>10, <1>11 DEF PresenceNext

\* The parts of OrphanWaits.
NobodyThere == ~alive /\ \A s \in Sess : ~wire[s]
InTime ==
  \A s \in Sess :
    /\ phase[s] \in Opening => orphaned = 0
    /\ phase[s] = "open" => orphaned <= quiet
    /\ phase[s] \in {"erring", "lost", "mark"} => orphaned <= Idle
BeatsWait == Waits(heard) /\ (job \in {"stale", "offline"} => Waits(held))
Reported == (\E s \in Sess : OnItsWay(s)) \/ MarkTells

LEMMA OrphanParts ==
  OrphanWaits <=> (orphaned # Never => NobodyThere /\ InTime /\ job \notin {"row", "clear"} /\ BeatsWait /\ Reported)
BY DEF OrphanWaits, NobodyThere, InTime, BeatsWait, Reported

LEMMA OrphanStep ==
  ASSUME GoneInv, OneMark', [PresenceNext]_presenceVars, Timeout <= Idle + Grace PROVE OrphanWaits'
<1> DEFINE Phase == {"none", "put", "clear", "beat", "open", "erring", "lost", "mark", "row"}
<1>0. /\ Grace \in Nat /\ Timeout \in Nat /\ Idle \in Nat /\ Grace > 0 /\ Timeout > 0 /\ Idle > 0
      /\ MarkTtl = Grace + Timeout + 1 /\ OldBeat = Timeout + 1 /\ CleanedAfter = Idle + Grace + 1 /\ Never = -1
      /\ NoSess \notin Sess
  BY PresenceAssumption DEF MarkTtl, OldBeat, CleanedAfter, Never
<1>1. /\ wire \in [Sess -> BOOLEAN] /\ quiet \in 0..Idle /\ phase \in [Sess -> Phase]
      /\ mark \in Never..MarkTtl - 1 /\ local \in Never..Grace
      /\ heard \in 0..OldBeat /\ held \in 0..OldBeat
      /\ orphaned \in Never..CleanedAfter
  BY DEF GoneInv, PresenceTypeOK
<1> SUFFICES ASSUME orphaned' # Never
             PROVE  NobodyThere' /\ InTime' /\ job' \notin {"row", "clear"} /\ BeatsWait' /\ Reported'
  BY OrphanParts DEF OrphanWaits, NobodyThere, InTime, BeatsWait, Reported
<1>2. OneMark /\ WiresAre
  BY DEF GoneInv
<1>3. orphaned # Never => NobodyThere /\ InTime /\ job \notin {"row", "clear"} /\ BeatsWait /\ Reported
  BY OrphanParts DEF GoneInv
\* It dies now.
<1>4. ASSUME Die \/ Quit PROVE NobodyThere' /\ InTime' /\ job' \notin {"row", "clear"} /\ BeatsWait' /\ Reported'
  <2>1. PICK z \in Sess : wire[z]
    BY <1>4 DEF Die, Quit, Gone
  <2>2. orphaned' = 0 /\ job' = job /\ job \notin {"tasks", "row", "clear"} /\ UNCHANGED <<quiet, current, heard, held>>
    BY <1>4 DEF Die, Quit, Gone, rowVars, jobVars
  <2>3. NobodyThere'
    BY <1>4 DEF Die, Quit, Gone, NobodyThere
  <2>4. InTime' /\ BeatsWait'
    BY <2>2, <1>0, <1>1 DEF InTime, BeatsWait, Waits
  <2>5. phase[z] \in Opening \cup {"open"} /\ LastIs(z) /\ \A x \in Sess \ {z} : ~wire[x]
    BY <2>1, <1>2 DEF WiresAre
  <2>6. \A x \in Sess \ {z} : phase'[x] = phase[x]
    BY <2>5, <1>1, <1>4 DEF Die, Quit
  <2>7. phase'[z] = phase[z] \/ (phase[z] = "open" /\ phase'[z] = "lost")
    BY <1>1, <1>4 DEF Die, Quit
  <2>8. OnItsWay(z)'
    BY <2>2, <2>5, <2>6, <2>7 DEF OnItsWay, LastIs, Opening
  <2> QED BY <2>2, <2>3, <2>4, <2>8 DEF Reported
<1>5. ASSUME \/ Return \/ PlatformRestarts \/ CleanTasks \/ CleanRow \/ CleanMark \/ HttpHeartbeat
             \/ \E s \in Sess : Open(s) \/ Heartbeat(s) \/ Unplug(s)
      PROVE  FALSE
  <2>1. CASE Return \/ PlatformRestarts \/ CleanTasks
    BY <2>1 DEF Return, PlatformRestarts, CleanTasks
  <2>2. CASE CleanRow \/ CleanMark \/ HttpHeartbeat
    BY <2>2, <1>3 DEF CleanRow, CleanMark, HttpHeartbeat, JobOnly, ghosts, NobodyThere
  <2>3. CASE \E s \in Sess : Open(s) \/ Heartbeat(s) \/ Unplug(s)
    BY <2>3, <1>3 DEF Open, Heartbeat, Unplug, ghosts, NobodyThere
  <2> QED BY <1>5, <2>1, <2>2, <2>3
<1>6. CASE Tick
  <2>1. UNCHANGED <<alive, wire, phase, current, redis, job, held>> /\ job = "none"
    BY <1>6 DEF Tick
  <2>2. orphaned # Never /\ orphaned' = Older(orphaned, CleanedAfter)
    BY <1>6 DEF Tick, Older
  <2>3. NobodyThere /\ InTime /\ BeatsWait /\ Reported
    BY <1>3, <2>2
  <2>4. orphaned \in Nat /\ (orphaned < CleanedAfter => orphaned' = orphaned + 1)
    BY <2>2, <1>0, <1>1 DEF Older
  <2>5. (\A s \in Sess : phase[s] \in {"none", "open"}) /\ ((\E s \in Sess : phase[s] = "open") => quiet < Idle /\ quiet' = quiet + 1)
    BY <1>6 DEF Tick
  <2>6. NobodyThere'
    BY <2>1, <2>3 DEF NobodyThere
  <2>7. ASSUME orphaned < CleanedAfter PROVE InTime'
    <3> SUFFICES ASSUME NEW s \in Sess PROVE phase[s] = "open" => orphaned' <= quiet'
      BY <2>1, <2>5 DEF InTime, Opening
    <3> QED BY <2>3, <2>4, <2>5, <2>7, <1>1, <1>0 DEF InTime
  <2>8. ASSUME orphaned < CleanedAfter PROVE BeatsWait'
    <3>1. Waits(heard)
      BY <2>3 DEF BeatsWait
    <3>2. heard' = Older(heard, OldBeat)
      BY <1>6 DEF Tick
    <3>3. Waits(heard)'
      BY <3>1, <3>2, <2>4, <2>8, <1>0, <1>1 DEF Waits, Older
    <3> QED BY <3>3, <2>1 DEF BeatsWait
  <2>9. ASSUME NEW s \in Sess, OnItsWay(s) PROVE orphaned < CleanedAfter /\ OnItsWay(s)'
    <3>1. phase[s] = "open"
      BY <2>5, <2>9 DEF OnItsWay, Opening
    <3>2. orphaned <= quiet /\ quiet < Idle
      BY <3>1, <2>3, <2>5 DEF InTime
    <3>3. OnItsWay(s)'
      BY <2>1, <2>9 DEF OnItsWay, LastIs
    <3> QED BY <3>2, <3>3, <2>4, <1>0, <1>1
  <2>10. ASSUME MarkTells PROVE orphaned < CleanedAfter /\ MarkTells'
    <3>1. current = NoSess /\ NoneOpening /\ TheMark # Never /\ TheMark <= orphaned /\ (TheMark < Grace => orphaned <= Idle + TheMark)
          /\ orphaned <= Idle + Grace
      BY <2>10 DEF MarkTells
    <3>2. TheMark \in Nat
      BY <3>1, <1>0, <1>1 DEF TheMark
    <3>3. Listed /\ DisconnectTime = TheMark
      BY <3>1, <1>2 DEF Listed, DisconnectTime, TheMark, OneMark
    <3>4. TheMark >= Grace => ~(heard >= Timeout)
      BY <3>3, <1>6 DEF Tick, Due
    <3>5. TheMark >= Grace => orphaned <= heard /\ heard < Timeout
      BY <3>4, <2>3, <1>0, <1>1 DEF BeatsWait, Waits
    <3>6. orphaned < CleanedAfter /\ orphaned' = orphaned + 1
      BY <3>1, <2>4, <1>0
    <3>7. TheMark' = TheMark + 1 \/ (TheMark = Grace /\ TheMark' = Grace)
      <4>1. CASE redis
        <5>1. mark + 1 # MarkTtl
          BY <4>1, <3>1, <3>2, <3>5, <2>4, <1>0, <1>1 DEF TheMark
        <5>2. mark' = mark + 1
          BY <4>1, <5>1, <3>1, <1>0, <1>1, <1>6 DEF Tick, Older, TheMark
        <5> QED BY <4>1, <5>2, <2>1 DEF TheMark
      <4>2. CASE ~redis
        <5>1. local' = local + 1 \/ (local = Grace /\ local' = Grace)
          BY <4>2, <3>1, <1>0, <1>1, <1>6 DEF Tick, Older, TheMark
        <5> QED BY <4>2, <5>1, <2>1 DEF TheMark
      <4> QED BY <4>1, <4>2
    <3>8. current' = NoSess /\ NoneOpening'
      BY <3>1, <2>1 DEF NoneOpening
    <3> DEFINE M == TheMark
               N == TheMark'
    <3>9. /\ N # Never /\ N <= orphaned' /\ (N < Grace => orphaned' <= Idle + N) /\ orphaned' <= Idle + Grace
      <4>1. M \in Nat /\ M <= orphaned /\ (M < Grace => orphaned <= Idle + M) /\ orphaned <= Idle + Grace
        BY <3>1, <3>2
      <4>2. (M >= Grace => orphaned <= heard /\ heard < Timeout) /\ (N = M + 1 \/ (M = Grace /\ N = Grace))
        BY <3>5, <3>7
      <4> HIDE DEF M, N
      <4> QED BY ONLY <4>1, <4>2, <3>6, <2>4, <1>0, <1>1, Timeout <= Idle + Grace
    <3> QED BY <3>6, <3>8, <3>9 DEF MarkTells
  <2>11. orphaned < CleanedAfter /\ Reported'
    BY <2>3, <2>9, <2>10 DEF Reported
  <2> QED BY <2>1, <2>6, <2>7, <2>8, <2>11
<1> DEFINE Callback == UNCHANGED <<alive, wire, quiet, redis, job, held, orphaned>>
<1>7. ASSUME NEW s \in Sess, OpenPut(s) \/ OpenClear(s) \/ OpenBeat(s) \/ OnError(s) \/ OnClose(s) \/ StoreMark(s)
             \/ MarkRow(s) \/ \E how \in {"lost", "erring"} : Broken(s, how)
      PROVE  NobodyThere' /\ InTime' /\ job' \notin {"row", "clear"} /\ BeatsWait' /\ Reported'
  <2>1. Callback
    BY <1>7 DEF OpenPut, OpenClear, OpenBeat, OnError, OnClose, StoreMark, MarkRow, Broken, markVars, rowVars, jobVars, ghosts
  <2>2. NobodyThere /\ InTime /\ job \notin {"row", "clear"} /\ BeatsWait /\ Reported /\ orphaned \in Nat
    BY <1>0, <1>1, <1>3, <2>1
  <2>3. NobodyThere' /\ job' \notin {"row", "clear"}
    BY <2>1, <2>2 DEF NobodyThere
  <2>4. InTime'
    <3> SUFFICES ASSUME NEW x \in Sess
                 PROVE  /\ phase'[x] \in Opening => orphaned = 0
                        /\ phase'[x] = "open" => orphaned <= quiet
                        /\ phase'[x] \in {"erring", "lost", "mark"} => orphaned <= Idle
      BY <2>1 DEF InTime
    <3>1. /\ phase[x] \in Opening => orphaned = 0
          /\ phase[x] = "open" => orphaned <= quiet
          /\ phase[x] \in {"erring", "lost", "mark"} => orphaned <= Idle
      BY <2>2 DEF InTime
    <3>2. \/ phase'[x] = phase[x]
          \/ phase[x] \in Opening /\ phase'[x] \in Opening \cup {"open"}
          \/ phase[x] \in {"open", "erring", "lost", "mark", "row"} /\ phase'[x] \in {"erring", "lost", "mark", "row", "none"}
             /\ (phase[x] \in {"mark", "row"} => phase'[x] \in {"row", "none"})
      BY <1>1, <1>7 DEF OpenPut, OpenClear, OpenBeat, OnError, OnClose, StoreMark, MarkRow, Broken, Opening
    <3> QED BY <3>1, <3>2, <2>2, <1>0, <1>1 DEF Opening
  <2>5. BeatsWait'
    <3>1. heard' = heard \/ (phase[s] \in Opening /\ heard' = 0)
      BY <1>7 DEF OpenPut, OpenClear, OpenBeat, OnError, OnClose, StoreMark, MarkRow, Broken, rowVars, UpdateHeartbeat, Opening
    <3>2. phase[s] \in Opening => orphaned = 0
      BY <2>2 DEF InTime
    <3> QED BY <2>1, <2>2, <3>1, <3>2 DEF BeatsWait, Waits
  <2>6. \A x \in Sess \ {s} : phase'[x] = phase[x]
    BY <1>1, <1>7 DEF OpenPut, OpenClear, OpenBeat, OnError, OnClose, StoreMark, MarkRow, Broken
  <2>7. StoreMark(s) => TheMark' = 0
    BY <2>1, <1>2 DEF StoreMark, StoreDisconnectTime, TheMark
  <2>8. ASSUME NEW l \in Sess, OnItsWay(l) PROVE Reported'
    <3>1. CASE l = s
      <4>1. CASE StoreMark(s)
        <5>1. current' = NoSess /\ orphaned <= Idle /\ NoneOpening'
          BY <3>1, <4>1, <2>2, <2>6, <2>8, <1>1 DEF StoreMark, OnItsWay, LastIs, InTime, NoneOpening, Opening
        <5> QED BY <5>1, <2>1, <2>2, <2>7, <4>1, <1>0 DEF MarkTells, Reported
      <4>2. CASE ~StoreMark(s)
        <5>1. \A x \in Sess \ {s} : phase'[x] \notin Opening
          BY <2>6, <2>8, <3>1 DEF OnItsWay, LastIs
        <5>2. CASE OpenPut(s) \/ OpenClear(s) \/ OpenBeat(s)
          BY <5>1, <5>2, <2>8, <3>1, <1>1 DEF OpenPut, OpenClear, OpenBeat, OnItsWay, LastIs, Opening, Reported
        <5>3. CASE OnError(s) \/ OnClose(s) \/ \E how \in {"lost", "erring"} : Broken(s, how)
          BY <5>1, <5>3, <2>8, <3>1, <1>1 DEF OnError, OnClose, Broken, OnItsWay, LastIs, Opening, Reported
        <5>4. CASE MarkRow(s)
          BY <5>4, <2>8, <3>1 DEF MarkRow, OnItsWay, Opening
        <5> QED BY <4>2, <5>2, <5>3, <5>4, <1>7
      <4> QED BY <4>1, <4>2
    <3>2. CASE l # s
      <4>1. phase[s] \notin Opening /\ phase'[l] = phase[l]
        BY <3>2, <2>6, <2>8 DEF OnItsWay, LastIs
      <4>2. current' \in {current, NoSess} /\ phase'[s] \notin Opening
        BY <4>1, <1>1, <1>7 DEF OpenPut, OpenClear, OpenBeat, OnError, OnClose, StoreMark, MarkRow, Broken, Opening
      <4> QED BY <4>1, <4>2, <2>6, <2>8 DEF OnItsWay, LastIs, Reported
    <3> QED BY <3>1, <3>2
  <2>9. ASSUME MarkTells PROVE Reported'
    <3>1. /\ current = NoSess /\ NoneOpening /\ TheMark # Never /\ TheMark <= orphaned /\ (TheMark < Grace => orphaned <= Idle + TheMark)
          /\ orphaned <= Idle + Grace
      BY <2>9 DEF MarkTells
    <3>2. current' = NoSess /\ NoneOpening'
      BY <3>1, <2>6, <1>1, <1>7
         DEF OpenPut, OpenClear, OpenBeat, OnError, OnClose, StoreMark, MarkRow, Broken, Opening, NoneOpening
    <3>3. CASE StoreMark(s)
      <4>1. orphaned <= Idle
        BY <3>3, <2>2 DEF StoreMark, InTime
      <4> QED BY <3>2, <4>1, <2>1, <2>2, <2>7, <3>3, <1>0 DEF MarkTells, Reported
    <3>4. CASE ~StoreMark(s)
      <4>1. TheMark' = TheMark
        BY <3>1, <3>4, <1>7, <2>1 DEF OpenPut, OpenClear, OpenBeat, OnError, OnClose, MarkRow, Broken, markVars, NoneOpening, Opening, TheMark
      <4> QED BY <3>1, <3>2, <4>1, <2>1 DEF MarkTells, Reported
    <3> QED BY <3>3, <3>4
  <2> QED BY <2>2, <2>3, <2>4, <2>5, <2>8, <2>9 DEF Reported
<1>8. ASSUME FindReady \/ FindStale \/ WriteOffline \/ Reassign \/ TellUninstall \/ UNCHANGED presenceVars
      PROVE  NobodyThere' /\ InTime' /\ job' \notin {"row", "clear"} /\ BeatsWait' /\ Reported'
  <2>1. UNCHANGED <<alive, wire, phase, quiet, current, redis, orphaned>>
    BY <1>8 DEF FindReady, FindStale, WriteOffline, Reassign, TellUninstall, presenceVars, JobOnly, sessionVars, markVars, ghosts
  <2>2. NobodyThere /\ InTime /\ job \notin {"row", "clear"} /\ BeatsWait /\ Reported
    BY <1>3, <2>1
  <2>3. NobodyThere' /\ InTime'
    BY <2>1, <2>2 DEF NobodyThere, InTime
  <2>4. job' \notin {"row", "clear"} /\ BeatsWait'
    BY <2>1, <2>2, <1>8 DEF FindReady, FindStale, WriteOffline, Reassign, TellUninstall, presenceVars, JobOnly, rowVars, jobVars,
                            BeatsWait, Waits
  <2>5. ASSUME NEW l \in Sess, OnItsWay(l) PROVE Reported'
    BY <2>1, <2>5 DEF OnItsWay, LastIs, Reported
  <2>6. ASSUME MarkTells PROVE Reported'
    <3>1. UNCHANGED <<mark, local>>
      BY <2>6, <1>8 DEF FindReady, FindStale, WriteOffline, Reassign, TellUninstall, presenceVars, JobOnly, markVars,
                        MarkTells, IsAgentOnline, IsOpen
    <3>2. TheMark' = TheMark
      BY <3>1, <2>1 DEF TheMark
    <3> QED BY <3>2, <2>1, <2>6 DEF MarkTells, NoneOpening, Reported
  <2> QED BY <2>2, <2>3, <2>4, <2>5, <2>6 DEF Reported
<1> QED BY <1>4, <1>5, <1>6, <1>7, <1>8 DEF PresenceNext

\* The session that has lasted, the map holding it or not.
Lasts(s) == wire[s] /\ phase[s] = "open"
Undisturbed == /\ job = "none"
               /\ \A x \in Sess \ {current} : phase[x] \in {"none", "open", "erring", "lost"}
               /\ quiet = 0 \/ steady = 2 => shown = "online"

LEMMA SettledStep ==
  ASSUME PresenceTypeOK, WiresAre, Settled, [PresenceNext]_presenceVars PROVE Settled'
<1>1. /\ NoSess \notin Sess /\ Idle \in Nat /\ Idle > 0
      /\ phase \in [Sess -> {"none", "put", "clear", "beat", "open", "erring", "lost", "mark", "row"}]
      /\ wire \in [Sess -> BOOLEAN] /\ quiet \in 0..Idle /\ steady \in 0..2
      /\ current \in Sess \cup {NoSess}
  BY PresenceAssumption DEF PresenceTypeOK
<1> SUFFICES ASSUME steady' > 0
             PROVE  (\E s \in Sess : Lasts(s)') /\ (IsAgentOnline' => Undisturbed')
  BY DEF Settled, Lasts, Undisturbed
<1>2. steady > 0 => (\E s \in Sess : Lasts(s)) /\ (IsAgentOnline => Undisturbed)
  BY DEF Settled, Lasts, Undisturbed
<1>3. ASSUME \/ Die \/ Quit \/ PlatformRestarts \/ \E s \in Sess : Open(s) \/ Unplug(s)
      PROVE  FALSE
  BY <1>3 DEF Die, Quit, Gone, PlatformRestarts, Open, Unplug
<1>4. CASE Tick
  <2>1. PICK s \in Sess : wire[s]
    BY <1>4 DEF Tick
  <2>2. phase[s] = "open" /\ quiet = 0 /\ job = "none" /\ (\A x \in Sess : phase[x] \in {"none", "open"})
    BY <2>1, <1>4 DEF Tick
  <2>3. UNCHANGED <<wire, phase, current, job, shown>> /\ quiet' = quiet + 1 /\ steady' = Older(steady, 2)
    BY <2>1, <2>2, <1>4 DEF Tick
  <2>4. quiet' = 1 /\ (steady' = 2 => steady > 0)
    BY <2>2, <2>3, <1>1 DEF Older, Never
  <2>5. Lasts(s)'
    BY <2>1, <2>2, <2>3 DEF Lasts
  <2>6. IsAgentOnline' => IsAgentOnline
    BY <2>3 DEF IsAgentOnline, IsOpen
  <2>7. ASSUME IsAgentOnline' PROVE Undisturbed'
    <3>1. steady' = 2 => shown' = "online"
      BY <2>2, <2>3, <2>4, <2>6, <2>7, <1>2 DEF Undisturbed
    <3> QED BY <2>2, <2>3, <2>4, <3>1 DEF Undisturbed
  <2> QED BY <2>5, <2>7
<1>5. CASE ~Tick /\ steady' = steady
  <2>1. PICK s \in Sess : Lasts(s)
    BY <1>2, <1>5
  <2>2. /\ alive /\ current \in {s, NoSess} /\ (IsAgentOnline => Undisturbed)
        /\ \A x \in Sess : phase[x] \notin Opening
    BY <1>2, <1>5, <2>1 DEF Lasts, WiresAre, LastIs, Opening
  <2>3. IsAgentOnline <=> current = s
    BY <1>1, <2>1, <2>2 DEF Lasts, IsAgentOnline, IsOpen
  <2>4. ASSUME NEW x \in Sess, OpenPut(x) \/ OpenClear(x) \/ OpenBeat(x) PROVE FALSE
    BY <2>2, <2>4 DEF OpenPut, OpenClear, OpenBeat, Opening
  <2>5. CASE Return \/ TellUninstall
    BY <2>2, <2>5 DEF Return, TellUninstall
  <2>6. ASSUME UNCHANGED <<wire, phase, current>>, IsAgentOnline => Undisturbed'
        PROVE  (\E z \in Sess : Lasts(z)') /\ (IsAgentOnline' => Undisturbed')
    <3>1. Lasts(s)' /\ (IsAgentOnline' => IsAgentOnline)
      BY <2>1, <2>6 DEF Lasts, IsAgentOnline, IsOpen
    <3> QED BY <2>6, <3>1
  <2>7. CASE FindReady
    <3>1. UNCHANGED <<wire, phase, current, quiet, steady, shown>> /\ (IsAgentOnline => job' = job)
      BY <2>7 DEF FindReady, sessionVars, rowVars, ghosts
    <3>2. IsAgentOnline => Undisturbed'
      BY <2>2, <3>1 DEF Undisturbed
    <3> QED BY <2>6, <3>1, <3>2
  <2>8. CASE CleanTasks \/ CleanRow \/ CleanMark \/ FindStale \/ WriteOffline \/ Reassign
    <3>1. UNCHANGED <<wire, phase, current>>
      BY <2>8 DEF CleanTasks, CleanRow, CleanMark, FindStale, WriteOffline, Reassign, JobOnly, sessionVars
    <3>2. ~IsAgentOnline
      BY <2>2, <2>8 DEF CleanTasks, CleanRow, CleanMark, FindStale, WriteOffline, Reassign, Undisturbed
    <3> QED BY <2>6, <3>1, <3>2
  <2>9. CASE HttpHeartbeat
    <3>1. UNCHANGED <<wire, phase, current, quiet, steady, job>> /\ shown' = "online"
      BY <2>9 DEF HttpHeartbeat, sessionVars, jobVars, ghosts, AcceptHeartbeat, UpdateHeartbeat, ReportedStatus
    <3>2. IsAgentOnline => Undisturbed'
      BY <2>2, <3>1 DEF Undisturbed
    <3> QED BY <2>6, <3>1, <3>2
  <2>10. ASSUME NEW x \in Sess, Heartbeat(x)
         PROVE  (\E z \in Sess : Lasts(z)') /\ (IsAgentOnline' => Undisturbed')
    <3>1. UNCHANGED <<wire, phase, current, job>> /\ shown' = "online"
      BY <2>10 DEF Heartbeat, jobVars, UpdateHeartbeat
    <3>2. IsAgentOnline => Undisturbed'
      BY <2>2, <3>1 DEF Undisturbed
    <3> QED BY <2>6, <3>1, <3>2
  <2>11. CASE UNCHANGED presenceVars
    <3>1. UNCHANGED <<wire, phase, current, quiet, steady, shown, job>>
      BY <2>11 DEF presenceVars
    <3>2. IsAgentOnline => Undisturbed'
      BY <2>2, <3>1 DEF Undisturbed
    <3> QED BY <2>6, <3>1, <3>2
  <2>12. ASSUME NEW x \in Sess, OnError(x) \/ OnClose(x) \/ StoreMark(x) \/ MarkRow(x)
                                \/ \E how \in {"lost", "erring"} : Broken(x, how)
         PROVE  (\E z \in Sess : Lasts(z)') /\ (IsAgentOnline' => Undisturbed')
    <3>1. x # s /\ wire' = wire /\ \A z \in Sess \ {x} : phase'[z] = phase[z]
      BY <1>1, <2>1, <2>12 DEF OnError, OnClose, StoreMark, MarkRow, Broken, Lasts
    <3>2. Lasts(s)'
      BY <2>1, <3>1 DEF Lasts
    <3>3. ASSUME IsAgentOnline' PROVE Undisturbed'
      <4>1. current = s /\ current' = s /\ Undisturbed
        BY <1>1, <2>2, <2>3, <2>12, <3>3
           DEF OnError, OnClose, StoreMark, MarkRow, Broken, IsAgentOnline, IsOpen
      <4>2. phase[x] \in {"none", "open", "erring", "lost"}
        BY <3>1, <4>1 DEF Undisturbed
      <4>3. /\ UNCHANGED <<quiet, steady, shown, job>>
            /\ phase'[x] \in {"none", "open", "erring", "lost"}
        BY <1>1, <2>12, <3>1, <4>1, <4>2
           DEF OnError, OnClose, StoreMark, MarkRow, Broken, rowVars, jobVars, ghosts
      <4> QED BY <3>1, <4>1, <4>3 DEF Undisturbed
    <3> QED BY <3>2, <3>3
  <2> QED BY <2>4, <2>5, <2>7, <2>8, <2>9, <2>10, <2>11, <2>12, <1>3, <1>5 DEF PresenceNext
<1>6. Tick \/ steady' = steady
  BY <1>3 DEF PresenceNext, OpenPut, OpenClear, OpenBeat, Heartbeat, Broken, OnError, OnClose, StoreMark, MarkRow, FindReady,
         CleanTasks, CleanRow, CleanMark, FindStale, WriteOffline, Reassign, HttpHeartbeat, Return, TellUninstall,
         JobOnly, ghosts, presenceVars
<1> QED BY <1>4, <1>5, <1>6

LEMMA PresenceInvInit == PresenceInit => GoneInv /\ Settled
<1> SUFFICES ASSUME PresenceInit PROVE GoneInv /\ Settled
  OBVIOUS
<1>1. /\ Grace \in Nat /\ Timeout \in Nat /\ Idle \in Nat
      /\ MarkTtl = Grace + Timeout + 1 /\ OldBeat = Timeout + 1 /\ CleanedAfter = Idle + Grace + 1 /\ Never = -1
  BY PresenceAssumption DEF MarkTtl, OldBeat, CleanedAfter, Never
<1>2. PresenceTypeOK
  <2>1. {alive, redis} \subseteq BOOLEAN
    BY DEF PresenceInit
  <2>2. mark \in Never..MarkTtl - 1 /\ local \in Never..Grace /\ heard \in 0..OldBeat /\ held \in 0..OldBeat
        /\ orphaned \in Never..CleanedAfter /\ quiet \in 0..Idle /\ steady \in 0..2
    BY <1>1 DEF PresenceInit
  <2> QED BY <2>1, <2>2 DEF PresenceInit, PresenceTypeOK
<1>3. OneMark /\ WiresAre /\ OrphanWaits
  BY DEF PresenceInit, OneMark, WiresAre, OrphanWaits
<1>4. Settled
  BY DEF PresenceInit, Settled
<1> QED BY <1>2, <1>3, <1>4 DEF GoneInv

LEMMA GoneInvStep ==
  ASSUME GoneInv, [PresenceNext]_presenceVars, Timeout <= Idle + Grace PROVE GoneInv'
<1>1. PresenceTypeOK /\ OneMark /\ WiresAre
  BY DEF GoneInv
<1>2. PresenceTypeOK' /\ OneMark' /\ WiresAre'
  BY <1>1, PresenceTypeStep, OneMarkStep, WiresStep
<1>3. OrphanWaits'
  BY <1>2, OrphanStep
<1> QED BY <1>2, <1>3 DEF GoneInv

LEMMA GoneInvCleans == ASSUME GoneInv PROVE GoneIsCleaned
<1>1. /\ Grace \in Nat /\ Idle \in Nat /\ CleanedAfter = Idle + Grace + 1 /\ Never = -1 /\ Grace > 0
      /\ orphaned \in Never..CleanedAfter /\ quiet \in 0..Idle
  BY PresenceAssumption DEF CleanedAfter, Never, GoneInv, PresenceTypeOK
<1>2. CASE orphaned = Never
  BY <1>1, <1>2 DEF GoneIsCleaned
<1>3. CASE orphaned # Never
  <2>1. InTime /\ Reported
    BY <1>3, OrphanParts DEF GoneInv
  <2>2. ASSUME NEW s \in Sess, OnItsWay(s) PROVE orphaned <= Idle
    BY <2>1, <2>2, <1>1 DEF InTime, OnItsWay
  <2>3. MarkTells => orphaned <= Idle + Grace
    BY DEF MarkTells
  <2> QED BY <2>1, <2>2, <2>3, <1>1 DEF Reported, GoneIsCleaned
<1> QED BY <1>2, <1>3

\* An agent that dies with its session open has its tasks cleaned within the session's
\* idle time and the grace, whichever callback, late error or job comes between, if its
\* last heartbeat is too old by then.
THEOREM DeathsAreCleaned ==
  ASSUME Timeout <= Idle + Grace PROVE PresenceSpec => []GoneIsCleaned
<1>1. PresenceInit => GoneInv
  BY PresenceInvInit
<1>2. GoneInv /\ [PresenceNext]_presenceVars => GoneInv'
  BY GoneInvStep
<1>3. GoneInv => GoneIsCleaned
  BY GoneInvCleans
<1> QED BY <1>1, <1>2, <1>3, PTL DEF PresenceSpec

\* Besides, a connection that lasts is shown as online for as long as the map holds it,
\* whatever late callbacks, errors and jobs of earlier ones write.
THEOREM PresenceIsKnown ==
  ASSUME Timeout <= Idle + Grace
  PROVE  PresenceSpec => [](PresenceTypeOK /\ PresenceIsTrue)
<1> DEFINE Inv == GoneInv /\ Settled
<1>1. PresenceInit => Inv
  BY PresenceInvInit
<1>2. Inv /\ [PresenceNext]_presenceVars => Inv'
  BY GoneInvStep, SettledStep DEF GoneInv
<1>3. Inv => PresenceTypeOK /\ PresenceIsTrue
  <2> SUFFICES ASSUME Inv PROVE PresenceTypeOK /\ PresenceIsTrue
    OBVIOUS
  <2>1. GoneIsCleaned
    BY GoneInvCleans
  <2>2. ConnectedIsOnline
    BY DEF Settled, ConnectedIsOnline
  <2> QED BY <2>1, <2>2 DEF PresenceIsTrue, GoneInv
<1> HIDE DEF Inv
<1> QED BY <1>1, <1>2, <1>3, PTL DEF PresenceSpec

-----------------------------------------------------------------------------
(* The registry.  Merging runs over pairs of rows: what it yields is shown   *)
(* by the least number of rounds for which it would not hold.                *)

LEMMA LeastOf ==
  ASSUME NEW T, T \subseteq Nat, T # {}
  PROVE  \E n \in T : \A m \in T : n <= m
<1>1. IsWellFoundedOn(OpToRel(<, Nat), Nat)
  BY NatLessThanWellFounded
<1>2. PICK n \in T : \A m \in T : ~(<<m, n>> \in OpToRel(<, Nat))
  BY <1>1, WFMin
<1>3. \A m \in T : ~(m < n)
  BY <1>2 DEF OpToRel
<1> QED BY <1>3

-----------------------------------------------------------------------------
(* Merging duplicates, one pair after the other: no row gets an address that *)
(* is not one of a row it swallows.                                          *)

Apart(rows) ==
  \A a, b \in DOMAIN rows : rows[a].ip = rows[b].ip /\ a # b => rows[a].ip = Blank
Kept(s) ==
  /\ "rows" \in DOMAIN s
  /\ DOMAIN s.rows \subseteq Row /\ s.rows \in [DOMAIN s.rows -> Listing]
  /\ Unmixed => Apart(s.rows)

LEMMA MergedIs ==
  ASSUME NEW c \in Listing, NEW d \in Listing
  PROVE  /\ Merged(c, d) \in Listing
         /\ Merged(c, d).ip = IF c.ip = Blank THEN d.ip ELSE c.ip
BY DEF Merged, Listing

LEMMA MergeKeeps ==
  ASSUME NEW s, Kept(s), NEW order, NEW p \in Pairs(order), NEW Lefts,
         DOMAIN order \subseteq Nat, \A a, b \in DOMAIN order : a # b => order[a] # order[b]
  PROVE  Kept(MergePair(s, p, order, Lefts))
<1> DEFINE i == order[p[1]]
           j == order[p[2]]
           c == IF p \in Lefts THEN i ELSE j
           d == IF c = i THEN j ELSE i
           m == Merged(s.rows[c], s.rows[d])
           new == [n \in DOMAIN s.rows \ {d} |-> IF n = c THEN m ELSE s.rows[n]]
           r == MergePair(s, p, order, Lefts)
<1> DEFINE first == p[2] = p[1] + 1
           left == IF first THEN registry[i] ELSE s.left
           skip == IF first THEN i \notin DOMAIN s.rows ELSE s.skip
           gone == j \notin DOMAIN s.rows
           no   == skip \/ gone \/ ~ShouldMerge(left, registry[j])
           lost == i \notin DOMAIN s.rows
           bad  == lost \/ m.xbox # s.rows[c].xbox
           kept == IF c = i THEN m ELSE left
           s1 == [s EXCEPT !.left = left, !.skip = skip]
           s2 == [s EXCEPT !.failed = TRUE]
           s3 == [s EXCEPT !.rows = new, !.left = kept, !.skip = skip]
<1>1. r = IF s.failed THEN s ELSE IF no THEN s1 ELSE IF bad THEN s2 ELSE s3
  BY DEF MergePair
<1>2. r = s \/ r = s1 \/ r = s2 \/ (~lost /\ ~gone /\ r = s3)
  <2> HIDE DEF r, s1, s2, s3, lost, gone, skip, m
  <2> QED BY <1>1
<1>3. i # j
  <2>1. p[1] \in DOMAIN order /\ p[2] \in DOMAIN order /\ p[1] < p[2]
    BY DEF Pairs
  <2>2. p[1] \in Nat /\ p[2] \in Nat /\ p[1] # p[2]
    BY <2>1
  <2> QED BY <2>1, <2>2
<1>4. "rows" \in DOMAIN s1 /\ s1.rows = s.rows
  <2> HIDE DEF left, skip
  <2> QED BY DEF Kept
<1>5. "rows" \in DOMAIN s2 /\ s2.rows = s.rows
  BY DEF Kept
<1>6. "rows" \in DOMAIN s3 /\ s3.rows = new
  <2> HIDE DEF left, skip, new, kept
  <2> QED BY DEF Kept
<1>7. ASSUME ~lost, ~gone
      PROVE  /\ DOMAIN new \subseteq Row /\ new \in [DOMAIN new -> Listing]
             /\ Apart(s.rows) => Apart(new)
  <2>1. (c = i /\ d = j) \/ (c = j /\ d = i)
    <3> HIDE DEF i, j
    <3> QED BY <1>3
  <2>2. c \in DOMAIN s.rows /\ d \in DOMAIN s.rows /\ c # d
    <3> HIDE DEF c, d, i, j
    <3> QED BY <1>3, <1>7, <2>1 DEF i, j
  <2> HIDE DEF c, d
  <2> DEFINE x == s.rows[c]
             y == s.rows[d]
  <2>3. x \in Listing /\ y \in Listing
    BY <2>2 DEF Kept
  <2>4. m \in Listing /\ m.ip = IF x.ip = Blank THEN y.ip ELSE x.ip
    BY <2>3, MergedIs
  <2> HIDE DEF m
  <2>5. /\ DOMAIN new = DOMAIN s.rows \ {d} /\ new[c] = m
        /\ \A a \in DOMAIN new : a # c => new[a] = s.rows[a]
    BY <2>2
  <2>6. DOMAIN new \subseteq Row /\ new \in [DOMAIN new -> Listing]
    BY <2>2, <2>4 DEF Kept
  <2> HIDE DEF new
  <2>7. ASSUME Apart(s.rows), NEW e \in DOMAIN new, e # c, new[e].ip = m.ip
        PROVE  m.ip = Blank
    <3>1. e \in DOMAIN s.rows /\ e # d /\ s.rows[e].ip = m.ip
      BY <2>5, <2>7
    <3>2. s.rows[e].ip = x.ip => x.ip = Blank
      BY <2>2, <2>7, <3>1 DEF Apart
    <3>3. s.rows[e].ip = y.ip => y.ip = Blank
      BY <2>2, <2>7, <3>1 DEF Apart
    <3> QED BY <2>4, <3>1, <3>2, <3>3
  <2>8. ASSUME Apart(s.rows), NEW a \in DOMAIN new, NEW b \in DOMAIN new, a # b, new[a].ip = new[b].ip
        PROVE  new[a].ip = Blank
    <3>1. CASE a = c \/ b = c
      BY <2>5, <2>7, <2>8, <3>1
    <3>2. CASE a # c /\ b # c
      BY <2>5, <2>8, <3>2 DEF Apart
    <3> QED BY <3>1, <3>2
  <2>9. Apart(s.rows) => Apart(new)
    BY <2>8 DEF Apart
  <2> QED BY <2>6, <2>9
<1>8. ~lost /\ ~gone => Kept(s3)
  <2> HIDE DEF s3, new, lost, gone
  <2> QED BY <1>6, <1>7 DEF Kept
<1>9. Kept(s1)
  <2> HIDE DEF s1
  <2> QED BY <1>4 DEF Kept
<1>10. Kept(s2)
  <2> HIDE DEF s2
  <2> QED BY <1>5 DEF Kept
<1> HIDE DEF r, s1, s2, s3, lost, gone
<1>11. Kept(r)
  BY <1>2, <1>8, <1>9, <1>10
<1> QED BY <1>11 DEF r

\* The state of the loops after each round.
Unmerged == [rows |-> registry, left |-> <<>>, skip |-> FALSE, failed |-> FALSE]
MergeRound(s, n, order, Lefts) ==
  IF Round(n, Len(order)) \in Pairs(order) THEN MergePair(s, Round(n, Len(order)), order, Lefts) ELSE s
RoundsBy(f, order, Lefts, N) ==
  f = [n \in 0..N |-> IF n = 0 THEN Unmerged ELSE MergeRound(f[n - 1], n, order, Lefts)]

LEMMA RoundsAre ==
  ASSUME NEW order, NEW Lefts, NEW N \in Nat
  PROVE  \E f : RoundsBy(f, order, Lefts, N)
<1> SUFFICES ASSUME \A f : ~RoundsBy(f, order, Lefts, N) PROVE FALSE
  OBVIOUS
<1> DEFINE T == {n \in Nat : \A f : ~RoundsBy(f, order, Lefts, n)}
<1>1. N \in T
  OBVIOUS
<1>2. PICK n \in T : \A m \in T : n <= m
  <2>1. T \subseteq Nat /\ T # {}
    BY <1>1
  <2> HIDE DEF T
  <2> QED BY <2>1, LeastOf
<1>3. CASE n = 0
  <2> DEFINE f == [i \in 0..0 |-> Unmerged]
  <2>1. RoundsBy(f, order, Lefts, 0)
    BY DEF RoundsBy
  <2> QED BY <1>2, <1>3, <2>1
<1>4. CASE n # 0
  <2>1. n - 1 \in Nat /\ n - 1 \notin T
    BY <1>2, <1>4
  <2>2. PICK g : RoundsBy(g, order, Lefts, n - 1)
    BY <2>1
  <2> DEFINE f == [i \in 0..n |-> IF i = 0 THEN Unmerged ELSE MergeRound(g[i - 1], i, order, Lefts)]
  <2>3. ASSUME NEW i \in 0..(n - 1) PROVE f[i] = g[i]
    <3>1. g[i] = IF i = 0 THEN Unmerged ELSE MergeRound(g[i - 1], i, order, Lefts)
      BY <2>2 DEF RoundsBy
    <3>2. i \in 0..n
      BY <2>1
    <3> QED BY <3>1, <3>2
  <2>4. \A i \in 0..n : i # 0 => i - 1 \in 0..(n - 1)
    BY <2>1
  <2>5. f = [i \in 0..n |-> IF i = 0 THEN Unmerged ELSE MergeRound(f[i - 1], i, order, Lefts)]
    BY <2>3, <2>4
  <2> HIDE DEF f
  <2>6. RoundsBy(f, order, Lefts, n)
    BY <2>5 DEF RoundsBy
  <2> QED BY <1>2, <2>6
<1> QED BY <1>3, <1>4

\* What merging leaves: rows of the merchant's ids, and if no two had one address then,
\* none have.
LEMMA DedupedIs ==
  ASSUME RegistryTypeOK, NEW order \in SetToSeqs(DOMAIN registry), NEW Lefts
  PROVE  Kept(Deduped(order, Lefts))
<1>t. DOMAIN registry \subseteq Row /\ registry \in [DOMAIN registry -> Listing]
  BY DEF RegistryTypeOK
<1> DEFINE C == Cardinality(DOMAIN registry)
<1>c. C \in Nat
  <2>1. IsFiniteSet(DOMAIN registry)
    BY <1>t, RegistryAssumption, FS_Subset
  <2> QED BY <2>1, FS_CardinalityType
<1>o. /\ order \in [1..C -> DOMAIN registry]
      /\ \A a, b \in 1..C : a # b => order[a] # order[b]
  BY DEF SetToSeqs
<1> HIDE DEF C
<1>q. DOMAIN order = 1..C /\ Len(order) = C
  BY <1>c, <1>o
<1> DEFINE N == Len(order) * Len(order)
           F == CHOOSE f : RoundsBy(f, order, Lefts, N)
<1>n. N \in Nat
  <2>1. \A k \in Nat : k * k \in Nat
    OBVIOUS
  <2> QED BY <1>c, <1>q, <2>1
<1>1. Deduped(order, Lefts) = F[N]
  BY DEF Deduped, RoundsBy, MergeRound, Unmerged
<1>2. RoundsBy(F, order, Lefts, N)
  <2> HIDE DEF N
  <2>1. \E f : RoundsBy(f, order, Lefts, N)
    BY <1>n, RoundsAre
  <2> QED BY <2>1
<1> HIDE DEF F, N
<1>f. \A n \in 0..N : F[n] = IF n = 0 THEN Unmerged ELSE MergeRound(F[n - 1], n, order, Lefts)
  BY <1>2 DEF RoundsBy
<1>3. Kept(Unmerged)
  <2>1. Unmerged.rows = registry /\ "rows" \in DOMAIN Unmerged
    BY DEF Unmerged
  <2> QED BY <1>t, <2>1 DEF Kept, Apart, Unmixed
<1>4. ASSUME NEW n \in 0..N, n # 0, Kept(F[n - 1]) PROVE Kept(F[n])
  <2> DEFINE p == Round(n, Len(order))
  <2>1. F[n] = MergeRound(F[n - 1], n, order, Lefts)
    BY <1>4, <1>f
  <2>2. CASE p \in Pairs(order)
    <3> HIDE DEF p
    <3>1. Kept(MergePair(F[n - 1], p, order, Lefts))
      <4>1. DOMAIN order \subseteq Nat /\ \A a, b \in DOMAIN order : a # b => order[a] # order[b]
        BY <1>o, <1>q
      <4> QED BY ONLY <1>4, <2>2, <4>1, MergeKeeps
    <3> QED BY <2>1, <2>2, <3>1 DEF MergeRound, p
  <2>3. CASE p \notin Pairs(order)
    BY <1>4, <2>1, <2>3 DEF MergeRound
  <2> QED BY <2>2, <2>3
<1>5. ASSUME ~Kept(F[N]) PROVE FALSE
  <2> DEFINE T == {n \in 0..N : ~Kept(F[n])}
  <2>1. PICK n \in T : \A m \in T : n <= m
    <3>1. T \subseteq Nat /\ T # {}
      BY <1>5, <1>n
    <3> HIDE DEF T
    <3> QED BY <3>1, LeastOf
  <2>2. n # 0
    BY <1>n, <1>3, <1>f, <2>1
  <2>3. n - 1 \in 0..N /\ n - 1 \notin T
    BY <1>n, <2>1, <2>2
  <2>4. Kept(F[n - 1])
    BY <2>3
  <2> QED BY <1>4, <2>1, <2>2, <2>4
<1> QED BY <1>1, <1>5

-----------------------------------------------------------------------------
(* The rows that a report may come to. *)

LEMMA NamesAreIds ==
  /\ \A b \in Box : Cloud(b) \in Id
  /\ \A d \in Device : Hardware(d) \in Id
  /\ \A a \in Address : FromAddress(a) \in Id
BY DEF Id, Cloud, Hardware, FromAddress

LEMMA UpdatedIs ==
  ASSUME NEW r \in Listing, NEW e \in Listing
  PROVE  /\ Updated(r, e) \in Listing
         /\ Updated(r, e).ip = IF e.ip = Blank THEN r.ip ELSE e.ip
<1> DEFINE swap == IsUuid(r.xbox) /\ IsGssv(e.xbox)
           x == IF swap THEN e.xbox ELSE r.xbox
           i == IF e.ip = Blank THEN r.ip ELSE e.ip
           l == IF e.live # Blank THEN e.live
                ELSE IF r.live # Blank THEN r.live
                ELSE CASE swap -> r.xbox
                       [] IsGssv(r.xbox) /\ IsUuid(e.xbox) -> e.xbox
                       [] OTHER -> Blank
<1>1. Updated(r, e) = [r EXCEPT !.xbox = x, !.ip = i, !.live = l]
  BY DEF Updated
<1>2. x \in Id /\ i \in Address \cup {Blank}
  BY DEF Listing
<1>3. l \in Id \cup {Blank}
  BY DEF Listing
<1> HIDE DEF x, i, l
<1>4. [r EXCEPT !.xbox = x, !.ip = i, !.live = l] \in Listing
  BY <1>2, <1>3 DEF Listing
<1>5. [r EXCEPT !.xbox = x, !.ip = i, !.live = l].ip = i
  BY DEF Listing
<1> QED BY <1>1, <1>4, <1>5 DEF i

LEMMA RewrittenIs ==
  ASSUME NEW r \in Listing, NEW u \in Listing
  PROVE  /\ Rewritten(r, u) \in Listing
         /\ Rewritten(r, u).ip = IF u.ip = Blank THEN r.ip ELSE u.ip
BY DEF Rewritten, Listing

\* A look-up that nothing has crossed still stands: the row is there, and no other has
\* the address that will be written.
Stands(l) ==
  /\ l.found \subseteq DOMAIN registry
  /\ \A n \in DOMAIN registry : registry[n].ip = l.host.ip => n \in l.found \/ l.host.ip = Blank
LookUpsStand == \A h \in DOMAIN looked : ~looked[h].crossed => Stands(looked[h])
OneIsFound == \A h \in DOMAIN looked : \A n, m \in looked[h].found : n = m
RegistryInv == RegistryTypeOK /\ OneIsFound /\ LookUpsStand

LEMMA DiscoveredAre ==
  /\ Discovered \subseteq Listing
  /\ \A e \in Discovered : e.ip # Blank
<1>1. \A i \in Id, a \in Address : Found(i, a) \in Listing /\ Found(i, a).ip = a
  BY DEF Found, Listing
<1>2. \A a \in Address : a # Blank
  BY RegistryAssumption
<1> QED BY <1>1, <1>2, NamesAreIds DEF Discovered, SsdpDiscover, Scanned

LEMMA LookUpKeeps ==
  ASSUME RegistryInv, NEW h \in Handler, NEW e \in Listing, LookUp(h, e), e.ip # Blank \/ Existing(e) = {}
  PROVE  RegistryInv'
<1>t. /\ DOMAIN registry \subseteq Row /\ registry \in [DOMAIN registry -> Listing]
      /\ DOMAIN looked \subseteq Handler /\ looked \in [DOMAIN looked -> Handling]
  BY DEF RegistryInv, RegistryTypeOK
<1>1. PICK X \in {{n} : n \in Existing(e)} \cup (IF Existing(e) = {} THEN {{}} ELSE {}) :
        looked' = [g \in DOMAIN looked \cup {h} |->
                     IF g # h THEN looked[g]
                     ELSE [found |-> X, crossed |-> FALSE,
                           host |-> IF X = {} THEN e ELSE Updated(registry[CHOOSE n \in X : TRUE], e)]]
  BY DEF LookUp
<1>2. UNCHANGED registry /\ h \notin DOMAIN looked /\ \A n, m \in ByIp(e) : n = m
  BY DEF LookUp
<1> DEFINE host == IF X = {} THEN e ELSE Updated(registry[CHOOSE n \in X : TRUE], e)
           l == [found |-> X, crossed |-> FALSE, host |-> host]
<1>3. \/ X = {} /\ Existing(e) = {}
      \/ \E n \in Existing(e) : X = {n}
  BY <1>1
<1>4. Existing(e) \subseteq DOMAIN registry
  BY DEF Existing, ByIp, ByKey, Orphan
<1>5. X \subseteq DOMAIN registry /\ \A n, m \in X : n = m
  BY <1>3, <1>4
<1>6. host \in Listing /\ (e.ip # Blank => host.ip = e.ip) /\ (X = {} => host = e)
  <2>1. CASE X = {}
    BY <2>1
  <2>2. CASE X # {}
    <3> DEFINE n == CHOOSE n \in X : TRUE
    <3>1. n \in X
      BY <2>2
    <3> HIDE DEF n
    <3>2. registry[n] \in Listing
      BY <1>5, <1>t, <3>1
    <3>3. Updated(registry[n], e) \in Listing /\ (e.ip # Blank => Updated(registry[n], e).ip = e.ip)
      BY <3>2, UpdatedIs
    <3> QED BY <2>2, <3>3 DEF n
  <2> QED BY <2>1, <2>2
<1>7. ASSUME NEW n \in DOMAIN registry, registry[n].ip = host.ip, host.ip # Blank PROVE n \in X
  <2>1. host.ip = e.ip
    <3>1. CASE e.ip # Blank
      BY <1>6, <3>1
    <3>2. CASE e.ip = Blank
      <4>1. X = {}
        BY <1>3, <3>2
      <4> QED BY <1>6, <4>1
    <3> QED BY <3>1, <3>2
  <2>2. n \in ByIp(e)
    BY <1>7, <2>1 DEF ByIp
  <2>3. Existing(e) = ByIp(e)
    BY <2>2 DEF Existing
  <2> QED BY <1>2, <1>3, <2>2, <2>3
<1> HIDE DEF host
<1>8. l \in Handling /\ Stands(l)
  <2>1. l.found = X /\ l.host = host /\ l.crossed = FALSE
    OBVIOUS
  <2>2. l \in Handling
    BY <1>5, <1>6, <1>t DEF Handling
  <2> QED BY <1>5, <1>7, <2>1, <2>2 DEF Stands
<1>9. /\ DOMAIN looked' = DOMAIN looked \cup {h} /\ looked'[h] = l
      /\ \A g \in DOMAIN looked : looked'[g] = looked[g]
      /\ looked' = [g \in DOMAIN looked \cup {h} |-> IF g # h THEN looked[g] ELSE l]
  BY <1>1, <1>2 DEF host
<1>10. l.found = X
  OBVIOUS
<1> HIDE DEF l
<1>11. RegistryTypeOK'
  BY <1>2, <1>8, <1>9, <1>t DEF RegistryTypeOK
<1>12. OneIsFound'
  BY <1>5, <1>9, <1>10 DEF RegistryInv, OneIsFound
<1>13. LookUpsStand'
  <2>1. ASSUME NEW g \in DOMAIN looked', ~looked'[g].crossed PROVE Stands(looked'[g])
    BY <1>8, <1>9, <2>1 DEF RegistryInv, LookUpsStand
  <2> QED BY <1>2, <2>1 DEF LookUpsStand, Stands
<1> QED BY <1>11, <1>12, <1>13 DEF RegistryInv

\* A change of the registry crosses the look-ups of all that stay.
LEMMA Crosses ==
  ASSUME RegistryInv, NEW H, H \subseteq DOMAIN looked, looked' = Crossed(H),
         DOMAIN registry' \subseteq Row, registry' \in [DOMAIN registry' -> Listing]
  PROVE  RegistryInv'
<1>1. /\ DOMAIN looked' = H
      /\ \A h \in H : looked'[h] = [looked[h] EXCEPT !.crossed = TRUE]
  BY DEF Crossed
<1>2. \A h \in H : looked[h] \in Handling
  BY DEF RegistryInv, RegistryTypeOK
<1>3. \A h \in H : looked'[h] \in Handling /\ looked'[h].crossed /\ looked'[h].found = looked[h].found
  BY <1>1, <1>2 DEF Handling
<1>4. looked' \in [DOMAIN looked' -> Handling]
  BY <1>1, <1>3 DEF Crossed
<1>5. RegistryTypeOK'
  BY <1>1, <1>4 DEF RegistryInv, RegistryTypeOK
<1> QED BY <1>1, <1>3, <1>5 DEF RegistryInv, OneIsFound, LookUpsStand

\* A row that is put in after a look-up that stands has its address for itself.
LEMMA Inserts ==
  ASSUME RegistryInv, NEW h \in Handler, Insert(h)
  PROVE  RegistryInv' /\ (Unmixed => Unmixed' \/ WritesCrossed)
<1>t. /\ DOMAIN registry \subseteq Row /\ registry \in [DOMAIN registry -> Listing]
      /\ looked \in [DOMAIN looked -> Handling]
  BY DEF RegistryInv, RegistryTypeOK
<1> DEFINE l == looked[h]
           fresh == Row \ (DOMAIN registry \cup UNION {looked[g].found : g \in DOMAIN looked})
           n == CHOOSE n \in fresh : TRUE
<1>1. /\ h \in DOMAIN looked /\ l.found = {} /\ fresh # {}
      /\ registry' = [m \in DOMAIN registry \cup {n} |-> IF m = n THEN l.host ELSE registry[m]]
      /\ looked' = Crossed(Others(h))
  BY DEF Insert
<1>2. n \in fresh
  BY <1>1
<1> HIDE DEF n
<1>3. n \in Row /\ n \notin DOMAIN registry
  BY <1>2
<1>4. l.host \in Listing
  BY <1>1, <1>t DEF Handling
<1>5. DOMAIN registry' \subseteq Row /\ registry' \in [DOMAIN registry' -> Listing]
  BY <1>1, <1>3, <1>4, <1>t
<1>6. RegistryInv'
  BY <1>1, <1>5, Crosses DEF Others
<1>7. ASSUME Unmixed, ~l.crossed PROVE Unmixed'
  <2>1. \A m \in DOMAIN registry : registry[m].ip = l.host.ip => l.host.ip = Blank
    BY <1>1, <1>7 DEF RegistryInv, LookUpsStand, Stands
  <2>2. ASSUME NEW a \in DOMAIN registry', NEW b \in DOMAIN registry', a # b, registry'[a].ip = registry'[b].ip
        PROVE  registry'[a].ip = Blank
    <3>1. CASE a = n \/ b = n
      BY <1>1, <1>3, <2>1, <2>2, <3>1
    <3>2. CASE a # n /\ b # n
      BY <1>1, <1>7, <2>2, <3>2 DEF Unmixed
    <3> QED BY <3>1, <3>2
  <2> QED BY <2>2 DEF Unmixed
<1>8. l.crossed => WritesCrossed
  BY <1>1 DEF WritesCrossed
<1> QED BY <1>6, <1>7, <1>8

\* And so has one that is brought up to date.
LEMMA Updates ==
  ASSUME RegistryInv, NEW h \in Handler, UpdateById(h)
  PROVE  RegistryInv' /\ (Unmixed => Unmixed' \/ WritesCrossed)
<1>t. /\ DOMAIN registry \subseteq Row /\ registry \in [DOMAIN registry -> Listing]
      /\ looked \in [DOMAIN looked -> Handling]
  BY DEF RegistryInv, RegistryTypeOK
<1> DEFINE l == looked[h]
<1>1. /\ h \in DOMAIN looked
      /\ registry' = [m \in DOMAIN registry |->
                        IF m \in l.found THEN Rewritten(registry[m], l.host) ELSE registry[m]]
      /\ looked' = Crossed(Others(h))
  BY DEF UpdateById
<1>2. l.host \in Listing
  BY <1>1, <1>t DEF Handling
<1>3. \A m \in DOMAIN registry :
        /\ Rewritten(registry[m], l.host) \in Listing
        /\ Rewritten(registry[m], l.host).ip = IF l.host.ip = Blank THEN registry[m].ip ELSE l.host.ip
  BY <1>2, <1>t, RewrittenIs
<1>4. DOMAIN registry' \subseteq Row /\ registry' \in [DOMAIN registry' -> Listing]
  BY <1>1, <1>3, <1>t
<1>5. RegistryInv'
  BY <1>1, <1>4, Crosses DEF Others
<1>6. ASSUME Unmixed, ~l.crossed PROVE Unmixed'
  <2>1. \A m \in DOMAIN registry : registry[m].ip = l.host.ip => m \in l.found \/ l.host.ip = Blank
    BY <1>1, <1>6 DEF RegistryInv, LookUpsStand, Stands
  <2>2. \A a, b \in l.found : a = b
    BY <1>1 DEF RegistryInv, OneIsFound
  <2>3. /\ DOMAIN registry' = DOMAIN registry
        /\ \A m \in DOMAIN registry :
             registry'[m].ip = IF m \in l.found /\ l.host.ip # Blank THEN l.host.ip ELSE registry[m].ip
    BY <1>1, <1>3
  <2>4. ASSUME NEW a \in DOMAIN registry, NEW b \in DOMAIN registry, a # b, registry'[a].ip = registry'[b].ip
        PROVE  registry'[a].ip = Blank
    <3>1. CASE l.host.ip = Blank \/ (a \notin l.found /\ b \notin l.found)
      BY <1>6, <2>3, <2>4, <3>1 DEF Unmixed
    <3>2. CASE l.host.ip # Blank /\ (a \in l.found \/ b \in l.found)
      BY <2>1, <2>2, <2>3, <2>4, <3>2
    <3> QED BY <3>1, <3>2
  <2> QED BY <2>3, <2>4 DEF Unmixed
<1>7. l.crossed => WritesCrossed
  BY <1>1 DEF WritesCrossed
<1> QED BY <1>5, <1>6, <1>7

LEMMA RegistryStep ==
  ASSUME RegistryInv, [RegistryNext]_registryVars
  PROVE  RegistryInv' /\ [Unmixed => Unmixed' \/ Types \/ WritesCrossed]_registryVars
<1>t. /\ DOMAIN registry \subseteq Row /\ registry \in [DOMAIN registry -> Listing]
      /\ DOMAIN looked \subseteq Handler /\ looked \in [DOMAIN looked -> Handling]
  BY DEF RegistryInv, RegistryTypeOK
<1>0. CASE UNCHANGED registryVars
  BY <1>0 DEF registryVars, RegistryInv, RegistryTypeOK, OneIsFound, LookUpsStand, Stands
<1>1. ASSUME NEW h \in Handler, RegisterHost(h) PROVE RegistryInv' /\ (Unmixed => Unmixed')
  <2>1. PICK e \in Discovered : LookUp(h, e)
    BY <1>1 DEF RegisterHost
  <2>2. RegistryInv'
    BY <2>1, DiscoveredAre, LookUpKeeps
  <2> QED BY <2>1, <2>2 DEF LookUp, Unmixed
<1>2. ASSUME NEW h \in Handler, EnsureBinding(h) PROVE RegistryInv' /\ (Unmixed => Unmixed')
  <2>1. PICK b \in Box : LET e == [xbox |-> Cloud(b), live |-> Blank, ip |-> Blank]
                          IN Existing(e) = {} /\ LookUp(h, e)
    BY <1>2 DEF EnsureBinding
  <2> DEFINE e == [xbox |-> Cloud(b), live |-> Blank, ip |-> Blank]
  <2>2. e \in Listing
    BY NamesAreIds DEF Listing
  <2>3. Existing(e) = {} /\ LookUp(h, e)
    BY <2>1
  <2> HIDE DEF e
  <2>4. RegistryInv'
    BY <2>2, <2>3, LookUpKeeps
  <2> QED BY <2>3, <2>4 DEF LookUp, Unmixed
<1>3. ASSUME NEW h \in Handler, Insert(h) \/ UpdateById(h)
      PROVE  RegistryInv' /\ (Unmixed => Unmixed' \/ WritesCrossed)
  BY <1>3, Inserts, Updates
<1>4. ASSUME NEW h \in Handler, Refuse(h) PROVE RegistryInv' /\ (Unmixed => Unmixed')
  <2>1. UNCHANGED registry /\ looked' = [g \in Others(h) |-> looked[g]] /\ Others(h) \subseteq DOMAIN looked
    BY <1>4 DEF Refuse, Others
  <2>2. DOMAIN looked' = Others(h) /\ \A g \in Others(h) : looked'[g] = looked[g]
    BY <2>1
  <2>3. RegistryTypeOK'
    BY <1>t, <2>1, <2>2 DEF RegistryTypeOK
  <2>4. OneIsFound'
    BY <2>1, <2>2 DEF RegistryInv, OneIsFound
  <2>5. LookUpsStand'
    BY <2>1, <2>2 DEF RegistryInv, LookUpsStand, Stands
  <2> QED BY <2>1, <2>3, <2>4, <2>5 DEF RegistryInv, Unmixed
<1>5. ASSUME NEW n \in Row, Delete(n) PROVE RegistryInv' /\ (Unmixed => Unmixed')
  <2>1. registry' = [m \in DOMAIN registry \ {n} |-> registry[m]] /\ looked' = Crossed(DOMAIN looked)
    BY <1>5 DEF Delete
  <2>2. /\ DOMAIN registry' = DOMAIN registry \ {n}
        /\ \A m \in DOMAIN registry' : registry'[m] = registry[m]
        /\ registry' \in [DOMAIN registry' -> Listing]
    BY <1>t, <2>1
  <2>3. RegistryInv'
    BY <1>t, <2>1, <2>2, Crosses
  <2> QED BY <2>2, <2>3 DEF Unmixed
<1>6. ASSUME NEW n \in Row, NEW a \in Address, TypeAddress(n, a) PROVE RegistryInv' /\ Types
  <2>1. n \in DOMAIN registry /\ registry' = [registry EXCEPT ![n].ip = a] /\ looked' = Crossed(DOMAIN looked)
    BY <1>6 DEF TypeAddress
  <2>2. [registry[n] EXCEPT !.ip = a] \in Listing
    BY <1>t, <2>1 DEF Listing
  <2>3. DOMAIN registry' = DOMAIN registry /\ registry' \in [DOMAIN registry' -> Listing]
    BY <1>t, <2>1, <2>2
  <2>4. RegistryInv'
    BY <1>t, <2>1, <2>3, Crosses
  <2> QED BY <1>6, <2>4 DEF Types
<1>7. CASE Dedupe
  <2>0. PICK order \in SetToSeqs(DOMAIN registry) :
          \E Lefts \in SUBSET Pairs(order) : registry' = Deduped(order, Lefts).rows
    BY <1>7 DEF Dedupe
  <2>1. PICK Lefts \in SUBSET Pairs(order) : registry' = Deduped(order, Lefts).rows
    BY <2>0
  <2>2. Kept(Deduped(order, Lefts))
    BY DedupedIs DEF RegistryInv
  <2>3. /\ DOMAIN registry' \subseteq Row /\ registry' \in [DOMAIN registry' -> Listing]
        /\ Unmixed => Unmixed'
    BY <2>1, <2>2 DEF Kept, Apart, Unmixed
  <2>4. looked' = Crossed(DOMAIN looked)
    BY <1>7 DEF Dedupe
  <2>5. RegistryInv'
    BY <2>3, <2>4, Crosses
  <2> QED BY <2>3, <2>5
<1> QED BY <1>0, <1>1, <1>2, <1>3, <1>4, <1>5, <1>6, <1>7 DEF RegistryNext

LEMMA RegistryStart == RegistryInit => RegistryInv
BY DEF RegistryInit, RegistryInv, RegistryTypeOK, OneIsFound, LookUpsStand

\* The registry holds rows of the kinds it should, for any consoles, computers and
\* addresses and any number of handlers at once; merging duplicates included, whichever
\* rows it keeps.
THEOREM RegistryIsSound == RegistrySpec => []RegistryTypeOK
<1>1. RegistryInv /\ [RegistryNext]_registryVars => RegistryInv'
  BY RegistryStep
<1>2. RegistryInv => RegistryTypeOK
  BY DEF RegistryInv
<1> QED BY <1>1, <1>2, RegistryStart, PTL DEF RegistrySpec

\* Reports, bindings, deletions and merges of duplicates, in any order, by any number of
\* handlers and however often consoles change addresses, give one address to two rows
\* only by a write whose look-up another step had crossed; else only a user does.
THEOREM AddressesStayApart == RegistrySpec => OneRowPerAddress
<1>1. RegistryInv /\ [RegistryNext]_registryVars => RegistryInv'
  BY RegistryStep
<1>2. RegistryInv /\ [RegistryNext]_registryVars =>
        [Unmixed => Unmixed' \/ Types \/ WritesCrossed]_registryVars
  BY RegistryStep
<1> QED BY <1>1, <1>2, RegistryStart, PTL DEF RegistrySpec, OneRowPerAddress
=============================================================================
