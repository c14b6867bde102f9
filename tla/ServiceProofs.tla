---------------------------- MODULE ServiceProofs ----------------------------
(***************************************************************************)
(* Proofs about six services that share no state: the projections of an    *)
(* ingest body, the pages of the list endpoints, the outcome backfill, the *)
(* pool supervisor, the reporting deliveries and the retention of          *)
(* transcripts.                                                            *)
(*                                                                         *)
(* Projections, for any bodies and workers.  The rows a lone request has   *)
(* written at any time are those of the statements it is done with, and    *)
(* the order of its statements sees to it that a DELETE never meets the    *)
(* rows of its own request, nor a context a project that is still to come. *)
(*                                                                         *)
(* Pages, for any table, session links, filters and page sizes, and        *)
(* whatever is written between two pages.  What a keyset walk has given is *)
(* what is not after its cursor; what an undisturbed offset walk has given *)
(* is as many rows as its offset says, and where the order is total they   *)
(* are the rows with fewer than so many before them.                       *)
(*                                                                         *)
(* The backfill, for any data on the code host, windows, edits and deaths. *)
(* A session resolves no change request but the one that alone carries its *)
(* title, and while its statements are written no other run holds that     *)
(* change request: the one pass at a time looked the holder up first.      *)
(*                                                                         *)
(* The pool supervisor, for any number of pools, requests and probes, and  *)
(* any outages.  Both properties depend on who may close a pool.  While    *)
(* the task runs, it closes only its candidate and the pool it replaced,   *)
(* and neither is the current pool; and a pool that is open or closing is  *)
(* always one that the task or stop() will still come to: the candidate,   *)
(* the current pool, a retired one or one that stop() has left to close.   *)
(*                                                                         *)
(* Reporting, for any deliveries, batches and clients.  What a merge keeps *)
(* of a field is what its newest writer gave, and of several deliveries    *)
(* one is the newest, whatever came first.                                 *)
(*                                                                         *)
(* Retention, for any tables, batches and limits.  A run that nobody       *)
(* disturbs has deleted only rows that are too old together with all that  *)
(* refer to them, and, while its limit lasts, all of those in the tables   *)
(* it is done with: a row's referrers come first, so when its own turn     *)
(* comes nothing is in the way of its deletion.                            *)
(***************************************************************************)
EXTENDS PoolSupervisor, Reporting, TranscriptRetention, PagedReads, IngestProjections,
        OutcomeBackfill, SumProofs, SequenceTheorems

-----------------------------------------------------------------------------
(* Ingest projections.  The statements of a body as a set, and their       *)
(* order: what lists it, what comes before what.                           *)

Stmt(op, x) == [op |-> op, arg |-> x]
Listed(q) == {q[k] : k \in DOMAIN q}

\* q lists the elements of E and no other.
Arranges(q, E) == q \in Seq(E) /\ Listed(q) = E

\* x comes only before y.
ComesBefore(q, x, y) == \A k, j \in DOMAIN q : q[k] = x /\ q[j] = y => k < j

LEMMA ArrangesConcat ==
    ASSUME NEW S, NEW T, NEW s, NEW t, Arranges(s, S), Arranges(t, T)
    PROVE  Arranges(s \o t, S \cup T)
<1> USE DEF Arranges
<1>1. s \in Seq(S \cup T) /\ t \in Seq(S \cup T) OBVIOUS
<1>2. /\ s \o t \in Seq(S \cup T) /\ Len(s \o t) = Len(s) + Len(t)
      /\ \A i \in 1..Len(s) + Len(t) : (s \o t)[i] = IF i <= Len(s) THEN s[i] ELSE t[i - Len(s)]
  BY <1>1
<1>3. ASSUME NEW k \in DOMAIN (s \o t) PROVE (s \o t)[k] \in Listed(s) \cup Listed(t)
  <2>1. k \in 1..Len(s) + Len(t) BY <1>2
  <2>2. CASE k <= Len(s) BY <1>2, <2>1, <2>2 DEF Listed
  <2>3. CASE ~ (k <= Len(s))
    <3>1. k - Len(s) \in 1..Len(t) BY <2>1, <2>3
    <3> QED BY <1>2, <2>1, <2>3, <3>1 DEF Listed
  <2> QED BY <2>2, <2>3
<1>4. ASSUME NEW k \in DOMAIN s PROVE s[k] \in Listed(s \o t)
  <2>1. k \in 1..Len(s) + Len(t) /\ k <= Len(s) OBVIOUS
  <2>2. (s \o t)[k] = s[k] BY <1>2, <2>1
  <2> QED BY <1>2, <2>1, <2>2 DEF Listed
<1>5. ASSUME NEW k \in DOMAIN t PROVE t[k] \in Listed(s \o t)
  <2>1. k + Len(s) \in 1..Len(s) + Len(t) /\ ~ (k + Len(s) <= Len(s)) /\ (k + Len(s)) - Len(s) = k
    OBVIOUS
  <2>2. (s \o t)[k + Len(s)] = t[k] BY <1>2, <2>1
  <2> QED BY <1>2, <2>1, <2>2 DEF Listed
<1> QED BY <1>2, <1>3, <1>4, <1>5 DEF Listed

LEMMA OrderInConcat ==
    ASSUME NEW S, NEW T, NEW s, NEW t, Arranges(s, S), Arranges(t, T), NEW x, NEW y,
           ComesBefore(s, x, y), ComesBefore(t, x, y), x \notin T \/ y \notin S
    PROVE  ComesBefore(s \o t, x, y)
<1> USE DEF Arranges
<1>1. /\ s \in Seq(S \cup T) /\ t \in Seq(S \cup T) OBVIOUS
<1>2. /\ s \o t \in Seq(S \cup T) /\ Len(s \o t) = Len(s) + Len(t)
      /\ \A i \in 1..Len(s) + Len(t) : (s \o t)[i] = IF i <= Len(s) THEN s[i] ELSE t[i - Len(s)]
  BY <1>1
<1>3. SUFFICES ASSUME NEW k \in 1..Len(s) + Len(t), NEW j \in 1..Len(s) + Len(t),
                      (s \o t)[k] = x, (s \o t)[j] = y
               PROVE  k < j
  BY <1>2 DEF ComesBefore
<1>4. Len(s) \in Nat /\ Len(t) \in Nat /\ DOMAIN s = 1..Len(s) /\ DOMAIN t = 1..Len(t) OBVIOUS
<1>5. CASE k <= Len(s) /\ j <= Len(s)
  <2>1. s[k] = x /\ s[j] = y /\ k \in DOMAIN s /\ j \in DOMAIN s BY <1>2, <1>3, <1>4, <1>5
  <2> QED BY <2>1 DEF ComesBefore
<1>6. CASE ~ (k <= Len(s)) /\ ~ (j <= Len(s))
  <2>1. /\ t[k - Len(s)] = x /\ t[j - Len(s)] = y
        /\ k - Len(s) \in DOMAIN t /\ j - Len(s) \in DOMAIN t
    BY <1>2, <1>3, <1>4, <1>6
  <2>2. k - Len(s) < j - Len(s) BY <2>1 DEF ComesBefore
  <2> QED BY <2>2, <1>4
<1>7. CASE k <= Len(s) /\ ~ (j <= Len(s)) BY <1>7, <1>4
<1>8. CASE ~ (k <= Len(s)) /\ j <= Len(s)
  <2>1. t[k - Len(s)] = x /\ s[j] = y /\ k - Len(s) \in DOMAIN t /\ j \in DOMAIN s
    BY <1>2, <1>3, <1>4, <1>8
  <2>2. x \in Listed(t) /\ y \in Listed(s) BY <2>1 DEF Listed
  <2> QED BY <2>2
<1> QED BY <1>5, <1>6, <1>7, <1>8

\* An element that is not there comes before nothing and after nothing.
LEMMA OrderOfAbsent ==
    ASSUME NEW S, NEW q, Arranges(q, S), NEW x, NEW y, x \notin S \/ y \notin S
    PROVE  ComesBefore(q, x, y)
BY DEF ComesBefore, Listed, Arranges

LEMMA SetListed ==
    ASSUME NEW S, IsFiniteSet(S)
    PROVE  /\ SetToSeq(S) \in [1..Cardinality(S) -> S] /\ Cardinality(S) \in Nat
           /\ Listed(SetToSeq(S)) = S
           /\ \A i, j \in 1..Cardinality(S) : SetToSeq(S)[i] = SetToSeq(S)[j] => i = j
<1> DEFINE n == Cardinality(S)
           q == SetToSeq(S)
<1>1. n \in Nat /\ \E f : f \in Bijection(1..n, S) BY FS_CardinalityType DEF ExistsBijection
<1>2. PICK f : f \in Bijection(1..n, S) BY <1>1
<1>3. f \in [1..n -> S] /\ IsInjective(f)
  BY <1>2 DEF Bijection, Injection, IsInjective
<1>4. q \in [1..n -> S] /\ IsInjective(q) BY <1>3 DEF SetToSeq
<1>5. q \in Injection(1..n, S) BY <1>4 DEF Injection, IsInjective
<1>6. IsFiniteSet(1..n) /\ Cardinality(1..n) = n
  <2>1. /\ IsFiniteSet(1..n)
        /\ Cardinality(1..n) = IF 1 > n THEN 0 ELSE n - 1 + 1
    BY <1>1, FS_Interval
  <2> QED BY <1>1, <2>1
<1>7. q \in Surjection(1..n, S)
  <2> HIDE DEF q
  <2> QED BY <1>5, <1>6, FS_Injection
<1>8. Listed(q) = S
  <2> HIDE DEF q
  <2> QED BY <1>4, <1>7 DEF Listed, Surjection
<1> QED BY <1>1, <1>4, <1>8 DEF IsInjective

LEMMA EachLists ==
    ASSUME NEW op, NEW S, IsFiniteSet(S)
    PROVE  Arranges(Each(op, S), {Stmt(op, x) : x \in S})
<1> DEFINE made == {Stmt(op, x) : x \in S}
           q == SetToSeq(S)
           n == Cardinality(S)
<1>1. q \in [1..n -> S] /\ n \in Nat /\ Listed(q) = S BY SetListed
<1> HIDE DEF q, n
<1>2. Len(q) = n BY <1>1
<1>3. Each(op, S) = [k \in 1..n |-> [op |-> op, arg |-> q[k]]] BY <1>2 DEF Each, q
<1>4. \A k \in 1..n : Stmt(op, q[k]) \in made BY <1>1
<1>5. Each(op, S) \in [1..n -> made] BY <1>3, <1>4 DEF Stmt
<1>6. Listed(Each(op, S)) = made
  <2>1. ASSUME NEW x \in S PROVE Stmt(op, x) \in Listed(Each(op, S))
    <3>1. PICK k \in 1..n : q[k] = x BY <1>1 DEF Listed
    <3> QED BY <1>3, <3>1 DEF Listed, Stmt
  <2>2. Listed(Each(op, S)) \subseteq made BY <1>5 DEF Listed
  <2> QED BY <2>1, <2>2
<1> QED BY <1>1, <1>5, <1>6 DEF Arranges

LEMMA DoLists == ASSUME NEW op, NEW x PROVE Arranges(Do(op, x), {Stmt(op, x)})
BY DEF Do, Stmt, Listed, Arranges

Flattens(f, seqs) ==
    f = [i \in 1..Len(seqs) |-> IF i = 1 THEN seqs[i] ELSE f[i - 1] \o seqs[i]]

LEMMA FlattenUnfolds ==
    ASSUME NEW seqs, Len(seqs) \in Nat, Len(seqs) # 0
    PROVE  \E f : Flattens(f, seqs) /\ FlattenSeq(seqs) = f[Len(seqs)]
<1> DEFINE n == Len(seqs)
           Upto(f, m) == f = [i \in 1..m |-> IF i = 1 THEN seqs[i] ELSE f[i - 1] \o seqs[i]]
           G == {m \in Nat : \E f : Upto(f, m)}
<1>1. 0 \in G
  <2>1. Upto([i \in 1..0 |-> 0], 0) OBVIOUS
  <2> QED BY <2>1
<1>2. ASSUME NEW m \in Nat, m \in G PROVE m + 1 \in G
  <2>1. PICK f : Upto(f, m) BY <1>2
  <2> DEFINE x == IF m = 0 THEN seqs[1] ELSE f[m] \o seqs[m + 1]
             g == [i \in 1..m + 1 |-> IF i = m + 1 THEN x ELSE f[i]]
  <2>2. ASSUME NEW i \in 1..m + 1 PROVE g[i] = IF i = 1 THEN seqs[i] ELSE g[i - 1] \o seqs[i]
    <3>1. CASE i = m + 1
      <4>1. CASE m = 0 BY <3>1, <4>1
      <4>2. CASE m # 0
        <5>1. i # 1 /\ i - 1 = m /\ m \in 1..m + 1 /\ m # m + 1 BY <3>1, <4>2
        <5>2. g[i] = f[m] \o seqs[m + 1] /\ g[i - 1] = f[m] BY <3>1, <4>2, <5>1
        <5> QED BY <3>1, <5>1, <5>2
      <4> QED BY <4>1, <4>2
    <3>2. CASE i # m + 1
      <4>1. i \in 1..m BY <3>2
      <4>2. g[i] = f[i] BY <3>2
      <4>3. f[i] = IF i = 1 THEN seqs[i] ELSE f[i - 1] \o seqs[i] BY <2>1, <4>1
      <4>4. i # 1 => i - 1 \in 1..m + 1 /\ i - 1 # m + 1 BY <4>1
      <4>5. i # 1 => g[i - 1] = f[i - 1] BY <4>4
      <4> QED BY <4>2, <4>3, <4>5
    <3> QED BY <3>1, <3>2
  <2>3. Upto(g, m + 1) BY <2>2
  <2> HIDE DEF Upto
  <2> QED BY <2>3
<1>3. Nat \subseteq G
  <2> HIDE DEF G
  <2> QED BY <1>1, <1>2, AllNaturals
<1>4. \E f : Flattens(f, seqs) BY <1>3 DEF Flattens
<1> DEFINE flatten == CHOOSE f : Flattens(f, seqs)
<1>5. Flattens(flatten, seqs) BY <1>4
<1>6. FlattenSeq(seqs) = flatten[n] BY DEF FlattenSeq, Flattens
<1> HIDE DEF flatten
<1> QED BY <1>5, <1>6

TodoPart(todos_, s) == Do("clear_todos", s) \o Each("todo", {t \in todos_ : t[1] = s})

LEMMA TodoPartIs ==
    ASSUME NEW T, IsFiniteSet(T), NEW s
    PROVE  /\ Arranges(TodoPart(T, s),
                       {Stmt("clear_todos", s)} \cup {Stmt("todo", t) : t \in {u \in T : u[1] = s}})
           /\ \A t \in T : ComesBefore(TodoPart(T, s), Stmt("clear_todos", t[1]), Stmt("todo", t))
<1> DEFINE own == {u \in T : u[1] = s}
           A == {Stmt("clear_todos", s)}
           B == {Stmt("todo", t) : t \in own}
           a == Do("clear_todos", s)
           b == Each("todo", own)
<1>1. Arranges(a, A) BY DoLists
<1>2. Arranges(b, B)
  <2>1. IsFiniteSet(own) BY FS_Subset
  <2> HIDE DEF own
  <2> QED BY <2>1, EachLists
<1>3. TodoPart(T, s) = a \o b BY DEF TodoPart
<1>4. ASSUME NEW t \in T PROVE Stmt("todo", t) \notin A /\ Stmt("clear_todos", t[1]) \notin B
  BY DEF Stmt
<1> HIDE DEF A, B, a, b
<1>5. Arranges(a \o b, A \cup B) BY <1>1, <1>2, ArrangesConcat
<1>6. ASSUME NEW t \in T PROVE ComesBefore(a \o b, Stmt("clear_todos", t[1]), Stmt("todo", t))
  <2> DEFINE x == Stmt("clear_todos", t[1])
             y == Stmt("todo", t)
  <2>1. y \notin A /\ x \notin B BY <1>4
  <2> HIDE DEF x, y
  <2>2. ComesBefore(a, x, y) /\ ComesBefore(b, x, y) BY <1>1, <1>2, <2>1, OrderOfAbsent
  <2>3. ComesBefore(a \o b, x, y) BY <1>1, <1>2, <2>1, <2>2, OrderInConcat
  <2> QED BY <2>3 DEF x, y
<1> QED BY <1>3, <1>5, <1>6 DEF A, B

TodoStmts(T) == {Stmt("clear_todos", t[1]) : t \in T} \cup {Stmt("todo", t) : t \in T}

LEMMA TodoStatementsAre ==
    ASSUME NEW body, IsFiniteSet(body.todos)
    PROVE  /\ Arranges(TodoStatements(body), TodoStmts(body.todos))
           /\ \A t \in body.todos :
                 ComesBefore(TodoStatements(body), Stmt("clear_todos", t[1]), Stmt("todo", t))
<1> DEFINE T == body.todos
           owners == {t[1] : t \in T}
           ss == SetToSeq(owners)
           n == Cardinality(owners)
           seqs == [k \in 1..n |-> TodoPart(T, ss[k])]
           upto(i) == {Stmt("clear_todos", t[1]) : t \in {u \in T : \E k \in 1..i : u[1] = ss[k]}}
                      \cup {Stmt("todo", t) : t \in {u \in T : \E k \in 1..i : u[1] = ss[k]}}
<1>1. IsFiniteSet(owners)
  <2> DEFINE owner == [t \in T |-> t[1]]
  <2>1. owner \in Surjection(T, owners) BY DEF Surjection
  <2> HIDE DEF owner, owners
  <2> QED BY <2>1, FS_Surjection
<1>2. /\ ss \in [1..n -> owners] /\ n \in Nat /\ Listed(ss) = owners
      /\ \A i, j \in 1..n : ss[i] = ss[j] => i = j
  <2> HIDE DEF owners
  <2> QED BY <1>1, SetListed
<1>3. Len(ss) = n /\ Len(seqs) = n BY <1>2
<1>4. TodoStatements(body) = FlattenSeq(seqs)
  <2>1. seqs = [k \in 1..Len(ss) |-> Do("clear_todos", ss[k]) \o Each("todo", {t \in T : t[1] = ss[k]})]
    <3> HIDE DEF ss, n
    <3> QED BY <1>3 DEF TodoPart
  <2> HIDE DEF seqs
  <2> QED BY <2>1 DEF TodoStatements
<1> HIDE DEF ss, n
<1>5. CASE n = 0
  <2>1. owners = {} BY <1>1, <1>5, FS_EmptySet DEF n
  <2>2. T = {} BY <2>1
  <2>3. seqs = <<>> BY <1>5
  <2>4. TodoStatements(body) = <<>>
    <3> HIDE DEF seqs
    <3> QED BY <1>3, <1>4, <1>5, <2>3 DEF FlattenSeq
  <2> QED BY <2>2, <2>4 DEF TodoStmts, Listed, Arranges
<1>6. CASE n # 0
  <2>1. PICK f : Flattens(f, seqs) /\ FlattenSeq(seqs) = f[n]
    <3> HIDE DEF seqs
    <3> QED BY <1>2, <1>3, <1>6, FlattenUnfolds
  <2>2. \A i \in 1..n : f[i] = IF i = 1 THEN TodoPart(T, ss[i]) ELSE f[i - 1] \o TodoPart(T, ss[i])
    BY <1>3, <2>1 DEF Flattens
  <2> DEFINE Good(i) == /\ Arranges(f[i], upto(i))
                        /\ \A t \in T : ComesBefore(f[i], Stmt("clear_todos", t[1]), Stmt("todo", t))
             G == {m \in Nat : m + 1 \in 1..n => Good(m + 1)}
             part(i) == {Stmt("clear_todos", ss[i])} \cup {Stmt("todo", t) : t \in {u \in T : u[1] = ss[i]}}
  <2>3. ASSUME NEW i \in 1..n
        PROVE  /\ Arranges(TodoPart(T, ss[i]), part(i))
               /\ \A t \in T : ComesBefore(TodoPart(T, ss[i]), Stmt("clear_todos", t[1]), Stmt("todo", t))
    BY TodoPartIs
  <2>4. ASSUME NEW i \in 1..n
        PROVE  upto(i) = part(i) \cup (IF i = 1 THEN {} ELSE upto(i - 1))
    <3>1. PICK t \in T : t[1] = ss[i] BY <1>2
    <3>2. \A k : k \in 1..i <=> k = i \/ (i # 1 /\ k \in 1..i - 1) BY <1>2
    <3>3. ASSUME NEW u \in T
          PROVE  (\E k \in 1..i : u[1] = ss[k]) <=> (u[1] = ss[i] \/ (i # 1 /\ \E k \in 1..i - 1 : u[1] = ss[k]))
      BY <3>2
    <3>4. upto(i) \subseteq part(i) \cup (IF i = 1 THEN {} ELSE upto(i - 1)) BY <3>3
    <3>5. part(i) \subseteq upto(i) BY <3>1, <3>3
    <3>6. i # 1 => upto(i - 1) \subseteq upto(i) BY <3>3
    <3> QED BY <3>4, <3>5, <3>6
  <2>5. 0 \in G
    <3>1. 1 \in 1..n BY <1>2, <1>6
    <3>2. f[1] = TodoPart(T, ss[1]) BY <2>2, <3>1
    <3>3. upto(1) = part(1) BY <2>4, <3>1
    <3> HIDE DEF upto, part
    <3> QED BY <2>3, <3>1, <3>2, <3>3
  <2>6. ASSUME NEW m \in Nat, m \in G PROVE m + 1 \in G
    <3>1. SUFFICES ASSUME (m + 1) + 1 \in 1..n PROVE Good((m + 1) + 1) OBVIOUS
    <3> DEFINE i == m + 1
               j == i + 1
    <3>2. i \in 1..n /\ j \in 1..n /\ j # 1 /\ j - 1 = i BY <1>2, <3>1
    <3>3. Good(i) BY <2>6, <3>2
    <3>4. f[j] = f[i] \o TodoPart(T, ss[j]) BY <2>2, <3>2
    <3>5. upto(j) = part(j) \cup upto(i) BY <2>4, <3>2
    <3>6. ASSUME NEW t \in T
          PROVE  Stmt("clear_todos", t[1]) \notin part(j) \/ Stmt("todo", t) \notin upto(i)
      <4>1. SUFFICES ASSUME Stmt("clear_todos", t[1]) \in part(j), Stmt("todo", t) \in upto(i) PROVE FALSE
        OBVIOUS
      <4>2. t[1] = ss[j] BY <4>1 DEF Stmt
      <4>3. PICK k \in 1..i : t[1] = ss[k] BY <4>1 DEF Stmt
      <4>4. k \in 1..n /\ k # j
        <5>1. k \in Nat /\ m \in Nat /\ n \in Nat /\ 1 <= k /\ k <= m + 1 /\ (m + 1) + 1 <= n
          BY <1>2, <3>1, <4>3
        <5> QED BY <5>1
      <4> QED BY <1>2, <3>2, <4>2, <4>3, <4>4
    <3>7. /\ Arranges(TodoPart(T, ss[j]), part(j))
          /\ \A t \in T : ComesBefore(TodoPart(T, ss[j]), Stmt("clear_todos", t[1]), Stmt("todo", t))
      BY <2>3, <3>2
    <3> HIDE DEF upto, part, i, j
    <3>8. Arranges(f[j], upto(i) \cup part(j)) BY <3>3, <3>4, <3>7, ArrangesConcat
    <3>9. ASSUME NEW t \in T PROVE ComesBefore(f[j], Stmt("clear_todos", t[1]), Stmt("todo", t))
      <4> DEFINE x == Stmt("clear_todos", t[1])
                 y == Stmt("todo", t)
                 a == f[i]
                 b == TodoPart(T, ss[j])
                 A == upto(i)
                 B == part(j)
      <4>1. /\ Arranges(a, A) /\ Arranges(b, B) /\ ComesBefore(a, x, y) /\ ComesBefore(b, x, y)
            /\ x \notin B \/ y \notin A
        BY <3>3, <3>6, <3>7
      <4>2. f[j] = a \o b BY <3>4
      <4> HIDE DEF x, y, a, b, A, B
      <4>3. ComesBefore(a \o b, x, y) BY <4>1, OrderInConcat
      <4> QED BY <4>2, <4>3 DEF x, y
    <3>10. upto(i) \cup part(j) = upto(j) BY <3>5
    <3>11. Good(j) BY <3>8, <3>9, <3>10
    <3> QED BY <3>11 DEF j, i
  <2>7. Nat \subseteq G
    <3> HIDE DEF G
    <3> QED BY <2>5, <2>6, AllNaturals
  <2>8. Good(n)
    <3>1. n \in Nat BY <1>2
    <3>2. n - 1 \in Nat /\ (n - 1) + 1 = n /\ n \in 1..n BY <3>1, <1>6
    <3>3. n - 1 \in G
      <4> HIDE DEF G
      <4> QED BY <3>2, <2>7
    <3> HIDE DEF Good
    <3> QED BY <3>2, <3>3
  <2>9. upto(n) = TodoStmts(T)
    <3>1. DOMAIN ss = 1..n BY <1>2
    <3>2. ASSUME NEW u \in T PROVE \E k \in 1..n : u[1] = ss[k]
      <4>1. u[1] \in Listed(ss) BY <1>2
      <4> QED BY <3>1, <4>1 DEF Listed
    <3> QED BY <3>2 DEF TodoStmts
  <2> QED BY <1>4, <2>1, <2>8, <2>9
<1> QED BY <1>5, <1>6

DirectoryStmts(D) ==
    IF D \ {Blank} = {} /\ D # {} THEN {}
    ELSE {Stmt("clear_directories", 0)} \cup {Stmt("directory", d) : d \in D \ {Blank}}

LEMMA DirectoryStatementsAre ==
    ASSUME NEW body, IsFiniteSet(body.directories)
    PROVE  /\ Arranges(DirectoryStatements(body), DirectoryStmts(body.directories))
           /\ \A d \in body.directories :
                 ComesBefore(DirectoryStatements(body), Stmt("clear_directories", 0), Stmt("directory", d))
<1> DEFINE paths == body.directories \ {Blank}
           A == {Stmt("clear_directories", 0)}
           B == {Stmt("directory", d) : d \in paths}
           a == Do("clear_directories", 0)
           b == Each("directory", paths)
           x == Stmt("clear_directories", 0)
<1>1. CASE paths = {} /\ body.directories # {}
  <2>1. DirectoryStatements(body) = <<>> BY <1>1 DEF DirectoryStatements
  <2>2. DirectoryStmts(body.directories) = {} BY <1>1 DEF DirectoryStmts
  <2> QED BY <2>1, <2>2 DEF Arranges, Listed, ComesBefore
<1>2. CASE ~ (paths = {} /\ body.directories # {})
  <2>1. Arranges(a, A) BY DoLists
  <2>2. Arranges(b, B)
    <3>1. IsFiniteSet(paths) BY FS_Subset
    <3> HIDE DEF paths
    <3> QED BY <3>1, EachLists
  <2>3. DirectoryStatements(body) = a \o b /\ DirectoryStmts(body.directories) = A \cup B
    BY <1>2 DEF DirectoryStatements, DirectoryStmts
  <2>4. \A y \in B : y \notin A BY DEF Stmt
  <2>5. x \notin B BY DEF Stmt
  <2>6. ASSUME NEW d \in body.directories PROVE Stmt("directory", d) \notin A BY DEF Stmt
  <2> HIDE DEF A, B, a, b, x
  <2>7. Arranges(a \o b, A \cup B) BY <2>1, <2>2, ArrangesConcat
  <2>8. ASSUME NEW d \in body.directories PROVE ComesBefore(a \o b, x, Stmt("directory", d))
    <3> DEFINE y == Stmt("directory", d)
    <3>1. y \notin A BY <2>6
    <3> HIDE DEF y
    <3>2. ComesBefore(a, x, y) /\ ComesBefore(b, x, y) BY <2>1, <2>2, <2>5, <3>1, OrderOfAbsent
    <3>3. ComesBefore(a \o b, x, y) BY <2>1, <2>2, <2>5, <3>2, OrderInConcat
    <3> QED BY <3>3 DEF y
  <2> QED BY <2>3, <2>7, <2>8 DEF x
<1> QED BY <1>1, <1>2

Stmts(op, S) == {Stmt(op, x) : x \in S}

LEMMA EachListsAll == ASSUME NEW op, NEW S, IsFiniteSet(S) PROVE Arranges(Each(op, S), Stmts(op, S))
BY EachLists DEF Stmts

AllStmts(b) ==
    ((((Stmts("project", b.projects) \cup Stmts("context", b.contexts)) \cup DirectoryStmts(b.directories))
      \cup TodoStmts(b.todos)) \cup Stmts("message", b.messages)) \cup Stmts("part", b.parts)

\* Statements added behind keep the order when the first is not among them,
\* statements added in front keep it when the last is not among them.
LEMMA OrderKeptInFront ==
    ASSUME NEW S, NEW T, NEW s, NEW t, Arranges(s, S), Arranges(t, T), NEW x, NEW y,
           ComesBefore(s, x, y), x \notin T
    PROVE  ComesBefore(s \o t, x, y)
<1>1. ComesBefore(t, x, y) BY OrderOfAbsent
<1> QED BY <1>1, OrderInConcat

LEMMA OrderKeptBehind ==
    ASSUME NEW S, NEW T, NEW s, NEW t, Arranges(s, S), Arranges(t, T), NEW x, NEW y,
           ComesBefore(t, x, y), y \notin S
    PROVE  ComesBefore(s \o t, x, y)
<1>1. ComesBefore(s, x, y) BY OrderOfAbsent
<1> QED BY <1>1, OrderInConcat

LEMMA StatementsAre ==
    ASSUME NEW b \in ProjectionRequests
    PROVE  /\ Arranges(Statements(b), AllStmts(b))
           /\ \A p, c : ComesBefore(Statements(b), Stmt("project", p), Stmt("context", c))
           /\ \A d \in b.directories :
                 ComesBefore(Statements(b), Stmt("clear_directories", 0), Stmt("directory", d))
           /\ \A t \in b.todos : ComesBefore(Statements(b), Stmt("clear_todos", t[1]), Stmt("todo", t))
<1> DEFINE P == Stmts("project", b.projects)
           C == Stmts("context", b.contexts)
           D == DirectoryStmts(b.directories)
           T == TodoStmts(b.todos)
           M == Stmts("message", b.messages)
           R == Stmts("part", b.parts)
           p1 == Each("project", b.projects)
           p2 == Each("context", b.contexts)
           p3 == DirectoryStatements(b)
           p4 == TodoStatements(b)
           p5 == Each("message", b.messages)
           p6 == Each("part", b.parts)
<1>1. /\ IsFiniteSet(b.projects) /\ IsFiniteSet(b.contexts) /\ IsFiniteSet(b.directories)
      /\ IsFiniteSet(b.todos) /\ IsFiniteSet(b.messages) /\ IsFiniteSet(b.parts)
  BY ProjectionAssumption
<1>2. /\ Arranges(p1, P) /\ Arranges(p2, C) /\ Arranges(p5, M) /\ Arranges(p6, R)
  BY <1>1, EachListsAll
<1>3. /\ Arranges(p3, D)
      /\ \A d \in b.directories : ComesBefore(p3, Stmt("clear_directories", 0), Stmt("directory", d))
  BY <1>1, DirectoryStatementsAre
<1>4. /\ Arranges(p4, T) /\ \A t \in b.todos : ComesBefore(p4, Stmt("clear_todos", t[1]), Stmt("todo", t))
  BY <1>1, TodoStatementsAre
<1>5. Statements(b) = ((((p1 \o p2) \o p3) \o p4) \o p5) \o p6 BY DEF Statements
<1>6. AllStmts(b) = ((((P \cup C) \cup D) \cup T) \cup M) \cup R BY DEF AllStmts
<1>7. /\ \A e \in P : e.op = "project"
      /\ \A e \in C : e.op = "context"
      /\ \A e \in D : e.op \in {"clear_directories", "directory"}
      /\ \A e \in T : e.op \in {"clear_todos", "todo"}
      /\ \A e \in M : e.op = "message"
      /\ \A e \in R : e.op = "part"
  BY DEF Stmts, DirectoryStmts, TodoStmts, Stmt
<1>8. \A op, x : Stmt(op, x).op = op BY DEF Stmt
<1> HIDE DEF P, C, D, T, M, R, p1, p2, p3, p4, p5, p6
<1> DEFINE q2 == p1 \o p2
           q3 == q2 \o p3
           q4 == q3 \o p4
           q5 == q4 \o p5
           q6 == q5 \o p6
<1>9. Arranges(q2, P \cup C) BY <1>2, ArrangesConcat
<1> HIDE DEF q2
<1>10. Arranges(q3, (P \cup C) \cup D) BY <1>3, <1>9, ArrangesConcat
<1> HIDE DEF q3
<1>11. Arranges(q4, ((P \cup C) \cup D) \cup T) BY <1>4, <1>10, ArrangesConcat
<1> HIDE DEF q4
<1>12. Arranges(q5, (((P \cup C) \cup D) \cup T) \cup M) BY <1>2, <1>11, ArrangesConcat
<1> HIDE DEF q5
<1>13. Arranges(q6, ((((P \cup C) \cup D) \cup T) \cup M) \cup R) BY <1>2, <1>12, ArrangesConcat
<1> HIDE DEF q6
<1>14. ASSUME NEW p, NEW c PROVE ComesBefore(q6, Stmt("project", p), Stmt("context", c))
  <2> DEFINE x == Stmt("project", p)
             y == Stmt("context", c)
  <2>1. x \notin C /\ x \notin D /\ x \notin T /\ x \notin M /\ x \notin R /\ y \notin P BY <1>7, <1>8
  <2> HIDE DEF x, y
  <2>2. ComesBefore(p1, x, y) BY <1>2, <2>1, OrderOfAbsent
  <2>3. ComesBefore(q2, x, y) BY <1>2, <2>1, <2>2, OrderKeptInFront DEF q2
  <2>4. ComesBefore(q3, x, y) BY <1>3, <1>9, <2>1, <2>3, OrderKeptInFront DEF q3
  <2>5. ComesBefore(q4, x, y) BY <1>4, <1>10, <2>1, <2>4, OrderKeptInFront DEF q4
  <2>6. ComesBefore(q5, x, y) BY <1>2, <1>11, <2>1, <2>5, OrderKeptInFront DEF q5
  <2>7. ComesBefore(q6, x, y) BY <1>2, <1>12, <2>1, <2>6, OrderKeptInFront DEF q6
  <2> QED BY <2>7 DEF x, y
<1>15. ASSUME NEW d \in b.directories
       PROVE  ComesBefore(q6, Stmt("clear_directories", 0), Stmt("directory", d))
  <2> DEFINE x == Stmt("clear_directories", 0)
             y == Stmt("directory", d)
             PC == P \cup C
  <2>1. x \notin T /\ x \notin M /\ x \notin R /\ y \notin PC BY <1>7, <1>8
  <2>2. ComesBefore(p3, x, y) BY <1>3
  <2> HIDE DEF x, y
  <2>3. Arranges(q2, PC) BY <1>9
  <2> HIDE DEF PC
  <2>4. ComesBefore(q3, x, y) BY <1>3, <2>1, <2>2, <2>3, OrderKeptBehind DEF q3
  <2>5. ComesBefore(q4, x, y) BY <1>4, <1>10, <2>1, <2>4, OrderKeptInFront DEF q4
  <2>6. ComesBefore(q5, x, y) BY <1>2, <1>11, <2>1, <2>5, OrderKeptInFront DEF q5
  <2>7. ComesBefore(q6, x, y) BY <1>2, <1>12, <2>1, <2>6, OrderKeptInFront DEF q6
  <2> QED BY <2>7 DEF x, y
<1>16. ASSUME NEW t \in b.todos PROVE ComesBefore(q6, Stmt("clear_todos", t[1]), Stmt("todo", t))
  <2> DEFINE x == Stmt("clear_todos", t[1])
             y == Stmt("todo", t)
             PCD == (P \cup C) \cup D
  <2>1. x \notin M /\ x \notin R /\ y \notin PCD BY <1>7, <1>8
  <2>2. ComesBefore(p4, x, y) BY <1>4
  <2> HIDE DEF x, y
  <2>3. Arranges(q3, PCD) BY <1>10
  <2> HIDE DEF PCD
  <2>4. ComesBefore(q4, x, y) BY <1>4, <2>1, <2>2, <2>3, OrderKeptBehind DEF q4
  <2>5. ComesBefore(q5, x, y) BY <1>2, <1>11, <2>1, <2>4, OrderKeptInFront DEF q5
  <2>6. ComesBefore(q6, x, y) BY <1>2, <1>12, <2>1, <2>5, OrderKeptInFront DEF q6
  <2> QED BY <2>6 DEF x, y
<1>17. Statements(b) = q6 BY <1>5 DEF q2, q3, q4, q5, q6
<1> QED BY <1>6, <1>13, <1>14, <1>15, <1>16, <1>17

-----------------------------------------------------------------------------
(* Where a request stands: what is done, what comes next, and which        *)
(* statements must be behind it by then.                                   *)

DoneUpTo(q, i) == {q[k] : k \in 1..i}

LEMMA NextInOrder ==
    ASSUME NEW b \in ProjectionRequests, NEW i \in 0..Len(Statements(b)),
           SubSeq(Statements(b), i + 1, Len(Statements(b))) # <<>>
    PROVE  LET q == Statements(b)
               rest == SubSeq(q, i + 1, Len(q))
               st == Head(rest)
               done == DoneUpTo(q, i)
           IN  /\ i + 1 \in 0..Len(q) /\ Tail(rest) = SubSeq(q, i + 2, Len(q))
               /\ DoneUpTo(q, i + 1) = done \cup {st}
               /\ st \in AllStmts(b) /\ st = Stmt(st.op, st.arg)
               /\ st.op = "context" => \A p \in b.projects : Stmt("project", p) \in done
               /\ st.op = "clear_directories" => st.arg = 0 /\ \A d \in b.directories : Stmt("directory", d) \notin done
               /\ st.op = "clear_todos" => \A t \in b.todos : t[1] = st.arg => Stmt("todo", t) \notin done
<1> DEFINE q == Statements(b)
           n == Len(q)
           rest == SubSeq(q, i + 1, n)
           st == Head(rest)
           done == DoneUpTo(q, i)
           S == AllStmts(b)
<1>1. q \in Seq(S) /\ Listed(q) = S BY StatementsAre DEF Arranges
<1>2. /\ \A p, c : ComesBefore(q, Stmt("project", p), Stmt("context", c))
      /\ \A d \in b.directories : ComesBefore(q, Stmt("clear_directories", 0), Stmt("directory", d))
      /\ \A t \in b.todos : ComesBefore(q, Stmt("clear_todos", t[1]), Stmt("todo", t))
  BY StatementsAre
<1> HIDE DEF q, S
<1>3. n \in Nat /\ i \in 0..n /\ DOMAIN q = 1..n BY <1>1 DEF q
<1>4. rest # <<>> BY DEF q
<1> HIDE DEF n
<1>5. i < n
  <2>1. SUFFICES ASSUME i = n PROVE FALSE BY <1>3
  <2>2. n = Len(q) BY DEF n
  <2>3. rest = <<>> BY <1>1, <1>3, <2>1, <2>2
  <2> QED BY <1>4, <2>3
<1>6. n = Len(q) BY DEF n
<1>7. st = q[i + 1] /\ Tail(rest) = SubSeq(q, i + 2, n)
  <2>1. i + 1 \in 1..n BY <1>3, <1>5
  <2>2. n \in (i + 1)..n /\ (i + 1) + 1 = i + 2 BY <1>3, <1>5
  <2> HIDE DEF S
  <2>3. i + 1 \in 1..Len(q) /\ n \in (i + 1)..Len(q) BY <1>6, <2>1, <2>2
  <2>4. /\ Head(SubSeq(q, i + 1, n)) = q[i + 1]
        /\ Tail(SubSeq(q, i + 1, n)) = SubSeq(q, (i + 1) + 1, n)
    BY <1>1, <2>3, HeadTailOfSubSeq
  <2> QED BY <2>2, <2>4
<1>8. i + 1 \in 0..n /\ i + 1 \in DOMAIN q /\ \A k : k \in 1..i + 1 <=> k \in 1..i \/ k = i + 1
  BY <1>3, <1>5
<1>9. DoneUpTo(q, i + 1) = done \cup {st}
  <2> HIDE DEF st
  <2> QED BY <1>7, <1>8 DEF DoneUpTo
<1>10. st \in S BY <1>1, <1>7, <1>8 DEF Listed
<1>11. /\ st = Stmt(st.op, st.arg)
       /\ st.op = "clear_directories" => st.arg = 0
       /\ st.op = "clear_todos" => \E t \in b.todos : st.arg = t[1]
  <2> HIDE DEF st
  <2> QED BY <1>10 DEF S, AllStmts, Stmts, DirectoryStmts, TodoStmts, Stmt
<1>12. \A e : e \in done => \E k \in DOMAIN q : q[k] = e /\ k < i + 1
  BY <1>3, <1>5 DEF DoneUpTo
<1>13. \A k \in DOMAIN q : k < i + 1 => q[k] \in done
  BY <1>3, <1>5 DEF DoneUpTo
<1> HIDE DEF st, done
<1>14. ASSUME st.op = "context", NEW p \in b.projects PROVE Stmt("project", p) \in done
  <2>1. Stmt("project", p) \in S BY DEF S, AllStmts, Stmts
  <2>2. PICK k \in DOMAIN q : q[k] = Stmt("project", p) BY <1>1, <2>1 DEF Listed
  <2>3. q[i + 1] = Stmt("context", st.arg) BY <1>7, <1>11, <1>14
  <2>4. k < i + 1 BY <1>2, <1>8, <2>2, <2>3 DEF ComesBefore
  <2> QED BY <1>13, <2>2, <2>4
<1>15. ASSUME st.op = "clear_directories", NEW d \in b.directories, Stmt("directory", d) \in done
       PROVE  FALSE
  <2>1. PICK k \in DOMAIN q : q[k] = Stmt("directory", d) /\ k < i + 1 BY <1>12, <1>15
  <2>2. q[i + 1] = Stmt("clear_directories", 0) BY <1>7, <1>11, <1>15
  <2>3. i + 1 < k BY <1>2, <1>8, <2>1, <2>2 DEF ComesBefore
  <2> QED BY <1>3, <2>1, <2>3
<1>16. ASSUME st.op = "clear_todos", NEW t \in b.todos, t[1] = st.arg, Stmt("todo", t) \in done
       PROVE  FALSE
  <2>1. PICK k \in DOMAIN q : q[k] = Stmt("todo", t) /\ k < i + 1 BY <1>12, <1>16
  <2>2. q[i + 1] = Stmt("clear_todos", t[1]) BY <1>7, <1>11, <1>16
  <2>3. i + 1 < k BY <1>2, <1>8, <2>1, <2>2 DEF ComesBefore
  <2> QED BY <1>3, <2>1, <2>3
<1> QED BY <1>7, <1>8, <1>9, <1>10, <1>11, <1>14, <1>15, <1>16 DEF q, n, rest, st, done, S

-----------------------------------------------------------------------------
(* The invariant.  A request that is alone has left a suffix of its        *)
(* statements and has achieved what those before it stand for; nothing is  *)
(* claimed of requests that cross.                                         *)

Accomplished(b, done) ==
    /\ b.sessions \subseteq knownSessions
    /\ \A p \in b.projects : Stmt("project", p) \in done => p \in sourceProjects
    /\ \A c \in b.contexts : Stmt("context", c) \in done =>
          /\ c[1] \in DOMAIN sessionContexts
          /\ c[2] \in b.projects => sessionContexts[c[1]].project
          /\ c[1] \in b.sessions => sessionContexts[c[1]].session
    /\ Stmt("clear_directories", 0) \in done =>
          directories = {d \in b.directories \ {Blank} : Stmt("directory", d) \in done}
    /\ \A s : Stmt("clear_todos", s) \in done =>
          {t \in todos : t[1] = s} = {t \in b.todos : t[1] = s /\ Stmt("todo", t) \in done}

\* Between requests a worker is Free; a record has these five fields.
ProjectionRow(r) ==
    /\ r = [body |-> r.body, left |-> r.left, accepted |-> r.accepted, rejected |-> r.rejected, alone |-> r.alone]
    /\ r.alone \in BOOLEAN
    /\ r.body = None => r = Free
    /\ r.body # None => r.body \in ProjectionRequests

ContextsTyped ==
    /\ sessionContexts = [s \in DOMAIN sessionContexts |-> sessionContexts[s]]
    /\ \A s \in DOMAIN sessionContexts : sessionContexts[s] \in [session : BOOLEAN, project : BOOLEAN]

WorkersTyped ==
    /\ projecting = [w \in ProjectionWorkers |-> projecting[w]]
    /\ \A w \in ProjectionWorkers : ProjectionRow(projecting[w])

LoneWorker(w) == \A v \in ProjectionWorkers : v # w => projecting[v].body = None

OnItsWay(r) ==
    LET q == Statements(r.body)
    IN  \E i \in 0..Len(q) :
            /\ r.left = SubSeq(q, i + 1, Len(q))
            /\ Accomplished(r.body, DoneUpTo(q, i))

LoneRequest ==
    \A w \in ProjectionWorkers : projecting[w].alone => LoneWorker(w) /\ OnItsWay(projecting[w])

LastReportExact ==
    /\ lastProjected # None => \A w \in ProjectionWorkers : projecting[w].body = None
    /\ UndisturbedRequestIsExact

ProjectionInv == WorkersTyped /\ ContextsTyped /\ LoneRequest /\ LastReportExact

LEMMA ProjectionInitInv == ProjectionInit => ProjectionInv
<1> SUFFICES ASSUME ProjectionInit PROVE ProjectionInv OBVIOUS
<1>1. WorkersTyped BY DEF ProjectionInit, WorkersTyped, ProjectionRow, Free
<1>2. ContextsTyped BY DEF ProjectionInit, ContextsTyped
<1>3. LoneRequest BY DEF ProjectionInit, LoneRequest, Free
<1>4. LastReportExact BY DEF ProjectionInit, LastReportExact, UndisturbedRequestIsExact
<1> QED BY <1>1, <1>2, <1>3, <1>4 DEF ProjectionInv

\* The request that is alone and ends has done all its statements.
LEMMA AllDone ==
    ASSUME NEW b \in ProjectionRequests, NEW i \in 0..Len(Statements(b)),
           <<>> = SubSeq(Statements(b), i + 1, Len(Statements(b)))
    PROVE  DoneUpTo(Statements(b), i) = AllStmts(b)
<1> DEFINE q == Statements(b)
           n == Len(q)
           S == AllStmts(b)
<1>1. q \in Seq(S) /\ Listed(q) = S BY StatementsAre DEF Arranges
<1>2. <<>> = SubSeq(q, i + 1, n) /\ i \in 0..Len(q) OBVIOUS
<1> HIDE DEF q, S
<1>3. n \in Nat /\ DOMAIN q = 1..n /\ i \in 0..n BY <1>1, <1>2
<1>4. i = n
  <2>0. n = Len(q) OBVIOUS
  <2> HIDE DEF n
  <2>1. SUFFICES ASSUME i < n PROVE FALSE BY <1>3
  <2>2. \A k \in (i + 1)..n : q[k] \in S BY <1>1, <1>3
  <2>3. i + 1 \in Int /\ n \in Int /\ i + 1 <= n BY <1>3, <2>1
  <2>4. Len(SubSeq(q, i + 1, n)) = n - (i + 1) + 1 BY <2>2, <2>3, SubSeqProperties
  <2>5. Len(SubSeq(q, i + 1, n)) # 0 BY <2>3, <2>4
  <2>6. Len(<<>>) = 0 OBVIOUS
  <2> QED BY <1>2, <2>0, <2>5, <2>6
<1>5. DoneUpTo(q, i) = S BY <1>1, <1>3, <1>4 DEF DoneUpTo, Listed
<1> QED BY <1>5 DEF q, S

LEMMA AllDoneIsExact ==
    ASSUME NEW b \in ProjectionRequests, Accomplished(b, AllStmts(b))
    PROVE  /\ b.directories = {} \/ b.directories # {Blank} => directories = b.directories \ {Blank}
           /\ {t \in todos : t[1] \in {u[1] : u \in b.todos}} = b.todos
           /\ \A ctx \in b.contexts :
                  /\ ctx[2] \in b.projects => sessionContexts[ctx[1]].project
                  /\ ctx[1] \in b.sessions => sessionContexts[ctx[1]].session
<1>1. ASSUME b.directories = {} \/ b.directories # {Blank}
      PROVE  directories = b.directories \ {Blank}
  <2>1. ~ (b.directories \ {Blank} = {} /\ b.directories # {}) BY <1>1
  <2>2. Stmt("clear_directories", 0) \in AllStmts(b) BY <2>1 DEF AllStmts, DirectoryStmts
  <2>3. \A d \in b.directories \ {Blank} : Stmt("directory", d) \in AllStmts(b)
    BY <2>1 DEF AllStmts, DirectoryStmts
  <2> QED BY <2>2, <2>3 DEF Accomplished
<1>2. {t \in todos : t[1] \in {u[1] : u \in b.todos}} = b.todos
  <2>1. \A u \in b.todos : Stmt("clear_todos", u[1]) \in AllStmts(b) /\ Stmt("todo", u) \in AllStmts(b)
    BY DEF AllStmts, TodoStmts
  <2>2. \A u \in b.todos : {t \in todos : t[1] = u[1]} = {t \in b.todos : t[1] = u[1]}
    <3> TAKE u \in b.todos
    <3>1. {t \in todos : t[1] = u[1]} = {t \in b.todos : t[1] = u[1] /\ Stmt("todo", t) \in AllStmts(b)}
      BY <2>1 DEF Accomplished
    <3> QED BY <2>1, <3>1
  <2>3. ASSUME NEW t \in todos, NEW u \in b.todos, t[1] = u[1] PROVE t \in b.todos BY <2>2, <2>3
  <2>4. ASSUME NEW u \in b.todos PROVE u \in todos BY <2>2
  <2> QED BY <2>3, <2>4
<1>3. ASSUME NEW ctx \in b.contexts
      PROVE  /\ ctx[2] \in b.projects => sessionContexts[ctx[1]].project
             /\ ctx[1] \in b.sessions => sessionContexts[ctx[1]].session
  <2>1. Stmt("context", ctx) \in AllStmts(b) BY DEF AllStmts, Stmts
  <2> QED BY <2>1 DEF Accomplished
<1> QED BY <1>1, <1>2, <1>3

\* What a statement does to the rows, by its kind.
Linked(ctx) ==
    LET old == IF ctx[1] \in DOMAIN sessionContexts THEN sessionContexts[ctx[1]]
               ELSE [session |-> FALSE, project |-> FALSE]
    IN  sessionContexts' = [s \in DOMAIN sessionContexts \cup {ctx[1]} |->
              IF s # ctx[1] THEN sessionContexts[s]
              ELSE [session |-> old.session \/ ctx[1] \in knownSessions,
                    project |-> old.project \/ ctx[2] \in sourceProjects]]

Effect(op, x) ==
    \/ /\ op = "project" /\ sourceProjects' = sourceProjects \cup {x}
       /\ UNCHANGED <<sessionContexts, directories, todos>>
    \/ op = "context" /\ Linked(x) /\ UNCHANGED <<sourceProjects, directories, todos>>
    \/ op = "clear_directories" /\ directories' = {} /\ UNCHANGED <<sourceProjects, sessionContexts, todos>>
    \/ /\ op = "directory" /\ directories' = directories \cup {x}
       /\ UNCHANGED <<sourceProjects, sessionContexts, todos>>
    \/ /\ op = "clear_todos" /\ todos' = {t \in todos : t[1] # x}
       /\ UNCHANGED <<sourceProjects, sessionContexts, directories>>
    \/ op = "todo" /\ todos' = todos \cup {x} /\ UNCHANGED <<sourceProjects, sessionContexts, directories>>
    \/ op \in {"message", "part"} /\ UNCHANGED <<sourceProjects, sessionContexts, directories, todos>>

LEMMA ProjectDoes ==
    ASSUME NEW w \in ProjectionWorkers, Project(w)
    PROVE  LET st == Head(projecting[w].left)
           IN  \/ Effect(st.op, st.arg) /\ (Proceed(w) \/ Rejected(w))
               \/ CutShort(w) /\ UNCHANGED <<sourceProjects, sessionContexts, directories, todos>>
<1> DEFINE st == Head(projecting[w].left)
           Goal == \/ Effect(st.op, st.arg) /\ (Proceed(w) \/ Rejected(w))
                   \/ CutShort(w) /\ UNCHANGED <<sourceProjects, sessionContexts, directories, todos>>
<1>1. CASE st.op = "project" /\ ProcessProject(w, st.arg) BY <1>1 DEF ProcessProject, Effect
<1>2. CASE st.op = "context" /\ ProcessSessionContext(w, st.arg)
  <2> HIDE DEF st
  <2>1. Linked(st.arg) /\ Proceed(w) /\ UNCHANGED <<sourceProjects, directories, todos>>
    BY <1>2 DEF ProcessSessionContext, Linked
  <2>2. Goal BY <1>2, <2>1 DEF Effect
  <2> QED BY <2>2 DEF st
<1>3. CASE st.op = "clear_directories" /\ ClearDirectories(w) BY <1>3 DEF ClearDirectories, Effect
<1>4. CASE st.op = "directory" /\ InsertDirectory(w, st.arg) BY <1>4 DEF InsertDirectory, Effect
<1>5. CASE st.op = "clear_todos" /\ ClearTodos(w, st.arg) BY <1>5 DEF ClearTodos, Effect
<1>6. CASE st.op = "todo" /\ InsertTodo(w, st.arg) BY <1>6 DEF InsertTodo, Effect
<1>7. CASE st.op = "message" /\ ProcessMessage(w) BY <1>7 DEF ProcessMessage, Effect
<1>8. CASE st.op = "part" /\ ProcessPart(w, st.arg) BY <1>8 DEF ProcessPart, Effect
<1> QED BY <1>1, <1>2, <1>3, <1>4, <1>5, <1>6, <1>7, <1>8 DEF Project

LEMMA EffectKeepsContexts ==
    ASSUME ContextsTyped, NEW op, NEW x, Effect(op, x)
    PROVE  ContextsTyped' /\ ContextLinksStay
<1>1. CASE UNCHANGED sessionContexts BY <1>1 DEF ContextsTyped, ContextLinksStay
<1>2. CASE Linked(x)
  <2> DEFINE old == IF x[1] \in DOMAIN sessionContexts THEN sessionContexts[x[1]]
                    ELSE [session |-> FALSE, project |-> FALSE]
             new == [session |-> old.session \/ x[1] \in knownSessions,
                     project |-> old.project \/ x[2] \in sourceProjects]
  <2>1. old \in [session : BOOLEAN, project : BOOLEAN] BY DEF ContextsTyped
  <2> HIDE DEF old
  <2>2. /\ new \in [session : BOOLEAN, project : BOOLEAN]
        /\ (old.session => new.session) /\ (old.project => new.project)
    BY <2>1
  <2>3. sessionContexts' = [s \in DOMAIN sessionContexts \cup {x[1]} |->
                               IF s # x[1] THEN sessionContexts[s] ELSE new]
    BY <1>2 DEF Linked, old
  <2> HIDE DEF new
  <2>4. ContextsTyped' BY <2>2, <2>3 DEF ContextsTyped
  <2>5. \A s \in DOMAIN sessionContexts :
           sessionContexts'[s] = IF s # x[1] THEN sessionContexts[s] ELSE new
    BY <2>3
  <2>6. x[1] \in DOMAIN sessionContexts => old = sessionContexts[x[1]] BY DEF old
  <2>7. ContextLinksStay BY <2>2, <2>5, <2>6 DEF ContextLinksStay
  <2> QED BY <2>4, <2>7
<1> QED BY <1>1, <1>2 DEF Effect

\* A statement executed in its place adds itself to what is achieved.
LEMMA EffectAchieves ==
    ASSUME NEW b \in ProjectionRequests, NEW done, NEW op, NEW x,
           ContextsTyped, Accomplished(b, done), Stmt(op, x) \in AllStmts(b), Effect(op, x),
           UNCHANGED knownSessions,
           op = "context" => \A p \in b.projects : Stmt("project", p) \in done,
           op = "clear_directories" => x = 0 /\ \A d \in b.directories : Stmt("directory", d) \notin done,
           op = "clear_todos" => \A t \in b.todos : t[1] = x => Stmt("todo", t) \notin done
    PROVE  Accomplished(b, done \cup {Stmt(op, x)})'
<1> DEFINE now == done \cup {Stmt(op, x)}
<1>1. \A o, y : Stmt(o, y) \in now <=> Stmt(o, y) \in done \/ (o = op /\ y = x) BY DEF Stmt
<1>2. b.sessions \subseteq knownSessions' BY DEF Accomplished
<1> HIDE DEF now
<1>3. ASSUME NEW p \in b.projects, Stmt("project", p) \in now PROVE p \in sourceProjects'
  BY <1>1, <1>3 DEF Effect, Accomplished
<1>4. ASSUME NEW c \in b.contexts, Stmt("context", c) \in now
      PROVE  /\ c[1] \in DOMAIN sessionContexts'
             /\ c[2] \in b.projects => sessionContexts'[c[1]].project
             /\ c[1] \in b.sessions => sessionContexts'[c[1]].session
  <2>1. CASE Stmt("context", c) \in done
    <3>1. ContextLinksStay BY EffectKeepsContexts
    <3>2. DOMAIN sessionContexts \subseteq DOMAIN sessionContexts' BY DEF Effect, Linked
    <3> QED BY <2>1, <3>1, <3>2 DEF Accomplished, ContextLinksStay
  <2>2. CASE op = "context" /\ c = x
    <3>1. Linked(c) BY <2>2 DEF Effect
    <3>2. c[2] \in b.projects => c[2] \in sourceProjects BY <2>2 DEF Accomplished
    <3>3. c[1] \in b.sessions => c[1] \in knownSessions BY DEF Accomplished
    <3> QED BY <3>1, <3>2, <3>3 DEF Linked
  <2> QED BY <1>1, <1>4, <2>1, <2>2
<1>5. ASSUME Stmt("clear_directories", 0) \in now
      PROVE  directories' = {d \in b.directories \ {Blank} : Stmt("directory", d) \in now}
  <2>1. CASE op = "clear_directories"
    <3>1. directories' = {} BY <2>1 DEF Effect
    <3>2. \A d \in b.directories : Stmt("directory", d) \notin now BY <1>1, <2>1
    <3> QED BY <3>1, <3>2
  <2>2. CASE op = "directory"
    <3>1. directories' = directories \cup {x} BY <2>2 DEF Effect
    <3>2. directories = {d \in b.directories \ {Blank} : Stmt("directory", d) \in done}
      BY <1>1, <1>5, <2>2 DEF Accomplished
    <3>3. x \in b.directories \ {Blank}
      BY <2>2 DEF AllStmts, Stmts, DirectoryStmts, TodoStmts, Stmt
    <3> QED BY <1>1, <2>2, <3>1, <3>2, <3>3
  <2>3. CASE op \notin {"clear_directories", "directory"}
    <3>1. directories' = directories BY <2>3 DEF Effect
    <3>2. directories = {d \in b.directories \ {Blank} : Stmt("directory", d) \in done}
      BY <1>1, <1>5, <2>3 DEF Accomplished
    <3> QED BY <1>1, <2>3, <3>1, <3>2
  <2> QED BY <2>1, <2>2, <2>3
<1>6. ASSUME NEW s, Stmt("clear_todos", s) \in now
      PROVE  {t \in todos' : t[1] = s} = {t \in b.todos : t[1] = s /\ Stmt("todo", t) \in now}
  <2>1. CASE op = "clear_todos" /\ s = x
    <3>1. todos' = {t \in todos : t[1] # x} BY <2>1 DEF Effect
    <3>2. \A t \in b.todos : t[1] = s => Stmt("todo", t) \notin now BY <1>1, <2>1
    <3> QED BY <2>1, <3>1, <3>2
  <2>2. CASE ~ (op = "clear_todos" /\ s = x)
    <3>1. {t \in todos : t[1] = s} = {t \in b.todos : t[1] = s /\ Stmt("todo", t) \in done}
      BY <1>1, <1>6, <2>2 DEF Accomplished
    <3>2. CASE op = "clear_todos"
      <4>1. todos' = {t \in todos : t[1] # x} BY <3>2 DEF Effect
      <4>2. {t \in todos' : t[1] = s} = {t \in todos : t[1] = s} BY <2>2, <3>2, <4>1
      <4> QED BY <1>1, <3>1, <3>2, <4>2
    <3>3. CASE op = "todo"
      <4>1. todos' = todos \cup {x} BY <3>3 DEF Effect
      <4>2. x \in b.todos BY <3>3 DEF AllStmts, Stmts, DirectoryStmts, TodoStmts, Stmt
      <4> QED BY <1>1, <3>1, <3>3, <4>1, <4>2
    <3>4. CASE op \notin {"clear_todos", "todo"}
      <4>1. todos' = todos BY <3>4 DEF Effect
      <4> QED BY <1>1, <3>1, <3>4, <4>1
    <3> QED BY <3>2, <3>3, <3>4
  <2> QED BY <2>1, <2>2
<1> QED BY <1>2, <1>3, <1>4, <1>5, <1>6 DEF Accomplished, now

-----------------------------------------------------------------------------
(* The steps of the projections.                                           *)

\* While one request is alone, no other is under way; a worker with
\* statements left has a body.
LEMMA BusyWorker ==
    ASSUME ProjectionInv, NEW w \in ProjectionWorkers,
           projecting[w].left # <<>> \/ projecting[w].body # None
    PROVE  /\ projecting[w].body # None /\ projecting[w].body \in ProjectionRequests
           /\ lastProjected = None
           /\ \A v \in ProjectionWorkers : v # w => projecting[v].alone = FALSE
<1>1. ProjectionRow(projecting[w]) BY DEF ProjectionInv, WorkersTyped
<1>2. projecting[w].body # None BY <1>1 DEF ProjectionRow, Free
<1>3. lastProjected = None BY <1>2 DEF ProjectionInv, LastReportExact
<1>4. ASSUME NEW v \in ProjectionWorkers, v # w PROVE projecting[v].alone = FALSE
  <2>1. projecting[v].alone \in BOOLEAN BY DEF ProjectionInv, WorkersTyped, ProjectionRow
  <2>2. ~ projecting[v].alone BY <1>2, <1>4 DEF ProjectionInv, LoneRequest, LoneWorker
  <2> QED BY <2>1, <2>2
<1> QED BY <1>1, <1>2, <1>3, <1>4 DEF ProjectionRow

\* A worker goes on, is cut short or is free again: the others keep their rows.
RowBecomes(w, r) == projecting' = [projecting EXCEPT ![w] = r]

LEMMA OtherRowsStay ==
    ASSUME WorkersTyped, NEW w \in ProjectionWorkers, NEW r, RowBecomes(w, r), ProjectionRow(r)
    PROVE  /\ WorkersTyped' /\ projecting'[w] = r
           /\ \A v \in ProjectionWorkers : v # w => projecting'[v] = projecting[v]
<1>1. projecting = [v \in ProjectionWorkers |-> projecting[v]] BY DEF WorkersTyped
<1>2. projecting' = [v \in ProjectionWorkers |-> IF v = w THEN r ELSE projecting[v]]
  BY <1>1 DEF RowBecomes
<1>3. projecting' = [v \in ProjectionWorkers |-> projecting'[v]] BY <1>2
<1>4. projecting'[w] = r /\ \A v \in ProjectionWorkers : v # w => projecting'[v] = projecting[v]
  BY <1>2
<1>5. \A v \in ProjectionWorkers : ProjectionRow(projecting'[v]) BY <1>4 DEF WorkersTyped
<1> QED BY <1>3, <1>4, <1>5 DEF WorkersTyped, ProjectionRow

WorkerRow(b, l, a, n, e) == [body |-> b, left |-> l, accepted |-> a, rejected |-> n, alone |-> e]

\* The row of a worker that goes on or is cut short.
LEMMA RowsMove ==
    ASSUME WorkersTyped, NEW w \in ProjectionWorkers, projecting[w].body # None,
           Proceed(w) \/ Rejected(w) \/ CutShort(w)
    PROVE  \E r : /\ RowBecomes(w, r) /\ ProjectionRow(r) /\ r.body = projecting[w].body
                  /\ CutShort(w) => ~ r.alone
                  /\ ~ CutShort(w) => /\ r.left = Tail(projecting[w].left)
                                      /\ r.alone = projecting[w].alone
<1>1. PICK b, l, a, n, e : /\ projecting[w] = WorkerRow(b, l, a, n, e)
                           /\ e \in BOOLEAN /\ b \in ProjectionRequests /\ b # None
  BY DEF WorkersTyped, ProjectionRow, WorkerRow
<1> DEFINE o == WorkerRow(b, l, a, n, e)
<1>2. w \in DOMAIN projecting BY DEF WorkersTyped
<1>3. o.body = b /\ o.left = l /\ o.accepted = a /\ o.rejected = n /\ o.alone = e BY DEF WorkerRow
<1> HIDE DEF o
<1>0. projecting[w] = o BY <1>1 DEF o
<1>4. CASE Proceed(w) /\ ~ CutShort(w)
  <2> DEFINE r == WorkerRow(b, Tail(l), a + 1, n, e)
  <2>1. RowBecomes(w, [o EXCEPT !.left = Tail(l), !.accepted = a + 1])
    BY <1>0, <1>2, <1>3, <1>4 DEF Proceed, RowBecomes
  <2>2. [o EXCEPT !.left = Tail(l), !.accepted = a + 1] = r
    <3> DEFINE new == [o EXCEPT !.left = Tail(l), !.accepted = a + 1]
    <3>1. new \in [body : {b}, left : {Tail(l)}, accepted : {a + 1}, rejected : {n}, alone : {e}]
      BY DEF WorkerRow, o
    <3> HIDE DEF new
    <3>2. new = r BY <3>1 DEF WorkerRow
    <3> QED BY <3>2 DEF new
  <2>3. RowBecomes(w, r) BY <2>1, <2>2
  <2>4. ProjectionRow(r) /\ r.body = b /\ r.left = Tail(l) /\ r.alone = e
    BY <1>1 DEF ProjectionRow, WorkerRow
  <2> QED BY <1>0, <1>3, <1>4, <2>3, <2>4
<1>5. CASE Rejected(w) /\ ~ CutShort(w)
  <2> DEFINE r == WorkerRow(b, Tail(l), a, n + 1, e)
  <2>1. RowBecomes(w, [o EXCEPT !.left = Tail(l), !.rejected = n + 1])
    BY <1>0, <1>2, <1>3, <1>5 DEF Rejected, RowBecomes
  <2>2. [o EXCEPT !.left = Tail(l), !.rejected = n + 1] = r
    <3> DEFINE new == [o EXCEPT !.left = Tail(l), !.rejected = n + 1]
    <3>1. new \in [body : {b}, left : {Tail(l)}, accepted : {a}, rejected : {n + 1}, alone : {e}]
      BY DEF WorkerRow, o
    <3> HIDE DEF new
    <3>2. new = r BY <3>1 DEF WorkerRow
    <3> QED BY <3>2 DEF new
  <2>3. RowBecomes(w, r) BY <2>1, <2>2
  <2>4. ProjectionRow(r) /\ r.body = b /\ r.left = Tail(l) /\ r.alone = e
    BY <1>1 DEF ProjectionRow, WorkerRow
  <2> QED BY <1>0, <1>3, <1>5, <2>3, <2>4
<1>6. CASE CutShort(w)
  <2> DEFINE r == WorkerRow(b, Skip(l), a, n + 1, FALSE)
  <2>1. RowBecomes(w, [o EXCEPT !.left = Skip(l), !.rejected = n + 1, !.alone = FALSE])
    BY <1>0, <1>2, <1>3, <1>6 DEF CutShort, RowBecomes
  <2>2. [o EXCEPT !.left = Skip(l), !.rejected = n + 1, !.alone = FALSE] = r
    <3> DEFINE new == [o EXCEPT !.left = Skip(l), !.rejected = n + 1, !.alone = FALSE]
    <3>1. new \in [body : {b}, left : {Skip(l)}, accepted : {a}, rejected : {n + 1}, alone : {FALSE}]
      BY DEF WorkerRow, o
    <3> HIDE DEF new
    <3>2. new = r BY <3>1 DEF WorkerRow
    <3> QED BY <3>2 DEF new
  <2>3. RowBecomes(w, r) BY <2>1, <2>2
  <2>4. ProjectionRow(r) /\ r.body = b /\ r.alone = FALSE BY <1>1 DEF ProjectionRow, WorkerRow
  <2> QED BY <1>0, <1>3, <1>6, <2>3, <2>4
<1> QED BY <1>4, <1>5, <1>6

\* What holds of the other workers and of the last report, when a worker that
\* was busy moves on and its row is alone only with its part done.
LEMMA BusyStep ==
    ASSUME ProjectionInv, NEW w \in ProjectionWorkers, projecting[w].body # None,
           NEW r, RowBecomes(w, r), ProjectionRow(r), lastProjected' = None, ContextsTyped',
           r.alone => projecting[w].alone /\ OnItsWay(r)'
    PROVE  ProjectionInv'
<1>1. /\ WorkersTyped' /\ projecting'[w] = r
      /\ \A v \in ProjectionWorkers : v # w => projecting'[v] = projecting[v]
  BY OtherRowsStay DEF ProjectionInv
<1>2. \A v \in ProjectionWorkers : v # w => projecting[v].alone = FALSE BY BusyWorker
<1>3. LoneRequest'
  <2>1. ASSUME NEW v \in ProjectionWorkers, projecting'[v].alone
        PROVE  LoneWorker(v)' /\ OnItsWay(projecting[v])'
    <3>1. v = w BY <1>1, <1>2, <2>1
    <3>2. projecting[w].alone /\ OnItsWay(r)' BY <1>1, <2>1, <3>1
    <3>3. LoneWorker(w) BY <3>2 DEF ProjectionInv, LoneRequest
    <3>4. LoneWorker(v)' BY <1>1, <3>1, <3>3 DEF LoneWorker
    <3>5. OnItsWay(projecting[v])' BY <1>1, <3>1, <3>2 DEF OnItsWay
    <3> QED BY <3>4, <3>5
  <2> QED BY <2>1 DEF LoneRequest
<1>4. LastReportExact' BY DEF LastReportExact, UndisturbedRequestIsExact
<1> QED BY <1>1, <1>3, <1>4 DEF ProjectionInv

LEMMA ProjectKeepsInv ==
    ASSUME ProjectionInv, NEW w \in ProjectionWorkers, Project(w)
    PROVE  ProjectionInv' /\ ContextLinksStay
<1> DEFINE o == projecting[w]
           st == Head(o.left)
<1>1. o.left # <<>> /\ UNCHANGED <<knownSessions, lastProjected>> BY DEF Project
<1>2. o.body # None /\ o.body \in ProjectionRequests /\ lastProjected = None BY <1>1, BusyWorker
<1>3. \/ Effect(st.op, st.arg) /\ (Proceed(w) \/ Rejected(w))
      \/ CutShort(w) /\ UNCHANGED <<sourceProjects, sessionContexts, directories, todos>>
  BY ProjectDoes
<1>4. ContextsTyped' /\ ContextLinksStay
  <2>1. CASE Effect(st.op, st.arg) BY <2>1, EffectKeepsContexts DEF ProjectionInv
  <2>2. CASE UNCHANGED sessionContexts BY <2>2 DEF ContextsTyped, ContextLinksStay, ProjectionInv
  <2> QED BY <1>3, <2>1, <2>2
<1>5. PICK r : /\ RowBecomes(w, r) /\ ProjectionRow(r) /\ r.body = o.body
               /\ CutShort(w) => ~ r.alone
               /\ ~ CutShort(w) => r.left = Tail(o.left) /\ r.alone = o.alone
  <2>1. Proceed(w) \/ Rejected(w) \/ CutShort(w) BY <1>3
  <2> QED BY <1>2, <2>1, RowsMove DEF ProjectionInv
<1>6. ASSUME r.alone PROVE o.alone /\ OnItsWay(r)'
  <2>1. ~ CutShort(w) /\ r.left = Tail(o.left) /\ o.alone BY <1>5, <1>6
  <2>2. Effect(st.op, st.arg) BY <1>3, <2>1
  <2>0. PICK b \in ProjectionRequests : b = o.body BY <1>2
  <2>3. PICK op, x : b = o.body /\ op = st.op /\ x = st.arg BY <2>0
  <2> DEFINE q == Statements(b)
  <2>4. PICK i \in 0..Len(q) : o.left = SubSeq(q, i + 1, Len(q)) /\ Accomplished(b, DoneUpTo(q, i))
    BY <2>1, <2>3 DEF ProjectionInv, LoneRequest, OnItsWay
  <2>5. SubSeq(q, i + 1, Len(q)) # <<>> /\ st = Head(SubSeq(q, i + 1, Len(q))) BY <1>1, <2>4
  <2>6. /\ i + 1 \in 0..Len(q) /\ Tail(o.left) = SubSeq(q, i + 2, Len(q))
        /\ DoneUpTo(q, i + 1) = DoneUpTo(q, i) \cup {st}
        /\ st \in AllStmts(b) /\ st = Stmt(op, x)
        /\ op = "context" => \A p \in b.projects : Stmt("project", p) \in DoneUpTo(q, i)
        /\ op = "clear_directories" =>
               x = 0 /\ \A d \in b.directories : Stmt("directory", d) \notin DoneUpTo(q, i)
        /\ op = "clear_todos" =>
               \A t \in b.todos : t[1] = x => Stmt("todo", t) \notin DoneUpTo(q, i)
    <3>1. LET rest == SubSeq(q, i + 1, Len(q))
              next == Head(rest)
              done == DoneUpTo(q, i)
          IN  /\ i + 1 \in 0..Len(q) /\ Tail(rest) = SubSeq(q, i + 2, Len(q))
              /\ DoneUpTo(q, i + 1) = done \cup {next}
              /\ next \in AllStmts(b) /\ next = Stmt(next.op, next.arg)
              /\ next.op = "context" => \A p \in b.projects : Stmt("project", p) \in done
              /\ next.op = "clear_directories" =>
                    next.arg = 0 /\ \A d \in b.directories : Stmt("directory", d) \notin done
              /\ next.op = "clear_todos" =>
                    \A t \in b.todos : t[1] = next.arg => Stmt("todo", t) \notin done
      BY <2>5, NextInOrder
    <3> HIDE DEF q
    <3> QED BY <2>3, <2>4, <2>5, <3>1
  <2>7. Accomplished(b, DoneUpTo(q, i) \cup {Stmt(op, x)})'
    <3> DEFINE done == DoneUpTo(q, i)
    <3>1. ContextsTyped BY DEF ProjectionInv
    <3>2. Effect(op, x) BY <2>2, <2>3
    <3>3. /\ Accomplished(b, done) /\ Stmt(op, x) \in AllStmts(b)
          /\ op = "context" => \A p \in b.projects : Stmt("project", p) \in done
          /\ op = "clear_directories" => x = 0 /\ \A d \in b.directories : Stmt("directory", d) \notin done
          /\ op = "clear_todos" => \A t \in b.todos : t[1] = x => Stmt("todo", t) \notin done
      BY <2>4, <2>6
    <3> HIDE DEF done
    <3>4. UNCHANGED knownSessions BY <1>1
    <3>5. Accomplished(b, done \cup {Stmt(op, x)})'
      BY ONLY b \in ProjectionRequests, <3>1, <3>2, <3>3, <3>4, EffectAchieves
    <3> QED BY <3>5 DEF done
  <2>8. r.body = b /\ r.left = SubSeq(q, i + 2, Len(q)) BY <1>5, <2>1, <2>3, <2>6
  <2>9. Accomplished(b, DoneUpTo(q, i + 1))' BY <2>6, <2>7
  <2>10. i + 1 \in 0..Len(q) /\ (i + 1) + 1 = i + 2 BY <2>6
  <2>11. OnItsWay(r)'
    <3>1. Statements(r.body) = q BY <2>8
    <3> HIDE DEF q
    <3> QED BY <2>8, <2>9, <2>10, <3>1 DEF OnItsWay
  <2> QED BY <2>1, <2>11
<1> QED BY <1>1, <1>2, <1>4, <1>5, <1>6, BusyStep

LEMMA FailingKeepsInv ==
    ASSUME ProjectionInv, NEW w \in ProjectionWorkers, ProjectionFails(w)
    PROVE  ProjectionInv' /\ ContextLinksStay
<1>1. /\ projecting[w].left # <<>> /\ CutShort(w)
      /\ UNCHANGED <<knownSessions, sourceProjects, sessionContexts, directories, todos, lastProjected>>
  BY DEF ProjectionFails
<1>2. projecting[w].body # None /\ lastProjected = None BY <1>1, BusyWorker
<1>3. ContextsTyped' /\ ContextLinksStay BY <1>1 DEF ContextsTyped, ContextLinksStay, ProjectionInv
<1>4. PICK r : RowBecomes(w, r) /\ ProjectionRow(r) /\ ~ r.alone
  BY <1>1, <1>2, RowsMove DEF ProjectionInv
<1> QED BY <1>1, <1>2, <1>3, <1>4, BusyStep

LEMMA DyingKeepsInv ==
    ASSUME ProjectionInv, NEW w \in ProjectionWorkers, ProjectionDies(w)
    PROVE  ProjectionInv' /\ ContextLinksStay
<1>1. /\ projecting[w].left # <<>> /\ RowBecomes(w, Free)
      /\ UNCHANGED <<knownSessions, sourceProjects, sessionContexts, directories, todos, lastProjected>>
  BY DEF ProjectionDies, RowBecomes
<1>2. projecting[w].body # None /\ lastProjected = None BY <1>1, BusyWorker
<1>3. ContextsTyped' /\ ContextLinksStay BY <1>1 DEF ContextsTyped, ContextLinksStay, ProjectionInv
<1>4. ProjectionRow(Free) /\ ~ Free.alone BY DEF ProjectionRow, Free
<1> QED BY <1>1, <1>2, <1>3, <1>4, BusyStep

LEMMA AnswerKeepsInv ==
    ASSUME ProjectionInv, NEW w \in ProjectionWorkers, AnswerProjection(w)
    PROVE  ProjectionInv' /\ ContextLinksStay
<1>1. /\ projecting[w].body # None /\ projecting[w].left = <<>> /\ RowBecomes(w, Free)
      /\ lastProjected' = IF projecting[w].alone THEN projecting[w].body ELSE None
      /\ UNCHANGED <<knownSessions, sourceProjects, sessionContexts, directories, todos>>
  BY DEF AnswerProjection, RowBecomes
<1>2. ContextsTyped' /\ ContextLinksStay BY <1>1 DEF ContextsTyped, ContextLinksStay, ProjectionInv
<1>3. ProjectionRow(Free) /\ ~ Free.alone /\ Free.body = None BY DEF ProjectionRow, Free
<1>4. CASE ~ projecting[w].alone
  <2>1. lastProjected' = None BY <1>1, <1>4
  <2> QED BY <1>1, <1>2, <1>3, <2>1, BusyStep
<1>5. CASE projecting[w].alone
  <2>1. PICK b \in ProjectionRequests : b = projecting[w].body BY <1>1, BusyWorker
  <2>2. /\ WorkersTyped' /\ projecting'[w] = Free
        /\ \A v \in ProjectionWorkers : v # w => projecting'[v] = projecting[v]
    BY <1>1, <1>3, OtherRowsStay DEF ProjectionInv
  <2>3. LoneWorker(w) /\ OnItsWay(projecting[w]) BY <1>5 DEF ProjectionInv, LoneRequest
  <2>4. \A v \in ProjectionWorkers : projecting'[v].body = None BY <1>3, <2>2, <2>3 DEF LoneWorker
  <2>5. \A v \in ProjectionWorkers : ~ projecting'[v].alone
    BY <1>3, <2>2, <2>4 DEF WorkersTyped, ProjectionRow
  <2>6. LoneRequest' BY <2>5 DEF LoneRequest
  <2>7. PICK i \in 0..Len(Statements(b)) :
            /\ <<>> = SubSeq(Statements(b), i + 1, Len(Statements(b)))
            /\ Accomplished(b, DoneUpTo(Statements(b), i))
    BY <1>1, <2>1, <2>3 DEF OnItsWay
  <2>8. Accomplished(b, AllStmts(b)) BY <2>7, AllDone
  <2>9. lastProjected' = b BY <1>1, <1>5, <2>1
  <2>10. UndisturbedRequestIsExact'
    <3>1. /\ b.directories = {} \/ b.directories # {Blank} => directories = b.directories \ {Blank}
          /\ {t \in todos : t[1] \in {u[1] : u \in b.todos}} = b.todos
          /\ \A ctx \in b.contexts :
                /\ ctx[2] \in b.projects => sessionContexts[ctx[1]].project
                /\ ctx[1] \in b.sessions => sessionContexts[ctx[1]].session
      BY <2>8, AllDoneIsExact
    <3> QED BY <1>1, <2>9, <3>1 DEF UndisturbedRequestIsExact
  <2>11. LastReportExact' BY <2>4, <2>10 DEF LastReportExact
  <2> QED BY <1>2, <2>2, <2>6, <2>11 DEF ProjectionInv
<1> QED BY <1>4, <1>5

LEMMA BeginProjectionKeepsInv ==
    ASSUME ProjectionInv, NEW w \in ProjectionWorkers, NEW body \in ProjectionRequests,
           BeginProjection(w, body)
    PROVE  ProjectionInv' /\ ContextLinksStay
<1> DEFINE alone == \A v \in ProjectionWorkers : projecting[v].body = None
           start == [body |-> body, left |-> Statements(body), accepted |-> 0, rejected |-> 0, alone |-> alone]
           later(v) == [projecting[v] EXCEPT !.alone = FALSE]
<1>1. /\ knownSessions' = knownSessions \cup body.sessions /\ lastProjected' = None
      /\ projecting' = [v \in ProjectionWorkers |-> IF v = w THEN start ELSE later(v)]
      /\ UNCHANGED <<sourceProjects, sessionContexts, directories, todos>>
  BY DEF BeginProjection
<1>2. body # None BY ProjectionAssumption
<1>3. ContextsTyped' /\ ContextLinksStay BY <1>1 DEF ContextsTyped, ContextLinksStay, ProjectionInv
<1>4. alone \in BOOLEAN OBVIOUS
<1>5. ProjectionRow(start) /\ start.body = body /\ start.left = Statements(body) /\ start.alone = alone
  <2> HIDE DEF alone
  <2> QED BY <1>2, <1>4 DEF ProjectionRow
<1>6. ASSUME NEW v \in ProjectionWorkers
      PROVE  ProjectionRow(later(v)) /\ later(v).body = projecting[v].body /\ later(v).alone = FALSE
  <2>1. ProjectionRow(projecting[v]) BY DEF ProjectionInv, WorkersTyped
  <2>2. PICK b, l, a, n, e : projecting[v] = WorkerRow(b, l, a, n, e)
    BY <2>1 DEF ProjectionRow, WorkerRow
  <2>3. later(v) = WorkerRow(b, l, a, n, FALSE)
    <3> DEFINE new == [WorkerRow(b, l, a, n, e) EXCEPT !.alone = FALSE]
    <3>1. new \in [body : {b}, left : {l}, accepted : {a}, rejected : {n}, alone : {FALSE}]
      BY DEF WorkerRow
    <3> HIDE DEF new
    <3>2. new = WorkerRow(b, l, a, n, FALSE) BY <3>1 DEF WorkerRow
    <3> QED BY <2>2, <3>2 DEF new
  <2> HIDE DEF later
  <2>4. projecting[v].body = b /\ later(v).body = b /\ later(v).alone = FALSE
    BY <2>2, <2>3 DEF WorkerRow
  <2>5. ASSUME b = None PROVE WorkerRow(b, l, a, n, FALSE) = Free
    <3>1. projecting[v] = Free BY <2>1, <2>4, <2>5 DEF ProjectionRow
    <3>2. WorkerRow(b, l, a, n, e) = Free BY <2>2, <3>1
    <3>3. l = Free.left /\ a = Free.accepted /\ n = Free.rejected /\ b = Free.body
      BY <3>2 DEF WorkerRow
    <3> QED BY <3>3 DEF WorkerRow, Free
  <2>6. b # None => b \in ProjectionRequests BY <2>1, <2>4 DEF ProjectionRow
  <2>7. ProjectionRow(WorkerRow(b, l, a, n, FALSE)) BY <2>5, <2>6 DEF ProjectionRow, WorkerRow
  <2> QED BY <2>3, <2>4, <2>7
<1> HIDE DEF start, later
<1>7. /\ projecting'[w] = start
      /\ \A v \in ProjectionWorkers : v # w => projecting'[v] = later(v)
  BY <1>1
<1>8. WorkersTyped'
  <2>1. projecting' = [v \in ProjectionWorkers |-> projecting'[v]] BY <1>1
  <2>2. \A v \in ProjectionWorkers : ProjectionRow(projecting'[v]) BY <1>5, <1>6, <1>7
  <2> QED BY <2>1, <2>2 DEF WorkersTyped, ProjectionRow
<1>9. LoneRequest'
  <2>1. ASSUME NEW v \in ProjectionWorkers, projecting'[v].alone
        PROVE  LoneWorker(v)' /\ OnItsWay(projecting[v])'
    <3>1. v = w /\ alone BY <1>5, <1>6, <1>7, <2>1
    <3>2. LoneWorker(v)' BY <1>6, <1>7, <3>1 DEF LoneWorker
    <3> DEFINE q == Statements(body)
    <3>3. q \in Seq(AllStmts(body)) BY StatementsAre DEF Arranges
    <3> HIDE DEF q
    <3>4. Len(q) \in Nat /\ 0 \in 0..Len(q) /\ q = SubSeq(q, 0 + 1, Len(q))
      BY <3>3, SubSeqFull
    <3>5. DoneUpTo(q, 0) = {} BY DEF DoneUpTo
    <3>6. Accomplished(body, DoneUpTo(q, 0))' BY <1>1, <3>5 DEF Accomplished
    <3>7. projecting'[v].body = body /\ projecting'[v].left = q BY <1>5, <1>7, <3>1 DEF q
    <3>8. OnItsWay(projecting[v])' BY <3>4, <3>6, <3>7 DEF OnItsWay, q
    <3> QED BY <3>2, <3>8
  <2> QED BY <2>1 DEF LoneRequest
<1>10. LastReportExact' BY <1>1 DEF LastReportExact, UndisturbedRequestIsExact
<1> QED BY <1>3, <1>8, <1>9, <1>10 DEF ProjectionInv

LEMMA ProjectionStep ==
    ASSUME ProjectionInv, [ProjectionNext]_projectionVars
    PROVE  ProjectionInv' /\ [UndisturbedRequestIsExact' /\ ContextLinksStay]_projectionVars
<1>1. CASE UNCHANGED projectionVars
  <2>1. WorkersTyped' /\ ContextsTyped'
    BY <1>1 DEF projectionVars, WorkersTyped, ContextsTyped, ProjectionInv
  <2>2. LoneRequest'
    BY <1>1 DEF projectionVars, LoneRequest, LoneWorker, OnItsWay, Accomplished, ProjectionInv
  <2>3. LastReportExact'
    BY <1>1 DEF projectionVars, LastReportExact, UndisturbedRequestIsExact, ProjectionInv
  <2> QED BY <1>1, <2>1, <2>2, <2>3 DEF ProjectionInv
<1>2. CASE ProjectionNext
  <2>1. ProjectionInv' /\ ContextLinksStay
    BY <1>2, BeginProjectionKeepsInv, ProjectKeepsInv, FailingKeepsInv, DyingKeepsInv, AnswerKeepsInv DEF ProjectionNext
  <2>2. UndisturbedRequestIsExact' BY <2>1 DEF ProjectionInv, LastReportExact
  <2> QED BY <2>1, <2>2
<1> QED BY <1>1, <1>2

(* For any bodies, workers and failures in any interleaving: a request     *)
(* that ran alone and unharmed leaves its directories without blanks, its  *)
(* todos, and its contexts linked to all that is known by then, and no     *)
(* step undoes a link (the tail of ingest_usage and its helpers).          *)
THEOREM UndisturbedRequestsAreExact == ProjectionSpec => ProjectionsAreExact
<1>1. ProjectionInit => ProjectionInv BY ProjectionInitInv
<1>2. ProjectionInv /\ [ProjectionNext]_projectionVars => ProjectionInv' BY ProjectionStep
<1>3. ProjectionInv /\ [ProjectionNext]_projectionVars =>
          [UndisturbedRequestIsExact' /\ ContextLinksStay]_projectionVars
  BY ProjectionStep
<1> QED BY <1>1, <1>2, <1>3, PTL DEF ProjectionSpec, ProjectionsAreExact

-----------------------------------------------------------------------------
(* Lists of rows.                                                          *)

\* Some number of a set is the least.
LEMMA LeastOf ==
    ASSUME NEW S, S \subseteq Nat, S # {}
    PROVE  Min(S) \in S /\ \A n \in S : Min(S) <= n
<1>1. \E m \in S : \A n \in S : m <= n
  <2> DEFINE R == OpToRel(<, Nat)
  <2>1. IsWellFoundedOn(R, Nat) BY NatLessThanWellFounded
  <2>2. PICK m \in S : \A n \in S : ~ <<n, m>> \in R BY <2>1, WFMin
  <2>3. ASSUME NEW n \in S PROVE m <= n
    <3>1. ~ (n < m) BY <2>2, <2>3 DEF OpToRel
    <3> QED BY <3>1
  <2> QED BY <2>3
<1> QED BY <1>1 DEF Min

\* Places numbers n rows from 0 to n - 1, so as many rows have a place from a
\* on and before b as there are such places.
LEMMA RowsInPlaces ==
    ASSUME NEW rows, IsFiniteSet(rows),
           NEW place \in [rows -> 0..Cardinality(rows) - 1],
           \A r, q \in rows : place[r] = place[q] => r = q,
           NEW a \in Nat, NEW b \in Nat, a <= b
    PROVE  LET n == Cardinality(rows)
           IN  Cardinality({r \in rows : place[r] \in a..b - 1})
                 = IF b <= n THEN b - a ELSE IF a <= n THEN n - a ELSE 0
<1> DEFINE n == Cardinality(rows)
           end == IF b <= n THEN b ELSE n
           there == {r \in rows : place[r] \in a..b - 1}
           places == a..end - 1
<1>1. n \in Nat BY FS_CardinalityType
<1>2. /\ IsFiniteSet(0..n - 1) /\ Cardinality(0..n - 1) = n
      /\ IsFiniteSet(places)
      /\ Cardinality(places) = IF a > end - 1 THEN 0 ELSE end - a
  <2>1. 0 \in Int /\ n - 1 \in Int /\ a \in Int /\ end - 1 \in Int BY <1>1
  <2>2. /\ IsFiniteSet(0..n - 1)
        /\ Cardinality(0..n - 1) = IF 0 > n - 1 THEN 0 ELSE (n - 1) - 0 + 1
    BY <2>1, FS_Interval
  <2>3. /\ IsFiniteSet(places)
        /\ Cardinality(places) = IF a > end - 1 THEN 0 ELSE (end - 1) - a + 1
    BY <2>1, FS_Interval
  <2>4. (IF 0 > n - 1 THEN 0 ELSE (n - 1) - 0 + 1) = n BY <1>1
  <2>5. end \in Int BY <1>1
  <2> QED BY <2>2, <2>3, <2>4, <2>5, <1>1
<1>3. place \in Surjection(rows, 0..n - 1)
  <2>1. place \in Injection(rows, 0..n - 1) BY DEF Injection, IsInjective
  <2> QED BY <2>1, <1>2, FS_Injection
<1>4. \A i \in 0..n - 1 : \E r \in rows : place[r] = i BY <1>3 DEF Surjection
<1>5. places \subseteq 0..n - 1
  <2>1. end \in Nat /\ end <= n BY <1>1
  <2> QED BY <2>1, <1>1
<1>6. \A r \in there : place[r] \in places BY <1>1
<1> DEFINE number == [r \in there |-> place[r]]
<1>7. number \in Bijection(there, places)
  <2>1. number \in [there -> places] BY <1>6
  <2>2. \A r, q \in there : number[r] = number[q] => r = q OBVIOUS
  <2>3. \A i \in places : \E r \in there : number[r] = i
    <3>1. SUFFICES ASSUME NEW i \in places PROVE \E r \in there : number[r] = i OBVIOUS
    <3>2. PICK r \in rows : place[r] = i BY <1>4, <1>5
    <3>3. i \in a..b - 1 BY <1>1
    <3> QED BY <3>2, <3>3
  <2>4. number \in Injection(there, places) BY <2>1, <2>2 DEF Injection, IsInjective
  <2>5. number \in Surjection(there, places) BY <2>1, <2>3 DEF Surjection
  <2> QED BY <2>4, <2>5 DEF Bijection
<1>8. IsFiniteSet(there) BY FS_Subset
<1>9. Cardinality(places) = Cardinality(there)
  <2>1. ExistsBijection(there, places) BY <1>7 DEF ExistsBijection
  <2> QED BY <2>1, <1>8, FS_Bijection
<1>10. (IF a > end - 1 THEN 0 ELSE end - a) = IF b <= n THEN b - a ELSE IF a <= n THEN n - a ELSE 0
  BY <1>1
<1> QED BY <1>2, <1>9, <1>10

(* The table as it is stored.                                              *)
TableType ==
    /\ stored = [r \in DOMAIN stored |-> stored[r]]
    /\ DOMAIN stored \subseteq RowIds
    /\ \A r \in DOMAIN stored :
          /\ stored[r] = [session |-> stored[r].session, tag |-> stored[r].tag, at |-> stored[r].at]
          /\ stored[r].at \in Nat \cup {None}
    /\ links \subseteq Sessions \X Sessions

Endpoints == KeysetEndpoints \cup TiedEndpoints \cup UntiedEndpoints

LEMMA SelectedIsStored == \A ep \in Endpoints : \A f : Selected(ep, f) \subseteq DOMAIN stored
<1>1. SUFFICES ASSUME NEW ep \in Endpoints, NEW f PROVE Selected(ep, f) \subseteq DOMAIN stored OBVIOUS
<1>2. FetchTimeline(f) \subseteq DOMAIN stored BY DEF FetchTimeline, Dedup
<1> QED BY <1>2, Zenon DEF Selected, Endpoints, KeysetEndpoints, TiedEndpoints, UntiedEndpoints,
        FetchMessages, FetchParts, FetchToolCalls, FetchChildren, FetchRecords, FetchRecordsWithContext,
        FetchSessions, FetchAgentRuns, FetchRuns, FetchEntityRows, FetchCorrelations, FetchCanonicalRuns,
        FetchReverseLinks, FetchSessionLinks, ListQuarantinedIdentities, ListClients

\* A page changes nothing that a query reads.
LEMMA QueriesOnlyRead ==
    ASSUME UNCHANGED <<stored, links>>
    PROVE  /\ \A ep \in Endpoints : \A f : Selected(ep, f)' = Selected(ep, f)
           /\ \A r, c : After(r, c)' = After(r, c)
           /\ \A ep, r, q : ListedBefore(ep, r, q)' = ListedBefore(ep, r, q)
<1>0. stored' = stored /\ links' = links OBVIOUS
<1>1. ASSUME NEW r PROVE KeyTime(r)' = KeyTime(r) BY <1>0 DEF KeyTime
<1>2. ASSUME NEW r, NEW c PROVE After(r, c)' = After(r, c) BY <1>0 DEF After, KeyTime
<1>3. ASSUME NEW ep, NEW r, NEW q PROVE ListedBefore(ep, r, q)' = ListedBefore(ep, r, q)
  BY <1>0 DEF ListedBefore, Ascending, Newest, KeyTime
<1>4. ASSUME NEW ep \in Endpoints, NEW f PROVE Selected(ep, f)' = Selected(ep, f)
  <2>1. /\ FetchMessages(f)' = FetchMessages(f) /\ FetchParts(f)' = FetchParts(f)
        /\ FetchToolCalls(f)' = FetchToolCalls(f)
    BY <1>0 DEF FetchMessages, FetchParts, FetchToolCalls, Tagged, InSession, Since, Until
  <2>2. FetchTimeline(f)' = FetchTimeline(f)
    <3>1. Descendants(f.session, f.depth)' = Descendants(f.session, f.depth) BY <1>0 DEF Descendants, Deepest
    <3>2. Dedup(f)' = Dedup(f) BY <1>0, <3>1 DEF Dedup
    <3> QED BY <1>0, <3>2 DEF FetchTimeline, Tagged, Since, Until
  <2>3. /\ FetchChildren(f)' = FetchChildren(f) /\ FetchRecords(f)' = FetchRecords(f)
        /\ FetchRecordsWithContext(f)' = FetchRecordsWithContext(f)
    BY <1>0 DEF FetchChildren, FetchRecords, FetchRecordsWithContext, Tagged, InSession, Since, Until
  <2>4. /\ FetchSessions(f)' = FetchSessions(f) /\ FetchAgentRuns(f)' = FetchAgentRuns(f)
        /\ FetchRuns(f)' = FetchRuns(f) /\ FetchEntityRows(f)' = FetchEntityRows(f)
        /\ FetchCorrelations(f)' = FetchCorrelations(f)
    BY <1>0 DEF FetchSessions, FetchAgentRuns, FetchRuns, FetchEntityRows, FetchCorrelations, Tagged, Since, Until
  <2>5. /\ FetchCanonicalRuns(f)' = FetchCanonicalRuns(f) /\ FetchReverseLinks(f)' = FetchReverseLinks(f)
        /\ FetchSessionLinks(f)' = FetchSessionLinks(f)
        /\ ListQuarantinedIdentities(f)' = ListQuarantinedIdentities(f) /\ ListClients(f)' = ListClients(f)
    BY <1>0 DEF FetchCanonicalRuns, FetchReverseLinks, FetchSessionLinks, ListQuarantinedIdentities, ListClients,
                Tagged, InSession
  <2> QED BY <2>1, <2>2, <2>3, <2>4, <2>5, Zenon DEF Selected, Endpoints, KeysetEndpoints, TiedEndpoints, UntiedEndpoints
<1> QED BY <1>2, <1>3, <1>4

LEMMA KeyTimeType == ASSUME TableType, NEW r \in DOMAIN stored PROVE KeyTime(r) \in Nat
BY PagedAssumption DEF TableType, KeyTime

\* Where the sort ends in a key, of two rows one is listed before the other.
LEMMA OrderIsTotal ==
    ASSUME TableType, NEW ep \in KeysetEndpoints \cup TiedEndpoints,
           NEW r \in DOMAIN stored, NEW q \in DOMAIN stored, r # q
    PROVE  ListedBefore(ep, r, q) \/ ListedBefore(ep, q, r)
<1>1. r \in Nat /\ q \in Nat BY PagedAssumption DEF TableType
<1>2. r < q \/ q < r BY <1>1
<1>3. CASE ep \in KeysetEndpoints \cup {"children"}
  <2>1. KeyTime(r) \in Nat /\ KeyTime(q) \in Nat BY KeyTimeType
  <2>2. Ascending(r, q) \/ Ascending(q, r) BY <2>1, <1>2 DEF Ascending
  <2> QED BY <2>2, <1>3 DEF ListedBefore
<1>4. CASE ep \notin KeysetEndpoints \cup {"children"}
  <2>1. ep \in TiedEndpoints BY <1>4
  <2> QED BY <2>1, <1>2, <1>4, Zenon DEF ListedBefore
<1> QED BY <1>3, <1>4

\* So the places of rows are in their order, and a row's place is the number
\* of rows before it.
LEMMA PlaceIsRank ==
    ASSUME TableType, NEW ep \in KeysetEndpoints \cup TiedEndpoints,
           NEW rows \in SUBSET DOMAIN stored, NEW place \in Places(ep, rows)
    PROVE  /\ \A r, q \in rows : place[r] < place[q] <=> ListedBefore(ep, r, q)
           /\ \A r \in rows : Cardinality({q \in rows : ListedBefore(ep, q, r)}) = place[r]
<1> DEFINE n == Cardinality(rows)
<1>1. IsFiniteSet(rows) /\ n \in Nat
  <2>1. rows \subseteq RowIds BY DEF TableType
  <2>2. IsFiniteSet(rows) BY <2>1, PagedAssumption, FS_Subset
  <2> QED BY <2>2, FS_CardinalityType
<1>2. /\ place \in [rows -> 0..n - 1]
      /\ \A r, q \in rows : place[r] = place[q] => r = q
      /\ \A r, q \in rows : ListedBefore(ep, r, q) => place[r] < place[q]
  BY DEF Places
<1>3. ASSUME NEW r \in rows, NEW q \in rows
      PROVE  place[r] < place[q] <=> ListedBefore(ep, r, q)
  <2>1. place[r] \in Nat /\ place[q] \in Nat BY <1>1, <1>2
  <2>2. ASSUME place[r] < place[q] PROVE ListedBefore(ep, r, q)
    <3>1. r # q BY <2>1, <2>2
    <3>2. ~ (place[q] < place[r]) BY <2>1, <2>2
    <3>3. ListedBefore(ep, r, q) \/ ListedBefore(ep, q, r) BY <3>1, OrderIsTotal
    <3> QED BY <3>2, <3>3, <1>2
  <2> QED BY <2>2, <1>2
<1>4. ASSUME NEW r \in rows
      PROVE  Cardinality({q \in rows : ListedBefore(ep, q, r)}) = place[r]
  <2>1. place[r] \in Nat /\ place[r] <= n BY <1>1, <1>2
  <2>2. {q \in rows : ListedBefore(ep, q, r)} = {q \in rows : place[q] \in 0..place[r] - 1}
    <3>1. ASSUME NEW q \in rows PROVE ListedBefore(ep, q, r) <=> place[q] \in 0..place[r] - 1
      <4>1. place[q] \in Nat BY <1>1, <1>2
      <4>2. place[q] < place[r] <=> place[q] \in 0..place[r] - 1 BY <4>1, <2>1
      <4> QED BY <4>2, <1>3
    <3> QED BY <3>1
  <2>3. Cardinality({q \in rows : place[q] \in 0..place[r] - 1}) = place[r] - 0
    <3>1. 0 \in Nat /\ place[r] \in Nat /\ 0 <= place[r] BY <2>1
    <3> QED BY <1>1, <1>2, <2>1, <3>1, RowsInPlaces
  <2>4. Cardinality({q \in rows : ListedBefore(ep, q, r)}) = place[r] - 0 BY <2>2, <2>3, Zenon
  <2> QED BY <2>1, <2>4
<1> QED BY <1>3, <1>4

-----------------------------------------------------------------------------
(* The timeline.                                                           *)

IsChain(chain, root, s, k) ==
    /\ chain \in [0..k -> Sessions]
    /\ chain[0] = root /\ chain[k] = s
    /\ \A i \in 0..k - 1 : <<chain[i], chain[i + 1]>> \in links

Leads(root, s, k) == \E chain \in [0..k -> Sessions] : IsChain(chain, root, s, k)

\* A shortest chain of links visits no session twice.
LEMMA ShortestIsSimple ==
    ASSUME NEW root, NEW s, NEW k \in Nat, NEW chain, IsChain(chain, root, s, k),
           \A m \in 0..k - 1 : ~ Leads(root, s, m)
    PROVE  \A i, j \in 0..k : chain[i] = chain[j] => i = j
<1>0. /\ chain \in [0..k -> Sessions]
      /\ chain[0] = root /\ chain[k] = s
      /\ \A i \in 0..k - 1 : <<chain[i], chain[i + 1]>> \in links
  BY DEF IsChain
<1>1. ASSUME NEW i \in 0..k, NEW j \in 0..k, i < j, chain[i] = chain[j] PROVE FALSE
  <2> DEFINE m == k - (j - i)
             cut == [x \in 0..m |-> IF x <= i THEN chain[x] ELSE chain[x + (j - i)]]
  <2>1. m \in 0..k - 1 /\ i <= m /\ i \in Nat /\ j \in Nat /\ j - i \in Nat /\ m \in Nat BY <1>1
  <2>2. \A x \in 0..m : /\ x <= i => x \in 0..k
                        /\ x + (j - i) \in 0..k
    BY <2>1
  <2>3. cut \in [0..m -> Sessions] BY <1>0, <2>2
  <2>4. cut[0] = root
    <3>1. 0 \in 0..m /\ 0 <= i BY <2>1
    <3> QED BY <3>1, <1>0
  <2>5. cut[m] = s
    <3>1. m \in 0..m BY <2>1
    <3>2. CASE m <= i
      <4>1. m = i /\ j = k BY <3>2, <2>1
      <4> QED BY <4>1, <3>1, <1>0, <1>1
    <3>3. CASE ~ (m <= i)
      <4>1. m + (j - i) = k BY <2>1
      <4> QED BY <4>1, <3>1, <3>3, <1>0
    <3> QED BY <3>2, <3>3
  <2>6. ASSUME NEW x \in 0..m - 1 PROVE <<cut[x], cut[x + 1]>> \in links
    <3>1. x \in Nat /\ x \in 0..m /\ x + 1 \in 0..m BY <2>1
    <3>2. CASE x + 1 <= i
      <4>1. x <= i /\ x \in 0..k - 1 BY <3>1, <3>2, <2>1
      <4> QED BY <4>1, <3>1, <3>2, <1>0
    <3>3. CASE x = i
      <4>1. ~ (x + 1 <= i) /\ (x + 1) + (j - i) = j + 1 /\ j \in 0..k - 1 BY <3>1, <3>3, <2>1
      <4>2. cut[x + 1] = chain[j + 1] BY <4>1, <3>1
      <4>3. cut[x] = chain[j]
        <5>1. x <= i BY <3>3, <3>1
        <5> QED BY <5>1, <3>1, <3>3, <1>1
      <4> QED BY <4>1, <4>2, <4>3, <1>0
    <3>4. CASE x > i
      <4>1. /\ ~ (x <= i) /\ ~ (x + 1 <= i) /\ (x + 1) + (j - i) = (x + (j - i)) + 1
            /\ x + (j - i) \in 0..k - 1
        BY <3>1, <3>4, <2>1
      <4>2. cut[x + 1] = chain[(x + (j - i)) + 1] BY <4>1, <3>1
      <4>3. cut[x] = chain[x + (j - i)] BY <4>1, <3>1
      <4> QED BY <4>1, <4>2, <4>3, <1>0
    <3>5. x + 1 <= i \/ x = i \/ x > i BY <3>1, <2>1
    <3> QED BY <3>2, <3>3, <3>4, <3>5
  <2>7. Leads(root, s, m)
    <3> HIDE DEF cut, m
    <3> QED BY <2>3, <2>4, <2>5, <2>6 DEF Leads, IsChain
  <2> QED BY <2>7, <2>1
<1>2. SUFFICES ASSUME NEW i \in 0..k, NEW j \in 0..k, chain[i] = chain[j], i # j PROVE FALSE OBVIOUS
<1>3. i < j \/ j < i BY <1>2
<1> QED BY <1>1, <1>2, <1>3

\* What n links or fewer lead to, a path of the query leads to in as many.
LEMMA ReachedHasPath ==
    ASSUME NEW root, NEW depth, Deepest(depth) \in Nat,
           NEW n \in 0..Deepest(depth), NEW s \in Reached(root, n)
    PROVE  \E p \in Descendants(root, depth) : Last(p) = s /\ Len(p) \in Nat /\ Len(p) - 1 <= n
<1> DEFINE K == {k \in 0..n : Leads(root, s, k)}
           k == Min(K)
<1>1. K \subseteq Nat /\ K # {} BY DEF Reached, Leads, IsChain
<1>2. k \in K /\ \A m \in K : k <= m
  <2> HIDE DEF K
  <2> QED BY <1>1, LeastOf
<1>3. k \in 0..n /\ k \in Nat /\ Leads(root, s, k) BY <1>2
<1> HIDE DEF k
<1>4. PICK chain \in [0..k -> Sessions] :
        /\ chain[0] = root /\ chain[k] = s
        /\ \A i \in 0..k - 1 : <<chain[i], chain[i + 1]>> \in links
  BY <1>3 DEF Leads, IsChain
<1>5. \A m \in 0..k - 1 : ~ Leads(root, s, m)
  <2>1. SUFFICES ASSUME NEW m \in 0..k - 1, Leads(root, s, m) PROVE FALSE OBVIOUS
  <2>2. m \in 0..n BY <1>3
  <2>3. k <= m BY <1>2, <2>1, <2>2
  <2> QED BY <2>3, <1>3
<1>6. \A i, j \in 0..k : chain[i] = chain[j] => i = j
  <2>1. IsChain(chain, root, s, k) BY <1>4 DEF IsChain
  <2> QED BY <1>3, <1>5, <2>1, ShortestIsSimple, Zenon
<1> DEFINE p == [i \in 1..k + 1 |-> chain[i - 1]]
<1>7. p \in [1..k + 1 -> Sessions] /\ k + 1 \in Nat BY <1>3, <1>4
<1>8. Len(p) = k + 1 BY <1>7
<1>9. p[1] = root /\ p[k + 1] = s
  <2>1. 1 \in 1..k + 1 /\ k + 1 \in 1..k + 1 /\ (k + 1) - 1 = k /\ 1 - 1 = 0 BY <1>3
  <2> QED BY <2>1, <1>4
<1>10. ASSUME NEW i \in 1..Len(p) - 1 PROVE <<p[i], p[i + 1]>> \in links
  <2>1. i \in 1..k BY <1>8, <1>3
  <2>2. i \in 1..k + 1 /\ i + 1 \in 1..k + 1 /\ i - 1 \in 0..k - 1 /\ (i + 1) - 1 = (i - 1) + 1 BY <2>1, <1>3
  <2> QED BY <2>2, <1>4
<1>11. ASSUME NEW i \in 1..Len(p), NEW j \in 1..Len(p), p[i] = p[j] PROVE i = j
  <2>1. i \in 1..k + 1 /\ j \in 1..k + 1 BY <1>8
  <2>2. i - 1 \in 0..k /\ j - 1 \in 0..k BY <2>1, <1>3
  <2>3. chain[i - 1] = chain[j - 1] BY <2>1, <1>11
  <2>4. i - 1 = j - 1 BY <2>2, <2>3, <1>6
  <2> QED BY <2>4, <2>1
<1>12. k + 1 \in 1..Deepest(depth) + 1 BY <1>3
<1> HIDE DEF p
<1>13. p \in Descendants(root, depth) BY <1>7, <1>9, <1>10, <1>11, <1>12 DEF Descendants
<1>14. Last(p) = s BY <1>8, <1>9 DEF Last
<1>15. Len(p) - 1 <= n BY <1>8, <1>3
<1> QED BY <1>8, <1>7, <1>13, <1>14, <1>15

\* And a path of the query leads to what as many links lead to.
LEMMA PathReaches ==
    ASSUME NEW root, NEW depth, Deepest(depth) \in Nat, NEW p \in Descendants(root, depth)
    PROVE  /\ Len(p) - 1 \in 0..Deepest(depth)
           /\ Last(p) \in Reached(root, Len(p) - 1)
<1>1. PICK n \in 1..Deepest(depth) + 1 : p \in [1..n -> Sessions] BY DEF Descendants
<1>2. Len(p) = n /\ n \in Nat BY <1>1
<1>3. /\ p[1] = root
      /\ \A i \in 1..Len(p) - 1 : <<p[i], p[i + 1]>> \in links
  BY DEF Descendants
<1> DEFINE k == n - 1
           chain == [i \in 0..k |-> p[i + 1]]
<1>4. k \in 0..Deepest(depth) /\ k \in Nat /\ k + 1 = n BY <1>1, <1>2
<1>5. \A i \in 0..k : i + 1 \in 1..n BY <1>2
<1>6. chain \in [0..k -> Sessions] BY <1>1, <1>5
<1>7. chain[0] = root /\ chain[k] = Last(p)
  <2>1. 0 \in 0..k /\ k \in 0..k /\ 0 + 1 = 1 BY <1>4
  <2> QED BY <2>1, <1>2, <1>3, <1>4 DEF Last
<1>8. ASSUME NEW i \in 0..k - 1 PROVE <<chain[i], chain[i + 1]>> \in links
  <2>1. i \in 0..k /\ i + 1 \in 0..k /\ i + 1 \in 1..n - 1 BY <1>4
  <2> QED BY <2>1, <1>2, <1>3
<1>9. Last(p) \in Sessions
  <2>1. k \in 0..k BY <1>4
  <2> QED BY <2>1, <1>6, <1>7
<1>10. Last(p) \in Reached(root, k)
  <2>1. k \in 0..k BY <1>4
  <2> HIDE DEF chain, k
  <2> QED BY <2>1, <1>6, <1>7, <1>8, <1>9 DEF Reached
<1>11. k = Len(p) - 1 BY <1>2
<1> QED BY <1>4, <1>10, <1>11

LEMMA ReachedGrows ==
    ASSUME NEW root, NEW n \in Nat, NEW m \in 0..n
    PROVE  Reached(root, m) \subseteq Reached(root, n)
<1>1. 0..m \subseteq 0..n OBVIOUS
<1> QED BY <1>1 DEF Reached

LEMMA DeepestIsNat == ASSUME NEW f \in Filters PROVE Deepest(f.depth) \in Nat
<1>1. f.depth \in Nat \cup {None} BY PagedAssumption
<1>2. Cardinality(Sessions) \in Nat BY PagedAssumption, FS_CardinalityType
<1> QED BY <1>1, <1>2 DEF Deepest

\* The depth DISTINCT ON keeps is the distance from the root.
LEMMA ListedAtDistance ==
    ASSUME NEW f \in Filters
    PROVE  LET listed == Dedup(f)
               deepest == Deepest(f.depth)
           IN  /\ DOMAIN listed = {r \in DOMAIN stored : stored[r].session \in Reached(f.session, deepest)}
               /\ \A r \in DOMAIN listed, n \in 0..deepest :
                     listed[r] <= n <=> stored[r].session \in Reached(f.session, n)
<1> DEFINE listed == Dedup(f)
           deepest == Deepest(f.depth)
           root == f.session
           paths == Descendants(root, f.depth)
<1>0. deepest \in Nat BY DeepestIsNat
<1>5. \A d, n, x : Deepest(d) \in Nat /\ n \in 0..Deepest(d) /\ x \in Reached(root, n) =>
         \E p \in Descendants(root, d) : Last(p) = x /\ Len(p) \in Nat /\ Len(p) - 1 <= n
  BY ReachedHasPath
<1>1. DOMAIN listed = {x \in DOMAIN stored : \E p \in paths : stored[x].session = Last(p)} BY DEF Dedup
<1>2. ASSUME NEW s PROVE (\E p \in paths : s = Last(p)) <=> s \in Reached(root, deepest)
  <2>1. ASSUME NEW p \in paths PROVE Last(p) \in Reached(root, deepest)
    <3>1. Len(p) - 1 \in 0..deepest /\ Last(p) \in Reached(root, Len(p) - 1) BY <1>0, PathReaches
    <3> QED BY <3>1, <1>0, ReachedGrows
  <2>2. ASSUME s \in Reached(root, deepest) PROVE \E p \in paths : s = Last(p)
    <3>1. deepest \in 0..deepest BY <1>0
    <3>2. \E p \in paths : Last(p) = s /\ Len(p) \in Nat /\ Len(p) - 1 <= deepest
      <4>1. deepest \in 0..deepest /\ s \in Reached(root, deepest) BY <3>1, <2>2
      <4>2. Deepest(f.depth) \in Nat BY <1>0
      <4> QED BY <1>5, <4>1, <4>2
    <3> QED BY <3>2, Zenon
  <2> QED BY <2>1, <2>2
<1>3. ASSUME NEW r \in DOMAIN listed, NEW n \in 0..deepest
      PROVE  listed[r] <= n <=> stored[r].session \in Reached(root, n)
  <2> DEFINE s == stored[r].session
             L == {Len(p) - 1 : p \in {q \in paths : Last(q) = s}}
  <2>1. listed[r] = Min(L) BY DEF Dedup
  <2>2. L \subseteq Nat
    <3>1. ASSUME NEW p \in paths PROVE Len(p) - 1 \in Nat BY <1>0, PathReaches
    <3> QED BY <3>1
  <2>3. L # {} BY <1>1
  <2>4. Min(L) \in L /\ \A m \in L : Min(L) <= m
    <3> HIDE DEF L
    <3> QED BY <2>2, <2>3, LeastOf
  <2>5. ASSUME listed[r] <= n PROVE s \in Reached(root, n)
    <3>1. PICK p \in paths : Last(p) = s /\ Len(p) - 1 = Min(L) BY <2>4
    <3>2. Len(p) - 1 \in 0..deepest /\ s \in Reached(root, Len(p) - 1) BY <3>1, <1>0, PathReaches
    <3>3. n \in Nat /\ Len(p) - 1 \in 0..n BY <3>1, <3>2, <2>1, <2>5, <1>0
    <3> QED BY <3>2, <3>3, ReachedGrows
  <2>6. ASSUME s \in Reached(root, n) PROVE listed[r] <= n
    <3>0. \E p \in paths : Last(p) = s /\ Len(p) \in Nat /\ Len(p) - 1 <= n
      <4>1. n \in 0..Deepest(f.depth) /\ s \in Reached(root, n) /\ Deepest(f.depth) \in Nat BY <2>6, <1>0
      <4> HIDE DEF s
      <4> QED BY <1>5, <4>1
    <3>1. PICK p \in paths : Last(p) = s /\ Len(p) \in Nat /\ Len(p) - 1 <= n BY <3>0, Zenon
    <3>2. Len(p) - 1 \in L BY <3>1
    <3>3. Min(L) <= Len(p) - 1 BY <3>2, <2>4
    <3>4. Min(L) \in Nat BY <2>2, <2>4
    <3> HIDE DEF L
    <3> QED BY <3>1, <3>3, <3>4, <2>1
  <2> QED BY <2>5, <2>6
<1>4. DOMAIN listed = {r \in DOMAIN stored : stored[r].session \in Reached(root, deepest)} BY <1>1, <1>2
<1> QED BY <1>3, <1>4

-----------------------------------------------------------------------------
(* The walk.                                                               *)

WalkType ==
    walk \in [pc : {"page", "count", "rows", "done"}, ep : Endpoints, f : Filters, size : Nat \ {0},
              cursor : {None} \cup (Nat \X Nat), offset : Nat, total : Nat,
              seen : [RowIds -> Nat], given : Nat, steady : SUBSET RowIds, calm : BOOLEAN]

\* What a keyset walk has still to come to.
Ahead(r) == walk.pc = "page" /\ After(r, walk.cursor)

StepsFit(ep, f) ==
    /\ walk.pc = "page" => ep \in KeysetEndpoints
    /\ walk.pc \in {"count", "rows"} => ep \notin KeysetEndpoints
    /\ walk.steady \subseteq Selected(ep, f)
    /\ walk.calm => walk.steady = Selected(ep, f)

\* A keyset walk has given what is not ahead of its cursor, once.
KeysetIsSound(ep, f) ==
    ep \in KeysetEndpoints =>
        /\ \A r \in walk.steady : walk.seen[r] = IF Ahead(r) THEN 0 ELSE 1
        /\ walk.calm => walk.given = Cardinality({r \in Selected(ep, f) : ~ Ahead(r)})

\* An offset walk that nothing disturbs has given as many rows as its offset
\* says, and where the order is total those with fewer rows before them.
OffsetIsSound(ep, f) ==
    ep \notin KeysetEndpoints /\ walk.calm =>
        LET n == Cardinality(Selected(ep, f))
        IN  /\ walk.given = IF walk.offset <= n THEN walk.offset ELSE n
            /\ walk.pc \in {"rows", "done"} => walk.total = n
            /\ walk.pc = "done" => n <= walk.offset
            /\ ep \in TiedEndpoints =>
                  \A r \in Selected(ep, f) :
                     walk.seen[r] = IF Cardinality({q \in Selected(ep, f) : ListedBefore(ep, q, r)}) < walk.offset
                                    THEN 1 ELSE 0

WalkIsSound ==
    walk.pc # "none" =>
        /\ WalkType
        /\ \A ep \in Endpoints, f \in Filters :
              walk.ep = ep /\ walk.f = f => StepsFit(ep, f) /\ KeysetIsSound(ep, f) /\ OffsetIsSound(ep, f)

PagedInv == TableType /\ WalkIsSound

LEMMA SelectedIsFinite ==
    ASSUME TableType, NEW ep \in Endpoints, NEW f
    PROVE  /\ Selected(ep, f) \subseteq DOMAIN stored
           /\ Selected(ep, f) \subseteq RowIds
           /\ IsFiniteSet(Selected(ep, f)) /\ Cardinality(Selected(ep, f)) \in Nat
<1>1. Selected(ep, f) \subseteq DOMAIN stored BY SelectedIsStored
<1>2. Selected(ep, f) \subseteq RowIds BY <1>1 DEF TableType
<1>3. IsFiniteSet(Selected(ep, f)) BY <1>2, PagedAssumption, FS_Subset
<1> QED BY <1>1, <1>2, <1>3, FS_CardinalityType

LEMMA PagedInit_Inv == PagedInit => PagedInv
<1>1. SUFFICES ASSUME PagedInit PROVE PagedInv OBVIOUS
<1>2. PICK S \in SUBSET RowIds : stored \in [S -> Contents] BY <1>1, PagedAssumption DEF PagedInit
<1>3. \A r \in DOMAIN stored : stored[r] \in Contents BY <1>2
<1>4. TableType BY <1>1, <1>2, <1>3, PagedAssumption DEF TableType, PagedInit
<1>5. walk.pc = "none" BY <1>1 DEF PagedInit, NoWalk
<1> QED BY <1>4, <1>5 DEF PagedInv, WalkIsSound

LEMMA BeginKeepsInv ==
    ASSUME PagedInv, NEW ep \in Endpoints, NEW f \in Filters, NEW n \in Sizes, Begin(ep, f, n)
    PROVE  PagedInv'
<1>0. stored' = stored /\ links' = links BY DEF Begin
<1>1. TableType' BY <1>0 DEF PagedInv, TableType
<1>2. /\ walk'.pc = IF ep \in KeysetEndpoints THEN "page" ELSE "count"
      /\ walk'.ep = ep /\ walk'.f = f /\ walk'.cursor = None /\ walk'.offset = 0
      /\ walk'.seen = [r \in RowIds |-> 0] /\ walk'.given = 0
      /\ walk'.steady = Selected(ep, f) /\ walk'.calm = TRUE
  BY DEF Begin
<1>3. WalkType'
  <2>1. Selected(ep, f) \subseteq RowIds BY SelectedIsFinite DEF PagedInv
  <2>2. n \in Nat \ {0} BY PagedAssumption
  <2> QED BY <2>1, <2>2 DEF Begin, WalkType
<1> DEFINE S == Selected(ep, f)
<1>4. Selected(ep, f)' = S /\ \A r, q : ListedBefore(ep, r, q)' = ListedBefore(ep, r, q) BY <1>0, QueriesOnlyRead
<1>5. S \subseteq RowIds /\ IsFiniteSet(S) /\ Cardinality(S) \in Nat BY SelectedIsFinite DEF PagedInv
<1>6. StepsFit(ep, f)' BY <1>2, <1>4 DEF StepsFit
<1>7. KeysetIsSound(ep, f)'
  <2>1. SUFFICES ASSUME ep \in KeysetEndpoints
                 PROVE  /\ \A r \in walk'.steady : walk'.seen[r] = IF Ahead(r)' THEN 0 ELSE 1
                        /\ walk'.given = Cardinality({r \in Selected(ep, f)' : ~ Ahead(r)'})
    BY DEF KeysetIsSound
  <2>2. \A r : Ahead(r)' BY <1>2, <2>1 DEF Ahead, After
  <2>3. {r \in Selected(ep, f)' : ~ Ahead(r)'} = {} BY <2>2
  <2>4. Cardinality({}) = 0 BY FS_EmptySet
  <2>5. \A r \in walk'.steady : walk'.seen[r] = 0 BY <1>2, <1>5
  <2> QED BY <1>2, <2>2, <2>3, <2>4, <2>5
<1>8. OffsetIsSound(ep, f)'
  <2> DEFINE before(r) == {q \in S : ListedBefore(ep, q, r)}
  <2>1. \A r \in S : Cardinality(before(r)) \in Nat BY <1>5, FS_Subset, FS_CardinalityType
  <2>2. SUFFICES ASSUME ep \notin KeysetEndpoints
                 PROVE  /\ walk'.given = IF walk'.offset <= Cardinality(S) THEN walk'.offset ELSE Cardinality(S)
                        /\ walk'.pc = "count"
                        /\ \A r \in S : walk'.seen[r] = IF Cardinality(before(r)) < walk'.offset THEN 1 ELSE 0
    BY <1>4 DEF OffsetIsSound
  <2>3. \A r \in S : walk'.seen[r] = 0 BY <1>2, <1>5
  <2> QED BY <1>2, <1>5, <2>1, <2>2, <2>3
<1>9. WalkIsSound' BY <1>2, <1>3, <1>6, <1>7, <1>8 DEF WalkIsSound
<1> QED BY <1>1, <1>9 DEF PagedInv

\* Rows after a cursor stay after it when the cursor is put on one of them
\* that is listed before them.
LEMMA CursorMovesOn ==
    ASSUME TableType, NEW r \in DOMAIN stored, NEW last \in DOMAIN stored,
           NEW cursor \in {None} \cup (Nat \X Nat)
    PROVE  /\ After(r, <<KeyTime(last), last>>) <=> Ascending(last, r)
           /\ After(last, cursor) /\ Ascending(last, r) => After(r, cursor)
<1>1. /\ KeyTime(r) \in Nat /\ KeyTime(last) \in Nat BY KeyTimeType
<1>2. r \in Nat /\ last \in Nat BY PagedAssumption DEF TableType
<1>3. <<KeyTime(last), last>> # None BY <1>1, <1>2, PagedAssumption
<1>4. After(r, <<KeyTime(last), last>>) <=> Ascending(last, r)
  BY <1>1, <1>2, <1>3 DEF After, Ascending
<1>5. ASSUME After(last, cursor), Ascending(last, r) PROVE After(r, cursor)
  <2>1. CASE cursor = None BY <2>1 DEF After
  <2>2. CASE cursor # None
    <3>1. cursor[1] \in Nat /\ cursor[2] \in Nat BY <2>2
    <3> QED BY <1>1, <1>2, <1>5, <2>2, <3>1 DEF After, Ascending
  <2> QED BY <2>1, <2>2
<1> QED BY <1>4, <1>5

LEMMA KeysetPageKeepsInv == ASSUME PagedInv, KeysetPage PROVE PagedInv'
<1>0. stored' = stored /\ links' = links /\ TableType /\ walk.pc = "page" /\ WalkType
  BY DEF KeysetPage, PagedInv, WalkIsSound
<1>1. TableType' BY <1>0 DEF TableType
<1>2. PICK ep \in Endpoints, f \in Filters : walk.ep = ep /\ walk.f = f BY <1>0 DEF WalkType
<1>3. StepsFit(ep, f) /\ KeysetIsSound(ep, f) /\ ep \in KeysetEndpoints
  BY <1>0, <1>2 DEF PagedInv, WalkIsSound, StepsFit
<1> DEFINE S == Selected(ep, f)
           rows == {r \in S : After(r, walk.cursor)}
           more == Cardinality(rows) > walk.size
<1> DEFINE found == {r \in Selected(walk.ep, walk.f) : After(r, walk.cursor)}
           Moves(all, part, end) ==
               walk' = [walk EXCEPT !.seen = SeenWith(part), !.given = @ + Cardinality(part),
                                    !.cursor = IF Cardinality(all) > walk.size THEN <<KeyTime(end), end>> ELSE @,
                                    !.pc = IF Cardinality(all) > walk.size THEN "page" ELSE "done"]
           Part(all, place) == {r \in all : place[r] < walk.size}
           End(all, place) == CHOOSE r \in Part(all, place) : place[r] = walk.size - 1
<1>4. PICK place \in Places(ep, rows) : Moves(rows, Part(rows, place), End(rows, place))
  <2>1. \E place \in Places(walk.ep, found) : Moves(found, Part(found, place), End(found, place))
    BY DEF KeysetPage
  <2>2. found = rows BY <1>2
  <2> HIDE DEF found, rows, Moves, Part, End
  <2> QED BY <1>2, <2>1, <2>2
<1> DEFINE page == {r \in rows : place[r] < walk.size}
           last == CHOOSE r \in page : place[r] = walk.size - 1
<1>5. /\ walk'.seen = SeenWith(page) /\ walk'.given = walk.given + Cardinality(page)
      /\ walk'.cursor = IF more THEN <<KeyTime(last), last>> ELSE walk.cursor
      /\ walk'.pc = IF more THEN "page" ELSE "done"
      /\ walk'.ep = walk.ep /\ walk'.f = walk.f /\ walk'.size = walk.size /\ walk'.offset = walk.offset
      /\ walk'.total = walk.total /\ walk'.steady = walk.steady /\ walk'.calm = walk.calm
      /\ walk' = [pc |-> walk'.pc, ep |-> walk'.ep, f |-> walk'.f, size |-> walk'.size, cursor |-> walk'.cursor,
                  offset |-> walk'.offset, total |-> walk'.total, seen |-> walk'.seen, given |-> walk'.given,
                  steady |-> walk'.steady, calm |-> walk'.calm]
  BY <1>0, <1>4 DEF WalkType
<1>6. /\ walk.size \in Nat \ {0} /\ walk.cursor \in {None} \cup (Nat \X Nat)
      /\ walk.seen \in [RowIds -> Nat] /\ walk.given \in Nat
      /\ walk.offset \in Nat /\ walk.total \in Nat /\ walk.steady \in SUBSET RowIds /\ walk.calm \in BOOLEAN
  BY <1>0 DEF WalkType
<1>7. /\ S \subseteq DOMAIN stored /\ S \subseteq RowIds /\ IsFiniteSet(S)
      /\ rows \in SUBSET DOMAIN stored /\ IsFiniteSet(rows) /\ Cardinality(rows) \in Nat
      /\ IsFiniteSet(page) /\ Cardinality(page) \in Nat
  <2>1. S \subseteq DOMAIN stored /\ S \subseteq RowIds /\ IsFiniteSet(S) BY <1>0, SelectedIsFinite
  <2>2. IsFiniteSet(rows) BY <2>1, FS_Subset
  <2>3. IsFiniteSet(page) BY <2>2, FS_Subset
  <2> QED BY <2>1, <2>2, <2>3, FS_CardinalityType
<1>8. /\ place \in [rows -> 0..Cardinality(rows) - 1]
      /\ \A r, q \in rows : place[r] = place[q] => r = q
  BY DEF Places
<1>9. \A r, q \in rows : place[r] < place[q] <=> Ascending(r, q)
  <2>1. \A r, q \in rows : place[r] < place[q] <=> ListedBefore(ep, r, q) BY <1>0, <1>3, <1>7, PlaceIsRank
  <2>2. \A r, q : ListedBefore(ep, r, q) = Ascending(r, q) BY <1>3 DEF ListedBefore
  <2> QED BY <2>1, <2>2
<1>10. more => last \in page /\ place[last] = walk.size - 1
  <2>1. SUFFICES ASSUME more PROVE \E r \in page : place[r] = walk.size - 1 OBVIOUS
  <2> DEFINE a == walk.size - 1
             there == {r \in rows : place[r] \in a..walk.size - 1}
  <2>2. a \in Nat /\ walk.size \in Nat /\ a <= walk.size /\ walk.size <= Cardinality(rows) BY <1>6, <1>7, <2>1
  <2>3. Cardinality(there) = walk.size - a BY <1>7, <1>8, <2>2, RowsInPlaces
  <2>4. Cardinality(there) # 0 BY <2>2, <2>3
  <2>5. there # {} BY <2>4, FS_EmptySet
  <2>6. PICK r \in rows : place[r] \in a..walk.size - 1 BY <2>5
  <2>7. place[r] = walk.size - 1 /\ place[r] < walk.size BY <2>6, <2>2
  <2> QED BY <2>7
<1>11. \A r \in S : (~ Ahead(r)') <=> (~ Ahead(r) \/ r \in page)
  <2>1. SUFFICES ASSUME NEW r \in S PROVE (~ Ahead(r)') <=> (~ Ahead(r) \/ r \in page) OBVIOUS
  <2>2. Ahead(r) <=> r \in rows BY <1>0 DEF Ahead
  <2>3. Ahead(r)' <=> walk'.pc = "page" /\ After(r, walk'.cursor) BY <1>0 DEF Ahead, After, KeyTime
  <2>4. CASE more
    <3>1. last \in page /\ last \in rows /\ place[last] = walk.size - 1 BY <1>10, <2>4
    <3>2. Ahead(r)' <=> After(r, <<KeyTime(last), last>>) BY <1>5, <2>3, <2>4
    <3> HIDE DEF last
    <3>3. last \in DOMAIN stored /\ r \in DOMAIN stored /\ After(last, walk.cursor) BY <1>7, <3>1
    <3>4. Ahead(r)' <=> Ascending(last, r) BY <1>0, <1>6, <3>2, <3>3, CursorMovesOn
    <3>5. Ascending(last, r) => r \in rows BY <1>0, <1>6, <3>3, CursorMovesOn
    <3>6. r \in rows => (Ascending(last, r) <=> r \notin page)
      <4>1. SUFFICES ASSUME r \in rows PROVE Ascending(last, r) <=> r \notin page OBVIOUS
      <4>2. place[last] < place[r] <=> Ascending(last, r) BY <1>9, <3>1, <4>1
      <4>3. place[r] \in Nat BY <1>7, <1>8, <4>1
      <4>4. place[last] < place[r] <=> ~ (place[r] < walk.size) BY <1>6, <3>1, <4>3
      <4> QED BY <4>1, <4>2, <4>4
    <3> QED BY <2>2, <3>4, <3>5, <3>6
  <2>5. CASE ~ more
    <3>1. ~ Ahead(r)' BY <1>5, <2>3, <2>5
    <3>2. r \in rows => r \in page
      <4>1. r \in rows => place[r] \in Nat /\ place[r] < Cardinality(rows) BY <1>7, <1>8
      <4>2. Cardinality(rows) <= walk.size BY <1>6, <1>7, <2>5
      <4> QED BY <1>6, <1>7, <4>1, <4>2
    <3> QED BY <2>2, <3>1, <3>2
  <2> QED BY <2>4, <2>5
<1>12. \A r \in page : Ahead(r) BY <1>0 DEF Ahead
<1>13. Selected(ep, f)' = S BY <1>0, QueriesOnlyRead
<1>14. \A r \in RowIds : walk'.seen[r] = walk.seen[r] + (IF r \in page THEN 1 ELSE 0)
  <2> HIDE DEF page
  <2> QED BY <1>5 DEF SeenWith
<1>15. walk'.cursor \in {None} \cup (Nat \X Nat)
  <2>1. more => KeyTime(last) \in Nat /\ last \in Nat
    <3>1. more => last \in DOMAIN stored BY <1>7, <1>10
    <3> HIDE DEF last, more
    <3> QED BY <1>0, <3>1, KeyTimeType, PagedAssumption DEF TableType
  <2> HIDE DEF last, more
  <2> QED BY <1>5, <1>6, <2>1
<1> HIDE DEF page, last, more
<1>16. WalkType'
  <2>1. walk'.seen \in [RowIds -> Nat]
    <3>1. \A r \in RowIds : walk.seen[r] + (IF r \in page THEN 1 ELSE 0) \in Nat BY <1>6
    <3> QED BY <1>5, <3>1 DEF SeenWith
  <2>2. walk'.given \in Nat BY <1>5, <1>6, <1>7
  <2>3. walk'.pc \in {"page", "done"} BY <1>5
  <2>4. /\ walk'.ep \in Endpoints /\ walk'.f \in Filters /\ walk'.size \in Nat \ {0} /\ walk'.offset \in Nat
        /\ walk'.total \in Nat /\ walk'.steady \in SUBSET RowIds /\ walk'.calm \in BOOLEAN
    BY <1>2, <1>5, <1>6
  <2>5. walk' = [pc |-> walk'.pc, ep |-> walk'.ep, f |-> walk'.f, size |-> walk'.size, cursor |-> walk'.cursor,
                  offset |-> walk'.offset, total |-> walk'.total, seen |-> walk'.seen, given |-> walk'.given,
                  steady |-> walk'.steady, calm |-> walk'.calm]
    BY <1>5
  <2> QED BY <1>15, <2>1, <2>2, <2>3, <2>4, <2>5 DEF WalkType
<1>17. StepsFit(ep, f)' BY <1>3, <1>5, <1>13 DEF StepsFit
<1>18. KeysetIsSound(ep, f)'
  <2>1. ASSUME NEW r \in walk.steady PROVE walk'.seen[r] = IF Ahead(r)' THEN 0 ELSE 1
    <3>1. r \in S /\ r \in RowIds BY <1>3, <1>7 DEF StepsFit
    <3>2. walk.seen[r] = IF Ahead(r) THEN 0 ELSE 1 BY <1>3, <2>1 DEF KeysetIsSound
    <3>3. (~ Ahead(r)') <=> (~ Ahead(r) \/ r \in page) BY <1>11, <3>1
    <3>4. r \in page => Ahead(r) BY <1>12
    <3>5. walk'.seen[r] = walk.seen[r] + (IF r \in page THEN 1 ELSE 0) BY <1>14, <3>1
    <3> QED BY <3>2, <3>3, <3>4, <3>5
  <2>2. ASSUME walk.calm PROVE walk'.given = Cardinality({r \in S : ~ Ahead(r)'})
    <3> DEFINE past == {r \in S : ~ Ahead(r)}
    <3>1. walk.given = Cardinality(past) BY <1>3, <2>2 DEF KeysetIsSound
    <3>2. {r \in S : ~ Ahead(r)'} = past \cup page
      <4>1. page \subseteq S BY DEF page
      <4> QED BY <1>11, <4>1
    <3>3. past \cap page = {} BY <1>12
    <3>4. IsFiniteSet(past) /\ Cardinality(past) \in Nat BY <1>7, FS_Subset, FS_CardinalityType
    <3>5. Cardinality(past \cup page) = Cardinality(past) + Cardinality(page) - Cardinality(past \cap page)
      <4> HIDE DEF past
      <4> QED BY <1>7, <3>4, FS_Union
    <3>6. Cardinality(past \cap page) = 0 BY <3>3, FS_EmptySet
    <3>7. Cardinality(past \cup page) = Cardinality(past) + Cardinality(page)
      <4>1. Cardinality(page) \in Nat BY <1>7
      <4> HIDE DEF past
      <4> QED BY <3>4, <3>5, <3>6, <4>1
    <3> QED BY <1>5, <3>1, <3>2, <3>7
  <2> HIDE DEF S
  <2> QED BY <2>1, <2>2, <1>5, <1>13 DEF KeysetIsSound
<1>19. OffsetIsSound(ep, f)' BY <1>3 DEF OffsetIsSound
<1>20. WalkIsSound' BY <1>2, <1>5, <1>16, <1>17, <1>18, <1>19 DEF WalkIsSound
<1> QED BY <1>1, <1>20 DEF PagedInv

LEMMA CountRowsKeepsInv == ASSUME PagedInv, CountRows PROVE PagedInv'
<1>0. stored' = stored /\ links' = links /\ TableType /\ walk.pc = "count" /\ WalkType
  BY DEF CountRows, PagedInv, WalkIsSound
<1>1. TableType' BY <1>0 DEF TableType
<1>2. PICK ep \in Endpoints, f \in Filters : walk.ep = ep /\ walk.f = f BY <1>0 DEF WalkType
<1>3. StepsFit(ep, f) /\ OffsetIsSound(ep, f) /\ ep \notin KeysetEndpoints
  BY <1>0, <1>2 DEF PagedInv, WalkIsSound, StepsFit
<1> DEFINE S == Selected(ep, f)
<1>4. Selected(ep, f)' = S /\ \A r, q : ListedBefore(ep, r, q)' = ListedBefore(ep, r, q) BY <1>0, QueriesOnlyRead
<1>5. Cardinality(S) \in Nat BY <1>0, SelectedIsFinite
<1>6. walk' = [walk EXCEPT !.total = Cardinality(S), !.pc = "rows"] BY <1>2 DEF CountRows
<1>7. WalkType' BY <1>0, <1>5, <1>6 DEF WalkType
<1>8. /\ walk'.pc = "rows" /\ walk'.total = Cardinality(S) /\ walk'.ep = ep /\ walk'.f = f
      /\ walk'.seen = walk.seen /\ walk'.given = walk.given /\ walk'.offset = walk.offset
      /\ walk'.steady = walk.steady /\ walk'.calm = walk.calm
  BY <1>0, <1>2, <1>6 DEF WalkType
<1>9. StepsFit(ep, f)' BY <1>3, <1>4, <1>8 DEF StepsFit
<1>10. KeysetIsSound(ep, f)' BY <1>3 DEF KeysetIsSound
<1>11. OffsetIsSound(ep, f)' BY <1>3, <1>4, <1>8 DEF OffsetIsSound
<1>12. WalkIsSound' BY <1>7, <1>8, <1>9, <1>10, <1>11 DEF WalkIsSound
<1> QED BY <1>1, <1>12 DEF PagedInv

LEMMA OffsetPageKeepsInv == ASSUME PagedInv, OffsetPage PROVE PagedInv'
<1>0. stored' = stored /\ links' = links /\ TableType /\ walk.pc = "rows" /\ WalkType
  BY DEF OffsetPage, PagedInv, WalkIsSound
<1>1. TableType' BY <1>0 DEF TableType
<1>2. PICK ep \in Endpoints, f \in Filters : walk.ep = ep /\ walk.f = f BY <1>0 DEF WalkType
<1>3. StepsFit(ep, f) /\ OffsetIsSound(ep, f) /\ ep \notin KeysetEndpoints
  BY <1>0, <1>2 DEF PagedInv, WalkIsSound, StepsFit
<1> DEFINE S == Selected(ep, f)
           n == Cardinality(S)
           end == walk.offset + walk.size
           found == Selected(walk.ep, walk.f)
           Part(all, place) == {r \in all : place[r] \in walk.offset .. end - 1}
           Moves(part) ==
               walk' = [walk EXCEPT !.seen = SeenWith(part), !.given = @ + Cardinality(part),
                                    !.offset = end,
                                    !.pc = IF end < walk.total THEN "count" ELSE "done"]
<1>4. PICK place \in Places(ep, S) : Moves(Part(S, place))
  <2>1. \E place \in Places(walk.ep, found) : Moves(Part(found, place)) BY DEF OffsetPage
  <2>2. found = S BY <1>2
  <2> HIDE DEF found, S, Moves, Part
  <2> QED BY <1>2, <2>1, <2>2
<1> DEFINE page == {r \in S : place[r] \in walk.offset .. end - 1}
<1>5. /\ walk'.seen = SeenWith(page) /\ walk'.given = walk.given + Cardinality(page)
      /\ walk'.offset = end /\ walk'.pc = IF end < walk.total THEN "count" ELSE "done"
      /\ walk'.ep = walk.ep /\ walk'.f = walk.f /\ walk'.size = walk.size /\ walk'.cursor = walk.cursor
      /\ walk'.total = walk.total /\ walk'.steady = walk.steady /\ walk'.calm = walk.calm
      /\ walk' = [pc |-> walk'.pc, ep |-> walk'.ep, f |-> walk'.f, size |-> walk'.size, cursor |-> walk'.cursor,
                  offset |-> walk'.offset, total |-> walk'.total, seen |-> walk'.seen, given |-> walk'.given,
                  steady |-> walk'.steady, calm |-> walk'.calm]
  BY <1>0, <1>4 DEF WalkType
<1>6. /\ walk.size \in Nat \ {0} /\ walk.cursor \in {None} \cup (Nat \X Nat)
      /\ walk.seen \in [RowIds -> Nat] /\ walk.given \in Nat
      /\ walk.offset \in Nat /\ walk.total \in Nat /\ walk.steady \in SUBSET RowIds /\ walk.calm \in BOOLEAN
  BY <1>0 DEF WalkType
<1>7. /\ S \in SUBSET DOMAIN stored /\ S \subseteq RowIds /\ IsFiniteSet(S) /\ n \in Nat
      /\ IsFiniteSet(page) /\ Cardinality(page) \in Nat
  <2>1. S \subseteq DOMAIN stored /\ S \subseteq RowIds /\ IsFiniteSet(S) BY <1>0, SelectedIsFinite
  <2>2. IsFiniteSet(page) BY <2>1, FS_Subset
  <2> QED BY <2>1, <2>2, FS_CardinalityType
<1>8. /\ place \in [S -> 0..n - 1]
      /\ \A r, q \in S : place[r] = place[q] => r = q
  BY DEF Places
<1>9. end \in Nat /\ walk.offset < end BY <1>6
<1>10. Cardinality(page) = IF end <= n THEN end - walk.offset ELSE IF walk.offset <= n THEN n - walk.offset ELSE 0
  <2>1. walk.offset \in Nat /\ end \in Nat /\ walk.offset <= end BY <1>6, <1>9
  <2> QED BY <2>1, <1>7, <1>8, RowsInPlaces
<1>11. ep \in TiedEndpoints => \A r \in S : Cardinality({q \in S : ListedBefore(ep, q, r)}) = place[r]
  <2>1. S \in SUBSET DOMAIN stored BY <1>7
  <2> HIDE DEF S
  <2> QED BY <1>0, <2>1, PlaceIsRank
<1>12. Selected(ep, f)' = S /\ \A r, q : ListedBefore(ep, r, q)' = ListedBefore(ep, r, q) BY <1>0, QueriesOnlyRead
<1> HIDE DEF page, end, n
<1>13. WalkType'
  <2>1. walk'.seen \in [RowIds -> Nat]
    <3>1. \A r \in RowIds : walk.seen[r] + (IF r \in page THEN 1 ELSE 0) \in Nat BY <1>6
    <3> QED BY <1>5, <3>1 DEF SeenWith
  <2>2. walk'.given \in Nat BY <1>5, <1>6, <1>7
  <2>3. walk'.pc \in {"count", "done"} BY <1>5
  <2>4. /\ walk'.ep \in Endpoints /\ walk'.f \in Filters /\ walk'.size \in Nat \ {0} /\ walk'.offset \in Nat
        /\ walk'.total \in Nat /\ walk'.steady \in SUBSET RowIds /\ walk'.calm \in BOOLEAN
        /\ walk'.cursor \in {None} \cup (Nat \X Nat)
    BY <1>2, <1>5, <1>6, <1>9
  <2>5. walk' = [pc |-> walk'.pc, ep |-> walk'.ep, f |-> walk'.f, size |-> walk'.size, cursor |-> walk'.cursor,
                  offset |-> walk'.offset, total |-> walk'.total, seen |-> walk'.seen, given |-> walk'.given,
                  steady |-> walk'.steady, calm |-> walk'.calm]
    BY <1>5
  <2> QED BY <2>1, <2>2, <2>3, <2>4, <2>5 DEF WalkType
<1>14. StepsFit(ep, f)' BY <1>3, <1>5, <1>12 DEF StepsFit
<1>15. KeysetIsSound(ep, f)' BY <1>3 DEF KeysetIsSound
<1>16. OffsetIsSound(ep, f)'
  <2> DEFINE rank(r) == Cardinality({q \in S : ListedBefore(ep, q, r)})
  <2>1. SUFFICES ASSUME walk.calm
                 PROVE  /\ walk'.given = IF end <= n THEN end ELSE n
                        /\ walk'.pc = "done" => walk.total = n /\ n <= end
                        /\ ep \in TiedEndpoints =>
                              \A r \in S : walk'.seen[r] = IF rank(r) < end THEN 1 ELSE 0
    <3> HIDE DEF S
    <3> QED BY <1>5, <1>12 DEF OffsetIsSound, n
  <2>2. /\ walk.given = IF walk.offset <= n THEN walk.offset ELSE n
        /\ walk.total = n
        /\ ep \in TiedEndpoints => \A r \in S : walk.seen[r] = IF rank(r) < walk.offset THEN 1 ELSE 0
    BY <1>0, <1>3, <2>1 DEF OffsetIsSound, n
  <2>3. walk'.given = IF end <= n THEN end ELSE n BY <1>5, <1>6, <1>7, <1>9, <1>10, <2>2
  <2>4. walk'.pc = "done" => walk.total = n /\ n <= end BY <1>5, <1>7, <1>9, <2>2
  <2>5. ASSUME ep \in TiedEndpoints, NEW r \in S PROVE walk'.seen[r] = IF rank(r) < end THEN 1 ELSE 0
    <3>1. rank(r) = place[r] BY <1>11, <2>5
    <3>2. place[r] \in Nat BY <1>7, <1>8, <2>5 DEF n
    <3>3. r \in page <=> walk.offset <= place[r] /\ place[r] < end BY <1>6, <1>9, <2>5, <3>2 DEF page
    <3>4. walk.seen[r] = IF rank(r) < walk.offset THEN 1 ELSE 0 BY <2>2, <2>5
    <3>5. walk'.seen[r] = walk.seen[r] + (IF r \in page THEN 1 ELSE 0)
      <4>1. r \in RowIds BY <1>7, <2>5
      <4> QED BY <1>5, <4>1 DEF SeenWith
    <3> HIDE DEF rank
    <3> QED BY <1>6, <1>9, <3>1, <3>2, <3>3, <3>4, <3>5
  <2> QED BY <2>3, <2>4, <2>5
<1>17. WalkIsSound' BY <1>2, <1>5, <1>13, <1>14, <1>15, <1>16 DEF WalkIsSound
<1> QED BY <1>1, <1>17 DEF PagedInv

\* A write leaves what was promised of the rows that stay in place.
LEMMA DisturbKeepsInv == ASSUME PagedInv, TableType', Disturb PROVE PagedInv'
<1>0. WalkType BY DEF PagedInv, WalkIsSound, Disturb
<1>1. PICK ep \in Endpoints, f \in Filters : walk.ep = ep /\ walk.f = f BY <1>0 DEF WalkType
<1>2. StepsFit(ep, f) /\ KeysetIsSound(ep, f) BY <1>1 DEF PagedInv, WalkIsSound, Disturb
<1> DEFINE kept == {r \in walk.steady : r \in Selected(ep, f)' /\ stored'[r].at = stored[r].at}
<1>3. walk' = [walk EXCEPT !.calm = FALSE, !.steady = kept] BY <1>1 DEF Disturb
<1>4. kept \subseteq walk.steady /\ kept \subseteq Selected(ep, f)' OBVIOUS
<1>5. /\ walk'.pc = walk.pc /\ walk'.ep = ep /\ walk'.f = f /\ walk'.cursor = walk.cursor
      /\ walk'.seen = walk.seen /\ walk'.steady = kept /\ walk'.calm = FALSE
  BY <1>0, <1>1, <1>3 DEF WalkType
<1>6. \A r \in kept : Ahead(r)' = Ahead(r)
  <2>1. SUFFICES ASSUME NEW r \in kept PROVE Ahead(r)' = Ahead(r) OBVIOUS
  <2>2. stored'[r].at = stored[r].at BY <2>1
  <2> HIDE DEF kept
  <2> QED BY <1>5, <2>2 DEF Ahead, After, KeyTime
<1> HIDE DEF kept
<1>7. WalkType' BY <1>0, <1>3, <1>4 DEF WalkType
<1>8. StepsFit(ep, f)' BY <1>2, <1>4, <1>5 DEF StepsFit
<1>9. KeysetIsSound(ep, f)' BY <1>2, <1>4, <1>5, <1>6 DEF KeysetIsSound
<1>10. OffsetIsSound(ep, f)' BY <1>5 DEF OffsetIsSound
<1>11. WalkIsSound' BY <1>5, <1>7, <1>8, <1>9, <1>10 DEF WalkIsSound
<1> QED BY <1>11 DEF PagedInv

LEMMA PagedNext_Inv == PagedInv /\ [PagedNext]_pagedVars => PagedInv'
<1>1. SUFFICES ASSUME PagedInv, [PagedNext]_pagedVars PROVE PagedInv' OBVIOUS
<1>2. TableType BY <1>1 DEF PagedInv
<1>3. CASE \E ep \in Endpoints, f \in Filters, n \in Sizes : Begin(ep, f, n) BY <1>1, <1>3, BeginKeepsInv
<1>4. CASE KeysetPage BY <1>1, <1>4, KeysetPageKeepsInv
<1>5. CASE CountRows BY <1>1, <1>5, CountRowsKeepsInv
<1>6. CASE OffsetPage BY <1>1, <1>6, OffsetPageKeepsInv
<1>7. ASSUME NEW r \in RowIds, NEW c \in Contents, InsertRow(r, c) PROVE PagedInv'
  <2>1. TableType' BY <1>2, <1>7, PagedAssumption DEF InsertRow, TableType
  <2> QED BY <1>1, <1>7, <2>1, DisturbKeepsInv DEF InsertRow
<1>8. ASSUME NEW r \in RowIds, NEW c \in Contents, RekeyRow(r, c) PROVE PagedInv'
  <2>1. /\ stored' = [stored EXCEPT ![r].at = c.at] /\ links' = links /\ r \in DOMAIN stored
        /\ c.at \in Nat \cup {None}
    BY <1>8, PagedAssumption DEF RekeyRow
  <2>2. /\ DOMAIN stored' = DOMAIN stored
        /\ stored' = [x \in DOMAIN stored |-> stored'[x]]
        /\ \A x \in DOMAIN stored : x # r => stored'[x] = stored[x]
    BY <2>1
  <2>3. stored'[r] = [session |-> stored[r].session, tag |-> stored[r].tag, at |-> c.at]
    <3>1. stored'[r] = [stored[r] EXCEPT !.at = c.at] BY <2>1
    <3>2. stored[r] = [session |-> stored[r].session, tag |-> stored[r].tag, at |-> stored[r].at]
      BY <1>2, <2>1 DEF TableType
    <3> QED BY <3>1, <3>2
  <2>4. ASSUME NEW x \in DOMAIN stored
        PROVE  /\ stored'[x] = [session |-> stored'[x].session, tag |-> stored'[x].tag, at |-> stored'[x].at]
               /\ stored'[x].at \in Nat \cup {None}
    <3>1. CASE x = r BY <2>1, <2>3, <3>1
    <3>2. CASE x # r BY <1>2, <2>2, <3>2 DEF TableType
    <3> QED BY <3>1, <3>2
  <2>5. TableType' BY <1>2, <2>1, <2>2, <2>4 DEF TableType
  <2> QED BY <1>1, <1>8, <2>5, DisturbKeepsInv DEF RekeyRow
<1>9. ASSUME NEW r \in RowIds, DeleteRow(r) PROVE PagedInv'
  <2>1. TableType' BY <1>2, <1>9 DEF DeleteRow, TableType
  <2> QED BY <1>1, <1>9, <2>1, DisturbKeepsInv DEF DeleteRow
<1>10. ASSUME NEW l \in UNION Trees, LinkSessions(l) PROVE PagedInv'
  <2>1. l \in Sessions \X Sessions BY PagedAssumption
  <2>2. TableType' BY <1>2, <1>10, <2>1 DEF LinkSessions, TableType
  <2> QED BY <1>1, <1>10, <2>2, DisturbKeepsInv DEF LinkSessions
<1>11. CASE UNCHANGED pagedVars
  <2>1. stored' = stored /\ links' = links /\ walk' = walk BY <1>11 DEF pagedVars
  <2>2. TableType' BY <1>2, <2>1 DEF TableType
  <2>3. ASSUME NEW ep \in Endpoints, NEW f \in Filters, walk.ep = ep, walk.f = f, walk.pc # "none"
        PROVE  StepsFit(ep, f)' /\ KeysetIsSound(ep, f)' /\ OffsetIsSound(ep, f)'
    <3>1. StepsFit(ep, f) /\ KeysetIsSound(ep, f) /\ OffsetIsSound(ep, f)
      BY <1>1, <2>3 DEF PagedInv, WalkIsSound
    <3>2. /\ Selected(ep, f)' = Selected(ep, f)
          /\ \A r, q : ListedBefore(ep, r, q)' = ListedBefore(ep, r, q)
      BY <2>1, QueriesOnlyRead
    <3>3. \A r : Ahead(r)' = Ahead(r) BY <2>1 DEF Ahead, After, KeyTime
    <3>4. StepsFit(ep, f)' BY <2>1, <3>1, <3>2 DEF StepsFit
    <3>5. KeysetIsSound(ep, f)' BY <2>1, <3>1, <3>2, <3>3 DEF KeysetIsSound
    <3>6. OffsetIsSound(ep, f)' BY <2>1, <3>1, <3>2 DEF OffsetIsSound
    <3> QED BY <3>4, <3>5, <3>6
  <2>4. walk.pc # "none" => WalkType' BY <1>1, <2>1 DEF PagedInv, WalkIsSound, WalkType
  <2>5. WalkIsSound' BY <2>1, <2>3, <2>4 DEF WalkIsSound
  <2> QED BY <2>2, <2>5 DEF PagedInv
<1> QED BY <1>1, <1>3, <1>4, <1>5, <1>6, <1>7, <1>8, <1>9, <1>10, <1>11 DEF PagedNext, Endpoints

LEMMA PagedInvMeans == PagedInv => WalksAreExact
<1>1. SUFFICES ASSUME PagedInv PROVE WalksAreExact OBVIOUS
<1>2. TableType BY <1>1 DEF PagedInv
<1>3. KeysetWalkIsExact
  <2>1. SUFFICES ASSUME walk.pc = "done", walk.ep \in KeysetEndpoints, NEW r \in walk.steady PROVE walk.seen[r] = 1
    BY DEF KeysetWalkIsExact, Once
  <2>2. PICK ep \in Endpoints, f \in Filters : walk.ep = ep /\ walk.f = f
    BY <1>1, <2>1 DEF PagedInv, WalkIsSound, WalkType
  <2>3. KeysetIsSound(ep, f) BY <1>1, <2>1, <2>2 DEF PagedInv, WalkIsSound
  <2>4. ~ Ahead(r) BY <2>1 DEF Ahead
  <2> QED BY <2>1, <2>2, <2>3, <2>4 DEF KeysetIsSound
<1>4. UndisturbedWalkIsExact
  <2>1. SUFFICES ASSUME walk.pc = "done", walk.calm
                 PROVE  /\ walk.ep \in TiedEndpoints => \A r \in Selected(walk.ep, walk.f) : Once(r)
                        /\ walk.ep \notin KeysetEndpoints => walk.given = walk.total
                        /\ walk.ep \in {"messages", "parts"}
                              /\ walk.f.tag = None /\ walk.f.from = None /\ walk.f.to = None
                           => walk.given = HeaderCount(walk.f.session)
    BY DEF UndisturbedWalkIsExact
  <2>2. PICK ep \in Endpoints, f \in Filters : walk.ep = ep /\ walk.f = f
    BY <1>1, <2>1 DEF PagedInv, WalkIsSound, WalkType
  <2>3. WalkType /\ StepsFit(ep, f) /\ KeysetIsSound(ep, f) /\ OffsetIsSound(ep, f)
    BY <1>1, <2>1, <2>2 DEF PagedInv, WalkIsSound
  <2> DEFINE S == Selected(ep, f)
             n == Cardinality(S)
  <2>4. /\ S \subseteq DOMAIN stored /\ IsFiniteSet(S) /\ n \in Nat /\ walk.offset \in Nat
    BY <1>2, <2>3, SelectedIsFinite DEF WalkType
  <2>5. ASSUME ep \in TiedEndpoints, NEW r \in S PROVE Once(r)
    <3> DEFINE before == {q \in S : ListedBefore(ep, q, r)}
    <3>1. ep \notin KeysetEndpoints BY <2>5 DEF KeysetEndpoints, TiedEndpoints
    <3>2. n <= walk.offset /\ walk.seen[r] = IF Cardinality(before) < walk.offset THEN 1 ELSE 0
      BY <2>1, <2>3, <2>5, <3>1 DEF OffsetIsSound
    <3>3. r \notin before
      <4>1. KeyTime(r) \in Nat /\ r \in Nat
        <5>1. r \in DOMAIN stored BY <2>4, <2>5
        <5> QED BY <1>2, <5>1, KeyTimeType, PagedAssumption DEF TableType
      <4>2. ~ ListedBefore(ep, r, r) BY <4>1 DEF ListedBefore, Ascending, Newest
      <4> QED BY <4>2
    <3>4. /\ IsFiniteSet(before) /\ Cardinality(before) <= n
          /\ n = Cardinality(before) => S = before
      BY <2>4, FS_Subset
    <3>5. Cardinality(before) \in Nat BY <3>4, FS_CardinalityType
    <3>6. Cardinality(before) # n BY <2>5, <3>3, <3>4
    <3>7. Cardinality(before) < walk.offset
      <4> HIDE DEF before, n
      <4> QED BY <2>4, <3>2, <3>4, <3>5, <3>6
    <3> QED BY <3>2, <3>7 DEF Once
  <2>6. ASSUME ep \notin KeysetEndpoints PROVE walk.given = walk.total
    <3>1. /\ walk.given = IF walk.offset <= n THEN walk.offset ELSE n
          /\ walk.total = n /\ n <= walk.offset
      BY <2>1, <2>3, <2>6 DEF OffsetIsSound
    <3> HIDE DEF n
    <3> QED BY <2>4, <3>1
  <2>7. ASSUME ep \in {"messages", "parts"}, f.tag = None, f.from = None, f.to = None
        PROVE  walk.given = HeaderCount(f.session)
    <3>1. ep \in KeysetEndpoints BY <2>7 DEF KeysetEndpoints
    <3>2. walk.given = Cardinality({r \in S : ~ Ahead(r)}) BY <2>1, <2>3, <3>1 DEF KeysetIsSound
    <3>3. \A r : ~ Ahead(r) BY <2>1 DEF Ahead
    <3>4. S = {r \in DOMAIN stored : stored[r].session = f.session}
      <4>1. CASE ep = "messages"
        <5>1. S = FetchMessages(f) BY <4>1 DEF Selected
        <5> QED BY <2>7, <5>1 DEF FetchMessages, Tagged, Since, Until
      <4>2. CASE ep = "parts"
        <5>1. S = FetchParts(f) BY <4>2 DEF Selected
        <5> QED BY <2>7, <5>1 DEF FetchParts, Tagged, Since, Until
      <4> QED BY <2>7, <4>1, <4>2
    <3>5. {r \in S : ~ Ahead(r)} = S BY <3>3
    <3> QED BY <3>2, <3>4, <3>5 DEF HeaderCount
  <2> QED BY <2>2, <2>5, <2>6, <2>7
<1>5. TimelineDepthIsDistance
  <2>1. SUFFICES ASSUME walk.pc # "none", walk.ep = "timeline"
        PROVE  LET listed == Dedup(walk.f)
                   deepest == Deepest(walk.f.depth)
                   within == [n \in 0..deepest |-> Reached(walk.f.session, n)]
               IN  /\ DOMAIN listed = {r \in DOMAIN stored : stored[r].session \in within[deepest]}
                   /\ \A r \in DOMAIN listed, n \in 0..deepest : listed[r] <= n <=> stored[r].session \in within[n]
    BY DEF TimelineDepthIsDistance
  <2>2. PICK f \in Filters : walk.f = f BY <1>1, <2>1 DEF PagedInv, WalkIsSound, WalkType
  <2> DEFINE deepest == Deepest(f.depth)
             within == [n \in 0..deepest |-> Reached(f.session, n)]
  <2>3. deepest \in Nat BY DeepestIsNat
  <2>4. \A n \in 0..deepest : within[n] = Reached(f.session, n) OBVIOUS
  <2>5. deepest \in 0..deepest BY <2>3
  <2>6. /\ DOMAIN Dedup(f) = {r \in DOMAIN stored : stored[r].session \in Reached(f.session, deepest)}
        /\ \A r \in DOMAIN Dedup(f), n \in 0..deepest :
              Dedup(f)[r] <= n <=> stored[r].session \in Reached(f.session, n)
    BY ListedAtDistance
  <2>7. /\ DOMAIN Dedup(f) = {r \in DOMAIN stored : stored[r].session \in within[deepest]}
        /\ \A r \in DOMAIN Dedup(f), n \in 0..deepest :
              Dedup(f)[r] <= n <=> stored[r].session \in within[n]
    BY <2>4, <2>5, <2>6
  <2> QED BY <2>2, <2>7
<1> QED BY <1>3, <1>4, <1>5 DEF WalksAreExact

(* What a client that follows the pages to their end may rely on, for any  *)
(* table, links, filters, page sizes and writers: a keyset walk gives each *)
(* row that kept its place exactly once, an undisturbed offset walk as     *)
(* many rows as its total, each once where the sort ends in a key, and the *)
(* timeline lists every part at its distance from the root session.        *)
THEOREM WalksMissNothing == PagedSpec => []WalksAreExact
<1>1. PagedSpec => []PagedInv BY PagedInit_Inv, PagedNext_Inv, PTL DEF PagedSpec
<1> QED BY <1>1, PagedInvMeans, PTL

-----------------------------------------------------------------------------
(* The backfill.  What a pass works on: the window and the links.          *)

LEMMA FlattenInSeq ==
    ASSUME NEW S, NEW n \in Nat, NEW seqs \in [1..n -> Seq(S)]
    PROVE  FlattenSeq(seqs) \in Seq(S)
<1>1. Len(seqs) = n OBVIOUS
<1>2. CASE n = 0
  <2>1. FlattenSeq(seqs) = <<>> BY <1>1, <1>2 DEF FlattenSeq
  <2> QED BY <2>1
<1>3. CASE n # 0
  <2>1. PICK f : Flattens(f, seqs) /\ FlattenSeq(seqs) = f[n] BY <1>1, <1>3, FlattenUnfolds
  <2>2. \A i \in 1..n : f[i] = IF i = 1 THEN seqs[i] ELSE f[i - 1] \o seqs[i] BY <1>1, <2>1 DEF Flattens
  <2> DEFINE G == {m \in Nat : m + 1 \in 1..n => f[m + 1] \in Seq(S)}
  <2>3. 0 \in G
    <3>1. 1 \in 1..n BY <1>3
    <3>2. f[1] = seqs[1] BY <2>2, <3>1
    <3> QED BY <3>1, <3>2
  <2>4. ASSUME NEW m \in Nat, m \in G PROVE m + 1 \in G
    <3>1. SUFFICES ASSUME (m + 1) + 1 \in 1..n PROVE f[(m + 1) + 1] \in Seq(S) OBVIOUS
    <3>2. m + 1 \in 1..n /\ (m + 1) + 1 # 1 /\ ((m + 1) + 1) - 1 = m + 1 BY <3>1
    <3>3. f[m + 1] \in Seq(S) BY <2>4, <3>2
    <3>4. f[(m + 1) + 1] = f[m + 1] \o seqs[(m + 1) + 1] BY <2>2, <3>1, <3>2
    <3>5. seqs[(m + 1) + 1] \in Seq(S) BY <3>1
    <3> QED BY <3>3, <3>4, <3>5
  <2>5. Nat \subseteq G
    <3> HIDE DEF G
    <3> QED BY <2>3, <2>4, AllNaturals
  <2>6. n - 1 \in Nat /\ (n - 1) + 1 = n /\ n \in 1..n BY <1>3
  <2>7. n - 1 \in G
    <3> HIDE DEF G
    <3> QED BY <2>5, <2>6
  <2> QED BY <2>1, <2>6, <2>7
<1> QED BY <1>2, <1>3

LEMMA SetInSeq == ASSUME NEW S, IsFiniteSet(S) PROVE SetToSeq(S) \in Seq(S)
BY SetListed

\* The image of a finite set under a function is finite.
LEMMA ImageIsFinite ==
    ASSUME NEW S, IsFiniteSet(S), NEW f, DOMAIN f = S
    PROVE  IsFiniteSet({f[x] : x \in S})
<1> DEFINE T == {f[x] : x \in S}
           g == [x \in S |-> f[x]]
<1>1. g \in Surjection(S, T) BY DEF Surjection
<1> HIDE DEF g, T
<1>2. IsFiniteSet(T) BY <1>1, FS_Surjection
<1> QED BY <1>2 DEF T

\* An id says what the entity is.
TypedEntity(e) == e.type = e.id[1]

LEMMA EntityIsTyped ==
    ASSUME NEW id, NEW fields, "id" \notin DOMAIN fields, "type" \notin DOMAIN fields
    PROVE  TypedEntity(Entity(id, fields)) /\ Entity(id, fields).id = id
<1> DEFINE names == [id |-> id, type |-> id[1]]
           back == Over(names, NoFields)
           whole == Over(fields, back)
<1>1. /\ DOMAIN names = {"id", "type"} /\ names["id"] = id /\ names["type"] = id[1] OBVIOUS
<1> HIDE DEF names
<1>2. "id" \in DOMAIN back /\ "type" \in DOMAIN back /\ back["id"] = id /\ back["type"] = id[1]
  BY <1>1 DEF Over
<1> HIDE DEF back
<1>3. whole["id"] = id /\ whole["type"] = id[1] BY <1>2 DEF Over
<1>4. Entity(id, fields) = whole BY DEF Entity, back, names
<1> HIDE DEF whole
<1> QED BY <1>3, <1>4 DEF TypedEntity

LEMMA WindowIsTyped ==
    ASSUME NEW w
    PROVE  \E E : FetchEntities(w) \in Seq(E) /\ \A e \in E : TypedEntity(e)
<1> DEFINE pulls == {n \in DOMAIN HostPulls : InWindow(HostPulls[n], w)}
           listed == SetToSeq(pulls)
           A == IssueEntities(w)
           B == ChangeRequestEntities(pulls)
           C == UNION {CommitEntities(n) : n \in pulls}
           E == {e \in A \cup B \cup C : TRUE}
           seqs == [k \in 1..Len(listed) |-> SetToSeq(CommitEntities(listed[k]))]
<1>1. IsFiniteSet(pulls)
  <2>1. pulls \subseteq DOMAIN HostPulls OBVIOUS
  <2> QED BY <2>1, FS_Subset, BackfillAssumption
<1>2. IsFiniteSet(A)
  <2> DEFINE ns == {m \in DOMAIN HostIssues : InWindow(HostIssues[m], w)}
             f == [n \in ns |-> Entity(<<"issue", n>>, [number |-> n, from |-> HostIssues[n].from, to |-> HostIssues[n].to])]
  <2>1. IsFiniteSet(ns)
    <3>1. ns \subseteq DOMAIN HostIssues OBVIOUS
    <3> QED BY <3>1, FS_Subset, BackfillAssumption
  <2>2. A = {f[n] : n \in ns} BY DEF IssueEntities
  <2> HIDE DEF ns
  <2>3. DOMAIN f = ns OBVIOUS
  <2> HIDE DEF f, A
  <2>4. IsFiniteSet({f[n] : n \in ns}) BY <2>1, <2>3, ImageIsFinite
  <2> QED BY <2>2, <2>4
<1>3. IsFiniteSet(B)
  <2> DEFINE merged == {m \in pulls : hostPulls[m].state = "merged"}
             f == [n \in pulls |-> Entity(<<"change_request", n>>,
                      [number |-> n, title |-> hostPulls[n].title, state |-> hostPulls[n].state,
                       from |-> HostPulls[n].from, to |-> HostPulls[n].to])]
             g == [n \in merged |-> Entity(<<"merge_event", n>>, [number |-> n, state |-> "merged", from |-> HostPulls[n].to])]
  <2> HIDE DEF pulls
  <2>1. IsFiniteSet(merged)
    <3>1. merged \subseteq pulls OBVIOUS
    <3> QED BY <1>1, <3>1, FS_Subset
  <2>2. B = {f[n] : n \in pulls} \cup {g[n] : n \in merged} BY DEF ChangeRequestEntities
  <2>3. DOMAIN f = pulls /\ DOMAIN g = merged OBVIOUS
  <2> HIDE DEF f, g, B, merged
  <2>4. IsFiniteSet({f[n] : n \in pulls}) BY <1>1, <2>3, ImageIsFinite
  <2>5. IsFiniteSet({g[n] : n \in merged}) BY <2>1, <2>3, ImageIsFinite
  <2> QED BY <2>2, <2>4, <2>5, FS_Union
<1>4. \A n \in pulls : IsFiniteSet(CommitEntities(n))
  <2> TAKE n \in pulls
  <2> DEFINE cs == DOMAIN HostPulls[n].commits
             f == [c \in cs |-> Entity(<<"commit", c>>, [refs |-> HostPulls[n].commits[c], owner |-> n, from |-> HostPulls[n].to])]
  <2>1. IsFiniteSet(cs) BY BackfillAssumption
  <2>2. CommitEntities(n) = {f[c] : c \in cs} BY DEF CommitEntities
  <2> HIDE DEF cs
  <2>3. DOMAIN f = cs OBVIOUS
  <2> HIDE DEF f
  <2>4. IsFiniteSet({f[c] : c \in cs}) BY <2>1, <2>3, ImageIsFinite
  <2> QED BY <2>2, <2>4
<1>5. \A e \in E : TypedEntity(e)
  <2>1. \A e \in A : TypedEntity(e)
    <3> SUFFICES ASSUME NEW n
                 PROVE  TypedEntity(Entity(<<"issue", n>>, [number |-> n, from |-> HostIssues[n].from, to |-> HostIssues[n].to]))
      BY DEF IssueEntities
    <3> DEFINE fields == [number |-> n, from |-> HostIssues[n].from, to |-> HostIssues[n].to]
    <3>1. "id" \notin DOMAIN fields /\ "type" \notin DOMAIN fields OBVIOUS
    <3> HIDE DEF fields
    <3>2. TypedEntity(Entity(<<"issue", n>>, fields)) BY <3>1, EntityIsTyped
    <3> QED BY <3>2 DEF fields
  <2>2. \A e \in B : TypedEntity(e)
    <3> DEFINE cr(n) == [number |-> n, title |-> hostPulls[n].title, state |-> hostPulls[n].state,
                         from |-> HostPulls[n].from, to |-> HostPulls[n].to]
               merge(n) == [number |-> n, state |-> "merged", from |-> HostPulls[n].to]
    <3>1. \A n : "id" \notin DOMAIN cr(n) /\ "type" \notin DOMAIN cr(n)
                 /\ "id" \notin DOMAIN merge(n) /\ "type" \notin DOMAIN merge(n) OBVIOUS
    <3>2. \A e \in B : \E n : e = Entity(<<"change_request", n>>, cr(n)) \/ e = Entity(<<"merge_event", n>>, merge(n))
      BY DEF ChangeRequestEntities
    <3> HIDE DEF cr, merge
    <3>3. \A n : TypedEntity(Entity(<<"change_request", n>>, cr(n))) /\ TypedEntity(Entity(<<"merge_event", n>>, merge(n)))
      BY <3>1, EntityIsTyped
    <3> QED BY <3>2, <3>3
  <2>3. \A e \in C : TypedEntity(e)
    <3> SUFFICES ASSUME NEW n, NEW c
                 PROVE  TypedEntity(Entity(<<"commit", c>>, [refs |-> HostPulls[n].commits[c], owner |-> n, from |-> HostPulls[n].to]))
      BY DEF CommitEntities
    <3> DEFINE fields == [refs |-> HostPulls[n].commits[c], owner |-> n, from |-> HostPulls[n].to]
    <3>1. "id" \notin DOMAIN fields /\ "type" \notin DOMAIN fields OBVIOUS
    <3> HIDE DEF fields
    <3>2. TypedEntity(Entity(<<"commit", c>>, fields)) BY <3>1, EntityIsTyped
    <3> QED BY <3>2 DEF fields
  <2> QED BY <2>1, <2>2, <2>3
<1>6. SetToSeq(A) \in Seq(E) /\ SetToSeq(B) \in Seq(E)
  <2>1. A \subseteq E /\ B \subseteq E OBVIOUS
  <2> HIDE DEF A, B, E
  <2>2. SetToSeq(A) \in Seq(A) /\ SetToSeq(B) \in Seq(B) BY <1>2, <1>3, SetInSeq
  <2> QED BY <2>1, <2>2
<1>7. FlattenSeq(seqs) \in Seq(E)
  <2>1. listed \in Seq(pulls) /\ Len(listed) \in Nat
    <3> HIDE DEF pulls
    <3> QED BY <1>1, SetInSeq
  <2>2. \A n \in pulls : SetToSeq(CommitEntities(n)) \in Seq(E)
    <3> TAKE n \in pulls
    <3>1. CommitEntities(n) \subseteq E OBVIOUS
    <3> HIDE DEF pulls, E
    <3>2. SetToSeq(CommitEntities(n)) \in Seq(CommitEntities(n)) BY <1>4, SetInSeq
    <3> QED BY <3>1, <3>2
  <2> HIDE DEF listed, pulls, E
  <2>3. seqs \in [1..Len(listed) -> Seq(E)] BY <2>1, <2>2
  <2> HIDE DEF seqs
  <2> QED BY <2>1, <2>3, FlattenInSeq
<1>8. FetchEntities(w) = SetToSeq(A) \o SetToSeq(B) \o FlattenSeq(seqs) BY DEF FetchEntities
<1> HIDE DEF E, A, B, seqs
<1>9. FetchEntities(w) \in Seq(E) BY <1>6, <1>7, <1>8
<1> QED BY <1>5, <1>9

\* What a rule proposes of change requests with a resolving confidence is
\* about one of them only.
OnlyOwner(proposals, o) ==
    \A p \in proposals : p.id[1] = "change_request" /\ p.conf >= ResolvedRoleThreshold => p.id = o
LockedOwner(locked, o) ==
    \A id \in DOMAIN locked :
        id[1] = "change_request" /\ locked[id].conf >= ResolvedRoleThreshold => id = o

LEMMA LockOwner ==
    ASSUME NEW locked, NEW proposals, NEW o, LockedOwner(locked, o), OnlyOwner(proposals, o)
    PROVE  LockedOwner(Lock(locked, proposals), o)
<1> DEFINE l == Lock(locked, proposals)
           earliest(id) == CHOOSE q \in proposals : q.id = id
<1>1. /\ DOMAIN l = DOMAIN locked \cup {p.id : p \in proposals}
      /\ \A id \in DOMAIN l : l[id] = IF id \in DOMAIN locked THEN locked[id]
                                      ELSE [conf |-> earliest(id).conf, method |-> earliest(id).method]
  BY DEF Lock
<1>2. \A id \in DOMAIN l : id \notin DOMAIN locked => earliest(id) \in proposals /\ earliest(id).id = id
  BY <1>1
<1> HIDE DEF l, earliest
<1>3. SUFFICES ASSUME NEW id \in DOMAIN l, id[1] = "change_request", l[id].conf >= ResolvedRoleThreshold
               PROVE  id = o
  BY DEF LockedOwner, l
<1>4. CASE id \in DOMAIN locked BY <1>1, <1>3, <1>4 DEF LockedOwner
<1>5. CASE id \notin DOMAIN locked
  <2>1. earliest(id) \in proposals /\ earliest(id).id = id BY <1>2, <1>5
  <2>2. l[id] = [conf |-> earliest(id).conf, method |-> earliest(id).method] BY <1>1, <1>3, <1>5
  <2>3. l[id].conf = earliest(id).conf BY <2>2
  <2> QED BY <1>3, <2>1, <2>3 DEF OnlyOwner
<1> QED BY <1>4, <1>5

LEMMA LockIsFinite ==
    ASSUME NEW locked, NEW proposals, NEW ids, DOMAIN locked \subseteq ids,
           \A p \in proposals : p.id \in ids
    PROVE  DOMAIN Lock(locked, proposals) \subseteq ids
BY DEF Lock

LEMMA BindIs ==
    ASSUME NEW S, NEW conf, NEW method
    PROVE  \A p \in Bind(S, conf, method) : p.conf = conf /\ \E e \in S : p.id = e.id
BY DEF Bind

EntityIds(es) == {e.id : e \in Range(es)}

\* Only the change request that alone has the run's title is bound with a
\* resolving confidence: branches and commits bind issues, and times weakly.
LEMMA OnlyOwnerIsBound ==
    ASSUME NEW run, NEW es, \A e \in Range(es) : TypedEntity(e)
    PROVE  /\ \E o : LockedOwner(Correlations(run, es, {}), o)
           /\ DOMAIN Correlations(run, es, {}) \subseteq EntityIds(es)
<1> DEFINE owners == ChangeRequestsTitled(run, es)
           owner == CHOOSE c \in owners : TRUE
           o == owner.id
           none == [id \in {} |-> None]
           events == {}
           given == ExplicitRunIdRule(run, es, events)
           referred == IssueReferenceRule(run, es, events)
           branched == BranchIssueReferenceRule(run, es, events)
           committed == CommitIssueReferenceRule(run, es, events)
           timed == TemporalInferenceRule(run, es, events)
           explicit == Lock(none, given)
           issues == Lock(explicit, referred)
           branches == Lock(issues, branched)
           commits == Lock(branches, committed)
<1>0. Correlations(run, es, {}) = Lock(commits, timed) BY DEF Correlations
<1>1. DOMAIN none = {} OBVIOUS
<1> HIDE DEF none
<1>2. given = {} BY DEF ExplicitRunIdRule
<1>3. \A numbers : \A e \in IssuesNumbered(es, numbers) : e \in Range(es) /\ e.id[1] = "issue"
  BY DEF IssuesNumbered, OfType, TypedEntity
<1>4. /\ \A p \in branched : p.id[1] = "issue" /\ p.id \in EntityIds(es)
      /\ \A p \in committed : p.id[1] = "issue" /\ p.id \in EntityIds(es)
  BY <1>3, BindIs DEF BranchIssueReferenceRule, CommitIssueReferenceRule, EntityIds
<1>5. \A p \in timed : p.conf = 4 /\ p.id \in EntityIds(es) BY DEF TemporalInferenceRule, Bind, EntityIds
<1>6. \A p \in referred : (p.id = o \/ p.id[1] = "issue") /\ p.id \in EntityIds(es)
  <2>1. CASE Cardinality(owners) # 1 BY <2>1 DEF IssueReferenceRule
  <2>2. CASE Cardinality(owners) = 1
    <3>1. owners # {} BY <2>2, FS_EmptySet
    <3>2. owner \in owners BY <3>1
    <3>3. owner \in Range(es) BY <3>2 DEF ChangeRequestsTitled, OfType
    <3>4. referred = Bind({owner} \cup IssuesNumbered(es, owner.resolves), 10, "issue_reference")
                     \cup Bind(IssuesNumbered(es, owner.mentions \ owner.resolves), 1, "issue_reference")
      BY <2>2 DEF IssueReferenceRule
    <3> HIDE DEF owner, owners, referred
    <3>5. \A e \in {owner} \cup IssuesNumbered(es, owner.resolves) :
             e \in Range(es) /\ (e.id = o \/ e.id[1] = "issue")
      BY <1>3, <3>3
    <3>6. \A e \in IssuesNumbered(es, owner.mentions \ owner.resolves) : e \in Range(es) /\ e.id[1] = "issue"
      BY <1>3
    <3>7. ASSUME NEW p \in referred PROVE (p.id = o \/ p.id[1] = "issue") /\ p.id \in EntityIds(es)
      <4> DEFINE certain == {owner} \cup IssuesNumbered(es, owner.resolves)
                 vague == IssuesNumbered(es, owner.mentions \ owner.resolves)
      <4>2. \E e \in certain \cup vague : p.id = e.id
        <5> HIDE DEF certain, vague
        <5>1. p \in Bind(certain, 10, "issue_reference") \/ p \in Bind(vague, 1, "issue_reference")
          BY <3>4, <3>7 DEF certain, vague
        <5> QED BY <5>1, BindIs
      <4>1. \E e \in Range(es) : p.id = e.id /\ (e.id = o \/ e.id[1] = "issue")
        BY <3>5, <3>6, <4>2
      <4> QED BY <4>1 DEF EntityIds
    <3> QED BY <3>7
  <2> QED BY <2>1, <2>2
<1> HIDE DEF o, given, referred, branched, committed, timed
<1>7. /\ OnlyOwner(given, o) /\ OnlyOwner(referred, o) /\ OnlyOwner(branched, o)
      /\ OnlyOwner(committed, o) /\ OnlyOwner(timed, o)
  BY <1>2, <1>4, <1>5, <1>6 DEF OnlyOwner, ResolvedRoleThreshold
<1>8. LockedOwner(none, o) /\ DOMAIN none \subseteq EntityIds(es) BY <1>1 DEF LockedOwner
<1>9. LockedOwner(explicit, o) /\ DOMAIN explicit \subseteq EntityIds(es)
  BY <1>2, <1>7, <1>8, LockOwner, LockIsFinite
<1> HIDE DEF explicit
<1>10. LockedOwner(issues, o) /\ DOMAIN issues \subseteq EntityIds(es)
  BY <1>6, <1>7, <1>9, LockOwner, LockIsFinite
<1> HIDE DEF issues
<1>11. LockedOwner(branches, o) /\ DOMAIN branches \subseteq EntityIds(es)
  BY <1>4, <1>7, <1>10, LockOwner, LockIsFinite
<1> HIDE DEF branches
<1>12. LockedOwner(commits, o) /\ DOMAIN commits \subseteq EntityIds(es)
  BY <1>4, <1>7, <1>11, LockOwner, LockIsFinite
<1> HIDE DEF commits
<1>13. LockedOwner(Lock(commits, timed), o) /\ DOMAIN Lock(commits, timed) \subseteq EntityIds(es)
  BY <1>5, <1>7, <1>12, LockOwner, LockIsFinite
<1> QED BY <1>0, <1>13

\* Of the copies of an entity one is kept.
LEMMA KeptAreOfWindow ==
    ASSUME NEW E, NEW es \in Seq(E), NEW owning
    PROVE  /\ DedupeEntities(es, owning) \subseteq Range(es)
           /\ IsFiniteSet(Range(es)) /\ IsFiniteSet(EntityIds(es))
<1>1. IsFiniteSet(Range(es))
  <2>1. IsFiniteSet(1..Len(es)) BY FS_Interval
  <2>2. DOMAIN es = 1..Len(es) OBVIOUS
  <2>3. IsFiniteSet({es[i] : i \in 1..Len(es)}) BY <2>1, <2>2, ImageIsFinite
  <2>4. Range(es) = {es[i] : i \in 1..Len(es)} BY <2>2 DEF Range
  <2> QED BY <2>3, <2>4
<1>2. IsFiniteSet(EntityIds(es))
  <2> DEFINE f == [e \in Range(es) |-> e.id]
  <2>1. EntityIds(es) = {f[e] : e \in Range(es)} BY DEF EntityIds
  <2>2. DOMAIN f = Range(es) OBVIOUS
  <2> HIDE DEF f
  <2> QED BY <1>1, <2>1, <2>2, ImageIsFinite
<1>3. ASSUME NEW e \in Range(es)
      PROVE  LET carried == {i \in Copies(es, e.id) : owning # None /\ es[i].owner = owning.number}
             IN  es[Min(IF carried # {} THEN carried ELSE Copies(es, e.id))] \in Range(es)
  <2> DEFINE carried == {i \in Copies(es, e.id) : owning # None /\ es[i].owner = owning.number}
             T == IF carried # {} THEN carried ELSE Copies(es, e.id)
  <2>1. Copies(es, e.id) # {} BY DEF Copies, Range
  <2>2. T # {} /\ T \subseteq DOMAIN es BY <2>1 DEF Copies
  <2>3. DOMAIN es \subseteq Nat OBVIOUS
  <2> HIDE DEF T
  <2>4. Min(T) \in DOMAIN es BY <2>2, <2>3, LeastOf
  <2>5. es[Min(T)] \in Range(es) BY <2>4 DEF Range
  <2> QED BY <2>5 DEF T
<1>4. DedupeEntities(es, owning) \subseteq Range(es) BY <1>3 DEF DedupeEntities
<1> QED BY <1>1, <1>2, <1>4

\* A change request is linked as resolved only if it is the run's own.
OneClaimAtMost(shown) ==
    /\ IsFiniteSet(shown)
    /\ \E o : \A l \in shown : l.role = "resolved" /\ l.id[1] = "change_request" => l.id = o

LEMMA OneClaim ==
    ASSUME NEW E, \A e \in E : TypedEntity(e), NEW es \in Seq(E), NEW run
    PROVE  OneClaimAtMost(Resolve(run, es, {}).links)
<1> DEFINE locked == Correlations(run, es, {})
           owning == Owning(run, es)
           kept == DedupeEntities(es, owning)
           own(e) == IF e.id \in DOMAIN locked THEN locked[e.id].conf ELSE 10
           direct == {Link(id, Role(locked[id].conf), locked[id].conf, "direct") : id \in DOMAIN locked}
           lineage == IF owning = None THEN {}
                      ELSE {e \in kept : /\ e.type \in {"commit", "review"} /\ e.id \notin DOMAIN locked
                                         /\ e.owner = owning.number}
           known == IF owning = None THEN {} ELSE owning.resolves \cup {owning.number}
           noise == {e \in kept : e.id \notin DOMAIN locked /\
                      \/ e.type = "change_request"
                      \/ e.type = "commit" /\ e \notin lineage /\ e.refs # {} /\ ~(e.refs \subseteq known)}
           carried == {Link(e.id, Role(own(owning)), own(owning), "owning_change_request") : e \in lineage}
           others == {Link(e.id, "noise", 0, "direct") : e \in noise}
           shown == Resolve(run, es, {}).links
<1>1. shown = direct \cup carried \cup others BY DEF Resolve, EntityLinks
<1>2. \A e \in Range(es) : TypedEntity(e) BY DEF Range
<1>3. lineage \subseteq kept /\ noise \subseteq kept OBVIOUS
<1>4. \A e \in lineage : e.type \in {"commit", "review"} OBVIOUS
<1> HIDE DEF lineage, noise, kept, shown, locked
<1>5. PICK o : LockedOwner(locked, o) BY <1>2, OnlyOwnerIsBound DEF locked
<1>6. DOMAIN locked \subseteq EntityIds(es) BY <1>2, OnlyOwnerIsBound DEF locked
<1>7. kept \subseteq Range(es) /\ IsFiniteSet(Range(es)) /\ IsFiniteSet(EntityIds(es)) BY KeptAreOfWindow DEF kept
<1>8. IsFiniteSet(DOMAIN locked) /\ IsFiniteSet(lineage) /\ IsFiniteSet(noise)
  BY <1>3, <1>6, <1>7, FS_Subset
<1>9. IsFiniteSet(direct)
  <2> DEFINE f == [id \in DOMAIN locked |-> Link(id, Role(locked[id].conf), locked[id].conf, "direct")]
  <2>1. direct = {f[id] : id \in DOMAIN locked} OBVIOUS
  <2>2. DOMAIN f = DOMAIN locked OBVIOUS
  <2> HIDE DEF f, direct
  <2> QED BY <1>8, <2>1, <2>2, ImageIsFinite
<1>10. IsFiniteSet(carried)
  <2> DEFINE f == [e \in lineage |-> Link(e.id, Role(own(owning)), own(owning), "owning_change_request")]
  <2>1. carried = {f[e] : e \in lineage} OBVIOUS
  <2>2. DOMAIN f = lineage OBVIOUS
  <2> HIDE DEF f, carried
  <2> QED BY <1>8, <2>1, <2>2, ImageIsFinite
<1>11. IsFiniteSet(others)
  <2> DEFINE f == [e \in noise |-> Link(e.id, "noise", 0, "direct")]
  <2>1. others = {f[e] : e \in noise} OBVIOUS
  <2>2. DOMAIN f = noise OBVIOUS
  <2> HIDE DEF f, others
  <2> QED BY <1>8, <2>1, <2>2, ImageIsFinite
<1>12. IsFiniteSet(shown)
  <2> HIDE DEF direct, carried, others
  <2>1. IsFiniteSet(direct \cup carried) BY <1>9, <1>10, FS_Union
  <2> QED BY <1>1, <1>11, <2>1, FS_Union
<1>13. \A l \in direct : l.role = "resolved" /\ l.id[1] = "change_request" => l.id = o
  <2> SUFFICES ASSUME NEW id \in DOMAIN locked, Role(locked[id].conf) = "resolved", id[1] = "change_request"
               PROVE  id = o
    BY DEF Link
  <2> QED BY <1>5 DEF LockedOwner, Role
<1>14. \A l \in carried : l.id[1] # "change_request"
  <2> SUFFICES ASSUME NEW e \in lineage PROVE e.id[1] # "change_request" BY DEF Link
  <2>1. TypedEntity(e) BY <1>2, <1>3, <1>7
  <2> QED BY <1>4, <2>1 DEF TypedEntity
<1>15. \A l \in others : l.role = "noise" BY DEF Link
<1> HIDE DEF direct, carried, others
<1>16. \A l \in shown : l.role = "resolved" /\ l.id[1] = "change_request" => l.id = o
  BY <1>1, <1>13, <1>14, <1>15
<1> QED BY <1>12, <1>16 DEF shown, OneClaimAtMost

-----------------------------------------------------------------------------
(* The backfill, step by step.                                             *)

Claims(st) == st.op = "link" /\ st.arg.role = "resolved" /\ st.arg.id[1] = "change_request"

\* What a save still has to write is about one run, and no other run holds
\* a change request that it claims.
Unopposed(st, r) ==
    Claims(st) => \A k \in DOMAIN runEntities :
        k[1] = st.arg.id /\ runEntities[k].role = "resolved" => k[2] = r

Keyed ==
    \A k \in DOMAIN runEntities :
        (\E id, r : k = <<id, r>>) /\ k[2] \in Runs /\ "role" \in DOMAIN runEntities[k]

WorksOn(E, S) ==
    /\ \A e \in E : TypedEntity(e)
    /\ backfill \in [pc : {"idle", "resolve", "save"}, fresh : BOOLEAN, entities : Seq(E),
                     sessions : SUBSET DOMAIN HostSessions, statements : Seq(S)]

SavesFor(r, S) == \A st \in S : st.run = r /\ Unopposed(st, r)

BackfillInv ==
    /\ Keyed
    /\ runEntities = [k \in DOMAIN runEntities |-> runEntities[k]]
    /\ OneRunPerChangeRequest
    /\ \E E, S : WorksOn(E, S) /\ (backfill.pc = "save" => \E r \in Runs : SavesFor(r, S))

LEMMA BackfillInitInv == BackfillInit => BackfillInv
<1> SUFFICES ASSUME BackfillInit PROVE BackfillInv OBVIOUS
<1>1. runEntities = [k \in {} |-> None] BY DEF BackfillInit
<1>2. DOMAIN runEntities = {} BY <1>1
<1>3. WorksOn({}, {}) /\ backfill.pc # "save" BY DEF WorksOn, BackfillInit, Idle
<1> QED BY <1>1, <1>2, <1>3 DEF BackfillInv, Keyed, OneRunPerChangeRequest

LEMMA TablesStay ==
    ASSUME BackfillInv, runEntities' = runEntities
    PROVE  /\ Keyed' /\ (runEntities = [k \in DOMAIN runEntities |-> runEntities[k]])'
           /\ OneRunPerChangeRequest'
           /\ \A S : \A r \in Runs : SavesFor(r, S) => SavesFor(r, S)'
BY DEF BackfillInv, Keyed, OneRunPerChangeRequest, SavesFor, Unopposed, Claims, Runs, RunId

LEMMA IdleKeeps == ASSUME BackfillInv, runEntities' = runEntities, backfill' = Idle PROVE BackfillInv'
<1>1. WorksOn({}, {})' /\ backfill'.pc # "save" BY DEF WorksOn, Idle
<1> QED BY <1>1, TablesStay DEF BackfillInv

LEMMA EditKeepsInv == ASSUME BackfillInv, NEW n, EditPull(n) PROVE BackfillInv'
<1>1. runEntities' = runEntities /\ backfill' = [backfill EXCEPT !.fresh = FALSE] BY DEF EditPull
<1>2. PICK E, S : WorksOn(E, S) /\ (backfill.pc = "save" => \E r \in Runs : SavesFor(r, S))
  BY DEF BackfillInv
<1>3. WorksOn(E, S)' /\ backfill'.pc = backfill.pc BY <1>1, <1>2 DEF WorksOn
<1>4. backfill'.pc = "save" => \E r \in Runs : SavesFor(r, S)' BY <1>1, <1>2, <1>3, TablesStay
<1>5. (backfill.pc = "save" => \E r \in Runs : SavesFor(r, S))' BY <1>4 DEF Runs, RunId
<1> QED BY <1>1, <1>3, <1>5, TablesStay DEF BackfillInv

LEMMA StartPassKeepsInv == ASSUME BackfillInv, NEW w, StartPass(w) PROVE BackfillInv'
<1>1. runEntities' = runEntities BY DEF StartPass
<1>2. PICK E : FetchEntities(w) \in Seq(E) /\ \A e \in E : TypedEntity(e) BY WindowIsTyped
<1>3. WorksOn(E, {})' /\ backfill'.pc # "save"
  <2> DEFINE es == FetchEntities(w)
             now == {s \in DOMAIN HostSessions : HostSessions[s].from <= w[2] /\ HostSessions[s].to >= w[1]}
  <2>1. backfill' = [pc |-> "resolve", fresh |-> TRUE, entities |-> es, statements |-> <<>>, sessions |-> now]
    BY DEF StartPass
  <2>2. now \subseteq DOMAIN HostSessions OBVIOUS
  <2>3. es \in Seq(E) BY <1>2
  <2> HIDE DEF es, now
  <2>4. \A e \in E : TypedEntity(e)' BY <1>2 DEF TypedEntity
  <2> QED BY <2>1, <2>2, <2>3, <2>4 DEF WorksOn
<1> QED BY <1>1, <1>3, TablesStay DEF BackfillInv

LEMMA EndSessionKeepsInv == ASSUME BackfillInv, EndSession PROVE BackfillInv'
<1>1. runEntities' = runEntities /\ backfill' = [backfill EXCEPT !.pc = "resolve"] BY DEF EndSession
<1>2. PICK E, S : WorksOn(E, S) BY DEF BackfillInv
<1>3. WorksOn(E, S)' /\ backfill'.pc # "save" BY <1>1, <1>2 DEF WorksOn
<1> QED BY <1>1, <1>3, TablesStay DEF BackfillInv

LEMMA UpsertLinkKeeps ==
    ASSUME BackfillInv, NEW r \in Runs, NEW S, SavesFor(r, S), NEW st \in S, UpsertEntityLink(st)
    PROVE  /\ Keyed' /\ (runEntities = [k \in DOMAIN runEntities |-> runEntities[k]])'
           /\ OneRunPerChangeRequest' /\ SavesFor(r, S)'
<1> DEFINE key == <<st.arg.id, st.run>>
           old == key \in DOMAIN runEntities
           row == [role |-> st.arg.role, superseded |-> old /\ runEntities[key].superseded,
                   conf |-> IF old /\ runEntities[key].conf > st.arg.conf THEN runEntities[key].conf
                            ELSE st.arg.conf]
<1>1. runEntities' = Put(runEntities, key, row) /\ st.op = "link" BY DEF UpsertEntityLink
<1>2. row.role = st.arg.role /\ "role" \in DOMAIN row OBVIOUS
<1>3. st.run = r /\ key[1] = st.arg.id /\ key[2] = r BY DEF SavesFor
<1>4. key = <<st.arg.id, st.run>> OBVIOUS
<1> HIDE DEF row, key
<1>5. runEntities' = [k \in DOMAIN runEntities \cup {key} |-> IF k = key THEN row ELSE runEntities[k]]
  BY <1>1 DEF Put
<1>6. /\ DOMAIN runEntities' = DOMAIN runEntities \cup {key}
      /\ \A k \in DOMAIN runEntities' : runEntities'[k] = IF k = key THEN row ELSE runEntities[k]
      /\ runEntities' = [k \in DOMAIN runEntities' |-> runEntities'[k]]
  BY <1>5
<1>7. Keyed'
  <2> SUFFICES ASSUME NEW k \in DOMAIN runEntities'
               PROVE  (\E id, q : k = <<id, q>>) /\ k[2] \in Runs /\ "role" \in DOMAIN runEntities'[k]
    BY DEF Keyed, Runs, RunId
  <2>1. CASE k = key BY <1>2, <1>3, <1>4, <1>6, <2>1
  <2>2. CASE k # key BY <1>6, <2>2 DEF BackfillInv, Keyed
  <2> QED BY <2>1, <2>2
<1>8. Claims(st) => \A k \in DOMAIN runEntities :
          k[1] = st.arg.id /\ runEntities[k].role = "resolved" => k[2] = r
  BY DEF SavesFor, Unopposed
<1>9. OneRunPerChangeRequest'
  <2> SUFFICES ASSUME NEW j \in DOMAIN runEntities', NEW k \in DOMAIN runEntities',
                      j[1] = k[1], j[1][1] = "change_request",
                      runEntities'[j].role = "resolved", runEntities'[k].role = "resolved"
               PROVE  j = k
    BY DEF OneRunPerChangeRequest
  <2>1. \A x \in DOMAIN runEntities :
           x[1] = st.arg.id /\ runEntities[x].role = "resolved" /\ Claims(st) => x = key
    <3> SUFFICES ASSUME NEW x \in DOMAIN runEntities, x[1] = st.arg.id,
                        runEntities[x].role = "resolved", Claims(st)
                 PROVE  x = key
      OBVIOUS
    <3>1. x[2] = r BY <1>8
    <3>2. PICK id, q : x = <<id, q>> BY DEF BackfillInv, Keyed
    <3> QED BY <1>3, <1>4, <3>1, <3>2
  <2>2. runEntities'[key].role = "resolved" /\ st.arg.id[1] = "change_request" => Claims(st)
    BY <1>1, <1>2, <1>6 DEF Claims
  <2>3. CASE j = key /\ k # key
    <3>1. k \in DOMAIN runEntities /\ runEntities[k].role = "resolved" BY <1>6, <2>3
    <3>2. Claims(st) /\ k[1] = st.arg.id BY <1>3, <2>2, <2>3
    <3> QED BY <2>1, <2>3, <3>1, <3>2
  <2>4. CASE k = key /\ j # key
    <3>1. j \in DOMAIN runEntities /\ runEntities[j].role = "resolved" BY <1>6, <2>4
    <3>2. Claims(st) /\ j[1] = st.arg.id BY <1>3, <2>2, <2>4
    <3> QED BY <2>1, <2>4, <3>1, <3>2
  <2>5. CASE j # key /\ k # key
    BY <1>6, <2>5 DEF BackfillInv, OneRunPerChangeRequest
  <2> QED BY <2>3, <2>4, <2>5
<1>10. SavesFor(r, S)'
  <2> SUFFICES ASSUME NEW s \in S, Claims(s), NEW k \in DOMAIN runEntities',
                      k[1] = s.arg.id, runEntities'[k].role = "resolved"
               PROVE  k[2] = r
    BY DEF SavesFor, Unopposed, Claims
  <2>1. CASE k = key BY <1>3, <2>1
  <2>2. CASE k # key BY <1>6, <2>2 DEF SavesFor, Unopposed
  <2> QED BY <2>1, <2>2
<1> QED BY <1>6, <1>7, <1>9, <1>10

LEMMA SupersedeKeeps ==
    ASSUME BackfillInv, NEW r \in Runs, NEW S, SavesFor(r, S), NEW st, SupersedeWeaker(st)
    PROVE  /\ Keyed' /\ (runEntities = [k \in DOMAIN runEntities |-> runEntities[k]])'
           /\ OneRunPerChangeRequest' /\ SavesFor(r, S)'
<1> DEFINE weak(k) == k[1] = st.arg.id /\ k[2] # st.run /\ runEntities[k].conf < st.arg.conf
           row(k) == IF weak(k) THEN [runEntities[k] EXCEPT !.superseded = TRUE] ELSE runEntities[k]
<1>1. runEntities' = [k \in DOMAIN runEntities |-> row(k)] BY DEF SupersedeWeaker
<1>2. \A k \in DOMAIN runEntities : "role" \in DOMAIN row(k) /\ row(k).role = runEntities[k].role
  BY DEF BackfillInv, Keyed
<1> HIDE DEF row
<1>3. /\ DOMAIN runEntities' = DOMAIN runEntities
      /\ \A k \in DOMAIN runEntities : "role" \in DOMAIN runEntities'[k]
                                      /\ runEntities'[k].role = runEntities[k].role
      /\ runEntities' = [k \in DOMAIN runEntities' |-> runEntities'[k]]
  BY <1>1, <1>2
<1>4. Keyed' BY <1>3 DEF BackfillInv, Keyed, Runs, RunId
<1>5. OneRunPerChangeRequest' BY <1>3 DEF BackfillInv, OneRunPerChangeRequest
<1>6. SavesFor(r, S)' BY <1>3 DEF SavesFor, Unopposed, Claims
<1> QED BY <1>3, <1>4, <1>5, <1>6

LEMMA SaveKeepsInv == ASSUME BackfillInv, Save PROVE BackfillInv'
<1>1. backfill.pc = "save" /\ backfill.statements # <<>> BY DEF Save
<1>2. PICK E, S : WorksOn(E, S) /\ \E q \in Runs : SavesFor(q, S) BY <1>1 DEF BackfillInv
<1>3. PICK r \in Runs : SavesFor(r, S) BY <1>2
<1> DEFINE st == Head(backfill.statements)
<1>4. st \in S /\ Tail(backfill.statements) \in Seq(S)
  <2>1. backfill.statements \in Seq(S) BY <1>2 DEF WorksOn
  <2> QED BY <1>1, <2>1
<1>5. backfill' = [backfill EXCEPT !.statements = Tail(@)] BY DEF Save
<1>6. WorksOn(E, S)' BY <1>2, <1>4, <1>5 DEF WorksOn, TypedEntity
<1>7. UpsertEntityLink(st) \/ SupersedeWeaker(st) \/ runEntities' = runEntities
  BY DEF Save, UpsertRun, UpsertSessionLink, UpsertUnresolved
<1> HIDE DEF st
<1>8. /\ Keyed' /\ (runEntities = [k \in DOMAIN runEntities |-> runEntities[k]])'
      /\ OneRunPerChangeRequest' /\ SavesFor(r, S)'
  BY <1>3, <1>4, <1>7, UpsertLinkKeeps, SupersedeKeeps, TablesStay
<1>9. \E q \in Runs : SavesFor(q, S)' BY <1>8
<1>10. (\E q \in Runs : SavesFor(q, S))' BY <1>9 DEF Runs, RunId
<1> QED BY <1>6, <1>8, <1>10 DEF BackfillInv

\* The lists of statements that a session lays out.
SaveStmt(r, op, x) == [op |-> op, run |-> r, arg |-> x]

LEMMA EachInSeq ==
    ASSUME NEW r, NEW op, NEW X, IsFiniteSet(X)
    PROVE  LET q == SetToSeq(X)
           IN  [k \in 1..Len(q) |-> SaveStmt(r, op, q[k])] \in Seq({SaveStmt(r, op, x) : x \in X})
<1> DEFINE q == SetToSeq(X)
           T == {SaveStmt(r, op, x) : x \in X}
<1>1. q \in Seq(X) BY SetInSeq
<1> HIDE DEF q
<1>2. Len(q) \in Nat /\ \A k \in 1..Len(q) : q[k] \in X BY <1>1
<1>3. \A k \in 1..Len(q) : SaveStmt(r, op, q[k]) \in T BY <1>2
<1> HIDE DEF T
<1>4. [k \in 1..Len(q) |-> SaveStmt(r, op, q[k])] \in Seq(T) BY <1>2, <1>3
<1> QED BY <1>4 DEF q, T

LEMMA LinksInSeq ==
    ASSUME NEW r, NEW X, IsFiniteSet(X)
    PROVE  LET q == SetToSeq(X)
               pair(l) == <<SaveStmt(r, "link", l), SaveStmt(r, "supersede", l)>>
           IN  FlattenSeq([k \in 1..Len(q) |-> pair(q[k])])
                 \in Seq({SaveStmt(r, "link", x) : x \in X} \cup {SaveStmt(r, "supersede", x) : x \in X})
<1> DEFINE q == SetToSeq(X)
           T == {SaveStmt(r, "link", x) : x \in X} \cup {SaveStmt(r, "supersede", x) : x \in X}
           pair(l) == <<SaveStmt(r, "link", l), SaveStmt(r, "supersede", l)>>
           seqs == [k \in 1..Len(q) |-> pair(q[k])]
<1>1. q \in Seq(X) BY SetInSeq
<1> HIDE DEF q
<1>2. Len(q) \in Nat /\ \A k \in 1..Len(q) : q[k] \in X BY <1>1
<1>3. \A l \in X : SaveStmt(r, "link", l) \in T /\ SaveStmt(r, "supersede", l) \in T OBVIOUS
<1> HIDE DEF T
<1>4. \A l \in X : pair(l) \in Seq(T) BY <1>3
<1> HIDE DEF pair
<1>5. seqs \in [1..Len(q) -> Seq(T)] BY <1>2, <1>4
<1> HIDE DEF seqs
<1>6. FlattenSeq(seqs) \in Seq(T) BY <1>2, <1>5, FlattenInSeq
<1> QED BY <1>6 DEF q, T, pair, seqs

LEMMA ResolveKeepsInv == ASSUME BackfillInv, NEW s \in DOMAIN HostSessions, ResolveSession(s) PROVE BackfillInv'
<1>1. PICK E, S0 : WorksOn(E, S0) BY DEF BackfillInv
<1> DEFINE es == backfill.entities
           run == Over([id |-> RunId(s)], HostSessions[s])
           res == Resolve(run, es, {})
           r == IF ExistingRun(res) = None THEN RunId(s) ELSE ExistingRun(res)
           locked == Correlations(run, es, {})
           shown == res.links
           all == {Over([id |-> t], HostSessions[t]) : t \in DOMAIN HostSessions}
           status == IF res.outcome = None THEN None ELSE res.outcome.status
           joined == {l.id : l \in SessionLinks(run, res.owning, None, all)}
           doubtful == {id \in DOMAIN locked : locked[id].conf < ResolvedRoleThreshold}
           weak == {locked[id].method : id \in doubtful}
           open == {u.reason : u \in res.unresolved}
           lnk == SetToSeq(shown)
           pair(l) == <<SaveStmt(r, "link", l), SaveStmt(r, "supersede", l)>>
           part1 == <<SaveStmt(r, "run", status)>>
           part2 == FlattenSeq([k \in 1..Len(lnk) |-> pair(lnk[k])])
           list(op, X) == LET q == SetToSeq(X) IN [k \in 1..Len(q) |-> SaveStmt(r, op, q[k])]
           statements == part1 \o part2 \o list("session", joined) \o list("unresolved", weak)
                            \o list("unresolved", open)
           L == {SaveStmt(r, "link", x) : x \in shown} \cup {SaveStmt(r, "supersede", x) : x \in shown}
           others == {SaveStmt(r, "run", status)} \cup {SaveStmt(r, "session", x) : x \in joined}
                        \cup {SaveStmt(r, "unresolved", x) : x \in weak} \cup {SaveStmt(r, "unresolved", x) : x \in open}
           S == L \cup others
<1>2. backfill' = [backfill EXCEPT !.pc = "save", !.sessions = @ \ {s}, !.statements = statements]
  BY DEF ResolveSession, SaveStmt
<1>3. runEntities' = runEntities BY DEF ResolveSession
<1>4. es \in Seq(E) /\ \A e \in E : TypedEntity(e) BY <1>1 DEF WorksOn
<1> HIDE DEF es
<1>5. IsFiniteSet(shown) /\ \E o : \A l \in shown : l.role = "resolved" /\ l.id[1] = "change_request" => l.id = o
  <2> HIDE DEF run
  <2>1. OneClaimAtMost(shown) BY <1>4, OneClaim
  <2> QED BY <2>1 DEF OneClaimAtMost
<1>6. PICK o : \A l \in shown : l.role = "resolved" /\ l.id[1] = "change_request" => l.id = o BY <1>5
<1>7. IsFiniteSet(joined)
  <2> DEFINE f == [t \in DOMAIN HostSessions |-> Over([id |-> t], HostSessions[t])]
             told == {t \in all : SessionHeuristic(run, res.owning, None, t) # None}
             g == [t \in told |-> [id |-> t.id, method |-> SessionHeuristic(run, res.owning, None, t)]]
             sl == SessionLinks(run, res.owning, None, all)
             h == [l \in sl |-> l.id]
  <2>1. all = {f[t] : t \in DOMAIN HostSessions} /\ DOMAIN f = DOMAIN HostSessions OBVIOUS
  <2>2. IsFiniteSet(all)
    <3> HIDE DEF f, all
    <3> QED BY <2>1, ImageIsFinite, BackfillAssumption
  <2> HIDE DEF all, run, res
  <2>3. told \subseteq all OBVIOUS
  <2>4. IsFiniteSet(told) BY <2>2, <2>3, FS_Subset
  <2>5. sl = {g[t] : t \in told} /\ DOMAIN g = told BY DEF SessionLinks
  <2> HIDE DEF told, g, sl
  <2>6. IsFiniteSet(sl) BY <2>4, <2>5, ImageIsFinite
  <2>7. joined = {h[l] : l \in sl} /\ DOMAIN h = sl BY DEF sl
  <2> HIDE DEF joined, h
  <2> QED BY <2>6, <2>7, ImageIsFinite
<1>8. IsFiniteSet(weak)
  <2> DEFINE f == [id \in doubtful |-> locked[id].method]
  <2>1. \A e \in Range(es) : TypedEntity(e) BY <1>4 DEF Range
  <2>2. DOMAIN locked \subseteq EntityIds(es) BY <2>1, OnlyOwnerIsBound
  <2>3. IsFiniteSet(EntityIds(es)) BY <1>4, KeptAreOfWindow
  <2>4. doubtful \subseteq EntityIds(es) BY <2>2
  <2>5. IsFiniteSet(doubtful) BY <2>3, <2>4, FS_Subset
  <2>6. weak = {f[id] : id \in doubtful} /\ DOMAIN f = doubtful OBVIOUS
  <2> HIDE DEF f, weak, doubtful
  <2> QED BY <2>5, <2>6, ImageIsFinite
<1>9. IsFiniteSet(open)
  <2> DEFINE f == [u \in res.unresolved |-> u.reason]
  <2>1. res.unresolved = {} \/ \E u : res.unresolved = {u}
    BY DEF Resolve, UnresolvedEntries
  <2>2. IsFiniteSet(res.unresolved)
    <3> HIDE DEF res
    <3> QED BY <2>1, FS_EmptySet, FS_Singleton
  <2>3. open = {f[u] : u \in res.unresolved} /\ DOMAIN f = res.unresolved OBVIOUS
  <2> HIDE DEF f, open, res
  <2> QED BY <2>2, <2>3, ImageIsFinite
<1>10. r \in Runs /\ \A st \in S : st.run = r /\ Unopposed(st, r)
  <2>1. RunId(s) \in Runs /\ None \notin Runs BY BackfillAssumption DEF Runs, RunId
  <2> DEFINE claims == {l.id : l \in {k \in shown : k.role = "resolved" /\ k.id[1] = "change_request"}}
             holders == {q \in Runs : \E id \in claims : /\ <<id, q>> \in DOMAIN runEntities
                                                       /\ runEntities[<<id, q>>].role = "resolved"}
  <2>2. ExistingRun(res) = IF holders = {} THEN None ELSE CHOOSE q \in holders : TRUE BY DEF ExistingRun
  <2>3. \A id \in claims : id = o /\ id[1] = "change_request" BY <1>6
  <2>4. holders # {} => ExistingRun(res) \in holders BY <2>2
  <2> HIDE DEF shown, res
  <2>5. r \in Runs BY <2>1, <2>2, <2>4
  <2>6. ASSUME NEW id \in claims, NEW k \in DOMAIN runEntities, k[1] = id, runEntities[k].role = "resolved"
        PROVE  k[2] = r
    <3>1. PICK i, q : k = <<i, q>> BY DEF BackfillInv, Keyed
    <3>2. q \in Runs /\ i = id /\ q = k[2] BY <2>6, <3>1 DEF BackfillInv, Keyed
    <3>3. q \in holders BY <2>6, <3>1, <3>2
    <3>4. r = ExistingRun(res) /\ ExistingRun(res) \in holders BY <2>1, <2>4, <3>3
    <3> DEFINE x == ExistingRun(res)
    <3>5. PICK j \in claims : <<j, x>> \in DOMAIN runEntities /\ runEntities[<<j, x>>].role = "resolved"
      BY <3>4
    <3>6. j = id /\ id[1] = "change_request" BY <2>3
    <3>7. <<id, q>> = <<j, x>>
      <4> HIDE DEF x, claims
      <4> DEFINE a == <<id, q>>
                 b == <<j, x>>
      <4>1. a \in DOMAIN runEntities /\ b \in DOMAIN runEntities /\ a[1] = id /\ b[1] = id
             /\ runEntities[a].role = "resolved" /\ runEntities[b].role = "resolved"
        BY <2>6, <3>1, <3>2, <3>5, <3>6
      <4> HIDE DEF a, b
      <4>2. a = b BY <3>6, <4>1 DEF BackfillInv, OneRunPerChangeRequest
      <4> QED BY <4>2 DEF a, b
    <3>8. q = x BY <3>7
    <3> QED BY <3>2, <3>4, <3>8
  <2>7. \A st \in S : st.run = r /\ (Claims(st) => st.arg.id \in claims)
    <3> HIDE DEF r, joined, weak, open, status
    <3>1. \A st \in others : st.run = r /\ st.op # "link" BY DEF SaveStmt
    <3>2. \A st \in L : st.run = r /\ (st.op = "link" => st.arg \in shown) BY DEF SaveStmt
    <3> HIDE DEF others, L
    <3> QED BY <3>1, <3>2 DEF Claims
  <2> HIDE DEF S, r, claims
  <2> QED BY <2>5, <2>6, <2>7 DEF Unopposed
<1> HIDE DEF res, run, all, shown, locked, doubtful
<1>11. /\ part2 \in Seq(L)
       /\ list("session", joined) \in Seq({SaveStmt(r, "session", x) : x \in joined})
       /\ list("unresolved", weak) \in Seq({SaveStmt(r, "unresolved", x) : x \in weak})
       /\ list("unresolved", open) \in Seq({SaveStmt(r, "unresolved", x) : x \in open})
  <2> HIDE DEF joined, weak, open, r
  <2>1. part2 \in Seq(L) BY <1>5, LinksInSeq
  <2>2. list("session", joined) \in Seq({SaveStmt(r, "session", x) : x \in joined}) BY <1>7, EachInSeq
  <2>3. list("unresolved", weak) \in Seq({SaveStmt(r, "unresolved", x) : x \in weak}) BY <1>8, EachInSeq
  <2>4. list("unresolved", open) \in Seq({SaveStmt(r, "unresolved", x) : x \in open}) BY <1>9, EachInSeq
  <2> QED BY <2>1, <2>2, <2>3, <2>4
<1>12. statements \in Seq(S)
  <2> DEFINE A == {SaveStmt(r, "session", x) : x \in joined}
             B == {SaveStmt(r, "unresolved", x) : x \in weak}
             C == {SaveStmt(r, "unresolved", x) : x \in open}
             D == {SaveStmt(r, "run", status)}
             la == list("session", joined)
             lb == list("unresolved", weak)
             lc == list("unresolved", open)
  <2>1. S = L \cup (D \cup A \cup B \cup C) OBVIOUS
  <2>2. la \in Seq(A) /\ lb \in Seq(B) /\ lc \in Seq(C) /\ part2 \in Seq(L) BY <1>11
  <2>3. part1 \in Seq(D) OBVIOUS
  <2>4. statements = part1 \o part2 \o la \o lb \o lc OBVIOUS
  <2> HIDE DEF A, B, C, D, L, S, la, lb, lc, part1, part2, statements
  <2>5. la \in Seq(S) /\ lb \in Seq(S) /\ lc \in Seq(S) /\ part1 \in Seq(S) /\ part2 \in Seq(S)
    BY <2>1, <2>2, <2>3
  <2> QED BY <2>4, <2>5
<1>13. \E q, T : q \in Runs /\ SavesFor(q, T) /\ statements \in Seq(T)
  <2> HIDE DEF statements, S, r
  <2> QED BY <1>10, <1>12 DEF SavesFor
<1> HIDE DEF statements
<1>14. PICK q, T : q \in Runs /\ SavesFor(q, T) /\ statements \in Seq(T) BY <1>13
<1>15. WorksOn(E, T)'
  <2> DEFINE left == backfill.sessions \ {s}
  <2>1. left \subseteq DOMAIN HostSessions BY <1>1 DEF WorksOn
  <2>2. \A e \in E : TypedEntity(e)' BY <1>4 DEF TypedEntity
  <2>3. backfill' \in [pc : {"save"}, fresh : BOOLEAN, entities : Seq(E), sessions : {left}, statements : {statements}]
    BY <1>1, <1>2 DEF WorksOn
  <2> HIDE DEF left
  <2> QED BY <1>14, <2>1, <2>2, <2>3 DEF WorksOn
<1>16. SavesFor(q, T)' BY <1>3, <1>14 DEF SavesFor, Unopposed, Claims
<1>17. (\E p \in Runs : SavesFor(p, T))' BY <1>14, <1>16 DEF Runs, RunId
<1> QED BY <1>3, <1>15, <1>17, TablesStay DEF BackfillInv

LEMMA BackfillNextInv == BackfillInv /\ [BackfillNext]_backfillVars => BackfillInv'
<1> SUFFICES ASSUME BackfillInv, [BackfillNext]_backfillVars PROVE BackfillInv' OBVIOUS
<1>1. CASE UNCHANGED backfillVars
  <2>1. backfill' = backfill /\ runEntities' = runEntities BY <1>1 DEF backfillVars
  <2>2. PICK E, S : WorksOn(E, S) /\ (backfill.pc = "save" => \E r \in Runs : SavesFor(r, S))
    BY DEF BackfillInv
  <2>3. WorksOn(E, S)' /\ backfill'.pc = backfill.pc BY <2>1, <2>2 DEF WorksOn, TypedEntity
  <2>4. backfill'.pc = "save" => \E r \in Runs : SavesFor(r, S)' BY <2>1, <2>2, <2>3, TablesStay
  <2>5. (backfill.pc = "save" => \E r \in Runs : SavesFor(r, S))' BY <2>4 DEF Runs, RunId
  <2> QED BY <2>1, <2>3, <2>5, TablesStay DEF BackfillInv
<1>2. ASSUME NEW n \in DOMAIN HostPulls, EditPull(n) PROVE BackfillInv' BY <1>2, EditKeepsInv
<1>3. ASSUME NEW w \in BackfillWindows, StartPass(w) PROVE BackfillInv' BY <1>3, StartPassKeepsInv
<1>4. ASSUME NEW s \in DOMAIN HostSessions, ResolveSession(s) PROVE BackfillInv' BY <1>4, ResolveKeepsInv
<1>5. CASE Save BY <1>5, SaveKeepsInv
<1>6. CASE EndSession BY <1>6, EndSessionKeepsInv
<1>7. CASE EndPass BY <1>7, IdleKeeps DEF EndPass
<1>8. CASE BackfillDies BY <1>8, IdleKeeps DEF BackfillDies
<1> QED BY <1>1, <1>2, <1>3, <1>4, <1>5, <1>6, <1>7, <1>8 DEF BackfillNext

(* For any data on the host, any edits, deaths and windows: a change       *)
(* request is claimed by one run, however often its window is backfilled   *)
(* (_find_existing_run_id before the save).                                *)
THEOREM ChangeRequestKeepsItsRun == BackfillSpec => []OneRunPerChangeRequest
<1>1. BackfillInv => OneRunPerChangeRequest BY DEF BackfillInv
<1> QED BY <1>1, BackfillInitInv, BackfillNextInv, PTL DEF BackfillSpec

-----------------------------------------------------------------------------
(* The pool supervisor.                                                    *)

USE PoolAssumption

Trying == {"connect", "test", "schema", "closeCandidate", "finally"}

(* A candidate exists while it is tried, a replaced pool while it is       *)
(* closed; no pool has two of these parts.                                 *)
RolesAreApart ==
    /\ loop.pc \in Trying <=> loop.candidate # None
    /\ loop.pc = "closePrevious" <=> loop.previous # None
    /\ loop.candidate # None => loop.candidate # current
    /\ loop.previous # None => loop.previous # current /\ loop.previous \in retired

(* A tested candidate is open, and so is the current pool until stop()     *)
(* takes it over.                                                          *)
CurrentIsOpen ==
    /\ loop.pc \in {"test", "schema"} => pool[loop.candidate].inner = "open"
    /\ current # None => pool[current].inner = "open"

(* stop() takes the pools over when the task has ended.                    *)
Phases ==
    /\ stop <=> stopper.pc # "running"
    /\ stopper.pc \in {"running", "awaiting"} => published = current /\ stopper.left = {}
    /\ stopper.pc \in {"closing", "stopped"} => loop.pc = "ended" /\ current = None /\ retired = {}
    /\ stopper.pc = "stopped" => stopper.left = {}

(* No open pool is lost sight of.                                          *)
OpenPoolsAreKnown == \A p \in Pools : pool[p].inner \in {"open", "closing"} =>
    p \in {loop.candidate, current} \cup retired \cup stopper.left

PoolInv == TypeOK /\ RolesAreApart /\ CurrentIsOpen /\ Phases /\ OpenPoolsAreKnown

-----------------------------------------------------------------------------
(* Type correctness.                                                       *)

LEMMA PoolInitTypeOK == Init => TypeOK
<1> SUFFICES ASSUME Init PROVE TypeOK
  OBVIOUS
<1>1. Fresh \in PoolType BY DEF Fresh, PoolType
<1>2. pool \in [Pools -> PoolType] BY <1>1 DEF Init
<1>3. loop \in LoopType BY DEF Init, LoopType
<1>4. user \in [Users -> UserType] BY DEF Init, UserType
<1>5. dbUp \in BOOLEAN /\ wake \in BOOLEAN /\ stop \in BOOLEAN /\ first \in BOOLEAN
  BY Zenon DEF Init
<1>6. stopper \in StopType BY DEF Init, StopType
<1> QED BY <1>2, <1>3, <1>4, <1>5, <1>6 DEF TypeOK, Init

(* Every close touches one pool and the requests that hold it.             *)
LEMMA CloseTypes ==
    ASSUME TypeOK, NEW p \in Pools
    PROVE  /\ BeginClose(p) => pool' \in [Pools -> PoolType]
           /\ EndClose(p) => pool' \in [Pools -> PoolType] /\ user' \in [Users -> UserType]
<1>1. pool \in [Pools -> PoolType] /\ user \in [Users -> UserType] BY DEF TypeOK
<1>2. BeginClose(p) => pool' \in [Pools -> PoolType]
  BY <1>1 DEF BeginClose, PoolType
<1>3. EndClose(p) => pool' \in [Pools -> PoolType]
  BY <1>1 DEF EndClose, PoolType
<1>4. EndClose(p) => user' \in [Users -> UserType]
  BY <1>1 DEF EndClose, UserType
<1> QED BY <1>2, <1>3, <1>4

LEMMA LoopTypeOK == PoolInv /\ LoopStep => TypeOK'
<1> SUFFICES ASSUME PoolInv, LoopStep PROVE TypeOK'
  OBVIOUS
<1> USE DEF PoolInv, WaitFor, At
<1>1. /\ pool \in [Pools -> PoolType] /\ loop \in LoopType /\ user \in [Users -> UserType]
      /\ current \in Pools \cup {None} /\ retired \subseteq Pools
  BY DEF TypeOK
<1>2. loop.pc \in Trying => loop.candidate \in Pools BY <1>1 DEF RolesAreApart, LoopType
<1>3. loop.pc = "closePrevious" => loop.previous \in Pools BY <1>1 DEF RolesAreApart, LoopType
<1>4. CASE LoopHead
  <2>1. Fresh \in PoolType BY DEF Fresh, PoolType
  <2>2. pool' \in [Pools -> PoolType] /\ retired' \subseteq Pools BY <1>1, <1>4, <2>1 DEF LoopHead
  <2>3. loop' \in LoopType BY <1>1, <1>4 DEF LoopHead, LoopType
  <2> QED BY <1>4, <2>2, <2>3 DEF TypeOK, LoopHead
<1>5. CASE ConnectOk
  <2>1. loop.candidate \in Pools BY <1>2, <1>5 DEF ConnectOk, Trying
  <2>2. pool' \in [Pools -> PoolType] BY <1>1, <1>5, <2>1 DEF ConnectOk, PoolType
  <2>3. loop' \in LoopType BY <1>1, <1>5 DEF ConnectOk, LoopType
  <2> QED BY <1>5, <2>2, <2>3 DEF TypeOK, ConnectOk
<1>6. CASE TestOk
  <2>1. loop' \in LoopType BY <1>1, <1>6 DEF TestOk, LoopType
  <2> QED BY <1>6, <2>1 DEF TypeOK, TestOk
<1>7. CASE AttemptFails
  <2>1. loop' \in LoopType BY <1>1, <1>7 DEF AttemptFails, LoopType
  <2> QED BY <1>7, <2>1 DEF TypeOK, AttemptFails
<1>8. CASE CloseCandidate
  <2>1. loop.candidate \in Pools BY <1>2, <1>8 DEF CloseCandidate, Trying
  <2>2. CASE pool[loop.candidate].inner = "open"
    <3>1. pool' \in [Pools -> PoolType] BY <1>8, <2>1, <2>2, CloseTypes DEF CloseCandidate
    <3> QED BY <1>8, <2>2, <3>1 DEF TypeOK, CloseCandidate
  <2>3. CASE pool[loop.candidate].inner # "open"
    <3>1. pool' \in [Pools -> PoolType] /\ user' \in [Users -> UserType]
      BY <1>8, <2>1, <2>3, CloseTypes DEF CloseCandidate
    <3>2. loop' \in LoopType BY <1>1, <1>8, <2>3 DEF CloseCandidate, LoopType
    <3>3. first' \in BOOLEAN BY <1>8, <2>3, Zenon DEF CloseCandidate
    <3> QED BY <1>8, <3>1, <3>2, <3>3 DEF TypeOK, CloseCandidate
  <2> QED BY <2>2, <2>3
<1>9. CASE Sleep
  <2>1. loop' \in LoopType BY <1>1, <1>9 DEF Sleep, LoopType
  <2> QED BY <1>9, <2>1 DEF TypeOK, Sleep
<1>10. CASE SchemaOk
  <2>1. pool' \in [Pools -> PoolType]
    <3>1. \A p \in Pools : [pool[p] EXCEPT !.notifies = (p = loop.candidate)] \in PoolType
      <4> SUFFICES ASSUME NEW p \in Pools
                   PROVE  [pool[p] EXCEPT !.notifies = (p = loop.candidate)] \in PoolType
        OBVIOUS
      <4>1. (p = loop.candidate) \in BOOLEAN OBVIOUS
      <4> QED BY <1>1, <4>1 DEF PoolType
    <3> QED BY <1>10, <3>1 DEF SchemaOk
  <2>2. loop' \in LoopType BY <1>1, <1>10 DEF SchemaOk, LoopType
  <2>3. wake' \in BOOLEAN /\ first' \in BOOLEAN BY <1>10, Zenon DEF SchemaOk
  <2>4. /\ published' \in Pools \cup {None} /\ current' \in Pools \cup {None}
        /\ retired' \subseteq Pools
    BY <1>1, <1>10 DEF SchemaOk, LoopType
  <2> QED BY <1>10, <2>1, <2>2, <2>3, <2>4 DEF TypeOK, SchemaOk
<1>11. CASE ClosePrevious
  <2>1. loop.previous \in Pools BY <1>3, <1>11 DEF ClosePrevious
  <2>2. CASE pool[loop.previous].inner = "open"
    <3>1. pool' \in [Pools -> PoolType] BY <1>11, <2>1, <2>2, CloseTypes DEF ClosePrevious
    <3> QED BY <1>11, <2>2, <3>1 DEF TypeOK, ClosePrevious
  <2>3. CASE pool[loop.previous].inner # "open"
    <3>1. pool' \in [Pools -> PoolType] /\ user' \in [Users -> UserType]
      BY <1>11, <2>1, <2>3, CloseTypes DEF ClosePrevious
    <3>2. loop' \in LoopType BY <1>1, <1>11, <2>3 DEF ClosePrevious, LoopType
    <3> QED BY <1>11, <3>1, <3>2 DEF TypeOK, ClosePrevious
  <2> QED BY <2>2, <2>3
<1>12. CASE WaitFailureOrStop
  <2>1. loop' \in LoopType BY <1>1, <1>12 DEF WaitFailureOrStop, LoopType
  <2>2. pool' \in [Pools -> PoolType] BY <1>1, <1>12 DEF WaitFailureOrStop, PoolType
  <2> QED BY <1>12, <2>1, <2>2 DEF TypeOK, WaitFailureOrStop
<1>13. CASE Cancelled
  <2>1. loop' \in LoopType BY <1>1, <1>13 DEF Cancelled, LoopType
  <2>2. pool' \in [Pools -> PoolType]
    BY <1>1, <1>13 DEF Cancelled, PoolType
  <2>3. user' \in [Users -> UserType] BY <1>1, <1>13 DEF Cancelled, UserType
  <2> QED BY <1>13, <2>1, <2>2, <2>3 DEF TypeOK, Cancelled
<1>14. CASE Finally
  <2>1. loop.candidate \in Pools BY <1>2, <1>14 DEF Finally, Trying
  <2>2. CASE pool[loop.candidate].inner = "open"
    <3>1. pool' \in [Pools -> PoolType] BY <1>14, <2>1, <2>2, CloseTypes DEF Finally
    <3> QED BY <1>14, <2>2, <3>1 DEF TypeOK, Finally
  <2>3. CASE pool[loop.candidate].inner # "open"
    <3>1. pool' \in [Pools -> PoolType] /\ user' \in [Users -> UserType]
      BY <1>14, <2>1, <2>3, CloseTypes DEF Finally
    <3>2. loop' \in LoopType BY <1>1, <1>14, <2>3 DEF Finally, LoopType
    <3> QED BY <1>14, <3>1, <3>2 DEF TypeOK, Finally
  <2> QED BY <2>2, <2>3
<1> QED
  BY <1>4, <1>5, <1>6, <1>7, <1>8, <1>9, <1>10, <1>11, <1>12, <1>13, <1>14 DEF LoopStep

LEMMA OtherTypeOK ==
    ASSUME PoolInv,
           \/ Stop \/ StopStep \/ Outage
           \/ \E u \in Users : Ask(u) \/ Acquire(u) \/ AcquireFails(u) \/ Release(u) \/ ProbeFails(u)
    PROVE  TypeOK'
<1> USE DEF PoolInv
<1>1. /\ pool \in [Pools -> PoolType] /\ loop \in LoopType /\ user \in [Users -> UserType]
      /\ stopper \in StopType /\ wake \in BOOLEAN /\ dbUp \in BOOLEAN
  BY DEF TypeOK
<1>2. CASE Stop
  <2>1. (loop.pc # "ended") \in BOOLEAN OBVIOUS
  <2>2. loop' \in LoopType BY <1>1, <1>2, <2>1 DEF Stop, LoopType
  <2>3. stopper' \in StopType BY <1>1, <1>2 DEF Stop, StopType
  <2>4. stop' \in BOOLEAN BY <1>2, Zenon DEF Stop
  <2> QED BY <1>2, <2>2, <2>3, <2>4 DEF TypeOK, Stop
<1>3. CASE TaskEnded
  <2>1. stopper' \in StopType BY <1>3 DEF TypeOK, TaskEnded, StopType
  <2>2. pool' \in [Pools -> PoolType] BY <1>1, <1>3 DEF TaskEnded, PoolType
  <2> QED BY <1>3, <2>1, <2>2 DEF TypeOK, TaskEnded
<1>4. ASSUME NEW p \in Pools, StopCloses(p) PROVE TypeOK'
  <2>1. CASE pool[p].inner = "open"
    <3>1. pool' \in [Pools -> PoolType] BY <1>4, <2>1, CloseTypes DEF StopCloses
    <3> QED BY <1>4, <2>1, <3>1 DEF TypeOK, StopCloses
  <2>2. CASE pool[p].inner # "open"
    <3>1. pool' \in [Pools -> PoolType] /\ user' \in [Users -> UserType]
      BY <1>4, <2>2, CloseTypes DEF StopCloses
    <3>2. stopper' \in StopType BY <1>1, <1>4, <2>2 DEF StopCloses, StopType
    <3> QED BY <1>4, <3>1, <3>2 DEF TypeOK, StopCloses
  <2> QED BY <2>1, <2>2
<1>5. CASE Stopped
  <2>1. stopper' \in StopType BY <1>1, <1>5 DEF Stopped, StopType
  <2> QED BY <1>5, <2>1 DEF TypeOK, Stopped
<1>6. CASE Outage
  <2>1. dbUp' \in BOOLEAN BY <1>6, Zenon DEF Outage
  <2> QED BY <1>6, <2>1 DEF TypeOK, Outage
<1>7. ASSUME NEW u \in Users,
             Ask(u) \/ Acquire(u) \/ AcquireFails(u) \/ Release(u) \/ ProbeFails(u)
      PROVE  TypeOK'
  <2>1. user' \in [Users -> UserType]
    BY <1>1, <1>7 DEF TypeOK, Ask, Acquire, AcquireFails, Release, ProbeFails, UserType
  <2>2. wake' \in BOOLEAN
    BY <1>1, <1>7, Zenon DEF Ask, Acquire, AcquireFails, Release, ProbeFails
  <2>3. UNCHANGED <<dbUp, pool, published, current, retired, stop, first, loop, stopper>>
    BY <1>7 DEF Ask, Acquire, AcquireFails, Release, ProbeFails
  <2> QED BY <2>1, <2>2, <2>3 DEF TypeOK
<1> QED BY <1>2, <1>3, <1>4, <1>5, <1>6, <1>7 DEF StopStep

-----------------------------------------------------------------------------
(* The invariant.                                                          *)

Parts == RolesAreApart /\ CurrentIsOpen /\ Phases /\ OpenPoolsAreKnown

LEMMA InitParts == Init => Parts
BY DEF Init, Parts, RolesAreApart, CurrentIsOpen, Phases, OpenPoolsAreKnown, Trying, Fresh

(* What a close changes: one pool, which is closing or closed afterwards.  *)
LEMMA CloseEffect ==
    ASSUME TypeOK, NEW p \in Pools, BeginClose(p) \/ EndClose(p)
    PROVE  /\ pool'[p].inner \in {"closing", "closed"}
           /\ EndClose(p) => pool'[p].inner = "closed"
           /\ \A q \in Pools \ {p} : pool'[q] = pool[q]
BY DEF TypeOK, PoolType, BeginClose, EndClose

LEMMA LoopParts == PoolInv /\ LoopStep => Parts'
<1> SUFFICES ASSUME PoolInv, LoopStep PROVE Parts'
  OBVIOUS
<1> USE DEF PoolInv, WaitFor, At
<1>1. /\ pool \in [Pools -> PoolType] /\ loop \in LoopType
      /\ current \in Pools \cup {None} /\ retired \subseteq Pools /\ stopper \in StopType
  BY DEF TypeOK
<1>2. loop.pc \in Trying => loop.candidate \in Pools /\ loop.previous = None
  BY <1>1 DEF RolesAreApart, LoopType, Trying
<1>3. loop.pc = "closePrevious" => loop.previous \in Pools /\ loop.candidate = None
  BY <1>1 DEF RolesAreApart, LoopType, Trying
<1>4. loop.pc # "ended" => stopper.pc \in {"running", "awaiting"}
  BY <1>1 DEF Phases, StopType
<1>5. CASE LoopHead
  <2>1. CASE stop
    BY <1>1, <1>5, <2>1
       DEF LoopHead, Parts, RolesAreApart, CurrentIsOpen, Phases, OpenPoolsAreKnown, LoopType, Trying
  <2>2. CASE ~ stop
    <3>1. PICK p \in Pools : /\ Unused(p)
                             /\ pool' = [pool EXCEPT ![p] = Fresh]
                             /\ retired' = retired \ {p}
                             /\ loop' = [loop EXCEPT !.pc = "connect", !.candidate = p]
      BY <1>5, <2>2 DEF LoopHead
    <3>2. /\ loop'.pc = "connect" /\ loop'.candidate = p /\ loop'.previous = loop.previous
          /\ UNCHANGED <<current, published, stop, stopper>>
          /\ loop.pc = "head" /\ loop.candidate = None /\ loop.previous = None
      BY <1>1, <1>5, <3>1 DEF LoopHead, LoopType, RolesAreApart, Trying
    <3>3. /\ pool'[p].inner = "none"
          /\ \A q \in Pools \ {p} : pool'[q] = pool[q]
      BY <1>1, <3>1 DEF Fresh
    <3>4. p # current BY <3>1 DEF Unused
    <3>5. RolesAreApart' BY <3>1, <3>2, <3>4 DEF RolesAreApart, Trying
    <3>6. CurrentIsOpen' BY <1>1, <3>2, <3>3, <3>4 DEF CurrentIsOpen
    <3>7. Phases' BY <1>4, <3>2 DEF Phases
    <3>8. OpenPoolsAreKnown' BY <3>1, <3>2, <3>3 DEF OpenPoolsAreKnown
    <3> QED BY <3>5, <3>6, <3>7, <3>8 DEF Parts
  <2> QED BY <2>1, <2>2
<1>6. CASE ConnectOk
  <2>1. loop.candidate \in Pools /\ loop.pc = "connect" BY <1>2, <1>6 DEF ConnectOk, Trying
  <2>2. /\ loop'.pc = "test" /\ loop'.candidate = loop.candidate /\ loop'.previous = loop.previous
        /\ UNCHANGED <<current, published, stop, stopper, retired>>
    BY <1>1, <1>6 DEF ConnectOk, LoopType
  <2>3. /\ pool'[loop.candidate].inner = "open"
        /\ \A q \in Pools \ {loop.candidate} : pool'[q] = pool[q]
    BY <1>1, <1>6, <2>1 DEF ConnectOk, PoolType
  <2>4. RolesAreApart' BY <2>1, <2>2 DEF RolesAreApart, Trying
  <2>5. CurrentIsOpen' BY <1>1, <2>1, <2>2, <2>3 DEF CurrentIsOpen
  <2>6. Phases' BY <1>4, <2>1, <2>2 DEF Phases
  <2>7. OpenPoolsAreKnown' BY <2>2, <2>3 DEF OpenPoolsAreKnown
  <2> QED BY <2>4, <2>5, <2>6, <2>7 DEF Parts
<1>7. CASE TestOk \/ AttemptFails \/ Sleep
  <2>1. /\ loop'.candidate = loop.candidate /\ loop'.previous = loop.previous
        /\ loop.pc \notin {"closePrevious", "ended"} /\ loop'.pc \notin {"closePrevious", "ended"}
        /\ loop.pc \in Trying <=> loop'.pc \in Trying
        /\ loop'.pc \in {"test", "schema"} => loop.pc = "test"
        /\ UNCHANGED <<pool, current, published, stop, stopper, retired>>
    BY <1>1, <1>7 DEF TestOk, AttemptFails, Sleep, LoopType, Trying
  <2>4. RolesAreApart' BY <2>1 DEF RolesAreApart
  <2>5. CurrentIsOpen' BY <2>1 DEF CurrentIsOpen
  <2>6. Phases' BY <1>4, <2>1 DEF Phases
  <2>7. OpenPoolsAreKnown' BY <2>1 DEF OpenPoolsAreKnown
  <2> QED BY <2>4, <2>5, <2>6, <2>7 DEF Parts
<1>8. CASE SchemaOk
  <2>1. loop.candidate \in Pools /\ loop.pc = "schema" /\ loop.candidate # current
    BY <1>2, <1>8 DEF SchemaOk, Trying, RolesAreApart
  <2>2. /\ loop'.candidate = None /\ loop'.previous = current
        /\ loop'.pc = IF current = None THEN "wait" ELSE "closePrevious"
        /\ current' = loop.candidate /\ published' = loop.candidate
        /\ retired' = retired \cup ({current} \ {None})
        /\ UNCHANGED <<stop, stopper>>
    BY <1>1, <1>8 DEF SchemaOk, LoopType
  <2>3. \A q \in Pools : pool'[q].inner = pool[q].inner
    BY <1>1, <1>8 DEF SchemaOk, PoolType
  <2>4. RolesAreApart' BY <2>1, <2>2 DEF RolesAreApart, Trying
  <2>5. CurrentIsOpen' BY <2>1, <2>2, <2>3 DEF CurrentIsOpen
  <2>6. Phases' BY <1>4, <2>1, <2>2 DEF Phases
  <2>7. OpenPoolsAreKnown' BY <2>2, <2>3 DEF OpenPoolsAreKnown
  <2> QED BY <2>4, <2>5, <2>6, <2>7 DEF Parts
<1>9. CASE CloseCandidate \/ Finally
  <2> DEFINE c == loop.candidate
  <2>1. c \in Pools /\ loop.pc \in {"closeCandidate", "finally"} /\ c # current /\ loop.previous = None
    BY <1>2, <1>9 DEF CloseCandidate, Finally, Trying, RolesAreApart
  <2>2. UNCHANGED <<current, published, stop, stopper, retired>>
    BY <1>9 DEF CloseCandidate, Finally
  <2>3. CASE pool[c].inner = "open"
    <3>1. BeginClose(c) /\ UNCHANGED loop BY <1>9, <2>3 DEF CloseCandidate, Finally
    <3>2. \A q \in Pools \ {c} : pool'[q] = pool[q] BY <2>1, <3>1, CloseEffect
    <3>3. RolesAreApart' BY <2>2, <3>1 DEF RolesAreApart
    <3>4. CurrentIsOpen' BY <1>1, <2>1, <2>2, <3>1, <3>2 DEF CurrentIsOpen
    <3>5. Phases' BY <2>2, <3>1 DEF Phases
    <3>6. OpenPoolsAreKnown' BY <2>2, <3>1, <3>2 DEF OpenPoolsAreKnown
    <3> QED BY <3>3, <3>4, <3>5, <3>6 DEF Parts
  <2>4. CASE pool[c].inner # "open"
    <3>1. /\ EndClose(c)
          /\ loop'.pc \in {"sleep", "ended"} /\ loop'.candidate = None /\ loop'.previous = None
      BY <1>1, <1>9, <2>1, <2>4, ZenonT(60) DEF CloseCandidate, Finally, LoopType
    <3>2. pool'[c].inner = "closed" /\ \A q \in Pools \ {c} : pool'[q] = pool[q]
      BY <2>1, <3>1, CloseEffect
    <3>3. RolesAreApart' BY <2>2, <3>1 DEF RolesAreApart, Trying
    <3>4. CurrentIsOpen' BY <1>1, <2>1, <2>2, <3>1, <3>2 DEF CurrentIsOpen
    <3>5. Phases' BY <1>4, <2>1, <2>2 DEF Phases
    <3>6. OpenPoolsAreKnown' BY <2>2, <3>1, <3>2 DEF OpenPoolsAreKnown
    <3> QED BY <3>3, <3>4, <3>5, <3>6 DEF Parts
  <2> QED BY <2>3, <2>4
<1>10. CASE ClosePrevious
  <2> DEFINE c == loop.previous
  <2>1. /\ c \in Pools /\ loop.pc = "closePrevious" /\ c # current /\ c \in retired
        /\ loop.candidate = None
    BY <1>3, <1>10 DEF ClosePrevious, RolesAreApart
  <2>2. UNCHANGED <<current, published, stop, stopper, retired>>
    BY <1>10 DEF ClosePrevious
  <2>3. /\ loop'.candidate = None
        /\ \/ loop'.pc = "closePrevious" /\ loop'.previous = c
           \/ loop'.pc = "wait" /\ loop'.previous = None
    BY <1>1, <1>10, <2>1 DEF ClosePrevious, LoopType
  <2>4. BeginClose(c) \/ EndClose(c) BY <1>10 DEF ClosePrevious
  <2>5. \A q \in Pools \ {c} : pool'[q] = pool[q] BY <2>1, <2>4, CloseEffect
  <2>6. RolesAreApart' BY <2>1, <2>2, <2>3 DEF RolesAreApart, Trying
  <2>7. CurrentIsOpen' BY <1>1, <2>1, <2>2, <2>3, <2>5 DEF CurrentIsOpen
  <2>8. Phases' BY <1>4, <2>1, <2>2, <2>3 DEF Phases
  <2>9. OpenPoolsAreKnown' BY <2>1, <2>2, <2>3, <2>5 DEF OpenPoolsAreKnown
  <2> QED BY <2>6, <2>7, <2>8, <2>9 DEF Parts
<1>11. CASE WaitFailureOrStop
  <2>1. /\ loop.pc = "wait" /\ loop'.pc \in {"head", "ended"}
        /\ loop'.candidate = loop.candidate /\ loop'.previous = loop.previous
        /\ UNCHANGED <<current, published, stop, stopper, retired>>
    BY <1>1, <1>11 DEF WaitFailureOrStop, LoopType
  <2>2. \A q \in Pools : pool'[q].inner = pool[q].inner
    BY <1>1, <1>11 DEF WaitFailureOrStop, PoolType
  <2>3. RolesAreApart' BY <2>1 DEF RolesAreApart, Trying
  <2>4. CurrentIsOpen' BY <1>1, <2>1, <2>2 DEF CurrentIsOpen
  <2>5. Phases' BY <1>4, <2>1 DEF Phases
  <2>6. OpenPoolsAreKnown' BY <2>1, <2>2 DEF OpenPoolsAreKnown
  <2> QED BY <2>3, <2>4, <2>5, <2>6 DEF Parts
<1>12. CASE Cancelled
  <2>1. /\ loop'.pc = IF loop.candidate = None THEN "ended" ELSE "finally"
        /\ loop'.candidate = loop.candidate /\ loop'.previous = None
        /\ UNCHANGED <<current, published, stop, stopper, retired>>
    BY <1>1, <1>12 DEF Cancelled, LoopType
  <2>2. \A q \in Pools : pool'[q] = pool[q] \/ (pool[q].inner = "closing" /\ pool'[q].inner = "closed")
    BY <1>1, <1>12 DEF Cancelled, PoolType
  <2>3. RolesAreApart' BY <2>1 DEF RolesAreApart, Trying
  <2>4. CurrentIsOpen' BY <1>1, <2>1, <2>2 DEF CurrentIsOpen
  <2>5. Phases' BY <1>2, <2>1 DEF Phases, RolesAreApart, Trying
  <2>6. OpenPoolsAreKnown' BY <2>1, <2>2 DEF OpenPoolsAreKnown
  <2> QED BY <2>3, <2>4, <2>5, <2>6 DEF Parts
<1> QED BY <1>5, <1>6, <1>7, <1>8, <1>9, <1>10, <1>11, <1>12 DEF LoopStep

LEMMA StopParts == PoolInv /\ (Stop \/ StopStep) => Parts'
<1> SUFFICES ASSUME PoolInv, Stop \/ StopStep PROVE Parts'
  OBVIOUS
<1> USE DEF PoolInv
<1>1. /\ pool \in [Pools -> PoolType] /\ loop \in LoopType
      /\ current \in Pools \cup {None} /\ stopper \in StopType
  BY DEF TypeOK
<1>2. CASE Stop
  <2>1. /\ loop'.pc = loop.pc /\ loop'.candidate = loop.candidate /\ loop'.previous = loop.previous
        /\ stopper.pc = "running" /\ stopper'.pc = "awaiting" /\ stopper'.left = stopper.left
        /\ stop' /\ UNCHANGED <<pool, current, published, retired>>
    BY <1>1, <1>2 DEF Stop, LoopType, StopType
  <2> QED BY <2>1 DEF Parts, RolesAreApart, CurrentIsOpen, Phases, OpenPoolsAreKnown
<1>3. CASE TaskEnded
  <2>1. /\ loop.pc = "ended" /\ stopper.pc = "awaiting"
        /\ stopper'.pc = "closing" /\ stopper'.left = retired \cup ({current} \ {None})
        /\ current' = None /\ retired' = {} /\ UNCHANGED <<loop, published, stop>>
    BY <1>3 DEF TaskEnded
  <2>2. \A q \in Pools : pool'[q].inner = pool[q].inner BY <1>1, <1>3 DEF TaskEnded, PoolType
  <2>3. loop.candidate = None /\ loop.previous = None BY <2>1 DEF RolesAreApart, Trying
  <2>4. OpenPoolsAreKnown' BY <2>1, <2>2, <2>3 DEF OpenPoolsAreKnown, Phases
  <2> QED BY <2>1, <2>2, <2>3, <2>4 DEF Parts, RolesAreApart, CurrentIsOpen, Phases, Trying
<1>4. ASSUME NEW p \in Pools, StopCloses(p) PROVE Parts'
  <2>1. /\ stopper.pc = "closing" /\ p \in stopper.left
        /\ UNCHANGED <<loop, published, current, retired, stop>>
    BY <1>4 DEF StopCloses
  <2>2. loop.pc = "ended" /\ current = None BY <2>1 DEF Phases
  <2>3. \/ BeginClose(p) /\ UNCHANGED stopper
        \/ EndClose(p) /\ stopper'.pc = "closing" /\ stopper'.left = stopper.left \ {p}
    BY <1>1, <1>4, <2>1 DEF StopCloses, StopType
  <2>4. /\ EndClose(p) => pool'[p].inner = "closed"
        /\ \A q \in Pools \ {p} : pool'[q] = pool[q]
    BY <2>3, CloseEffect
  <2>5. OpenPoolsAreKnown' BY <2>1, <2>3, <2>4 DEF OpenPoolsAreKnown
  <2>6. RolesAreApart' /\ CurrentIsOpen' BY <2>1, <2>2 DEF RolesAreApart, CurrentIsOpen
  <2>7. Phases' BY <2>1, <2>3 DEF Phases
  <2> QED BY <2>5, <2>6, <2>7 DEF Parts
<1>5. CASE Stopped
  <2>1. /\ stopper.pc = "closing" /\ stopper'.pc = "stopped" /\ stopper.left = {} /\ stopper'.left = {}
        /\ UNCHANGED <<pool, loop, published, current, retired, stop>>
    BY <1>1, <1>5 DEF Stopped, StopType
  <2> QED BY <2>1 DEF Parts, RolesAreApart, CurrentIsOpen, Phases, OpenPoolsAreKnown
<1> QED BY <1>2, <1>3, <1>4, <1>5 DEF StopStep

LEMMA PoolNextInv == PoolInv /\ [Next]_vars => PoolInv'
<1> SUFFICES ASSUME PoolInv, [Next]_vars PROVE PoolInv'
  OBVIOUS
<1>1. PoolInv <=> TypeOK /\ Parts BY DEF PoolInv, Parts
<1>2. CASE LoopStep BY <1>2, LoopTypeOK, LoopParts DEF PoolInv, Parts
<1>3. CASE Stop \/ StopStep BY <1>3, OtherTypeOK, StopParts DEF PoolInv, Parts
<1>4. ASSUME NEW u \in Users,
             Ask(u) \/ Acquire(u) \/ AcquireFails(u) \/ Release(u) \/ ProbeFails(u)
      PROVE  PoolInv'
  <2>1. UNCHANGED <<pool, published, current, retired, stop, loop, stopper>>
    BY <1>4 DEF Ask, Acquire, AcquireFails, Release, ProbeFails
  <2>2. Parts' BY <2>1 DEF PoolInv, Parts, RolesAreApart, CurrentIsOpen, Phases, OpenPoolsAreKnown
  <2> QED BY <1>4, <2>2, OtherTypeOK DEF PoolInv, Parts
<1>5. CASE Outage
  <2>1. UNCHANGED <<pool, published, current, retired, stop, loop, stopper>> BY <1>5 DEF Outage
  <2>2. Parts' BY <2>1 DEF PoolInv, Parts, RolesAreApart, CurrentIsOpen, Phases, OpenPoolsAreKnown
  <2> QED BY <1>5, <2>2, OtherTypeOK DEF PoolInv, Parts
<1>6. CASE UNCHANGED vars
  BY <1>6 DEF vars, PoolInv, TypeOK, RolesAreApart, CurrentIsOpen, Phases, OpenPoolsAreKnown
<1> QED BY <1>2, <1>3, <1>4, <1>5, <1>6 DEF Next

LEMMA PoolInvariance == Spec => []PoolInv
<1>1. Init => PoolInv BY PoolInitTypeOK, InitParts DEF PoolInv, Parts
<1> QED BY <1>1, PoolNextInv, PTL DEF Spec

(* The supervisor's state is well typed.                                   *)
THEOREM PoolTypeCorrect == Spec => []TypeOK
<1>1. PoolInv => TypeOK BY DEF PoolInv
<1> QED BY <1>1, PoolInvariance, PTL

(* Until shutdown the pool in app.state.pool is open, through any number   *)
(* of outages, failed attempts and replacements: what the loop closes is   *)
(* never what it has published.                                            *)
THEOREM ServesAnOpenPool == Spec => []PublishedIsOpen
<1>1. PoolInv => PublishedIsOpen
  BY DEF PoolInv, TypeOK, StopType, Phases, CurrentIsOpen, PublishedIsOpen
<1> QED BY <1>1, PoolInvariance, PTL

(* When stop() has returned no pool is open, wherever the cancellation hit *)
(* the task, and also when wait_for lost it.                               *)
THEOREM StopClosesEverything == Spec => []StoppedMeansClosed
<1>1. PoolInv => StoppedMeansClosed
  BY DEF PoolInv, TypeOK, Phases, RolesAreApart, OpenPoolsAreKnown, StoppedMeansClosed, Trying
<1> QED BY <1>1, PoolInvariance, PTL

-----------------------------------------------------------------------------
(* Reporting: the three tables and the answers.                            *)

USE ReportingAssumption

PostType == [batch : Seq(Deliveries), next : Nat, sent : Nat]

(* What the three tables and the requests hold.                            *)
RepTypeOK ==
    /\ deliveryRow \in [Ids -> Deliveries \cup {None}]
    /\ trailRow \subseteq Ids
    /\ aggregate \in [Resources -> {FirstAggregate(d) : d \in Deliveries} \cup {None}]
    /\ post \in [Clients -> PostType]
    /\ acceptedBy \in [Ids -> Nat]

(* A request is at one of its deliveries.                                  *)
InBatch == \A c \in Clients : post[c].batch # <<>> => post[c].next \in 1..Len(post[c].batch)

(* An aggregate's last writer is a delivery with a row.                    *)
LastIsStored == \A r \in Resources : aggregate[r] # None =>
    /\ aggregate[r].last[2] \in Ids
    /\ deliveryRow[aggregate[r].last[2]] # None
    /\ deliveryRow[aggregate[r].last[2]].resource = r

RepInv == RepTypeOK /\ InBatch /\ LastIsStored /\ ReportingTablesAgree /\ AcceptedOnce

LEMMA RepInitInv == ReportingInit => RepInv
<1> SUFFICES ASSUME ReportingInit PROVE RepInv OBVIOUS
<1>1. NoPost \in PostType /\ NoPost.batch = <<>> BY DEF NoPost, PostType
<1>2. RepTypeOK BY <1>1 DEF ReportingInit, RepTypeOK
<1>3. InBatch /\ LastIsStored BY <1>1 DEF ReportingInit, InBatch, LastIsStored
<1>4. ReportingTablesAgree /\ AcceptedOnce BY DEF ReportingInit, ReportingTablesAgree, AcceptedOnce
<1> QED BY <1>2, <1>3, <1>4 DEF RepInv

LEMMA EmptyPost ==
    ASSUME NEW n \in Nat
    PROVE  [NoPost EXCEPT !.sent = n] \in PostType /\ [NoPost EXCEPT !.sent = n].batch = <<>>
<1>1. [NoPost EXCEPT !.sent = n] = [batch |-> <<>>, next |-> 1, sent |-> n] BY DEF NoPost
<1>2. <<>> \in Seq(Deliveries) OBVIOUS
<1>3. [batch |-> <<>>, next |-> 1, sent |-> n] \in PostType BY <1>2 DEF PostType
<1> QED BY <1>1, <1>3

(* A request moves on inside its batch, or is over.                        *)
LEMMA AdvanceKeeps ==
    ASSUME RepTypeOK, InBatch, NEW c \in Clients, post[c].batch # <<>>, Advance(c)
    PROVE  post' \in [Clients -> PostType] /\ InBatch'
<1>1. post[c] \in PostType BY DEF RepTypeOK
<1>2. post[c].next \in 1..Len(post[c].batch) BY DEF InBatch
<1>3. CASE post[c].next = Len(post[c].batch)
  <2>1. post' = [post EXCEPT ![c] = [NoPost EXCEPT !.sent = post[c].sent]] BY <1>3 DEF Advance
  <2>2. /\ [NoPost EXCEPT !.sent = post[c].sent] \in PostType
        /\ [NoPost EXCEPT !.sent = post[c].sent].batch = <<>>
    BY <1>1, EmptyPost DEF PostType
  <2> QED BY <2>1, <2>2 DEF RepTypeOK, InBatch
<1>4. CASE post[c].next # Len(post[c].batch)
  <2> DEFINE moved == [batch |-> post[c].batch, next |-> post[c].next + 1, sent |-> post[c].sent]
  <2>1. [post[c] EXCEPT !.next = @ + 1] = moved BY <1>1 DEF PostType
  <2>2. post' = [post EXCEPT ![c] = moved] BY <1>4, <2>1 DEF Advance
  <2>3. moved \in PostType BY <1>1 DEF PostType
  <2>4. post[c].next + 1 \in 1..Len(post[c].batch) BY <1>1, <1>2, <1>4 DEF PostType
  <2> QED BY <1>1, <2>2, <2>3, <2>4 DEF RepTypeOK, InBatch, PostType
<1> QED BY <1>3, <1>4

(* The accepted delivery gets its three rows, and was in none before.      *)
LEMMA AcceptedKeeps ==
    ASSUME RepInv, NEW d \in Deliveries, DeliveryOutcome(d) = "accepted",
           deliveryRow' = [deliveryRow EXCEPT ![d.id] = d],
           trailRow' = trailRow \cup {d.id},
           aggregate' = IF d.resource = None THEN aggregate
                        ELSE [aggregate EXCEPT ![d.resource] = FirstAggregate(d)],
           acceptedBy' = [acceptedBy EXCEPT ![d.id] = @ + 1]
    PROVE  /\ deliveryRow' \in [Ids -> Deliveries \cup {None}] /\ trailRow' \subseteq Ids
           /\ aggregate' \in [Resources -> {FirstAggregate(e) : e \in Deliveries} \cup {None}]
           /\ acceptedBy' \in [Ids -> Nat]
           /\ LastIsStored' /\ ReportingTablesAgree' /\ AcceptedOnce'
<1>1. d.id \in Ids /\ d # None BY DEF Ids
<1>2. deliveryRow[d.id] = None BY DEF DeliveryOutcome
<1>3. d.resource # None => d.resource \in Resources /\ aggregate[d.resource] = None
  BY <1>2 DEF DeliveryOutcome, Resources
<1>4. FirstAggregate(d).last[2] = d.id BY DEF FirstAggregate, Writer
<1>5. /\ deliveryRow' \in [Ids -> Deliveries \cup {None}] /\ trailRow' \subseteq Ids
      /\ acceptedBy' \in [Ids -> Nat]
  BY <1>1 DEF RepInv, RepTypeOK
<1>6. aggregate' \in [Resources -> {FirstAggregate(e) : e \in Deliveries} \cup {None}]
  BY <1>3 DEF RepInv, RepTypeOK
<1>7. /\ deliveryRow'[d.id] = d /\ acceptedBy'[d.id] = acceptedBy[d.id] + 1
      /\ \A i \in Ids \ {d.id} : deliveryRow'[i] = deliveryRow[i] /\ acceptedBy'[i] = acceptedBy[i]
  BY <1>1 DEF RepInv, RepTypeOK
<1>8. AcceptedOnce'
  <2>1. acceptedBy[d.id] = 0 BY <1>1, <1>2 DEF RepInv, AcceptedOnce
  <2> QED BY <1>1, <1>7, <2>1 DEF RepInv, AcceptedOnce
<1>9. trailRow' = {i \in Ids : deliveryRow'[i] # None}
  BY <1>1, <1>7 DEF RepInv, ReportingTablesAgree
<1>10. LastIsStored'
  <2> SUFFICES ASSUME NEW r \in Resources, aggregate'[r] # None
               PROVE  /\ aggregate'[r].last[2] \in Ids
                      /\ deliveryRow'[aggregate'[r].last[2]] # None
                      /\ deliveryRow'[aggregate'[r].last[2]].resource = r
    BY DEF LastIsStored
  <2>1. CASE r = d.resource
    <3>1. r # None BY DEF Resources
    <3>2. aggregate'[r] = FirstAggregate(d) BY <2>1, <3>1 DEF RepInv, RepTypeOK
    <3> QED BY <1>1, <1>4, <1>7, <2>1, <3>2
  <2>2. CASE r # d.resource
    <3>1. aggregate'[r] = aggregate[r] BY <2>2 DEF RepInv, RepTypeOK
    <3>2. /\ aggregate[r].last[2] \in Ids /\ deliveryRow[aggregate[r].last[2]] # None
          /\ deliveryRow[aggregate[r].last[2]].resource = r
      BY <3>1 DEF RepInv, LastIsStored
    <3>3. aggregate[r].last[2] # d.id BY <1>2, <3>2
    <3> QED BY <1>7, <3>1, <3>2, <3>3
  <2> QED BY <2>1, <2>2
<1>11. ReportingTablesAgree' BY <1>9, <1>10 DEF ReportingTablesAgree, LastIsStored
<1> QED BY <1>5, <1>6, <1>8, <1>10, <1>11

LEMMA RepNextInv == RepInv /\ [ReportingNext]_repVars => RepInv'
<1> SUFFICES ASSUME RepInv, [ReportingNext]_repVars PROVE RepInv' OBVIOUS
<1> DEFINE Kept == UNCHANGED <<deliveryRow, trailRow, aggregate, acceptedBy>>
<1>1. ASSUME Kept, post' \in [Clients -> PostType], InBatch' PROVE RepInv'
  BY <1>1 DEF RepInv, RepTypeOK, LastIsStored, ReportingTablesAgree, AcceptedOnce
<1>2. ASSUME NEW c \in Clients, SendPost(c) PROVE RepInv'
  <2>1. PICK b \in Batches : post' = [post EXCEPT ![c] = [batch |-> b, next |-> 1, sent |-> @.sent + 1]]
    BY <1>2 DEF SendPost
  <2>2. b \in Seq(Deliveries) OBVIOUS
  <2>3. post[c].sent \in Nat BY DEF RepInv, RepTypeOK, PostType
  <2>4. [batch |-> b, next |-> 1, sent |-> post[c].sent + 1] \in PostType BY <2>2, <2>3 DEF PostType
  <2>5. post' \in [Clients -> PostType] BY <2>1, <2>4 DEF RepInv, RepTypeOK
  <2>6. b # <<>> => 1 \in 1..Len(b) BY <2>2
  <2>7. InBatch' BY <2>1, <2>6 DEF RepInv, RepTypeOK, InBatch
  <2> QED BY <1>1, <1>2, <2>5, <2>7 DEF SendPost
<1>3. ASSUME NEW c \in Clients, PersistDelivery(c) PROVE RepInv'
  <2> DEFINE d == post[c].batch[post[c].next]
  <2>1. post[c].batch # <<>> /\ Advance(c) BY <1>3 DEF PersistDelivery
  <2>2. post' \in [Clients -> PostType] /\ InBatch' BY <2>1, AdvanceKeeps DEF RepInv
  <2>3. d \in Deliveries
    <3>1. post[c] \in PostType /\ post[c].next \in 1..Len(post[c].batch)
      BY <2>1 DEF RepInv, RepTypeOK, InBatch
    <3> QED BY <3>1 DEF PostType
  <2>4. CASE DeliveryOutcome(d) = "accepted"
    BY <1>3, <2>2, <2>3, <2>4, AcceptedKeeps DEF PersistDelivery, RepInv, RepTypeOK
  <2>5. CASE DeliveryOutcome(d) # "accepted"
    BY <1>1, <1>3, <2>2, <2>5 DEF PersistDelivery
  <2> QED BY <2>4, <2>5
<1>4. ASSUME NEW c \in Clients, DropPost(c) PROVE RepInv'
  <2>1. post[c].sent \in Nat BY DEF RepInv, RepTypeOK, PostType
  <2>2. post' \in [Clients -> PostType] /\ InBatch'
    BY <1>4, <2>1, EmptyPost DEF DropPost, RepInv, RepTypeOK, InBatch
  <2> QED BY <1>1, <1>4, <2>2 DEF DropPost
<1>5. CASE UNCHANGED repVars
  BY <1>1, <1>5 DEF repVars, RepInv, RepTypeOK, InBatch
<1> QED BY <1>2, <1>3, <1>4, <1>5 DEF ReportingNext

(* A delivery counts once in every table, whatever is repeated, cut off or *)
(* rejected: _persist_delivery stores its row, its trail and its aggregate *)
(* or none of them, and answers "accepted" once.                           *)
THEOREM DeliveriesCount == ReportingSpec => []DeliveriesCountOnce
<1>1. RepInv => DeliveriesCountOnce BY DEF RepInv, DeliveriesCountOnce
<1> QED BY <1>1, RepInitInv, RepNextInv, PTL DEF ReportingSpec

-----------------------------------------------------------------------------
(* Reporting: what a merge keeps does not depend on the order of arrival.  *)

Givers(S, k) == {d \in S : k \in Given(d.payload)}
FieldsOf(S) == UNION {Given(d.payload) : d \in S}

\* An id stands for one delivery.
Apart(S) == \A d, e \in S : d.id = e.id => d = e

IsNewest(S, d) == d \in S /\ \A e \in S \ {d} : IsNewer(Writer(d), Writer(e))

\* a is what the deliveries of S merge to: every field that one of them gives
\* has the value and the writer of the newest that does.
Keeps(a, S, k) == \E d : /\ IsNewest(Givers(S, k), d)
                         /\ a.payload[k] = d.payload[k] /\ a.provenance[k] = Writer(d)
IsAggregate(a, S) ==
    /\ a = [payload |-> a.payload, provenance |-> a.provenance, last |-> a.last]
    /\ a.payload = [k \in FieldsOf(S) |-> a.payload[k]]
    /\ a.provenance = [k \in FieldsOf(S) |-> a.provenance[k]]
    /\ \A k \in FieldsOf(S) : Keeps(a, S, k)
    /\ \E d : IsNewest(S, d) /\ a.last = Writer(d)

LEMMA NewerIsOrder ==
    ASSUME NEW d \in Deliveries, NEW e \in Deliveries
    PROVE  /\ d.id # e.id => IsNewer(Writer(d), Writer(e)) \/ IsNewer(Writer(e), Writer(d))
           /\ ~ (IsNewer(Writer(d), Writer(e)) /\ IsNewer(Writer(e), Writer(d)))
           /\ \A f \in Deliveries : IsNewer(Writer(d), Writer(e)) /\ IsNewer(Writer(e), Writer(f))
                                    => IsNewer(Writer(d), Writer(f))
BY DEF IsNewer, Writer

LEMMA NewestIsUnique ==
    ASSUME NEW S \in SUBSET Deliveries, NEW d, IsNewest(S, d), NEW e, IsNewest(S, e)
    PROVE  d = e
BY NewerIsOrder DEF IsNewest

\* With one more delivery the newest is that one or the newest so far.
LEMMA NewestGrows ==
    ASSUME NEW S \in SUBSET Deliveries, NEW x \in Deliveries, Apart(S \cup {x}),
           NEW d, IsNewest(S, d)
    PROVE  IsNewest(S \cup {x}, IF IsNewer(Writer(x), Writer(d)) THEN x ELSE d)
<1>1. d \in S /\ d \in Deliveries BY DEF IsNewest
<1>2. CASE IsNewer(Writer(x), Writer(d))
  <2>1. \A e \in S \ {d} : IsNewer(Writer(d), Writer(e)) BY DEF IsNewest
  <2>2. \A e \in S : IsNewer(Writer(x), Writer(e)) BY <1>1, <1>2, <2>1, NewerIsOrder
  <2> QED BY <1>2, <2>2 DEF IsNewest
<1>3. CASE ~ IsNewer(Writer(x), Writer(d))
  <2>1. x = d \/ x.id # d.id BY <1>1 DEF Apart
  <2>2. x = d \/ IsNewer(Writer(d), Writer(x)) BY <1>1, <1>3, <2>1, NewerIsOrder
  <2> QED BY <1>1, <1>3, <2>2 DEF IsNewest
<1> QED BY <1>2, <1>3

LEMMA AggregateIsUnique ==
    ASSUME NEW S \in SUBSET Deliveries, NEW a, IsAggregate(a, S), NEW b, IsAggregate(b, S)
    PROVE  a = b
<1>1. ASSUME NEW k \in FieldsOf(S) PROVE a.payload[k] = b.payload[k] /\ a.provenance[k] = b.provenance[k]
  <2>1. PICK d : /\ IsNewest(Givers(S, k), d)
                 /\ a.payload[k] = d.payload[k] /\ a.provenance[k] = Writer(d)
    BY DEF IsAggregate, Keeps
  <2>2. PICK e : /\ IsNewest(Givers(S, k), e)
                 /\ b.payload[k] = e.payload[k] /\ b.provenance[k] = Writer(e)
    BY DEF IsAggregate, Keeps
  <2>3. Givers(S, k) \in SUBSET Deliveries BY DEF Givers
  <2>4. d = e BY <2>1, <2>2, <2>3, NewestIsUnique
  <2> QED BY <2>1, <2>2, <2>4
<1>2. a.payload = b.payload /\ a.provenance = b.provenance
  <2>1. /\ a.payload = [k \in FieldsOf(S) |-> a.payload[k]] /\ b.payload = [k \in FieldsOf(S) |-> b.payload[k]]
        /\ a.provenance = [k \in FieldsOf(S) |-> a.provenance[k]]
        /\ b.provenance = [k \in FieldsOf(S) |-> b.provenance[k]]
    BY DEF IsAggregate
  <2>2. /\ [k \in FieldsOf(S) |-> a.payload[k]] = [k \in FieldsOf(S) |-> b.payload[k]]
        /\ [k \in FieldsOf(S) |-> a.provenance[k]] = [k \in FieldsOf(S) |-> b.provenance[k]]
    BY <1>1
  <2> QED BY <2>1, <2>2
<1>3. a.last = b.last
  <2>1. PICK d : IsNewest(S, d) /\ a.last = Writer(d) BY DEF IsAggregate
  <2>2. PICK e : IsNewest(S, e) /\ b.last = Writer(e) BY DEF IsAggregate
  <2>3. d = e BY <2>1, <2>2, NewestIsUnique
  <2> QED BY <2>1, <2>2, <2>3
<1>4. /\ a = [payload |-> a.payload, provenance |-> a.provenance, last |-> a.last]
      /\ b = [payload |-> b.payload, provenance |-> b.provenance, last |-> b.last]
  BY DEF IsAggregate
<1> QED BY <1>2, <1>3, <1>4

LEMMA FirstIsAggregate ==
    ASSUME NEW d \in Deliveries
    PROVE  IsAggregate(FirstAggregate(d), {d})
<1> DEFINE a == FirstAggregate(d)
<1>1. FieldsOf({d}) = Given(d.payload) BY DEF FieldsOf
<1>2. /\ a = [payload |-> a.payload, provenance |-> a.provenance, last |-> a.last]
      /\ a.payload = [k \in Given(d.payload) |-> d.payload[k]]
      /\ a.provenance = [k \in Given(d.payload) |-> Writer(d)]
      /\ a.last = Writer(d)
  BY DEF FirstAggregate
<1>3. ASSUME NEW k \in Given(d.payload) PROVE Keeps(a, {d}, k)
  <2>1. IsNewest(Givers({d}, k), d) BY <1>3 DEF IsNewest, Givers
  <2> QED BY <1>2, <1>3, <2>1 DEF Keeps
<1>4. IsNewest({d}, d) BY DEF IsNewest
<1>5. a.payload = [k \in Given(d.payload) |-> a.payload[k]] /\ a.provenance = [k \in Given(d.payload) |-> a.provenance[k]]
  <2> HIDE DEF a
  <2> QED BY <1>2
<1> QED BY <1>1, <1>2, <1>3, <1>4, <1>5 DEF IsAggregate

\* One merge: late, early or tied, the delivery takes the fields it is the
\* newest giver of.
LEMMA MergeIsAggregate ==
    ASSUME NEW S \in SUBSET Deliveries, NEW a, IsAggregate(a, S),
           NEW d \in Deliveries, Apart(S \cup {d})
    PROVE  IsAggregate(ForwardMerge(a, d), S \cup {d})
<1> DEFINE T == S \cup {d}
           b == ForwardMerge(a, d)
           Old == FieldsOf(S)
           New == Given(d.payload)
           takes(k) == k \in New /\ (k \notin Old \/ IsNewer(Writer(d), a.provenance[k]))
<1>1. a.payload = [k \in Old |-> a.payload[k]] /\ a.provenance = [k \in Old |-> a.provenance[k]]
  BY DEF IsAggregate
<1>2. DOMAIN a.payload = Old /\ DOMAIN a.provenance = Old BY <1>1
<1>3. Given(a.payload) = Old
  <2>1. ASSUME NEW k \in Old PROVE a.payload[k] # None
    <3>1. PICK e : IsNewest(Givers(S, k), e) /\ a.payload[k] = e.payload[k] BY DEF IsAggregate, Keeps
    <3> QED BY <3>1 DEF IsNewest, Givers, Given
  <2> QED BY <1>2, <2>1 DEF Given
<1>4. FieldsOf(T) = Old \cup New BY DEF FieldsOf
<1>5. ASSUME NEW k \in Old \cup New
      PROVE  /\ b.payload[k] = IF takes(k) THEN d.payload[k] ELSE a.payload[k]
             /\ b.provenance[k] = IF takes(k) THEN Writer(d) ELSE a.provenance[k]
  BY <1>2, <1>3, <1>5 DEF ForwardMerge
<1>6. /\ b = [payload |-> b.payload, provenance |-> b.provenance, last |-> b.last]
      /\ b.payload = [k \in Old \cup New |-> b.payload[k]]
      /\ b.provenance = [k \in Old \cup New |-> b.provenance[k]]
      /\ b.last = AdvanceLast(a.last, Writer(d))
  BY <1>2, <1>3 DEF ForwardMerge
<1>7. ASSUME NEW k \in Old \cup New PROVE Keeps(b, T, k)
  <2>1. CASE k \in Old
    <3>1. PICK e : /\ IsNewest(Givers(S, k), e)
                   /\ a.payload[k] = e.payload[k] /\ a.provenance[k] = Writer(e)
      BY <2>1 DEF IsAggregate, Keeps
    <3>2. Givers(S, k) \in SUBSET Deliveries BY DEF Givers
    <3>3. CASE k \in New
      <4>1. Givers(T, k) = Givers(S, k) \cup {d} BY <3>3 DEF Givers
      <4>2. Apart(Givers(S, k) \cup {d}) BY DEF Apart, Givers
      <4>3. IsNewest(Givers(T, k), IF IsNewer(Writer(d), Writer(e)) THEN d ELSE e)
        BY <3>1, <3>2, <4>1, <4>2, NewestGrows
      <4>4. takes(k) <=> IsNewer(Writer(d), Writer(e)) BY <2>1, <3>1, <3>3
      <4> HIDE DEF b, takes
      <4> QED BY <1>5, <3>1, <4>3, <4>4 DEF Keeps
    <3>4. CASE k \notin New
      <4>1. Givers(T, k) = Givers(S, k) BY <3>4 DEF Givers
      <4>2. ~ takes(k) BY <3>4
      <4> HIDE DEF b, takes
      <4> QED BY <1>5, <3>1, <4>1, <4>2 DEF Keeps
    <3> QED BY <3>3, <3>4
  <2>2. CASE k \notin Old
    <3>1. k \in New /\ takes(k) BY <1>7, <2>2
    <3>2. Givers(T, k) = {d} BY <2>2, <3>1 DEF Givers, FieldsOf
    <3>3. IsNewest(Givers(T, k), d) BY <3>2 DEF IsNewest
    <3> HIDE DEF b, takes
    <3> QED BY <1>5, <3>1, <3>3 DEF Keeps
  <2> QED BY <2>1, <2>2
<1>8. \E e : IsNewest(T, e) /\ b.last = Writer(e)
  <2>1. PICK e : IsNewest(S, e) /\ a.last = Writer(e) BY DEF IsAggregate
  <2>2. IsNewest(T, IF IsNewer(Writer(d), Writer(e)) THEN d ELSE e) BY <2>1, NewestGrows
  <2>3. b.last = IF IsNewer(Writer(d), Writer(e)) THEN Writer(d) ELSE Writer(e)
    BY <1>6, <2>1 DEF AdvanceLast
  <2> QED BY <2>2, <2>3
<1>9. IsAggregate(b, T)
  <2> HIDE DEF b, T
  <2> QED BY <1>4, <1>6, <1>7, <1>8 DEF IsAggregate
<1> QED BY <1>9

MergedUpto(g, ds) == g = [n \in 1..Len(ds) |->
    IF n = 1 THEN FirstAggregate(ds[1]) ELSE ForwardMerge(g[n - 1], ds[n])]

\* The recursion of Merged has a solution.
LEMMA MergedUptoExists ==
    ASSUME NEW ds \in Seq(Deliveries)
    PROVE  \E g : MergedUpto(g, ds)
<1> DEFINE Upto(g, m) == g = [n \in 1..m |->
                IF n = 1 THEN FirstAggregate(ds[1]) ELSE ForwardMerge(g[n - 1], ds[n])]
           H == {m \in Nat : \E g : Upto(g, m)}
<1>1. 0 \in H
  <2> DEFINE g == [n \in 1..0 |-> 0]
  <2>1. Upto(g, 0) OBVIOUS
  <2> QED BY <2>1
<1>2. ASSUME NEW m \in Nat, m \in H PROVE m + 1 \in H
  <2>1. PICK h : Upto(h, m) BY <1>2
  <2> DEFINE next(n) == IF n = 1 THEN FirstAggregate(ds[1]) ELSE ForwardMerge(h[n - 1], ds[n])
             g == [n \in 1..(m + 1) |-> next(n)]
  <2>2. ASSUME NEW n \in 1..m PROVE g[n] = h[n]
    <3>1. h[n] = next(n) BY <2>1
    <3>2. n \in 1..(m + 1) OBVIOUS
    <3> HIDE DEF next
    <3> QED BY <3>1, <3>2
  <2>3. \A n \in 1..(m + 1) : n = 1 \/ n - 1 \in 1..m OBVIOUS
  <2>4. Upto(g, m + 1)
    <3>1. ASSUME NEW n \in 1..(m + 1)
          PROVE  next(n) = IF n = 1 THEN FirstAggregate(ds[1]) ELSE ForwardMerge(g[n - 1], ds[n])
      <4> HIDE DEF g
      <4> QED BY <2>2, <2>3
    <3> QED BY <3>1
  <2>5. \E k : Upto(k, m + 1)
    <3> HIDE DEF g
    <3> QED BY <2>4
  <2> QED BY <2>5
<1>3. Nat \subseteq H
  <2> HIDE DEF H
  <2> QED BY <1>1, <1>2, AllNaturals
<1>4. Len(ds) \in Nat OBVIOUS
<1>5. \E g : Upto(g, Len(ds)) BY <1>3, <1>4
<1> QED BY <1>5 DEF MergedUpto

\* Whatever the order, deliveries merge to the aggregate of their set.
LEMMA MergedIsAggregate ==
    ASSUME NEW ds \in Seq(Deliveries), ds # <<>>, Apart({ds[i] : i \in 1..Len(ds)})
    PROVE  IsAggregate(Merged(ds), {ds[i] : i \in 1..Len(ds)})
<1> DEFINE g == CHOOSE g : MergedUpto(g, ds)
           S(n) == {ds[i] : i \in 1..n}
           H == {n \in Nat : n \in 1..Len(ds) => IsAggregate(g[n], S(n))}
<1>1. MergedUpto(g, ds) BY MergedUptoExists
<1>2. Merged(ds) = g[Len(ds)] BY DEF Merged, MergedUpto
<1> HIDE DEF g
<1>3. \A n \in 1..Len(ds) : g[n] = IF n = 1 THEN FirstAggregate(ds[1]) ELSE ForwardMerge(g[n - 1], ds[n])
  BY <1>1 DEF MergedUpto
<1>4. 0 \in H OBVIOUS
<1>5. ASSUME NEW n \in Nat, n \in H PROVE n + 1 \in H
  <2> SUFFICES ASSUME n + 1 \in 1..Len(ds) PROVE IsAggregate(g[n + 1], S(n + 1)) OBVIOUS
  <2>1. ds[n + 1] \in Deliveries OBVIOUS
  <2>2. CASE n = 0
    <3>1. g[1] = FirstAggregate(ds[1]) BY <1>3, <2>2
    <3>2. S(1) = {ds[1]} OBVIOUS
    <3> QED BY <2>1, <2>2, <3>1, <3>2, FirstIsAggregate
  <2>3. CASE n # 0
    <3>1. n \in 1..Len(ds) /\ IsAggregate(g[n], S(n)) BY <1>5, <2>3
    <3>2. g[n + 1] = ForwardMerge(g[n], ds[n + 1]) BY <1>3, <2>3
    <3>3. S(n) \in SUBSET Deliveries BY <3>1
    <3>4. S(n + 1) = S(n) \cup {ds[n + 1]} OBVIOUS
    <3>5. S(n + 1) \subseteq {ds[i] : i \in 1..Len(ds)} OBVIOUS
    <3>6. Apart(S(n) \cup {ds[n + 1]}) BY <3>4, <3>5 DEF Apart
    <3> HIDE DEF S
    <3>7. IsAggregate(ForwardMerge(g[n], ds[n + 1]), S(n) \cup {ds[n + 1]})
      BY <2>1, <3>1, <3>3, <3>6, MergeIsAggregate
    <3> QED BY <3>2, <3>4, <3>7
  <2> QED BY <2>2, <2>3
<1>6. Nat \subseteq H
  <2> HIDE DEF H
  <2> QED BY <1>4, <1>5, AllNaturals
<1>7. Len(ds) \in Nat /\ Len(ds) \in 1..Len(ds) OBVIOUS
<1> QED BY <1>2, <1>6, <1>7

(* The merge is forward-only: deliveries of a resource leave one aggregate *)
(* in every order of arrival, late ones, ties and None values included     *)
(* (forward_merge and advance_last, for deliveries whose ids differ).      *)
THEOREM MergeOrderIsIrrelevant ==
    ASSUME NEW ds \in Seq(Deliveries), ds # <<>>, Apart({ds[i] : i \in 1..Len(ds)})
    PROVE  MergeIsOrderFree(ds)
<1> SUFFICES ASSUME NEW p \in Bijection(1..Len(ds), 1..Len(ds))
             PROVE  Merged([i \in 1..Len(ds) |-> ds[p[i]]]) = Merged(ds)
  BY DEF MergeIsOrderFree
<1> DEFINE es == [i \in 1..Len(ds) |-> ds[p[i]]]
           S == {ds[i] : i \in 1..Len(ds)}
<1>1. p \in [1..Len(ds) -> 1..Len(ds)] /\ \A j \in 1..Len(ds) : \E i \in 1..Len(ds) : p[i] = j
  BY DEF Bijection, Injection, Surjection
<1>2. es \in Seq(Deliveries) /\ Len(es) = Len(ds) /\ es # <<>>
  <2>1. Len(ds) \in Nat /\ Len(ds) # 0 OBVIOUS
  <2>2. \A i \in 1..Len(ds) : ds[p[i]] \in Deliveries BY <1>1
  <2>3. es \in [1..Len(ds) -> Deliveries] BY <2>2
  <2> HIDE DEF es
  <2>4. es \in Seq(Deliveries) BY <2>1, <2>3, SeqDef
  <2>5. Len(es) = Len(ds) BY <2>1, <2>3, <2>4, LenProperties
  <2> QED BY <2>1, <2>4, <2>5
<1>3. {es[i] : i \in 1..Len(es)} = S
  <2>1. \A i \in 1..Len(ds) : es[i] = ds[p[i]] OBVIOUS
  <2> HIDE DEF es
  <2>2. ASSUME NEW j \in 1..Len(ds) PROVE \E i \in 1..Len(es) : es[i] = ds[j]
    <3>1. PICK i \in 1..Len(ds) : p[i] = j BY <1>1
    <3> QED BY <1>2, <2>1, <3>1
  <2>3. \A i \in 1..Len(es) : es[i] \in S BY <1>1, <1>2, <2>1
  <2> QED BY <2>2, <2>3
<1>4. S \in SUBSET Deliveries OBVIOUS
<1> HIDE DEF es
<1>5. IsAggregate(Merged(ds), S) /\ IsAggregate(Merged(es), S) BY <1>2, <1>3, MergedIsAggregate
<1>6. Merged(es) = Merged(ds) BY <1>4, <1>5, AggregateIsUnique
<1> QED BY <1>6 DEF es

-----------------------------------------------------------------------------
(* Retention.                                                              *)

USE RetentionAssumption

\* Where a row's table comes in TRANSCRIPT_TABLES: children first.
Level(row) == IF row.table = "observed_tool_calls" THEN 1 ELSE IF row.table = "observed_parts" THEN 2 ELSE 3

\* Rows that a run may find or ingest may add.
Known(rows) ==
    /\ IsFiniteSet(DOMAIN rows)
    /\ \A r \in DOMAIN rows : \E s \in TranscriptTables : r \in DOMAIN s /\ rows[r] = s[r]

\* The doomed rows of the tables before the one at t.
Below(t) == {r \in Doomed(retention.before) : Level(retention.before[r]) < t}
Gone     == DOMAIN retention.before \ DOMAIN transcripts

IsRun ==
    /\ retention = [pc |-> retention.pc, dry |-> retention.dry, limit |-> retention.limit,
                    remaining |-> retention.remaining, table |-> retention.table, batch |-> retention.batch,
                    counted |-> retention.counted, before |-> retention.before, calm |-> retention.calm]
    /\ retention.pc \in {"table", "delete", "done", "failed", "killed"}
    /\ retention.dry \in BOOLEAN /\ retention.calm \in BOOLEAN
    /\ retention.limit \in Limits /\ retention.table \in 1..4 /\ retention.counted \in Nat
    /\ retention.remaining \in Nat \cup {None} /\ (retention.remaining = None <=> retention.limit = None)
    /\ Known(retention.before)

(* The selected batch: its rows are there and too old, and it spends no    *)
(* more than the limit leaves.                                             *)
BatchIsDue == retention.pc = "delete" =>
    /\ ~ retention.dry /\ retention.table \in 1..3
    /\ retention.remaining # None => retention.remaining > 0
    /\ retention.batch \subseteq DOMAIN transcripts
    /\ \A r \in retention.batch : Expired(transcripts, r)
    /\ Cardinality(retention.batch) <= Within(BatchSize, retention.remaining)

(* What an undisturbed run has done by now: it has deleted doomed rows     *)
(* only, and while its limit lasts all those of the tables it is done with.*)
Progress ==
    /\ DOMAIN transcripts \subseteq DOMAIN retention.before
    /\ \A r \in DOMAIN transcripts : transcripts[r] = retention.before[r]
    /\ Gone \subseteq Doomed(retention.before)
    /\ retention.dry => /\ Gone = {}
                        /\ retention.counted <= Cardinality(Below(retention.table))
                        /\ retention.limit # None => retention.remaining = retention.limit - retention.counted
    /\ ~ retention.dry =>
         /\ retention.limit # None => retention.remaining = retention.limit - Cardinality(Gone)
         /\ retention.remaining = None \/ retention.remaining > 0 => Below(retention.table) \subseteq Gone
    /\ retention.pc = "delete" =>
         /\ retention.batch \subseteq Eligible(Table)
         /\ Cardinality(retention.batch)
              = Least(Cardinality(Eligible(Table)), Within(BatchSize, retention.remaining))
    /\ retention.pc # "failed"

RetInv ==
    /\ Known(transcripts)
    /\ \/ retention = NoRetention
       \/ /\ IsRun /\ BatchIsDue
          /\ retention.pc = "done" => retention.table = 4
          /\ retention.calm => Progress

\* A row is referred to from tables before its own only.
LEMMA KnownLevels ==
    ASSUME NEW rows, Known(rows), NEW r \in DOMAIN rows
    PROVE  /\ Level(rows[r]) \in 1..3
           /\ \A t \in 1..3 : rows[r].table = TRANSCRIPT_TABLES[t] <=> Level(rows[r]) = t
           /\ \A x \in Referring(rows, r) : x \in DOMAIN rows /\ Level(rows[x]) < Level(rows[r])
<1>1. PICK s \in TranscriptTables : r \in DOMAIN s /\ rows[r] = s[r] BY DEF Known
<1>2. rows[r].table \in {"observed_tool_calls", "observed_parts", "observed_messages"} BY <1>1
<1>3. Level(rows[r]) \in 1..3 BY DEF Level
<1>4. \A t \in 1..3 : rows[r].table = TRANSCRIPT_TABLES[t] <=> Level(rows[r]) = t
  <2>1. /\ TRANSCRIPT_TABLES[1] = "observed_tool_calls" /\ TRANSCRIPT_TABLES[2] = "observed_parts"
        /\ TRANSCRIPT_TABLES[3] = "observed_messages"
    BY DEF TRANSCRIPT_TABLES
  <2>2. \A t \in 1..3 : t = 1 \/ t = 2 \/ t = 3 OBVIOUS
  <2> QED BY <1>2, <2>1, <2>2 DEF Level
<1>5. ASSUME NEW x \in Referring(rows, r) PROVE x \in DOMAIN rows /\ Level(rows[x]) < Level(rows[r])
  <2>1. x \in DOMAIN rows /\ (rows[x].part = r \/ rows[x].message = r) BY DEF Referring
  <2>2. PICK u \in TranscriptTables : x \in DOMAIN u /\ rows[x] = u[x] BY <2>1 DEF Known
  <2>3. rows[x].table \in {"observed_tool_calls", "observed_parts", "observed_messages"} BY <2>2
  <2>4. /\ rows[x].part = r => rows[x].table = "observed_tool_calls" /\ rows[r].table = "observed_parts"
        /\ rows[x].message = r => rows[x].table # "observed_messages" /\ rows[r].table = "observed_messages"
    BY <1>1, <2>2
  <2> QED BY <2>1, <2>3, <2>4 DEF Level
<1> QED BY <1>3, <1>4, <1>5

\* A row is doomed when it is too old and everything that refers to it is doomed.
LEMMA DoomedUnfolds ==
    ASSUME NEW rows, Known(rows), NEW r \in DOMAIN rows
    PROVE  r \in Doomed(rows) <=> Expired(rows, r) /\ Referring(rows, r) \subseteq Doomed(rows)
<1>1. ASSUME Expired(rows, r), Referring(rows, r) \subseteq Doomed(rows) PROVE r \in Doomed(rows)
  <2> SUFFICES ASSUME NEW x \in Family(rows, r) PROVE Expired(rows, x) BY DEF Doomed
  <2>1. CASE x = r BY <1>1, <2>1
  <2>2. CASE x \in Referring(rows, r) BY <1>1, <2>2 DEF Doomed, Family
  <2>3. CASE \E y \in Referring(rows, r) : x \in Referring(rows, y) BY <1>1, <2>3 DEF Doomed, Family
  <2> QED BY <2>1, <2>2, <2>3 DEF Family
<1>2. ASSUME r \in Doomed(rows) PROVE Expired(rows, r) /\ Referring(rows, r) \subseteq Doomed(rows)
  <2>1. Expired(rows, r) BY <1>2 DEF Doomed, Family
  <2>2. ASSUME NEW x \in Referring(rows, r) PROVE x \in Doomed(rows)
    <3>1. x \in DOMAIN rows BY DEF Referring
    <3>2. ASSUME NEW z \in Family(rows, x) PROVE Expired(rows, z)
      <4>1. CASE z = x \/ z \in Referring(rows, x) BY <1>2, <4>1 DEF Doomed, Family
      <4>2. ASSUME NEW y \in Referring(rows, x), z \in Referring(rows, y) PROVE FALSE
        <5>1. /\ Level(rows[r]) \in 1..3 /\ Level(rows[x]) \in 1..3 /\ Level(rows[x]) < Level(rows[r])
          BY <3>1, KnownLevels
        <5>2. y \in DOMAIN rows /\ Level(rows[y]) \in 1..3 /\ Level(rows[y]) < Level(rows[x])
          BY <3>1, <4>2, KnownLevels
        <5>3. Level(rows[z]) \in 1..3 /\ Level(rows[z]) < Level(rows[y]) BY <4>2, <5>2, KnownLevels
        <5> QED BY <5>1, <5>2, <5>3
      <4> QED BY <4>1, <4>2 DEF Family
    <3> QED BY <3>1, <3>2 DEF Doomed
  <2> QED BY <2>1, <2>2
<1> QED BY <1>1, <1>2

\* What the sets of the invariant are: finite, and Below grows by a table.
LEMMA Sets ==
    ASSUME RetInv, IsRun
    PROVE  /\ IsFiniteSet(Doomed(retention.before)) /\ Doomed(retention.before) \subseteq DOMAIN retention.before
           /\ \A t \in 1..4 : Below(t) \subseteq Doomed(retention.before) /\ IsFiniteSet(Below(t))
           /\ IsFiniteSet(Gone) /\ IsFiniteSet(DOMAIN transcripts)
           /\ \A t \in 1..3 : /\ Eligible(TRANSCRIPT_TABLES[t]) \subseteq DOMAIN transcripts
                              /\ IsFiniteSet(Eligible(TRANSCRIPT_TABLES[t]))
<1>1. IsFiniteSet(DOMAIN retention.before) BY DEF IsRun, Known
<1>2. Doomed(retention.before) \subseteq DOMAIN retention.before BY DEF Doomed
<1>3. IsFiniteSet(Doomed(retention.before)) BY <1>1, <1>2, FS_Subset
<1>4. \A t \in 1..4 : Below(t) \subseteq Doomed(retention.before) BY DEF Below
<1>5. \A t \in 1..4 : IsFiniteSet(Below(t)) BY <1>3, <1>4, FS_Subset
<1>6. IsFiniteSet(Gone)
  <2>1. Gone \subseteq DOMAIN retention.before BY DEF Gone
  <2> QED BY <1>1, <2>1, FS_Subset
<1>7. IsFiniteSet(DOMAIN transcripts) BY DEF RetInv, Known
<1>8. \A t \in 1..3 : Eligible(TRANSCRIPT_TABLES[t]) \subseteq DOMAIN transcripts BY DEF Eligible
<1>9. \A t \in 1..3 : IsFiniteSet(Eligible(TRANSCRIPT_TABLES[t])) BY <1>7, <1>8, FS_Subset
<1> QED BY <1>2, <1>3, <1>4, <1>5, <1>6, <1>7, <1>8, <1>9

\* In an undisturbed run the eligible rows of a table are doomed, and they are
\* all that is left of its doomed rows when the tables before it are done.
LEMMA EligibleAreDoomed ==
    ASSUME RetInv, IsRun, Progress, NEW t \in 1..3
    PROVE  /\ Eligible(TRANSCRIPT_TABLES[t]) \subseteq Doomed(retention.before)
           /\ \A r \in Eligible(TRANSCRIPT_TABLES[t]) : Level(retention.before[r]) = t
           /\ Below(t) \subseteq Gone =>
                Below(t + 1) \subseteq Gone \cup Eligible(TRANSCRIPT_TABLES[t])
<1> DEFINE found == retention.before
           E == Eligible(TRANSCRIPT_TABLES[t])
<1>1. /\ DOMAIN transcripts \subseteq DOMAIN found
      /\ \A r \in DOMAIN transcripts : transcripts[r] = found[r]
      /\ DOMAIN found \ DOMAIN transcripts \subseteq Doomed(found)
  BY DEF Progress, Gone
<1>2. Known(found) BY DEF IsRun
<1>3. \A r \in DOMAIN transcripts : Expired(transcripts, r) <=> Expired(found, r) BY <1>1 DEF Expired
<1>4. \A r : Referring(transcripts, r) = Referring(found, r) \cap DOMAIN transcripts BY <1>1 DEF Referring
<1>5. \A r : Referring(found, r) \subseteq DOMAIN found BY DEF Referring
<1> HIDE DEF found
<1>6. ASSUME NEW r \in E PROVE r \in Doomed(found) /\ Level(found[r]) = t
  <2>1. /\ r \in DOMAIN transcripts /\ transcripts[r].table = TRANSCRIPT_TABLES[t]
        /\ Expired(transcripts, r) /\ Referring(transcripts, r) = {}
    BY DEF Eligible
  <2>2. Referring(found, r) \subseteq Doomed(found) BY <1>1, <1>4, <1>5, <2>1
  <2>3. r \in Doomed(found) BY <1>1, <1>2, <1>3, <2>1, <2>2, DoomedUnfolds
  <2>4. Level(found[r]) = t BY <1>1, <1>2, <2>1, KnownLevels
  <2> QED BY <2>3, <2>4
<1>7. ASSUME Below(t) \subseteq Gone, NEW r \in Below(t + 1), r \notin Gone PROVE r \in E
  <2>1. r \in Doomed(found) /\ Level(found[r]) < t + 1 BY <1>7 DEF Below, found
  <2>2. r \in DOMAIN found BY <2>1 DEF Doomed
  <2>3. Level(found[r]) \in 1..3 BY <1>2, <2>2, KnownLevels
  <2>4. r \in DOMAIN transcripts /\ ~ (r \in Below(t)) BY <1>7, <2>2 DEF Gone, found
  <2>5. Level(found[r]) = t
    <3>1. ~ (Level(found[r]) < t) BY <2>1, <2>4 DEF Below, found
    <3> QED BY <2>1, <2>3, <3>1
  <2>6. transcripts[r].table = TRANSCRIPT_TABLES[t] BY <1>1, <1>2, <2>2, <2>4, <2>5, KnownLevels
  <2>7. Expired(found, r) /\ Referring(found, r) \subseteq Doomed(found) BY <1>2, <2>1, <2>2, DoomedUnfolds
  <2>8. ASSUME NEW x \in Referring(found, r) PROVE x \notin DOMAIN transcripts
    <3>1. x \in DOMAIN found /\ Level(found[x]) < t BY <1>2, <2>2, <2>5, KnownLevels
    <3>2. x \in Below(t) BY <2>7, <3>1 DEF Below, found
    <3> QED BY <1>7, <3>2 DEF Gone
  <2>9. Referring(transcripts, r) = {} BY <1>4, <2>8
  <2> QED BY <1>3, <2>4, <2>6, <2>7, <2>9 DEF Eligible
<1> QED BY <1>6, <1>7 DEF found

\* A limit is spent by what was taken, and never overdrawn.
LEMMA Spending ==
    ASSUME NEW limit \in Nat \cup {None}, NEW n \in Nat
    PROVE  /\ Within(n, limit) \in Nat /\ Within(n, limit) <= n
           /\ limit # None => Within(n, limit) <= limit
           /\ \A k \in Nat : k <= Within(n, limit) =>
                /\ Spend(limit, k) \in Nat \cup {None}
                /\ Spend(limit, k) = None <=> limit = None
                /\ limit # None => Spend(limit, k) = limit - k
<1>1. CASE limit = None BY <1>1 DEF Within, Spend
<1>2. CASE limit # None
  <2>1. limit \in Nat BY <1>2
  <2>2. Within(n, limit) \in Nat /\ Within(n, limit) <= n /\ Within(n, limit) <= limit
    BY <1>2, <2>1 DEF Within, Least
  <2>3. ASSUME NEW k \in Nat, k <= Within(n, limit)
        PROVE  Spend(limit, k) = limit - k /\ Spend(limit, k) \in Nat
    BY <1>2, <2>1, <2>2, <2>3 DEF Spend
  <2> QED BY <1>2, <2>2, <2>3
<1> QED BY <1>1, <1>2

LEMMA StartStep ==
    ASSUME RetInv, NEW limit \in Limits, NEW dry \in BOOLEAN, StartRetention(limit, dry)
    PROVE  RetInv'
<1>1. /\ retention' = [pc |-> "table", dry |-> dry, limit |-> limit, remaining |-> limit, table |-> 1, batch |-> {},
                       counted |-> 0, before |-> transcripts, calm |-> TRUE]
      /\ transcripts' = transcripts
  BY DEF StartRetention
<1>2. Known(transcripts)' /\ Known(retention.before)' BY <1>1 DEF RetInv
<1>3. IsRun' BY <1>1, <1>2 DEF IsRun
<1>4. BatchIsDue' /\ (retention.pc = "done" => retention.table = 4)' BY <1>1 DEF BatchIsDue
<1>5. Gone' = {} BY <1>1 DEF Gone
<1>6. Below(retention.table)' = {}
  <2>1. retention'.table = 1 /\ retention'.before = transcripts BY <1>1
  <2>2. \A r \in Doomed(transcripts) : r \in DOMAIN transcripts BY DEF Doomed
  <2>3. \A r \in Doomed(transcripts) : ~ (Level(transcripts[r]) < 1) BY <2>2, KnownLevels DEF RetInv
  <2> QED BY <2>1, <2>3 DEF Below
<1>7. Progress'
  <2>1. Cardinality({}) = 0 BY FS_EmptySet
  <2>2. /\ (DOMAIN transcripts \subseteq DOMAIN retention.before)'
        /\ (\A r \in DOMAIN transcripts : transcripts[r] = retention.before[r])'
    BY <1>1
  <2>3. limit # None => limit - 0 = limit OBVIOUS
  <2>4. /\ retention'.pc = "table" /\ retention'.dry = dry /\ retention'.limit = limit
        /\ retention'.remaining = limit /\ retention'.counted = 0
    BY <1>1
  <2> QED BY <1>5, <1>6, <2>1, <2>2, <2>3, <2>4 DEF Progress
<1> QED BY <1>2, <1>3, <1>4, <1>7 DEF RetInv

LEMMA CountStep == ASSUME RetInv, CountTable PROVE RetInv'
<1> DEFINE t == retention.table
           E == Eligible(Table)
           n == Within(Cardinality(E), retention.remaining)
<1>1. IsRun /\ BatchIsDue /\ (retention.calm => Progress) /\ Known(transcripts)
  BY DEF RetInv, CountTable, InTable, NoRetention
<1>2. /\ retention.pc = "table" /\ retention.dry /\ t \in 1..3 /\ Table = TRANSCRIPT_TABLES[t]
      /\ transcripts' = transcripts
      /\ retention' = [retention EXCEPT !.counted = @ + n, !.remaining = Spend(@, n), !.table = @ + 1]
  BY <1>1 DEF CountTable, InTable, Table, IsRun, TRANSCRIPT_TABLES
<1>3. E \subseteq DOMAIN transcripts /\ IsFiniteSet(E) /\ Cardinality(E) \in Nat
  BY <1>1, <1>2, Sets, FS_CardinalityType
<1>4. /\ n \in Nat /\ n <= Cardinality(E) /\ Spend(retention.remaining, n) \in Nat \cup {None}
      /\ Spend(retention.remaining, n) = None <=> retention.remaining = None
      /\ retention.remaining # None => Spend(retention.remaining, n) = retention.remaining - n
  BY <1>1, <1>3, Spending DEF IsRun
<1> HIDE DEF n
<1>5. /\ retention'.pc = "table" /\ retention'.dry = retention.dry /\ retention'.limit = retention.limit
      /\ retention'.before = retention.before /\ retention'.calm = retention.calm
      /\ retention'.batch = retention.batch /\ retention'.table = t + 1
      /\ retention'.counted = retention.counted + n /\ retention'.remaining = Spend(retention.remaining, n)
      /\ retention' = [pc |-> retention'.pc, dry |-> retention'.dry, limit |-> retention'.limit,
                       remaining |-> retention'.remaining, table |-> retention'.table, batch |-> retention'.batch,
                       counted |-> retention'.counted, before |-> retention'.before, calm |-> retention'.calm]
  BY <1>1, <1>2 DEF IsRun
<1>6. IsRun'
  <2>1. t + 1 \in 1..4 /\ retention.counted + n \in Nat BY <1>1, <1>2, <1>4 DEF IsRun
  <2>2. /\ retention.limit \in Limits /\ retention.dry \in BOOLEAN /\ retention.calm \in BOOLEAN
        /\ (retention.remaining = None <=> retention.limit = None) /\ Known(retention.before)
    BY <1>1 DEF IsRun
  <2> HIDE DEF t
  <2> QED BY <1>4, <1>5, <2>1, <2>2 DEF IsRun
<1>7. ASSUME retention.calm PROVE Progress'
  <2>1. Progress BY <1>1, <1>7
  <2>2. Gone' = Gone /\ Gone = {} BY <1>2, <1>5, <2>1 DEF Gone, Progress
  <2>3. Cardinality(Below(t)) + Cardinality(E) <= Cardinality(Below(t + 1))
    <3>1. E \subseteq Below(t + 1)
      BY <1>1, <1>2, <2>1, EligibleAreDoomed DEF Below
    <3>2. Below(t) \subseteq Below(t + 1)
      <4>1. \A r \in Doomed(retention.before) : Level(retention.before[r]) \in Int
        BY DEF Level
      <4> QED BY <1>2, <4>1 DEF Below
    <3>3. Below(t) \cap E = {} BY <1>1, <1>2, <2>1, EligibleAreDoomed DEF Below
    <3>4. IsFiniteSet(Below(t)) /\ IsFiniteSet(Below(t + 1)) BY <1>1, <1>2, Sets
    <3>5. Cardinality(Below(t) \cup E) = Cardinality(Below(t)) + Cardinality(E)
      <4>1. Cardinality(Below(t) \cup E)
              = Cardinality(Below(t)) + Cardinality(E) - Cardinality(Below(t) \cap E)
        BY <1>3, <3>4, FS_Union
      <4>2. Cardinality(Below(t) \cap E) = 0 BY <3>3, FS_EmptySet
      <4>3. Cardinality(Below(t)) \in Nat BY <3>4, FS_CardinalityType
      <4> QED BY <1>3, <4>1, <4>2, <4>3
    <3>6. Cardinality(Below(t) \cup E) <= Cardinality(Below(t + 1))
      BY <3>1, <3>2, <3>4, FS_Subset
    <3> QED BY <3>5, <3>6
  <2>4. Cardinality(Below(t)) \in Nat /\ Cardinality(Below(t + 1)) \in Nat
    BY <1>1, <1>2, Sets, FS_CardinalityType, SMTT(30)
  <2>5. retention'.counted <= Cardinality(Below(t + 1))
    BY <1>1, <1>2, <1>3, <1>4, <1>5, <2>1, <2>3, <2>4 DEF Progress, IsRun
  <2>6. retention.limit # None => retention'.remaining = retention.limit - retention'.counted
    BY <1>1, <1>2, <1>4, <1>5, <2>1 DEF Progress, IsRun
  <2>7. (Below(retention.table))' = Below(t + 1) BY <1>5 DEF Below
  <2> QED BY <1>2, <1>5, <2>1, <2>2, <2>5, <2>6, <2>7 DEF Progress
<1> QED BY <1>1, <1>2, <1>5, <1>6, <1>7 DEF RetInv, BatchIsDue

LEMMA SkipStep == ASSUME RetInv, SkipTable PROVE RetInv'
<1>1. IsRun /\ BatchIsDue /\ (retention.calm => Progress) /\ Known(transcripts)
  BY DEF RetInv, SkipTable, InTable, NoRetention
<1>2. /\ retention.pc = "table" /\ ~ retention.dry /\ retention.table \in 1..3
      /\ retention.remaining # None /\ retention.remaining <= 0 /\ transcripts' = transcripts
      /\ retention' = [retention EXCEPT !.table = @ + 1]
  BY <1>1 DEF SkipTable, InTable, IsRun, TRANSCRIPT_TABLES
<1>3. /\ retention'.pc = "table" /\ retention'.dry = retention.dry /\ retention'.limit = retention.limit
      /\ retention'.before = retention.before /\ retention'.calm = retention.calm
      /\ retention'.batch = retention.batch /\ retention'.table = retention.table + 1
      /\ retention'.counted = retention.counted /\ retention'.remaining = retention.remaining
      /\ retention' = [pc |-> retention'.pc, dry |-> retention'.dry, limit |-> retention'.limit,
                       remaining |-> retention'.remaining, table |-> retention'.table, batch |-> retention'.batch,
                       counted |-> retention'.counted, before |-> retention'.before, calm |-> retention'.calm]
  BY <1>1, <1>2 DEF IsRun
<1>4. IsRun' BY <1>1, <1>2, <1>3 DEF IsRun
<1>5. ASSUME retention.calm PROVE Progress'
  <2>1. Gone' = Gone BY <1>2, <1>3 DEF Gone
  <2>2. ~ (retention.remaining > 0) BY <1>1, <1>2 DEF IsRun
  <2> QED BY <1>1, <1>2, <1>3, <1>5, <2>1, <2>2 DEF Progress
<1> QED BY <1>1, <1>2, <1>3, <1>4, <1>5 DEF RetInv, BatchIsDue

LEMMA SelectStep == ASSUME RetInv, SelectBatch PROVE RetInv'
<1> DEFINE t == retention.table
           E == Eligible(Table)
           W == Within(BatchSize, retention.remaining)
<1>1. IsRun /\ BatchIsDue /\ (retention.calm => Progress) /\ Known(transcripts)
  BY DEF RetInv, SelectBatch, InTable, NoRetention
<1>2. /\ retention.pc = "table" /\ ~ retention.dry /\ t \in 1..3 /\ Table = TRANSCRIPT_TABLES[t]
      /\ retention.remaining # None => retention.remaining > 0
      /\ transcripts' = transcripts
  BY <1>1 DEF SelectBatch, InTable, Table, IsRun, TRANSCRIPT_TABLES
<1>3. PICK batch \in SUBSET E : /\ Cardinality(batch) = Least(Cardinality(E), W)
                                /\ retention' = [retention EXCEPT !.batch = batch, !.pc = "delete"]
  BY DEF SelectBatch
<1>4. E \subseteq DOMAIN transcripts /\ Cardinality(E) \in Nat
  BY <1>1, <1>2, Sets, FS_CardinalityType
<1>5. W \in Nat BY <1>1, Spending DEF IsRun
<1>6. /\ retention'.pc = "delete" /\ retention'.dry = retention.dry /\ retention'.limit = retention.limit
      /\ retention'.before = retention.before /\ retention'.calm = retention.calm
      /\ retention'.batch = batch /\ retention'.table = retention.table
      /\ retention'.counted = retention.counted /\ retention'.remaining = retention.remaining
      /\ retention' = [pc |-> retention'.pc, dry |-> retention'.dry, limit |-> retention'.limit,
                       remaining |-> retention'.remaining, table |-> retention'.table, batch |-> retention'.batch,
                       counted |-> retention'.counted, before |-> retention'.before, calm |-> retention'.calm]
  BY <1>1, <1>3 DEF IsRun
<1>7. IsRun' BY <1>1, <1>6 DEF IsRun
<1>8. E' = E BY <1>2, <1>6 DEF Eligible, Table, Referring, Expired
<1>9. Cardinality(batch) <= W BY <1>3, <1>4, <1>5 DEF Least
<1>10. BatchIsDue'
  <2>1. \A r \in batch : Expired(transcripts, r) BY DEF Eligible
  <2>2. (\A r \in retention.batch : Expired(transcripts, r))' BY <1>2, <1>6, <2>1
  <2> QED BY <1>2, <1>4, <1>6, <1>9, <2>2 DEF BatchIsDue
<1>11. ASSUME retention.calm PROVE Progress'
  <2>1. Gone' = Gone /\ (Below(retention.table))' = Below(retention.table) BY <1>2, <1>6 DEF Gone, Below
  <2>2. (retention.batch \subseteq Eligible(Table))' BY <1>6, <1>8
  <2>3. (Cardinality(retention.batch)
           = Least(Cardinality(Eligible(Table)), Within(BatchSize, retention.remaining)))'
    BY <1>3, <1>6, <1>8
  <2> QED BY <1>1, <1>2, <1>6, <1>11, <2>1, <2>2, <2>3 DEF Progress
<1> QED BY <1>1, <1>2, <1>6, <1>7, <1>10, <1>11 DEF RetInv

\* A batch that is deleted: the account of an undisturbed run stays right.
LEMMA DeleteStep ==
    ASSUME RetInv, InTable("delete"),
           transcripts' = Without(transcripts, retention.batch),
           retention' = AfterBatch(Cardinality(retention.batch))
    PROVE  RetInv'
<1> DEFINE t == retention.table
           n == Cardinality(retention.batch)
           E == Eligible(Table)
           W == Within(BatchSize, retention.remaining)
           last == n < W
<1>1. IsRun /\ BatchIsDue /\ (retention.calm => Progress) /\ Known(transcripts)
  BY DEF RetInv, InTable, NoRetention
<1>2. /\ retention.pc = "delete" /\ ~ retention.dry /\ t \in 1..3 /\ Table = TRANSCRIPT_TABLES[t]
      /\ retention.batch \subseteq DOMAIN transcripts /\ n <= W
      /\ retention.remaining # None => retention.remaining > 0
  BY <1>1 DEF BatchIsDue, InTable, Table
<1>3. IsFiniteSet(retention.batch) /\ n \in Nat
  BY <1>1, <1>2, Sets, FS_Subset, FS_CardinalityType
<1>4. /\ W \in Nat /\ Spend(retention.remaining, n) \in Nat \cup {None}
      /\ Spend(retention.remaining, n) = None <=> retention.remaining = None
      /\ retention.remaining # None => Spend(retention.remaining, n) = retention.remaining - n
  BY <1>1, <1>2, <1>3, Spending DEF IsRun
<1>5. /\ DOMAIN transcripts' = DOMAIN transcripts \ retention.batch
      /\ \A r \in DOMAIN transcripts' : transcripts'[r] = transcripts[r]
  BY DEF Without
<1>6. /\ retention'.pc = "table" /\ retention'.dry = retention.dry /\ retention'.limit = retention.limit
      /\ retention'.before = retention.before /\ retention'.calm = retention.calm
      /\ retention'.batch = {} /\ retention'.table = IF last THEN t + 1 ELSE t
      /\ retention'.counted = retention.counted /\ retention'.remaining = Spend(retention.remaining, n)
      /\ retention' = [pc |-> retention'.pc, dry |-> retention'.dry, limit |-> retention'.limit,
                       remaining |-> retention'.remaining, table |-> retention'.table, batch |-> retention'.batch,
                       counted |-> retention'.counted, before |-> retention'.before, calm |-> retention'.calm]
  BY <1>1 DEF IsRun, AfterBatch
<1> HIDE DEF n, W
<1>7. IsRun'
  <2>1. retention'.table \in 1..4 BY <1>2, <1>6
  <2>2. /\ retention.limit \in Limits /\ retention.dry \in BOOLEAN /\ retention.calm \in BOOLEAN
        /\ (retention.remaining = None <=> retention.limit = None) /\ Known(retention.before)
        /\ retention.counted \in Nat
    BY <1>1 DEF IsRun
  <2> HIDE DEF t, last
  <2> QED BY <1>4, <1>6, <2>1, <2>2 DEF IsRun
<1>8. Known(transcripts)'
  <2>1. IsFiniteSet(DOMAIN transcripts') BY <1>1, <1>5, FS_Subset DEF Known
  <2> QED BY <1>1, <1>5, <2>1 DEF Known
<1>9. ASSUME retention.calm PROVE Progress'
  <2>1. Progress BY <1>1, <1>9
  <2>2. /\ DOMAIN transcripts \subseteq DOMAIN retention.before
        /\ \A r \in DOMAIN transcripts : transcripts[r] = retention.before[r]
        /\ Gone \subseteq Doomed(retention.before)
        /\ retention.limit # None => retention.remaining = retention.limit - Cardinality(Gone)
        /\ Below(t) \subseteq Gone
        /\ retention.batch \subseteq E
        /\ n = Least(Cardinality(E), W)
    BY <1>2, <2>1 DEF Progress, n, W
  <2>3. /\ E \subseteq Doomed(retention.before) /\ Below(t + 1) \subseteq Gone \cup E
        /\ IsFiniteSet(E) /\ Cardinality(E) \in Nat
    BY <1>1, <1>2, <2>1, <2>2, EligibleAreDoomed, Sets, FS_CardinalityType
  <2>4. Gone' = Gone \cup retention.batch BY <1>2, <1>5, <1>6, <2>2 DEF Gone
  <2>5. Cardinality(Gone') = Cardinality(Gone) + n /\ Cardinality(Gone) \in Nat
    <3>1. IsFiniteSet(Gone) BY <1>1, Sets
    <3>2. Gone \cap retention.batch = {} BY <1>2 DEF Gone
    <3>3. Cardinality(Gone \cup retention.batch)
            = Cardinality(Gone) + Cardinality(retention.batch) - Cardinality(Gone \cap retention.batch)
      BY <1>3, <3>1, FS_Union
    <3>4. Cardinality(Gone \cap retention.batch) = 0 BY <3>2, FS_EmptySet
    <3>5. Cardinality(Gone) \in Nat BY <3>1, FS_CardinalityType
    <3> QED BY <1>3, <2>4, <3>3, <3>4, <3>5 DEF n
  <2>6. ASSUME last PROVE retention.batch = E
    <3>1. n = Cardinality(E) BY <1>3, <1>4, <2>2, <2>3, <2>6 DEF Least
    <3> QED BY <2>2, <2>3, <3>1, FS_Subset DEF n
  <2>7. (Below(retention.table))' \subseteq Gone'
    <3>1. (Below(retention.table))' = Below(IF last THEN t + 1 ELSE t) BY <1>6 DEF Below
    <3>2. CASE last BY <2>3, <2>4, <2>6, <3>1, <3>2
    <3>3. CASE ~ last BY <2>2, <2>4, <3>1, <3>3
    <3> QED BY <3>2, <3>3
  <2>8. retention.limit # None => retention'.remaining = retention.limit - Cardinality(Gone')
    <3> SUFFICES ASSUME retention.limit # None
                 PROVE  retention'.remaining = retention.limit - Cardinality(Gone')
      OBVIOUS
    <3>1. retention.limit \in Nat /\ retention.remaining # None BY <1>1 DEF IsRun
    <3>2. retention'.remaining = retention.remaining - n BY <1>4, <1>6, <3>1
    <3> QED BY <1>3, <2>2, <2>5, <3>1, <3>2
  <2>9. Gone' \subseteq Doomed(retention.before) BY <2>2, <2>3, <2>4
  <2>10. /\ DOMAIN transcripts' \subseteq DOMAIN retention.before
         /\ \A r \in DOMAIN transcripts' : transcripts'[r] = retention.before[r]
    BY <1>5, <2>2
  <2> QED BY <1>2, <1>6, <2>7, <2>8, <2>9, <2>10 DEF Progress
<1> QED BY <1>6, <1>7, <1>8, <1>9 DEF RetInv, BatchIsDue

\* The foreign-key violation: no undisturbed run meets it.
LEMMA FailStep ==
    ASSUME RetInv, InTable("delete"), \E r \in retention.batch : Referring(transcripts, r) # {},
           retention' = [retention EXCEPT !.pc = "failed"], transcripts' = transcripts
    PROVE  RetInv'
<1>1. IsRun /\ BatchIsDue /\ (retention.calm => Progress) /\ Known(transcripts)
  BY DEF RetInv, InTable, NoRetention
<1>2. ~ retention.calm
  <2> SUFFICES ASSUME retention.calm PROVE FALSE OBVIOUS
  <2>1. retention.batch \subseteq Eligible(Table) BY <1>1 DEF Progress, InTable
  <2> QED BY <2>1 DEF Eligible
<1>3. /\ retention'.pc = "failed" /\ retention'.dry = retention.dry /\ retention'.limit = retention.limit
      /\ retention'.before = retention.before /\ retention'.calm = retention.calm
      /\ retention'.batch = retention.batch /\ retention'.table = retention.table
      /\ retention'.counted = retention.counted /\ retention'.remaining = retention.remaining
      /\ retention' = [pc |-> retention'.pc, dry |-> retention'.dry, limit |-> retention'.limit,
                       remaining |-> retention'.remaining, table |-> retention'.table, batch |-> retention'.batch,
                       counted |-> retention'.counted, before |-> retention'.before, calm |-> retention'.calm]
  BY <1>1 DEF IsRun
<1>4. IsRun' BY <1>1, <1>3 DEF IsRun
<1> QED BY <1>1, <1>2, <1>3, <1>4 DEF RetInv, BatchIsDue

\* The run ends, or dies.
LEMMA EndStep ==
    ASSUME RetInv, ReportRetention \/ KillRetention
    PROVE  RetInv'
<1>1. IsRun /\ BatchIsDue /\ (retention.calm => Progress) /\ Known(transcripts)
  BY DEF RetInv, ReportRetention, KillRetention, NoRetention
<1>2. /\ transcripts' = transcripts /\ retention'.pc \in {"done", "killed"}
      /\ retention'.pc = "done" => retention.table = 4
      /\ retention'.dry = retention.dry /\ retention'.limit = retention.limit
      /\ retention'.before = retention.before /\ retention'.calm = retention.calm
      /\ retention'.batch = retention.batch /\ retention'.table = retention.table
      /\ retention'.counted = retention.counted /\ retention'.remaining = retention.remaining
      /\ retention' = [pc |-> retention'.pc, dry |-> retention'.dry, limit |-> retention'.limit,
                       remaining |-> retention'.remaining, table |-> retention'.table, batch |-> retention'.batch,
                       counted |-> retention'.counted, before |-> retention'.before, calm |-> retention'.calm]
  <2>1. CASE ReportRetention
    <3>1. retention.table = 4 BY <1>1, <2>1 DEF ReportRetention, IsRun, TRANSCRIPT_TABLES
    <3> QED BY <1>1, <2>1, <3>1 DEF ReportRetention, IsRun
  <2>2. CASE KillRetention BY <1>1, <2>2 DEF KillRetention, IsRun
  <2> QED BY <2>1, <2>2
<1>3. IsRun' BY <1>1, <1>2 DEF IsRun
<1>4. ASSUME retention.calm PROVE Progress'
  <2>1. Gone' = Gone /\ (Below(retention.table))' = Below(retention.table) BY <1>2 DEF Gone, Below
  <2> QED BY <1>1, <1>2, <1>4, <2>1 DEF Progress
<1> QED BY <1>1, <1>2, <1>3, <1>4 DEF RetInv, BatchIsDue

\* A part that arrives leaves the rows that are there alone.
LEMMA ArriveStep ==
    ASSUME RetInv, NEW x \in DOMAIN LateParts, LatePart(x)
    PROVE  RetInv'
<1>1. /\ x \notin DOMAIN transcripts /\ DOMAIN transcripts' = DOMAIN transcripts \cup {x}
      /\ \A r \in DOMAIN transcripts : transcripts'[r] = transcripts[r]
      /\ transcripts'[x] = LateParts[x]
  BY DEF LatePart
<1>2. Known(transcripts)'
  <2>1. IsFiniteSet(DOMAIN transcripts') BY <1>1, FS_AddElement DEF RetInv, Known
  <2>2. LateParts \in TranscriptTables BY DEF TranscriptTables
  <2> QED BY <1>1, <2>1, <2>2 DEF RetInv, Known
<1>3. CASE retention = NoRetention
  <2>1. retention' = retention BY <1>3 DEF LatePart, NoRetention
  <2> QED BY <1>2, <1>3, <2>1 DEF RetInv, NoRetention
<1>4. CASE retention # NoRetention
  <2>1. IsRun /\ BatchIsDue /\ (retention.pc = "done" => retention.table = 4) BY <1>4 DEF RetInv
  <2>2. retention' = [retention EXCEPT !.calm = FALSE] BY <2>1 DEF LatePart, IsRun
  <2>3. /\ retention'.pc = retention.pc /\ retention'.dry = retention.dry /\ retention'.limit = retention.limit
        /\ retention'.before = retention.before /\ retention'.calm = FALSE
        /\ retention'.batch = retention.batch /\ retention'.table = retention.table
        /\ retention'.counted = retention.counted /\ retention'.remaining = retention.remaining
        /\ retention' = [pc |-> retention'.pc, dry |-> retention'.dry, limit |-> retention'.limit,
                         remaining |-> retention'.remaining, table |-> retention'.table, batch |-> retention'.batch,
                         counted |-> retention'.counted, before |-> retention'.before, calm |-> retention'.calm]
    BY <2>1, <2>2 DEF IsRun
  <2>4. IsRun' BY <2>1, <2>3 DEF IsRun
  <2>5. BatchIsDue'
    <3> SUFFICES ASSUME retention.pc = "delete" PROVE BatchIsDue' BY <2>3 DEF BatchIsDue
    <3>1. retention.batch \subseteq DOMAIN transcripts /\ \A r \in retention.batch : Expired(transcripts, r)
      BY <2>1 DEF BatchIsDue
    <3>2. (\A r \in retention.batch : Expired(transcripts, r))' BY <1>1, <2>3, <3>1 DEF Expired
    <3> QED BY <1>1, <2>1, <2>3, <3>1, <3>2 DEF BatchIsDue
  <2> QED BY <1>2, <2>1, <2>3, <2>4, <2>5 DEF RetInv
<1> QED BY <1>3, <1>4

LEMMA RetNextInv == RetInv /\ [RetentionNext]_retentionVars => RetInv'
<1> SUFFICES ASSUME RetInv, [RetentionNext]_retentionVars PROVE RetInv' OBVIOUS
<1>1. ASSUME NEW limit \in Limits, NEW dry \in BOOLEAN, StartRetention(limit, dry) PROVE RetInv'
  BY <1>1, StartStep
<1>2. CASE CountTable BY <1>2, CountStep
<1>3. CASE SkipTable BY <1>3, SkipStep
<1>4. CASE SelectBatch BY <1>4, SelectStep
<1>5. CASE DeleteBatch BY <1>5, DeleteStep, FailStep DEF DeleteBatch
<1>6. CASE ReportRetention \/ KillRetention BY <1>6, EndStep
<1>7. ASSUME NEW x \in DOMAIN LateParts, LatePart(x) PROVE RetInv'
  BY <1>7, ArriveStep
<1>8. CASE UNCHANGED retentionVars
  <2>1. transcripts' = transcripts /\ retention' = retention BY <1>8 DEF retentionVars
  <2>2. Known(transcripts)' /\ IsRun' = IsRun /\ BatchIsDue' = BatchIsDue /\ Progress' = Progress
    BY <2>1 DEF RetInv, Known, IsRun, BatchIsDue, Progress, Gone, Below, Eligible, Table, Expired, Referring
  <2> QED BY <2>1, <2>2 DEF RetInv, NoRetention
<1>9. CASE \E limit \in Limits, dry \in BOOLEAN : StartRetention(limit, dry) BY <1>1, <1>9
<1>10. CASE \E x \in DOMAIN LateParts : LatePart(x) BY <1>7, <1>10
<1>11. RetentionNext \/ UNCHANGED retentionVars OBVIOUS
<1> QED BY <1>2, <1>3, <1>4, <1>5, <1>6, <1>8, <1>9, <1>10, <1>11 DEF RetentionNext

LEMMA RetInitInv == RetentionInit => RetInv
<1> SUFFICES ASSUME RetentionInit PROVE RetInv OBVIOUS
<1>1. transcripts \in TranscriptTables /\ retention = NoRetention BY DEF RetentionInit, TranscriptTables
<1> QED BY <1>1 DEF RetInv, Known

\* A limit that does not exceed what there is is what may be taken.
LEMMA UsedUp ==
    ASSUME NEW n \in Nat, NEW limit \in Nat, limit <= n
    PROVE  Within(n, limit) = limit
<1>1. limit # None BY RetentionAssumption
<1> QED BY <1>1 DEF Within, Least

LEMMA RetentionExact == RetInv => UndisturbedRetentionIsExact
<1> SUFFICES ASSUME RetInv, retention.pc \in {"done", "failed"}, retention.calm
             PROVE  /\ retention.pc = "done"
                    /\ retention.dry => /\ Gone = {}
                                        /\ retention.counted
                                             <= Within(Cardinality(Doomed(retention.before)), retention.limit)
                    /\ ~ retention.dry => /\ Gone \subseteq Doomed(retention.before)
                                          /\ Cardinality(Gone)
                                               = Within(Cardinality(Doomed(retention.before)), retention.limit)
  BY DEF UndisturbedRetentionIsExact, Gone
<1> DEFINE D == Doomed(retention.before)
<1>1. IsRun /\ Progress /\ retention.pc = "done" /\ retention.table = 4
  BY DEF RetInv, NoRetention, Progress
<1>2. /\ IsFiniteSet(D) /\ IsFiniteSet(Gone) /\ IsFiniteSet(Below(4)) /\ Below(4) \subseteq D
      /\ Cardinality(D) \in Nat /\ Cardinality(Gone) \in Nat /\ Cardinality(Below(4)) \in Nat
      /\ Cardinality(Below(4)) <= Cardinality(D)
  BY <1>1, Sets, FS_Subset, FS_CardinalityType
<1>3. Below(4) = D
  <2>1. \A r \in D : Level(retention.before[r]) < 4 BY DEF Level
  <2> QED BY <2>1 DEF Below
<1>4. retention.limit = None \/ retention.limit \in Nat BY <1>1 DEF IsRun
<1>5. ASSUME retention.dry PROVE Gone = {} /\ retention.counted <= Within(Cardinality(D), retention.limit)
  <2>1. /\ Gone = {} /\ retention.counted <= Cardinality(D) /\ retention.counted \in Nat
        /\ retention.limit # None => retention.remaining = retention.limit - retention.counted
    BY <1>1, <1>3, <1>5 DEF Progress, IsRun
  <2>2. retention.limit # None => retention.remaining \in Nat BY <1>1 DEF IsRun
  <2>3. retention.limit # None => retention.counted <= retention.limit BY <1>4, <2>1, <2>2
  <2> HIDE DEF D
  <2> QED BY <2>1, <2>3 DEF Within, Least
<1>6. ASSUME ~ retention.dry
      PROVE  Gone \subseteq D /\ Cardinality(Gone) = Within(Cardinality(D), retention.limit)
  <2>1. /\ Gone \subseteq D
        /\ retention.limit # None => retention.remaining = retention.limit - Cardinality(Gone)
        /\ retention.remaining = None \/ retention.remaining > 0 => D \subseteq Gone
    BY <1>1, <1>3, <1>6 DEF Progress
  <2>2. /\ retention.limit # None => retention.remaining \in Nat
        /\ retention.limit = None => retention.remaining = None
    BY <1>1 DEF IsRun
  <2>3. Cardinality(Gone) <= Cardinality(D) BY <1>2, <2>1, FS_Subset
  <2>4. D \subseteq Gone => Gone = D BY <2>1
  <2> HIDE DEF D
  <2>5. CASE retention.limit = None BY <2>1, <2>2, <2>4, <2>5 DEF Within
  <2>6. CASE retention.limit # None /\ retention.remaining > 0
    <3>1. Gone = D /\ Cardinality(D) < retention.limit BY <1>2, <1>4, <2>1, <2>2, <2>4, <2>6
    <3> QED BY <2>6, <3>1 DEF Within, Least
  <2>7. CASE retention.limit # None /\ ~ (retention.remaining > 0)
    <3>1. Cardinality(Gone) = retention.limit BY <1>2, <1>4, <2>1, <2>2, <2>7
    <3>2. retention.limit \in Nat /\ retention.limit <= Cardinality(D) BY <1>4, <2>3, <2>7, <3>1
    <3> QED BY <1>2, <2>1, <3>1, <3>2, UsedUp
  <2> QED BY <2>1, <2>5, <2>6, <2>7
<1> QED BY <1>1, <1>5, <1>6

(* Retention deletes no row that is younger than its window, whatever part *)
(* arrives between the selection and the DELETE; and a run that ingest     *)
(* leaves alone ends without a foreign-key error and has deleted exactly   *)
(* the rows that are too old with everything that refers to them, or as    *)
(* many of them as --limit allows (run_retention, children first).         *)
THEOREM RetentionKeepsItsPromise == RetentionSpec => RetentionIsExact
<1>1. RetInv' => UndisturbedRetentionIsExact' BY RetentionExact, PTL
<1>2. RetInv /\ [RetentionNext]_retentionVars => [RecentTranscriptsStay]_retentionVars
  <2> SUFFICES ASSUME RetInv, RetentionNext PROVE RecentTranscriptsStay OBVIOUS
  <2>1. CASE DeleteBatch
    <3>1. retention.pc = "delete" /\ IsRun /\ BatchIsDue BY <2>1 DEF DeleteBatch, InTable, RetInv, NoRetention
    <3>2. DOMAIN transcripts \ DOMAIN transcripts' \subseteq retention.batch
      BY <2>1 DEF DeleteBatch, Without
    <3> QED BY <3>1, <3>2 DEF RecentTranscriptsStay, BatchIsDue
  <2>2. CASE ~ DeleteBatch
    <3>1. DOMAIN transcripts \subseteq DOMAIN transcripts'
      <4>1. ASSUME NEW limit \in Limits, NEW dry \in BOOLEAN, StartRetention(limit, dry)
            PROVE  transcripts' = transcripts
        BY <4>1 DEF StartRetention
      <4>2. CountTable \/ SkipTable \/ SelectBatch \/ ReportRetention \/ KillRetention
            => transcripts' = transcripts
        BY DEF CountTable, SkipTable, SelectBatch, ReportRetention, KillRetention
      <4>3. ASSUME NEW x \in DOMAIN LateParts, LatePart(x) PROVE DOMAIN transcripts \subseteq DOMAIN transcripts'
        BY <4>3 DEF LatePart
      <4>4. CASE \E limit \in Limits, dry \in BOOLEAN : StartRetention(limit, dry) BY <4>1, <4>4
      <4>5. CASE CountTable \/ SkipTable \/ SelectBatch \/ ReportRetention \/ KillRetention BY <4>2, <4>5
      <4>6. CASE \E x \in DOMAIN LateParts : LatePart(x) BY <4>3, <4>6
      <4> QED BY <2>2, <4>4, <4>5, <4>6, ZenonT(40) DEF RetentionNext
    <3> QED BY <3>1 DEF RecentTranscriptsStay
  <2> QED BY <2>1, <2>2
<1>3. /\ RetInv /\ RetInv' /\ [RetentionNext]_retentionVars
      => [UndisturbedRetentionIsExact' /\ RecentTranscriptsStay]_retentionVars
  BY <1>1, <1>2
<1> QED BY <1>3, RetInitInv, RetNextInv, PTL DEF RetentionSpec, RetentionIsExact
=============================================================================
