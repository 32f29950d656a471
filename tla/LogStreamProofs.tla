--------------------------- MODULE LogStreamProofs ---------------------------
(***************************************************************************)
(* Proofs about what goes between the panel and its workers: their lines   *)
(* on the way to a reader (LogStream), what the panel tells them to serve  *)
(* (Fleet), and the statistics it asks them for (NodeTraffic and           *)
(* SidecarTraffic).                                                        *)
(*                                                                         *)
(* LogStream, for any readers, any number of lines and any capacities:     *)
(* first what the operators on sequences do, then where each line is, and  *)
(* from that what a reader is shown and that the pipeline implements       *)
(* LossyLog.                                                               *)
(*                                                                         *)
(* Fleet: a worker of an enabled node serves something else than the panel *)
(* wants only while a call or a push is on its way, or for a reason on     *)
(* record (BehindForAReason).  This is not inductive: it says nothing of a *)
(* disabled node, nor of what a call on its way tells.  FleetInv adds that *)
(* a call tells what the panel wants but for the things changed since it   *)
(* was made (CallsAreCurrent), and accounts for the disabled nodes too:    *)
(* what they miss comes with the push that follows when they are enabled   *)
(* (AllAccounted).  Each edit of an inbound i is then proved in the same   *)
(* way: for the other inbounds nothing has changed (Carried), for i and    *)
(* for the rule the edit makes a call, asks for a push, or leaves a debt.  *)
(*                                                                         *)
(* NodeTraffic and SidecarTraffic: what the panel asks of the cores and of *)
(* the Telemt processes is booked once.  Both properties are equations     *)
(* over sums; the lemmas on sums come first.  Booked says of every byte    *)
(* where it is - in a core, in the run that has asked for it, or in the    *)
(* database - and that what a transaction read still stands when it        *)
(* writes.  AccountedFor gives each question its share of what was not     *)
(* charged yet, for as long as no two questions overlap.                   *)
(***************************************************************************)
EXTENDS LogStream, FiniteSetTheorems, SequenceTheorems, TLAPS

---------------------------------------------------------------------------
(* Positions of a sequence, in order.                                      *)

Rank(K, i) == Cardinality({j \in K : j <= i})

\* The ranks of a set of positions are the numbers up to its size, each once.
LEMMA Ranks ==
  ASSUME NEW n \in Nat, NEW K \in SUBSET (1 .. n)
  PROVE  /\ IsFiniteSet(K) /\ Cardinality(K) \in Nat
         /\ \A i \in K : Rank(K, i) \in 1 .. Cardinality(K)
         /\ \A i, j \in K : i < j => Rank(K, i) < Rank(K, j)
         /\ \A k \in 1 .. Cardinality(K) : \E i \in K : Rank(K, i) = k
<1>1. IsFiniteSet(K) /\ Cardinality(K) \in Nat
  <2>1. IsFiniteSet(1 .. n)
    BY FS_Interval
  <2>2. IsFiniteSet(K)
    BY <2>1, FS_Subset
  <2>3. QED
    BY <2>2, FS_CardinalityType
<1>2. ASSUME NEW i \in K
      PROVE  /\ IsFiniteSet({j \in K : j <= i}) /\ Rank(K, i) \in Nat
             /\ Rank(K, i) <= Cardinality(K)
  BY <1>1, FS_Subset, FS_CardinalityType DEF Rank
<1>3. ASSUME NEW i \in K PROVE Rank(K, i) \in 1 .. Cardinality(K)
  <2>1. i \in {j \in K : j <= i}
    OBVIOUS
  <2>2. Rank(K, i) # 0
    <3>1. {j \in K : j <= i} # {} /\ IsFiniteSet({j \in K : j <= i})
      BY <1>2, <2>1
    <3>2. QED
      BY <3>1, FS_EmptySet DEF Rank
  <2>3. Rank(K, i) \in Nat /\ Rank(K, i) <= Cardinality(K)
    BY <1>2
  <2>4. QED
    BY <1>1, <2>2, <2>3
<1>4. ASSUME NEW i \in K, NEW j \in K, i < j PROVE Rank(K, i) < Rank(K, j)
  <2> DEFINE I == {k \in K : k <= i}
             J == {k \in K : k <= j}
  <2>1. I \in SUBSET J /\ j \in J /\ j \notin I
    <3>1. i \in Nat /\ j \in Nat /\ \A k \in K : k \in Nat
      OBVIOUS
    <3>2. \A k \in K : k <= i => k <= j
      BY <1>4, <3>1
    <3>3. j <= j /\ ~(j <= i)
      BY <1>4, <3>1
    <3>4. QED
      BY <3>2, <3>3
  <2>2. IsFiniteSet(J)
    BY <1>2
  <2>3. I # J /\ Cardinality(I) <= Cardinality(J) /\ (Cardinality(J) = Cardinality(I) => J = I)
    BY <2>1, <2>2, FS_Subset
  <2>4. Cardinality(I) \in Nat /\ Cardinality(J) \in Nat
    BY <1>2 DEF Rank
  <2>5. QED
    BY <2>3, <2>4 DEF Rank
<1>5. ASSUME NEW k \in 1 .. Cardinality(K) PROVE \E i \in K : Rank(K, i) = k
  <2> DEFINE T == 1 .. Cardinality(K)
             f == [i \in K |-> Rank(K, i)]
  <2>1. f \in [K -> T]
    BY <1>3
  <2>2. ASSUME NEW i \in K, NEW j \in K, f[i] = f[j] PROVE i = j
    <3>1. ~(i < j) /\ ~(j < i)
      <4>1. Rank(K, i) = Rank(K, j) /\ Rank(K, i) \in Nat
        BY <1>2, <2>2
      <4>2. QED
        BY <1>4, <4>1
    <3>2. QED
      BY <3>1
  <2>3. f \in Injection(K, T)
    BY <2>1, <2>2 DEF Injection, IsInjective
  <2>4. IsFiniteSet(T) /\ Cardinality(T) = Cardinality(K)
    <3>1. /\ IsFiniteSet(1 .. Cardinality(K))
          /\ Cardinality(1 .. Cardinality(K)) = IF 1 > Cardinality(K) THEN 0
                                                ELSE Cardinality(K) - 1 + 1
      BY <1>1, FS_Interval
    <3>2. QED
      BY <1>1, <3>1
  <2>5. f \in Surjection(K, T)
    BY <2>3, <2>4, FS_Injection
  <2>6. QED
    BY <2>5 DEF Surjection
<1>6. QED
  BY <1>1, <1>3, <1>4, <1>5

LEMMA NthElement ==
  ASSUME NEW n \in Nat, NEW K \in SUBSET (1 .. n)
  PROVE  /\ Cardinality(K) \in Nat
         /\ \A k \in 1 .. Cardinality(K) : Nth(K, k) \in K
         /\ \A k, l \in 1 .. Cardinality(K) : k < l => Nth(K, k) < Nth(K, l)
         /\ \A i \in K : \E k \in 1 .. Cardinality(K) : Nth(K, k) = i
<1>1. Cardinality(K) \in Nat /\ \A i \in K : i \in Nat
  <2>1. Cardinality(K) \in Nat
    BY Ranks
  <2>2. QED
    BY <2>1
<1>2. ASSUME NEW k \in 1 .. Cardinality(K) PROVE Nth(K, k) \in K /\ Rank(K, Nth(K, k)) = k
  <2>1. \E i \in K : Rank(K, i) = k
    BY Ranks
  <2>2. QED
    BY <2>1 DEF Nth, Rank
<1>3. ASSUME NEW k \in 1 .. Cardinality(K), NEW l \in 1 .. Cardinality(K), k < l
      PROVE  Nth(K, k) < Nth(K, l)
  <2>1. Nth(K, k) # Nth(K, l) /\ ~(Nth(K, l) < Nth(K, k))
    <3>1. ~(Nth(K, l) < Nth(K, k))
      <4>1. Nth(K, l) < Nth(K, k) => Rank(K, Nth(K, l)) < Rank(K, Nth(K, k))
        BY <1>2, Ranks
      <4>2. QED
        BY <1>2, <1>3, <4>1
    <3>2. QED
      BY <1>2, <1>3, <3>1
  <2>2. Nth(K, k) \in Nat /\ Nth(K, l) \in Nat
    <3>1. Nth(K, k) \in K /\ Nth(K, l) \in K
      BY <1>2
    <3>2. QED
      BY <1>1, <3>1
  <2>3. QED
    BY <2>1, <2>2
<1>4. ASSUME NEW i \in K PROVE \E k \in 1 .. Cardinality(K) : Nth(K, k) = i
  <2>1. Rank(K, i) \in 1 .. Cardinality(K)
    BY Ranks
  <2>2. PICK m \in K : m = Nth(K, Rank(K, i)) /\ Rank(K, m) = Rank(K, i)
    BY <1>2, <2>1
  <2>3. ~(m < i) /\ ~(i < m)
    <3>1. (m < i => Rank(K, m) < Rank(K, i)) /\ (i < m => Rank(K, i) < Rank(K, m))
      BY Ranks
    <3>2. QED
      BY <2>1, <2>2, <3>1
  <2>4. m = i
    BY <2>3
  <2>5. QED
    BY <2>1, <2>2, <2>4
<1>5. QED
  BY <1>1, <1>2, <1>3, <1>4

---------------------------------------------------------------------------
(* Lines in a sequence, and their order.                                   *)

\* What the filter of a reader leaves: the lines that pass, in their order.
LEMMA Filtering ==
  ASSUME NEW S, NEW s \in Seq(S), NEW r
  PROVE  /\ Filtered(r, s) \in Seq(S)
         /\ ToSet(Filtered(r, s)) = {e \in ToSet(s) : Passes(r, e)}
         /\ Sorted(s) => Sorted(Filtered(r, s))
<1> DEFINE K == Kept(r, s)
           f == Filtered(r, s)
<1>1. Len(s) \in Nat /\ DOMAIN s = 1 .. Len(s) /\ K \in SUBSET (1 .. Len(s))
  BY DEF Kept
<1>2. /\ Cardinality(K) \in Nat
      /\ \A k \in 1 .. Cardinality(K) : Nth(K, k) \in K
      /\ \A k, l \in 1 .. Cardinality(K) : k < l => Nth(K, k) < Nth(K, l)
      /\ \A i \in K : \E k \in 1 .. Cardinality(K) : Nth(K, k) = i
  BY <1>1, NthElement
<1>3. f = [k \in 1 .. Cardinality(K) |-> s[Nth(K, k)]]
  BY DEF Filtered
<1>4. \A i \in K : i \in 1 .. Len(s) /\ s[i] \in S /\ Passes(r, s[i])
  BY <1>1 DEF Kept
<1>5. \A i \in 1 .. Len(s) : Passes(r, s[i]) => i \in K
  BY <1>1 DEF Kept
<1> HIDE DEF K, f
<1>6. f \in Seq(S) /\ DOMAIN f = 1 .. Cardinality(K)
  BY <1>2, <1>3, <1>4
<1>7. ASSUME NEW e \in ToSet(f) PROVE e \in ToSet(s) /\ Passes(r, e)
  <2>1. PICK k \in 1 .. Cardinality(K) : e = s[Nth(K, k)]
    BY <1>3, <1>6, <1>7 DEF ToSet
  <2>2. QED
    BY <1>1, <1>2, <1>4, <2>1 DEF ToSet
<1>8. ASSUME NEW e \in ToSet(s), Passes(r, e) PROVE e \in ToSet(f)
  <2>1. PICK i \in K : e = s[i]
    BY <1>1, <1>5, <1>8 DEF ToSet
  <2>2. PICK k \in 1 .. Cardinality(K) : Nth(K, k) = i
    BY <1>2
  <2>3. QED
    BY <1>3, <1>6, <2>1, <2>2 DEF ToSet
<1>9. ASSUME Sorted(s) PROVE Sorted(f)
  <2>1. ASSUME NEW k \in 1 .. Cardinality(K), NEW l \in 1 .. Cardinality(K), k < l
        PROVE  Follows(f[k], f[l])
    <3>1. Nth(K, k) \in DOMAIN s /\ Nth(K, l) \in DOMAIN s /\ Nth(K, k) < Nth(K, l)
      BY <1>1, <1>2, <1>4, <2>1
    <3>2. QED
      BY <1>3, <1>9, <3>1 DEF Sorted
  <2>2. QED
    BY <1>6, <2>1 DEF Sorted
<1>10. ToSet(f) = {e \in ToSet(s) : Passes(r, e)}
  BY <1>7, <1>8
<1>11. QED
  BY <1>6, <1>9, <1>10 DEF f

LEMMA EmptyLines ==
  ToSet(<<>>) = {} /\ Sorted(<<>>)
  BY DEF ToSet, Sorted

LEMMA LinesOf ==
  ASSUME NEW S, NEW s \in Seq(S)
  PROVE  ToSet(s) \subseteq S /\ DOMAIN s = 1 .. Len(s) /\ Len(s) \in Nat
         /\ (ToSet(s) = {} => s = <<>>)
<1>1. DOMAIN s = 1 .. Len(s) /\ Len(s) \in Nat /\ \A i \in 1 .. Len(s) : s[i] \in S
  OBVIOUS
<1>2. ToSet(s) = {} => s = <<>>
  <2>1. SUFFICES ASSUME ToSet(s) = {} PROVE Len(s) = 0
    OBVIOUS
  <2>2. 1 \notin DOMAIN s
    BY <2>1 DEF ToSet
  <2>3. QED
    BY <1>1, <2>2
<1>3. QED
  BY <1>1, <1>2 DEF ToSet

LEMMA AppendLine ==
  ASSUME NEW S, NEW s \in Seq(S), NEW e \in S
  PROVE  /\ Append(s, e) \in Seq(S) /\ Len(Append(s, e)) = Len(s) + 1
         /\ ToSet(Append(s, e)) = ToSet(s) \cup {e}
         /\ Sorted(s) /\ Ahead(ToSet(s), {e}) => Sorted(Append(s, e))
<1> DEFINE t == Append(s, e)
<1>1. /\ t \in Seq(S) /\ Len(t) = Len(s) + 1 /\ Len(s) \in Nat /\ DOMAIN t = 1 .. Len(s) + 1
      /\ DOMAIN s = 1 .. Len(s)
  OBVIOUS
<1>2. t[Len(s) + 1] = e /\ \A i \in 1 .. Len(s) : t[i] = s[i]
  OBVIOUS
<1>3. \A i \in DOMAIN t : i \in DOMAIN s \/ i = Len(s) + 1
  BY <1>1
<1>4. Len(s) + 1 \in DOMAIN t /\ \A i \in DOMAIN s : i \in DOMAIN t /\ i < Len(s) + 1
  BY <1>1
<1> HIDE DEF t
<1>5. ToSet(t) = ToSet(s) \cup {e}
  <2>1. \A x \in ToSet(t) : x \in ToSet(s) \cup {e}
    BY <1>1, <1>2, <1>3 DEF ToSet
  <2>2. \A x \in ToSet(s) \cup {e} : x \in ToSet(t)
    BY <1>1, <1>2, <1>4 DEF ToSet
  <2>3. QED
    BY <2>1, <2>2
<1>6. ASSUME Sorted(s), Ahead(ToSet(s), {e}) PROVE Sorted(t)
  <2>1. ASSUME NEW i \in DOMAIN t, NEW j \in DOMAIN t, i < j PROVE Follows(t[i], t[j])
    <3>1. i \in DOMAIN s
      BY <1>1, <1>3, <2>1
    <3>2. CASE j \in DOMAIN s
      BY <1>1, <1>2, <1>6, <2>1, <3>1, <3>2 DEF Sorted
    <3>3. CASE j = Len(s) + 1
      <4>1. t[i] \in ToSet(s) /\ t[j] = e
        BY <1>1, <1>2, <3>1, <3>3 DEF ToSet
      <4>2. QED
        BY <1>6, <4>1 DEF Ahead
    <3>4. QED
      BY <1>3, <3>2, <3>3
  <2>2. QED
    BY <2>1 DEF Sorted
<1>7. QED
  BY <1>1, <1>5, <1>6 DEF t

\* The same for a line put behind others.
LEMMA AppendEntry ==
  ASSUME NEW s \in Seq(Entry), NEW e \in Entry
  PROVE  /\ Append(s, e) \in Seq(Entry)
         /\ ToSet(Append(s, e)) = ToSet(s) \cup {e}
         /\ Sorted(s) /\ Ahead(ToSet(s), {e}) => Sorted(Append(s, e))
BY AppendLine

LEMMA TailLine ==
  ASSUME NEW S, NEW s \in Seq(S), s # <<>>
  PROVE  /\ Tail(s) \in Seq(S) /\ Len(Tail(s)) = Len(s) - 1 /\ Len(s) \in Nat \ {0}
         /\ Head(s) \in S /\ Head(s) = s[1] /\ Head(s) \in ToSet(s)
         /\ ToSet(s) = {Head(s)} \cup ToSet(Tail(s))
         /\ \A i \in 1 .. Len(s) - 1 : Tail(s)[i] = s[i + 1] /\ i + 1 \in 1 .. Len(s)
         /\ Sorted(s) => Sorted(Tail(s)) /\ Ahead({Head(s)}, ToSet(Tail(s)))
<1> DEFINE t == Tail(s)
           h == Head(s)
<1>1. /\ t \in Seq(S) /\ Len(t) = Len(s) - 1 /\ Len(s) \in Nat \ {0} /\ h \in S /\ h = s[1]
      /\ DOMAIN t = 1 .. Len(s) - 1 /\ DOMAIN s = 1 .. Len(s)
  OBVIOUS
<1>2. \A i \in 1 .. Len(s) - 1 : t[i] = s[i + 1]
  OBVIOUS
<1>3. \A i \in 1 .. Len(s) - 1 : i + 1 \in 1 .. Len(s) /\ 1 < i + 1
  BY <1>1
<1>4. \A i \in 1 .. Len(s) : i = 1 \/ (i - 1 \in 1 .. Len(s) - 1 /\ (i - 1) + 1 = i)
  BY <1>1
<1>5. 1 \in 1 .. Len(s)
  BY <1>1
<1> HIDE DEF t, h
<1>6. ToSet(s) = {h} \cup ToSet(t)
  <2>1. ASSUME NEW x \in ToSet(s) PROVE x \in {h} \cup ToSet(t)
    <3>1. PICK i \in 1 .. Len(s) : x = s[i]
      BY <1>1, <2>1 DEF ToSet
    <3>2. CASE i = 1
      BY <1>1, <3>1, <3>2
    <3>3. CASE i - 1 \in 1 .. Len(s) - 1 /\ (i - 1) + 1 = i
      <4>1. t[i - 1] = x
        BY <1>2, <3>1, <3>3
      <4>2. QED
        BY <1>1, <3>3, <4>1 DEF ToSet
    <3>4. QED
      BY <1>4, <3>2, <3>3
  <2>2. \A x \in {h} \cup ToSet(t) : x \in ToSet(s)
    BY <1>1, <1>2, <1>3, <1>5 DEF ToSet
  <2>3. QED
    BY <2>1, <2>2
<1>7. ASSUME Sorted(s) PROVE Sorted(t) /\ Ahead({h}, ToSet(t))
  <2>1. ASSUME NEW i \in DOMAIN t, NEW j \in DOMAIN t, i < j PROVE Follows(t[i], t[j])
    <3>1. i + 1 \in DOMAIN s /\ j + 1 \in DOMAIN s /\ i + 1 < j + 1
      BY <1>1, <1>3, <2>1
    <3>2. QED
      BY <1>1, <1>2, <1>7, <2>1, <3>1 DEF Sorted
  <2>2. ASSUME NEW x \in ToSet(t) PROVE Follows(h, x)
    <3>1. PICK i \in 1 .. Len(s) - 1 : x = s[i + 1]
      BY <1>1, <1>2, <2>2 DEF ToSet
    <3>2. QED
      BY <1>1, <1>3, <1>5, <1>7, <3>1 DEF Sorted
  <2>3. QED
    BY <2>1, <2>2 DEF Sorted, Ahead
<1>8. QED
  BY <1>1, <1>2, <1>3, <1>6, <1>7 DEF t, h

LEMMA ConcatLines ==
  ASSUME NEW S, NEW s \in Seq(S), NEW t \in Seq(S)
  PROVE  /\ s \o t \in Seq(S) /\ ToSet(s \o t) = ToSet(s) \cup ToSet(t)
         /\ IsPrefix(s, s \o t)
         /\ Sorted(s) /\ Sorted(t) /\ Ahead(ToSet(s), ToSet(t)) => Sorted(s \o t)
<1> DEFINE u == s \o t
<1>1. /\ u \in Seq(S) /\ Len(u) = Len(s) + Len(t) /\ Len(s) \in Nat /\ Len(t) \in Nat
      /\ DOMAIN u = 1 .. Len(s) + Len(t) /\ DOMAIN s = 1 .. Len(s) /\ DOMAIN t = 1 .. Len(t)
  OBVIOUS
<1>2. /\ \A i \in 1 .. Len(s) : u[i] = s[i]
      /\ \A i \in 1 .. Len(t) : u[Len(s) + i] = t[i]
  OBVIOUS
<1>3. IsPrefix(s, u)
  BY DEF IsPrefix
<1>4. \A i \in DOMAIN u : \/ i \in DOMAIN s
                          \/ i - Len(s) \in DOMAIN t /\ Len(s) + (i - Len(s)) = i /\ i > Len(s)
  BY <1>1
<1>5. /\ \A i \in DOMAIN s : i \in DOMAIN u
      /\ \A i \in DOMAIN t : Len(s) + i \in DOMAIN u
  BY <1>1
<1> HIDE DEF u
<1>6. ToSet(u) = ToSet(s) \cup ToSet(t)
  <2>1. \A x \in ToSet(u) : x \in ToSet(s) \cup ToSet(t)
    BY <1>1, <1>2, <1>4 DEF ToSet
  <2>2. \A x \in ToSet(s) \cup ToSet(t) : x \in ToSet(u)
    BY <1>1, <1>2, <1>5 DEF ToSet
  <2>3. QED
    BY <2>1, <2>2
<1>7. ASSUME Sorted(s), Sorted(t), Ahead(ToSet(s), ToSet(t)) PROVE Sorted(u)
  <2>1. ASSUME NEW i \in DOMAIN u, NEW j \in DOMAIN u, i < j PROVE Follows(u[i], u[j])
    <3>1. CASE i \in DOMAIN s /\ j \in DOMAIN s
      BY <1>1, <1>2, <1>7, <2>1, <3>1 DEF Sorted
    <3>2. CASE i \in DOMAIN s /\ j - Len(s) \in DOMAIN t /\ Len(s) + (j - Len(s)) = j
      <4>1. u[i] \in ToSet(s) /\ u[j] \in ToSet(t)
        BY <1>1, <1>2, <3>2 DEF ToSet
      <4>2. QED
        BY <1>7, <4>1 DEF Ahead
    <3>3. CASE i \notin DOMAIN s
      <4>1. /\ i - Len(s) \in DOMAIN t /\ Len(s) + (i - Len(s)) = i
            /\ j - Len(s) \in DOMAIN t /\ Len(s) + (j - Len(s)) = j
            /\ i - Len(s) < j - Len(s)
        BY <1>1, <1>4, <2>1, <3>3
      <4>2. u[i] = t[i - Len(s)] /\ u[j] = t[j - Len(s)]
        BY <1>1, <1>2, <4>1
      <4>3. QED
        BY <1>7, <4>1, <4>2 DEF Sorted
    <3>4. QED
      BY <1>4, <3>1, <3>2, <3>3
  <2>2. QED
    BY <2>1 DEF Sorted
<1>8. QED
  BY <1>1, <1>3, <1>6, <1>7 DEF u

LEMMA EntryFields ==
  ASSUME LogAssumption, NEW e \in Entry
  PROVE  e.from \in Sources /\ e.n \in Nat
<1>1. MaxLines["panel"] \in Nat /\ MaxLines["node"] \in Nat
  BY DEF LogAssumption, Sources
<1>2. QED
  BY <1>1 DEF Entry

\* A sorted sequence is one LossyLog allows a reader to be shown.
LEMMA SortedIsShown ==
  ASSUME LogAssumption, NEW s \in Seq(Entry), Sorted(s)
  PROVE  Log!NoRepetition(s) /\ Log!PanelInOrder(s)
<1>1. DOMAIN s = 1 .. Len(s) /\ \A i \in DOMAIN s : s[i].n \in Nat
  BY EntryFields
<1>2. Log!NoRepetition(s)
  <2>1. SUFFICES ASSUME NEW i \in DOMAIN s, NEW j \in DOMAIN s, s[i] = s[j], i # j PROVE FALSE
    BY DEF Log!NoRepetition
  <2>2. i < j \/ j < i
    BY <1>1, <2>1
  <2>3. QED
    BY <2>1, <2>2 DEF Sorted, Follows
<1>3. Log!PanelInOrder(s)
  <2>1. SUFFICES ASSUME NEW i \in DOMAIN s, NEW j \in DOMAIN s, s[i].from = "panel",
                        s[j].from = "panel", s[i].n < s[j].n
                 PROVE  i < j
    BY DEF Log!PanelInOrder
  <2>2. CASE j < i
    <3>1. s[j].n < s[i].n
      BY <2>1, <2>2 DEF Sorted, Follows
    <3>2. QED
      BY <1>1, <2>1, <3>1
  <2>3. i # j
    BY <1>1, <2>1
  <2>4. QED
    BY <1>1, <2>2, <2>3
<1>4. QED
  BY <1>2, <1>3

\* Emit with one line: it is appended, or dropped.
LEMMA OfferOne ==
  ASSUME LogAssumption, NEW q \in Seq(Entry), Len(q) <= InCap, NEW e \in Entry
  PROVE  Offered(q, <<e>>) = IF Len(q) < InCap THEN Append(q, e) ELSE q
<1>1. Len(q) \in Nat /\ InCap \in Nat
  BY DEF LogAssumption
<1>2. CASE Len(q) < InCap
  <2>1. 1 \in {1, InCap - Len(q)} /\ \A y \in {1, InCap - Len(q)} : 1 <= y
    BY <1>1, <1>2
  <2>2. Min({1, InCap - Len(q)}) = 1
    BY <1>1, <2>1 DEF Min
  <2>3. SubSeq(<<e>>, 1, 1) = <<e>> /\ Len(<<e>>) = 1
    <3>1. <<e>> \in Seq(Entry) /\ Len(<<e>>) = 1
      OBVIOUS
    <3>2. QED
      BY <3>1, SubSeqFull
  <2>4. QED
    BY <1>2, <2>2, <2>3 DEF Offered
<1>3. CASE Len(q) = InCap
  <2>1. InCap - Len(q) = 0
    BY <1>1, <1>3
  <2>2. Min({1, 0}) = 0
    BY DEF Min
  <2>3. SubSeq(<<e>>, 1, 0) = <<>> /\ Len(<<e>>) = 1
    <3>1. <<e>> \in Seq(Entry) /\ Len(<<e>>) = 1
      OBVIOUS
    <3>2. QED
      BY <3>1, SubSeqEmpty
  <2>4. q \o <<>> = q
    OBVIOUS
  <2>5. Min({Len(<<e>>), InCap - Len(q)}) = 0
    BY <2>1, <2>2, <2>3
  <2>6. Offered(q, <<e>>) = q
    <3>1. Offered(q, <<e>>) = q \o SubSeq(<<e>>, 1, 0)
      BY <2>5 DEF Offered
    <3>2. QED
      BY <2>3, <2>4, <3>1
  <2>7. QED
    BY <1>1, <1>3, <2>6
<1>4. QED
  BY <1>1, <1>2, <1>3

---------------------------------------------------------------------------
(* Types, in groups that few actions touch.                                *)

WorkerTypes ==
  /\ enabled \in BOOLEAN /\ kicks \in Nat /\ crashes \in 0 .. MaxCrashes
  /\ buffer \in Seq(Entry) /\ flights \subseteq Seq(Entry) /\ serving \subseteq Seq(Entry)

CountTypes == count \in [Sources -> Nat] /\ \A s \in Sources : count[s] <= MaxLines[s]

HubTypes ==
  /\ in \in Seq(Entry) /\ Len(in) <= InCap
  /\ batch \in Seq(Entry) /\ Len(batch) < FullBatch
  /\ fan \in [lines : Seq(Entry), to : SUBSET Readers]

ReaderTypes ==
  /\ state \in [Readers -> {"new", "open", "closed"}]
  /\ chan \in [Readers -> Seq(Seq(Entry))] /\ \A r \in Readers : Len(chan[r]) <= ReaderCap
  /\ shown \in [Readers -> Seq(Entry)]
  /\ due \in [Readers -> SUBSET Entry] /\ slow \in [Readers -> SUBSET Entry]

LEMMA TypeParts ==
  TypeOK <=> WorkerTypes /\ CountTypes /\ HubTypes /\ ReaderTypes
  BY DEF TypeOK, WorkerTypes, CountTypes, HubTypes, ReaderTypes

LEMMA NextTypes ==
  ASSUME WorkerTypes', CountTypes', HubTypes', ReaderTypes'
  PROVE  TypeOK'
  BY DEF TypeOK, WorkerTypes, CountTypes, HubTypes, ReaderTypes

LEMMA Sizes ==
  ASSUME LogAssumption
  PROVE  /\ FullBuffer \in Nat \ {0} /\ FullBatch \in Nat \ {0} /\ InCap \in Nat \ {0}
         /\ ReaderCap \in Nat \ {0} /\ MaxCrashes \in Nat
         /\ \A s \in Sources : MaxLines[s] \in Nat
  BY DEF LogAssumption

LEMMA FanFields ==
  ASSUME HubTypes
  PROVE  fan.lines \in Seq(Entry) /\ fan.to \in SUBSET Readers
  BY DEF HubTypes

LEMMA NoFanFields ==
  NoFan \in [lines : Seq(Entry), to : SUBSET Readers] /\ NoFan.lines = <<>> /\ NoFan.to = {}
  BY DEF NoFan

\* A source's next line is a line, is not among those written, and follows them.
LEMMA NewLine ==
  ASSUME LogAssumption, CountTypes, NEW s \in Sources, count[s] < MaxLines[s], Counted(s)
  PROVE  /\ NextLine(s) \in Entry /\ NextLine(s).from = s /\ CountTypes'
         /\ NextLine(s) \notin Written /\ Ahead(Written, {NextLine(s)})
         /\ Written' = Written \cup {NextLine(s)}
<1>1. /\ count[s] \in Nat /\ MaxLines[s] \in Nat
      /\ MaxLines["panel"] \in Nat /\ MaxLines["node"] \in Nat /\ s \in {"panel", "node"}
  BY Sizes DEF CountTypes, Sources
<1>2. count[s] + 1 \in 1 .. (MaxLines["panel"] + MaxLines["node"])
  BY <1>1
<1>3. NextLine(s) \in Entry /\ NextLine(s).from = s /\ NextLine(s).n = count[s] + 1
  BY <1>2 DEF NextLine, Entry
<1>4. /\ count'[s] = count[s] + 1 /\ \A t \in Sources \ {s} : count'[t] = count[t]
      /\ count' \in [Sources -> Nat]
  BY <1>1 DEF Counted, CountTypes
<1>5. CountTypes'
  BY <1>1, <1>4 DEF CountTypes
<1>6. \A e : e \in Written <=> \E t \in Sources : \E k \in 1 .. count[t] : e = [from |-> t, n |-> k]
  BY DEF Written
<1>7. \A e : e \in Written' <=> \E t \in Sources : \E k \in 1 .. count'[t] : e = [from |-> t, n |-> k]
  BY DEF Written
<1>8. ASSUME NEW e \in Written PROVE Follows(e, NextLine(s))
  <2>0. PICK t \in Sources : \E k \in 1 .. count[t] : e = [from |-> t, n |-> k]
    BY <1>6, <1>8
  <2>1. PICK k \in 1 .. count[t] : e = [from |-> t, n |-> k]
    BY <2>0
  <2>2. e.from = t /\ e.n = k /\ k \in Nat /\ k <= count[t]
    BY <2>1 DEF CountTypes
  <2>3. t = s => k < count[s] + 1
    BY <1>1, <2>2
  <2>4. e # NextLine(s)
    BY <1>1, <1>3, <2>2, <2>3
  <2>5. QED
    BY <1>3, <2>2, <2>3, <2>4 DEF Follows
<1>9. NextLine(s) \notin Written
  BY <1>8 DEF Follows
<1>10. ASSUME NEW e \in Written' PROVE e \in Written \cup {NextLine(s)}
  <2>0. PICK t \in Sources : \E k \in 1 .. count'[t] : e = [from |-> t, n |-> k]
    BY <1>7, <1>10
  <2>1. PICK k \in 1 .. count'[t] : e = [from |-> t, n |-> k]
    BY <2>0
  <2>2. CASE k \in 1 .. count[t]
    BY <1>6, <2>1, <2>2
  <2>3. CASE t = s /\ k = count[s] + 1
    BY <2>1, <2>3 DEF NextLine
  <2>4. k \in 1 .. count[t] \/ (t = s /\ k = count[s] + 1)
    BY <1>1, <1>4, <2>1
  <2>5. QED
    BY <2>2, <2>3, <2>4
<1>11. ASSUME NEW e \in Written \cup {NextLine(s)} PROVE e \in Written'
  <2>1. CASE e = NextLine(s)
    <3>1. count[s] + 1 \in 1 .. count'[s]
      BY <1>1, <1>4
    <3>2. QED
      BY <1>7, <2>1, <3>1 DEF NextLine
  <2>2. CASE e \in Written
    <3>0. PICK t \in Sources : \E k \in 1 .. count[t] : e = [from |-> t, n |-> k]
      BY <1>6, <2>2
    <3>1. PICK k \in 1 .. count[t] : e = [from |-> t, n |-> k]
      BY <3>0
    <3>2. k \in 1 .. count'[t]
      BY <1>1, <1>4, <3>1
    <3>3. QED
      BY <1>7, <3>1, <3>2
  <2>3. QED
    BY <1>11, <2>1, <2>2
<1>12. QED
  BY <1>3, <1>5, <1>8, <1>9, <1>10, <1>11 DEF Ahead

LEMMA WrittenKept ==
  ASSUME UNCHANGED count
  PROVE  Written' = Written
  BY DEF Written

---------------------------------------------------------------------------
(* The worker and the way to the panel.                                    *)

\* Steps that leave the panel's side alone.
LEMMA PanelKept ==
  ASSUME TypeOK, HubInv, ReaderInv, OnlyTheSlowLose, UNCHANGED <<hub, reader>>
  PROVE  /\ HubTypes' /\ ReaderTypes' /\ HubInv' /\ ReaderInv' /\ OnlyTheSlowLose'
         /\ Arrived' = Arrived
<1>1. UNCHANGED <<in, batch, fan, state, chan, shown, due, slow>>
  BY DEF hub, reader
<1>2. HubTypes' /\ ReaderTypes'
  BY <1>1, TypeParts DEF HubTypes, ReaderTypes
<1>3. \A r : InChan(r)' = InChan(r) /\ Sent(r)' = Sent(r)
  BY <1>1 DEF InChan, Sent
<1>4. InHub' = InHub /\ Arrived' = Arrived
  BY <1>1 DEF InHub, Arrived, Sent, InChan
<1>5. HubInv'
  BY <1>1, <1>4 DEF HubInv
<1>6. ReaderInv'
  BY <1>1, <1>3, <1>4 DEF ReaderInv
<1>7. OnlyTheSlowLose'
  BY <1>1 DEF OnlyTheSlowLose, Open
<1>8. QED
  BY <1>2, <1>4, <1>5, <1>6, <1>7

\* Steps that bring no new line up to the panel.
LEMMA UpstreamKept ==
  ASSUME UpstreamInv, Posts' \subseteq Posts, flights' \cap serving' = {},
         buffer' \in {buffer, <<>>}, Arrived' \subseteq Arrived, Written \subseteq Written'
  PROVE  UpstreamInv'
<1>1. Sorted(buffer') /\ ToSet(buffer') \subseteq ToSet(buffer)
  BY EmptyLines DEF UpstreamInv
<1>2. Upstream' \subseteq Upstream
  BY <1>1 DEF Upstream
<1>3. \A f \in Posts' : f # <<>> /\ Sorted(f) /\ ToSet(f) \cap ToSet(buffer') = {}
  BY <1>1 DEF UpstreamInv
<1>4. \A f, g \in Posts' : f # g => ToSet(f) \cap ToSet(g) = {}
  BY DEF UpstreamInv
<1>5. Upstream' \cap Arrived' = {} /\ Upstream' \cup Arrived' \subseteq Written'
  BY <1>2 DEF UpstreamInv
<1>6. \A e \in Upstream' : e.from = "node"
  BY <1>2 DEF UpstreamInv
<1>7. QED
  BY <1>1, <1>3, <1>4, <1>5, <1>6 DEF UpstreamInv

LEMMA NodeWritesPipe ==
  ASSUME LogAssumption, PipeInv, NodeWrites
  PROVE  PipeInv'
<1> DEFINE e == NextLine("node")
<1>1. TypeOK /\ UpstreamInv /\ HubInv /\ ReaderInv /\ OnlyTheSlowLose
  BY DEF PipeInv
<1>2. /\ UNCHANGED <<enabled, crashes, flights, serving>> /\ UNCHANGED <<hub, reader>>
      /\ "node" \in Sources /\ count["node"] < MaxLines["node"] /\ Counted("node")
  BY DEF NodeWrites, net, Sources
<1>3. /\ HubTypes' /\ ReaderTypes' /\ HubInv' /\ ReaderInv' /\ OnlyTheSlowLose'
      /\ Arrived' = Arrived
  BY <1>1, <1>2, PanelKept
<1>4. /\ e \in Entry /\ e.from = "node" /\ CountTypes' /\ e \notin Written
      /\ Ahead(Written, {e}) /\ Written' = Written \cup {e}
  BY <1>1, <1>2, NewLine, TypeParts
<1> HIDE DEF e
<1>5. WorkerTypes /\ buffer \in Seq(Entry) /\ kicks \in Nat
  BY <1>1, TypeParts DEF WorkerTypes
<1>6. CASE enabled
  <2>1. /\ buffer' = Append(buffer, e)
        /\ kicks' = kicks + (IF Len(buffer') >= FullBuffer THEN 1 ELSE 0)
    BY <1>6 DEF NodeWrites, e
  <2>2. kicks' \in Nat
    BY <1>5, <2>1
  <2>3. /\ buffer' \in Seq(Entry) /\ ToSet(buffer') = ToSet(buffer) \cup {e}
        /\ Sorted(buffer) /\ Ahead(ToSet(buffer), {e}) => Sorted(buffer')
    BY <1>4, <1>5, <2>1, AppendLine
  <2>4. WorkerTypes'
    BY <1>2, <1>5, <2>2, <2>3 DEF WorkerTypes
  <2>5. ToSet(buffer) \subseteq Written /\ Upstream \subseteq Written /\ Arrived \subseteq Written
    BY <1>1 DEF UpstreamInv, Upstream
  <2>6. Sorted(buffer')
    <3>1. Ahead(ToSet(buffer), {e})
      BY <1>4, <2>5 DEF Ahead
    <3>2. QED
      BY <1>1, <2>3, <3>1 DEF UpstreamInv
  <2>7. Posts' = Posts /\ flights' \cap serving' = {}
    BY <1>1, <1>2 DEF Posts, UpstreamInv
  <2>8. Upstream' = Upstream \cup {e}
    BY <2>3, <2>7 DEF Upstream
  <2>9. \A f \in Posts' : f # <<>> /\ Sorted(f) /\ ToSet(f) \cap ToSet(buffer') = {}
    <3>1. \A f \in Posts : e \notin ToSet(f)
      BY <1>4, <2>5 DEF Upstream
    <3>2. QED
      BY <1>1, <2>3, <2>7, <3>1 DEF UpstreamInv
  <2>10. Upstream' \cap Arrived' = {} /\ Upstream' \cup Arrived' \subseteq Written'
    BY <1>1, <1>3, <1>4, <2>5, <2>8 DEF UpstreamInv
  <2>11. \A x \in Upstream' : x.from = "node"
    BY <1>1, <1>4, <2>8 DEF UpstreamInv
  <2>12. UpstreamInv'
    BY <1>1, <2>6, <2>7, <2>9, <2>10, <2>11 DEF UpstreamInv
  <2>13. QED
    BY <1>3, <1>4, <2>4, <2>12, NextTypes DEF PipeInv
<1>7. CASE ~enabled
  <2>1. UNCHANGED <<buffer, kicks>>
    BY <1>7 DEF NodeWrites
  <2>2. WorkerTypes'
    BY <1>2, <1>5, <2>1 DEF WorkerTypes
  <2>3. Posts' = Posts /\ flights' \cap serving' = {}
    BY <1>1, <1>2 DEF Posts, UpstreamInv
  <2>4. UpstreamInv'
    BY <1>1, <1>3, <1>4, <2>1, <2>3, UpstreamKept
  <2>5. QED
    BY <1>3, <1>4, <2>2, <2>4, NextTypes DEF PipeInv
<1>8. QED
  BY <1>6, <1>7

\* The buffer becomes a post.
LEMMA TakeBufferPipe ==
  ASSUME PipeInv, TakeBuffer, kicks' \in Nat
  PROVE  PipeInv'
<1>1. TypeOK /\ UpstreamInv /\ HubInv /\ ReaderInv /\ OnlyTheSlowLose
  BY DEF PipeInv
<1>2. /\ UNCHANGED <<enabled, crashes, serving, count>> /\ UNCHANGED <<hub, reader>>
      /\ buffer' = <<>> /\ flights' = IF buffer = <<>> THEN flights ELSE flights \cup {buffer}
  BY DEF TakeBuffer, Emptied
<1>3. /\ HubTypes' /\ ReaderTypes' /\ HubInv' /\ ReaderInv' /\ OnlyTheSlowLose'
      /\ Arrived' = Arrived
  BY <1>1, <1>2, PanelKept
<1>4. WorkerTypes' /\ CountTypes'
  BY <1>1, <1>2, TypeParts DEF WorkerTypes, CountTypes
<1>5. Written' = Written
  BY <1>2, WrittenKept
<1>6. CASE buffer = <<>>
  <2>1. Posts' = Posts /\ flights' \cap serving' = {}
    BY <1>1, <1>2, <1>6 DEF Posts, UpstreamInv
  <2>2. UpstreamInv'
    BY <1>1, <1>2, <1>3, <1>5, <2>1, UpstreamKept
  <2>3. QED
    BY <1>3, <1>4, <2>2, NextTypes DEF PipeInv
<1>7. CASE buffer # <<>>
  <2>1. buffer \notin Posts
    <3>1. ToSet(buffer) # {}
      BY <1>1, <1>7, LinesOf DEF TypeOK
    <3>2. QED
      BY <1>1, <3>1 DEF UpstreamInv
  <2>2. Posts' = Posts \cup {buffer} /\ flights' \cap serving' = {}
    BY <1>1, <1>2, <1>7, <2>1 DEF Posts, UpstreamInv
  <2>3. ToSet(buffer') = {} /\ Sorted(buffer')
    BY <1>2, EmptyLines
  <2>4. Upstream' = Upstream
    BY <2>2, <2>3 DEF Upstream
  <2>5. \A f \in Posts' : f # <<>> /\ Sorted(f) /\ ToSet(f) \cap ToSet(buffer') = {}
    BY <1>1, <1>7, <2>2, <2>3 DEF UpstreamInv
  <2>6. \A f, g \in Posts' : f # g => ToSet(f) \cap ToSet(g) = {}
    BY <1>1, <2>2 DEF UpstreamInv
  <2>7. UpstreamInv'
    BY <1>1, <1>3, <1>5, <2>2, <2>3, <2>4, <2>5, <2>6 DEF UpstreamInv
  <2>8. QED
    BY <1>3, <1>4, <2>7, NextTypes DEF PipeInv
<1>8. QED
  BY <1>6, <1>7

\* What the worker loses when it stops, and what becomes of a post.
LEMMA PostsPipe ==
  ASSUME LogAssumption, PipeInv,
         SetPanelURL \/ NodeCrash \/ \E f \in flights : PostLost(f) \/ PostArrives(f)
  PROVE  PipeInv'
<1>1. TypeOK /\ UpstreamInv /\ HubInv /\ ReaderInv /\ OnlyTheSlowLose
  BY DEF PipeInv
<1>2. UNCHANGED count /\ UNCHANGED <<hub, reader>>
  BY DEF SetPanelURL, NodeCrash, PostLost, PostArrives
<1>3. /\ HubTypes' /\ ReaderTypes' /\ HubInv' /\ ReaderInv' /\ OnlyTheSlowLose'
      /\ Arrived' = Arrived
  BY <1>1, <1>2, PanelKept
<1>4. CountTypes' /\ Written' = Written
  BY <1>1, <1>2, WrittenKept, TypeParts DEF CountTypes
<1>5. WorkerTypes /\ flights \cap serving = {}
  BY <1>1, TypeParts DEF UpstreamInv
<1>6. /\ WorkerTypes' /\ Posts' \subseteq Posts /\ flights' \cap serving' = {}
      /\ buffer' \in {buffer, <<>>}
  <2>1. CASE SetPanelURL
    BY <1>5, <2>1 DEF SetPanelURL, net, WorkerTypes, Posts
  <2>2. CASE NodeCrash
    <3>1. crashes' \in 0 .. MaxCrashes
      BY <1>5, <2>2, Sizes DEF NodeCrash, WorkerTypes
    <3>2. QED
      BY <1>5, <2>2, <3>1 DEF NodeCrash, WorkerTypes, Posts
  <2>3. CASE \E f \in flights : PostLost(f) \/ PostArrives(f)
    BY <1>5, <2>3 DEF PostLost, PostArrives, worker, WorkerTypes, Posts
  <2>4. QED
    BY <2>1, <2>2, <2>3
<1>7. UpstreamInv'
  BY <1>1, <1>3, <1>4, <1>6, UpstreamKept
<1>8. QED
  BY <1>3, <1>4, <1>6, <1>7, NextTypes DEF PipeInv
---------------------------------------------------------------------------
(* The channel of a reader: a sequence of batches.                         *)

Contents(c) == UNION {ToSet(c[i]) : i \in DOMAIN c}

ChanSorted(c) ==
  /\ \A i \in DOMAIN c : Sorted(c[i])
  /\ \A i, j \in DOMAIN c : i < j => Ahead(ToSet(c[i]), ToSet(c[j]))

LEMMA ChanAppend ==
  ASSUME NEW c \in Seq(Seq(Entry)), NEW b \in Seq(Entry)
  PROVE  /\ Append(c, b) \in Seq(Seq(Entry)) /\ Len(Append(c, b)) = Len(c) + 1
         /\ Contents(Append(c, b)) = Contents(c) \cup ToSet(b)
         /\ ChanSorted(c) /\ Sorted(b) /\ Ahead(Contents(c), ToSet(b)) => ChanSorted(Append(c, b))
<1> DEFINE d == Append(c, b)
<1>1. /\ d \in Seq(Seq(Entry)) /\ Len(d) = Len(c) + 1 /\ Len(c) \in Nat
      /\ DOMAIN d = 1 .. Len(c) + 1 /\ DOMAIN c = 1 .. Len(c)
  OBVIOUS
<1>2. d[Len(c) + 1] = b /\ \A i \in 1 .. Len(c) : d[i] = c[i]
  OBVIOUS
<1>3. \A i \in DOMAIN d : i \in DOMAIN c \/ i = Len(c) + 1
  BY <1>1
<1>4. Len(c) + 1 \in DOMAIN d /\ \A i \in DOMAIN c : i \in DOMAIN d
  BY <1>1
<1> HIDE DEF d
<1>5. Contents(d) = Contents(c) \cup ToSet(b)
  <2>1. \A x \in Contents(d) : x \in Contents(c) \cup ToSet(b)
    BY <1>1, <1>2, <1>3 DEF Contents
  <2>2. \A x \in Contents(c) \cup ToSet(b) : x \in Contents(d)
    BY <1>1, <1>2, <1>4 DEF Contents
  <2>3. QED
    BY <2>1, <2>2
<1>6. ASSUME ChanSorted(c), Sorted(b), Ahead(Contents(c), ToSet(b)) PROVE ChanSorted(d)
  <2>1. \A i \in DOMAIN d : Sorted(d[i])
    BY <1>1, <1>2, <1>3, <1>6 DEF ChanSorted
  <2>2. ASSUME NEW i \in DOMAIN d, NEW j \in DOMAIN d, i < j PROVE Ahead(ToSet(d[i]), ToSet(d[j]))
    <3>1. i \in DOMAIN c
      BY <1>1, <1>3, <2>2
    <3>2. CASE j \in DOMAIN c
      BY <1>1, <1>2, <1>6, <2>2, <3>1, <3>2 DEF ChanSorted
    <3>3. CASE j = Len(c) + 1
      <4>1. d[j] = b /\ d[i] = c[i] /\ ToSet(c[i]) \subseteq Contents(c)
        BY <1>1, <1>2, <3>1, <3>3 DEF Contents
      <4>2. QED
        BY <1>6, <4>1 DEF Ahead
    <3>4. QED
      BY <1>3, <3>2, <3>3
  <2>3. QED
    BY <2>1, <2>2 DEF ChanSorted
<1>7. QED
  BY <1>1, <1>5, <1>6 DEF d

LEMMA ChanTail ==
  ASSUME NEW c \in Seq(Seq(Entry)), c # <<>>
  PROVE  /\ Tail(c) \in Seq(Seq(Entry)) /\ Len(Tail(c)) <= Len(c) /\ Head(c) \in Seq(Entry)
         /\ Len(c) \in Nat /\ Len(Tail(c)) \in Nat
         /\ Contents(c) = ToSet(Head(c)) \cup Contents(Tail(c))
         /\ ChanSorted(c) => /\ ChanSorted(Tail(c)) /\ Sorted(Head(c))
                             /\ Ahead(ToSet(Head(c)), Contents(Tail(c)))
<1> DEFINE t == Tail(c)
           h == Head(c)
<1>1. /\ t \in Seq(Seq(Entry)) /\ Len(t) = Len(c) - 1 /\ Len(c) \in Nat \ {0}
      /\ h \in Seq(Entry) /\ h = c[1] /\ DOMAIN t = 1 .. Len(c) - 1 /\ DOMAIN c = 1 .. Len(c)
      /\ \A i \in 1 .. Len(c) - 1 : t[i] = c[i + 1] /\ i + 1 \in 1 .. Len(c)
  BY TailLine
<1>2. \A i \in 1 .. Len(c) - 1 : 1 < i + 1 /\ i \in Nat /\ i + 1 \in 1 .. Len(c)
  BY <1>1
<1>3. \A i \in 1 .. Len(c) : i = 1 \/ (i - 1 \in 1 .. Len(c) - 1 /\ (i - 1) + 1 = i)
  BY <1>1
<1>4. 1 \in 1 .. Len(c)
  BY <1>1
<1> HIDE DEF t, h
<1>5. Contents(c) = ToSet(h) \cup Contents(t)
  <2>1. ASSUME NEW x \in Contents(c) PROVE x \in ToSet(h) \cup Contents(t)
    <3>1. PICK i \in 1 .. Len(c) : x \in ToSet(c[i])
      BY <1>1, <2>1 DEF Contents
    <3>2. CASE i = 1
      BY <1>1, <3>1, <3>2
    <3>3. CASE i - 1 \in 1 .. Len(c) - 1 /\ (i - 1) + 1 = i
      <4>1. t[i - 1] = c[i]
        BY <1>1, <3>3
      <4>2. QED
        BY <1>1, <3>1, <3>3, <4>1 DEF Contents
    <3>4. QED
      BY <1>3, <3>2, <3>3
  <2>2. ASSUME NEW x \in ToSet(h) \cup Contents(t) PROVE x \in Contents(c)
    BY <1>1, <1>4, <2>2 DEF Contents
  <2>3. QED
    BY <2>1, <2>2
<1>6. ASSUME ChanSorted(c)
      PROVE  ChanSorted(t) /\ Sorted(h) /\ Ahead(ToSet(h), Contents(t))
  <2>1. ASSUME NEW i \in DOMAIN t, NEW j \in DOMAIN t, i < j PROVE Ahead(ToSet(t[i]), ToSet(t[j]))
    <3>0. i \in Nat /\ j \in Nat /\ i + 1 \in DOMAIN c /\ j + 1 \in DOMAIN c
      BY <1>1, <1>2
    <3>1. i + 1 \in DOMAIN c /\ j + 1 \in DOMAIN c /\ i + 1 < j + 1
      BY <2>1, <3>0
    <3>2. QED
      BY <1>1, <1>6, <2>1, <3>1 DEF ChanSorted
  <2>2. \A i \in DOMAIN t : Sorted(t[i])
    BY <1>1, <1>6 DEF ChanSorted
  <2>3. Sorted(h)
    BY <1>1, <1>4, <1>6 DEF ChanSorted
  <2>4. ASSUME NEW x \in ToSet(h), NEW y \in Contents(t) PROVE Follows(x, y)
    <3>1. PICK i \in 1 .. Len(c) - 1 : y \in ToSet(t[i])
      BY <1>1, <2>4 DEF Contents
    <3>2. Ahead(ToSet(c[1]), ToSet(c[i + 1]))
      BY <1>1, <1>2, <1>4, <1>6 DEF ChanSorted
    <3>3. QED
      BY <1>1, <2>4, <3>1, <3>2 DEF Ahead
  <2>5. QED
    BY <2>1, <2>2, <2>3, <2>4 DEF ChanSorted, Ahead
<1>7. t = Tail(c) /\ h = Head(c) /\ Len(t) <= Len(c) /\ Len(t) \in Nat
  BY <1>1 DEF t, h
<1>8. QED
  BY <1>1, <1>5, <1>6, <1>7

---------------------------------------------------------------------------
(* The panel: what each reader has been sent is ahead of what he will be.  *)

\* What ReaderInv says of one reader, and where the lines he is due may be.
ReaderGood(r) ==
  /\ Sorted(shown[r]) /\ Ahead(ToSet(shown[r]), Contents(chan[r])) /\ ChanSorted(chan[r])
  /\ Ahead(Sent(r), InHub) /\ (r \in fan.to => Ahead(Sent(r), ToSet(fan.lines)))
  /\ \A e \in Sent(r) \cup due[r] : Passes(r, e)
  /\ state[r] = "new" => due[r] = {}

FanFor(r) == IF r \in fan.to THEN ToSet(fan.lines) ELSE {}

Reach(r) == InHub \cup slow[r] \cup Sent(r) \cup FanFor(r)

LEMMA ReaderParts ==
  /\ ReaderInv <=> \A r \in Readers : ReaderGood(r)
  /\ OnlyTheSlowLose <=> \A r \in Readers : state[r] = "open" => due[r] \subseteq Reach(r)
<1>1. \A r : InChan(r) = Contents(chan[r])
  BY DEF InChan, Contents
<1>2. ReaderInv <=> \A r \in Readers : ReaderGood(r)
  BY <1>1 DEF ReaderInv, ReaderGood, ChanSorted
<1>3. OnlyTheSlowLose <=> \A r \in Open : due[r] \subseteq
        ToSet(in) \cup ToSet(batch) \cup slow[r] \cup ToSet(shown[r]) \cup InChan(r) \cup FanFor(r)
  BY DEF OnlyTheSlowLose, InChan, FanFor
<1>4. \A r : Reach(r) = ToSet(in) \cup ToSet(batch) \cup slow[r] \cup ToSet(shown[r])
                       \cup InChan(r) \cup FanFor(r)
  BY DEF Reach, InHub, Sent
<1>5. OnlyTheSlowLose <=> \A r \in Open : due[r] \subseteq Reach(r)
  BY <1>3, <1>4
<1>6. QED
  BY <1>2, <1>5 DEF Open

LEMMA NextReaders ==
  ASSUME \A r \in Readers : ReaderGood(r)' /\ (state'[r] = "open" => due'[r] \subseteq Reach(r)')
  PROVE  ReaderInv' /\ OnlyTheSlowLose'
<1>1. \A r : InChan(r)' = Contents(chan[r])'
  BY DEF InChan, Contents
<1>2. ReaderInv'
  BY <1>1 DEF ReaderInv, ReaderGood, ChanSorted
<1>3. OnlyTheSlowLose' <=> \A r \in Open' : due'[r] \subseteq
        ToSet(in') \cup ToSet(batch') \cup slow'[r] \cup ToSet(shown'[r]) \cup InChan(r)'
        \cup FanFor(r)'
  BY DEF OnlyTheSlowLose, InChan, FanFor
<1>4. \A r : Reach(r)' = ToSet(in') \cup ToSet(batch') \cup slow'[r] \cup ToSet(shown'[r])
                        \cup InChan(r)' \cup FanFor(r)'
  BY DEF Reach, InHub, Sent
<1>5. \A r \in Open' : due'[r] \subseteq Reach(r)'
  BY DEF Open
<1>6. OnlyTheSlowLose'
  BY <1>3, <1>4, <1>5
<1>7. QED
  BY <1>2, <1>6

\* A reader whose channel, lines and state are left alone, and who sees the same lines
\* behind him or fewer.
LEMMA ReaderKept ==
  ASSUME NEW r \in Readers, ReaderGood(r), chan'[r] = chan[r], shown'[r] = shown[r],
         due'[r] = due[r], state'[r] = state[r], InHub' \subseteq InHub,
         r \in fan'.to => Ahead(Sent(r), ToSet(fan'.lines))
  PROVE  ReaderGood(r)'
<1>1. Sent(r)' = Sent(r)
  BY DEF Sent, InChan
<1>2. Ahead(Sent(r), InHub')
  BY DEF ReaderGood, Ahead
<1>3. QED
  BY <1>1, <1>2 DEF ReaderGood

\* A line that follows all the panel has received is put into the channel, or dropped.
LEMMA AcceptOne ==
  ASSUME LogAssumption, TypeOK, HubInv, ReaderInv, OnlyTheSlowLose, NEW e \in Entry,
         Ahead(Arrived, {e}), Accept(<<e>>)
  PROVE  /\ HubTypes' /\ ReaderTypes' /\ HubInv' /\ ReaderInv' /\ OnlyTheSlowLose'
         /\ Arrived' \subseteq Arrived \cup {e}
<1>1. /\ HubTypes /\ ReaderTypes /\ in \in Seq(Entry) /\ Len(in) <= InCap
      /\ InCap \in Nat /\ Len(in) \in Nat
  BY TypeParts, Sizes DEF HubTypes
<1>2. UNCHANGED <<batch, fan, state, chan, shown, slow>>
  BY DEF Accept
<1>3. in' = IF Len(in) < InCap THEN Append(in, e) ELSE in
  BY <1>1, OfferOne DEF Accept
<1>4. /\ ToSet(batch) \subseteq Arrived /\ ToSet(in) \subseteq Arrived
      /\ ToSet(fan.lines) \subseteq Arrived /\ \A r \in Readers : Sent(r) \subseteq Arrived
  BY DEF Arrived, InHub
<1>5. /\ in' \in Seq(Entry) /\ Len(in') <= InCap /\ Sorted(in')
      /\ ToSet(in) \subseteq ToSet(in') /\ ToSet(in') \subseteq ToSet(in) \cup {e}
  <2>1. CASE Len(in) < InCap
    <3>1. /\ in' \in Seq(Entry) /\ Len(in') = Len(in) + 1 /\ ToSet(in') = ToSet(in) \cup {e}
          /\ Sorted(in) /\ Ahead(ToSet(in), {e}) => Sorted(in')
      BY <1>1, <1>3, <2>1, AppendLine, ZenonT(30)
    <3>2. Ahead(ToSet(in), {e})
      BY <1>4 DEF Ahead
    <3>3. QED
      BY <1>1, <2>1, <3>1, <3>2 DEF HubInv
  <2>2. CASE ~(Len(in) < InCap)
    BY <1>1, <1>3, <2>2 DEF HubInv
  <2>3. QED
    BY <2>1, <2>2
<1>6. \A r \in Readers : /\ due'[r] \subseteq due[r] \cup {x \in ToSet(in') : Passes(r, x)}
                         /\ state[r] # "open" => due'[r] = due[r]
  BY DEF Accept
<1>7. InHub' \subseteq InHub \cup {e} /\ InHub \subseteq InHub' /\ ToSet(in') \subseteq InHub'
  BY <1>2, <1>5 DEF InHub
<1>8. HubTypes'
  BY <1>1, <1>2, <1>5 DEF HubTypes
<1>9. ReaderTypes'
  <2>1. ToSet(in') \subseteq Entry
    BY <1>5, LinesOf
  <2>2. \A r \in Readers : due'[r] \in SUBSET Entry
    BY <1>1, <1>6, <2>1 DEF ReaderTypes
  <2>3. due' = [r \in Readers |-> due'[r]]
    BY DEF Accept
  <2>4. due' \in [Readers -> SUBSET Entry]
    BY <2>2, <2>3
  <2>5. QED
    BY <1>1, <1>2, <2>4 DEF ReaderTypes
<1>10. HubInv'
  <2>1. Ahead(ToSet(batch), ToSet(in')) /\ Ahead(ToSet(fan.lines), InHub')
    BY <1>4, <1>5, <1>7 DEF HubInv, Ahead
  <2>2. QED
    BY <1>2, <1>5, <2>1 DEF HubInv
<1>11. ASSUME NEW r \in Readers
       PROVE  ReaderGood(r)' /\ (state'[r] = "open" => due'[r] \subseteq Reach(r)')
  <2>1. ReaderGood(r) /\ (state[r] = "open" => due[r] \subseteq Reach(r))
    BY ReaderParts
  <2>2. Sent(r)' = Sent(r)
    BY <1>2 DEF Sent, InChan
  <2>3. Ahead(Sent(r), InHub')
    BY <1>4, <1>7, <2>1 DEF ReaderGood, Ahead
  <2>4. ReaderGood(r)'
    BY <1>2, <1>6, <2>1, <2>2, <2>3 DEF ReaderGood
  <2>5. state'[r] = "open" => due'[r] \subseteq Reach(r)'
    BY <1>2, <1>6, <1>7, <2>1, <2>2 DEF Reach, FanFor
  <2>6. QED
    BY <2>4, <2>5
<1>12. Arrived' \subseteq Arrived \cup {e}
  <2>1. \A r \in Readers : Sent(r)' = Sent(r)
    BY <1>2 DEF Sent, InChan
  <2>2. QED
    BY <1>2, <1>7, <2>1 DEF Arrived
<1>13. QED
  BY <1>8, <1>9, <1>10, <1>11, <1>12, NextReaders

LEMMA PanelWritesPipe ==
  ASSUME LogAssumption, PipeInv, PanelWrites
  PROVE  PipeInv'
<1> DEFINE e == NextLine("panel")
<1>1. TypeOK /\ UpstreamInv /\ HubInv /\ ReaderInv /\ OnlyTheSlowLose
  BY DEF PipeInv
<1>2. /\ UNCHANGED <<enabled, buffer, kicks, crashes, flights, serving>>
      /\ "panel" \in Sources /\ count["panel"] < MaxLines["panel"] /\ Counted("panel")
      /\ Accept(Forwarded(e))
  BY DEF PanelWrites, worker, net, Sources
<1>3. /\ e \in Entry /\ e.from = "panel" /\ CountTypes' /\ e \notin Written
      /\ Ahead(Written, {e}) /\ Written' = Written \cup {e}
  BY <1>1, <1>2, NewLine, TypeParts
<1> HIDE DEF e
<1>4. Forwarded(e) = <<e>>
  BY <1>3 DEF Forwarded
<1>5. Arrived \subseteq Written /\ Upstream \subseteq Written
  BY <1>1 DEF UpstreamInv
<1>6. Ahead(Arrived, {e})
  BY <1>3, <1>5 DEF Ahead
<1>7. /\ HubTypes' /\ ReaderTypes' /\ HubInv' /\ ReaderInv' /\ OnlyTheSlowLose'
      /\ Arrived' \subseteq Arrived \cup {e}
  BY <1>1, <1>2, <1>3, <1>4, <1>6, AcceptOne
<1>8. Posts' = Posts /\ Upstream' = Upstream
  BY <1>2 DEF Posts, Upstream
<1>9. Upstream' \cap Arrived' = {} /\ Upstream' \cup Arrived' \subseteq Written'
  BY <1>1, <1>3, <1>5, <1>7, <1>8 DEF UpstreamInv
<1>10. UpstreamInv'
  BY <1>1, <1>2, <1>8, <1>9 DEF UpstreamInv
<1>11. WorkerTypes'
  BY <1>1, <1>2, TypeParts DEF WorkerTypes
<1>12. QED
  BY <1>3, <1>7, <1>10, <1>11, NextTypes DEF PipeInv

\* The first line of a post moves from the post to the hub, or is dropped.
LEMMA EmitFromNodePipe ==
  ASSUME LogAssumption, PipeInv, NEW f \in serving, EmitFromNode(f)
  PROVE  PipeInv'
<1> DEFINE e == Head(f)
           rest == IF Len(f) = 1 THEN {} ELSE {Tail(f)}
<1>1. TypeOK /\ UpstreamInv /\ HubInv /\ ReaderInv /\ OnlyTheSlowLose
  BY DEF PipeInv
<1>2. /\ UNCHANGED <<enabled, buffer, kicks, crashes, flights, count>>
      /\ serving' = (serving \ {f}) \cup rest /\ Accept(Append(Forwarded(e), e))
  BY DEF EmitFromNode, worker
<1>3. f \in Posts /\ f # <<>> /\ f \in Seq(Entry) /\ Sorted(f)
  BY <1>1 DEF Posts, UpstreamInv, TypeOK
<1>4. /\ Tail(f) \in Seq(Entry) /\ Len(Tail(f)) = Len(f) - 1 /\ Len(f) \in Nat \ {0}
      /\ e \in Entry /\ e \in ToSet(f) /\ ToSet(f) = {e} \cup ToSet(Tail(f))
      /\ Sorted(Tail(f)) /\ Ahead({e}, ToSet(Tail(f)))
  BY <1>3, TailLine
<1>5. Len(f) # 1 => Tail(f) # <<>> /\ ToSet(Tail(f)) # {}
  <2>1. SUFFICES ASSUME Len(f) # 1 PROVE Tail(f) # <<>> /\ ToSet(Tail(f)) # {}
    OBVIOUS
  <2>2. Len(Tail(f)) # 0 /\ Len(<<>>) = 0
    BY <1>4, <2>1
  <2>3. Tail(f) # <<>>
    BY <2>2
  <2>4. QED
    BY <1>4, <2>3, LinesOf
<1> HIDE DEF e
<1>6. e \in Upstream /\ e.from = "node" /\ e \notin Arrived
  BY <1>1, <1>3, <1>4 DEF Upstream, UpstreamInv
<1>7. Append(Forwarded(e), e) = <<e>>
  BY <1>6 DEF Forwarded
<1>8. Ahead(Arrived, {e})
  BY <1>6 DEF Ahead, Follows
<1>9. /\ HubTypes' /\ ReaderTypes' /\ HubInv' /\ ReaderInv' /\ OnlyTheSlowLose'
      /\ Arrived' \subseteq Arrived \cup {e}
  BY <1>1, <1>2, <1>4, <1>7, <1>8, AcceptOne
<1>10. \A g \in rest : /\ g = Tail(f) /\ g # <<>> /\ ToSet(g) # {} /\ Sorted(g)
                       /\ ToSet(g) \subseteq ToSet(f) /\ e \notin ToSet(g)
  BY <1>4, <1>5 DEF Ahead, Follows
<1> HIDE DEF rest
<1>11. Posts' = (Posts \ {f}) \cup rest
  BY <1>1, <1>2 DEF Posts, UpstreamInv
<1>12. \A g \in Posts \ {f} : ToSet(g) \cap ToSet(f) = {}
  BY <1>1, <1>3 DEF UpstreamInv
<1>13. flights' \cap serving' = {}
  <2>1. rest \cap flights = {}
    <3>1. SUFFICES ASSUME NEW g \in rest, g \in flights PROVE FALSE
      OBVIOUS
    <3>2. g \in Posts \ {f}
      BY <1>1, <3>1 DEF Posts, UpstreamInv
    <3>3. QED
      BY <1>10, <1>12, <3>1, <3>2
  <2>2. QED
    BY <1>1, <1>2, <2>1 DEF UpstreamInv
<1>14. \A g \in Posts' : g # <<>> /\ Sorted(g) /\ ToSet(g) \cap ToSet(buffer') = {}
  BY <1>1, <1>2, <1>3, <1>10, <1>11 DEF UpstreamInv
<1>15. \A g, h \in Posts' : g # h => ToSet(g) \cap ToSet(h) = {}
  BY <1>1, <1>10, <1>11, <1>12 DEF UpstreamInv
<1>16. Upstream' \subseteq Upstream /\ e \notin Upstream'
  <2>1. \A g \in Posts' : ToSet(g) \subseteq Upstream /\ e \notin ToSet(g)
    BY <1>3, <1>4, <1>10, <1>11, <1>12 DEF Upstream
  <2>2. ToSet(buffer') \subseteq Upstream /\ e \notin ToSet(buffer')
    BY <1>1, <1>2, <1>3, <1>4 DEF Upstream, UpstreamInv
  <2>3. QED
    BY <2>1, <2>2 DEF Upstream
<1>17. Written' = Written
  BY <1>2, WrittenKept
<1>18. Upstream' \cap Arrived' = {} /\ Upstream' \cup Arrived' \subseteq Written'
  BY <1>1, <1>6, <1>9, <1>16, <1>17 DEF UpstreamInv
<1>19. UpstreamInv'
  BY <1>1, <1>2, <1>13, <1>14, <1>15, <1>16, <1>18 DEF UpstreamInv
<1>20. WorkerTypes' /\ CountTypes'
  <2>1. rest \subseteq Seq(Entry)
    BY <1>4, <1>10
  <2>2. QED
    BY <1>1, <1>2, <2>1, TypeParts DEF WorkerTypes, CountTypes
<1>21. QED
  BY <1>9, <1>19, <1>20, NextTypes DEF PipeInv

---------------------------------------------------------------------------
(* The dispatcher.                                                         *)

\* A step of the dispatcher that keeps the lines in their order, and puts a line where
\* each open reader is still to find it.
LEMMA HubStep ==
  ASSUME PipeInv, UNCHANGED <<worker, net, count, reader>>, HubTypes', HubInv',
         InHub' \subseteq InHub, ToSet(fan'.lines) \subseteq InHub \cup ToSet(fan.lines),
         \A r \in Readers : r \in fan'.to => Ahead(Sent(r), ToSet(fan'.lines)),
         \A r \in Open : InHub \cup FanFor(r) \subseteq InHub' \cup FanFor(r)'
  PROVE  PipeInv'
<1>1. TypeOK /\ UpstreamInv /\ HubInv /\ ReaderInv /\ OnlyTheSlowLose
  BY DEF PipeInv
<1>2. /\ UNCHANGED <<enabled, buffer, kicks, crashes, flights, serving, count>>
      /\ UNCHANGED <<state, chan, shown, due, slow>>
  BY DEF worker, net, reader
<1>3. \A r \in Readers : Sent(r)' = Sent(r)
  BY <1>2 DEF Sent, InChan
<1>4. \A r \in Readers : ReaderGood(r) /\ (state[r] = "open" => due[r] \subseteq Reach(r))
  BY <1>1, ReaderParts
<1>5. ASSUME NEW r \in Readers
      PROVE  ReaderGood(r)' /\ (state'[r] = "open" => due'[r] \subseteq Reach(r)')
  <2>1. ReaderGood(r)'
    BY <1>2, <1>4, ReaderKept
  <2>2. ASSUME state[r] = "open" PROVE due[r] \subseteq Reach(r)'
    <3>1. due[r] \subseteq Reach(r) /\ InHub \cup FanFor(r) \subseteq InHub' \cup FanFor(r)'
      BY <1>4, <2>2 DEF Open
    <3>2. QED
      BY <1>2, <1>3, <3>1 DEF Reach
  <2>3. QED
    BY <1>2, <2>1, <2>2
<1>6. ReaderInv' /\ OnlyTheSlowLose'
  BY <1>5, NextReaders
<1>7. Arrived' \subseteq Arrived
  BY <1>3 DEF Arrived
<1>8. Posts' = Posts /\ flights' \cap serving' = {} /\ Written' = Written
  BY <1>1, <1>2, WrittenKept DEF Posts, UpstreamInv
<1>9. UpstreamInv'
  BY <1>1, <1>2, <1>7, <1>8, UpstreamKept
<1>10. WorkerTypes' /\ CountTypes' /\ ReaderTypes'
  BY <1>1, <1>2, TypeParts DEF WorkerTypes, CountTypes, ReaderTypes
<1>11. QED
  BY <1>6, <1>9, <1>10, NextTypes DEF PipeInv

\* A flush takes the whole batch, for the readers that are open.
LEMMA FlushPipe ==
  ASSUME LogAssumption, PipeInv, UNCHANGED <<worker, net, count, reader>>, Idle,
         NEW b \in Seq(Entry), Flush(b), in' \in Seq(Entry), Len(in') <= InCap,
         Sorted(b), Sorted(in'), Ahead(ToSet(b), ToSet(in')),
         ToSet(b) \cup ToSet(in') = InHub
  PROVE  PipeInv'
<1>1. TypeOK /\ HubInv /\ ReaderInv /\ fan = NoFan
  BY DEF PipeInv, Idle
<1>2. batch' = <<>> /\ ToSet(batch') = {} /\ Sorted(batch') /\ Len(batch') < FullBatch
  <2>1. batch' = <<>> /\ 0 < FullBatch
    BY Sizes DEF Flush
  <2>2. QED
    BY <2>1, EmptyLines
<1>3. InHub' = ToSet(in') /\ ToSet(in') \subseteq InHub
  BY <1>2 DEF InHub
<1>4. CASE b = <<>> \/ Open = {}
  <2>1. fan' = NoFan /\ ToSet(fan'.lines) = {} /\ Sorted(fan'.lines) /\ fan'.to = {}
    BY <1>4, EmptyLines, NoFanFields DEF Flush
  <2>2. HubTypes'
    BY <1>2, <2>1, NoFanFields DEF HubTypes
  <2>3. HubInv'
    BY <1>2, <2>1 DEF HubInv, Ahead
  <2>4. \A r \in Open : InHub \cup FanFor(r) \subseteq InHub' \cup FanFor(r)'
    <3>1. b = <<>> => InHub' = InHub
      BY <1>3, EmptyLines
    <3>2. \A r : FanFor(r) = {}
      BY <1>1, NoFanFields DEF FanFor
    <3>3. QED
      BY <1>4, <3>1, <3>2
  <2>5. QED
    BY <1>3, <2>1, <2>2, <2>3, <2>4, HubStep
<1>5. CASE b # <<>> /\ Open # {}
  <2>1. fan' = [lines |-> b, to |-> Open] /\ fan'.lines = b /\ fan'.to = Open
    BY <1>5 DEF Flush
  <2>2. HubTypes'
    <3>1. Open \in SUBSET Readers
      BY DEF Open
    <3>2. fan' \in [lines : Seq(Entry), to : SUBSET Readers]
      BY <2>1, <3>1
    <3>3. batch' \in Seq(Entry)
      BY <1>2
    <3>4. QED
      BY <1>2, <3>2, <3>3 DEF HubTypes
  <2>3. HubInv'
    BY <1>2, <1>3, <2>1 DEF HubInv, Ahead
  <2>4. \A r \in Readers : Ahead(Sent(r), ToSet(b))
    BY <1>1, ReaderParts DEF ReaderGood, Ahead
  <2>5. ASSUME NEW r \in Open PROVE InHub \cup FanFor(r) \subseteq InHub' \cup FanFor(r)'
    <3>1. FanFor(r) = {}
      BY <1>1, NoFanFields DEF FanFor
    <3>2. FanFor(r)' = ToSet(b)
      BY <2>1 DEF FanFor
    <3>3. QED
      BY <1>3, <3>1, <3>2
  <2>6. QED
    BY <1>3, <2>1, <2>2, <2>3, <2>4, <2>5, HubStep
<1>6. QED
  BY <1>4, <1>5

LEMMA GatherPipe ==
  ASSUME LogAssumption, PipeInv, Gather
  PROVE  PipeInv'
<1> DEFINE b == Append(batch, Head(in))
<1>1. /\ TypeOK /\ HubInv /\ ReaderInv /\ HubTypes /\ in \in Seq(Entry) /\ Len(in) <= InCap
      /\ batch \in Seq(Entry) /\ InCap \in Nat /\ FullBatch \in Nat
  BY TypeParts, Sizes DEF PipeInv, HubTypes
<1>2. /\ Idle /\ in # <<>> /\ in' = Tail(in) /\ UNCHANGED <<worker, net, count, reader>>
      /\ IF Len(b) >= FullBatch THEN Flush(b) ELSE batch' = b /\ UNCHANGED fan
  BY DEF Gather
<1>3. /\ in' \in Seq(Entry) /\ Len(in') <= InCap /\ Head(in) \in Entry
      /\ ToSet(in) = {Head(in)} \cup ToSet(in') /\ Sorted(in')
      /\ Ahead({Head(in)}, ToSet(in'))
  <2>1. /\ Tail(in) \in Seq(Entry) /\ Len(Tail(in)) = Len(in) - 1 /\ Len(in) \in Nat \ {0}
        /\ Head(in) \in Entry /\ ToSet(in) = {Head(in)} \cup ToSet(Tail(in))
        /\ Sorted(in) => Sorted(Tail(in)) /\ Ahead({Head(in)}, ToSet(Tail(in)))
    BY <1>1, <1>2, TailLine
  <2>2. Sorted(in)
    BY <1>1 DEF HubInv
  <2>3. Len(Tail(in)) <= InCap
    BY <1>1, <2>1
  <2>4. QED
    BY <1>2, <2>1, <2>2, <2>3
<1>4. /\ b \in Seq(Entry) /\ ToSet(b) = ToSet(batch) \cup {Head(in)} /\ Len(b) \in Nat
      /\ Sorted(batch) /\ Ahead(ToSet(batch), {Head(in)}) => Sorted(b)
  <2>1. /\ b \in Seq(Entry) /\ ToSet(b) = ToSet(batch) \cup {Head(in)}
        /\ Sorted(batch) /\ Ahead(ToSet(batch), {Head(in)}) => Sorted(b)
    <3>1. batch \in Seq(Entry) /\ Head(in) \in Entry
      BY <1>1, <1>3
    <3>2. QED
      BY <3>1, AppendEntry
  <2>2. QED
    BY <2>1, LinesOf
<1> HIDE DEF b
<1>5. Sorted(b) /\ Ahead(ToSet(b), ToSet(in')) /\ ToSet(b) \cup ToSet(in') = InHub
  <2>1. Ahead(ToSet(batch), {Head(in)})
    BY <1>1, <1>3 DEF HubInv, Ahead
  <2>2. Ahead(ToSet(b), ToSet(in'))
    BY <1>1, <1>3, <1>4 DEF HubInv, Ahead
  <2>3. ToSet(b) \cup ToSet(in') = InHub
    BY <1>3, <1>4 DEF InHub
  <2>4. QED
    BY <1>1, <1>4, <2>1, <2>2, <2>3 DEF HubInv
<1>6. CASE Len(b) >= FullBatch
  BY <1>2, <1>3, <1>4, <1>5, <1>6, FlushPipe
<1>7. CASE ~(Len(b) >= FullBatch)
  <2>1. batch' = b /\ fan' = fan /\ Len(b) < FullBatch
    BY <1>1, <1>2, <1>4, <1>7
  <2>2. InHub' = InHub
    BY <1>5, <2>1 DEF InHub
  <2>3. HubTypes' /\ HubInv'
    BY <1>1, <1>3, <1>4, <1>5, <2>1, <2>2 DEF HubTypes, HubInv
  <2>4. \A r : FanFor(r)' = FanFor(r)
    BY <2>1 DEF FanFor
  <2>5. \A r \in Readers : r \in fan'.to => Ahead(Sent(r), ToSet(fan'.lines))
    BY <1>1, <2>1, ReaderParts DEF ReaderGood
  <2>6. QED
    BY <1>2, <2>1, <2>2, <2>3, <2>4, <2>5, HubStep
<1>8. QED
  BY <1>6, <1>7

LEMMA TickPipe ==
  ASSUME LogAssumption, PipeInv, Tick
  PROVE  PipeInv'
<1>1. /\ HubInv /\ in \in Seq(Entry) /\ Len(in) <= InCap /\ batch \in Seq(Entry)
  BY TypeParts DEF PipeInv, HubTypes
<1>2. Idle /\ Flush(batch) /\ UNCHANGED <<worker, net, count, reader>> /\ in' = in
  BY DEF Tick
<1>3. Sorted(batch) /\ Sorted(in) /\ Ahead(ToSet(batch), ToSet(in))
      /\ ToSet(batch) \cup ToSet(in) = InHub
  BY <1>1 DEF HubInv, InHub
<1>4. QED
  BY <1>1, <1>2, <1>3, FlushPipe

---------------------------------------------------------------------------
(* The readers.                                                            *)

\* A step that touches one reader, and may take him off the flush under way.
LEMMA ReaderStep ==
  ASSUME PipeInv, UNCHANGED <<worker, net, count, in, batch>>, NEW r \in Readers,
         HubTypes', ReaderTypes', fan'.to \subseteq fan.to, Sorted(fan'.lines),
         ToSet(fan'.lines) \subseteq ToSet(fan.lines),
         \A q \in Readers \ {r} :
           /\ chan'[q] = chan[q] /\ shown'[q] = shown[q] /\ due'[q] = due[q]
           /\ slow'[q] = slow[q] /\ state'[q] = state[q] /\ FanFor(q) \subseteq FanFor(q)',
         ReaderGood(r)', state'[r] = "open" => due'[r] \subseteq Reach(r)',
         Sent(r)' \subseteq Sent(r) \cup ToSet(fan.lines)
  PROVE  PipeInv'
<1>1. TypeOK /\ UpstreamInv /\ HubInv /\ ReaderInv /\ OnlyTheSlowLose
  BY DEF PipeInv
<1>2. UNCHANGED <<enabled, buffer, kicks, crashes, flights, serving, count, in, batch>>
  BY DEF worker, net
<1>3. InHub' = InHub
  BY <1>2 DEF InHub
<1>4. \A q \in Readers : ReaderGood(q) /\ (state[q] = "open" => due[q] \subseteq Reach(q))
  BY <1>1, ReaderParts
<1>5. \A q \in Readers \ {r} : Sent(q)' = Sent(q)
  BY DEF Sent, InChan
<1>6. ASSUME NEW q \in Readers \ {r}
      PROVE  ReaderGood(q)' /\ (state'[q] = "open" => due'[q] \subseteq Reach(q)')
  <2>1. q \in fan'.to => Ahead(Sent(q), ToSet(fan'.lines))
    BY <1>4 DEF ReaderGood, Ahead
  <2>2. ReaderGood(q)'
    BY <1>3, <1>4, <2>1, ReaderKept
  <2>3. state'[q] = "open" => due'[q] \subseteq Reach(q)'
    BY <1>3, <1>4, <1>5 DEF Reach
  <2>4. QED
    BY <2>2, <2>3
<1>7. ReaderInv' /\ OnlyTheSlowLose'
  BY <1>6, NextReaders
<1>8. HubInv'
  BY <1>1, <1>2, <1>3 DEF HubInv, Ahead
<1>9. Arrived' \subseteq Arrived
  BY <1>3, <1>5 DEF Arrived
<1>10. Posts' = Posts /\ flights' \cap serving' = {} /\ Written' = Written
  BY <1>1, <1>2, WrittenKept DEF Posts, UpstreamInv
<1>11. UpstreamInv'
  BY <1>1, <1>2, <1>9, <1>10, UpstreamKept
<1>12. WorkerTypes' /\ CountTypes'
  BY <1>1, <1>2, TypeParts DEF WorkerTypes, CountTypes
<1>13. QED
  BY <1>7, <1>8, <1>11, <1>12, NextTypes DEF PipeInv

\* A reader is offered what passes his filter: into his channel if there is room, and
\* otherwise it is lost to him.
LEMMA OfferPipe ==
  ASSUME LogAssumption, PipeInv, NEW r \in Readers, Offer(r)
  PROVE  PipeInv'
<1> DEFINE lines == Filtered(r, fan.lines)
           room == Len(chan[r]) < ReaderCap
<1>1. /\ TypeOK /\ HubTypes /\ ReaderTypes /\ HubInv /\ ReaderInv /\ OnlyTheSlowLose
      /\ fan.lines \in Seq(Entry) /\ fan.to \in SUBSET Readers
      /\ ReaderCap \in Nat
  BY TypeParts, FanFields, Sizes DEF PipeInv
<1>2. /\ r \in fan.to /\ UNCHANGED <<worker, net, count, in, batch>>
      /\ UNCHANGED <<in, batch, state, shown, due>>
      /\ chan' = IF lines # <<>> /\ room THEN [chan EXCEPT ![r] = Append(@, lines)] ELSE chan
      /\ slow' = IF room THEN slow ELSE [slow EXCEPT ![r] = @ \cup ToSet(lines)]
      /\ fan' = IF After(r) = {} THEN NoFan ELSE [fan EXCEPT !.to = After(r)]
  BY DEF Offer
<1>3. /\ lines \in Seq(Entry) /\ Sorted(lines)
      /\ ToSet(lines) = {e \in ToSet(fan.lines) : Passes(r, e)}
  BY <1>1, Filtering DEF HubInv
<1>4. ReaderGood(r) /\ (state[r] = "open" => due[r] \subseteq Reach(r))
  BY <1>1, ReaderParts
<1> HIDE DEF lines
<1>5. /\ chan[r] \in Seq(Seq(Entry)) /\ Len(chan[r]) \in Nat /\ Len(chan[r]) <= ReaderCap
      /\ slow[r] \in SUBSET Entry /\ ToSet(lines) \subseteq Entry
  BY <1>1, <1>3, LinesOf DEF ReaderTypes
<1>6. fan'.to = After(r) /\ fan' \in [lines : Seq(Entry), to : SUBSET Readers]
      /\ fan'.lines = IF After(r) = {} THEN <<>> ELSE fan.lines
  <2>1. CASE After(r) = {}
    BY <1>2, <2>1, NoFanFields
  <2>2. CASE After(r) # {}
    BY <1>1, <1>2, <2>2 DEF After, HubTypes
  <2>3. QED
    BY <2>1, <2>2
<1>7. /\ HubTypes' /\ fan'.to \subseteq fan.to /\ r \notin fan'.to /\ Sorted(fan'.lines)
      /\ ToSet(fan'.lines) \subseteq ToSet(fan.lines)
  BY <1>1, <1>2, <1>6, EmptyLines DEF HubTypes, HubInv, After
<1>8. /\ chan' \in [Readers -> Seq(Seq(Entry))] /\ chan'[r] \in Seq(Seq(Entry))
      /\ Len(chan'[r]) <= ReaderCap /\ ChanSorted(chan'[r])
      /\ \A q \in Readers \ {r} : chan'[q] = chan[q]
      /\ Contents(chan'[r]) \subseteq Contents(chan[r]) \cup ToSet(lines)
      /\ Contents(chan[r]) \subseteq Contents(chan'[r])
      /\ room => ToSet(lines) \subseteq Contents(chan'[r])
  <2>1. CASE lines # <<>> /\ room
    <3>1. chan' = [chan EXCEPT ![r] = Append(chan[r], lines)]
      BY <1>2, <2>1
    <3>2. /\ Append(chan[r], lines) \in Seq(Seq(Entry))
          /\ Len(Append(chan[r], lines)) = Len(chan[r]) + 1
          /\ Contents(Append(chan[r], lines)) = Contents(chan[r]) \cup ToSet(lines)
          /\ ChanSorted(chan[r]) /\ Sorted(lines) /\ Ahead(Contents(chan[r]), ToSet(lines))
             => ChanSorted(Append(chan[r], lines))
      BY <1>3, <1>5, ChanAppend
    <3>3. Ahead(Contents(chan[r]), ToSet(lines))
      <4>1. InChan(r) = Contents(chan[r])
        BY DEF InChan, Contents
      <4>2. QED
        BY <1>2, <1>3, <1>4, <4>1 DEF ReaderGood, Sent, Ahead
    <3>4. chan'[r] = Append(chan[r], lines) /\ \A q \in Readers \ {r} : chan'[q] = chan[q]
      BY <1>1, <3>1 DEF ReaderTypes
    <3>5. chan' \in [Readers -> Seq(Seq(Entry))]
      BY <1>1, <3>1, <3>2 DEF ReaderTypes
    <3>6. Len(chan[r]) + 1 <= ReaderCap
      BY <1>1, <1>5, <2>1
    <3>7. ChanSorted(chan'[r])
      BY <1>3, <1>4, <3>2, <3>3, <3>4 DEF ReaderGood
    <3>8. QED
      BY <3>2, <3>4, <3>5, <3>6, <3>7
  <2>2. CASE ~(lines # <<>> /\ room)
    <3>1. chan' = chan /\ (room => ToSet(lines) = {})
      BY <1>2, <2>2, EmptyLines
    <3>2. QED
      BY <1>1, <1>4, <1>5, <3>1 DEF ReaderTypes, ReaderGood
  <2>3. QED
    BY <2>1, <2>2
<1>9. /\ slow' \in [Readers -> SUBSET Entry] /\ \A q \in Readers \ {r} : slow'[q] = slow[q]
      /\ slow[r] \subseteq slow'[r] /\ (~room => ToSet(lines) \subseteq slow'[r])
  <2>1. CASE room
    BY <1>1, <1>2, <2>1 DEF ReaderTypes
  <2>2. CASE ~room
    <3>1. slow' = [slow EXCEPT ![r] = slow[r] \cup ToSet(lines)]
      BY <1>2, <2>2
    <3>2. slow[r] \cup ToSet(lines) \in SUBSET Entry
      BY <1>5
    <3>3. QED
      BY <1>1, <3>1, <3>2 DEF ReaderTypes
  <2>3. QED
    BY <2>1, <2>2
<1>10. ReaderTypes'
  <2>1. \A q \in Readers : Len(chan'[q]) <= ReaderCap
    BY <1>1, <1>8 DEF ReaderTypes
  <2>2. QED
    BY <1>1, <1>2, <1>8, <1>9, <2>1 DEF ReaderTypes
<1>11. /\ Sent(r)' \subseteq Sent(r) \cup ToSet(lines) /\ Sent(r) \subseteq Sent(r)'
       /\ InHub' = InHub /\ ToSet(lines) \subseteq Sent(r)' \cup slow'[r]
  <2>1. InChan(r) = Contents(chan[r]) /\ InChan(r)' = Contents(chan'[r])
    BY DEF InChan, Contents
  <2>2. Sent(r) = ToSet(shown[r]) \cup Contents(chan[r])
        /\ Sent(r)' = ToSet(shown[r]) \cup Contents(chan'[r])
    BY <1>2, <2>1 DEF Sent
  <2>3. InHub' = InHub
    BY <1>2 DEF InHub
  <2>4. QED
    BY <1>8, <1>9, <2>2, <2>3
<1>12. ReaderGood(r)'
  <2>1. Ahead(ToSet(shown[r]), Contents(chan'[r]))
    <3>1. ToSet(shown[r]) \subseteq Sent(r)
      BY DEF Sent
    <3>2. QED
      BY <1>2, <1>3, <1>4, <1>8, <3>1 DEF ReaderGood, Ahead
  <2>2. Ahead(Sent(r)', InHub')
    BY <1>1, <1>3, <1>4, <1>11 DEF ReaderGood, HubInv, Ahead
  <2>3. \A e \in Sent(r)' \cup due[r] : Passes(r, e)
    BY <1>3, <1>4, <1>11 DEF ReaderGood
  <2>4. QED
    BY <1>2, <1>4, <1>7, <1>8, <2>1, <2>2, <2>3 DEF ReaderGood
<1>13. state'[r] = "open" => due'[r] \subseteq Reach(r)'
  <2>1. SUFFICES ASSUME state[r] = "open", NEW e \in due[r] PROVE e \in Reach(r)'
    BY <1>2
  <2>2. e \in Reach(r) /\ Passes(r, e)
    BY <1>4, <2>1 DEF ReaderGood
  <2>3. FanFor(r) = ToSet(fan.lines)
    BY <1>2 DEF FanFor
  <2>4. e \in FanFor(r) => e \in ToSet(lines)
    BY <1>3, <2>2, <2>3
  <2>5. e \in InHub' \cup slow'[r] \cup Sent(r)'
    BY <1>9, <1>11, <2>2, <2>4 DEF Reach
  <2>6. QED
    BY <2>5 DEF Reach
<1>14. ASSUME NEW q \in Readers \ {r} PROVE FanFor(q) \subseteq FanFor(q)'
  <2>1. CASE q \in fan.to
    <3>1. q \in After(r)
      BY <2>1 DEF After
    <3>2. FanFor(q)' = ToSet(fan.lines)
      BY <1>6, <3>1 DEF FanFor
    <3>3. QED
      BY <2>1, <3>2 DEF FanFor
  <2>2. CASE q \notin fan.to
    BY <2>2 DEF FanFor
  <2>3. QED
    BY <2>1, <2>2
<1>15. Sent(r)' \subseteq Sent(r) \cup ToSet(fan.lines)
  BY <1>3, <1>11
<1>16. \A q \in Readers \ {r} :
         /\ chan'[q] = chan[q] /\ shown'[q] = shown[q] /\ due'[q] = due[q]
         /\ slow'[q] = slow[q] /\ state'[q] = state[q]
  BY <1>2, <1>8, <1>9
<1>17. QED
  BY <1>2, <1>7, <1>10, <1>12, <1>13, <1>14, <1>15, <1>16, ReaderStep

LEMMA SubscribePipe ==
  ASSUME PipeInv, NEW r \in Readers, Subscribe(r)
  PROVE  PipeInv'
<1>1. TypeOK /\ HubTypes /\ ReaderTypes /\ HubInv /\ ReaderInv
  BY TypeParts DEF PipeInv
<1>2. /\ state[r] = "new" /\ state' = [state EXCEPT ![r] = "open"]
      /\ UNCHANGED <<worker, net, count, in, batch>>
      /\ UNCHANGED <<in, batch, fan, chan, shown, due, slow>>
  BY DEF Subscribe, hub
<1>3. state'[r] = "open" /\ \A q \in Readers \ {r} : state'[q] = state[q]
  BY <1>1, <1>2 DEF ReaderTypes
<1>4. HubTypes' /\ ReaderTypes'
  BY <1>1, <1>2 DEF HubTypes, ReaderTypes
<1>5. ReaderGood(r) /\ due[r] = {}
  BY <1>1, <1>2, ReaderParts DEF ReaderGood
<1>6. Sent(r)' = Sent(r) /\ InHub' = InHub
  BY <1>2 DEF Sent, InChan, InHub
<1>7. ReaderGood(r)'
  BY <1>2, <1>3, <1>5, <1>6 DEF ReaderGood
<1>8. \A q : FanFor(q)' = FanFor(q)
  BY <1>2 DEF FanFor
<1>9. Sorted(fan.lines)
  BY <1>1 DEF HubInv
<1>10. QED
  BY <1>2, <1>3, <1>4, <1>5, <1>6, <1>7, <1>8, <1>9, ReaderStep

LEMMA ReceivePipe ==
  ASSUME LogAssumption, PipeInv, NEW r \in Readers, Receive(r)
  PROVE  PipeInv'
<1> DEFINE h == Head(chan[r])
           t == Tail(chan[r])
<1>1. TypeOK /\ HubTypes /\ ReaderTypes /\ HubInv /\ ReaderInv /\ OnlyTheSlowLose
  BY TypeParts DEF PipeInv
<1>2. /\ chan[r] # <<>> /\ shown' = [shown EXCEPT ![r] = shown[r] \o h]
      /\ chan' = [chan EXCEPT ![r] = t] /\ UNCHANGED <<worker, net, count, in, batch>>
      /\ UNCHANGED <<in, batch, fan, state, due, slow>>
  BY DEF Receive, hub
<1>3. /\ chan[r] \in Seq(Seq(Entry)) /\ shown[r] \in Seq(Entry) /\ Len(chan[r]) <= ReaderCap
      /\ ReaderGood(r) /\ (state[r] = "open" => due[r] \subseteq Reach(r))
  BY <1>1, ReaderParts DEF ReaderTypes
<1>4. /\ t \in Seq(Seq(Entry)) /\ Len(t) <= Len(chan[r]) /\ h \in Seq(Entry)
      /\ Contents(chan[r]) = ToSet(h) \cup Contents(t)
      /\ ChanSorted(t) /\ Sorted(h) /\ Ahead(ToSet(h), Contents(t))
  BY <1>2, <1>3, ChanTail DEF ReaderGood
<1> HIDE DEF h, t
<1>5. /\ shown[r] \o h \in Seq(Entry) /\ ToSet(shown[r] \o h) = ToSet(shown[r]) \cup ToSet(h)
      /\ Sorted(shown[r]) /\ Ahead(ToSet(shown[r]), ToSet(h)) => Sorted(shown[r] \o h)
  BY <1>3, <1>4, ConcatLines
<1>6. /\ shown'[r] = shown[r] \o h /\ chan'[r] = t
      /\ \A q \in Readers \ {r} : shown'[q] = shown[q] /\ chan'[q] = chan[q]
      /\ shown' \in [Readers -> Seq(Entry)] /\ chan' \in [Readers -> Seq(Seq(Entry))]
  BY <1>1, <1>2, <1>4, <1>5 DEF ReaderTypes
<1>7. Len(t) <= ReaderCap
  <2>1. Len(t) \in Nat /\ Len(chan[r]) \in Nat
    BY <1>3, <1>4
  <2>2. ReaderCap \in Nat
    BY Sizes
  <2>3. QED
    BY <1>3, <1>4, <2>1, <2>2
<1>8. HubTypes' /\ ReaderTypes'
  <2>1. \A q \in Readers : Len(chan'[q]) <= ReaderCap
    BY <1>1, <1>6, <1>7 DEF ReaderTypes
  <2>2. QED
    BY <1>1, <1>2, <1>6, <2>1 DEF HubTypes, ReaderTypes
<1>9. Sent(r)' = Sent(r) /\ InHub' = InHub
  <2>1. InChan(r) = Contents(chan[r]) /\ InChan(r)' = Contents(chan'[r])
    BY DEF InChan, Contents
  <2>2. Sent(r) = ToSet(shown[r]) \cup Contents(chan[r])
        /\ Sent(r)' = ToSet(shown'[r]) \cup Contents(chan'[r])
    BY <2>1 DEF Sent
  <2>3. InHub' = InHub
    BY <1>2 DEF InHub
  <2>4. QED
    BY <1>4, <1>5, <1>6, <2>2, <2>3
<1>10. ReaderGood(r)'
  <2>1. Sorted(shown'[r])
    BY <1>3, <1>4, <1>5, <1>6 DEF ReaderGood, Ahead
  <2>2. Ahead(ToSet(shown'[r]), Contents(t))
    BY <1>3, <1>4, <1>5, <1>6 DEF ReaderGood, Ahead
  <2>3. QED
    BY <1>2, <1>3, <1>4, <1>6, <1>9, <2>1, <2>2 DEF ReaderGood
<1>11. \A q : FanFor(q)' = FanFor(q)
  BY <1>2 DEF FanFor
<1>12. state'[r] = "open" => due'[r] \subseteq Reach(r)'
  BY <1>2, <1>3, <1>9, <1>11 DEF Reach
<1>13. Sorted(fan.lines)
  BY <1>1 DEF HubInv
<1>14. QED
  BY <1>2, <1>6, <1>8, <1>9, <1>10, <1>11, <1>12, <1>13, ReaderStep

LEMMA CancelPipe ==
  ASSUME LogAssumption, PipeInv, NEW r \in Readers, Cancel(r)
  PROVE  PipeInv'
<1>1. TypeOK /\ HubTypes /\ ReaderTypes /\ HubInv /\ ReaderInv /\ ReaderCap \in Nat
  BY TypeParts, Sizes DEF PipeInv
<1>2. /\ state[r] = "open" /\ state' = [state EXCEPT ![r] = "closed"]
      /\ chan' = [chan EXCEPT ![r] = <<>>] /\ UNCHANGED <<worker, net, count, in, batch>>
      /\ UNCHANGED <<in, batch, fan, shown, due, slow>>
  BY DEF Cancel, hub
<1>3. /\ state'[r] = "closed" /\ chan'[r] = <<>>
      /\ \A q \in Readers \ {r} : state'[q] = state[q] /\ chan'[q] = chan[q]
  BY <1>1, <1>2 DEF ReaderTypes
<1>4. HubTypes' /\ ReaderTypes'
  <2>1. chan' \in [Readers -> Seq(Seq(Entry))]
    BY <1>1, <1>2 DEF ReaderTypes
  <2>2. Len(chan'[r]) <= ReaderCap
    BY <1>1, <1>3
  <2>3. \A q \in Readers : Len(chan'[q]) <= ReaderCap
    BY <1>1, <1>3, <2>2 DEF ReaderTypes
  <2>4. QED
    BY <1>1, <1>2, <2>1, <2>3 DEF HubTypes, ReaderTypes
<1>5. ReaderGood(r)
  BY <1>1, ReaderParts
<1>6. Contents(<<>>) = {} /\ ChanSorted(<<>>)
  BY DEF Contents, ChanSorted
<1>7. Sent(r)' \subseteq Sent(r) /\ InHub' = InHub
  <2>1. InChan(r)' = Contents(chan'[r])
    BY DEF InChan, Contents
  <2>2. Sent(r)' = ToSet(shown[r])
    BY <1>2, <1>3, <1>6, <2>1 DEF Sent
  <2>3. InHub' = InHub
    BY <1>2 DEF InHub
  <2>4. QED
    BY <2>2, <2>3 DEF Sent
<1>8. ReaderGood(r)'
  <2>1. Ahead(Sent(r)', InHub') /\ (r \in fan.to => Ahead(Sent(r)', ToSet(fan.lines)))
    BY <1>5, <1>7 DEF ReaderGood, Ahead
  <2>2. Ahead(ToSet(shown[r]), {})
    BY DEF Ahead
  <2>3. \A e \in Sent(r)' \cup due[r] : Passes(r, e)
    BY <1>5, <1>7 DEF ReaderGood
  <2>4. QED
    BY <1>2, <1>3, <1>5, <1>6, <2>1, <2>2, <2>3 DEF ReaderGood
<1>9. \A q : FanFor(q)' = FanFor(q)
  BY <1>2 DEF FanFor
<1>10. Sorted(fan.lines)
  BY <1>1 DEF HubInv
<1>11. QED
  BY <1>2, <1>3, <1>4, <1>7, <1>8, <1>9, <1>10, ReaderStep

---------------------------------------------------------------------------
(* The invariant.                                                          *)

LEMMA InitPipe ==
  ASSUME LogAssumption, Init
  PROVE  PipeInv
<1>1. /\ buffer = <<>> /\ flights = {} /\ serving = {} /\ in = <<>> /\ batch = <<>>
      /\ fan.lines = <<>> /\ fan.to = {} /\ fan \in [lines : Seq(Entry), to : SUBSET Readers]
      /\ \A r \in Readers : /\ state[r] = "new" /\ chan[r] = <<>> /\ shown[r] = <<>>
                            /\ due[r] = {} /\ slow[r] = {}
  BY NoFanFields DEF Init
<1>2. TypeOK
  <2>1. WorkerTypes
    BY Sizes DEF Init, WorkerTypes
  <2>2. CountTypes
    BY Sizes DEF Init, CountTypes
  <2>3. HubTypes
    <3>1. Len(<<>>) = 0 /\ <<>> \in Seq(Entry)
      OBVIOUS
    <3>2. QED
      BY <1>1, <3>1, Sizes DEF HubTypes
  <2>4. ReaderTypes
    <3>1. \A r \in Readers : Len(chan[r]) <= ReaderCap
      BY <1>1, Sizes
    <3>2. QED
      BY <3>1 DEF Init, ReaderTypes
  <2>5. QED
    BY <2>1, <2>2, <2>3, <2>4, TypeParts
<1>3. ToSet(buffer) = {} /\ ToSet(in) = {} /\ ToSet(batch) = {} /\ ToSet(fan.lines) = {}
  BY <1>1, EmptyLines
<1>4. \A r \in Readers : ToSet(shown[r]) = {} /\ Contents(chan[r]) = {} /\ Sent(r) = {}
  <2>1. Contents(<<>>) = {}
    BY DEF Contents
  <2>2. \A r : InChan(r) = Contents(chan[r])
    BY DEF InChan, Contents
  <2>3. QED
    BY <1>1, <2>1, <2>2, EmptyLines DEF Sent
<1>5. InHub = {} /\ Arrived = {}
  BY <1>3, <1>4 DEF InHub, Arrived
<1>6. UpstreamInv
  <2>1. Posts = {} /\ Upstream = {}
    BY <1>1, <1>3 DEF Posts, Upstream
  <2>2. QED
    BY <1>1, <1>5, <2>1, EmptyLines DEF UpstreamInv
<1>7. HubInv
  BY <1>1, <1>3, EmptyLines DEF HubInv, Ahead
<1>8. ReaderInv
  <2>1. ChanSorted(<<>>)
    BY DEF ChanSorted
  <2>2. \A r \in Readers : ReaderGood(r)
    BY <1>1, <1>4, <1>5, <2>1, EmptyLines DEF ReaderGood, Ahead
  <2>3. QED
    BY <2>2, ReaderParts
<1>9. OnlyTheSlowLose
  BY <1>1, ReaderParts
<1>10. QED
  BY <1>2, <1>6, <1>7, <1>8, <1>9 DEF PipeInv

LEMMA StutterPipe ==
  ASSUME PipeInv, UNCHANGED vars
  PROVE  PipeInv'
<1>1. /\ UNCHANGED <<hub, reader, count>>
      /\ UNCHANGED <<enabled, buffer, kicks, crashes, flights, serving>>
  BY DEF vars, worker, net
<1>2. TypeOK /\ UpstreamInv /\ HubInv /\ ReaderInv /\ OnlyTheSlowLose
  BY DEF PipeInv
<1>3. /\ HubTypes' /\ ReaderTypes' /\ HubInv' /\ ReaderInv' /\ OnlyTheSlowLose'
      /\ Arrived' = Arrived
  BY <1>1, <1>2, PanelKept
<1>4. Posts' = Posts /\ flights' \cap serving' = {} /\ Written' = Written
  BY <1>1, <1>2, WrittenKept DEF Posts, UpstreamInv
<1>5. UpstreamInv'
  BY <1>1, <1>2, <1>3, <1>4, UpstreamKept
<1>6. WorkerTypes' /\ CountTypes'
  BY <1>1, <1>2, TypeParts DEF WorkerTypes, CountTypes
<1>7. QED
  BY <1>3, <1>5, <1>6, NextTypes DEF PipeInv

\* The invariant is inductive.
LEMMA NextPipe ==
  ASSUME LogAssumption, PipeInv, [Next]_vars
  PROVE  PipeInv'
<1>1. CASE NodeWrites
  BY <1>1, NodeWritesPipe
<1>2. CASE TickerPush \/ KickedPush
  <2>1. TakeBuffer /\ kicks' \in Nat
    <3>1. kicks \in Nat
      BY DEF PipeInv, TypeOK
    <3>2. QED
      BY <1>2, <3>1 DEF TickerPush, KickedPush
  <2>2. QED
    BY <2>1, TakeBufferPipe
<1>3. CASE SetPanelURL \/ NodeCrash \/ \E f \in flights : PostLost(f) \/ PostArrives(f)
  BY <1>3, PostsPipe
<1>4. CASE \E f \in serving : EmitFromNode(f)
  BY <1>4, EmitFromNodePipe
<1>5. CASE PanelWrites
  BY <1>5, PanelWritesPipe
<1>6. CASE Gather \/ Tick
  BY <1>6, GatherPipe, TickPipe
<1>7. CASE \E r \in Readers : Offer(r) \/ Subscribe(r) \/ Receive(r) \/ Cancel(r)
  BY <1>7, OfferPipe, SubscribePipe, ReceivePipe, CancelPipe
<1>8. CASE UNCHANGED vars
  BY <1>8, StutterPipe
<1>9. QED
  BY <1>1, <1>2, <1>3, <1>4, <1>5, <1>6, <1>7, <1>8 DEF Next

\* In every reachable state each line is in one place of the pipeline (the worker's
\* buffer, one post, the hub, or what a reader has been sent), each place is ahead of
\* those behind it, and no open reader has lost a line except to his own full channel.
THEOREM OnePlace == ASSUME LogAssumption PROVE Spec => []PipeInv
<1>1. Init => PipeInv
  BY InitPipe
<1>2. PipeInv /\ [Next]_vars => PipeInv'
  BY NextPipe
<1>3. QED
  BY <1>1, <1>2, PTL DEF Spec

\* The streams, the channels and the pages are what the module says they are.
THEOREM PipeTypes == ASSUME LogAssumption PROVE Spec => []TypeOK
<1>1. PipeInv => TypeOK
  BY DEF PipeInv
<1>2. QED
  BY <1>1, OnePlace, PTL

\* A line the hub accepted while a reader was watching is shown to him or on its way,
\* unless his own channel was full (Hub.run in web/logsse/hub.go).
THEOREM SlowReadersOnly == ASSUME LogAssumption PROVE Spec => []OnlyTheSlowLose
<1>1. PipeInv => OnlyTheSlowLose
  BY DEF PipeInv
<1>2. QED
  BY <1>1, OnePlace, PTL

---------------------------------------------------------------------------
(* The refinement: writing a line is Write, a batch written to a reader's  *)
(* connection is Show, and nothing else is seen.                           *)

LEMMA InitLog ==
  ASSUME Init
  PROVE  Log!Init
<1>1. Written = {}
  <2>1. \A s \in Sources : 1 .. count[s] = {}
    BY DEF Init
  <2>2. QED
    BY <2>1 DEF Written
<1>2. QED
  BY <1>1 DEF Init, Log!Init

LEMMA WriteLog ==
  ASSUME LogAssumption, PipeInv, NEW s \in Sources, count[s] < MaxLines[s], Counted(s),
         UNCHANGED shown
  PROVE  \E e \in Entry : Log!Write(e)
<1>1. CountTypes
  BY TypeParts DEF PipeInv
<1>2. /\ NextLine(s) \in Entry /\ NextLine(s) \notin Written
      /\ Written' = Written \cup {NextLine(s)}
  BY <1>1, NewLine
<1>3. Log!Write(NextLine(s))
  BY <1>2 DEF Log!Write
<1>4. QED
  BY <1>2, <1>3

LEMMA ReceiveLog ==
  ASSUME LogAssumption, PipeInv, NEW r \in Readers, Receive(r)
  PROVE  Log!Show(r)
<1> DEFINE h == Head(chan[r])
<1>1. /\ TypeOK /\ ReaderTypes /\ ReaderInv /\ UpstreamInv /\ PipeInv'
  BY ReceivePipe, TypeParts DEF PipeInv
<1>2. /\ chan[r] # <<>> /\ shown' = [shown EXCEPT ![r] = shown[r] \o h] /\ UNCHANGED count
  BY DEF Receive
<1>3. chan[r] \in Seq(Seq(Entry)) /\ shown[r] \in Seq(Entry) /\ ReaderGood(r)
  BY <1>1, ReaderParts DEF ReaderTypes
<1>4. h \in Seq(Entry) /\ Contents(chan[r]) = ToSet(h) \cup Contents(Tail(chan[r]))
  BY <1>2, <1>3, ChanTail
<1> HIDE DEF h
<1>5. shown'[r] = shown[r] \o h /\ shown' = [shown EXCEPT ![r] = shown'[r]]
  BY <1>1, <1>2 DEF ReaderTypes
<1>6. /\ shown'[r] \in Seq(Entry) /\ ToSet(shown'[r]) = ToSet(shown[r]) \cup ToSet(h)
      /\ IsPrefix(shown[r], shown'[r])
  BY <1>3, <1>4, <1>5, ConcatLines
<1>7. Sorted(shown'[r])
  BY <1>1 DEF PipeInv, ReaderInv
<1>8. Log!NoRepetition(shown'[r]) /\ Log!PanelInOrder(shown'[r])
  BY <1>6, <1>7, SortedIsShown
<1>9. ToSet(shown'[r]) \subseteq Written \cap {e \in Entry : Passes(r, e)}
  <2>1. ToSet(shown'[r]) \subseteq Sent(r)
    <3>1. InChan(r) = Contents(chan[r])
      BY DEF InChan, Contents
    <3>2. QED
      BY <1>4, <1>6, <3>1 DEF Sent
  <2>2. Sent(r) \subseteq Written
    BY <1>1 DEF UpstreamInv, Arrived
  <2>3. \A e \in Sent(r) : Passes(r, e)
    BY <1>3 DEF ReaderGood
  <2>4. ToSet(shown'[r]) \subseteq Entry
    BY <1>6, LinesOf
  <2>5. QED
    BY <2>1, <2>2, <2>3, <2>4
<1>10. Written' = Written
  BY <1>2, WrittenKept
<1> DEFINE wanted == [q \in Readers |-> {e \in Entry : Passes(q, e)}]
<1>11. wanted[r] = {e \in Entry : Passes(r, e)}
  OBVIOUS
<1>12. ToSet(shown'[r]) \subseteq Written \cap wanted[r]
  BY <1>9, <1>11
<1>13. Log!Show(r) <=> /\ shown' = [shown EXCEPT ![r] = shown'[r]]
                       /\ Log!IsPrefix(shown[r], shown'[r])
                       /\ Log!ToSet(shown'[r]) \subseteq Written \cap wanted[r]
                       /\ Log!NoRepetition(shown'[r]) /\ Log!PanelInOrder(shown'[r])
                       /\ Written' = Written
  BY DEF Log!Show
<1> HIDE DEF wanted
<1>14. Log!IsPrefix(shown[r], shown'[r])
  BY <1>6 DEF IsPrefix, Log!IsPrefix
<1>15. Log!ToSet(shown'[r]) = ToSet(shown'[r])
  BY DEF ToSet, Log!ToSet
<1>16. QED
  BY <1>5, <1>8, <1>10, <1>12, <1>13, <1>14, <1>15

\* Every step is one of LossyLog, or none that it sees.
LEMMA NextLog ==
  ASSUME LogAssumption, PipeInv, [Next]_vars
  PROVE  [Log!Next]_(Log!vars)
<1>1. CASE NodeWrites
  <2>1. /\ "node" \in Sources /\ count["node"] < MaxLines["node"] /\ Counted("node")
        /\ UNCHANGED shown
    BY <1>1 DEF NodeWrites, reader, Sources
  <2>2. QED
    BY <2>1, WriteLog DEF Log!Next
<1>2. CASE PanelWrites
  <2>1. /\ "panel" \in Sources /\ count["panel"] < MaxLines["panel"] /\ Counted("panel")
        /\ UNCHANGED shown
    BY <1>2 DEF PanelWrites, Accept, Sources
  <2>2. QED
    BY <2>1, WriteLog DEF Log!Next
<1>3. CASE \E r \in Readers : Receive(r)
  BY <1>3, ReceiveLog DEF Log!Next
<1>4. ASSUME UNCHANGED <<count, shown>> PROVE UNCHANGED Log!vars
  BY <1>4, WrittenKept DEF Log!vars
<1>5. CASE SetPanelURL \/ TickerPush \/ KickedPush \/ NodeCrash \/ UNCHANGED vars
  <2>1. UNCHANGED <<count, shown>>
    BY <1>5 DEF SetPanelURL, TickerPush, KickedPush, TakeBuffer, NodeCrash, vars, reader
  <2>2. QED
    BY <1>4, <2>1
<1>6. CASE \/ \E f \in flights : PostLost(f) \/ PostArrives(f)
           \/ \E f \in serving : EmitFromNode(f)
           \/ Gather \/ Tick
  <2>1. UNCHANGED <<count, shown>>
    BY <1>6 DEF PostLost, PostArrives, EmitFromNode, Accept, Gather, Tick, reader
  <2>2. QED
    BY <1>4, <2>1
<1>7. CASE \E r \in Readers : Offer(r) \/ Subscribe(r) \/ Cancel(r)
  <2>1. UNCHANGED <<count, shown>>
    BY <1>7 DEF Offer, Subscribe, Cancel
  <2>2. QED
    BY <1>4, <2>1
<1>8. QED
  BY <1>1, <1>2, <1>3, <1>5, <1>6, <1>7 DEF Next

\* Each reader is shown written lines that pass his filter, each at most once, and the
\* panel's own in the order they were written: the pipeline implements LossyLog.
THEOREM ImplementsLog == ASSUME LogAssumption PROVE Spec => AtMostOnce
<1>1. Init => Log!Init
  BY InitLog
<1>2. PipeInv /\ [Next]_vars => [Log!Next]_(Log!vars)
  BY NextLog
<1>3. QED
  BY <1>1, <1>2, OnePlace, PTL DEF Spec, AtMostOnce, Log!Spec

-----------------------------------------------------------------------------
(* What the panel tells its workers (Fleet), for any numbers of nodes,     *)
(* inbounds, ports, edits, lost calls and stopped cores.                   *)

CONSTANTS Nodes, Inbounds, Ports, Rule, Given, Profiled, Blocks,
          MaxAsks, MaxEdits, MaxFaults, MaxStops
VARIABLES row, available, assigned, nodes, on, blocked, asks, need, asked, pushing,
          block, calls, conf, running, owed, edits, faults, stops

F == INSTANCE Fleet WITH enabled <- available

-----------------------------------------------------------------------------
(* What the panel wants.                                                   *)

\* The rule is wanted wherever one of the enabled inbounds is.
LEMMA WantedRule ==
  ASSUME NEW n
  PROVE  /\ F!Wanted(n)[Rule] = IF blocked /\ F!On(n) # {} THEN [port |-> 0, ver |-> 1] ELSE F!Absent
         /\ F!Wanted(n)'[Rule] = IF blocked' /\ F!On(n)' # {} THEN [port |-> 0, ver |-> 1] ELSE F!Absent
  BY DEF F!Wanted, F!Things

\* An inbound is wanted as its row has it, where it is enabled and assigned.
LEMMA WantedInbound ==
  ASSUME F!FleetAssumption, NEW n, NEW i \in Inbounds
  PROVE  /\ F!Wanted(n)[i] = IF i \in F!On(n) THEN row[i] ELSE F!Absent
         /\ F!Wanted(n)'[i] = IF i \in F!On(n)' THEN row'[i] ELSE F!Absent
<1>1. i \in F!Things /\ i # Rule
  BY DEF F!Things, F!FleetAssumption
<1> QED
  BY <1>1 DEF F!Wanted

\* The edit of one inbound leaves the others as they are.
LEMMA OtherInbounds ==
  ASSUME F!FleetAssumption, NEW i \in Inbounds, NEW n \in Nodes,
         \A j \in Inbounds \ {i} : row'[j] = row[j] /\ available'[j] = available[j],
         \A j \in Inbounds \ {i} : <<j, n>> \in assigned' <=> <<j, n>> \in assigned
  PROVE  \A j \in Inbounds \ {i} :
           (j \in F!On(n)' <=> j \in F!On(n)) /\ F!Wanted(n)'[j] = F!Wanted(n)[j]
<1> SUFFICES ASSUME NEW j \in Inbounds \ {i}
             PROVE  (j \in F!On(n)' <=> j \in F!On(n)) /\ F!Wanted(n)'[j] = F!Wanted(n)[j]
  OBVIOUS
<1>1. j \in F!On(n)' <=> j \in F!On(n)
  BY DEF F!On, F!Exists
<1> QED
  BY <1>1, WantedInbound

\* What is the same about the rows wants the same.
LEMMA SameWanted ==
  ASSUME NEW n, UNCHANGED <<row, available, assigned, blocked>>
  PROVE  F!On(n)' = F!On(n) /\ F!Wanted(n)' = F!Wanted(n)
  BY DEF F!On, F!Exists, F!Wanted

\* Contents that are wanted are contents.
LEMMA WantedType ==
  ASSUME F!FleetAssumption, F!TypeOK, NEW n
  PROVE  F!Wanted(n) \in [F!Things -> F!Content]
<1>1. \A x \in F!Things \ {Rule} : row[x] \in F!Content
  BY DEF F!TypeOK, F!Things
<1>2. [port |-> 0, ver |-> 1] \in F!Content /\ F!Absent \in F!Content
  BY DEF F!Content, F!Deleted
<1>3. \A x \in F!Things : F!Wanted(n)[x] \in F!Content
  <2> SUFFICES ASSUME NEW x \in F!Things PROVE F!Wanted(n)[x] \in F!Content
    OBVIOUS
  <2>1. CASE x = Rule
    BY <2>1, <1>2, WantedRule
  <2>2. CASE x # Rule
    BY <2>2, <1>1, <1>2, WantedInbound DEF F!Things
  <2> QED
    BY <2>1, <2>2
<1> QED
  BY <1>3 DEF F!Wanted

-----------------------------------------------------------------------------
(* Calls.                                                                  *)

\* A call ages without becoming another one.
LEMMA AgedCalls ==
  ASSUME F!Shapes, NEW x \in F!Things
  PROVE  /\ F!Aged(x) \subseteq F!Call
         /\ \A c \in F!Aged(x) : c.kind \in {"update", "remove", "assign"} => c.on \in Inbounds
         /\ \A c \in calls : \E d \in F!Aged(x) : d.node = c.node /\ F!About(d) = F!About(c)
<1> DEFINE aged(c) == IF c.kind = "apply" THEN [c EXCEPT !.old = @ \cup {x, Rule}]
                      ELSE IF c.on = x THEN [c EXCEPT !.old = @ \cup {x}] ELSE c
<1>1. ASSUME NEW c \in calls
      PROVE  /\ aged(c) \in F!Call /\ aged(c).node = c.node /\ aged(c).kind = c.kind
             /\ aged(c).on = c.on
  <2>1. c \in F!Call
    BY DEF F!Shapes
  <2>2. Rule \in F!Things
    BY DEF F!Things
  <2> QED
    BY <2>1, <2>2 DEF F!Call
<1>2. \A c \in calls : F!About(aged(c)) = F!About(c)
  BY <1>1 DEF F!About
<1>3. F!Aged(x) = {aged(c) : c \in calls}
  BY DEF F!Aged
<1> HIDE DEF aged
<1>4. F!Aged(x) \subseteq F!Call
  BY <1>1, <1>3
<1>5. \A c \in F!Aged(x) : c.kind \in {"update", "remove", "assign"} => c.on \in Inbounds
  BY <1>1, <1>3 DEF F!Shapes
<1>6. \A c \in calls : \E d \in F!Aged(x) : d.node = c.node /\ F!About(d) = F!About(c)
  BY <1>1, <1>2, <1>3
<1> QED
  BY <1>4, <1>5, <1>6

\* What an aged call tells of the things that have not changed, it told before.
LEMMA AgedAreCurrent ==
  ASSUME F!FleetAssumption, F!Shapes, F!CallsAreCurrent, NEW i \in F!Things, NEW E,
         calls' = F!Aged(i) \cup E, nodes' \subseteq nodes,
         \A n \in nodes', x \in Inbounds \ {i} : F!Wanted(n)'[x] = F!Wanted(n)[x],
         \A c \in E : c.node \in nodes' =>
           \A x \in F!About(c) \ c.old : c.give[x] = F!Wanted(c.node)'[x]
  PROVE  F!CallsAreCurrent'
<1> SUFFICES ASSUME NEW c \in calls', c.node \in nodes', NEW x \in F!About(c) \ c.old
             PROVE  c.give[x] = F!Wanted(c.node)'[x]
  BY DEF F!CallsAreCurrent
<1>1. CASE c \in E
  BY <1>1
<1>2. CASE c \in F!Aged(i)
  <2>1. PICK d \in calls :
          c = IF d.kind = "apply" THEN [d EXCEPT !.old = @ \cup {i, Rule}]
              ELSE IF d.on = i THEN [d EXCEPT !.old = @ \cup {i}] ELSE d
    BY <1>2 DEF F!Aged
  <2>2. d \in F!Call
    BY DEF F!Shapes
  <2>3. c.node = d.node /\ c.give = d.give /\ c.kind = d.kind /\ c.on = d.on
    BY <2>1, <2>2 DEF F!Call
  <2>4. x \in F!About(d) \ d.old /\ x # i /\ x \in F!Things
    <3>1. F!About(c) = F!About(d) /\ F!About(d) \subseteq F!Things
      BY <2>2, <2>3 DEF F!About, F!Call
    <3>2. CASE d.kind = "apply"
      BY <3>1, <3>2, <2>1, <2>2 DEF F!Call
    <3>3. CASE d.kind # "apply" /\ d.on = i
      <4>1. F!About(d) \subseteq {i} /\ c.old = d.old \cup {i}
        BY <3>3, <2>1, <2>2 DEF F!About, F!Call
      <4> QED
        BY <4>1, <3>1
    <3>4. CASE d.kind # "apply" /\ d.on # i
      <4>1. F!About(d) \subseteq {d.on} /\ c = d
        BY <3>4, <2>1 DEF F!About
      <4> QED
        BY <3>4, <4>1, <3>1
    <3> QED
      BY <3>2, <3>3, <3>4
  <2>5. x \in Inbounds
    <3>1. CASE d.kind = "apply"
      <4>1. Rule \in c.old
        BY <3>1, <2>1, <2>2 DEF F!Call
      <4> QED
        BY <4>1, <2>4 DEF F!Things
    <3>2. CASE d.kind # "apply"
      <4>1. d.kind # "stop" /\ x = d.on
        BY <3>2, <2>4 DEF F!About
      <4>2. d.kind \in {"update", "remove", "assign"}
        BY <3>2, <4>1, <2>2 DEF F!Call
      <4> QED
        BY <4>1, <4>2 DEF F!Shapes
    <3> QED
      BY <3>1, <3>2
  <2>6. d.give[x] = F!Wanted(d.node)[x]
    BY <2>3, <2>4 DEF F!CallsAreCurrent
  <2> QED
    BY <2>3, <2>4, <2>5, <2>6
<1> QED
  BY <1>1, <1>2

\* A call of this kind that tells one of these nodes about x.
Tells(c, kind, ns, x, give) ==
  /\ c \in F!Call /\ c.kind = kind /\ c.node \in ns /\ c.on = x /\ c.give[x] = give
  /\ F!About(c) = IF kind = "stop" THEN {} ELSE {x}

\* One of the calls S tells node n about x.
Told(n, x, S) == \E c \in S : c.node = n /\ x \in F!About(c)

\* The calls about one thing.
LEMMA HotCalls ==
  ASSUME NEW kind \in {"stop", "update", "remove", "assign"}, NEW ns \in SUBSET Nodes,
         NEW x \in F!Things, NEW give \in F!Content
  PROVE  /\ \A c \in F!Hot(kind, ns, x, give) : Tells(c, kind, ns, x, give)
         /\ kind # "stop" => \A n \in ns : Told(n, x, F!Hot(kind, ns, x, give))
<1> DEFINE g == [F!Empty EXCEPT ![x] = give]
<1>1. g \in [F!Things -> F!Content] /\ g[x] = give
  BY DEF F!Empty, F!Content
<1> HIDE DEF g
<1> DEFINE call(n) == [kind |-> kind, node |-> n, on |-> x, give |-> g, old |-> {}]
<1>2. F!Hot(kind, ns, x, give) = {call(n) : n \in ns}
  BY DEF F!Hot, g
<1>3. ASSUME NEW n \in ns
      PROVE  Tells(call(n), kind, ns, x, give) /\ call(n).node = n
  <2>1. call(n) \in F!Call
    BY <1>1 DEF F!Call
  <2>2. F!About(call(n)) = IF kind = "stop" THEN {} ELSE {x}
    BY DEF F!About
  <2> QED
    BY <2>1, <2>2, <1>1 DEF Tells
<1> HIDE DEF call
<1>4. \A c \in F!Hot(kind, ns, x, give) : Tells(c, kind, ns, x, give)
  BY <1>2, <1>3
<1>5. kind # "stop" => \A n \in ns : Told(n, x, F!Hot(kind, ns, x, give))
  BY <1>2, <1>3 DEF Told, Tells
<1> QED
  BY <1>4, <1>5

\* A full configuration.
LEMMA FullCall ==
  ASSUME F!FleetAssumption, F!TypeOK, NEW n \in Nodes
  PROVE  /\ F!Full(n) \in F!Call /\ F!Full(n).kind = "apply" /\ F!Full(n).node = n
         /\ F!Full(n).give = F!Wanted(n) /\ F!About(F!Full(n)) = F!Things /\ F!Full(n).old = {}
  BY WantedType DEF F!Full, F!Call, F!About, F!Things

-----------------------------------------------------------------------------
(* What is accounted for stays so.                                         *)

CallsKept == \A c \in calls : \E d \in calls' : d.node = c.node /\ F!About(d) = F!About(c)

\* A difference that was accounted for and is no new one.
LEMMA Carried ==
  ASSUME NEW n, NEW x, F!Accounted(n, x), F!Differs(n, x)' => F!Differs(n, x),
         owed \subseteq owed', CallsKept, pushing \subseteq pushing', UNCHANGED block,
         F!DueWithPush(n, x) => F!DueWithPush(n, x)'
  PROVE  F!Accounted(n, x)'
<1> SUFFICES ASSUME F!Differs(n, x)'
             PROVE  (<<n, x>> \in owed \/ F!OnTheWay(n, x) \/ F!DueWithPush(n, x))'
  BY DEF F!Accounted
<1>1. <<n, x>> \in owed \/ F!OnTheWay(n, x) \/ F!DueWithPush(n, x)
  BY DEF F!Accounted
<1>2. F!OnTheWay(n, x) => F!OnTheWay(n, x)'
  BY DEF F!OnTheWay, CallsKept, F!StillToldOf
<1> QED
  BY <1>1, <1>2

\* The rule of a node that keeps an inbound, or gets none.
LEMMA RuleCarried ==
  ASSUME NEW n, UNCHANGED <<blocked, conf>>, F!On(n)' # {} => F!On(n) # {}
  PROVE  F!Differs(n, Rule)' => F!Differs(n, Rule)
  BY WantedRule DEF F!Differs

\* What is wanted, and served, as before.
LEMMA ThingCarried ==
  ASSUME NEW n, NEW x, UNCHANGED conf, F!Wanted(n)'[x] = F!Wanted(n)[x],
         x = Rule => F!On(n)' = F!On(n)
  PROVE  F!Differs(n, x)' => F!Differs(n, x)
  BY DEF F!Differs

\* An inbound that was not and is not wanted.
LEMMA NotWanted ==
  ASSUME F!FleetAssumption, NEW n, NEW i \in Inbounds, UNCHANGED conf,
         i \notin F!On(n), i \notin F!On(n)'
  PROVE  F!Differs(n, i)' => F!Differs(n, i)
<1>1. i # Rule
  BY DEF F!FleetAssumption
<1> QED
  BY <1>1, WantedInbound DEF F!Differs

\* The edit of inbound i: i and the rule are to be shown, the rest follows.
LEMMA EditAccounted ==
  ASSUME F!FleetAssumption, F!FleetInv, NEW i \in Inbounds,
         nodes' \subseteq nodes, nodes \subseteq Nodes, on' = on \cap nodes',
         UNCHANGED <<blocked, conf, pushing, block>>,
         need \/ asked => need' \/ asked', owed \subseteq owed', CallsKept,
         \A j \in Inbounds \ {i} : row'[j] = row[j] /\ available'[j] = available[j],
         \A j \in Inbounds \ {i}, n \in nodes' : <<j, n>> \in assigned' <=> <<j, n>> \in assigned,
         \A n \in nodes' : F!Accounted(n, i)',
         \A n \in nodes' : i \in F!On(n)' /\ i \notin F!On(n) => <<n, Rule>> \in owed'
  PROVE  F!AllAccounted'
<1> SUFFICES ASSUME NEW n \in nodes', NEW x \in F!Things
             PROVE  F!Accounted(n, x)'
  BY DEF F!AllAccounted
<1>0. n \in nodes /\ n \in Nodes /\ F!Accounted(n, x)
  BY DEF F!FleetInv, F!AllAccounted
<1>1. CASE x = i
  BY <1>1
<1>2. CASE x \in Inbounds \ {i}
  <2>1. (x \in F!On(n)' <=> x \in F!On(n)) /\ F!Wanted(n)'[x] = F!Wanted(n)[x]
    BY <1>0, <1>2, OtherInbounds
  <2>2. F!Differs(n, x)' => F!Differs(n, x)
    BY <2>1, <1>2, ThingCarried DEF F!FleetAssumption
  <2>3. F!DueWithPush(n, x) => F!DueWithPush(n, x)'
    BY <2>1 DEF F!DueWithPush
  <2> QED
    BY <1>0, <2>2, <2>3, Carried
<1>3. CASE x = Rule
  <2>1. CASE i \in F!On(n)' /\ i \notin F!On(n)
    BY <2>1, <1>3 DEF F!Accounted
  <2>2. CASE ~(i \in F!On(n)' /\ i \notin F!On(n))
    <3>1. F!On(n)' # {} => F!On(n) # {}
      <4> SUFFICES ASSUME NEW j \in F!On(n)' PROVE F!On(n) # {}
        OBVIOUS
      <4>1. j \in Inbounds
        BY DEF F!On
      <4>2. CASE j = i
        BY <4>2, <2>2
      <4>3. CASE j # i
        BY <4>1, <4>3, <1>0, OtherInbounds
      <4> QED
        BY <4>2, <4>3
    <3>2. F!Differs(n, x)' => F!Differs(n, x)
      BY <3>1, <1>3, RuleCarried
    <3>3. F!DueWithPush(n, x) => F!DueWithPush(n, x)'
      BY <1>3 DEF F!DueWithPush
    <3> QED
      BY <1>0, <3>2, <3>3, Carried
  <2> QED
    BY <2>1, <2>2
<1> QED
  BY <1>1, <1>2, <1>3 DEF F!Things

\* No inbound is edited: what was wanted is wanted, and what is due stays due.
LEMMA RowsAccounted ==
  ASSUME F!FleetInv, UNCHANGED <<row, available, assigned, blocked, conf, block>>,
         nodes' \subseteq nodes, pushing \subseteq pushing', owed \subseteq owed', CallsKept,
         \A n \in nodes' : (n \in on => need \/ asked) => (n \in on' => need' \/ asked')
  PROVE  F!AllAccounted'
<1> SUFFICES ASSUME NEW n \in nodes', NEW x \in F!Things
             PROVE  F!Accounted(n, x)'
  BY DEF F!AllAccounted
<1>1. F!Accounted(n, x)
  BY DEF F!FleetInv, F!AllAccounted
<1>2. F!On(n)' = F!On(n) /\ F!Wanted(n)' = F!Wanted(n)
  BY SameWanted
<1>3. F!Differs(n, x)' => F!Differs(n, x)
  BY <1>2, ThingCarried
<1>4. F!DueWithPush(n, x) => F!DueWithPush(n, x)'
  BY <1>2 DEF F!DueWithPush
<1> QED
  BY <1>1, <1>3, <1>4, Carried

\* No inbound is edited: the calls there were are as current as before.
LEMMA RowsCurrent ==
  ASSUME F!CallsAreCurrent, UNCHANGED <<row, available, assigned, blocked>>,
         nodes' \subseteq nodes, NEW E, calls' \subseteq calls \cup E,
         \A c \in E : c.node \in nodes' =>
           \A x \in F!About(c) \ c.old : c.give[x] = F!Wanted(c.node)[x]
  PROVE  F!CallsAreCurrent'
<1>1. \A n : F!Wanted(n)' = F!Wanted(n)
  BY SameWanted
<1> QED
  BY <1>1 DEF F!CallsAreCurrent, F!About

-----------------------------------------------------------------------------
(* The edits of inbounds.                                                  *)

\* A row that is not there is nobody's.
LEMMA NoRowNoNode ==
  ASSUME F!Shapes, NEW i \in Inbounds, row[i] = F!Absent
  PROVE  \A n : <<i, n>> \notin assigned
  BY DEF F!Shapes

\* An edit within the bound.
LEMMA EditTypes ==
  ASSUME F!FleetAssumption, F!Shapes, F!Edit
  PROVE  edits' = edits + 1 /\ edits \in Nat /\ MaxEdits \in Nat /\ edits < MaxEdits
  BY DEF F!Shapes, F!Edit, F!FleetAssumption

\* A new inbound has nothing to tell until it is assigned.
LEMMA AddInboundKept ==
  ASSUME F!FleetAssumption, F!FleetInv, NEW i \in Inbounds, NEW p \in Ports, F!AddInbound(i, p)
  PROVE  F!FleetInv'
<1>0. F!TypeOK /\ F!Shapes /\ F!CallsAreCurrent /\ i \in F!Things /\ edits' = edits + 1
      /\ edits \in Nat /\ MaxEdits \in Nat /\ edits < MaxEdits
  BY EditTypes DEF F!FleetInv, F!Things, F!AddInbound
<1>1. row' = [row EXCEPT ![i] = [port |-> p, ver |-> edits + 1]]
      /\ [port |-> p, ver |-> edits + 1] \in F!Content
      /\ [port |-> p, ver |-> edits + 1] # F!Absent
  <2>1. edits + 1 \in 1..MaxEdits + 1 /\ p # 0
    BY <1>0 DEF F!FleetAssumption
  <2> QED
    BY <2>1 DEF F!AddInbound, F!Content, F!Absent
<1>2. F!TypeOK' /\ F!Shapes'
  <2>1. calls' \subseteq F!Call
        /\ \A c \in calls' : c.kind \in {"update", "remove", "assign"} => c.on \in Inbounds
    BY <1>0, AgedCalls DEF F!AddInbound
  <2>2. F!Shapes'
    BY <1>0, <1>1, <2>1 DEF F!Shapes, F!AddInbound, F!Idle, F!worker, F!TypeOK
  <2>3. F!TypeOK'
    BY <1>0, <1>1, <2>1 DEF F!TypeOK, F!AddInbound, F!Idle, F!worker, F!Call
  <2> QED
    BY <2>2, <2>3
<1>3. \A n \in Nodes, j \in Inbounds : (j \in F!On(n)' <=> j \in F!On(n)) /\ F!Wanted(n)'[j] = F!Wanted(n)[j]
  <2> SUFFICES ASSUME NEW n \in Nodes, NEW j \in Inbounds
               PROVE  (j \in F!On(n)' <=> j \in F!On(n)) /\ F!Wanted(n)'[j] = F!Wanted(n)[j]
    OBVIOUS
  <2>1. CASE j = i
    <3>1. j \notin F!On(n) /\ j \notin F!On(n)'
      BY <1>0, <2>1, NoRowNoNode DEF F!On, F!AddInbound
    <3> QED
      BY <3>1, WantedInbound
  <2>2. CASE j # i
    BY <2>2, <1>0, OtherInbounds DEF F!AddInbound, F!TypeOK
  <2> QED
    BY <2>1, <2>2
<1>4. F!CallsAreCurrent'
  <2> DEFINE none == {}
  <2>1. nodes' = nodes /\ nodes \subseteq Nodes /\ calls' = F!Aged(i) \cup none
    BY <1>0 DEF F!AddInbound, F!TypeOK
  <2>2. \A n \in nodes', x \in Inbounds \ {i} : F!Wanted(n)'[x] = F!Wanted(n)[x]
    BY <2>1, <1>3
  <2>3. \A c \in none : c.node \in nodes' =>
          \A x \in F!About(c) \ c.old : c.give[x] = F!Wanted(c.node)'[x]
    OBVIOUS
  <2> HIDE DEF none
  <2> QED
    BY <2>1, <2>2, <2>3, <1>0, AgedAreCurrent
<1>5. F!AllAccounted'
  <2>1. CallsKept
    BY <1>0, AgedCalls DEF CallsKept, F!AddInbound
  <2>2. ASSUME NEW n \in nodes' PROVE F!Accounted(n, i)' /\ (i \in F!On(n)' => i \in F!On(n))
    <3>1. n \in Nodes /\ F!Accounted(n, i)
      BY <1>0 DEF F!AddInbound, F!TypeOK, F!FleetInv, F!AllAccounted
    <3>2. F!Differs(n, i)' => F!Differs(n, i)
      BY <3>1, <1>3, ThingCarried DEF F!AddInbound, F!worker, F!FleetAssumption
    <3>3. F!DueWithPush(n, i) => F!DueWithPush(n, i)'
      BY <3>1, <1>3 DEF F!DueWithPush, F!AddInbound, F!Idle
    <3> QED
      BY <3>1, <3>2, <3>3, <1>3, <2>1, Carried DEF F!AddInbound, F!Idle
  <2>3. nodes' = nodes /\ nodes \subseteq Nodes /\ on' = on \cap nodes'
    BY <1>0 DEF F!AddInbound, F!TypeOK
  <2> QED
    BY <2>1, <2>2, <2>3, <1>0, EditAccounted DEF F!AddInbound, F!Idle, F!worker, F!TypeOK
<1> QED
  BY <1>2, <1>4, <1>5 DEF F!FleetInv

\* An inbound is changed: its workers are told, or the rows of a disabled one are owed.
LEMMA UpdateInboundKept ==
  ASSUME F!FleetAssumption, F!FleetInv, NEW i \in Inbounds, NEW e \in BOOLEAN, F!UpdateInbound(i, e)
  PROVE  F!FleetInv'
<1>0. F!TypeOK /\ F!Shapes /\ F!CallsAreCurrent /\ i \in F!Things /\ edits' = edits + 1
      /\ edits \in Nat /\ MaxEdits \in Nat /\ edits < MaxEdits
  BY EditTypes DEF F!FleetInv, F!Things, F!UpdateInbound
<1>1. /\ row' = [row EXCEPT ![i] = row'[i]] /\ row'[i] \in F!Content /\ row'[i] # F!Absent
      /\ row'[i].port # 0 /\ row[i].port # 0
      /\ available' = [available EXCEPT ![i] = e]
  <2>1. row[i] \in [port : Ports, ver : 1..MaxEdits + 1] /\ row[i].port # 0
    BY <1>0 DEF F!TypeOK, F!Content, F!Absent, F!Deleted, F!UpdateInbound, F!Exists
  <2>2. edits + 1 \in 1..MaxEdits + 1
    BY <1>0
  <2>3. row' = [row EXCEPT ![i] = [row[i] EXCEPT !.ver = edits + 1]]
    BY DEF F!UpdateInbound
  <2>4. row'[i] = [row[i] EXCEPT !.ver = edits + 1]
    BY <2>3, <1>0 DEF F!TypeOK
  <2>5. row'[i] \in [port : Ports, ver : 1..MaxEdits + 1] /\ row'[i].port = row[i].port
    BY <2>4, <2>1, <2>2
  <2> QED
    <3>1. row'[i] \in F!Content /\ row'[i] # F!Absent /\ row'[i].port # 0
      BY <2>1, <2>5 DEF F!Content, F!Absent
    <3> QED
      BY <3>1, <2>1, <2>3, <2>4 DEF F!UpdateInbound
<1>a. F!At(i) \subseteq Nodes /\ \A n \in Nodes : n \in F!At(i) <=> <<i, n>> \in assigned
  BY DEF F!At
<1> DEFINE E == IF e THEN F!Hot("update", F!At(i), i, row'[i]) ELSE {}
<1>2. calls' = F!Aged(i) \cup E
  BY DEF F!UpdateInbound
<1>3. /\ E \subseteq F!Call
      /\ \A c \in E : /\ c.kind = "update" /\ c.on = i /\ c.node \in F!At(i)
                      /\ F!About(c) = {i} /\ c.give[i] = row'[i] /\ e
      /\ e => \A n \in F!At(i) : Told(n, i, E)
  <2>1. CASE e
    <3>1. /\ \A c \in E : Tells(c, "update", F!At(i), i, row'[i])
          /\ \A n \in F!At(i) : Told(n, i, E)
      <4>1. E = F!Hot("update", F!At(i), i, row'[i])
        BY <2>1
      <4>2. row'[i] \in F!Content /\ i \in F!Things /\ F!At(i) \in SUBSET Nodes
        BY <1>0, <1>1, <1>a
      <4> HIDE DEF E
      <4> QED
        BY <4>1, <4>2, HotCalls
    <3> QED
      BY <2>1, <3>1 DEF Tells
  <2>2. CASE ~e
    BY <2>2
  <2> QED
    BY <2>1, <2>2
<1> HIDE DEF E
<1>4. F!TypeOK' /\ F!Shapes'
  <2>1. calls' \subseteq F!Call
        /\ \A c \in calls' : c.kind \in {"update", "remove", "assign"} => c.on \in Inbounds
    BY <1>0, <1>2, <1>3, AgedCalls
  <2>2. F!Shapes'
    BY <1>0, <1>1, <2>1 DEF F!Shapes, F!UpdateInbound, F!Idle, F!worker, F!TypeOK
  <2>3. owed' \subseteq Nodes \X F!Things
    BY <1>0, <1>a DEF F!TypeOK, F!UpdateInbound, F!Pairs, F!Things
  <2>4. F!TypeOK'
    BY <1>0, <1>1, <2>1, <2>3 DEF F!TypeOK, F!UpdateInbound, F!Idle, F!worker, F!Call
  <2> QED
    BY <2>2, <2>4
<1>5. \A n \in Nodes, j \in Inbounds \ {i} :
        (j \in F!On(n)' <=> j \in F!On(n)) /\ F!Wanted(n)'[j] = F!Wanted(n)[j]
  BY <1>0, OtherInbounds DEF F!UpdateInbound, F!TypeOK
<1>6. \A n \in Nodes : /\ i \in F!On(n)' <=> e /\ n \in F!At(i)
                       /\ i \in F!On(n) <=> available[i] /\ n \in F!At(i)
  BY <1>0, <1>1, <1>a DEF F!On, F!Exists, F!UpdateInbound, F!TypeOK
<1>7. nodes' = nodes /\ nodes \subseteq Nodes /\ on' = on \cap nodes'
  BY <1>0 DEF F!UpdateInbound, F!TypeOK
<1>8. F!CallsAreCurrent'
  <2>1. \A c \in E : c.node \in nodes' =>
          \A x \in F!About(c) \ c.old : c.give[x] = F!Wanted(c.node)'[x]
    BY <1>3, <1>6, <1>7, <1>a, WantedInbound
  <2>2. \A n \in nodes', x \in Inbounds \ {i} : F!Wanted(n)'[x] = F!Wanted(n)[x]
    BY <1>5, <1>7
  <2>3. nodes' \subseteq nodes
    BY <1>7
  <2> QED
    BY <2>1, <2>2, <2>3, <1>0, <1>2, AgedAreCurrent
<1>9. F!AllAccounted'
  <2>1. CallsKept
    BY <1>0, <1>2, AgedCalls DEF CallsKept
  <2>2. ASSUME NEW n \in nodes' PROVE F!Accounted(n, i)'
    <3>1. n \in Nodes /\ F!Accounted(n, i)
      BY <1>0, <1>7 DEF F!FleetInv, F!AllAccounted
    <3>2. CASE n \in F!At(i) /\ e
      BY <3>2, <1>2, <1>3 DEF F!Accounted, F!OnTheWay, Told
    <3>3. CASE n \in F!At(i) /\ ~e
      BY <3>3 DEF F!Accounted, F!UpdateInbound, F!Pairs
    <3>4. CASE n \notin F!At(i)
      <4>1. i \notin F!On(n) /\ i \notin F!On(n)'
        BY <3>1, <3>4, <1>6
      <4>2. F!Differs(n, i)' => F!Differs(n, i)
        BY <4>1, NotWanted DEF F!UpdateInbound, F!worker
      <4>3. ~F!DueWithPush(n, i)
        BY <4>1 DEF F!DueWithPush, F!FleetAssumption
      <4> QED
        BY <3>1, <4>2, <4>3, <2>1, Carried DEF F!UpdateInbound, F!Idle
    <3> QED
      BY <3>2, <3>3, <3>4
  <2>3. \A n \in nodes' : i \in F!On(n)' /\ i \notin F!On(n) => <<n, Rule>> \in owed'
    BY <1>6, <1>7 DEF F!UpdateInbound, F!Pairs
  <2> QED
    BY <2>1, <2>2, <2>3, <1>0, <1>7, EditAccounted DEF F!UpdateInbound, F!Idle, F!worker, F!TypeOK
<1> QED
  BY <1>4, <1>8, <1>9 DEF F!FleetInv

\* An inbound that moves to another port asks for a push of everything.
LEMMA MovePortKept ==
  ASSUME F!FleetAssumption, F!FleetInv, NEW i \in Inbounds, NEW p \in Ports, F!MovePort(i, p)
  PROVE  F!FleetInv'
<1>0. F!TypeOK /\ F!Shapes /\ F!CallsAreCurrent /\ i \in F!Things /\ edits' = edits + 1
      /\ edits \in Nat /\ MaxEdits \in Nat /\ edits < MaxEdits
  BY EditTypes DEF F!FleetInv, F!Things, F!MovePort
<1>1. /\ row' = [row EXCEPT ![i] = row'[i]] /\ row'[i] \in F!Content /\ row'[i] # F!Absent
      /\ row'[i].port # 0 /\ row[i].port # 0
  <2>1. edits + 1 \in 1..MaxEdits + 1 /\ p # 0
    BY <1>0 DEF F!FleetAssumption
  <2>2. row' = [row EXCEPT ![i] = [port |-> p, ver |-> edits + 1]]
        /\ row'[i] = [port |-> p, ver |-> edits + 1]
    BY <1>0 DEF F!MovePort, F!TypeOK
  <2>3. row'[i] \in F!Content /\ row'[i] # F!Absent /\ row'[i].port # 0
    BY <2>1, <2>2 DEF F!Content, F!Absent
  <2> QED
    BY <2>2, <2>3 DEF F!MovePort, F!Exists
<1>2. F!TypeOK' /\ F!Shapes'
  <2>1. calls' \subseteq F!Call
        /\ \A c \in calls' : c.kind \in {"update", "remove", "assign"} => c.on \in Inbounds
    BY <1>0, AgedCalls DEF F!MovePort
  <2>2. F!Shapes'
    BY <1>0, <1>1, <2>1 DEF F!Shapes, F!MovePort, F!worker, F!TypeOK
  <2>3. F!TypeOK'
    BY <1>0, <1>1, <2>1 DEF F!TypeOK, F!MovePort, F!worker, F!Call
  <2> QED
    BY <2>2, <2>3
<1>3. \A n \in Nodes, j \in Inbounds \ {i} :
        (j \in F!On(n)' <=> j \in F!On(n)) /\ F!Wanted(n)'[j] = F!Wanted(n)[j]
  BY <1>0, OtherInbounds DEF F!MovePort, F!TypeOK
<1>4. \A n \in Nodes : i \in F!On(n)' <=> i \in F!On(n)
  BY <1>0, <1>1 DEF F!On, F!Exists, F!MovePort
<1>5. nodes' = nodes /\ nodes \subseteq Nodes /\ on' = on \cap nodes'
  BY <1>0 DEF F!MovePort, F!TypeOK
<1>6. F!CallsAreCurrent'
  <2> DEFINE none == {}
  <2>1. calls' = F!Aged(i) \cup none
    BY DEF F!MovePort
  <2>2. \A n \in nodes', x \in Inbounds \ {i} : F!Wanted(n)'[x] = F!Wanted(n)[x]
    BY <1>3, <1>5
  <2>3. \A c \in none : c.node \in nodes' =>
          \A x \in F!About(c) \ c.old : c.give[x] = F!Wanted(c.node)'[x]
    OBVIOUS
  <2> HIDE DEF none
  <2> QED
    BY <2>1, <2>2, <2>3, <1>0, <1>5, AgedAreCurrent
<1>7. F!AllAccounted'
  <2>1. CallsKept
    BY <1>0, AgedCalls DEF CallsKept, F!MovePort
  <2>2. ASSUME NEW n \in nodes' PROVE F!Accounted(n, i)'
    <3>1. n \in Nodes /\ F!Accounted(n, i)
      BY <1>0, <1>5 DEF F!FleetInv, F!AllAccounted
    <3>2. CASE i \in F!On(n)'
      BY <3>2 DEF F!Accounted, F!DueWithPush, F!MovePort
    <3>3. CASE i \notin F!On(n)'
      <4>1. F!Differs(n, i)' => F!Differs(n, i)
        BY <3>1, <3>3, <1>4, NotWanted DEF F!MovePort, F!worker
      <4>2. ~F!DueWithPush(n, i)
        BY <3>1, <3>3, <1>4 DEF F!DueWithPush, F!FleetAssumption
      <4> QED
        BY <3>1, <4>1, <4>2, <2>1, Carried DEF F!MovePort
    <3> QED
      BY <3>2, <3>3
  <2>3. \A n \in nodes' : i \in F!On(n)' => i \in F!On(n)
    BY <1>4, <1>5
  <2> QED
    BY <2>1, <2>2, <2>3, <1>0, <1>5, EditAccounted DEF F!MovePort, F!worker, F!TypeOK
<1> QED
  BY <1>2, <1>6, <1>7 DEF F!FleetInv

\* An inbound is removed: its workers are told, or they keep what is on record.
LEMMA DelInboundKept ==
  ASSUME F!FleetAssumption, F!FleetInv, NEW i \in Inbounds, F!DelInbound(i)
  PROVE  F!FleetInv'
<1>0. F!TypeOK /\ F!Shapes /\ F!CallsAreCurrent /\ i \in F!Things /\ edits' = edits + 1
      /\ edits \in Nat /\ MaxEdits \in Nat /\ edits < MaxEdits
  BY EditTypes DEF F!FleetInv, F!Things, F!DelInbound
<1>1. row' = [row EXCEPT ![i] = F!Deleted] /\ F!Deleted \in F!Content /\ F!Absent \in F!Content
      /\ F!Deleted # F!Absent
  BY DEF F!Content, F!DelInbound, F!Deleted, F!Absent
<1>a. F!At(i) \subseteq Nodes /\ \A n \in Nodes : n \in F!At(i) <=> <<i, n>> \in assigned
  BY DEF F!At
<1> DEFINE E == IF available[i] THEN F!Hot("remove", F!At(i), i, F!Absent) ELSE {}
<1>2. calls' = F!Aged(i) \cup E
  BY DEF F!DelInbound
<1>3. /\ E \subseteq F!Call
      /\ \A c \in E : /\ c.kind = "remove" /\ c.on = i /\ c.node \in F!At(i)
                      /\ F!About(c) = {i} /\ c.give[i] = F!Absent
      /\ available[i] => \A n \in F!At(i) : Told(n, i, E)
  <2>1. CASE available[i]
    <3>1. E = F!Hot("remove", F!At(i), i, F!Absent)
      BY <2>1
    <3>2. F!Absent \in F!Content /\ i \in F!Things /\ F!At(i) \in SUBSET Nodes
      BY <1>0, <1>1, <1>a
    <3> HIDE DEF E
    <3>3. /\ \A c \in E : Tells(c, "remove", F!At(i), i, F!Absent)
          /\ \A n \in F!At(i) : Told(n, i, E)
      BY <3>1, <3>2, HotCalls
    <3> QED
      BY <2>1, <3>3 DEF Tells
  <2>2. CASE ~available[i]
    BY <2>2
  <2> QED
    BY <2>1, <2>2
<1> HIDE DEF E
<1>4. F!TypeOK' /\ F!Shapes'
  <2>1. calls' \subseteq F!Call
        /\ \A c \in calls' : c.kind \in {"update", "remove", "assign"} => c.on \in Inbounds
    BY <1>0, <1>2, <1>3, AgedCalls
  <2>2. F!Shapes'
    BY <1>0, <1>1, <2>1 DEF F!Shapes, F!DelInbound, F!Idle, F!worker, F!TypeOK
  <2>3. owed' \subseteq Nodes \X F!Things
    BY <1>0, <1>a DEF F!TypeOK, F!DelInbound, F!Pairs, F!Things
  <2>4. F!TypeOK'
    BY <1>0, <1>1, <2>1, <2>3, ZenonT(30) DEF F!TypeOK, F!DelInbound, F!Idle, F!worker, F!Call
  <2> QED
    BY <2>2, <2>4
<1>5. \A n \in Nodes, j \in Inbounds \ {i} :
        (j \in F!On(n)' <=> j \in F!On(n)) /\ F!Wanted(n)'[j] = F!Wanted(n)[j]
  BY <1>0, OtherInbounds DEF F!DelInbound, F!TypeOK
<1>6. \A n \in Nodes : i \notin F!On(n)' /\ (i \in F!On(n) => n \in F!At(i))
  BY <1>0, <1>1, <1>a DEF F!On, F!Exists, F!DelInbound, F!TypeOK, F!Deleted
<1>7. nodes' = nodes /\ nodes \subseteq Nodes /\ on' = on \cap nodes'
  BY <1>0 DEF F!DelInbound, F!TypeOK
<1>8. F!CallsAreCurrent'
  <2>1. \A c \in E : c.node \in nodes' =>
          \A x \in F!About(c) \ c.old : c.give[x] = F!Wanted(c.node)'[x]
    BY <1>3, <1>6, <1>7, <1>a, WantedInbound
  <2>2. \A n \in nodes', x \in Inbounds \ {i} : F!Wanted(n)'[x] = F!Wanted(n)[x]
    BY <1>5, <1>7
  <2>3. nodes' \subseteq nodes
    BY <1>7
  <2> QED
    BY <2>1, <2>2, <2>3, <1>0, <1>2, AgedAreCurrent
<1>9. F!AllAccounted'
  <2>1. CallsKept
    BY <1>0, <1>2, AgedCalls DEF CallsKept
  <2>2. ASSUME NEW n \in nodes' PROVE F!Accounted(n, i)'
    <3>1. n \in Nodes /\ F!Accounted(n, i)
      BY <1>0, <1>7 DEF F!FleetInv, F!AllAccounted
    <3>2. CASE n \in F!At(i) /\ available[i]
      BY <3>2, <1>2, <1>3 DEF F!Accounted, F!OnTheWay, Told
    <3>3. CASE n \in F!At(i) /\ ~available[i]
      BY <3>3 DEF F!Accounted, F!DelInbound, F!Pairs
    <3>4. CASE n \notin F!At(i)
      <4>1. i \notin F!On(n) /\ i \notin F!On(n)'
        BY <3>1, <3>4, <1>6
      <4>2. F!Differs(n, i)' => F!Differs(n, i)
        BY <4>1, NotWanted DEF F!DelInbound, F!worker
      <4>3. ~F!DueWithPush(n, i)
        BY <4>1 DEF F!DueWithPush, F!FleetAssumption
      <4> QED
        BY <3>1, <4>2, <4>3, <2>1, Carried DEF F!DelInbound, F!Idle
    <3> QED
      BY <3>2, <3>3, <3>4
  <2>3. \A n \in nodes' : i \notin F!On(n)'
    BY <1>6, <1>7
  <2>4. \A j \in Inbounds \ {i}, n \in nodes' : <<j, n>> \in assigned' <=> <<j, n>> \in assigned
    BY DEF F!DelInbound
  <2>5. \A j \in Inbounds \ {i} : row'[j] = row[j] /\ available'[j] = available[j]
    BY <1>0 DEF F!DelInbound, F!TypeOK
  <2> QED
    BY <2>1, <2>2, <2>3, <2>4, <2>5, <1>7, EditAccounted DEF F!DelInbound, F!Idle, F!worker
<1> QED
  BY <1>4, <1>8, <1>9 DEF F!FleetInv

-----------------------------------------------------------------------------
(* Assignments and nodes.                                                  *)

\* Nothing of the rows, the workers and the calls changes.
LEMMA CheckAssignKept ==
  ASSUME F!FleetAssumption, F!FleetInv, NEW i \in Inbounds, NEW ns \in SUBSET nodes,
         F!CheckAssign(i, ns)
  PROVE  F!FleetInv'
<1>0. F!TypeOK /\ F!Shapes /\ F!CallsAreCurrent /\ edits' = edits + 1
      /\ edits \in Nat /\ MaxEdits \in Nat /\ edits < MaxEdits
  BY EditTypes DEF F!FleetInv, F!CheckAssign
<1>1. ns \subseteq Nodes /\ row[i] # F!Absent
  BY <1>0 DEF F!TypeOK, F!CheckAssign, F!Exists, F!Absent
<1>2. F!Shapes'
  BY <1>0, <1>1 DEF F!Shapes, F!CheckAssign, F!db, F!worker
<1>3. F!TypeOK'
  BY <1>0 DEF F!TypeOK, F!CheckAssign, F!db, F!worker
<1>4. F!CallsAreCurrent'
  <2>1. \A n : F!Wanted(n)' = F!Wanted(n)
    BY SameWanted DEF F!CheckAssign, F!db
  <2> QED
    BY <2>1, <1>0 DEF F!CallsAreCurrent, F!CheckAssign, F!About, F!db
<1>5. F!AllAccounted'
  <2>1. CallsKept
    BY DEF CallsKept, F!CheckAssign, F!About
  <2> QED
    BY <2>1, RowsAccounted DEF F!CheckAssign, F!worker, F!db
<1> QED
  BY <1>2, <1>3, <1>4, <1>5 DEF F!FleetInv

\* The workers that get an inbound are told, those that lose it too.
LEMMA AssignKept ==
  ASSUME F!FleetAssumption, F!FleetInv, NEW a \in asks, F!AssignInboundToNodes(a)
  PROVE  F!FleetInv'
<1> DEFINE i == a.inbound
           gone == F!At(i) \ a.nodes
           new == a.nodes \ F!At(i)
<1>0. F!TypeOK /\ F!Shapes /\ F!CallsAreCurrent /\ i \in Inbounds /\ i \in F!Things
      /\ a.nodes \subseteq Nodes /\ row[i] # F!Absent /\ row[i] \in F!Content /\ F!Absent \in F!Content
  <2>1. F!TypeOK /\ F!Shapes /\ F!CallsAreCurrent
    BY DEF F!FleetInv
  <2>2. a \in [inbound : Inbounds, nodes : SUBSET Nodes] /\ row[i] # F!Absent
    BY <2>1 DEF F!Shapes
  <2>3. F!Absent \in F!Content
    BY DEF F!Content
  <2> QED
    BY <2>1, <2>2, <2>3 DEF F!TypeOK, F!Things
<1>a. F!At(i) \subseteq Nodes /\ \A n \in Nodes : n \in F!At(i) <=> <<i, n>> \in assigned
  BY DEF F!At
<1>b. gone \in SUBSET Nodes /\ new \in SUBSET Nodes
  BY <1>0, <1>a
<1> DEFINE R == F!Hot("remove", gone, i, F!Absent)
           G == F!Hot("assign", new, i, row[i])
<1>r. /\ \A c \in R : Tells(c, "remove", gone, i, F!Absent)
      /\ \A n \in gone : Told(n, i, R)
  <2>1. R = F!Hot("remove", gone, i, F!Absent)
    OBVIOUS
  <2>2. gone \in SUBSET Nodes /\ i \in F!Things /\ F!Absent \in F!Content /\ row[i] \in F!Content
    BY <1>0, <1>b
  <2> HIDE DEF R, i, gone, new
  <2> QED
    BY <2>1, <2>2, HotCalls
<1>g. /\ \A c \in G : Tells(c, "assign", new, i, row[i])
      /\ \A n \in new : Told(n, i, G)
  <2>1. G = F!Hot("assign", new, i, row[i])
    OBVIOUS
  <2>2. new \in SUBSET Nodes /\ i \in F!Things /\ F!Absent \in F!Content /\ row[i] \in F!Content
    BY <1>0, <1>b
  <2> HIDE DEF G, i, gone, new
  <2> QED
    BY <2>1, <2>2, HotCalls
<1>s. /\ asks' = asks \ {a}
      /\ assigned' = {m \in assigned : m[1] # i} \cup F!Pairs({i}, a.nodes)
      /\ owed' = owed \cup F!Pairs(new, {Rule})
      /\ UNCHANGED <<row, available, nodes, on, blocked, need, asked, pushing, block,
                     conf, running, edits, faults, stops>>
  BY DEF F!AssignInboundToNodes, F!worker
<1> DEFINE E == IF F!Exists(i) THEN R \cup IF available[i] THEN G ELSE {} ELSE {}
<1>2. calls' = F!Aged(i) \cup E
  BY DEF F!AssignInboundToNodes, F!Send
<1> HIDE DEF R, G
<1>3. E \subseteq F!Call /\ \A c \in E : c.on = i
  BY <1>r, <1>g DEF Tells
<1>4. F!TypeOK' /\ F!Shapes'
  <2>1. calls' \subseteq F!Call
        /\ \A c \in calls' : c.kind \in {"update", "remove", "assign"} => c.on \in Inbounds
    BY <1>0, <1>2, <1>3, AgedCalls
  <2>2. assigned' \subseteq Inbounds \X Nodes /\ owed' \subseteq Nodes \X F!Things
    BY <1>0, <1>b, <1>s DEF F!TypeOK, F!Pairs, F!Things
  <2>3. {b.inbound : b \in asks'} \cup {m[1] : m \in assigned'} \subseteq {j \in Inbounds : row'[j] # F!Absent}
    BY <1>0, <1>s DEF F!Shapes, F!Pairs
  <2>4. F!Shapes'
    BY <1>0, <1>s, <2>1, <2>3 DEF F!Shapes
  <2>5. F!TypeOK'
    BY <1>0, <1>s, <2>1, <2>2 DEF F!TypeOK, F!Call
  <2> QED
    BY <2>4, <2>5
<1>5. \A j \in Inbounds \ {i}, n \in Nodes : <<j, n>> \in assigned' <=> <<j, n>> \in assigned
  BY <1>s DEF F!Pairs
<1>6. \A n \in Nodes, j \in Inbounds \ {i} :
        (j \in F!On(n)' <=> j \in F!On(n)) /\ F!Wanted(n)'[j] = F!Wanted(n)[j]
  BY <1>0, <1>5, <1>s, OtherInbounds
<1>7. \A n \in Nodes : /\ i \in F!On(n)' <=> F!Exists(i) /\ available[i] /\ n \in a.nodes
                       /\ i \in F!On(n) <=> F!Exists(i) /\ available[i] /\ n \in F!At(i)
  BY <1>0, <1>a, <1>s DEF F!On, F!Exists, F!Pairs
<1>8. nodes' = nodes /\ nodes \subseteq Nodes /\ on' = on \cap nodes'
  BY <1>0, <1>s DEF F!TypeOK
<1>9. F!CallsAreCurrent'
  <2>1. \A c \in E : c.node \in nodes' =>
          \A x \in F!About(c) \ c.old : c.give[x] = F!Wanted(c.node)'[x]
    <3> SUFFICES ASSUME NEW c \in E PROVE F!About(c) = {i} /\ c.give[i] = F!Wanted(c.node)'[i]
      OBVIOUS
    <3>1. CASE c \in R
      BY <3>1, <1>r, <1>7, <1>b, <1>0, WantedInbound DEF Tells
    <3>2. CASE c \in G /\ F!Exists(i) /\ available[i]
      BY <3>2, <1>g, <1>7, <1>b, <1>0, <1>s, WantedInbound DEF Tells
    <3> QED
      BY <3>1, <3>2
  <2>2. \A n \in nodes', x \in Inbounds \ {i} : F!Wanted(n)'[x] = F!Wanted(n)[x]
    BY <1>6, <1>8
  <2>3. nodes' \subseteq nodes
    BY <1>8
  <2> HIDE DEF E, i
  <2> QED
    BY <2>1, <2>2, <2>3, <1>0, <1>2, AgedAreCurrent
<1>10. F!AllAccounted'
  <2>1. CallsKept
    BY <1>0, <1>2, AgedCalls DEF CallsKept
  <2>2. ASSUME NEW n \in nodes' PROVE F!Accounted(n, i)'
    <3>1. n \in Nodes /\ F!Accounted(n, i)
      BY <1>0, <1>8 DEF F!FleetInv, F!AllAccounted
    <3>2. CASE i \in F!On(n)' /\ n \notin F!At(i)
      <4>1. n \in new /\ F!Exists(i) /\ available[i]
        BY <3>1, <3>2, <1>7
      <4>2. \E c \in calls' : c.node = n /\ i \in F!About(c)
        BY <4>1, <1>g, <1>2 DEF Told
      <4> QED
        BY <4>2 DEF F!Accounted, F!OnTheWay
    <3>3. CASE i \notin F!On(n)' /\ i \in F!On(n)
      <4>1. n \in gone /\ F!Exists(i)
        BY <3>1, <3>3, <1>7
      <4>2. \E c \in calls' : c.node = n /\ i \in F!About(c)
        BY <4>1, <1>r, <1>2 DEF Told
      <4> QED
        BY <4>2 DEF F!Accounted, F!OnTheWay
    <3>4. CASE i \in F!On(n)' <=> i \in F!On(n)
      <4>1. F!Wanted(n)'[i] = F!Wanted(n)[i]
        BY <3>4, <1>0, <1>s, WantedInbound
      <4>2. F!Differs(n, i)' => F!Differs(n, i)
        BY <4>1, <1>0, <1>s, ThingCarried DEF F!FleetAssumption
      <4>3. F!DueWithPush(n, i) => F!DueWithPush(n, i)'
        BY <3>4, <1>s DEF F!DueWithPush
      <4> QED
        BY <3>1, <4>2, <4>3, <2>1, <1>s, Carried
    <3> QED
      BY <3>1, <3>2, <3>3, <3>4, <1>7
  <2>3. \A n \in nodes' : i \in F!On(n)' /\ i \notin F!On(n) => <<n, Rule>> \in owed'
    BY <1>7, <1>8, <1>s DEF F!Pairs
  <2> HIDE DEF i, new
  <2> QED
    BY <2>1, <2>2, <2>3, <1>0, <1>5, <1>8, <1>s, EditAccounted
<1> QED
  BY <1>4, <1>9, <1>10 DEF F!FleetInv

\* An assignment that fails half way leaves what it moved on record.
LEMMA AssignFailsKept ==
  ASSUME F!FleetAssumption, F!FleetInv, NEW a \in asks, F!AssignFails(a)
  PROVE  F!FleetInv'
<1> DEFINE i == a.inbound
<1>0. F!TypeOK /\ F!Shapes /\ F!CallsAreCurrent /\ i \in Inbounds /\ i \in F!Things
      /\ a.nodes \subseteq Nodes /\ row[i] # F!Absent
  <2>1. F!TypeOK /\ F!Shapes /\ F!CallsAreCurrent
    BY DEF F!FleetInv
  <2>2. a \in [inbound : Inbounds, nodes : SUBSET Nodes] /\ row[i] # F!Absent
    BY <2>1 DEF F!Shapes
  <2> QED
    BY <2>1, <2>2 DEF F!Things
<1>a. F!At(i) \subseteq Nodes /\ \A n \in Nodes : n \in F!At(i) <=> <<i, n>> \in assigned
  BY DEF F!At
<1>1. PICK some \in SUBSET a.nodes :
        /\ assigned' = {m \in assigned : m[1] # i} \cup F!Pairs({i}, some)
        /\ owed' = owed \cup F!Pairs((F!At(i) \ some) \cup (some \ F!At(i)), {i, Rule})
  BY DEF F!AssignFails
<1>s. /\ asks' = asks \ {a} /\ calls' = F!Aged(i)
      /\ UNCHANGED <<row, available, nodes, on, blocked, need, asked, pushing, block,
                     conf, running, edits, stops>>
  BY DEF F!AssignFails, F!worker
<1>4. F!TypeOK' /\ F!Shapes'
  <2>1. calls' \subseteq F!Call
        /\ \A c \in calls' : c.kind \in {"update", "remove", "assign"} => c.on \in Inbounds
    BY <1>0, <1>s, AgedCalls
  <2>2. assigned' \subseteq Inbounds \X Nodes /\ owed' \subseteq Nodes \X F!Things
    BY <1>0, <1>1, <1>a DEF F!TypeOK, F!Pairs, F!Things
  <2>3. {b.inbound : b \in asks'} \cup {m[1] : m \in assigned'} \subseteq {j \in Inbounds : row'[j] # F!Absent}
    BY <1>0, <1>s, <1>1 DEF F!Shapes, F!Pairs
  <2>4. F!Shapes'
    BY <1>0, <1>s, <2>1, <2>3 DEF F!Shapes
  <2>5. F!TypeOK'
    BY <1>0, <1>s, <2>1, <2>2 DEF F!TypeOK, F!Call
  <2> QED
    BY <2>4, <2>5
<1>5. \A j \in Inbounds \ {i}, n \in Nodes : <<j, n>> \in assigned' <=> <<j, n>> \in assigned
  BY <1>1 DEF F!Pairs
<1>6. \A n \in Nodes, j \in Inbounds \ {i} :
        (j \in F!On(n)' <=> j \in F!On(n)) /\ F!Wanted(n)'[j] = F!Wanted(n)[j]
  BY <1>0, <1>5, <1>s, OtherInbounds
<1>7. \A n \in Nodes : /\ i \in F!On(n)' <=> F!Exists(i) /\ available[i] /\ n \in some
                       /\ i \in F!On(n) <=> F!Exists(i) /\ available[i] /\ n \in F!At(i)
  BY <1>0, <1>a, <1>s, <1>1 DEF F!On, F!Exists, F!Pairs
<1>8. nodes' = nodes /\ nodes \subseteq Nodes /\ on' = on \cap nodes'
  BY <1>0, <1>s DEF F!TypeOK
<1>9. F!CallsAreCurrent'
  <2> DEFINE none == {}
  <2>1. \A c \in none : c.node \in nodes' =>
          \A x \in F!About(c) \ c.old : c.give[x] = F!Wanted(c.node)'[x]
    OBVIOUS
  <2>2. \A n \in nodes', x \in Inbounds \ {i} : F!Wanted(n)'[x] = F!Wanted(n)[x]
    BY <1>6, <1>8
  <2>3. nodes' \subseteq nodes /\ calls' = F!Aged(i) \cup none
    BY <1>8, <1>s
  <2> HIDE DEF none, i
  <2> QED
    BY <2>1, <2>2, <2>3, <1>0, AgedAreCurrent
<1>10. F!AllAccounted'
  <2>1. CallsKept
    BY <1>0, <1>s, AgedCalls DEF CallsKept
  <2>2. ASSUME NEW n \in nodes' PROVE F!Accounted(n, i)'
    <3>1. n \in Nodes /\ F!Accounted(n, i)
      BY <1>0, <1>8 DEF F!FleetInv, F!AllAccounted
    <3>2. CASE (i \in F!On(n)') # (i \in F!On(n))
      <4>1. n \in (F!At(i) \ some) \cup (some \ F!At(i))
        BY <3>1, <3>2, <1>7
      <4> QED
        BY <4>1, <1>1 DEF F!Accounted, F!Pairs
    <3>4. CASE i \in F!On(n)' <=> i \in F!On(n)
      <4>1. F!Wanted(n)'[i] = F!Wanted(n)[i]
        BY <3>4, <1>0, <1>s, WantedInbound
      <4>2. F!Differs(n, i)' => F!Differs(n, i)
        BY <4>1, <1>0, <1>s, ThingCarried DEF F!FleetAssumption
      <4>3. F!DueWithPush(n, i) => F!DueWithPush(n, i)'
        BY <3>4, <1>s DEF F!DueWithPush
      <4> QED
        BY <3>1, <4>2, <4>3, <2>1, <1>s, <1>1, Carried
    <3> QED
      BY <3>2, <3>4
  <2>3. \A n \in nodes' : i \in F!On(n)' /\ i \notin F!On(n) => <<n, Rule>> \in owed'
    BY <1>7, <1>8, <1>1 DEF F!Pairs
  <2>4. owed \subseteq owed'
    BY <1>1
  <2> HIDE DEF i
  <2> QED
    BY <2>1, <2>2, <2>3, <2>4, <1>0, <1>5, <1>8, <1>s, EditAccounted
<1> QED
  BY <1>4, <1>9, <1>10 DEF F!FleetInv

\* An inbound loses all its workers: none is told, which is on record.
LEMMA UnassignKept ==
  ASSUME F!FleetAssumption, F!FleetInv, NEW i \in Inbounds, F!UnassignInboundFromNode(i)
  PROVE  F!FleetInv'
<1>0. F!TypeOK /\ F!Shapes /\ F!CallsAreCurrent /\ i \in F!Things /\ edits' = edits + 1
      /\ edits \in Nat /\ MaxEdits \in Nat /\ edits < MaxEdits
  BY EditTypes DEF F!FleetInv, F!Things, F!UnassignInboundFromNode
<1>a. F!At(i) \subseteq Nodes /\ \A n \in Nodes : n \in F!At(i) <=> <<i, n>> \in assigned
  BY DEF F!At
<1>s. /\ assigned' = {m \in assigned : m[1] # i} /\ calls' = F!Aged(i)
      /\ owed' = owed \cup F!Pairs(F!At(i), {i})
      /\ UNCHANGED <<row, available, nodes, on, blocked, asks, need, asked, pushing, block,
                     conf, running>>
  BY DEF F!UnassignInboundFromNode, F!worker, F!Idle
<1>4. F!TypeOK' /\ F!Shapes'
  <2>1. calls' \subseteq F!Call
        /\ \A c \in calls' : c.kind \in {"update", "remove", "assign"} => c.on \in Inbounds
    BY <1>0, <1>s, AgedCalls
  <2>2. assigned' \subseteq Inbounds \X Nodes /\ owed' \subseteq Nodes \X F!Things
    BY <1>0, <1>s, <1>a DEF F!TypeOK, F!Pairs, F!Things
  <2>3. {b.inbound : b \in asks'} \cup {m[1] : m \in assigned'} \subseteq {j \in Inbounds : row'[j] # F!Absent}
    BY <1>0, <1>s DEF F!Shapes
  <2>4. F!Shapes'
    BY <1>0, <1>s, <2>1, <2>3 DEF F!Shapes
  <2>5. F!TypeOK'
    BY <1>0, <1>s, <2>1, <2>2 DEF F!TypeOK, F!Call
  <2> QED
    BY <2>4, <2>5
<1>5. \A j \in Inbounds \ {i}, n \in Nodes : <<j, n>> \in assigned' <=> <<j, n>> \in assigned
  BY <1>s
<1>6. \A n \in Nodes, j \in Inbounds \ {i} :
        (j \in F!On(n)' <=> j \in F!On(n)) /\ F!Wanted(n)'[j] = F!Wanted(n)[j]
  BY <1>0, <1>5, <1>s, OtherInbounds
<1>7. \A n \in Nodes : i \notin F!On(n)' /\ (i \in F!On(n) => n \in F!At(i))
  BY <1>a, <1>s DEF F!On
<1>8. nodes' = nodes /\ nodes \subseteq Nodes /\ on' = on \cap nodes'
  BY <1>0, <1>s DEF F!TypeOK
<1>9. F!CallsAreCurrent'
  <2> DEFINE none == {}
  <2>1. \A c \in none : c.node \in nodes' =>
          \A x \in F!About(c) \ c.old : c.give[x] = F!Wanted(c.node)'[x]
    OBVIOUS
  <2>2. \A n \in nodes', x \in Inbounds \ {i} : F!Wanted(n)'[x] = F!Wanted(n)[x]
    BY <1>6, <1>8
  <2>3. nodes' \subseteq nodes /\ calls' = F!Aged(i) \cup none
    BY <1>8, <1>s
  <2> HIDE DEF none
  <2> QED
    BY <2>1, <2>2, <2>3, <1>0, AgedAreCurrent
<1>10. F!AllAccounted'
  <2>1. CallsKept
    BY <1>0, <1>s, AgedCalls DEF CallsKept
  <2>2. ASSUME NEW n \in nodes' PROVE F!Accounted(n, i)'
    <3>1. n \in Nodes /\ F!Accounted(n, i)
      BY <1>0, <1>8 DEF F!FleetInv, F!AllAccounted
    <3>2. CASE n \in F!At(i)
      BY <3>2, <1>s DEF F!Accounted, F!Pairs
    <3>3. CASE n \notin F!At(i)
      <4>1. i \notin F!On(n) /\ i \notin F!On(n)'
        BY <3>1, <3>3, <1>7
      <4>2. F!Differs(n, i)' => F!Differs(n, i)
        BY <4>1, <1>s, NotWanted
      <4>3. ~F!DueWithPush(n, i)
        BY <4>1 DEF F!DueWithPush, F!FleetAssumption
      <4> QED
        BY <3>1, <4>2, <4>3, <2>1, <1>s, Carried
    <3> QED
      BY <3>2, <3>3
  <2>3. \A n \in nodes' : i \notin F!On(n)'
    BY <1>7, <1>8
  <2>4. owed \subseteq owed'
    BY <1>s
  <2> QED
    BY <2>1, <2>2, <2>3, <2>4, <1>0, <1>5, <1>8, <1>s, EditAccounted
<1> QED
  BY <1>4, <1>9, <1>10 DEF F!FleetInv

\* For the nodes that remain nothing has changed.
LEMMA DeleteNodeKept ==
  ASSUME F!FleetAssumption, F!FleetInv, NEW m \in Nodes, F!DeleteNode(m)
  PROVE  F!FleetInv'
<1>0. F!TypeOK /\ F!Shapes /\ F!CallsAreCurrent /\ edits' = edits + 1
      /\ edits \in Nat /\ MaxEdits \in Nat /\ edits < MaxEdits
  BY EditTypes DEF F!FleetInv, F!DeleteNode
<1>s. /\ nodes' = nodes \ {m} /\ on' = on \ {m} /\ assigned' = {p \in assigned : p[2] # m}
      /\ UNCHANGED <<row, available, blocked, calls, conf, running, owed, asks, need, asked,
                     pushing, block>>
  BY DEF F!DeleteNode, F!worker, F!Idle
<1>1. F!TypeOK' /\ F!Shapes'
  <2>1. F!Shapes'
    BY <1>0, <1>s DEF F!Shapes
  <2>2. F!TypeOK'
    BY <1>0, <1>s DEF F!TypeOK
  <2> QED
    BY <2>1, <2>2
<1>2. \A n \in nodes' : F!On(n)' = F!On(n) /\ F!Wanted(n)' = F!Wanted(n)
  <2> SUFFICES ASSUME NEW n \in nodes' PROVE F!On(n)' = F!On(n) /\ F!Wanted(n)' = F!Wanted(n)
    OBVIOUS
  <2>1. F!On(n)' = F!On(n)
    BY <1>s DEF F!On, F!Exists
  <2> QED
    BY <2>1, <1>s DEF F!Wanted
<1>3. F!CallsAreCurrent'
  BY <1>0, <1>2, <1>s DEF F!CallsAreCurrent, F!About
<1>4. F!AllAccounted'
  <2>1. CallsKept
    BY <1>s DEF CallsKept, F!About
  <2> SUFFICES ASSUME NEW n \in nodes', NEW x \in F!Things PROVE F!Accounted(n, x)'
    BY DEF F!AllAccounted
  <2>2. F!Accounted(n, x)
    BY <1>s DEF F!FleetInv, F!AllAccounted
  <2>3. F!Differs(n, x)' => F!Differs(n, x)
    BY <1>2, <1>s, ThingCarried
  <2>4. F!DueWithPush(n, x) => F!DueWithPush(n, x)'
    BY <1>2, <1>s DEF F!DueWithPush
  <2> QED
    BY <2>1, <2>2, <2>3, <2>4, <1>s, Carried
<1> QED
  BY <1>1, <1>3, <1>4 DEF F!FleetInv

\* A disabled node is stopped, an enabled one pushed to.
LEMMA SetNodeEnabledKept ==
  ASSUME F!FleetAssumption, F!FleetInv, NEW m \in Nodes, F!SetNodeEnabled(m)
  PROVE  F!FleetInv'
<1>0. F!TypeOK /\ F!Shapes /\ F!CallsAreCurrent /\ edits' = edits + 1
      /\ edits \in Nat /\ MaxEdits \in Nat /\ edits < MaxEdits /\ m \in nodes
  BY EditTypes DEF F!FleetInv, F!SetNodeEnabled
<1> DEFINE S == F!Hot("stop", {m}, Rule, F!Absent)
<1>1. \A c \in S : c \in F!Call /\ c.kind = "stop" /\ F!About(c) = {}
  <2>1. {m} \in SUBSET Nodes /\ Rule \in F!Things /\ F!Absent \in F!Content
    BY DEF F!Things, F!Content
  <2>2. \A c \in S : Tells(c, "stop", {m}, Rule, F!Absent)
    BY <2>1, HotCalls
  <2> QED
    BY <2>2 DEF Tells
<1> HIDE DEF S
<1>s. /\ IF m \in on THEN on' = on \ {m} /\ asked' = asked /\ calls' = calls \cup S
         ELSE on' = on \cup {m} /\ asked' = TRUE /\ calls' = calls
      /\ UNCHANGED <<row, available, assigned, nodes, blocked, asks, need, pushing, block,
                     conf, running, owed>>
  BY DEF F!SetNodeEnabled, F!worker, S
<1>2. calls \subseteq calls' /\ calls' \subseteq calls \cup S
  BY <1>s
<1>3. F!TypeOK' /\ F!Shapes'
  <2>1. calls' \subseteq F!Call
        /\ \A c \in calls' : c.kind \in {"update", "remove", "assign"} => c.on \in Inbounds
    BY <1>0, <1>1, <1>2 DEF F!Shapes
  <2>2. F!Shapes'
    BY <1>0, <1>s, <2>1 DEF F!Shapes
  <2>3. on' \subseteq nodes /\ asked' \in BOOLEAN
    BY <1>0, <1>s DEF F!TypeOK
  <2>4. F!TypeOK'
    BY <1>0, <1>s, <2>1, <2>3 DEF F!TypeOK, F!Call
  <2> QED
    BY <2>2, <2>4
<1>4. F!CallsAreCurrent'
  BY <1>0, <1>1, <1>2, <1>s, RowsCurrent
<1>5. F!AllAccounted'
  <2>1. CallsKept
    BY <1>2 DEF CallsKept, F!About
  <2>2. \A n \in nodes' : (n \in on => need \/ asked) => (n \in on' => need' \/ asked')
    BY <1>s
  <2> QED
    BY <2>1, <2>2, <1>s, RowsAccounted
<1> QED
  BY <1>3, <1>4, <1>5 DEF F!FleetInv

\* The core is stopped by hand, or started again.
LEMMA CoreByHandKept ==
  ASSUME F!FleetInv, NEW m \in Nodes, F!StopXrayOnNode(m) \/ F!ForceReloadNode(m)
  PROVE  F!FleetInv'
<1>0. F!TypeOK /\ F!Shapes /\ F!CallsAreCurrent
  BY DEF F!FleetInv
<1>s. running' \subseteq running \cup {m}
      /\ UNCHANGED <<F!db, asks, need, asked, pushing, block, calls, conf, owed, edits>>
  BY DEF F!StopXrayOnNode, F!ForceReloadNode, F!Idle
<1>1. F!Shapes'
  BY <1>0, <1>s DEF F!Shapes, F!db
<1>2. F!TypeOK'
  BY <1>0, <1>s DEF F!TypeOK, F!db
<1>3. F!CallsAreCurrent'
  <2>1. \A n : F!Wanted(n)' = F!Wanted(n)
    BY <1>s, SameWanted DEF F!db
  <2> QED
    BY <2>1, <1>0, <1>s DEF F!CallsAreCurrent, F!About, F!db
<1>4. F!AllAccounted'
  <2>1. CallsKept
    BY <1>s DEF CallsKept, F!About
  <2> QED
    BY <2>1, <1>s, RowsAccounted DEF F!db
<1> QED
  BY <1>1, <1>2, <1>3, <1>4 DEF F!FleetInv

-----------------------------------------------------------------------------
(* The full push.                                                          *)

\* The push reaches every enabled node something is due for.
LEMMA RestartXrayKept ==
  ASSUME F!FleetAssumption, F!FleetInv, F!RestartXray
  PROVE  F!FleetInv'
<1>0. F!TypeOK /\ F!Shapes /\ F!CallsAreCurrent
  BY DEF F!FleetInv
<1>s. /\ pushing = {} /\ pushing' = F!NeedingPush
      /\ UNCHANGED <<row, available, assigned, nodes, on, blocked, asks, block, calls, conf,
                     running, owed, edits>>
  BY DEF F!RestartXray, F!db, F!worker, F!LockFree
<1>1. F!Shapes'
  BY <1>0, <1>s DEF F!Shapes
<1>2. F!TypeOK'
  <2>1. need' \in BOOLEAN /\ asked' \in BOOLEAN /\ F!NeedingPush \subseteq Nodes
    BY <1>0 DEF F!RestartXray, F!TypeOK, F!NeedingPush
  <2> QED
    BY <2>1, <1>0, <1>s DEF F!TypeOK
<1>3. \A n : F!On(n)' = F!On(n) /\ F!Wanted(n)' = F!Wanted(n)
  BY <1>s, SameWanted
<1>4. F!CallsAreCurrent'
  BY <1>0, <1>3, <1>s DEF F!CallsAreCurrent, F!About
<1>5. F!AllAccounted'
  <2> SUFFICES ASSUME NEW n \in nodes', NEW x \in F!Things, F!Differs(n, x)'
               PROVE  (<<n, x>> \in owed \/ F!OnTheWay(n, x) \/ F!DueWithPush(n, x))'
    BY DEF F!AllAccounted, F!Accounted
  <2>1. F!Differs(n, x)
    BY <1>3, <1>s DEF F!Differs
  <2>2. <<n, x>> \in owed \/ F!OnTheWay(n, x) \/ F!DueWithPush(n, x)
    BY <2>1, <1>s DEF F!FleetInv, F!AllAccounted, F!Accounted
  <2>3. F!OnTheWay(n, x) => F!OnTheWay(n, x)'
    BY <1>s DEF F!OnTheWay, F!StillToldOf, F!About
  <2>4. CASE F!DueWithPush(n, x)
    <3>1. CASE n \in on
      <4>1. F!On(n) # {}
        BY <2>1, <2>4 DEF F!DueWithPush, F!Differs
      <4>2. n \in pushing'
        BY <4>1, <3>1, <1>s DEF F!NeedingPush
      <4> QED
        BY <4>2 DEF F!OnTheWay
    <3>2. CASE n \notin on
      BY <3>2, <2>4, <1>3, <1>s DEF F!DueWithPush
    <3> QED
      BY <3>1, <3>2
  <2> QED
    BY <2>2, <2>3, <2>4, <1>s
<1> QED
  BY <1>1, <1>2, <1>4, <1>5 DEF F!FleetInv

\* The node's goroutine sends what is wanted now.
LEMMA PushKept ==
  ASSUME F!FleetAssumption, F!FleetInv, NEW m \in Nodes, F!Push(m)
  PROVE  F!FleetInv'
<1>0. F!TypeOK /\ F!Shapes /\ F!CallsAreCurrent
  BY DEF F!FleetInv
<1>s. /\ pushing' = pushing \ {m} /\ calls' = calls \cup {F!Full(m)}
      /\ UNCHANGED <<row, available, assigned, nodes, on, blocked, asks, need, asked, block,
                     conf, running, owed, edits>>
  BY DEF F!Push, F!db, F!worker
<1>f. /\ F!Full(m) \in F!Call /\ F!Full(m).kind = "apply" /\ F!Full(m).node = m
      /\ F!Full(m).give = F!Wanted(m) /\ F!About(F!Full(m)) = F!Things
  BY <1>0, FullCall
<1>1. F!TypeOK' /\ F!Shapes'
  <2>1. calls' \subseteq F!Call
        /\ \A c \in calls' : c.kind \in {"update", "remove", "assign"} => c.on \in Inbounds
    BY <1>0, <1>f, <1>s DEF F!Shapes
  <2>2. F!Shapes'
    BY <1>0, <1>s, <2>1 DEF F!Shapes
  <2>3. F!TypeOK'
    BY <1>0, <1>s, <2>1 DEF F!TypeOK, F!Call
  <2> QED
    BY <2>2, <2>3
<1>2. F!CallsAreCurrent'
  <2> DEFINE E == {F!Full(m)}
  <2>1. calls' \subseteq calls \cup E /\ nodes' \subseteq nodes
    BY <1>s
  <2>2. \A c \in E : c.node \in nodes' =>
          \A x \in F!About(c) \ c.old : c.give[x] = F!Wanted(c.node)[x]
    BY <1>f
  <2> HIDE DEF E
  <2> QED
    BY <2>1, <2>2, <1>0, <1>s, RowsCurrent
<1>3. F!AllAccounted'
  <2> SUFFICES ASSUME NEW n \in nodes', NEW x \in F!Things PROVE F!Accounted(n, x)'
    BY DEF F!AllAccounted
  <2>1. CASE n = m
    BY <2>1, <1>f, <1>s DEF F!Accounted, F!OnTheWay
  <2>2. CASE n # m
    <3> SUFFICES ASSUME F!Differs(n, x)'
                 PROVE  (<<n, x>> \in owed \/ F!OnTheWay(n, x) \/ F!DueWithPush(n, x))'
      BY DEF F!Accounted
    <3>1. F!On(n)' = F!On(n) /\ F!Wanted(n)' = F!Wanted(n)
      BY <1>s, SameWanted
    <3>2. <<n, x>> \in owed \/ F!OnTheWay(n, x) \/ F!DueWithPush(n, x)
      BY <3>1, <1>s DEF F!Differs, F!FleetInv, F!AllAccounted, F!Accounted
    <3>3. F!OnTheWay(n, x) => F!OnTheWay(n, x)'
      BY <2>2, <1>s DEF F!OnTheWay, F!StillToldOf, F!About
    <3>4. F!DueWithPush(n, x) => F!DueWithPush(n, x)'
      BY <3>1, <1>s DEF F!DueWithPush
    <3> QED
      BY <3>2, <3>3, <3>4, <1>s
  <2> QED
    BY <2>1, <2>2
<1> QED
  BY <1>1, <1>2, <1>3 DEF F!FleetInv

-----------------------------------------------------------------------------
(* A blocked address.                                                      *)

\* Everybody is to be told, one after the other.
LEMMA BlockKept ==
  ASSUME F!FleetAssumption, F!FleetInv, F!SetSessionIPBlocked
  PROVE  F!FleetInv'
<1>0. F!TypeOK /\ F!Shapes /\ F!CallsAreCurrent /\ Rule \in F!Things /\ edits' = edits + 1
      /\ edits \in Nat /\ MaxEdits \in Nat /\ edits < MaxEdits
  BY EditTypes DEF F!FleetInv, F!Things, F!SetSessionIPBlocked
<1>s. /\ blocked' = ~blocked /\ ~block.busy /\ calls' = F!Aged(Rule)
      /\ block' = [all |-> nodes, todo |-> nodes, failed |-> {}, busy |-> TRUE]
      /\ UNCHANGED <<row, available, assigned, nodes, on, asks, need, asked, pushing, conf,
                     running, owed>>
  BY DEF F!SetSessionIPBlocked, F!worker
<1>b. block.todo = {} /\ block.failed = {} /\ nodes \subseteq Nodes
  BY <1>0, <1>s DEF F!Shapes, F!TypeOK
<1>1. F!TypeOK' /\ F!Shapes'
  <2>1. calls' \subseteq F!Call
        /\ \A c \in calls' : c.kind \in {"update", "remove", "assign"} => c.on \in Inbounds
    BY <1>0, <1>s, AgedCalls
  <2>2. F!Shapes'
    BY <1>0, <1>s, <1>b, <2>1 DEF F!Shapes
  <2>3. F!TypeOK'
    BY <1>0, <1>s, <1>b, <2>1 DEF F!TypeOK, F!Call
  <2> QED
    BY <2>2, <2>3
<1>2. \A n : \A x \in Inbounds : F!On(n)' = F!On(n) /\ F!Wanted(n)'[x] = F!Wanted(n)[x]
  <2>1. \A n : F!On(n)' = F!On(n)
    BY <1>s DEF F!On, F!Exists
  <2> QED
    BY <2>1, <1>s, WantedInbound
<1>3. F!CallsAreCurrent'
  <2> DEFINE none == {}
  <2>1. \A c \in none : c.node \in nodes' =>
          \A x \in F!About(c) \ c.old : c.give[x] = F!Wanted(c.node)'[x]
    OBVIOUS
  <2>2. \A n \in nodes', x \in Inbounds \ {Rule} : F!Wanted(n)'[x] = F!Wanted(n)[x]
    BY <1>2
  <2>3. nodes' \subseteq nodes /\ calls' = F!Aged(Rule) \cup none
    BY <1>s
  <2> HIDE DEF none
  <2> QED
    BY <2>1, <2>2, <2>3, <1>0, AgedAreCurrent
<1>4. F!AllAccounted'
  <2> SUFFICES ASSUME NEW n \in nodes', NEW x \in F!Things PROVE F!Accounted(n, x)'
    BY DEF F!AllAccounted
  <2>1. CASE x = Rule
    BY <2>1, <1>s DEF F!Accounted, F!OnTheWay, F!StillToldOf
  <2>2. CASE x # Rule
    <3> SUFFICES ASSUME F!Differs(n, x)'
                 PROVE  (<<n, x>> \in owed \/ F!OnTheWay(n, x) \/ F!DueWithPush(n, x))'
      BY DEF F!Accounted
    <3>0. x \in Inbounds
      BY <2>2 DEF F!Things
    <3>1. F!Differs(n, x)
      BY <3>0, <1>2, <1>s DEF F!Differs
    <3>2. <<n, x>> \in owed \/ F!OnTheWay(n, x) \/ F!DueWithPush(n, x)
      BY <3>1, <1>s DEF F!FleetInv, F!AllAccounted, F!Accounted
    <3>3. F!OnTheWay(n, x) => F!OnTheWay(n, x)'
      <4>1. \A c \in calls : \E d \in calls' : d.node = c.node /\ F!About(d) = F!About(c)
        BY <1>0, <1>s, AgedCalls
      <4> QED
        BY <4>1, <1>s, <2>2 DEF F!OnTheWay, F!StillToldOf
    <3>4. F!DueWithPush(n, x) => F!DueWithPush(n, x)'
      BY <3>0, <1>2, <1>s DEF F!DueWithPush
    <3> QED
      BY <3>2, <3>3, <3>4, <1>s
  <2> QED
    BY <2>1, <2>2
<1> QED
  BY <1>1, <1>3, <1>4 DEF F!FleetInv

\* The node is told, or has its full configuration to come.
LEMMA HotRuleKept ==
  ASSUME F!FleetAssumption, F!FleetInv, NEW m \in Nodes, F!HotRule(m)
  PROVE  F!FleetInv'
<1>0. F!TypeOK /\ F!Shapes /\ F!CallsAreCurrent /\ Rule \in F!Things /\ block.busy
  BY DEF F!FleetInv, F!Things, F!HotRule, F!Shapes
<1>b. F!Blocked(blocked) \in F!Content
  BY DEF F!Blocked, F!Content, F!Deleted
<1>s. /\ m \in block.todo
      /\ \/ /\ conf' = [conf EXCEPT ![m][Rule] = F!Blocked(blocked)]
            /\ block' = [block EXCEPT !.todo = @ \ {m}]
            /\ owed' = owed \ {<<m, Rule>>}
         \/ /\ block' = [block EXCEPT !.todo = @ \ {m}, !.failed = @ \cup {m}]
            /\ conf' = conf /\ owed' = owed
      /\ UNCHANGED <<row, available, assigned, nodes, on, blocked, asks, need, asked, pushing,
                     calls, running, edits>>
  BY DEF F!HotRule, F!db
<1>1. F!TypeOK' /\ F!Shapes'
  <2>1. block' \in [all : SUBSET Nodes, todo : SUBSET Nodes, failed : SUBSET Nodes,
                    busy : BOOLEAN] /\ block'.busy
    BY <1>0, <1>s, ZenonT(30) DEF F!Shapes
  <2>2. conf' \in [Nodes -> [F!Things -> F!Content]]
    BY <1>0, <1>b, <1>s DEF F!Shapes
  <2>3. F!Shapes'
    BY <1>0, <1>s, <2>1, <2>2 DEF F!Shapes
  <2>4. owed' \subseteq Nodes \X F!Things
    BY <1>0, <1>s DEF F!TypeOK
  <2>5. F!TypeOK'
    BY <1>0, <1>s, <2>1, <2>4 DEF F!TypeOK
  <2> QED
    BY <2>3, <2>5
<1>2. \A n : F!On(n)' = F!On(n) /\ F!Wanted(n)' = F!Wanted(n)
  BY <1>s, SameWanted
<1>3. F!CallsAreCurrent'
  BY <1>0, <1>2, <1>s DEF F!CallsAreCurrent, F!About
<1>4. F!AllAccounted'
  <2> SUFFICES ASSUME NEW n \in nodes', NEW x \in F!Things, F!Differs(n, x)'
               PROVE  (<<n, x>> \in owed \/ F!OnTheWay(n, x) \/ F!DueWithPush(n, x))'
    BY DEF F!AllAccounted, F!Accounted
  <2>0. n \in Nodes /\ n \in nodes
    BY <1>0, <1>s DEF F!TypeOK
  <2>1. CASE n = m /\ x = Rule /\ conf' = [conf EXCEPT ![m][Rule] = F!Blocked(blocked)]
    <3>1. conf'[n][x] = F!Blocked(blocked)
      BY <2>0, <2>1, <1>0 DEF F!Shapes
    <3>2. F!On(n)' # {} /\ conf'[n][x] # F!Wanted(n)'[x]
      BY <2>1 DEF F!Differs
    <3>3. F!Wanted(n)'[x] = F!Blocked(blocked)
      BY <3>2, <2>1, <1>s, WantedRule DEF F!Blocked
    <3> QED
      BY <3>1, <3>2, <3>3
  <2>2. CASE ~(n = m /\ x = Rule /\ conf' = [conf EXCEPT ![m][Rule] = F!Blocked(blocked)])
    <3>1. conf'[n][x] = conf[n][x]
      BY <2>0, <2>2, <1>0, <1>s DEF F!Shapes
    <3>2. F!Differs(n, x)
      BY <3>1, <1>2 DEF F!Differs
    <3>3. <<n, x>> \in owed \/ F!OnTheWay(n, x) \/ F!DueWithPush(n, x)
      BY <3>2, <2>0 DEF F!FleetInv, F!AllAccounted, F!Accounted
    <3>4. <<n, x>> \in owed => <<n, x>> \in owed'
      BY <2>2, <1>s
    <3>5. F!StillToldOf(n, x) => F!StillToldOf(n, x)'
      BY <2>2, <1>0, <1>s, ZenonT(30) DEF F!StillToldOf, F!Shapes
    <3>6. F!OnTheWay(n, x) => F!OnTheWay(n, x)'
      BY <3>5, <1>s DEF F!OnTheWay, F!About
    <3>7. F!DueWithPush(n, x) => F!DueWithPush(n, x)'
      BY <1>2, <1>s DEF F!DueWithPush
    <3> QED
      BY <3>3, <3>4, <3>6, <3>7
  <2> QED
    BY <2>1, <2>2
<1> QED
  BY <1>1, <1>3, <1>4 DEF F!FleetInv

\* Those that failed get their full configuration, or a push is asked for.
LEMMA FallBackKept ==
  ASSUME F!FleetAssumption, F!FleetInv, F!FallBack
  PROVE  F!FleetInv'
<1>0. F!TypeOK /\ F!Shapes /\ F!CallsAreCurrent /\ block.busy /\ block.todo = {}
      /\ block.failed \subseteq Nodes
  BY DEF F!FleetInv, F!FallBack, F!Shapes
<1>s. UNCHANGED <<row, available, assigned, nodes, on, blocked, asks, need, pushing, conf,
                  running, owed, edits>>
  BY DEF F!FallBack, F!db, F!worker
<1>w. \A n : F!On(n)' = F!On(n) /\ F!Wanted(n)' = F!Wanted(n)
  BY <1>s, SameWanted
<1>1. CASE block.failed \in {{}, block.all}
  <2>1. block' = F!NoBlock /\ asked' = (asked \/ block.failed # {}) /\ calls' = calls
    BY <1>1 DEF F!FallBack
  <2>2. F!Shapes'
    BY <1>0, <1>s, <2>1 DEF F!Shapes, F!NoBlock
  <2>3. F!TypeOK'
    BY <1>0, <1>s, <2>1 DEF F!TypeOK, F!NoBlock
  <2>4. F!CallsAreCurrent'
    BY <1>0, <1>w, <1>s, <2>1 DEF F!CallsAreCurrent, F!About
  <2>5. F!AllAccounted'
    <3> SUFFICES ASSUME NEW n \in nodes', NEW x \in F!Things, F!Differs(n, x)'
                 PROVE  (<<n, x>> \in owed \/ F!OnTheWay(n, x) \/ F!DueWithPush(n, x))'
      BY DEF F!AllAccounted, F!Accounted
    <3>1. <<n, x>> \in owed \/ F!OnTheWay(n, x) \/ F!DueWithPush(n, x)
      BY <1>w, <1>s DEF F!Differs, F!FleetInv, F!AllAccounted, F!Accounted
    <3>2. F!OnTheWay(n, x) => F!OnTheWay(n, x)' \/ (x = Rule /\ block.failed # {})
      <4>1. F!StillToldOf(n, x) => x = Rule /\ block.failed # {}
        BY <1>0 DEF F!StillToldOf
      <4>2. (\E c \in calls : c.node = n /\ x \in F!About(c)) \/ n \in pushing => F!OnTheWay(n, x)'
        BY <1>s, <2>1 DEF F!OnTheWay, F!About
      <4> QED
        BY <4>1, <4>2 DEF F!OnTheWay
    <3>3. x = Rule /\ block.failed # {} => F!DueWithPush(n, x)'
      BY <2>1 DEF F!DueWithPush
    <3>4. F!DueWithPush(n, x) => F!DueWithPush(n, x)'
      BY <1>w, <1>s, <2>1 DEF F!DueWithPush
    <3> QED
      BY <3>1, <3>2, <3>3, <3>4, <1>s
  <2> QED
    BY <2>2, <2>3, <2>4, <2>5 DEF F!FleetInv
<1>2. CASE block.failed \notin {{}, block.all}
  <2>1. PICK m \in block.failed :
          /\ calls' = calls \cup {F!Full(m)}
          /\ block' = [block EXCEPT !.failed = @ \ {m},
                                    !.busy = @ /\ block.failed # {m}, !.all = {}]
          /\ asked' = asked
    BY <1>2 DEF F!FallBack
  <2>f. /\ F!Full(m) \in F!Call /\ F!Full(m).kind = "apply" /\ F!Full(m).node = m
        /\ F!Full(m).give = F!Wanted(m) /\ F!About(F!Full(m)) = F!Things
    BY <1>0, FullCall
  <2>b. /\ block' \in [all : SUBSET Nodes, todo : SUBSET Nodes, failed : SUBSET Nodes,
                       busy : BOOLEAN]
        /\ block'.todo = {} /\ block'.failed = block.failed \ {m}
        /\ ~block'.busy => block'.failed = {}
    BY <1>0, <2>1 DEF F!Shapes
  <2>2. calls' \subseteq F!Call
        /\ \A c \in calls' : c.kind \in {"update", "remove", "assign"} => c.on \in Inbounds
    BY <1>0, <2>f, <2>1 DEF F!Shapes
  <2>3. F!Shapes'
    BY <1>0, <1>s, <2>b, <2>2 DEF F!Shapes
  <2>4. F!TypeOK'
    BY <1>0, <1>s, <2>1, <2>b, <2>2 DEF F!TypeOK, F!Call
  <2>5. F!CallsAreCurrent'
    <3> DEFINE E == {F!Full(m)}
    <3>1. calls' \subseteq calls \cup E /\ nodes' \subseteq nodes
      BY <1>s, <2>1
    <3>2. \A c \in E : c.node \in nodes' =>
            \A x \in F!About(c) \ c.old : c.give[x] = F!Wanted(c.node)[x]
      BY <2>f
    <3> HIDE DEF E
    <3> QED
      BY <3>1, <3>2, <1>0, <1>s, RowsCurrent
  <2>6. F!AllAccounted'
    <3> SUFFICES ASSUME NEW n \in nodes', NEW x \in F!Things, F!Differs(n, x)'
                 PROVE  (<<n, x>> \in owed \/ F!OnTheWay(n, x) \/ F!DueWithPush(n, x))'
      BY DEF F!AllAccounted, F!Accounted
    <3>1. <<n, x>> \in owed \/ F!OnTheWay(n, x) \/ F!DueWithPush(n, x)
      BY <1>w, <1>s DEF F!Differs, F!FleetInv, F!AllAccounted, F!Accounted
    <3>2. F!OnTheWay(n, x) => F!OnTheWay(n, x)'
      <4>1. CASE n = m
        BY <4>1, <2>f, <2>1 DEF F!OnTheWay
      <4>2. CASE n # m
        BY <4>2, <1>0, <1>s, <2>1, <2>b DEF F!OnTheWay, F!StillToldOf, F!About
      <4> QED
        BY <4>1, <4>2
    <3>3. F!DueWithPush(n, x) => F!DueWithPush(n, x)'
      BY <1>w, <1>s, <2>1 DEF F!DueWithPush
    <3> QED
      BY <3>1, <3>2, <3>3, <1>s
  <2> QED
    BY <2>3, <2>4, <2>5, <2>6 DEF F!FleetInv
<1> QED
  BY <1>1, <1>2

-----------------------------------------------------------------------------
(* What becomes of a call.                                                 *)

\* The fate of call c is known when what it was about is accounted for.
LEMMA CallGone ==
  ASSUME F!FleetAssumption, F!FleetInv, NEW c \in calls, NEW E, E \subseteq {F!Full(c.node)},
         calls' = (calls \ {c}) \cup E, UNCHANGED <<F!db, edits>>, F!Idle,
         running' \subseteq running \cup Nodes,
         conf' \in [Nodes -> [F!Things -> F!Content]], owed' \subseteq Nodes \X F!Things,
         \A n \in nodes, x \in F!Things : ~(n = c.node /\ x \in F!About(c)) =>
           conf'[n][x] = conf[n][x] /\ (<<n, x>> \in owed => <<n, x>> \in owed'),
         c.node \in nodes => \A x \in F!About(c) : F!Accounted(c.node, x)'
  PROVE  F!FleetInv'
<1>0. F!TypeOK /\ F!Shapes /\ F!CallsAreCurrent /\ c \in F!Call /\ c.node \in Nodes
  BY DEF F!FleetInv, F!Shapes, F!Call
<1>s. UNCHANGED <<row, available, assigned, nodes, on, blocked, edits, asks, need, asked,
                  pushing, block>>
  BY DEF F!db, F!Idle
<1>f. /\ F!Full(c.node) \in F!Call /\ F!Full(c.node).kind = "apply" /\ F!Full(c.node).node = c.node
      /\ F!Full(c.node).give = F!Wanted(c.node)
  BY <1>0, FullCall
<1>1. F!TypeOK' /\ F!Shapes'
  <2>1. calls' \subseteq F!Call
        /\ \A d \in calls' : d.kind \in {"update", "remove", "assign"} => d.on \in Inbounds
    BY <1>0, <1>f DEF F!Shapes
  <2>2. F!Shapes'
    BY <1>0, <1>s, <2>1 DEF F!Shapes
  <2>3. F!TypeOK'
    BY <1>0, <1>s, <2>1 DEF F!TypeOK, F!Call
  <2> QED
    BY <2>2, <2>3
<1>2. F!CallsAreCurrent'
  <2>1. \A d \in E : d.node \in nodes' =>
          \A x \in F!About(d) \ d.old : d.give[x] = F!Wanted(d.node)[x]
    BY <1>f
  <2>2. calls' \subseteq calls \cup E
    OBVIOUS
  <2> QED
    BY <2>1, <2>2, <1>0, <1>s, RowsCurrent
<1>3. F!AllAccounted'
  <2> SUFFICES ASSUME NEW n \in nodes', NEW x \in F!Things PROVE F!Accounted(n, x)'
    BY DEF F!AllAccounted
  <2>1. CASE n = c.node /\ x \in F!About(c)
    BY <2>1, <1>s
  <2>2. CASE ~(n = c.node /\ x \in F!About(c))
    <3> SUFFICES ASSUME F!Differs(n, x)'
                 PROVE  (<<n, x>> \in owed \/ F!OnTheWay(n, x) \/ F!DueWithPush(n, x))'
      BY DEF F!Accounted
    <3>1. F!On(n)' = F!On(n) /\ F!Wanted(n)' = F!Wanted(n)
      BY <1>s, SameWanted
    <3>2. conf'[n][x] = conf[n][x] /\ (<<n, x>> \in owed => <<n, x>> \in owed')
      BY <2>2, <1>s
    <3>3. <<n, x>> \in owed \/ F!OnTheWay(n, x) \/ F!DueWithPush(n, x)
      BY <3>1, <3>2, <1>s DEF F!Differs, F!FleetInv, F!AllAccounted, F!Accounted
    <3>4. F!OnTheWay(n, x) => F!OnTheWay(n, x)'
      BY <2>2, <1>s DEF F!OnTheWay, F!StillToldOf, F!About
    <3>5. F!DueWithPush(n, x) => F!DueWithPush(n, x)'
      BY <3>1, <1>s DEF F!DueWithPush
    <3> QED
      BY <3>2, <3>3, <3>4, <3>5
  <2> QED
    BY <2>1, <2>2
<1> QED
  BY <1>1, <1>2, <1>3 DEF F!FleetInv

\* A call that arrives brings what the panel wants, or leaves its debt.
LEMMA DeliverKept ==
  ASSUME F!FleetAssumption, F!FleetInv, NEW c \in calls, F!Deliver(c)
  PROVE  F!FleetInv'
<1> DEFINE n == c.node
           none == {}
<1>0. F!TypeOK /\ F!Shapes /\ F!CallsAreCurrent /\ c \in F!Call /\ n \in Nodes /\ c.on \in F!Things
      /\ c.give \in [F!Things -> F!Content] /\ c.old \subseteq F!Things
  BY DEF F!FleetInv, F!Shapes, F!Call
<1>s. /\ calls' = (calls \ {c}) \cup none /\ none \subseteq {F!Full(c.node)}
      /\ UNCHANGED <<F!db, edits>> /\ F!Idle
  BY DEF F!Deliver
<1> HIDE DEF none
<1>w. F!Wanted(n)' = F!Wanted(n) /\ F!On(n)' = F!On(n) /\ nodes' = nodes
  BY <1>s, SameWanted DEF F!db
<1>1. CASE c.kind = "apply"
  <2>1. /\ conf' = [conf EXCEPT ![n] = c.give] /\ running' = running \cup {n}
        /\ owed' = (owed \ F!Pairs({n}, F!Things)) \cup F!Pairs({n}, F!Things \cap c.old)
        /\ F!About(c) = F!Things
    BY <1>1 DEF F!Deliver, F!Settle, F!About
  <2>2. conf' \in [Nodes -> [F!Things -> F!Content]] /\ conf'[n] = c.give
    BY <2>1, <1>0 DEF F!Shapes
  <2>3. owed' \subseteq Nodes \X F!Things
    BY <2>1, <1>0 DEF F!TypeOK, F!Pairs
  <2>4. \A m \in nodes, x \in F!Things : ~(m = n /\ x \in F!About(c)) =>
          conf'[m][x] = conf[m][x] /\ (<<m, x>> \in owed => <<m, x>> \in owed')
    BY <2>1, <1>0 DEF F!Pairs, F!Shapes
  <2>5. ASSUME n \in nodes, NEW x \in F!About(c) PROVE F!Accounted(n, x)'
    <3>1. CASE x \in c.old
      BY <3>1, <2>1 DEF F!Accounted, F!Pairs
    <3>2. CASE x \notin c.old
      BY <3>2, <2>5, <2>2, <1>w, <1>0 DEF F!Accounted, F!Differs, F!CallsAreCurrent
    <3> QED
      BY <3>1, <3>2
  <2>6. n \in nodes => \A x \in F!About(c) : F!Accounted(n, x)'
    BY <2>5
  <2>7. running' \subseteq running \cup Nodes
    BY <2>1, <1>0
  <2> HIDE <2>1, <2>5
  <2> QED
    BY <2>2, <2>3, <2>4, <2>6, <2>7, <1>s, CallGone
<1>2. CASE c.kind = "stop"
  <2>1. running' \subseteq running /\ conf' = conf /\ owed' = owed /\ F!About(c) = {}
    BY <1>2 DEF F!Deliver, F!About
  <2> QED
    BY <2>1, <1>0, <1>s, CallGone DEF F!Shapes, F!TypeOK
<1>3. CASE c.kind \notin {"apply", "stop"}
  <2>1. /\ conf' = [conf EXCEPT ![n][c.on] = c.give[c.on]] /\ running' = running
        /\ owed' = (owed \ F!Pairs({n}, {c.on})) \cup F!Pairs({n}, {c.on} \cap c.old)
        /\ F!About(c) = {c.on}
    BY <1>3 DEF F!Deliver, F!Settle, F!About
  <2>2. conf' \in [Nodes -> [F!Things -> F!Content]] /\ conf'[n][c.on] = c.give[c.on]
    BY <2>1, <1>0 DEF F!Shapes
  <2>3. owed' \subseteq Nodes \X F!Things
    BY <2>1, <1>0 DEF F!TypeOK, F!Pairs
  <2>4. \A m \in nodes, x \in F!Things : ~(m = n /\ x \in F!About(c)) =>
          conf'[m][x] = conf[m][x] /\ (<<m, x>> \in owed => <<m, x>> \in owed')
    <3>1. nodes \subseteq Nodes
      BY <1>0 DEF F!TypeOK
    <3> QED
      BY <3>1, <2>1, <1>0 DEF F!Pairs, F!Shapes
  <2>5. ASSUME n \in nodes, NEW x \in F!About(c) PROVE F!Accounted(n, x)'
    <3>1. CASE x \in c.old
      BY <3>1, <2>1 DEF F!Accounted, F!Pairs
    <3>2. CASE x \notin c.old
      BY <3>2, <2>5, <2>1, <2>2, <1>w, <1>0 DEF F!Accounted, F!Differs, F!CallsAreCurrent
    <3> QED
      BY <3>1, <3>2
  <2>6. n \in nodes => \A x \in F!About(c) : F!Accounted(n, x)'
    BY <2>5
  <2>7. running' \subseteq running \cup Nodes
    BY <2>1
  <2> HIDE <2>1, <2>5
  <2> QED
    BY <2>2, <2>3, <2>4, <2>6, <2>7, <1>s, CallGone
<1> QED
  BY <1>1, <1>2, <1>3

\* A call that finds no core leaves a debt or becomes a full configuration.
LEMMA RefuseKept ==
  ASSUME F!FleetAssumption, F!FleetInv, NEW c \in calls, F!Refuse(c)
  PROVE  F!FleetInv'
<1>0. F!TypeOK /\ F!Shapes /\ c \in F!Call /\ c.node \in Nodes /\ c.on \in F!Things
  BY DEF F!FleetInv, F!Shapes, F!Call
<1>s. UNCHANGED <<F!db, edits, conf, running>> /\ F!Idle /\ F!About(c) = {c.on}
  BY DEF F!Refuse, F!worker, F!About
<1>1. CASE c.kind = "assign"
  <2> DEFINE E == {F!Full(c.node)}
  <2>1. calls' = (calls \ {c}) \cup E /\ owed' = owed
    BY <1>1 DEF F!Refuse
  <2>2. c.node \in nodes => \A x \in F!About(c) : F!Accounted(c.node, x)'
    <3>1. F!Full(c.node).node = c.node /\ F!About(F!Full(c.node)) = F!Things
      BY <1>0, FullCall
    <3> QED
      BY <3>1, <2>1, <1>0, <1>s DEF F!Accounted, F!OnTheWay
  <2>3. E \subseteq {F!Full(c.node)}
    OBVIOUS
  <2> HIDE DEF E
  <2> QED
    BY <2>1, <2>2, <2>3, <1>0, <1>s, CallGone DEF F!Shapes, F!TypeOK
<1>2. CASE c.kind # "assign"
  <2> DEFINE none == {}
  <2>1. calls' = (calls \ {c}) \cup none /\ owed' = owed \cup {<<c.node, c.on>>}
        /\ none \subseteq {F!Full(c.node)}
    BY <1>2 DEF F!Refuse
  <2>2. \A x \in F!About(c) : F!Accounted(c.node, x)'
    BY <2>1, <1>s DEF F!Accounted
  <2>3. owed' \subseteq Nodes \X F!Things /\ owed \subseteq owed'
    BY <2>1, <1>0 DEF F!TypeOK
  <2>4. conf' \in [Nodes -> [F!Things -> F!Content]] /\ running' \subseteq running \cup Nodes
    BY <1>0, <1>s DEF F!Shapes
  <2> HIDE DEF none
  <2> QED
    BY <2>1, <2>2, <2>3, <2>4, <1>s, CallGone
<1> QED
  BY <1>1, <1>2

\* A call that is lost leaves a debt.
LEMMA LoseKept ==
  ASSUME F!FleetAssumption, F!FleetInv, NEW c \in calls, F!Lose(c)
  PROVE  F!FleetInv'
<1> DEFINE none == {}
<1>0. F!TypeOK /\ F!Shapes /\ c \in F!Call /\ c.node \in Nodes /\ c.on \in F!Things
  BY DEF F!FleetInv, F!Shapes, F!Call
<1>s. UNCHANGED <<F!db, edits, conf, running>> /\ F!Idle
      /\ calls' = (calls \ {c}) \cup none /\ none \subseteq {F!Full(c.node)}
  BY DEF F!Lose, F!worker
<1>1. /\ owed \subseteq owed' /\ owed' \subseteq Nodes \X F!Things
      /\ \A x \in F!About(c) : <<c.node, x>> \in owed'
  BY <1>0 DEF F!Lose, F!About, F!Pairs, F!TypeOK, F!Things
<1>2. \A x \in F!About(c) : F!Accounted(c.node, x)'
  BY <1>1 DEF F!Accounted
<1> HIDE DEF none
<1> QED
  BY <1>0, <1>1, <1>2, <1>s, CallGone DEF F!Shapes

-----------------------------------------------------------------------------
(* The invariant.                                                          *)

\* At first there are no workers and nothing to serve.
LEMMA FleetInit == ASSUME F!FleetAssumption, F!Init PROVE F!FleetInv
<1>1. \A i \in Inbounds : row[i] = F!Absent \/
        /\ row[i].port \in Ports /\ row[i].ver = 1 /\ row[i] \in [port : Ports, ver : 1..MaxEdits + 1]
        /\ row[i] # F!Absent
  <2> SUFFICES ASSUME NEW i \in Inbounds, \E n \in Nodes : <<i, n>> \in Given
               PROVE  /\ row[i].port \in Ports /\ row[i].ver = 1 /\ row[i] # F!Absent
                      /\ row[i] \in [port : Ports, ver : 1..MaxEdits + 1]
    BY DEF F!Init
  <2>1. row[i] = [port |-> CHOOSE p \in Ports : TRUE, ver |-> 1]
    BY DEF F!Init
  <2>2. (CHOOSE p \in Ports : TRUE) \in Ports
    BY DEF F!FleetAssumption
  <2>3. 1 \in 1..MaxEdits + 1 /\ 0 \notin Ports
    BY DEF F!FleetAssumption
  <2> QED
    BY <2>1, <2>2, <2>3 DEF F!Absent
<1>2. row \in [Inbounds -> F!Content]
  <2>1. \A i \in Inbounds : row[i] \in F!Content
    BY <1>1 DEF F!Content
  <2> QED
    BY <2>1 DEF F!Init
<1>3. F!TypeOK
  BY <1>2 DEF F!Init, F!TypeOK, F!NoBlock, F!FleetAssumption
<1>4. F!Shapes
  <2>1. conf \in [Nodes -> [F!Things -> F!Content]]
    BY <1>3, WantedType DEF F!Init
  <2>2. \A i \in Inbounds, n \in Nodes : <<i, n>> \in Given => row[i] # F!Absent
    <3>1. \A i \in Inbounds : (\E n \in Nodes : <<i, n>> \in Given) => row[i].ver = 1
      BY DEF F!Init
    <3> QED
      BY <3>1 DEF F!Absent
  <2>3. ASSUME NEW m \in assigned PROVE m[1] \in Inbounds /\ row[m[1]] # F!Absent
    <3>1. PICK i \in Inbounds : \E n \in Nodes : m = <<i, n>>
      BY DEF F!Init, F!FleetAssumption
    <3>2. PICK n \in Nodes : m = <<i, n>>
      BY <3>1
    <3>3. m[1] = i /\ <<i, n>> \in Given
      BY <3>2 DEF F!Init
    <3> QED
      BY <3>3, <2>2
  <2>4. 0 \in 0..MaxEdits
    BY DEF F!FleetAssumption
  <2> QED
    BY <2>1, <2>3, <2>4 DEF F!Init, F!Shapes, F!NoBlock
<1>5. F!CallsAreCurrent
  BY DEF F!Init, F!CallsAreCurrent
<1>6. F!AllAccounted
  BY DEF F!Init, F!AllAccounted, F!Accounted, F!Differs
<1> QED
  BY <1>3, <1>4, <1>5, <1>6 DEF F!FleetInv

\* Nothing happens.
LEMMA FleetStutter == ASSUME F!FleetInv, UNCHANGED F!vars PROVE F!FleetInv'
<1>0. F!TypeOK /\ F!Shapes /\ F!CallsAreCurrent
  BY DEF F!FleetInv
<1>1. F!TypeOK'
  BY <1>0 DEF F!TypeOK, F!vars
<1>2. F!Shapes'
  BY <1>0 DEF F!Shapes, F!vars
<1>3. F!CallsAreCurrent'
  <2>1. \A n : F!Wanted(n)' = F!Wanted(n)
    BY SameWanted DEF F!vars
  <2> QED
    BY <2>1, <1>0 DEF F!CallsAreCurrent, F!About, F!vars
<1>4. F!AllAccounted'
  BY RowsAccounted DEF F!vars, CallsKept, F!About
<1> QED
  BY <1>1, <1>2, <1>3, <1>4 DEF F!FleetInv

\* The invariant is inductive.
LEMMA FleetNext == ASSUME F!FleetAssumption, F!FleetInv, [F!Next]_F!vars PROVE F!FleetInv'
<1>1. CASE UNCHANGED F!vars
  BY <1>1, FleetStutter
<1>2. ASSUME NEW i \in Inbounds,
             \/ F!DelInbound(i) \/ F!UnassignInboundFromNode(i)
             \/ \E p \in Ports : F!AddInbound(i, p) \/ F!MovePort(i, p)
             \/ \E e \in BOOLEAN : F!UpdateInbound(i, e)
             \/ \E ns \in SUBSET nodes \ {{}} : F!CheckAssign(i, ns)
      PROVE  F!FleetInv'
  BY <1>2, DelInboundKept, UnassignKept, AddInboundKept, MovePortKept, UpdateInboundKept,
     CheckAssignKept
<1>3. ASSUME NEW a \in asks, F!AssignInboundToNodes(a) \/ F!AssignFails(a)
      PROVE  F!FleetInv'
  BY <1>3, AssignKept, AssignFailsKept
<1>4. ASSUME NEW n \in Nodes,
             \/ F!DeleteNode(n) \/ F!SetNodeEnabled(n) \/ F!StopXrayOnNode(n) \/ F!ForceReloadNode(n)
             \/ F!Push(n) \/ F!HotRule(n)
      PROVE  F!FleetInv'
  BY <1>4, DeleteNodeKept, SetNodeEnabledKept, CoreByHandKept, PushKept, HotRuleKept
<1>5. CASE F!RestartXray \/ F!SetSessionIPBlocked \/ F!FallBack
  BY <1>5, RestartXrayKept, BlockKept, FallBackKept
<1>6. ASSUME NEW c \in calls, F!Deliver(c) \/ F!Refuse(c) \/ F!Lose(c)
      PROVE  F!FleetInv'
  BY <1>6, DeliverKept, RefuseKept, LoseKept
<1> QED
  BY <1>1, <1>2, <1>3, <1>4, <1>5, <1>6 DEF F!Next

\* For any numbers of nodes, inbounds, ports, edits, lost calls and stopped cores:
\* what a call tells is what the panel wants, but for what was changed since, and
\* what a worker lacks is accounted for.
THEOREM FleetInvariant == ASSUME F!FleetAssumption PROVE F!Spec => []F!FleetInv
<1>1. F!Init => F!FleetInv
  BY FleetInit
<1>2. F!FleetInv /\ [F!Next]_F!vars => F!FleetInv'
  BY FleetNext
<1> QED
  BY <1>1, <1>2, PTL DEF F!Spec

\* The rows, the calls and the workers' configurations are of their types.
THEOREM FleetTypes == ASSUME F!FleetAssumption PROVE F!Spec => []F!TypeOK
<1>1. F!FleetInv => F!TypeOK
  BY DEF F!FleetInv
<1> QED
  BY <1>1, FleetInvariant, PTL

\* A worker of an enabled node serves something else than the panel wants only
\* while a call or a push is on its way, or for a reason on record.
THEOREM NoneForgotten == ASSUME F!FleetAssumption PROVE F!Spec => []F!BehindForAReason
<1>1. F!FleetInv => F!BehindForAReason
  <2> SUFFICES ASSUME F!FleetInv, NEW n \in on, NEW x \in F!Things, F!Differs(n, x)
               PROVE  <<n, x>> \in owed \/ F!Pending(n, x)
    BY DEF F!BehindForAReason
  <2>1. n \in nodes
    BY DEF F!FleetInv, F!TypeOK
  <2>2. <<n, x>> \in owed \/ F!OnTheWay(n, x) \/ F!DueWithPush(n, x)
    BY <2>1 DEF F!FleetInv, F!AllAccounted, F!Accounted
  <2>3. F!OnTheWay(n, x) => F!Pending(n, x)
    BY DEF F!OnTheWay, F!Pending, F!About
  <2>4. F!DueWithPush(n, x) => F!Pending(n, x)
    <3>1. F!DueWithPush(n, x) => F!On(n) # {} /\ (need \/ asked)
      BY DEF F!DueWithPush, F!Differs
    <3> QED
      BY <3>1 DEF F!Pending, F!NeedingPush
  <2> QED
    BY <2>2, <2>3, <2>4
<1> QED
  BY <1>1, FleetInvariant, PTL

-----------------------------------------------------------------------------
(* The statistics the panel collects of the cores (NodeTraffic) and of the *)
(* Telemt processes (SidecarTraffic), for any finite sets of nodes,        *)
(* inbounds, clients and requests.                                         *)

CONSTANTS Books, Meters   \* the constants of the two modules
VARIABLES alive, tags, users, late, given, run, nodeRow, inboundRow, client, perNode,
          resetting, runs, events, moved, carried, billed, lossy, torn,
          octets, kept, handler, charged, starts, questions, passed, restarted, lapses

Traffic == INSTANCE NodeTraffic WITH
  Nodes <- Books.Nodes, Clients <- Books.Clients, Inbounds <- Books.Inbounds,
  Given <- Books.Given, MaxTries <- Books.MaxTries, MaxMoved <- Books.MaxMoved,
  MaxRuns <- Books.MaxRuns, MaxEvents <- Books.MaxEvents,
  assigned <- given, due <- billed

Octets == INSTANCE SidecarTraffic WITH
  Handlers <- Meters.Handlers, Clients <- Meters.Clients, MaxMoved <- Meters.MaxMoved,
  MaxStarts <- Meters.MaxStarts, MaxAsks <- Meters.MaxAsks,
  file <- kept, asks <- questions, excuses <- lapses

-----------------------------------------------------------------------------
(* Sums over finite sets.  The fold that adds them up is unwound by the    *)
(* smallest set for which a fact fails.                                    *)

\* What FoldFunction adds up over the subsets of a set.
Adds(S, f, g) ==
  g = [s \in SUBSET S |-> IF s = {} THEN 0
                          ELSE f[CHOOSE x \in s : TRUE] + g[s \ {CHOOSE x \in s : TRUE}]]
Upto(f, S) == (CHOOSE g : Adds(S, f, g))[S]

\* Some subset of those chosen from a finite set has no smaller one among them.
LEMMA Smallest ==
  ASSUME NEW S, IsFiniteSet(S), NEW T, T \subseteq SUBSET S, T # {}
  PROVE  \E X \in T : \A Y \in T : Y \subseteq X => Y = X
<1>1. IsWellFoundedOn(StrictSubsetOrdering(S), FiniteSubsetsOf(S))
  BY FS_StrictSubsetOrderingWellFounded
<1>2. T \subseteq FiniteSubsetsOf(S)
  BY FS_Subset DEF FiniteSubsetsOf
<1>3. \E X \in T : \A Y \in T : <<Y, X>> \notin StrictSubsetOrdering(S)
  BY <1>1, <1>2, WFMin
<1> QED
  BY <1>3 DEF StrictSubsetOrdering

\* What FoldFunction returns is the sum over the domain.
LEMMA TotalIs ==
  ASSUME NEW f
  PROVE  Traffic!Total(f) = Upto(f, DOMAIN f)
BY DEF Traffic!Total, Traffic!FoldFunction, Traffic!FoldFunctionOnSet,
   Traffic!MapThenFoldSet, Adds, Upto

\* CHOOSE yields an element.
LEMMA Chosen ==
  ASSUME NEW S, S # {}
  PROVE  (CHOOSE x \in S : TRUE) \in S
OBVIOUS

\* Two such sums agree where both are.
LEMMA AddsAgree ==
  ASSUME NEW S, IsFiniteSet(S), NEW A, A \subseteq S, NEW B, B \subseteq S,
         NEW f, NEW g, NEW h, Adds(A, f, g), Adds(B, f, h)
  PROVE  \A X : X \subseteq A /\ X \subseteq B => g[X] = h[X]
<1> DEFINE T == {X \in SUBSET S : X \subseteq A /\ X \subseteq B /\ g[X] # h[X]}
<1> SUFFICES ASSUME T # {} PROVE FALSE
  OBVIOUS
<1>0. T \subseteq SUBSET S
  OBVIOUS
<1>1. PICK X \in T : \A Y \in T : Y \subseteq X => Y = X
  <2> HIDE DEF T
  <2> QED
    BY <1>0, Smallest
<1>2. g[{}] = 0 /\ h[{}] = 0
  BY DEF Adds
<1>3. X # {}
  BY <1>2
<1> DEFINE x == CHOOSE y \in X : TRUE
<1>4. x \in X /\ X \ {x} \subseteq X /\ X \ {x} # X
  BY <1>3, Chosen
<1>5. g[X \ {x}] = h[X \ {x}]
  <2> HIDE DEF x
  <2>1. X \ {x} \in SUBSET S /\ X \ {x} \subseteq A /\ X \ {x} \subseteq B
    BY <1>1
  <2>2. X \ {x} \notin T
    <3> HIDE DEF T
    <3> QED
      BY <1>1, <1>4
  <2> QED
    BY <2>1, <2>2
<1>6. g[X] = f[x] + g[X \ {x}] /\ h[X] = f[x] + h[X \ {x}]
  BY <1>3 DEF Adds
<1> QED
  BY <1>5, <1>6

\* There is one over every finite set.
LEMMA AddsExist ==
  ASSUME NEW S, IsFiniteSet(S), NEW f
  PROVE  \A X \in SUBSET S : Adds(X, f, CHOOSE g : Adds(X, f, g))
<1> SUFFICES \A X \in SUBSET S : \E g : Adds(X, f, g)
  OBVIOUS
<1> DEFINE T == {X \in SUBSET S : ~ \E g : Adds(X, f, g)}
<1> SUFFICES ASSUME T # {} PROVE FALSE
  OBVIOUS
<1>0. T \subseteq SUBSET S
  OBVIOUS
<1>1. PICK X \in T : \A Y \in T : Y \subseteq X => Y = X
  <2> HIDE DEF T
  <2> QED
    BY <1>0, Smallest
<1> DEFINE some(s) == CHOOSE g : Adds(s, f, g)
           pick(s) == CHOOSE x \in s : TRUE
           full(s) == IF s = {} THEN 0 ELSE f[pick(s)] + some(s \ {pick(s)})[s \ {pick(s)}]
           all == [s \in SUBSET X |-> full(s)]
<1>2. \A s \in SUBSET X : s # X => Adds(s, f, some(s))
  BY <1>1
<1>3. \A s \in SUBSET X : s # {} => pick(s) \in s
  BY Chosen
<1> HIDE DEF some, pick
<1>4. ASSUME NEW s \in SUBSET X, s # X PROVE some(s)[s] = full(s)
  <2>1. Adds(s, f, some(s))
    BY <1>2, <1>4
  <2>2. CASE s = {}
    BY <2>1, <2>2 DEF Adds
  <2>3. CASE s # {}
    <3>1. pick(s) \in s
      BY <1>3, <2>3
    <3>2. Adds(s \ {pick(s)}, f, some(s \ {pick(s)}))
      BY <1>2, <1>4, <3>1
    <3>3. some(s)[s] = f[pick(s)] + some(s)[s \ {pick(s)}]
      BY <2>1, <2>3 DEF Adds, pick
    <3>4. some(s)[s \ {pick(s)}] = some(s \ {pick(s)})[s \ {pick(s)}]
      <4>1. X \subseteq S
        BY <1>1
      <4>3. s \subseteq S /\ s \ {pick(s)} \subseteq S /\ s \ {pick(s)} \subseteq s
        BY <4>1
      <4> QED
        BY <2>1, <3>2, <4>3, AddsAgree
    <3> QED
      BY <2>3, <3>3, <3>4
  <2> QED
    BY <2>2, <2>3
<1>5. ASSUME NEW s \in SUBSET X, s # {}
      PROVE  all[s] = f[pick(s)] + all[s \ {pick(s)}]
  <2>1. pick(s) \in s
    BY <1>3, <1>5
  <2>2. all[s \ {pick(s)}] = full(s \ {pick(s)})
    OBVIOUS
  <2>3. some(s \ {pick(s)})[s \ {pick(s)}] = full(s \ {pick(s)})
    BY <1>4, <2>1
  <2>4. all[s] = f[pick(s)] + some(s \ {pick(s)})[s \ {pick(s)}]
    BY <1>5
  <2> QED
    BY <2>2, <2>3, <2>4
<1>6. all[{}] = 0
  OBVIOUS
<1>7. all = [s \in SUBSET X |-> all[s]]
  OBVIOUS
<1> HIDE DEF all, full
<1>8. Adds(X, f, all)
  BY <1>5, <1>6, <1>7 DEF Adds, pick
<1> QED
  BY <1>1, <1>8

\* The recursion of a sum.
LEMMA UptoNothing ==
  ASSUME NEW f
  PROVE  Upto(f, {}) = 0
<1>1. Adds({}, f, CHOOSE g : Adds({}, f, g))
  BY AddsExist, FS_EmptySet
<1> QED
  BY <1>1 DEF Upto, Adds

First(S) == CHOOSE x \in S : TRUE

\* A sum is that of the rest and the element chosen.
LEMMA UptoStep ==
  ASSUME NEW S, IsFiniteSet(S), NEW f, S # {}
  PROVE  First(S) \in S /\ Upto(f, S) = f[First(S)] + Upto(f, S \ {First(S)})
<1> DEFINE all == CHOOSE g : Adds(S, f, g)
           rest == CHOOSE g : Adds(S \ {First(S)}, f, g)
<1>1. First(S) \in S
  BY Chosen DEF First
<1>2. Adds(S, f, all) /\ Adds(S \ {First(S)}, f, rest)
  BY AddsExist
<1>3. all[S] = f[First(S)] + all[S \ {First(S)}]
  BY <1>2 DEF Adds, First
<1> HIDE DEF all, rest
<1>4. PICK R : R = S \ {First(S)}
  OBVIOUS
<1>5. R \subseteq S
  BY <1>4
<1>6. all[R] = rest[R]
  BY <1>2, <1>4, <1>5, AddsAgree
<1> QED
  BY <1>1, <1>3, <1>4, <1>6 DEF Upto, all, rest

\* A sum of natural numbers is one.
LEMMA UptoType ==
  ASSUME NEW S, IsFiniteSet(S), NEW f, \A x \in S : f[x] \in Nat
  PROVE  Upto(f, S) \in Nat
<1> DEFINE T == {X \in SUBSET S : Upto(f, X) \notin Nat}
<1> SUFFICES ASSUME T # {} PROVE FALSE
  OBVIOUS
<1>1. T \subseteq SUBSET S
  OBVIOUS
<1>2. PICK X \in T : \A Y \in T : Y \subseteq X => Y = X
  <2> HIDE DEF T
  <2> QED
    BY <1>1, Smallest
<1>3. X \in SUBSET S /\ Upto(f, X) \notin Nat /\ IsFiniteSet(X)
  BY <1>2, FS_Subset
<1>4. X # {}
  BY <1>3, UptoNothing
<1>5. First(X) \in X /\ Upto(f, X) = f[First(X)] + Upto(f, X \ {First(X)})
  BY <1>3, <1>4, UptoStep
<1>6. Upto(f, X \ {First(X)}) \in Nat
  BY <1>2, <1>3, <1>5
<1> QED
  BY <1>3, <1>5, <1>6

\* Sums are added point by point.
LEMMA UptoPlus ==
  ASSUME NEW S, IsFiniteSet(S), NEW f, NEW g, NEW h,
         \A x \in S : g[x] \in Nat /\ h[x] \in Nat /\ f[x] = g[x] + h[x]
  PROVE  Upto(f, S) = Upto(g, S) + Upto(h, S)
<1> DEFINE T == {X \in SUBSET S : Upto(f, X) # Upto(g, X) + Upto(h, X)}
<1> SUFFICES ASSUME T # {} PROVE FALSE
  OBVIOUS
<1>1. T \subseteq SUBSET S
  OBVIOUS
<1>2. PICK X \in T : \A Y \in T : Y \subseteq X => Y = X
  <2> HIDE DEF T
  <2> QED
    BY <1>1, Smallest
<1>3. X \in SUBSET S /\ Upto(f, X) # Upto(g, X) + Upto(h, X) /\ IsFiniteSet(X)
  BY <1>2, FS_Subset
<1>0. IsFiniteSet(X)
  BY <1>3
<1>4. X # {}
  <2>1. Upto(f, {}) = 0 /\ Upto(g, {}) = 0 /\ Upto(h, {}) = 0
    BY UptoNothing
  <2>2. Upto(f, {}) = Upto(g, {}) + Upto(h, {})
    BY <2>1
  <2> HIDE DEF T
  <2> QED
    BY <1>3, <2>2
<1> DEFINE x == First(X)
           Y == X \ {First(X)}
<1>5. /\ x \in X /\ Upto(f, X) = f[x] + Upto(f, Y)
      /\ Upto(g, X) = g[x] + Upto(g, Y) /\ Upto(h, X) = h[x] + Upto(h, Y)
  BY <1>0, <1>4, UptoStep
<1>6. Y \in SUBSET S /\ Y # X /\ Y \subseteq X
  BY <1>3, <1>5
<1>7. Upto(f, Y) = Upto(g, Y) + Upto(h, Y)
  BY <1>2, <1>6
<1>8. Upto(g, Y) \in Nat /\ Upto(h, Y) \in Nat
  <2>1. IsFiniteSet(Y)
    BY <1>6, FS_Subset
  <2> HIDE DEF Y
  <2> QED
    BY <1>6, <2>1, UptoType
<1> HIDE DEF x, Y
<1> QED
  BY <1>3, <1>5, <1>7, <1>8

\* A sum of zeros, but for one.
LEMMA UptoPoint ==
  ASSUME NEW S, IsFiniteSet(S), NEW f, NEW a, \A x \in S : x # a => f[x] = 0,
         a \in S => f[a] \in Nat
  PROVE  /\ a \in S => Upto(f, S) = f[a]
         /\ a \notin S => Upto(f, S) = 0
<1> DEFINE hit(X) == IF a \in X THEN f[a] ELSE 0
           T == {X \in SUBSET S : Upto(f, X) # hit(X)}
<1> SUFFICES ASSUME T # {} PROVE FALSE
  OBVIOUS
<1>1. T \subseteq SUBSET S
  OBVIOUS
<1>2. PICK X \in T : \A Y \in T : Y \subseteq X => Y = X
  <2> HIDE DEF T
  <2> QED
    BY <1>1, Smallest
<1>3. X \in SUBSET S /\ Upto(f, X) # hit(X) /\ IsFiniteSet(X)
  BY <1>2, FS_Subset
<1>4. X # {}
  BY <1>3, UptoNothing
<1> DEFINE x == First(X)
           Y == X \ {First(X)}
<1>5. x \in X /\ Upto(f, X) = f[x] + Upto(f, Y)
  BY <1>3, <1>4, UptoStep
<1>6. Y \in SUBSET S /\ Y # X /\ Y \subseteq X
  BY <1>3, <1>5
<1>7. Upto(f, Y) = hit(Y)
  BY <1>2, <1>6
<1>8. hit(X) = f[x] + hit(Y)
  BY <1>3, <1>5
<1> QED
  BY <1>3, <1>5, <1>7, <1>8

\* Equal terms have equal sums.
LEMMA UptoSame ==
  ASSUME NEW S, IsFiniteSet(S), NEW f, NEW g, \A x \in S : f[x] = g[x] /\ f[x] \in Nat
  PROVE  Upto(f, S) = Upto(g, S)
<1> DEFINE z == [x \in S |-> 0]
<1>1. Upto(z, S) = 0
  <2>1. {x \in S : x \notin x} \notin S
    OBVIOUS
  <2>3. PICK a : a \notin S
    BY <2>1
  <2> HIDE DEF z
  <2>2. \A x \in S : z[x] = 0
    BY DEF z
  <2> QED
    BY <2>3, <2>2, UptoPoint
<1>2. \A x \in S : g[x] \in Nat /\ z[x] \in Nat /\ f[x] = g[x] + z[x]
  OBVIOUS
<1> HIDE DEF z
<1>3. Upto(f, S) = Upto(g, S) + Upto(z, S)
  BY <1>2, UptoPlus
<1>4. Upto(g, S) \in Nat
  BY <1>2, UptoType
<1> QED
  BY <1>1, <1>3, <1>4

\* One of the values changed.
LEMMA UptoChange ==
  ASSUME NEW S, IsFiniteSet(S), NEW f, NEW g, NEW a \in S,
         \A x \in S : f[x] \in Nat /\ g[x] \in Nat /\ (x # a => g[x] = f[x])
  PROVE  Upto(g, S) = (Upto(f, S) - f[a]) + g[a]
<1> DEFINE base == [x \in S |-> IF x = a THEN 0 ELSE f[x]]
           old == [x \in S |-> IF x = a THEN f[a] ELSE 0]
           new == [x \in S |-> IF x = a THEN g[a] ELSE 0]
<1>1. \A x \in S : /\ base[x] \in Nat /\ old[x] \in Nat /\ new[x] \in Nat
                   /\ f[x] = base[x] + old[x] /\ g[x] = base[x] + new[x]
                   /\ x # a => (old[x] = 0 /\ new[x] = 0)
  OBVIOUS
<1>2. old[a] = f[a] /\ new[a] = g[a]
  OBVIOUS
<1> HIDE DEF base, old, new
<1>3. Upto(f, S) = Upto(base, S) + Upto(old, S)
  BY <1>1, UptoPlus
<1>4. Upto(g, S) = Upto(base, S) + Upto(new, S)
  BY <1>1, UptoPlus
<1>5. Upto(old, S) = f[a] /\ Upto(new, S) = g[a]
  BY <1>1, <1>2, UptoPoint
<1>6. Upto(base, S) \in Nat /\ f[a] \in Nat /\ g[a] \in Nat
  BY <1>1, UptoType
<1> QED
  BY <1>3, <1>4, <1>5, <1>6

\* Smaller values, a smaller sum.
LEMMA UptoMost ==
  ASSUME NEW S, IsFiniteSet(S), NEW f, NEW g,
         \A x \in S : f[x] \in Nat /\ g[x] \in Nat /\ f[x] <= g[x]
  PROVE  Upto(f, S) <= Upto(g, S)
<1> DEFINE d == [x \in S |-> g[x] - f[x]]
<1>1. \A x \in S : f[x] \in Nat /\ d[x] \in Nat /\ g[x] = f[x] + d[x]
  OBVIOUS
<1> HIDE DEF d
<1>2. Upto(g, S) = Upto(f, S) + Upto(d, S)
  BY <1>1, UptoPlus
<1>3. Upto(f, S) \in Nat /\ Upto(d, S) \in Nat
  BY <1>1, UptoType
<1> QED
  BY <1>2, <1>3

\* The same for the total of a function.
LEMMA TotalType ==
  ASSUME NEW S, IsFiniteSet(S), NEW f \in [S -> Nat]
  PROVE  Traffic!Total(f) \in Nat
<1>1. Traffic!Total(f) = Upto(f, S)
  BY TotalIs
<1>2. \A x \in S : f[x] \in Nat
  OBVIOUS
<1> QED
  BY <1>1, <1>2, UptoType

\* A total of zeros is zero.
LEMMA TotalZero ==
  ASSUME NEW S, IsFiniteSet(S), NEW f \in [S -> Nat], \A x \in S : f[x] = 0
  PROVE  Traffic!Total(f) = 0
<1>1. Traffic!Total(f) = Upto(f, S)
  BY TotalIs
<1>2. {x \in S : x \notin x} \notin S
  OBVIOUS
<1>3. PICK a : a \notin S
  BY <1>2
<1> QED
  BY <1>1, <1>3, UptoPoint

\* One entry changes the total by as much.
LEMMA TotalChange ==
  ASSUME NEW S, IsFiniteSet(S), NEW f \in [S -> Nat], NEW g \in [S -> Nat],
         NEW a \in S, \A x \in S : x # a => g[x] = f[x]
  PROVE  Traffic!Total(g) = (Traffic!Total(f) - f[a]) + g[a]
<1>1. Traffic!Total(f) = Upto(f, S) /\ Traffic!Total(g) = Upto(g, S)
  BY TotalIs
<1>2. \A x \in S : f[x] \in Nat /\ g[x] \in Nat /\ (x # a => g[x] = f[x])
  OBVIOUS
<1> QED
  BY <1>1, <1>2, UptoChange

\* The total of sums is the sum of totals.
LEMMA TotalPlus ==
  ASSUME NEW S, IsFiniteSet(S), NEW f \in [S -> Nat], NEW g \in [S -> Nat],
         NEW h \in [S -> Nat], \A x \in S : f[x] = g[x] + h[x]
  PROVE  Traffic!Total(f) = Traffic!Total(g) + Traffic!Total(h)
<1>1. Traffic!Total(f) = Upto(f, S) /\ Traffic!Total(g) = Upto(g, S)
        /\ Traffic!Total(h) = Upto(h, S)
  BY TotalIs
<1>2. \A x \in S : g[x] \in Nat /\ h[x] \in Nat /\ f[x] = g[x] + h[x]
  OBVIOUS
<1> QED
  BY <1>1, <1>2, UptoPlus

\* Smaller entries have a smaller total.
LEMMA TotalMost ==
  ASSUME NEW S, IsFiniteSet(S), NEW f \in [S -> Nat], NEW g \in [S -> Nat],
         \A x \in S : f[x] <= g[x]
  PROVE  Traffic!Total(f) <= Traffic!Total(g)
<1>1. Traffic!Total(f) = Upto(f, S) /\ Traffic!Total(g) = Upto(g, S)
  BY TotalIs
<1>2. \A x \in S : f[x] \in Nat /\ g[x] \in Nat /\ f[x] <= g[x]
  OBVIOUS
<1> QED
  BY <1>1, <1>2, UptoMost

\* No entry exceeds the total.
LEMMA TotalOne ==
  ASSUME NEW S, IsFiniteSet(S), NEW f \in [S -> Nat], NEW a \in S
  PROVE  f[a] <= Traffic!Total(f)
<1> DEFINE g == [x \in S |-> IF x = a THEN 0 ELSE f[x]]
<1>1. /\ g \in [S -> Nat] /\ g[a] = 0
      /\ \A x \in S : x # a => g[x] = f[x]
  OBVIOUS
<1> HIDE DEF g
<1>2. Traffic!Total(g) = (Traffic!Total(f) - f[a]) + g[a] /\ Traffic!Total(g) \in Nat
        /\ Traffic!Total(f) \in Nat
  BY <1>1, TotalChange, TotalType
<1> QED
  BY <1>1, <1>2

-----------------------------------------------------------------------------
(* The traffic of a node, an inbound and a client (NodeTraffic).           *)

\* What the constants are, in the operators of this module.
LEMMA FiniteBooks ==
  ASSUME Traffic!TrafficAssumption
  PROVE  /\ IsFiniteSet(Books.Nodes) /\ IsFiniteSet(Books.Clients)
         /\ IsFiniteSet(Books.Inbounds) /\ Books.Nodes \cap Books.Clients = {}
         /\ Books.Given \subseteq Books.Nodes \X Books.Inbounds
         /\ Books.MaxTries \in Nat \ {0}
         /\ Books.MaxRuns \in Nat /\ Books.MaxEvents \in Nat
BY DEF Traffic!TrafficAssumption, Traffic!IsFiniteSet, IsFiniteSet

\* What an inbound, a client, and a client's rows come to over the nodes.
Used(c) == Traffic!Total([n \in Books.Nodes |-> users[n][c]])
Summed(c) == Traffic!Total([n \in Books.Nodes |-> run.user[n][c]])
Listed(c) == Traffic!Total([n \in Books.Nodes |-> perNode[n][c]])

\* Summed is the sum UpdateNodeTraffic has made for a client.
LEMMA UserSums == \A c \in Books.Clients : Traffic!UserSum[c] = Summed(c)
BY DEF Traffic!UserSum, Summed

\* The properties of NodeTraffic, on these sums.
LEMMA PropertiesSummed ==
  /\ Traffic!OnlyKnownLosses <=>
       (~lossy =>
         \A c \in Books.Clients \ torn : client[c] + Summed(c) + Used(c) = billed[c])
  /\ Traffic!PerNodeWithinClient <=> \A c \in Books.Clients \ (torn \cup resetting) :
     Listed(c) <= client[c]
BY UserSums DEF Traffic!OnlyKnownLosses, Traffic!PerNodeWithinClient, Used, Listed

\* The sums are natural numbers.
LEMMA SumTypes ==
  ASSUME Traffic!TrafficAssumption, Traffic!TypeOK, Traffic!RowsOK, Traffic!RunOK
  PROVE  /\ \A i \in Books.Inbounds : Traffic!Tagged(i) \in Nat
         /\ \A c \in Books.Clients : Used(c) \in Nat /\ Summed(c) \in Nat
            /\ Listed(c) \in Nat
         /\ \A n \in Books.Nodes : Traffic!Total(tags[n]) \in Nat
            /\ Traffic!Total(users[n]) \in Nat
<1>0. IsFiniteSet(Books.Nodes) /\ IsFiniteSet(Books.Clients) /\ IsFiniteSet(Books.Inbounds)
  BY FiniteBooks
<1>1. ASSUME NEW i \in Books.Inbounds PROVE Traffic!Tagged(i) \in Nat
  <2> DEFINE f == [n \in Books.Nodes |-> tags[n][i]]
  <2>1. f \in [Books.Nodes -> Nat]
    BY DEF Traffic!TypeOK
  <2> HIDE DEF f
  <2>2. Traffic!Total(f) \in Nat
    BY <1>0, <2>1, TotalType
  <2> QED
    BY <2>2 DEF Traffic!Tagged, f
<1>2. ASSUME NEW c \in Books.Clients PROVE Used(c) \in Nat
  <2> DEFINE f == [n \in Books.Nodes |-> users[n][c]]
  <2>1. f \in [Books.Nodes -> Nat]
    BY DEF Traffic!TypeOK
  <2> HIDE DEF f
  <2>2. Traffic!Total(f) \in Nat
    BY <1>0, <2>1, TotalType
  <2> QED
    BY <2>2 DEF Used, f
<1>3. ASSUME NEW c \in Books.Clients PROVE Summed(c) \in Nat
  <2> DEFINE f == [n \in Books.Nodes |-> run.user[n][c]]
  <2>1. f \in [Books.Nodes -> Nat]
    BY DEF Traffic!RunOK
  <2> HIDE DEF f
  <2>2. Traffic!Total(f) \in Nat
    BY <1>0, <2>1, TotalType
  <2> QED
    BY <2>2 DEF Summed, f
<1>4. ASSUME NEW c \in Books.Clients PROVE Listed(c) \in Nat
  <2> DEFINE f == [n \in Books.Nodes |-> perNode[n][c]]
  <2>1. f \in [Books.Nodes -> Nat]
    BY DEF Traffic!RowsOK
  <2> HIDE DEF f
  <2>2. Traffic!Total(f) \in Nat
    BY <1>0, <2>1, TotalType
  <2> QED
    BY <2>2 DEF Listed, f
<1>5. ASSUME NEW n \in Books.Nodes PROVE Traffic!Total(tags[n]) \in Nat
             /\ Traffic!Total(users[n]) \in Nat
  <2>1. tags[n] \in [Books.Inbounds -> Nat] /\ users[n] \in [Books.Clients -> Nat]
    BY DEF Traffic!TypeOK
  <2> QED
    BY <1>0, <2>1, TotalType
<1> QED
  BY <1>1, <1>2, <1>3, <1>4, <1>5

\* What a step at one node does to a sum over the nodes.
LEMMA NodeStep ==
  ASSUME Traffic!TrafficAssumption, NEW f \in [Books.Nodes -> Nat],
         NEW g \in [Books.Nodes -> Nat], NEW n \in Books.Nodes,
         \A m \in Books.Nodes : m # n => g[m] = f[m]
  PROVE  Traffic!Total(g) = (Traffic!Total(f) - f[n]) + g[n]
BY FiniteBooks, TotalChange

\* A change at one node changes each sum by as much.
LEMMA TaggedStep ==
  ASSUME Traffic!TrafficAssumption, Traffic!TypeOK, Traffic!TypeOK',
         NEW i \in Books.Inbounds, NEW n \in Books.Nodes,
         \A m \in Books.Nodes : m # n => tags'[m][i] = tags[m][i]
  PROVE  Traffic!Tagged(i)' = (Traffic!Tagged(i) - tags[n][i]) + tags'[n][i]
<1> DEFINE f == [m \in Books.Nodes |-> tags[m][i]]
<1>1. PICK g : g = [m \in Books.Nodes |-> tags'[m][i]]
  OBVIOUS
<1>2. f \in [Books.Nodes -> Nat] /\ g \in [Books.Nodes -> Nat]
  BY <1>1 DEF Traffic!TypeOK
<1>3. /\ \A m \in Books.Nodes : m # n => g[m] = f[m]
      /\ f[n] = tags[n][i] /\ g[n] = tags'[n][i]
  BY <1>1
<1>4. Traffic!Tagged(i) = Traffic!Total(f) /\ Traffic!Tagged(i)' = Traffic!Total(g)
  BY <1>1 DEF Traffic!Tagged
<1> HIDE DEF f
<1> QED
  BY <1>2, <1>3, <1>4, NodeStep

\* The same of a client at the nodes.
LEMMA UsedStep ==
  ASSUME Traffic!TrafficAssumption, Traffic!TypeOK, Traffic!TypeOK',
         NEW c \in Books.Clients, NEW n \in Books.Nodes,
         \A m \in Books.Nodes : m # n => users'[m][c] = users[m][c]
  PROVE  Used(c)' = (Used(c) - users[n][c]) + users'[n][c]
<1> DEFINE f == [m \in Books.Nodes |-> users[m][c]]
<1>1. PICK g : g = [m \in Books.Nodes |-> users'[m][c]]
  OBVIOUS
<1>2. f \in [Books.Nodes -> Nat] /\ g \in [Books.Nodes -> Nat]
  BY <1>1 DEF Traffic!TypeOK
<1>3. /\ \A m \in Books.Nodes : m # n => g[m] = f[m]
      /\ f[n] = users[n][c] /\ g[n] = users'[n][c]
  BY <1>1
<1>4. Used(c) = Traffic!Total(f) /\ Used(c)' = Traffic!Total(g)
  BY <1>1 DEF Used
<1> HIDE DEF f
<1> QED
  BY <1>2, <1>3, <1>4, NodeStep

\* The same of a client in the run.
LEMMA SummedStep ==
  ASSUME Traffic!TrafficAssumption, Traffic!RunOK, Traffic!RunOK',
         NEW c \in Books.Clients, NEW n \in Books.Nodes,
         \A m \in Books.Nodes : m # n => run'.user[m][c] = run.user[m][c]
  PROVE  Summed(c)' = (Summed(c) - run.user[n][c]) + run'.user[n][c]
<1> DEFINE f == [m \in Books.Nodes |-> run.user[m][c]]
<1>1. PICK g : g = [m \in Books.Nodes |-> run'.user[m][c]]
  OBVIOUS
<1>2. f \in [Books.Nodes -> Nat] /\ g \in [Books.Nodes -> Nat]
  BY <1>1 DEF Traffic!RunOK
<1>3. /\ \A m \in Books.Nodes : m # n => g[m] = f[m]
      /\ f[n] = run.user[n][c] /\ g[n] = run'.user[n][c]
  BY <1>1
<1>4. Summed(c) = Traffic!Total(f) /\ Summed(c)' = Traffic!Total(g)
  BY <1>1 DEF Summed
<1> HIDE DEF f
<1> QED
  BY <1>2, <1>3, <1>4, NodeStep

\* Nothing summed, nothing in any of the parts.
LEMMA NothingUsed ==
  ASSUME Traffic!TrafficAssumption, Traffic!TypeOK, NEW n \in Books.Nodes,
         ~(Traffic!Total(users[n]) > 0)
  PROVE  \A c \in Books.Clients : users[n][c] = 0
<1> SUFFICES ASSUME NEW c \in Books.Clients, users[n][c] # 0 PROVE FALSE
  OBVIOUS
<1>1. users[n] \in [Books.Clients -> Nat] /\ IsFiniteSet(Books.Clients)
  BY FiniteBooks DEF Traffic!TypeOK
<1>2. users[n][c] <= Traffic!Total(users[n]) /\ Traffic!Total(users[n]) \in Nat
  BY <1>1, TotalOne, TotalType
<1> QED
  BY <1>1, <1>2

\* A run without traffic has none of any client.
LEMMA NothingSummed ==
  ASSUME Traffic!TrafficAssumption, Traffic!TypeOK, Traffic!RowsOK, Traffic!RunOK,
         ~(Traffic!Total(Traffic!UserSum) > 0)
  PROVE  \A c \in Books.Clients : Summed(c) = 0
<1> SUFFICES ASSUME NEW c \in Books.Clients, Summed(c) # 0 PROVE FALSE
  OBVIOUS
<1>1. Traffic!UserSum \in [Books.Clients -> Nat] /\ IsFiniteSet(Books.Clients)
  <2>1. Traffic!UserSum = [d \in Books.Clients |-> Summed(d)]
    BY DEF Traffic!UserSum, Summed
  <2>2. \A d \in Books.Clients : Summed(d) \in Nat
    BY SumTypes
  <2> QED
    BY <2>1, <2>2, FiniteBooks
<1>2. Traffic!UserSum[c] <= Traffic!Total(Traffic!UserSum)
        /\ Traffic!Total(Traffic!UserSum) \in Nat
  BY <1>1, TotalOne, TotalType
<1> QED
  BY <1>1, <1>2, UserSums

\* The fields of a run.
LEMMA RunFields ==
  ASSUME Traffic!RunOK
  PROVE  /\ run.pc \in {"idle", "ask", "nodes", "node", "clients", "commit"}
         /\ run.ask \in [Books.Nodes -> 0..(Books.MaxTries + 1)] /\ run.seen \in Nat
         /\ run.at \in SUBSET Books.Nodes /\ run.todo \in SUBSET Books.Nodes
         /\ run.node \in [Books.Nodes -> Nat] /\ run.tag \in [Books.Inbounds -> Nat]
         /\ run.user \in [Books.Nodes -> [Books.Clients -> Nat]]
            /\ run.client \in [Books.Clients -> Nat]
         /\ run.per \in [Books.Nodes -> [Books.Clients -> Nat]]
BY DEF Traffic!RunOK

\* The fields of a run that is over.
LEMMA NoRunOK ==
  ASSUME Traffic!TrafficAssumption
  PROVE /\ Traffic!NoRun.pc = "idle" /\ Traffic!NoRun.ask = [n \in Books.Nodes |-> 0]
           /\ Traffic!NoRun.at = {} /\ Traffic!NoRun.todo = {}
        /\ Traffic!NoRun.node = [n \in Books.Nodes |-> 0]
           /\ Traffic!NoRun.tag = [i \in Books.Inbounds |-> 0]
        /\ Traffic!NoRun.user = [n \in Books.Nodes |-> [c \in Books.Clients |-> 0]]
        /\ Traffic!NoRun \in [pc : {"idle", "ask", "nodes", "node", "clients", "commit"},
                      ask : [Books.Nodes -> 0..(Books.MaxTries + 1)], seen : Nat,
                      at : SUBSET Books.Nodes, todo : SUBSET Books.Nodes, node :
                        [Books.Nodes -> Nat],
                      tag : [Books.Inbounds -> Nat], user :
                        [Books.Nodes -> [Books.Clients -> Nat]],
                      client : [Books.Clients -> Nat], per :
                        [Books.Nodes -> [Books.Clients -> Nat]]]
BY FiniteBooks DEF Traffic!NoRun, Traffic!Zero

\* At the start nothing has moved.
LEMMA InitBooked ==
  ASSUME Traffic!TrafficAssumption PROVE Traffic!Init => Traffic!Booked
<1> SUFFICES ASSUME Traffic!Init PROVE Traffic!Booked
  OBVIOUS
<1>0. IsFiniteSet(Books.Nodes) /\ IsFiniteSet(Books.Inbounds)
  BY FiniteBooks
<1>1. Traffic!TypeOK
  BY FiniteBooks, NoRunOK DEF Traffic!Init, Traffic!TypeOK, Traffic!Zero
<1>2. Traffic!RowsOK /\ Traffic!RunOK
  BY NoRunOK DEF Traffic!Init, Traffic!RowsOK, Traffic!RunOK, Traffic!Zero
<1>3. Traffic!AskedFirst /\ Traffic!ReadStands
  BY NoRunOK DEF Traffic!Init, Traffic!AskedFirst, Traffic!ReadStands
<1>4. \A n \in Books.Nodes : Traffic!Total(tags[n]) = 0
  <2>1. \A n \in Books.Nodes : tags[n] \in [Books.Inbounds -> Nat]
          /\ \A i \in Books.Inbounds : tags[n][i] = 0
    BY DEF Traffic!Init, Traffic!Zero
  <2> QED
    BY <1>0, <2>1, TotalZero
<1>5. \A i \in Books.Inbounds : Traffic!Tagged(i) = 0
  <2> TAKE i \in Books.Inbounds
  <2> DEFINE f == [n \in Books.Nodes |-> tags[n][i]]
  <2>1. f \in [Books.Nodes -> Nat] /\ \A n \in Books.Nodes : f[n] = 0
    BY DEF Traffic!Init, Traffic!Zero
  <2>2. Traffic!Tagged(i) = Traffic!Total(f)
    BY DEF Traffic!Tagged
  <2> HIDE DEF f
  <2> QED
    BY <1>0, <2>1, <2>2, TotalZero
<1>6. \A c \in Books.Clients : Used(c) = 0
  <2> TAKE c \in Books.Clients
  <2> DEFINE f == [n \in Books.Nodes |-> users[n][c]]
  <2>1. f \in [Books.Nodes -> Nat] /\ \A n \in Books.Nodes : f[n] = 0
    BY DEF Traffic!Init, Traffic!Zero
  <2>2. Used(c) = Traffic!Total(f)
    BY DEF Used
  <2> HIDE DEF f
  <2> QED
    BY <1>0, <2>1, <2>2, TotalZero
<1>7. \A c \in Books.Clients : Summed(c) = 0
  <2> TAKE c \in Books.Clients
  <2> DEFINE f == [n \in Books.Nodes |-> run.user[n][c]]
  <2>1. f \in [Books.Nodes -> Nat] /\ \A n \in Books.Nodes : f[n] = 0
    BY NoRunOK DEF Traffic!Init
  <2>2. Summed(c) = Traffic!Total(f)
    BY DEF Summed
  <2> HIDE DEF f
  <2> QED
    BY <1>0, <2>1, <2>2, TotalZero
<1>8. \A c \in Books.Clients : Listed(c) = 0
  <2> TAKE c \in Books.Clients
  <2> DEFINE f == [n \in Books.Nodes |-> perNode[n][c]]
  <2>1. f \in [Books.Nodes -> Nat] /\ \A n \in Books.Nodes : f[n] = 0
    BY DEF Traffic!Init, Traffic!Zero
  <2>2. Listed(c) = Traffic!Total(f)
    BY DEF Listed
  <2> HIDE DEF f
  <2> QED
    BY <1>0, <2>1, <2>2, TotalZero
<1>9. Traffic!NodesOnce
  <2>1. \A n \in Books.Nodes : nodeRow[n] = 0 /\ moved[n] = 0
    BY DEF Traffic!Init, Traffic!Zero
  <2>2. \A n \in Books.Nodes : run.node[n] = 0
    BY NoRunOK DEF Traffic!Init
  <2>3. \A n \in Books.Nodes : Traffic!Underway(n) = 0
    BY <1>4, <2>2 DEF Traffic!Underway
  <2> QED
    BY <2>1, <2>3 DEF Traffic!NodesOnce
<1>12. Traffic!InboundsOnce
  <2>1. \A i \in Books.Inbounds : Traffic!ToAdd(i) = 0
    BY NoRunOK DEF Traffic!Init, Traffic!ToAdd
  <2>2. \A i \in Books.Inbounds : inboundRow[i] = 0 /\ carried[i] = 0
    BY DEF Traffic!Init, Traffic!Zero
  <2> QED
    BY <1>5, <2>1, <2>2 DEF Traffic!InboundsOnce
<1>10. Traffic!OnlyKnownLosses /\ Traffic!PerNodeWithinClient
  BY <1>6, <1>7, <1>8, PropertiesSummed DEF Traffic!Init, Traffic!Zero
<1> QED
  BY <1>1, <1>2, <1>3, <1>9, <1>10, <1>12 DEF Traffic!Booked

\* The sums of what a step leaves alone.
LEMMA SameSums ==
  /\ UNCHANGED tags => /\ \A i \in Books.Inbounds : Traffic!Tagged(i)' = Traffic!Tagged(i)
  /\ UNCHANGED users => \A c \in Books.Clients : Used(c)' = Used(c)
  /\ UNCHANGED perNode => \A c \in Books.Clients : Listed(c)' = Listed(c)
  /\ run'.user = run.user => \A c \in Books.Clients : Summed(c)' = Summed(c)
<1>1. ASSUME UNCHANGED tags,
             NEW i \in Books.Inbounds PROVE Traffic!Tagged(i)' = Traffic!Tagged(i)
  BY <1>1 DEF Traffic!Tagged
<1>2. ASSUME UNCHANGED users, NEW c \in Books.Clients PROVE Used(c)' = Used(c)
  BY <1>2 DEF Used
<1>3. ASSUME UNCHANGED perNode, NEW c \in Books.Clients PROVE Listed(c)' = Listed(c)
  BY <1>3 DEF Listed
<1>4. ASSUME run'.user = run.user, NEW c \in Books.Clients PROVE Summed(c)' = Summed(c)
  BY <1>4 DEF Summed
<1> QED
  BY <1>1, <1>2, <1>3, <1>4

\* The parts of Booked on sums, from them.
Losses(c) == client[c] + Summed(c) + Used(c) = billed[c]

\* What a step must show of the clients.
LEMMA LossesNext ==
  ASSUME ~lossy' => \A c \in Books.Clients \ torn' : Losses(c)'
  PROVE  Traffic!OnlyKnownLosses'
<1>1. \A c \in Books.Clients : Traffic!UserSum'[c] = Summed(c)'
  BY DEF Traffic!UserSum, Summed
<1> QED
  BY <1>1 DEF Traffic!OnlyKnownLosses, Losses, Used

\* What a step must show of the rows node by node.
LEMMA ListedNext ==
  ASSUME \A c \in Books.Clients \ (torn' \cup resetting') : Listed(c)' <= client'[c]
  PROVE  Traffic!PerNodeWithinClient'
BY DEF Traffic!PerNodeWithinClient, Listed

\* A step that moves no number.
LEMMA Quiet ==
  ASSUME Traffic!Booked, UNCHANGED <<tags, users, Traffic!rows, Traffic!ghosts>>,
         run'.node = run.node,
         run'.user = run.user, \A i \in Books.Inbounds :
           Traffic!ToAdd(i)' = Traffic!ToAdd(i)
  PROVE  /\ Traffic!RowsOK' /\ Traffic!NodesOnce' /\ Traffic!InboundsOnce'
         /\ Traffic!OnlyKnownLosses' /\ Traffic!PerNodeWithinClient'
<1>1. Traffic!RowsOK'
  BY DEF Traffic!Booked, Traffic!RowsOK, Traffic!rows, Traffic!ghosts
<1>2. Traffic!NodesOnce'
  BY DEF Traffic!Booked, Traffic!NodesOnce, Traffic!Underway, Traffic!rows, Traffic!ghosts
<1>3. Traffic!InboundsOnce'
  <2> SUFFICES ASSUME NEW i \in Books.Inbounds
               PROVE  inboundRow'[i] + Traffic!ToAdd(i)' + Traffic!Tagged(i)' <= carried'[i]
    BY DEF Traffic!InboundsOnce
  <2>1. Traffic!Tagged(i)' = Traffic!Tagged(i) /\ Traffic!ToAdd(i)' = Traffic!ToAdd(i)
    BY SameSums
  <2> QED
    BY <2>1 DEF Traffic!Booked, Traffic!InboundsOnce, Traffic!rows, Traffic!ghosts
<1>4. Traffic!OnlyKnownLosses'
  <2> SUFFICES ASSUME ~lossy', NEW c \in Books.Clients \ torn' PROVE Losses(c)'
    BY LossesNext
  <2>1. Summed(c)' = Summed(c) /\ Used(c)' = Used(c)
    BY SameSums
  <2>2. client[c] + Summed(c) + Used(c) = billed[c]
    BY PropertiesSummed DEF Traffic!Booked, Traffic!ghosts
  <2> QED
    BY <2>1, <2>2 DEF Losses, Traffic!rows, Traffic!ghosts
<1>5. Traffic!PerNodeWithinClient'
  <2> SUFFICES ASSUME NEW c \in Books.Clients \ (torn' \cup resetting')
               PROVE  Listed(c)' <= client'[c]
    BY ListedNext
  <2>1. Listed(c)' = Listed(c)
    BY SameSums DEF Traffic!rows
  <2>2. Listed(c) <= client[c]
    BY PropertiesSummed DEF Traffic!Booked, Traffic!rows, Traffic!ghosts
  <2> QED
    BY <2>1, <2>2 DEF Traffic!rows
<1> QED
  BY <1>1, <1>2, <1>3, <1>4, <1>5

\* The steps of a run and of the panel that book nothing.
LEMMA QuietSteps ==
  ASSUME Traffic!TrafficAssumption, Traffic!Booked,
         \/ Traffic!Collect \/ Traffic!AllAnswered \/ Traffic!ReadClients
         \/ \E n \in Books.Nodes :
            Traffic!GetNodePublicHealth(n) \/ Traffic!NoAnswer(n) \/ Traffic!ReadNode(n)
         \/ \E n \in Books.Nodes, i \in Books.Inbounds : Traffic!Assign(n, i)
  PROVE  Traffic!Booked'
<1>0. /\ Traffic!TypeOK /\ Traffic!RowsOK /\ Traffic!RunOK /\ Traffic!AskedFirst
         /\ Traffic!ReadStands
      /\ Books.MaxTries \in Nat \ {0} /\ Books.MaxRuns \in Nat /\ Books.MaxEvents \in Nat
  BY FiniteBooks DEF Traffic!Booked
<1> DEFINE Still ==
      /\ UNCHANGED <<tags, users, Traffic!rows, Traffic!ghosts>>
      /\ Traffic!TypeOK' /\ Traffic!RunOK' /\ run'.node = run.node /\ run'.user = run.user
      /\ (\A i \in Books.Inbounds : Traffic!ToAdd(i)' = Traffic!ToAdd(i))
         /\ Traffic!AskedFirst' /\ Traffic!ReadStands'
<1>1. Still
  <2>1. CASE Traffic!Collect
    <3>1. /\ run = Traffic!NoRun
             /\ UNCHANGED <<Traffic!worker, given, Traffic!rows, events, Traffic!ghosts>>
          /\ run' = [Traffic!NoRun EXCEPT !.pc = "ask", !.ask = [n \in Books.Nodes |-> 1]]
          /\ runs' = runs + 1 /\ runs < Books.MaxRuns
      BY <1>0, <2>1 DEF Traffic!Collect, Traffic!AskedFirst
    <3>2. /\ run'.pc = "ask" /\ run'.ask = [n \in Books.Nodes |-> 1] /\ run'.at = {}
          /\ run'.node = run.node /\ run'.user = run.user /\ run'.tag = run.tag
          /\ run'.todo = {} /\ Traffic!RunOK'
      <4>1. [n \in Books.Nodes |-> 1] \in [Books.Nodes -> 0..(Books.MaxTries + 1)]
        BY <1>0
      <4>2. run' = [run EXCEPT !.pc = "ask", !.ask = [n \in Books.Nodes |-> 1]]
        BY <3>1
      <4>3. run.at = {} /\ run.todo = {}
        BY <3>1, NoRunOK
      <4> QED
        BY <1>0, <4>1, <4>2, <4>3 DEF Traffic!RunOK
    <3>3. \A i \in Books.Inbounds : Traffic!ToAdd(i)' = Traffic!ToAdd(i)
      BY <3>1, <3>2, NoRunOK DEF Traffic!ToAdd
    <3>4. Traffic!AskedFirst' /\ Traffic!ReadStands'
      BY <3>1, <3>2, NoRunOK DEF Traffic!AskedFirst, Traffic!ReadStands
    <3>5. Traffic!TypeOK'
      BY <1>0, <3>1, <3>2 DEF Traffic!TypeOK, Traffic!worker, Traffic!rows, Traffic!ghosts
    <3> QED
      BY <3>1, <3>2, <3>3, <3>4, <3>5 DEF Traffic!worker
  <2>2. CASE Traffic!AllAnswered
    <3>1. /\ run.pc = "ask"
             /\ UNCHANGED <<Traffic!worker, given, Traffic!rows, runs, events,
                Traffic!ghosts>>
          /\ \A n \in Books.Nodes : run.ask[n] = 0
          /\ run' = [run EXCEPT !.pc = "nodes", !.todo = {n \in Books.Nodes :
             run.node[n] > 0}]
      BY <2>2 DEF Traffic!AllAnswered
    <3>2. /\ run'.pc = "nodes" /\ run'.ask = run.ask /\ run'.at = run.at
          /\ run'.node = run.node /\ run'.user = run.user /\ run'.tag = run.tag
          /\ run'.todo \subseteq Books.Nodes /\ Traffic!RunOK'
      BY <1>0, <3>1 DEF Traffic!RunOK
    <3>3. \A i \in Books.Inbounds : Traffic!ToAdd(i)' = Traffic!ToAdd(i)
      BY <3>1, <3>2 DEF Traffic!ToAdd
    <3>4. Traffic!AskedFirst' /\ Traffic!ReadStands'
      BY <1>0, <3>1, <3>2 DEF Traffic!AskedFirst, Traffic!ReadStands
    <3>5. Traffic!TypeOK'
      BY <1>0, <3>1, <3>2 DEF Traffic!TypeOK, Traffic!worker, Traffic!rows, Traffic!ghosts
    <3> QED
      BY <3>1, <3>2, <3>3, <3>4, <3>5 DEF Traffic!worker
  <2>3. CASE Traffic!ReadClients
    <3>1. /\ run.pc = "clients"
             /\ UNCHANGED <<Traffic!worker, given, Traffic!rows, runs, events,
                Traffic!ghosts>>
          /\ run' = [run EXCEPT !.pc = "commit", !.client = client, !.per = perNode]
      BY <2>3 DEF Traffic!ReadClients
    <3>2. /\ run'.pc = "commit" /\ run'.ask = run.ask /\ run'.at = run.at
          /\ run'.node = run.node /\ run'.user = run.user /\ run'.tag = run.tag
          /\ run'.client = client /\ run'.per = perNode
          /\ run'.todo = run.todo /\ Traffic!RunOK'
      BY <1>0, <3>1 DEF Traffic!RunOK, Traffic!RowsOK
    <3>3. \A i \in Books.Inbounds : Traffic!ToAdd(i)' = Traffic!ToAdd(i)
      BY <3>1, <3>2 DEF Traffic!ToAdd
    <3>4. /\ \A n \in Books.Nodes : ~(run.ask[n] > 0)
          /\ run.at = {}
      BY <1>0, <3>1 DEF Traffic!AskedFirst
    <3>5. Traffic!AskedFirst' /\ Traffic!ReadStands'
      BY <3>1, <3>2, <3>4 DEF Traffic!AskedFirst, Traffic!ReadStands, Traffic!rows
    <3>6. Traffic!TypeOK'
      BY <1>0, <3>1, <3>2 DEF Traffic!TypeOK, Traffic!worker, Traffic!rows, Traffic!ghosts
    <3> QED
      BY <3>1, <3>2, <3>3, <3>5, <3>6 DEF Traffic!worker
  <2>4. ASSUME NEW n \in Books.Nodes, Traffic!GetNodePublicHealth(n) \/ Traffic!NoAnswer(n)
        PROVE  Still
    <3>1. /\ run.ask[n] > 0
             /\ UNCHANGED <<tags, users, alive, given, Traffic!rows, runs, events,
                Traffic!ghosts>>
          /\ \E next \in 0..(Books.MaxTries + 1) : run' = [run EXCEPT !.ask[n] = next]
          /\ late' \in [Books.Nodes -> {0, 1}]
      <4>1. run.ask[n] \in 0..(Books.MaxTries + 1)
        BY <1>0, RunFields
      <4>2. CASE Traffic!GetNodePublicHealth(n)
        <5>1. \A next \in {2} \cup (IF n \in alive THEN {} ELSE {0}) :
                next \in 0..(Books.MaxTries + 1)
          BY <1>0
        <5>2. run.ask[n] = 1
                /\ UNCHANGED <<Traffic!worker, given, Traffic!rows, runs, events,
                   Traffic!ghosts>>
          BY <4>2 DEF Traffic!GetNodePublicHealth
        <5>3. \E next \in 0..(Books.MaxTries + 1) : run' = [run EXCEPT !.ask[n] = next]
          BY <4>2, <5>1 DEF Traffic!GetNodePublicHealth
        <5>4. late \in [Books.Nodes -> {0, 1}]
          BY <1>0 DEF Traffic!TypeOK
        <5>5. UNCHANGED <<late, tags, users, alive>>
          BY <5>2 DEF Traffic!worker
        <5>6. late' \in [Books.Nodes -> {0, 1}]
          BY <5>4, <5>5
        <5> QED
          BY <5>2, <5>3, <5>5, <5>6
      <4>3. CASE Traffic!NoAnswer(n)
        <5>1. \A next \in {0, Traffic!GivesUp(n)} : next \in 0..(Books.MaxTries + 1)
          BY <1>0, <4>1 DEF Traffic!GivesUp
        <5>2. late' \in [Books.Nodes -> {0, 1}]
          BY <1>0, <4>3 DEF Traffic!NoAnswer, Traffic!TypeOK
        <5> QED
          BY <4>1, <4>3, <5>1, <5>2 DEF Traffic!NoAnswer
      <4> QED
        BY <2>4, <4>2, <4>3
    <3>2. PICK next \in 0..(Books.MaxTries + 1) : run' = [run EXCEPT !.ask[n] = next]
      BY <3>1
    <3>3. /\ run'.pc = run.pc /\ run'.ask = [run.ask EXCEPT ![n] = next] /\ run'.at = run.at
          /\ run'.node = run.node /\ run'.user = run.user /\ run'.tag = run.tag
          /\ run'.seen = run.seen /\ run'.client = run.client /\ run'.per = run.per
          /\ run'.todo = run.todo /\ Traffic!RunOK'
      BY <1>0, <3>2 DEF Traffic!RunOK
    <3>4. \A i \in Books.Inbounds : Traffic!ToAdd(i)' = Traffic!ToAdd(i)
      BY <3>3 DEF Traffic!ToAdd
    <3>5. run.pc = "ask" /\ run.node[n] = 0 /\ \A c \in Books.Clients : run.user[n][c] = 0
      BY <1>0, <3>1 DEF Traffic!AskedFirst
    <3>6. \A m \in Books.Nodes : m # n => run'.ask[m] = run.ask[m]
      BY <1>0, <3>3, RunFields
    <3>7. Traffic!AskedFirst'
      <4>1. \A m \in Books.Nodes : run'.ask[m] > 0 => m = n \/ run.ask[m] > 0
        BY <3>6
      <4> QED
        BY <1>0, <3>3, <3>5, <4>1 DEF Traffic!AskedFirst
    <3>8. Traffic!ReadStands'
      BY <1>0, <3>1, <3>3, <3>5 DEF Traffic!ReadStands, Traffic!rows, Traffic!ghosts
    <3>9. Traffic!TypeOK'
      BY <1>0, <3>1, <3>3, RunFields DEF Traffic!TypeOK, Traffic!rows, Traffic!ghosts
    <3> QED
      BY <3>1, <3>3, <3>4, <3>7, <3>8, <3>9
  <2>5. ASSUME NEW n \in Books.Nodes, Traffic!ReadNode(n) PROVE Still
    <3>1. /\ run.pc = "nodes"
             /\ UNCHANGED <<Traffic!worker, given, Traffic!rows, runs, events,
                Traffic!ghosts>>
          /\ run' = [run EXCEPT !.pc = "node", !.at = {n}, !.seen = nodeRow[n],
                                !.todo = @ \ {n}]
      BY <2>5 DEF Traffic!ReadNode
    <3>2. /\ run'.pc = "node" /\ run'.ask = run.ask /\ run'.at = {n}
          /\ run'.node = run.node /\ run'.user = run.user /\ run'.tag = run.tag
          /\ run'.seen = nodeRow[n]
          /\ run'.todo = run.todo \ {n} /\ Traffic!RunOK'
      BY <1>0, <3>1 DEF Traffic!RunOK, Traffic!RowsOK
    <3>3. \A i \in Books.Inbounds : Traffic!ToAdd(i)' = Traffic!ToAdd(i)
      BY <3>1, <3>2 DEF Traffic!ToAdd
    <3>4. \A m \in Books.Nodes : ~(run.ask[m] > 0)
      BY <1>0, <3>1 DEF Traffic!AskedFirst
    <3>5. Traffic!AskedFirst' /\ Traffic!ReadStands'
      BY <3>1, <3>2, <3>4 DEF Traffic!AskedFirst, Traffic!ReadStands, Traffic!rows
    <3>6. Traffic!TypeOK'
      BY <1>0, <3>1, <3>2, RunFields DEF Traffic!TypeOK, Traffic!worker, Traffic!rows,
                                         Traffic!ghosts
    <3> QED
      BY <3>1, <3>2, <3>3, <3>5, <3>6 DEF Traffic!worker
  <2>6. ASSUME NEW n \in Books.Nodes, NEW i \in Books.Inbounds,
               Traffic!Assign(n, i) PROVE Still
    <3>1. /\ UNCHANGED <<Traffic!worker, run, Traffic!rows, runs, Traffic!ghosts>>
             /\ events' = events + 1
          /\ events < Books.MaxEvents /\ given' \subseteq Books.Nodes \X Books.Inbounds
      BY <1>0, <2>6 DEF Traffic!Assign, Traffic!Happens, Traffic!TypeOK
    <3>2. Traffic!RunOK' /\ Traffic!AskedFirst' /\ Traffic!ReadStands'
            /\ \A j \in Books.Inbounds : Traffic!ToAdd(j)' = Traffic!ToAdd(j)
      BY <1>0, <3>1 DEF Traffic!RunOK, Traffic!AskedFirst, Traffic!ReadStands,
                        Traffic!ToAdd, Traffic!rows, Traffic!ghosts
    <3>3. Traffic!TypeOK'
      BY <1>0, <3>1 DEF Traffic!TypeOK, Traffic!worker, Traffic!rows
    <3> QED
      BY <3>1, <3>2, <3>3 DEF Traffic!worker
  <2> QED
    BY <2>1, <2>2, <2>3, <2>4, <2>5, <2>6
<1>2. /\ Traffic!RowsOK' /\ Traffic!NodesOnce' /\ Traffic!InboundsOnce'
         /\ Traffic!OnlyKnownLosses' /\ Traffic!PerNodeWithinClient'
  BY <1>1, Quiet
<1> QED
  BY <1>1, <1>2 DEF Traffic!Booked

\* The counters of a node are gone, for good if there were any.
LEMMA Cleared ==
  ASSUME Traffic!TrafficAssumption, Traffic!Booked, Traffic!TypeOK', NEW n \in Books.Nodes,
         \/ UNCHANGED <<tags, users>>
         \/ tags' = [tags EXCEPT ![n] = Traffic!Zero(Books.Inbounds)]
            /\ users' = [users EXCEPT ![n] = Traffic!Zero(Books.Clients)],
         lossy' = (lossy \/ Traffic!Total(users[n]) > 0),
         UNCHANGED <<Traffic!rows, moved, carried, billed, torn>>, run'.node = run.node,
         run'.user = run.user, \A i \in Books.Inbounds :
           Traffic!ToAdd(i)' = Traffic!ToAdd(i)
  PROVE  /\ Traffic!RowsOK' /\ Traffic!NodesOnce' /\ Traffic!InboundsOnce'
         /\ Traffic!OnlyKnownLosses' /\ Traffic!PerNodeWithinClient'
<1>0. /\ Traffic!TypeOK /\ Traffic!RowsOK /\ Traffic!RunOK
      /\ IsFiniteSet(Books.Nodes) /\ IsFiniteSet(Books.Inbounds)
         /\ IsFiniteSet(Books.Clients)
  BY FiniteBooks DEF Traffic!Booked
<1>1. Traffic!RowsOK'
  BY <1>0 DEF Traffic!RowsOK, Traffic!rows
<1>2. \A m \in Books.Nodes : m # n => tags'[m] = tags[m] /\ users'[m] = users[m]
  BY <1>0 DEF Traffic!TypeOK
<1>3. /\ \A i \in Books.Inbounds : tags'[n][i] = tags[n][i] \/ tags'[n][i] = 0
      /\ \A c \in Books.Clients : users'[n][c] = users[n][c] \/ users'[n][c] = 0
  BY <1>0 DEF Traffic!TypeOK, Traffic!Zero
<1>4. \A m \in Books.Nodes : /\ Traffic!Total(tags'[m]) <= Traffic!Total(tags[m])
                       /\ Traffic!Total(tags'[m]) \in Nat /\ Traffic!Total(tags[m]) \in Nat
  <2> TAKE m \in Books.Nodes
  <2>1. tags[m] \in [Books.Inbounds -> Nat] /\ tags'[m] \in [Books.Inbounds -> Nat]
    BY <1>0 DEF Traffic!TypeOK
  <2>2. \A i \in Books.Inbounds : tags'[m][i] <= tags[m][i]
    BY <1>2, <1>3, <2>1
  <2> QED
    BY <1>0, <2>1, <2>2, TotalMost, TotalType
<1>5. Traffic!NodesOnce'
  <2> SUFFICES ASSUME NEW m \in Books.Nodes \ torn'
               PROVE  nodeRow'[m] + (Traffic!Total(tags'[m]) + run'.node[m]) <= moved'[m]
    BY DEF Traffic!NodesOnce, Traffic!Underway
  <2>1. nodeRow[m] + (Traffic!Total(tags[m]) + run.node[m]) <= moved[m]
    BY DEF Traffic!Booked, Traffic!NodesOnce, Traffic!Underway
  <2>2. nodeRow[m] \in Nat /\ run.node[m] \in Nat /\ moved[m] \in Nat
    BY <1>0, RunFields DEF Traffic!RowsOK
  <2> QED
    BY <1>4, <2>1, <2>2 DEF Traffic!rows
<1>6. Traffic!InboundsOnce'
  <2> SUFFICES ASSUME NEW i \in Books.Inbounds
               PROVE  inboundRow'[i] + Traffic!ToAdd(i)' + Traffic!Tagged(i)' <= carried'[i]
    BY DEF Traffic!InboundsOnce
  <2>1. Traffic!Tagged(i)' = (Traffic!Tagged(i) - tags[n][i]) + tags'[n][i]
    BY <1>0, <1>2, TaggedStep
  <2>2. tags[n][i] \in Nat /\ Traffic!Tagged(i) \in Nat
    BY <1>0, SumTypes DEF Traffic!TypeOK
  <2>3. Traffic!ToAdd(i) \in Nat /\ inboundRow[i] \in Nat /\ carried[i] \in Nat
    BY <1>0, RunFields DEF Traffic!RowsOK, Traffic!ToAdd
  <2>4. inboundRow[i] + Traffic!ToAdd(i) + Traffic!Tagged(i) <= carried[i]
          /\ Traffic!ToAdd(i)' = Traffic!ToAdd(i)
    BY DEF Traffic!Booked, Traffic!InboundsOnce
  <2> QED
    BY <1>3, <2>1, <2>2, <2>3, <2>4 DEF Traffic!rows
<1>7. Traffic!OnlyKnownLosses'
  <2> SUFFICES ASSUME ~lossy', NEW c \in Books.Clients \ torn' PROVE Losses(c)'
    BY LossesNext
  <2>1. users[n][c] = 0
    BY <1>0, NothingUsed
  <2>2. Used(c)' = (Used(c) - users[n][c]) + users'[n][c]
    BY <1>0, <1>2, UsedStep
  <2>3. Used(c) \in Nat
    BY <1>0, SumTypes
  <2>4. Used(c)' = Used(c)
    BY <1>3, <2>1, <2>2, <2>3
  <2>5. Summed(c)' = Summed(c)
    BY SameSums
  <2>6. client[c] + Summed(c) + Used(c) = billed[c]
    BY PropertiesSummed DEF Traffic!Booked
  <2> QED
    BY <2>4, <2>5, <2>6 DEF Losses, Traffic!rows
<1>8. Traffic!PerNodeWithinClient'
  <2> SUFFICES ASSUME NEW c \in Books.Clients \ (torn' \cup resetting')
               PROVE  Listed(c)' <= client'[c]
    BY ListedNext
  <2>1. Listed(c)' = Listed(c)
    BY SameSums DEF Traffic!rows
  <2>2. Listed(c) <= client[c]
    BY PropertiesSummed DEF Traffic!Booked, Traffic!rows
  <2> QED
    BY <2>1, <2>2 DEF Traffic!rows
<1> QED
  BY <1>1, <1>5, <1>6, <1>7, <1>8

\* A core restarts, answers in vain or is answered late: its counters are lost.
LEMMA ClearingSteps ==
  ASSUME Traffic!TrafficAssumption, Traffic!Booked, NEW n \in Books.Nodes,
         Traffic!CoreFlips(n) \/ Traffic!LateStats(n) \/ Traffic!AnswerLost(n)
  PROVE  Traffic!Booked'
<1>0. /\ Traffic!TypeOK /\ Traffic!RowsOK /\ Traffic!RunOK /\ Traffic!AskedFirst
         /\ Traffic!ReadStands
      /\ Books.MaxTries \in Nat \ {0} /\ Books.MaxRuns \in Nat /\ Books.MaxEvents \in Nat
  BY FiniteBooks DEF Traffic!Booked
<1>1. /\ \/ UNCHANGED <<tags, users>>
         \/ tags' = [tags EXCEPT ![n] = Traffic!Zero(Books.Inbounds)]
            /\ users' = [users EXCEPT ![n] = Traffic!Zero(Books.Clients)]
      /\ lossy' = (lossy \/ Traffic!Total(users[n]) > 0)
      /\ UNCHANGED <<given, Traffic!rows, runs, moved, carried, billed, torn>>
  BY DEF Traffic!CoreFlips, Traffic!LateStats, Traffic!AnswerLost, Traffic!TakeStats
<1>2. tags' \in [Books.Nodes -> [Books.Inbounds -> Nat]]
        /\ users' \in [Books.Nodes -> [Books.Clients -> Nat]]
  <2>1. Traffic!Zero(Books.Inbounds) \in [Books.Inbounds -> Nat]
          /\ Traffic!Zero(Books.Clients) \in [Books.Clients -> Nat]
    BY DEF Traffic!Zero
  <2> QED
    BY <1>0, <1>1, <2>1 DEF Traffic!TypeOK
<1> DEFINE Still ==
      /\ alive' \subseteq Books.Nodes /\ late' \in [Books.Nodes -> {0, 1}]
         /\ events' \in 0..Books.MaxEvents
      /\ Traffic!RunOK' /\ run'.node = run.node /\ run'.user = run.user
      /\ (\A i \in Books.Inbounds : Traffic!ToAdd(i)' = Traffic!ToAdd(i))
         /\ Traffic!AskedFirst' /\ Traffic!ReadStands'
<1>3. Still
  <2>1. CASE Traffic!CoreFlips(n) \/ Traffic!LateStats(n)
    <3>1. alive' \subseteq Books.Nodes /\ late' \in [Books.Nodes -> {0, 1}] /\ UNCHANGED run
      BY <1>0, <2>1 DEF Traffic!CoreFlips, Traffic!LateStats, Traffic!TypeOK
    <3>2. events' \in 0..Books.MaxEvents
      BY <1>0, <2>1 DEF Traffic!CoreFlips, Traffic!LateStats, Traffic!Happens,
                        Traffic!TypeOK
    <3>3. Traffic!RunOK' /\ Traffic!AskedFirst' /\ Traffic!ReadStands'
            /\ \A i \in Books.Inbounds : Traffic!ToAdd(i)' = Traffic!ToAdd(i)
      BY <1>0, <1>1, <3>1 DEF Traffic!RunOK, Traffic!AskedFirst, Traffic!ReadStands,
                              Traffic!ToAdd, Traffic!rows
    <3> QED
      BY <3>1, <3>2, <3>3
  <2>2. CASE Traffic!AnswerLost(n)
    <3>1. /\ run.ask[n] > 0 /\ UNCHANGED <<alive, late, events>>
          /\ \E next \in 0..(Books.MaxTries + 1) : run' = [run EXCEPT !.ask[n] = next]
      <4>1. run.ask[n] \in 0..(Books.MaxTries + 1)
        BY <1>0, RunFields
      <4>2. \A next \in {0, Traffic!GivesUp(n)} : next \in 0..(Books.MaxTries + 1)
        BY <1>0, <4>1 DEF Traffic!GivesUp
      <4> QED
        BY <2>2, <4>1, <4>2 DEF Traffic!AnswerLost
    <3>2. PICK next \in 0..(Books.MaxTries + 1) : run' = [run EXCEPT !.ask[n] = next]
      BY <3>1
    <3>3. /\ run'.pc = run.pc /\ run'.ask = [run.ask EXCEPT ![n] = next] /\ run'.at = run.at
          /\ run'.node = run.node /\ run'.user = run.user /\ run'.tag = run.tag
          /\ run'.seen = run.seen /\ run'.client = run.client /\ run'.per = run.per
          /\ run'.todo = run.todo /\ Traffic!RunOK'
      BY <1>0, <3>2 DEF Traffic!RunOK
    <3>4. \A i \in Books.Inbounds : Traffic!ToAdd(i)' = Traffic!ToAdd(i)
      BY <3>3 DEF Traffic!ToAdd
    <3>5. run.pc = "ask" /\ run.node[n] = 0 /\ \A c \in Books.Clients : run.user[n][c] = 0
      BY <1>0, <3>1 DEF Traffic!AskedFirst
    <3>6. \A m \in Books.Nodes : m # n => run'.ask[m] = run.ask[m]
      BY <1>0, <3>3, RunFields
    <3>7. Traffic!AskedFirst'
      <4>1. \A m \in Books.Nodes : run'.ask[m] > 0 => m = n \/ run.ask[m] > 0
        BY <3>6
      <4> QED
        BY <1>0, <3>3, <3>5, <4>1 DEF Traffic!AskedFirst
    <3>8. Traffic!ReadStands'
      BY <1>0, <1>1, <3>3, <3>5 DEF Traffic!ReadStands, Traffic!rows
    <3>9. alive \subseteq Books.Nodes /\ late \in [Books.Nodes -> {0, 1}]
            /\ events \in 0..Books.MaxEvents
      BY <1>0 DEF Traffic!TypeOK
    <3> QED
      BY <3>1, <3>3, <3>4, <3>7, <3>8, <3>9
  <2> QED
    BY <2>1, <2>2
<1>4. Traffic!TypeOK'
  <2>1. run'.ask \in [Books.Nodes -> 0..(Books.MaxTries + 1)]
          /\ run'.todo \subseteq Books.Nodes
    BY <1>3 DEF Traffic!RunOK
  <2> QED
    BY <1>0, <1>1, <1>2, <1>3, <2>1 DEF Traffic!TypeOK, Traffic!rows
<1>5. /\ Traffic!RowsOK' /\ Traffic!NodesOnce' /\ Traffic!InboundsOnce'
      /\ Traffic!OnlyKnownLosses' /\ Traffic!PerNodeWithinClient'
  BY <1>1, <1>3, <1>4, Cleared
<1> QED
  BY <1>3, <1>4, <1>5 DEF Traffic!Booked

\* A byte passes a node: every side counts it.
LEMMA SendBooked ==
  ASSUME Traffic!TrafficAssumption, Traffic!Booked, NEW n \in Books.Nodes,
         NEW d \in Books.Clients, NEW j \in Books.Inbounds, Traffic!Send(n, d, j)
  PROVE  Traffic!Booked'
<1>0. /\ Traffic!TypeOK /\ Traffic!RowsOK /\ Traffic!RunOK
      /\ IsFiniteSet(Books.Nodes) /\ IsFiniteSet(Books.Inbounds)
         /\ IsFiniteSet(Books.Clients)
  BY FiniteBooks DEF Traffic!Booked
<1>1. /\ tags' = [tags EXCEPT ![n][j] = @ + 1] /\ users' = [users EXCEPT ![n][d] = @ + 1]
      /\ moved' = [moved EXCEPT ![n] = @ + 1] /\ carried' = [carried EXCEPT ![j] = @ + 1]
      /\ billed' = [billed EXCEPT ![d] = @ + 1]
      /\ UNCHANGED <<alive, late, given, run, Traffic!rows, runs, events, lossy, torn>>
  BY DEF Traffic!Send
<1>2. /\ tags' \in [Books.Nodes -> [Books.Inbounds -> Nat]]
         /\ users' \in [Books.Nodes -> [Books.Clients -> Nat]]
      /\ \A m \in Books.Nodes : m # n => tags'[m] = tags[m] /\ users'[m] = users[m]
      /\ \A i \in Books.Inbounds : tags'[n][i] = IF i = j THEN tags[n][i] + 1
         ELSE tags[n][i]
      /\ \A c \in Books.Clients : users'[n][c] = IF c = d THEN users[n][c] + 1
         ELSE users[n][c]
  BY <1>0, <1>1 DEF Traffic!TypeOK
<1>3. Traffic!TypeOK'
  BY <1>0, <1>1, <1>2 DEF Traffic!TypeOK, Traffic!rows
<1>4. /\ moved' \in [Books.Nodes -> Nat] /\ carried' \in [Books.Inbounds -> Nat]
         /\ billed' \in [Books.Clients -> Nat]
      /\ moved'[n] = moved[n] + 1 /\ \A m \in Books.Nodes : m # n => moved'[m] = moved[m]
      /\ \A i \in Books.Inbounds : carried'[i] = IF i = j THEN carried[i] + 1
         ELSE carried[i]
      /\ \A c \in Books.Clients : billed'[c] = IF c = d THEN billed[c] + 1 ELSE billed[c]
  BY <1>0, <1>1 DEF Traffic!RowsOK
<1>5. Traffic!RowsOK'
  BY <1>0, <1>1, <1>4 DEF Traffic!RowsOK, Traffic!rows
<1>6. Traffic!RunOK' /\ Traffic!AskedFirst' /\ Traffic!ReadStands'
  BY <1>1 DEF Traffic!Booked, Traffic!RunOK, Traffic!AskedFirst, Traffic!ReadStands,
              Traffic!rows
<1>7. Traffic!Total(tags'[n]) = Traffic!Total(tags[n]) + 1
  <2>1. tags[n] \in [Books.Inbounds -> Nat] /\ tags'[n] \in [Books.Inbounds -> Nat]
    BY <1>0, <1>2 DEF Traffic!TypeOK
  <2>2. Traffic!Total(tags'[n]) = (Traffic!Total(tags[n]) - tags[n][j]) + tags'[n][j]
    <3>1. PICK k : k = tags'[n]
      OBVIOUS
    <3>2. k \in [Books.Inbounds -> Nat] /\ \A i \in Books.Inbounds : i # j =>
            k[i] = tags[n][i]
      BY <1>2, <2>1, <3>1
    <3>3. Traffic!Total(k) = (Traffic!Total(tags[n]) - tags[n][j]) + k[j]
      BY <1>0, <2>1, <3>2, TotalChange
    <3> QED
      BY <3>1, <3>3
  <2>3. tags'[n][j] = tags[n][j] + 1 /\ tags[n][j] \in Nat /\ Traffic!Total(tags[n]) \in Nat
    BY <1>0, <1>2, <2>1, SumTypes
  <2> QED
    BY <2>2, <2>3
<1>8. Traffic!NodesOnce'
  <2> SUFFICES ASSUME NEW m \in Books.Nodes \ torn'
               PROVE  nodeRow'[m] + (Traffic!Total(tags'[m]) + run'.node[m]) <= moved'[m]
    BY DEF Traffic!NodesOnce, Traffic!Underway
  <2>1. nodeRow[m] + (Traffic!Total(tags[m]) + run.node[m]) <= moved[m]
    BY <1>1 DEF Traffic!Booked, Traffic!NodesOnce, Traffic!Underway
  <2>2. /\ nodeRow[m] \in Nat /\ run.node[m] \in Nat /\ moved[m] \in Nat
        /\ Traffic!Total(tags[m]) \in Nat
    BY <1>0, RunFields, SumTypes DEF Traffic!RowsOK
  <2>3. nodeRow'[m] = nodeRow[m] /\ run'.node[m] = run.node[m]
    BY <1>1 DEF Traffic!rows
  <2>4. CASE m = n
    BY <1>4, <1>7, <2>1, <2>2, <2>3, <2>4
  <2>5. CASE m # n
    BY <1>2, <1>4, <2>1, <2>3, <2>5
  <2> QED
    BY <2>4, <2>5
<1>9. Traffic!InboundsOnce'
  <2> SUFFICES ASSUME NEW i \in Books.Inbounds
               PROVE  inboundRow'[i] + Traffic!ToAdd(i)' + Traffic!Tagged(i)' <= carried'[i]
    BY DEF Traffic!InboundsOnce
  <2>1. Traffic!Tagged(i)' = (Traffic!Tagged(i) - tags[n][i]) + tags'[n][i]
    BY <1>0, <1>2, <1>3, TaggedStep
  <2>2. tags[n][i] \in Nat /\ Traffic!Tagged(i) \in Nat
    BY <1>0, SumTypes DEF Traffic!TypeOK
  <2>3. Traffic!ToAdd(i) \in Nat /\ inboundRow[i] \in Nat /\ carried[i] \in Nat
    BY <1>0, RunFields DEF Traffic!RowsOK, Traffic!ToAdd
  <2>4. inboundRow[i] + Traffic!ToAdd(i) + Traffic!Tagged(i) <= carried[i]
          /\ Traffic!ToAdd(i)' = Traffic!ToAdd(i)
    BY <1>1 DEF Traffic!Booked, Traffic!InboundsOnce, Traffic!ToAdd
  <2>5. inboundRow'[i] = inboundRow[i]
    BY <1>1 DEF Traffic!rows
  <2> QED
    BY <1>2, <1>4, <2>1, <2>2, <2>3, <2>4, <2>5
<1>10. Traffic!OnlyKnownLosses'
  <2> SUFFICES ASSUME ~lossy', NEW c \in Books.Clients \ torn' PROVE Losses(c)'
    BY LossesNext
  <2>1. Used(c)' = (Used(c) - users[n][c]) + users'[n][c]
    BY <1>0, <1>2, <1>3, UsedStep
  <2>2. /\ Used(c) \in Nat /\ Summed(c) \in Nat /\ users[n][c] \in Nat
        /\ client[c] \in Nat /\ billed[c] \in Nat
    BY <1>0, SumTypes DEF Traffic!TypeOK, Traffic!RowsOK
  <2>3. Summed(c)' = Summed(c)
    BY <1>1, SameSums
  <2>4. client[c] + Summed(c) + Used(c) = billed[c]
    BY <1>1, PropertiesSummed DEF Traffic!Booked
  <2>5. client'[c] = client[c]
    BY <1>1 DEF Traffic!rows
  <2>6. /\ users'[n][c] = IF c = d THEN users[n][c] + 1 ELSE users[n][c]
        /\ billed'[c] = IF c = d THEN billed[c] + 1 ELSE billed[c]
    BY <1>2, <1>4
  <2>7. Used(c)' = IF c = d THEN Used(c) + 1 ELSE Used(c)
    BY <2>1, <2>2, <2>6
  <2>8. client'[c] + Summed(c)' + Used(c)' = billed'[c]
    BY <2>2, <2>3, <2>4, <2>5, <2>6, <2>7
  <2> QED
    BY <2>8 DEF Losses
<1>11. Traffic!PerNodeWithinClient'
  <2> SUFFICES ASSUME NEW c \in Books.Clients \ (torn' \cup resetting')
               PROVE  Listed(c)' <= client'[c]
    BY ListedNext
  <2>1. Listed(c)' = Listed(c)
    BY <1>1, SameSums DEF Traffic!rows
  <2>2. Listed(c) <= client[c]
    BY <1>1, PropertiesSummed DEF Traffic!Booked, Traffic!rows
  <2> QED
    BY <1>1, <2>1, <2>2 DEF Traffic!rows
<1> QED
  BY <1>3, <1>5, <1>6, <1>8, <1>9, <1>10, <1>11 DEF Traffic!Booked

\* An answer moves the counters of a core into the run.
LEMMA AnsweredBooked ==
  ASSUME Traffic!TrafficAssumption, Traffic!Booked, NEW n \in Books.Nodes,
         Traffic!Answered(n)
  PROVE  Traffic!Booked'
<1>0. /\ Traffic!TypeOK /\ Traffic!RowsOK /\ Traffic!RunOK /\ Traffic!AskedFirst
         /\ Traffic!ReadStands
      /\ IsFiniteSet(Books.Nodes) /\ IsFiniteSet(Books.Inbounds)
         /\ IsFiniteSet(Books.Clients)
  BY FiniteBooks DEF Traffic!Booked
<1> DEFINE mine == {i \in Books.Inbounds : <<n, i>> \in given}
           counted == [i \in Books.Inbounds |-> IF mine = {} \/ i \in mine
             THEN tags[n][i] ELSE 0]
<1>1. /\ run.ask[n] > 1
      /\ tags' = [tags EXCEPT ![n] = Traffic!Zero(Books.Inbounds)]
      /\ users' = [users EXCEPT ![n] = Traffic!Zero(Books.Clients)]
      /\ run' = [run EXCEPT !.ask[n] = 0, !.node[n] = Traffic!Total(counted),
                            !.tag = Traffic!Plus(@, counted), !.user[n] = users[n]]
      /\ UNCHANGED <<alive, late, given, Traffic!rows, runs, events, Traffic!ghosts>>
  BY DEF Traffic!Answered, Traffic!TakeStats
<1>2. /\ counted \in [Books.Inbounds -> Nat]
      /\ \A i \in Books.Inbounds : counted[i] <= tags[n][i]
  BY <1>0 DEF Traffic!TypeOK
<1> HIDE DEF mine, counted
<1>3. /\ tags[n] \in [Books.Inbounds -> Nat] /\ users[n] \in [Books.Clients -> Nat]
      /\ Traffic!Zero(Books.Inbounds) \in [Books.Inbounds -> Nat]
         /\ Traffic!Zero(Books.Clients) \in [Books.Clients -> Nat]
  BY <1>0 DEF Traffic!TypeOK, Traffic!Zero
<1>4. Traffic!Total(counted) \in Nat
        /\ Traffic!Total(counted) <= Traffic!Total(tags[n])
           /\ Traffic!Total(tags[n]) \in Nat
  BY <1>0, <1>2, <1>3, TotalMost, TotalType
<1>5. /\ tags' \in [Books.Nodes -> [Books.Inbounds -> Nat]]
         /\ users' \in [Books.Nodes -> [Books.Clients -> Nat]]
      /\ \A m \in Books.Nodes : m # n => tags'[m] = tags[m] /\ users'[m] = users[m]
      /\ \A i \in Books.Inbounds : tags'[n][i] = 0
      /\ \A c \in Books.Clients : users'[n][c] = 0
      /\ tags'[n] \in [Books.Inbounds -> Nat]
  BY <1>0, <1>1, <1>3 DEF Traffic!TypeOK, Traffic!Zero
<1>6. /\ run'.pc = run.pc /\ run'.ask = [run.ask EXCEPT ![n] = 0] /\ run'.at = run.at
      /\ run'.node = [run.node EXCEPT ![n] = Traffic!Total(counted)]
      /\ run'.user = [run.user EXCEPT ![n] = users[n]]
      /\ run'.tag = Traffic!Plus(run.tag, counted)
      /\ run'.seen = run.seen /\ run'.client = run.client /\ run'.per = run.per
      /\ run'.todo = run.todo
  BY <1>0, <1>1 DEF Traffic!RunOK
<1>7. /\ run'.tag \in [Books.Inbounds -> Nat]
      /\ \A i \in Books.Inbounds : run'.tag[i] = run.tag[i] + counted[i]
  BY <1>0, <1>2, <1>6, RunFields DEF Traffic!Plus
<1>8. /\ run'.ask \in [Books.Nodes -> 0..(Books.MaxTries + 1)] /\ run'.ask[n] = 0
      /\ \A m \in Books.Nodes : m # n => run'.ask[m] = run.ask[m]
         /\ run'.node[m] = run.node[m]
                                   /\ run'.user[m] = run.user[m]
      /\ run'.node \in [Books.Nodes -> Nat] /\ run'.node[n] = Traffic!Total(counted)
      /\ run'.user \in [Books.Nodes -> [Books.Clients -> Nat]] /\ run'.user[n] = users[n]
  <2>1. 0 \in 0..(Books.MaxTries + 1)
    BY FiniteBooks
  <2> QED
    BY <1>0, <1>3, <1>4, <1>6, <2>1, RunFields
<1>9. Traffic!RunOK'
  <2>1. run' = [run EXCEPT !.ask = run'.ask, !.node = run'.node, !.tag = run'.tag,
                           !.user = run'.user]
    BY <1>0, <1>1, <1>6 DEF Traffic!RunOK
  <2> QED
    BY <1>0, <1>7, <1>8, <2>1 DEF Traffic!RunOK
<1>10. Traffic!TypeOK'
  BY <1>0, <1>1, <1>5, <1>6, <1>8, RunFields DEF Traffic!TypeOK, Traffic!rows
<1>11. Traffic!RowsOK'
  BY <1>0, <1>1 DEF Traffic!RowsOK, Traffic!rows, Traffic!ghosts
<1>12. run.pc = "ask" /\ run.node[n] = 0 /\ \A c \in Books.Clients : run.user[n][c] = 0
  BY <1>0, <1>1, RunFields DEF Traffic!AskedFirst
<1>13. Traffic!AskedFirst'
  <2>1. \A m \in Books.Nodes : run'.ask[m] > 0 => m # n /\ run.ask[m] > 0
    BY <1>8
  <2> QED
    BY <1>0, <1>6, <1>8, <1>12, <2>1 DEF Traffic!AskedFirst
<1>14. Traffic!ReadStands'
  BY <1>0, <1>1, <1>6, <1>12 DEF Traffic!ReadStands, Traffic!rows, Traffic!ghosts
<1>15. Traffic!NodesOnce'
  <2> SUFFICES ASSUME NEW m \in Books.Nodes \ torn'
               PROVE  nodeRow'[m] + (Traffic!Total(tags'[m]) + run'.node[m]) <= moved'[m]
    BY DEF Traffic!NodesOnce, Traffic!Underway
  <2>1. /\ nodeRow[m] + (Traffic!Total(tags[m]) + run.node[m]) <= moved[m]
        /\ nodeRow'[m] = nodeRow[m] /\ moved'[m] = moved[m]
    BY <1>1 DEF Traffic!Booked, Traffic!NodesOnce, Traffic!Underway, Traffic!rows,
                Traffic!ghosts
  <2>2. nodeRow[m] \in Nat /\ run.node[m] \in Nat /\ moved[m] \in Nat
    BY <1>0, RunFields DEF Traffic!RowsOK
  <2>3. CASE m = n
    <3>1. Traffic!Total(tags'[n]) = 0
      BY <1>0, <1>5, TotalZero
    <3> QED
      BY <1>4, <1>8, <1>12, <2>1, <2>2, <2>3, <3>1
  <2>4. CASE m # n
    BY <1>5, <1>8, <2>1, <2>4
  <2> QED
    BY <2>3, <2>4
<1>16. Traffic!InboundsOnce'
  <2> SUFFICES ASSUME NEW i \in Books.Inbounds
               PROVE  inboundRow'[i] + Traffic!ToAdd(i)' + Traffic!Tagged(i)' <= carried'[i]
    BY DEF Traffic!InboundsOnce
  <2>1. Traffic!Tagged(i)' = (Traffic!Tagged(i) - tags[n][i]) + tags'[n][i]
    BY <1>0, <1>5, <1>10, TaggedStep
  <2>2. tags[n][i] \in Nat /\ Traffic!Tagged(i) \in Nat /\ counted[i] \in Nat
    BY <1>0, <1>2, SumTypes DEF Traffic!TypeOK
  <2>3. run.tag[i] \in Nat /\ inboundRow[i] \in Nat /\ carried[i] \in Nat
    BY <1>0, RunFields DEF Traffic!RowsOK
  <2>4. inboundRow[i] + run.tag[i] + Traffic!Tagged(i) <= carried[i]
    BY <1>12 DEF Traffic!Booked, Traffic!InboundsOnce, Traffic!ToAdd
  <2>5. Traffic!ToAdd(i)' = run.tag[i] + counted[i]
    BY <1>6, <1>7, <1>12 DEF Traffic!ToAdd
  <2>6. inboundRow'[i] = inboundRow[i] /\ carried'[i] = carried[i]
    BY <1>1 DEF Traffic!rows, Traffic!ghosts
  <2>7. tags'[n][i] = 0 /\ counted[i] <= tags[n][i]
    BY <1>2, <1>5
  <2> QED
    BY <2>1, <2>2, <2>3, <2>4, <2>5, <2>6, <2>7
<1>17. Traffic!OnlyKnownLosses'
  <2> SUFFICES ASSUME ~lossy', NEW c \in Books.Clients \ torn' PROVE Losses(c)'
    BY LossesNext
  <2>1. Used(c)' = (Used(c) - users[n][c]) + users'[n][c]
    BY <1>0, <1>5, <1>10, UsedStep
  <2>2. Summed(c)' = (Summed(c) - run.user[n][c]) + run'.user[n][c]
    BY <1>0, <1>8, <1>9, SummedStep
  <2>3. /\ Used(c) \in Nat /\ Summed(c) \in Nat /\ users[n][c] \in Nat
        /\ client[c] \in Nat /\ billed[c] \in Nat
    BY <1>0, SumTypes DEF Traffic!TypeOK, Traffic!RowsOK
  <2>4. client[c] + Summed(c) + Used(c) = billed[c]
    BY <1>1, PropertiesSummed DEF Traffic!Booked, Traffic!ghosts
  <2>5. client'[c] = client[c] /\ billed'[c] = billed[c]
    BY <1>1 DEF Traffic!rows, Traffic!ghosts
  <2>6. run.user[n][c] = 0 /\ run'.user[n][c] = users[n][c] /\ users'[n][c] = 0
    BY <1>5, <1>8, <1>12
  <2> QED
    BY <2>1, <2>2, <2>3, <2>4, <2>5, <2>6 DEF Losses
<1>18. Traffic!PerNodeWithinClient'
  <2> SUFFICES ASSUME NEW c \in Books.Clients \ (torn' \cup resetting')
               PROVE  Listed(c)' <= client'[c]
    BY ListedNext
  <2>1. Listed(c)' = Listed(c)
    BY <1>1, SameSums DEF Traffic!rows
  <2>2. Listed(c) <= client[c]
    BY <1>1, PropertiesSummed DEF Traffic!Booked, Traffic!rows, Traffic!ghosts
  <2> QED
    BY <1>1, <2>1, <2>2 DEF Traffic!rows
<1> QED
  BY <1>9, <1>10, <1>11, <1>13, <1>14, <1>15, <1>16, <1>17, <1>18 DEF Traffic!Booked

\* The transaction of a node books what was read, once.
LEMMA UpdateNodeBooked ==
  ASSUME Traffic!TrafficAssumption, Traffic!Booked, NEW n \in Books.Nodes,
         Traffic!UpdateNodeTraffic(n)
  PROVE  Traffic!Booked'
<1>0. /\ Traffic!TypeOK /\ Traffic!RowsOK /\ Traffic!RunOK /\ Traffic!AskedFirst
         /\ Traffic!ReadStands
  BY DEF Traffic!Booked
<1>1. /\ n \in run.at /\ run.pc = "node"
      /\ nodeRow' \in {nodeRow, [nodeRow EXCEPT ![n] = run.seen + run.node[n]]}
      /\ run' = [run EXCEPT !.pc = "nodes", !.at = {}, !.seen = 0, !.node[n] = 0]
      /\ UNCHANGED <<Traffic!worker, given, inboundRow, client, perNode, resetting,
                     runs, events, Traffic!ghosts>>
  BY <1>0 DEF Traffic!UpdateNodeTraffic, Traffic!AskedFirst
<1>2. /\ run'.pc = "nodes" /\ run'.ask = run.ask /\ run'.at = {}
      /\ run'.node = [run.node EXCEPT ![n] = 0] /\ run'.user = run.user
      /\ run'.tag = run.tag /\ run'.todo = run.todo
      /\ run'.client = run.client /\ run'.per = run.per /\ Traffic!RunOK'
  BY <1>0, <1>1 DEF Traffic!RunOK
<1>3. /\ run'.node \in [Books.Nodes -> Nat] /\ run'.node[n] = 0
      /\ \A m \in Books.Nodes : m # n => run'.node[m] = run.node[m]
  BY <1>0, <1>2, RunFields
<1>4. /\ nodeRow' \in [Books.Nodes -> Nat]
      /\ \A m \in Books.Nodes : m # n => nodeRow'[m] = nodeRow[m]
      /\ nodeRow'[n] \in {nodeRow[n], run.seen + run.node[n]}
  BY <1>0, <1>1, RunFields DEF Traffic!RowsOK
<1>5. Traffic!TypeOK'
  BY <1>0, <1>1, <1>2, RunFields DEF Traffic!TypeOK, Traffic!worker
<1>6. Traffic!RowsOK'
  BY <1>0, <1>1, <1>4 DEF Traffic!RowsOK, Traffic!ghosts
<1>7. \A m \in Books.Nodes : ~(run.ask[m] > 0)
  BY <1>0, <1>1 DEF Traffic!AskedFirst
<1>8. Traffic!AskedFirst' /\ Traffic!ReadStands'
  BY <1>2, <1>7 DEF Traffic!AskedFirst, Traffic!ReadStands
<1>9. Traffic!NodesOnce'
  <2> SUFFICES ASSUME NEW m \in Books.Nodes \ torn'
               PROVE  nodeRow'[m] + (Traffic!Total(tags'[m]) + run'.node[m]) <= moved'[m]
    BY DEF Traffic!NodesOnce, Traffic!Underway
  <2>1. /\ nodeRow[m] + (Traffic!Total(tags[m]) + run.node[m]) <= moved[m]
        /\ Traffic!Total(tags'[m]) = Traffic!Total(tags[m]) /\ moved'[m] = moved[m]
    BY <1>1 DEF Traffic!Booked, Traffic!NodesOnce, Traffic!Underway, Traffic!worker,
                Traffic!ghosts
  <2>2. /\ nodeRow[m] \in Nat /\ run.node[m] \in Nat /\ moved[m] \in Nat
        /\ Traffic!Total(tags[m]) \in Nat
    BY <1>0, RunFields, SumTypes DEF Traffic!RowsOK
  <2>3. CASE m = n
    <3>1. run.seen = nodeRow[n]
      BY <1>0, <1>1, <2>3 DEF Traffic!ReadStands, Traffic!ghosts
    <3> QED
      BY <1>3, <1>4, <2>1, <2>2, <2>3, <3>1
  <2>4. CASE m # n
    BY <1>3, <1>4, <2>1, <2>4
  <2> QED
    BY <2>3, <2>4
<1>10. Traffic!InboundsOnce'
  <2> SUFFICES ASSUME NEW i \in Books.Inbounds
               PROVE  inboundRow'[i] + Traffic!ToAdd(i)' + Traffic!Tagged(i)' <= carried'[i]
    BY DEF Traffic!InboundsOnce
  <2>1. Traffic!Tagged(i)' = Traffic!Tagged(i)
    BY <1>1, SameSums DEF Traffic!worker
  <2>2. Traffic!ToAdd(i)' = Traffic!ToAdd(i)
    BY <1>1, <1>2 DEF Traffic!ToAdd
  <2>3. inboundRow'[i] = inboundRow[i] /\ carried'[i] = carried[i]
    BY <1>1 DEF Traffic!ghosts
  <2> QED
    BY <2>1, <2>2, <2>3 DEF Traffic!Booked, Traffic!InboundsOnce
<1>11. Traffic!OnlyKnownLosses'
  <2> SUFFICES ASSUME ~lossy', NEW c \in Books.Clients \ torn' PROVE Losses(c)'
    BY LossesNext
  <2>1. Summed(c)' = Summed(c) /\ Used(c)' = Used(c)
    BY <1>1, <1>2, SameSums DEF Traffic!worker
  <2>2. client[c] + Summed(c) + Used(c) = billed[c]
    BY <1>1, PropertiesSummed DEF Traffic!Booked, Traffic!ghosts
  <2> QED
    BY <1>1, <2>1, <2>2 DEF Losses, Traffic!ghosts
<1>12. Traffic!PerNodeWithinClient'
  <2> SUFFICES ASSUME NEW c \in Books.Clients \ (torn' \cup resetting')
               PROVE  Listed(c)' <= client'[c]
    BY ListedNext
  <2>1. Listed(c)' = Listed(c)
    BY <1>1, SameSums
  <2>2. Listed(c) <= client[c]
    BY <1>1, PropertiesSummed DEF Traffic!Booked, Traffic!ghosts
  <2> QED
    BY <1>1, <2>1, <2>2
<1> QED
  BY <1>2, <1>5, <1>6, <1>8, <1>9, <1>10, <1>11, <1>12 DEF Traffic!Booked

\* The inbounds are booked together.
LEMMA UpdateInboundBooked ==
  ASSUME Traffic!TrafficAssumption, Traffic!Booked, Traffic!UpdateInboundTraffic
  PROVE  Traffic!Booked'
<1>0. /\ Traffic!TypeOK /\ Traffic!RowsOK /\ Traffic!RunOK /\ Traffic!AskedFirst
         /\ Traffic!ReadStands
  BY DEF Traffic!Booked
<1>1. /\ run.pc = "nodes" /\ run' = [run EXCEPT !.pc = "clients"]
      /\ UNCHANGED <<Traffic!worker, given, nodeRow, client, perNode, resetting, runs,
                     events, Traffic!ghosts>>
  BY DEF Traffic!UpdateInboundTraffic
<1>2. /\ run'.pc = "clients" /\ run'.ask = run.ask /\ run'.at = run.at
      /\ run'.node = run.node /\ run'.user = run.user
      /\ run'.tag = run.tag /\ run'.todo = run.todo
      /\ run'.client = run.client /\ run'.per = run.per /\ Traffic!RunOK'
  BY <1>0, <1>1 DEF Traffic!RunOK
<1>3. /\ inboundRow' \in [Books.Inbounds -> Nat]
      /\ \A i \in Books.Inbounds :
         inboundRow'[i] \in {inboundRow[i], inboundRow[i] + run.tag[i]}
  <2>1. PICK failed : inboundRow' = [i \in Books.Inbounds |->
                        IF i \in failed THEN inboundRow[i] ELSE inboundRow[i] + run.tag[i]]
    BY DEF Traffic!UpdateInboundTraffic
  <2>2. \A i \in Books.Inbounds : inboundRow[i] \in Nat /\ run.tag[i] \in Nat
    BY <1>0, RunFields DEF Traffic!RowsOK
  <2> QED
    BY <2>1, <2>2
<1>4. Traffic!TypeOK'
  BY <1>0, <1>1, <1>2, RunFields DEF Traffic!TypeOK, Traffic!worker
<1>5. Traffic!RowsOK'
  BY <1>0, <1>1, <1>3 DEF Traffic!RowsOK, Traffic!ghosts
<1>6. (\A m \in Books.Nodes : ~(run.ask[m] > 0)) /\ run.at = {}
  BY <1>0, <1>1 DEF Traffic!AskedFirst
<1>7. Traffic!AskedFirst' /\ Traffic!ReadStands'
  BY <1>2, <1>6 DEF Traffic!AskedFirst, Traffic!ReadStands
<1>8. Traffic!NodesOnce'
  BY <1>1, <1>2 DEF Traffic!Booked, Traffic!NodesOnce, Traffic!Underway, Traffic!worker,
                    Traffic!ghosts
<1>9. Traffic!InboundsOnce'
  <2> SUFFICES ASSUME NEW i \in Books.Inbounds
               PROVE  inboundRow'[i] + Traffic!ToAdd(i)' + Traffic!Tagged(i)' <= carried'[i]
    BY DEF Traffic!InboundsOnce
  <2>1. Traffic!Tagged(i)' = Traffic!Tagged(i)
    BY <1>1, SameSums DEF Traffic!worker
  <2>2. Traffic!ToAdd(i)' = 0 /\ Traffic!ToAdd(i) = run.tag[i]
    BY <1>1, <1>2 DEF Traffic!ToAdd
  <2>3. /\ run.tag[i] \in Nat /\ inboundRow[i] \in Nat /\ carried[i] \in Nat
        /\ Traffic!Tagged(i) \in Nat
    BY <1>0, RunFields, SumTypes DEF Traffic!RowsOK
  <2>4. carried'[i] = carried[i]
          /\ inboundRow[i] + Traffic!ToAdd(i) + Traffic!Tagged(i) <= carried[i]
    BY <1>1 DEF Traffic!ghosts, Traffic!Booked, Traffic!InboundsOnce
  <2> QED
    BY <1>3, <2>1, <2>2, <2>3, <2>4
<1>10. Traffic!OnlyKnownLosses'
  <2> SUFFICES ASSUME ~lossy', NEW c \in Books.Clients \ torn' PROVE Losses(c)'
    BY LossesNext
  <2>1. Summed(c)' = Summed(c) /\ Used(c)' = Used(c)
    BY <1>1, <1>2, SameSums DEF Traffic!worker
  <2>2. client[c] + Summed(c) + Used(c) = billed[c]
    BY <1>1, PropertiesSummed DEF Traffic!Booked, Traffic!ghosts
  <2> QED
    BY <1>1, <2>1, <2>2 DEF Losses, Traffic!ghosts
<1>11. Traffic!PerNodeWithinClient'
  <2> SUFFICES ASSUME NEW c \in Books.Clients \ (torn' \cup resetting')
               PROVE  Listed(c)' <= client'[c]
    BY ListedNext
  <2>1. Listed(c)' = Listed(c)
    BY <1>1, SameSums
  <2>2. Listed(c) <= client[c]
    BY <1>1, PropertiesSummed DEF Traffic!Booked, Traffic!ghosts
  <2> QED
    BY <1>1, <2>1, <2>2
<1> QED
  BY <1>2, <1>4, <1>5, <1>7, <1>8, <1>9, <1>10, <1>11 DEF Traffic!Booked

\* The run is over, or the panel has died: nothing is summed any more.
LEMMA RunOver ==
  ASSUME Traffic!TrafficAssumption, Traffic!Booked, run' = Traffic!NoRun
  PROVE  /\ Traffic!RunOK' /\ Traffic!AskedFirst' /\ Traffic!ReadStands' /\ run'.todo = {}
         /\ \A n \in Books.Nodes : run'.node[n] = 0
         /\ \A i \in Books.Inbounds : Traffic!ToAdd(i)' = 0
         /\ \A c \in Books.Clients : Summed(c)' = 0
         /\ run'.ask \in [Books.Nodes -> 0..(Books.MaxTries + 1)]
<1>1. Traffic!RunOK' /\ run'.todo = {}
        /\ run'.ask \in [Books.Nodes -> 0..(Books.MaxTries + 1)]
  BY NoRunOK DEF Traffic!RunOK
<1>2. Traffic!AskedFirst' /\ Traffic!ReadStands'
  BY NoRunOK DEF Traffic!AskedFirst, Traffic!ReadStands
<1>3. /\ \A n \in Books.Nodes : run'.node[n] = 0
      /\ \A i \in Books.Inbounds : Traffic!ToAdd(i)' = 0
  BY NoRunOK DEF Traffic!ToAdd
<1>4. ASSUME NEW c \in Books.Clients PROVE Summed(c)' = 0
  <2>1. PICK f : f = [n \in Books.Nodes |-> run'.user[n][c]]
    OBVIOUS
  <2>2. f \in [Books.Nodes -> Nat] /\ \A n \in Books.Nodes : f[n] = 0
    BY <2>1, NoRunOK
  <2>3. Traffic!Total(f) = 0
    BY <2>2, TotalZero, FiniteBooks
  <2> QED
    BY <2>1, <2>3 DEF Summed
<1> QED
  BY <1>1, <1>2, <1>3, <1>4

\* The clients are charged, with their rows node by node.
LEMMA ChargeBooked ==
  ASSUME Traffic!TrafficAssumption, Traffic!Booked, Traffic!AddClientTraffic
  PROVE  Traffic!Booked'
<1>0. /\ Traffic!TypeOK /\ Traffic!RowsOK /\ Traffic!RunOK /\ Traffic!AskedFirst
         /\ Traffic!ReadStands
  BY DEF Traffic!Booked
<1>1. /\ run.pc = "commit" /\ run' = Traffic!NoRun
      /\ UNCHANGED <<Traffic!worker, given, nodeRow, inboundRow, resetting, runs,
                     events, moved, carried, billed, torn>>
  BY DEF Traffic!AddClientTraffic
<1>2. PICK ok \in BOOLEAN : Traffic!Charge(ok) /\ Traffic!ChargePerNode(ok)
             /\ lossy' = (lossy \/ ~ok)
  BY DEF Traffic!AddClientTraffic
<1>3. \A c \in Books.Clients : Traffic!UserSum[c] = Summed(c) /\ Summed(c) \in Nat
  BY <1>0, UserSums, SumTypes
<1>4. /\ client' \in [Books.Clients -> Nat]
      /\ \A c \in Books.Clients : client'[c] = IF ok
         /\ Summed(c) # 0 THEN run.client[c] + Summed(c)
                                         ELSE client[c]
  BY <1>0, <1>2, <1>3, RunFields DEF Traffic!Charge, Traffic!RowsOK
<1>5. /\ perNode' \in [Books.Nodes -> [Books.Clients -> Nat]]
      /\ \A n \in Books.Nodes, c \in Books.Clients :
           perNode'[n][c] \in {perNode[n][c]} \cup
             (IF ok THEN {run.per[n][c] + run.user[n][c]} ELSE {})
  <2>1. CASE ok
    <3>1. \A n \in Books.Nodes, c \in Books.Clients : run.per[n][c] \in Nat
            /\ run.user[n][c] \in Nat
                                          /\ perNode[n][c] \in Nat
      BY <1>0, RunFields DEF Traffic!RowsOK
    <3>2. Traffic!ChargedRows \in [Books.Nodes -> [Books.Clients -> Nat]]
      BY <3>1 DEF Traffic!ChargedRows
    <3>3. \A n \in Books.Nodes, c \in Books.Clients :
            Traffic!ChargedRows[n][c] \in {perNode[n][c], run.per[n][c] + run.user[n][c]}
      BY DEF Traffic!ChargedRows
    <3>4. perNode' = Traffic!ChargedRows
      BY <1>2, <2>1 DEF Traffic!ChargePerNode
    <3> QED
      BY <2>1, <3>2, <3>3, <3>4
  <2>2. CASE ~ok
    BY <1>0, <1>2, <2>2 DEF Traffic!ChargePerNode, Traffic!RowsOK
  <2> QED
    BY <2>1, <2>2
<1>6. Traffic!RunOK' /\ Traffic!AskedFirst' /\ Traffic!ReadStands'
  BY <1>1, RunOver
<1>7. Traffic!TypeOK'
  BY <1>0, <1>1, RunOver DEF Traffic!TypeOK, Traffic!worker
<1>8. Traffic!RowsOK'
  BY <1>0, <1>1, <1>2, <1>4, <1>5 DEF Traffic!RowsOK
<1>9. Traffic!NodesOnce'
  <2> SUFFICES ASSUME NEW m \in Books.Nodes \ torn'
               PROVE  nodeRow'[m] + (Traffic!Total(tags'[m]) + run'.node[m]) <= moved'[m]
    BY DEF Traffic!NodesOnce, Traffic!Underway
  <2>1. nodeRow[m] + (Traffic!Total(tags[m]) + run.node[m]) <= moved[m]
    BY <1>1 DEF Traffic!Booked, Traffic!NodesOnce, Traffic!Underway
  <2>2. /\ nodeRow[m] \in Nat /\ run.node[m] \in Nat /\ moved[m] \in Nat
        /\ Traffic!Total(tags[m]) \in Nat
    BY <1>0, RunFields, SumTypes DEF Traffic!RowsOK
  <2>3. run'.node[m] = 0
    BY <1>1, RunOver
  <2>4. nodeRow'[m] = nodeRow[m] /\ moved'[m] = moved[m]
          /\ Traffic!Total(tags'[m]) = Traffic!Total(tags[m])
    BY <1>1 DEF Traffic!worker
  <2> QED
    BY <2>1, <2>2, <2>3, <2>4
<1>10. Traffic!InboundsOnce'
  <2> SUFFICES ASSUME NEW i \in Books.Inbounds
               PROVE  inboundRow'[i] + Traffic!ToAdd(i)' + Traffic!Tagged(i)' <= carried'[i]
    BY DEF Traffic!InboundsOnce
  <2>1. Traffic!Tagged(i)' = Traffic!Tagged(i)
    BY <1>1, SameSums DEF Traffic!worker
  <2>2. Traffic!ToAdd(i)' = 0 /\ Traffic!ToAdd(i) = 0
    BY <1>1, RunOver DEF Traffic!ToAdd
  <2>3. inboundRow'[i] = inboundRow[i] /\ carried'[i] = carried[i]
    BY <1>1
  <2> QED
    BY <2>1, <2>2, <2>3 DEF Traffic!Booked, Traffic!InboundsOnce
<1>11. Traffic!OnlyKnownLosses'
  <2> SUFFICES ASSUME ~lossy', NEW c \in Books.Clients \ torn' PROVE Losses(c)'
    BY LossesNext
  <2>1. ok /\ ~lossy /\ c \in Books.Clients \ torn
    BY <1>0, <1>1, <1>2 DEF Traffic!RowsOK
  <2>2. Summed(c)' = 0 /\ Used(c)' = Used(c)
    BY <1>1, RunOver, SameSums DEF Traffic!worker
  <2>3. client[c] + Summed(c) + Used(c) = billed[c]
    BY <2>1, PropertiesSummed DEF Traffic!Booked
  <2>4. run.client[c] = client[c]
    BY <1>0, <1>1, <2>1 DEF Traffic!ReadStands
  <2>5. Used(c) \in Nat /\ Summed(c) \in Nat /\ client[c] \in Nat
    BY <1>0, SumTypes DEF Traffic!RowsOK
  <2>6. client'[c] = client[c] + Summed(c)
    BY <1>4, <2>1, <2>4, <2>5
  <2>7. client'[c] + Summed(c)' + Used(c)' = billed[c]
    BY <2>2, <2>3, <2>5, <2>6
  <2> QED
    BY <1>1, <2>7 DEF Losses
<1>12. Traffic!PerNodeWithinClient'
  <2> SUFFICES ASSUME NEW c \in Books.Clients \ (torn' \cup resetting')
               PROVE  Listed(c)' <= client'[c]
    BY ListedNext
  <2>1. Listed(c) <= client[c] /\ c \notin torn
    BY <1>1, PropertiesSummed DEF Traffic!Booked
  <2>2. Listed(c) \in Nat /\ Summed(c) \in Nat /\ client[c] \in Nat
    BY <1>0, SumTypes DEF Traffic!RowsOK
  <2>3. CASE ~ok
    <3>1. client'[c] = client[c]
      BY <1>4, <2>3
    <3>2. \A n \in Books.Nodes : perNode'[n][c] = perNode[n][c]
      BY <1>5, <2>3
    <3>3. Listed(c)' = Listed(c)
      BY <3>2 DEF Listed
    <3> QED
      BY <2>1, <3>1, <3>3
  <2>4. CASE ok
    <3>1. run.client[c] = client[c] /\ \A n \in Books.Nodes : run.per[n][c] = perNode[n][c]
      BY <1>0, <1>1, <2>1 DEF Traffic!ReadStands
    <3>2. client'[c] = client[c] + Summed(c)
      BY <1>4, <2>2, <2>4, <3>1
    <3> DEFINE old == [n \in Books.Nodes |-> perNode[n][c]]
               more == [n \in Books.Nodes |-> run.user[n][c]]
               sum == [n \in Books.Nodes |-> perNode[n][c] + run.user[n][c]]
    <3>3. PICK new : new = [n \in Books.Nodes |-> perNode'[n][c]]
      OBVIOUS
    <3>4. old \in [Books.Nodes -> Nat] /\ more \in [Books.Nodes -> Nat]
            /\ sum \in [Books.Nodes -> Nat]
      BY <1>0, RunFields DEF Traffic!RowsOK
    <3>5. new \in [Books.Nodes -> Nat]
      BY <1>5, <3>3
    <3>6. \A n \in Books.Nodes : new[n] <= sum[n]
      <4> TAKE n \in Books.Nodes
      <4>1. perNode[n][c] \in Nat /\ run.user[n][c] \in Nat
        BY <1>0, RunFields DEF Traffic!RowsOK
      <4>2. perNode'[n][c] \in {perNode[n][c], perNode[n][c] + run.user[n][c]}
        BY <1>5, <3>1, <2>4
      <4> QED
        BY <3>3, <4>1, <4>2
    <3>7. \A n \in Books.Nodes : sum[n] = old[n] + more[n]
      OBVIOUS
    <3>8. Listed(c) = Traffic!Total(old) /\ Summed(c) = Traffic!Total(more)
            /\ Listed(c)' = Traffic!Total(new)
      BY <3>3 DEF Listed, Summed
    <3> HIDE DEF old, more, sum
    <3>9. IsFiniteSet(Books.Nodes)
      BY FiniteBooks
    <3>10. Traffic!Total(new) <= Traffic!Total(sum)
      BY <3>4, <3>5, <3>6, <3>9, TotalMost
    <3>11. Traffic!Total(sum) = Traffic!Total(old) + Traffic!Total(more)
      BY <3>4, <3>7, <3>9, TotalPlus
    <3>12. Traffic!Total(new) \in Nat
      BY <3>5, <3>9, TotalType
    <3> QED
      BY <2>1, <2>2, <3>2, <3>8, <3>10, <3>11, <3>12
  <2> QED
    BY <2>3, <2>4
<1> QED
  BY <1>6, <1>7, <1>8, <1>9, <1>10, <1>11, <1>12 DEF Traffic!Booked

\* A node is reset while a run is on its way.
LEMMA ResetNodeBooked ==
  ASSUME Traffic!TrafficAssumption, Traffic!Booked, NEW n \in Books.Nodes,
         Traffic!ResetNodeTraffic(n)
  PROVE  Traffic!Booked'
<1>0. /\ Traffic!TypeOK /\ Traffic!RowsOK /\ Traffic!RunOK /\ Traffic!AskedFirst
         /\ Traffic!ReadStands
      /\ Books.Nodes \cap Books.Clients = {} /\ Books.MaxEvents \in Nat
  BY FiniteBooks DEF Traffic!Booked
<1>1. /\ nodeRow' = [nodeRow EXCEPT ![n] = 0]
         /\ moved' = [moved EXCEPT ![n] = Traffic!Underway(n)]
      /\ torn' = IF n \in run.at THEN torn \cup {n} ELSE torn \ {n}
      /\ UNCHANGED <<Traffic!worker, given, run, inboundRow, client, perNode,
                     resetting, runs, carried, billed, lossy>>
      /\ events < Books.MaxEvents /\ events' = events + 1
  BY DEF Traffic!ResetNodeTraffic, Traffic!Happens
<1>2. Traffic!Underway(n) \in Nat
        /\ Traffic!Underway(n) = Traffic!Total(tags[n]) + run.node[n]
  BY <1>0, SumTypes, RunFields DEF Traffic!Underway
<1>3. Traffic!TypeOK'
  BY <1>0, <1>1 DEF Traffic!TypeOK, Traffic!worker
<1>4. Traffic!RowsOK'
  BY <1>0, <1>1, <1>2 DEF Traffic!RowsOK
<1>5. Traffic!RunOK' /\ Traffic!AskedFirst'
  BY <1>0, <1>1 DEF Traffic!RunOK, Traffic!AskedFirst
<1>6. \A c \in Books.Clients : c \in torn' <=> c \in torn
  BY <1>0, <1>1
<1>7. Traffic!ReadStands'
  <2>1. ASSUME NEW m \in run.at \ torn' PROVE run.seen = nodeRow'[m]
    <3>1. m \in run.at /\ m \in Books.Nodes
      BY <1>0, <2>1, RunFields
    <3>2. m # n /\ m \in run.at \ torn
      BY <1>1, <2>1, <3>1
    <3> QED
      BY <1>0, <1>1, <3>1, <3>2 DEF Traffic!ReadStands, Traffic!RowsOK
  <2>2. run.pc = "commit" => \A c \in Books.Clients \ torn' :
          run.client[c] = client'[c]
            /\ \A m \in Books.Nodes : run.per[m][c] = perNode'[m][c]
    BY <1>0, <1>1, <1>6 DEF Traffic!ReadStands
  <2> QED
    BY <1>1, <2>1, <2>2 DEF Traffic!ReadStands
<1>8. Traffic!NodesOnce'
  <2> SUFFICES ASSUME NEW m \in Books.Nodes \ torn'
               PROVE  nodeRow'[m] + (Traffic!Total(tags'[m]) + run'.node[m]) <= moved'[m]
    BY DEF Traffic!NodesOnce, Traffic!Underway
  <2>1. Traffic!Total(tags'[m]) = Traffic!Total(tags[m]) /\ run'.node[m] = run.node[m]
    BY <1>1 DEF Traffic!worker
  <2>2. CASE m = n
    <3>1. nodeRow'[n] = 0 /\ moved'[n] = Traffic!Underway(n)
      BY <1>0, <1>1 DEF Traffic!RowsOK
    <3> QED
      BY <1>2, <2>1, <2>2, <3>1
  <2>3. CASE m # n
    <3>1. nodeRow'[m] = nodeRow[m] /\ moved'[m] = moved[m] /\ m \notin torn
      BY <1>0, <1>1, <2>3 DEF Traffic!RowsOK
    <3> QED
      BY <2>1, <3>1 DEF Traffic!Booked, Traffic!NodesOnce, Traffic!Underway
  <2> QED
    BY <2>2, <2>3
<1>9. Traffic!InboundsOnce'
  <2>1. \A i \in Books.Inbounds : Traffic!Tagged(i)' = Traffic!Tagged(i)
          /\ Traffic!ToAdd(i)' = Traffic!ToAdd(i)
    BY <1>1, SameSums DEF Traffic!worker, Traffic!ToAdd
  <2> QED
    BY <1>1, <2>1 DEF Traffic!Booked, Traffic!InboundsOnce
<1>10. Traffic!OnlyKnownLosses'
  <2> SUFFICES ASSUME ~lossy', NEW c \in Books.Clients \ torn' PROVE Losses(c)'
    BY LossesNext
  <2>1. Summed(c)' = Summed(c) /\ Used(c)' = Used(c)
    BY <1>1, SameSums DEF Traffic!worker
  <2>2. client[c] + Summed(c) + Used(c) = billed[c]
    BY <1>1, <1>6, PropertiesSummed DEF Traffic!Booked
  <2> QED
    BY <1>1, <2>1, <2>2 DEF Losses
<1>11. Traffic!PerNodeWithinClient'
  <2> SUFFICES ASSUME NEW c \in Books.Clients \ (torn' \cup resetting')
               PROVE  Listed(c)' <= client'[c]
    BY ListedNext
  <2>1. Listed(c)' = Listed(c)
    BY <1>1, SameSums
  <2>2. Listed(c) <= client[c]
    BY <1>1, <1>6, PropertiesSummed DEF Traffic!Booked
  <2> QED
    BY <1>1, <2>1, <2>2
<1> QED
  BY <1>3, <1>4, <1>5, <1>7, <1>8, <1>9, <1>10, <1>11 DEF Traffic!Booked

\* A client is reset, and its rows node by node afterwards.
LEMMA ResetClientBooked ==
  ASSUME Traffic!TrafficAssumption, Traffic!Booked, NEW d \in Books.Clients,
         Traffic!ResetClientTraffic(d)
  PROVE  Traffic!Booked'
<1>0. /\ Traffic!TypeOK /\ Traffic!RowsOK /\ Traffic!RunOK /\ Traffic!AskedFirst
         /\ Traffic!ReadStands
      /\ Books.Nodes \cap Books.Clients = {} /\ Books.MaxEvents \in Nat
  BY FiniteBooks DEF Traffic!Booked
<1>1. /\ client' = [client EXCEPT ![d] = 0] /\ resetting' = resetting \cup {d}
      /\ billed' = [billed EXCEPT ![d] = Used(d) + Traffic!UserSum[d]]
      /\ torn' = IF run.pc = "commit" THEN torn \cup {d} ELSE torn
      /\ UNCHANGED <<Traffic!worker, given, run, nodeRow, inboundRow, perNode, runs,
                     moved, carried, lossy>>
      /\ events < Books.MaxEvents /\ events' = events + 1
  BY DEF Traffic!ResetClientTraffic, Traffic!Happens, Used
<1>2. Traffic!UserSum[d] = Summed(d) /\ Used(d) \in Nat /\ Summed(d) \in Nat
  BY <1>0, UserSums, SumTypes
<1>3. Traffic!TypeOK'
  BY <1>0, <1>1 DEF Traffic!TypeOK, Traffic!worker
<1>4. Traffic!RowsOK'
  BY <1>0, <1>1, <1>2 DEF Traffic!RowsOK
<1>5. Traffic!RunOK' /\ Traffic!AskedFirst'
  BY <1>0, <1>1 DEF Traffic!RunOK, Traffic!AskedFirst
<1>6. torn \subseteq torn' /\ \A c \in Books.Clients : c # d => client'[c] = client[c]
        /\ billed'[c] = billed[c]
  BY <1>0, <1>1 DEF Traffic!RowsOK
<1>7. Traffic!ReadStands'
  <2>1. \A m \in run.at \ torn' : run.seen = nodeRow'[m]
    BY <1>0, <1>1, <1>6 DEF Traffic!ReadStands
  <2>2. run.pc = "commit" => \A c \in Books.Clients \ torn' :
          run.client[c] = client'[c]
            /\ \A m \in Books.Nodes : run.per[m][c] = perNode'[m][c]
    BY <1>0, <1>1, <1>6 DEF Traffic!ReadStands
  <2> QED
    BY <1>1, <2>1, <2>2 DEF Traffic!ReadStands
<1>8. Traffic!NodesOnce'
  BY <1>1, <1>6 DEF Traffic!Booked, Traffic!NodesOnce, Traffic!Underway, Traffic!worker
<1>9. Traffic!InboundsOnce'
  <2>1. \A i \in Books.Inbounds : Traffic!Tagged(i)' = Traffic!Tagged(i)
          /\ Traffic!ToAdd(i)' = Traffic!ToAdd(i)
    BY <1>1, SameSums DEF Traffic!worker, Traffic!ToAdd
  <2> QED
    BY <1>1, <2>1 DEF Traffic!Booked, Traffic!InboundsOnce
<1>10. Traffic!OnlyKnownLosses'
  <2> SUFFICES ASSUME ~lossy', NEW c \in Books.Clients \ torn' PROVE Losses(c)'
    BY LossesNext
  <2>1. Summed(c)' = Summed(c) /\ Used(c)' = Used(c)
    BY <1>1, SameSums DEF Traffic!worker
  <2>2. CASE c = d
    <3>1. client'[d] = 0 /\ billed'[d] = Used(d) + Summed(d)
      BY <1>0, <1>1, <1>2 DEF Traffic!RowsOK
    <3>2. client'[d] + Summed(d) + Used(d) = billed'[d]
      BY <1>2, <3>1
    <3> QED
      BY <2>1, <2>2, <3>2 DEF Losses
  <2>3. CASE c # d
    <3>1. client[c] + Summed(c) + Used(c) = billed[c]
      BY <1>1, <1>6, PropertiesSummed DEF Traffic!Booked
    <3> QED
      BY <1>6, <2>1, <2>3, <3>1 DEF Losses
  <2> QED
    BY <2>2, <2>3
<1>11. Traffic!PerNodeWithinClient'
  <2> SUFFICES ASSUME NEW c \in Books.Clients \ (torn' \cup resetting')
               PROVE  Listed(c)' <= client'[c]
    BY ListedNext
  <2>1. Listed(c)' = Listed(c)
    BY <1>1, SameSums
  <2>2. Listed(c) <= client[c] /\ c # d
    BY <1>1, <1>6, PropertiesSummed DEF Traffic!Booked
  <2> QED
    BY <1>6, <2>1, <2>2
<1> QED
  BY <1>3, <1>4, <1>5, <1>7, <1>8, <1>9, <1>10, <1>11 DEF Traffic!Booked

\* The rows of a client that is reset are deleted.
LEMMA DeleteBooked ==
  ASSUME Traffic!TrafficAssumption, Traffic!Booked, NEW d \in Books.Clients,
         Traffic!DeletePerNode(d)
  PROVE  Traffic!Booked'
<1>0. /\ Traffic!TypeOK /\ Traffic!RowsOK /\ Traffic!RunOK /\ Traffic!AskedFirst
         /\ Traffic!ReadStands
  BY DEF Traffic!Booked
<1>1. /\ perNode' = [n \in Books.Nodes |-> [perNode[n] EXCEPT ![d] = 0]]
      /\ resetting' = resetting \ {d}
      /\ torn' = IF run.pc = "commit" THEN torn \cup {d} ELSE torn
      /\ UNCHANGED <<Traffic!worker, given, run, nodeRow, inboundRow, client, runs,
                     events, moved, carried, billed, lossy>>
  BY DEF Traffic!DeletePerNode
<1>2. /\ perNode' \in [Books.Nodes -> [Books.Clients -> Nat]]
      /\ \A n \in Books.Nodes : perNode'[n][d] = 0
      /\ \A n \in Books.Nodes, c \in Books.Clients : c # d => perNode'[n][c] = perNode[n][c]
  BY <1>0, <1>1 DEF Traffic!RowsOK
<1>3. Traffic!TypeOK'
  BY <1>0, <1>1 DEF Traffic!TypeOK, Traffic!worker
<1>4. Traffic!RowsOK'
  BY <1>0, <1>1, <1>2 DEF Traffic!RowsOK
<1>5. Traffic!RunOK' /\ Traffic!AskedFirst' /\ torn \subseteq torn'
  BY <1>0, <1>1 DEF Traffic!RunOK, Traffic!AskedFirst
<1>6. Traffic!ReadStands'
  <2>1. \A m \in run.at \ torn' : run.seen = nodeRow'[m]
    BY <1>0, <1>1, <1>5 DEF Traffic!ReadStands
  <2>2. ASSUME run.pc = "commit", NEW c \in Books.Clients \ torn'
        PROVE  run.client[c] = client'[c]
                 /\ \A m \in Books.Nodes : run.per[m][c] = perNode'[m][c]
    <3>1. c # d /\ c \in Books.Clients \ torn
      BY <1>1, <2>2
    <3> QED
      BY <1>0, <1>1, <1>2, <2>2, <3>1 DEF Traffic!ReadStands
  <2> QED
    BY <1>1, <2>1, <2>2 DEF Traffic!ReadStands
<1>7. Traffic!NodesOnce'
  BY <1>1, <1>5 DEF Traffic!Booked, Traffic!NodesOnce, Traffic!Underway, Traffic!worker
<1>8. Traffic!InboundsOnce'
  <2>1. \A i \in Books.Inbounds : Traffic!Tagged(i)' = Traffic!Tagged(i)
          /\ Traffic!ToAdd(i)' = Traffic!ToAdd(i)
    BY <1>1, SameSums DEF Traffic!worker, Traffic!ToAdd
  <2> QED
    BY <1>1, <2>1 DEF Traffic!Booked, Traffic!InboundsOnce
<1>9. Traffic!OnlyKnownLosses'
  <2> SUFFICES ASSUME ~lossy', NEW c \in Books.Clients \ torn' PROVE Losses(c)'
    BY LossesNext
  <2>1. Summed(c)' = Summed(c) /\ Used(c)' = Used(c)
    BY <1>1, SameSums DEF Traffic!worker
  <2>2. client[c] + Summed(c) + Used(c) = billed[c]
    BY <1>1, <1>5, PropertiesSummed DEF Traffic!Booked
  <2> QED
    BY <1>1, <2>1, <2>2 DEF Losses
<1>10. Traffic!PerNodeWithinClient'
  <2> SUFFICES ASSUME NEW c \in Books.Clients \ (torn' \cup resetting')
               PROVE  Listed(c)' <= client'[c]
    BY ListedNext
  <2>1. client[c] \in Nat /\ client'[c] = client[c]
    BY <1>0, <1>1 DEF Traffic!RowsOK
  <2>2. CASE c = d
    <3>1. PICK f : f = [n \in Books.Nodes |-> perNode'[n][d]]
      OBVIOUS
    <3>2. f \in [Books.Nodes -> Nat] /\ \A n \in Books.Nodes : f[n] = 0
      BY <1>2, <3>1
    <3>3. Traffic!Total(f) = 0
      BY <3>2, TotalZero, FiniteBooks
    <3>4. Listed(d)' = 0
      BY <3>1, <3>3 DEF Listed
    <3> QED
      BY <2>1, <2>2, <3>4
  <2>3. CASE c # d
    <3>1. Listed(c)' = Listed(c)
      BY <1>2, <2>3 DEF Listed
    <3>2. Listed(c) <= client[c]
      BY <1>1, <1>5, <2>3, PropertiesSummed DEF Traffic!Booked
    <3> QED
      BY <2>1, <3>1, <3>2
  <2> QED
    BY <2>2, <2>3
<1> QED
  BY <1>3, <1>4, <1>5, <1>6, <1>7, <1>8, <1>9, <1>10 DEF Traffic!Booked

\* The panel dies: what it had read is lost.
LEMMA CrashBooked ==
  ASSUME Traffic!TrafficAssumption, Traffic!Booked, Traffic!PanelCrash
  PROVE  Traffic!Booked'
<1>0. /\ Traffic!TypeOK /\ Traffic!RowsOK /\ Traffic!RunOK /\ Books.MaxEvents \in Nat
  BY FiniteBooks DEF Traffic!Booked
<1>1. /\ run' = Traffic!NoRun /\ resetting' = {} /\ torn' = torn \cup resetting
      /\ lossy' = (lossy \/ Traffic!Total(Traffic!UserSum) > 0)
      /\ UNCHANGED <<Traffic!worker, given, nodeRow, inboundRow, client, perNode, runs,
                     moved, carried, billed>>
      /\ events < Books.MaxEvents /\ events' = events + 1
  BY DEF Traffic!PanelCrash, Traffic!Happens
<1>2. Traffic!RunOK' /\ Traffic!AskedFirst' /\ Traffic!ReadStands'
  BY <1>1, RunOver
<1>3. Traffic!TypeOK'
  BY <1>0, <1>1, RunOver DEF Traffic!TypeOK, Traffic!worker
<1>4. Traffic!RowsOK'
  BY <1>0, <1>1 DEF Traffic!RowsOK
<1>5. Traffic!NodesOnce'
  <2> SUFFICES ASSUME NEW m \in Books.Nodes \ torn'
               PROVE  nodeRow'[m] + (Traffic!Total(tags'[m]) + run'.node[m]) <= moved'[m]
    BY DEF Traffic!NodesOnce, Traffic!Underway
  <2>1. nodeRow[m] + (Traffic!Total(tags[m]) + run.node[m]) <= moved[m]
    BY <1>1 DEF Traffic!Booked, Traffic!NodesOnce, Traffic!Underway
  <2>2. /\ nodeRow[m] \in Nat /\ run.node[m] \in Nat /\ moved[m] \in Nat
        /\ Traffic!Total(tags[m]) \in Nat
    BY <1>0, RunFields, SumTypes DEF Traffic!RowsOK
  <2>3. run'.node[m] = 0
    BY <1>1, RunOver
  <2>4. nodeRow'[m] = nodeRow[m] /\ moved'[m] = moved[m]
          /\ Traffic!Total(tags'[m]) = Traffic!Total(tags[m])
    BY <1>1 DEF Traffic!worker
  <2> QED
    BY <2>1, <2>2, <2>3, <2>4
<1>6. Traffic!InboundsOnce'
  <2> SUFFICES ASSUME NEW i \in Books.Inbounds
               PROVE  inboundRow'[i] + Traffic!ToAdd(i)' + Traffic!Tagged(i)' <= carried'[i]
    BY DEF Traffic!InboundsOnce
  <2>1. Traffic!Tagged(i)' = Traffic!Tagged(i)
    BY <1>1, SameSums DEF Traffic!worker
  <2>2. Traffic!ToAdd(i)' = 0 /\ Traffic!ToAdd(i) \in Nat /\ inboundRow[i] \in Nat
          /\ Traffic!Tagged(i) \in Nat
    BY <1>0, <1>1, RunOver, RunFields, SumTypes DEF Traffic!ToAdd, Traffic!RowsOK
  <2>3. inboundRow'[i] = inboundRow[i] /\ carried'[i] = carried[i] /\ carried[i] \in Nat
    BY <1>0, <1>1 DEF Traffic!RowsOK
  <2>4. inboundRow[i] + Traffic!ToAdd(i) + Traffic!Tagged(i) <= carried[i]
    BY DEF Traffic!Booked, Traffic!InboundsOnce
  <2> QED
    BY <2>1, <2>2, <2>3, <2>4
<1>7. Traffic!OnlyKnownLosses'
  <2> SUFFICES ASSUME ~lossy', NEW c \in Books.Clients \ torn' PROVE Losses(c)'
    BY LossesNext
  <2>1. Summed(c)' = 0 /\ Used(c)' = Used(c) /\ Summed(c) = 0
    BY <1>0, <1>1, RunOver, SameSums, NothingSummed DEF Traffic!worker
  <2>2. client[c] + Summed(c) + Used(c) = billed[c]
    BY <1>1, PropertiesSummed DEF Traffic!Booked
  <2> QED
    BY <1>1, <2>1, <2>2 DEF Losses
<1>8. Traffic!PerNodeWithinClient'
  <2> SUFFICES ASSUME NEW c \in Books.Clients \ (torn' \cup resetting')
               PROVE  Listed(c)' <= client'[c]
    BY ListedNext
  <2>1. Listed(c)' = Listed(c)
    BY <1>1, SameSums
  <2>2. Listed(c) <= client[c]
    BY <1>1, PropertiesSummed DEF Traffic!Booked
  <2> QED
    BY <1>1, <2>1, <2>2
<1> QED
  BY <1>2, <1>3, <1>4, <1>5, <1>6, <1>7, <1>8 DEF Traffic!Booked

\* Nothing happens.
LEMMA StillBooked ==
  ASSUME Traffic!Booked, UNCHANGED Traffic!vars
  PROVE  Traffic!Booked'
<1>1. /\ UNCHANGED <<tags, users, Traffic!rows, Traffic!ghosts>> /\ run' = run
      /\ UNCHANGED <<alive, late, given, runs, events>>
  BY DEF Traffic!vars, Traffic!rows, Traffic!ghosts
<1>2. Traffic!TypeOK' /\ Traffic!RunOK' /\ Traffic!AskedFirst' /\ Traffic!ReadStands'
        /\ \A i \in Books.Inbounds : Traffic!ToAdd(i)' = Traffic!ToAdd(i)
  BY <1>1 DEF Traffic!Booked, Traffic!TypeOK, Traffic!RunOK, Traffic!AskedFirst,
              Traffic!ReadStands, Traffic!ToAdd, Traffic!rows, Traffic!ghosts
<1>3. /\ Traffic!RowsOK' /\ Traffic!NodesOnce' /\ Traffic!InboundsOnce'
         /\ Traffic!OnlyKnownLosses' /\ Traffic!PerNodeWithinClient'
  BY <1>1, <1>2, Quiet
<1> QED
  BY <1>2, <1>3 DEF Traffic!Booked

\* Booked holds for ever.
THEOREM BookedInvariant ==
  ASSUME Traffic!TrafficAssumption PROVE Traffic!Spec => []Traffic!Booked
<1>1. Traffic!Booked /\ [Traffic!Next]_Traffic!vars => Traffic!Booked'
  BY QuietSteps, ClearingSteps, SendBooked, AnsweredBooked, UpdateNodeBooked,
     UpdateInboundBooked, ChargeBooked, ResetNodeBooked, ResetClientBooked, DeleteBooked,
     CrashBooked, StillBooked DEF Traffic!Next, Traffic!CollectNodeStats
<1> QED
  BY <1>1, InitBooked, PTL DEF Traffic!Spec

\* The properties of NodeTraffic follow from it.
LEMMA BookedCounts ==
  ASSUME Traffic!TrafficAssumption, Traffic!Booked
  PROVE  Traffic!TypeOK /\ Traffic!CountedOnce /\ Traffic!OnlyKnownLosses
           /\ Traffic!PerNodeWithinClient
<1>0. Traffic!TypeOK /\ Traffic!RowsOK /\ Traffic!RunOK
  BY DEF Traffic!Booked
<1>1. ASSUME NEW n \in Books.Nodes \ torn PROVE nodeRow[n] + run.node[n] <= moved[n]
  <2>1. nodeRow[n] + (Traffic!Total(tags[n]) + run.node[n]) <= moved[n]
    BY DEF Traffic!Booked, Traffic!NodesOnce, Traffic!Underway
  <2>2. /\ nodeRow[n] \in Nat /\ run.node[n] \in Nat /\ moved[n] \in Nat
        /\ Traffic!Total(tags[n]) \in Nat
    BY <1>0, RunFields, SumTypes DEF Traffic!RowsOK
  <2> QED
    BY <2>1, <2>2
<1>2. ASSUME NEW i \in Books.Inbounds PROVE inboundRow[i] <= carried[i]
  <2>1. inboundRow[i] + Traffic!ToAdd(i) + Traffic!Tagged(i) <= carried[i]
    BY DEF Traffic!Booked, Traffic!InboundsOnce
  <2>2. Traffic!ToAdd(i) \in Nat /\ inboundRow[i] \in Nat /\ Traffic!Tagged(i) \in Nat
          /\ carried[i] \in Nat
    BY <1>0, RunFields, SumTypes DEF Traffic!ToAdd, Traffic!RowsOK
  <2> QED
    BY <2>1, <2>2
<1> QED
  BY <1>1, <1>2 DEF Traffic!Booked, Traffic!CountedOnce

-----------------------------------------------------------------------------
(* What a Telemt process counted is charged for once (SidecarTraffic).     *)

\* Questions in flight are finitely many.
LEMMA FiniteMeters == ASSUME Octets!TotalsAssumption PROVE IsFiniteSet(Meters.Handlers)
BY DEF Octets!TotalsAssumption, Octets!IsFiniteSet, IsFiniteSet

\* Both modules add up in the same way.
LEMMA SameTotals == ASSUME NEW f PROVE Octets!Total(f) = Traffic!Total(f)
BY DEF Octets!Total, Octets!FoldFunction, Octets!FoldFunctionOnSet, Octets!MapThenFoldSet,
   Traffic!Total, Traffic!FoldFunction, Traffic!FoldFunctionOnSet, Traffic!MapThenFoldSet

Sound == lapses \cap {"overlap", "unsaved"} = {}

\* What each handler answers for is a number, and so is what all of them do.
LEMMA ShareType ==
  ASSUME Octets!TotalsAssumption, Octets!Types, \A h \in Meters.Handlers :
         Octets!Busy(h) => Octets!InTouch(h), NEW c \in Meters.Clients
  PROVE  /\ \A h \in Meters.Handlers : Octets!Share(h, c) \in Nat
            /\ Octets!Answered(h, c) \in Nat
         /\ \A h \in Meters.Handlers : Octets!Busy(h) => Octets!Worth(h, c) \in Nat
         /\ Octets!Shares(c) \in Nat
<1>1. ASSUME NEW h \in Meters.Handlers PROVE Octets!Answered(h, c) \in Nat
  BY DEF Octets!Types, Octets!IsAnswer, Octets!IsTotals, Octets!Answered
<1>2. ASSUME NEW h \in Meters.Handlers, Octets!Busy(h) PROVE Octets!Worth(h, c) \in Nat
  <2>1. Octets!InTouch(h) /\ Octets!IsTotals(handler[h].seen) /\ Octets!IsTotals(kept)
    BY <1>2 DEF Octets!Types, Octets!IsAnswer
  <2>2. CASE c \in DOMAIN handler[h].seen \cap DOMAIN kept /\ c \notin handler[h].restarted
    <3>1. kept[c] <= handler[h].seen[c]
      BY <2>1, <2>2 DEF Octets!InTouch
    <3>2. kept[c] \in Nat /\ handler[h].seen[c] \in Nat
      BY <2>1, <2>2 DEF Octets!IsTotals
    <3> QED
      BY <2>2, <3>1, <3>2 DEF Octets!Worth, Octets!Filed
  <2> QED
    BY <2>1, <2>2 DEF Octets!Worth, Octets!Filed, Octets!IsTotals
<1>3. \A h \in Meters.Handlers : Octets!Share(h, c) \in Nat
  BY <1>1, <1>2 DEF Octets!Share, Octets!Busy
<1>4. Octets!Shares(c) \in Nat
  <2> DEFINE f == [h \in Meters.Handlers |-> Octets!Share(h, c)]
  <2>1. f \in [Meters.Handlers -> Nat]
    BY <1>3
  <2> HIDE DEF f
  <2>2. Octets!Total(f) \in Nat
    BY <2>1, TotalType, FiniteMeters, SameTotals
  <2> QED
    BY <2>2 DEF Octets!Shares, Octets!Total, f
<1> QED
  BY <1>1, <1>2, <1>3, <1>4

\* The shares after a step of one handler.
LEMMA SharesStep ==
  ASSUME Octets!TotalsAssumption, Octets!Types, \A h \in Meters.Handlers :
         Octets!Busy(h) => Octets!InTouch(h), NEW c \in Meters.Clients,
         NEW h \in Meters.Handlers, \A g \in Meters.Handlers : g # h =>
           Octets!Share(g, c)' = Octets!Share(g, c),
         Octets!Share(h, c)' \in Nat
  PROVE  Octets!Shares(c)' = (Octets!Shares(c) - Octets!Share(h, c)) + Octets!Share(h, c)'
<1>1. \A g \in Meters.Handlers : Octets!Share(g, c) \in Nat
  BY ShareType
<1> DEFINE f == [g \in Meters.Handlers |-> Octets!Share(g, c)]
<1>2. PICK k : k = [g \in Meters.Handlers |-> Octets!Share(g, c)']
  OBVIOUS
<1>3. f \in [Meters.Handlers -> Nat] /\ k \in [Meters.Handlers -> Nat]
  BY <1>1, <1>2
<1>4. \A g \in Meters.Handlers : g # h => k[g] = f[g]
  BY <1>2
<1>5. Octets!Shares(c) = Octets!Total(f) /\ Octets!Shares(c)' = Octets!Total(k)
  BY <1>2 DEF Octets!Shares, Octets!Share, Octets!Worth, Octets!Answered, Octets!Filed
<1>6. f[h] = Octets!Share(h, c) /\ k[h] = Octets!Share(h, c)'
  BY <1>2
<1> HIDE DEF f
<1>7. Octets!Total(k) = (Octets!Total(f) - f[h]) + k[h]
  BY <1>3, <1>4, TotalChange, FiniteMeters, SameTotals
<1> QED
  BY <1>5, <1>6, <1>7

\* The shares of a client are what they were when nothing they rest on changes.
LEMMA SharesSame ==
  ASSUME NEW c \in Meters.Clients, \A g \in Meters.Handlers :
         Octets!Share(g, c)' = Octets!Share(g, c)
  PROVE  Octets!Shares(c)' = Octets!Shares(c)
BY DEF Octets!Shares

\* What the next answer brings is a natural number.
LEMMA PendingType ==
  ASSUME Octets!Types, Octets!Ahead, NEW c \in Meters.Clients
  PROVE  Octets!Pending(c) \in Nat
<1>1. Octets!IsTotals(octets) /\ Octets!IsTotals(kept)
  BY DEF Octets!Types
<1>2. CASE c \in (Octets!Known \cap DOMAIN kept) \ restarted
  <2>1. kept[c] <= octets[c] /\ kept[c] \in Nat /\ octets[c] \in Nat
    BY <1>1, <1>2 DEF Octets!Ahead, Octets!IsTotals, Octets!Known
  <2> QED
    BY <1>2, <2>1 DEF Octets!Pending, Octets!Filed
<1> QED
  BY <1>1, <1>2 DEF Octets!Pending, Octets!Filed, Octets!IsTotals, Octets!Known

\* At the start nothing has been passed on.
LEMMA InitAccounted ==
  ASSUME Octets!TotalsAssumption PROVE Octets!Init => Octets!AccountedFor
<1> SUFFICES ASSUME Octets!Init PROVE Octets!AccountedFor
  OBVIOUS
<1>1. Octets!Types
  <2>1. Octets!IsTotals(Octets!NoTotal)
    BY DEF Octets!IsTotals, Octets!NoTotal
  <2>2. Octets!IsTotals(octets) /\ restarted \subseteq Octets!Known
    BY DEF Octets!IsTotals, Octets!Init
  <2>3. Octets!IsAnswer(Octets!NoHandler)
    BY <2>1 DEF Octets!IsAnswer, Octets!NoHandler
  <2>4. handler = [h \in Meters.Handlers |-> handler[h]]
          /\ \A h \in Meters.Handlers : handler[h] = Octets!NoHandler
    BY DEF Octets!Init
  <2> QED
    BY <2>1, <2>2, <2>3, <2>4 DEF Octets!Init, Octets!Types
<1>2. \A h \in Meters.Handlers : ~Octets!Busy(h)
  BY DEF Octets!Init, Octets!Busy, Octets!NoHandler
<1>3. Octets!Ahead
  BY DEF Octets!Init, Octets!Ahead, Octets!NoTotal
<1>4. ASSUME NEW c \in Meters.Clients PROVE Octets!Even(c)
  <2> DEFINE f == [h \in Meters.Handlers |-> Octets!Share(h, c)]
  <2>1. f \in [Meters.Handlers -> Nat] /\ \A h \in Meters.Handlers : f[h] = 0
    BY DEF Octets!Init, Octets!Share, Octets!NoHandler
  <2>2. Octets!Shares(c) = 0
    <3> HIDE DEF f
    <3>1. Octets!Total(f) = 0
      BY <2>1, TotalZero, FiniteMeters, SameTotals
    <3> QED
      BY <3>1 DEF Octets!Shares, Octets!Total, f
  <2>3. charged[c] = 0 /\ passed[c] = 0 /\ Octets!Pending(c) = 0
    BY DEF Octets!Init, Octets!Pending, Octets!Known, Octets!Filed, Octets!NoTotal
  <2> QED
    BY <2>2, <2>3 DEF Octets!Even
<1> QED
  BY <1>1, <1>2, <1>3, <1>4 DEF Octets!AccountedFor, Octets!OneAtWork

\* A process passes traffic on: it is pending.
LEMMA MovesAccounted ==
  ASSUME Octets!TotalsAssumption, Octets!AccountedFor, NEW d \in Meters.Clients,
         Octets!Moves(d)
  PROVE  Octets!AccountedFor'
<1>0. Octets!Types /\ Octets!IsTotals(octets) /\ d \in Octets!Known
  BY DEF Octets!AccountedFor, Octets!Moves, Octets!Types
<1>1. /\ octets' = [octets EXCEPT ![d] = @ + 1] /\ DOMAIN octets' = DOMAIN octets
      /\ octets[d] \in Nat
  BY <1>0 DEF Octets!Moves, Octets!IsTotals, Octets!Known
<1>2. Octets!Types'
  <2>1. Octets!IsTotals(octets')
    <3>1. octets \in [Octets!Known -> Nat] /\ Octets!Known \subseteq Meters.Clients
      BY <1>0 DEF Octets!IsTotals, Octets!Known
    <3>2. octets' \in [Octets!Known -> Nat]
      BY <1>0, <1>1, <3>1
    <3> QED
      BY <3>1, <3>2 DEF Octets!IsTotals
  <2>2. passed' \in [Meters.Clients -> Nat]
    BY <1>0 DEF Octets!Moves, Octets!Types
  <2> QED
    BY <1>0, <1>1, <2>1, <2>2 DEF Octets!Moves, Octets!Types, Octets!Known
<1> SUFFICES ASSUME Sound
             PROVE  /\ Octets!OneAtWork' /\ Octets!Ahead'
                    /\ \A h \in Meters.Handlers : Octets!Busy(h)' => Octets!InTouch(h)'
                    /\ \A c \in Meters.Clients : Octets!Even(c)'
  BY <1>2 DEF Octets!AccountedFor, Octets!Moves, Sound
<1>3. /\ Octets!OneAtWork /\ Octets!Ahead /\ \A h \in Meters.Handlers : Octets!Busy(h) =>
         Octets!InTouch(h)
      /\ \A c \in Meters.Clients : Octets!Even(c)
  BY DEF Octets!AccountedFor, Sound
<1>4. Octets!OneAtWork'
  BY <1>3 DEF Octets!Moves, Octets!OneAtWork, Octets!Busy
<1>5. \A c \in Octets!Known : octets[c] \in Nat
        /\ octets'[c] = IF c = d THEN octets[c] + 1 ELSE octets[c]
  BY <1>0, <1>1 DEF Octets!IsTotals, Octets!Known
<1>6. Octets!Ahead'
  <2> SUFFICES ASSUME NEW c \in (Octets!Known \cap DOMAIN kept) \ restarted PROVE kept[c] <= octets'[c]
    BY <1>1 DEF Octets!Moves, Octets!Ahead, Octets!Known
  <2>1. kept[c] <= octets[c] /\ kept[c] \in Nat
    BY <1>0, <1>3 DEF Octets!Ahead, Octets!Types, Octets!IsTotals
  <2> QED
    BY <1>5, <2>1
<1>7. ASSUME NEW h \in Meters.Handlers, Octets!Busy(h)' PROVE Octets!InTouch(h)'
  <2>1. Octets!InTouch(h) /\ Octets!IsTotals(handler[h].seen)
          /\ UNCHANGED <<kept, handler, restarted, lapses>>
    BY <1>0, <1>3, <1>7 DEF Octets!Moves, Octets!Busy, Octets!Types, Octets!IsAnswer
  <2>2. Octets!Known' = Octets!Known
    BY <1>1 DEF Octets!Known
  <2>3. ~handler[h].cut => \A c \in Octets!Known : handler[h].seen[c] <= octets'[c]
    BY <1>5, <2>1 DEF Octets!InTouch, Octets!IsTotals
  <2>4. \A c \in Meters.Clients : Octets!Answered(h, c)' = Octets!Answered(h, c)
          /\ Octets!Worth(h, c)' = Octets!Worth(h, c)
    BY <2>1 DEF Octets!Answered, Octets!Worth, Octets!Filed
  <2> QED
    BY <2>1, <2>2, <2>3, <2>4 DEF Octets!InTouch
<1>8. ASSUME NEW c \in Meters.Clients PROVE Octets!Even(c)'
  <2>1. Octets!Shares(c)' = Octets!Shares(c)
    BY DEF Octets!Moves, Octets!Shares, Octets!Share, Octets!Worth, Octets!Answered,
           Octets!Filed
  <2>2. Octets!Pending(c) \in Nat /\ Octets!Shares(c) \in Nat /\ passed[c] \in Nat
          /\ charged[c] \in Nat
    BY <1>0, <1>3, PendingType, ShareType DEF Octets!Types
  <2>3. /\ Octets!Pending(c)' = IF c = d THEN Octets!Pending(c) + 1 ELSE Octets!Pending(c)
        /\ passed'[c] = IF c = d THEN passed[c] + 1 ELSE passed[c]
    <3>1. passed'[c] = IF c = d THEN passed[c] + 1 ELSE passed[c]
      BY <1>0 DEF Octets!Moves, Octets!Types
    <3>2. Octets!Known' = Octets!Known /\ UNCHANGED <<kept, restarted>>
      BY <1>1 DEF Octets!Known, Octets!Moves
    <3>3. Octets!Filed(c) \in Nat /\ Octets!Filed(c)' = Octets!Filed(c)
      BY <1>0, <3>2 DEF Octets!Filed, Octets!Types, Octets!IsTotals
    <3>4. Octets!Pending(c)' = IF c = d THEN Octets!Pending(c) + 1 ELSE Octets!Pending(c)
      BY <1>0, <1>5, <3>2, <3>3 DEF Octets!Pending
    <3> QED
      BY <3>1, <3>4
  <2>4. Octets!Even(c) /\ UNCHANGED <<charged, lapses>>
    BY <1>3 DEF Octets!Moves
  <2> QED
    BY <2>1, <2>2, <2>3, <2>4 DEF Octets!Even
<1> QED
  BY <1>4, <1>6, <1>7, <1>8

\* A process starts anew with totals of its own.
LEMMA StartsAccounted ==
  ASSUME Octets!TotalsAssumption, Octets!AccountedFor, Octets!Starts
  PROVE  Octets!AccountedFor'
<1>0. Octets!Types
  BY DEF Octets!AccountedFor
<1>1. PICK S \in SUBSET Meters.Clients : octets' = [c \in S |-> 0]
  BY DEF Octets!Starts
<1>2. /\ Octets!Known' = S /\ restarted' = S /\ \A c \in S : octets'[c] = 0
      /\ UNCHANGED <<kept, charged, questions, passed>>
  BY <1>1 DEF Octets!Starts, Octets!Known
<1>3. \A h \in Meters.Handlers : /\ Octets!Busy(h) => handler'[h] = [handler[h] EXCEPT !.cut = TRUE]
                          /\ ~Octets!Busy(h) => handler'[h] = handler[h]
  BY DEF Octets!Starts
<1>4. ASSUME NEW h \in Meters.Handlers
      PROVE  /\ handler'[h].pc = handler[h].pc /\ handler'[h].seen = handler[h].seen
             /\ handler'[h].delta = handler[h].delta
             /\ handler'[h].restarted = handler[h].restarted
             /\ Octets!Busy(h) => handler'[h].cut
             /\ Octets!IsAnswer(handler'[h])
  <2>1. Octets!IsAnswer(handler[h])
    BY <1>0 DEF Octets!Types
  <2>2. CASE Octets!Busy(h)
    <3>1. handler'[h] = [handler[h] EXCEPT !.cut = TRUE]
      BY <2>2 DEF Octets!Starts
    <3> QED
      BY <2>1, <3>1 DEF Octets!IsAnswer
  <2>3. CASE ~Octets!Busy(h)
    BY <1>3, <2>1, <2>3 DEF Octets!IsAnswer
  <2> QED
    BY <2>2, <2>3
<1>5. Octets!Types'
  <2>1. Octets!IsTotals(octets')
    BY <1>1 DEF Octets!IsTotals
  <2>2. handler' = [h \in Meters.Handlers |-> handler'[h]]
    BY DEF Octets!Starts
  <2> QED
    BY <1>0, <1>2, <1>4, <2>1, <2>2 DEF Octets!Types
<1> SUFFICES ASSUME Sound
             PROVE  /\ Octets!OneAtWork' /\ Octets!Ahead'
                    /\ \A h \in Meters.Handlers : Octets!Busy(h)' => Octets!InTouch(h)'
                    /\ \A c \in Meters.Clients : Octets!Even(c)'
  BY <1>5 DEF Octets!AccountedFor, Octets!Starts, Sound
<1>6. /\ Octets!OneAtWork /\ Octets!Ahead /\ \A h \in Meters.Handlers : Octets!Busy(h) =>
         Octets!InTouch(h)
      /\ \A c \in Meters.Clients : Octets!Even(c)
  BY DEF Octets!AccountedFor, Sound
<1>7. \A h \in Meters.Handlers : Octets!Busy(h)' = Octets!Busy(h)
  BY <1>4 DEF Octets!Busy
<1>8. ASSUME NEW h \in Meters.Handlers, NEW c \in Meters.Clients
      PROVE  Octets!Answered(h, c)' = Octets!Answered(h, c)
               /\ Octets!Worth(h, c)' = Octets!Worth(h, c)
  BY <1>2, <1>4 DEF Octets!Answered, Octets!Worth, Octets!Filed
<1>9. lapses' = {} => lapses = {}
  BY DEF Octets!Starts
<1>10. Octets!OneAtWork'
  BY <1>6, <1>7 DEF Octets!OneAtWork
<1>11. Octets!Ahead'
  BY <1>2 DEF Octets!Ahead
<1>12. ASSUME NEW h \in Meters.Handlers, Octets!Busy(h) PROVE Octets!InTouch(h)'
  <2>1. Octets!InTouch(h)
    BY <1>6, <1>12
  <2>2. handler'[h].cut /\ restarted' = Octets!Known'
    BY <1>2, <1>4, <1>12
  <2>3. \A c \in (DOMAIN handler'[h].seen \cap DOMAIN kept') \ handler'[h].restarted :
          kept'[c] <= handler'[h].seen[c]
    BY <1>2, <1>4, <2>1 DEF Octets!InTouch
  <2>4. ASSUME handler'[h].pc = "loaded", NEW c \in Meters.Clients
        PROVE  /\ Octets!Answered(h, c)' <= Octets!Worth(h, c)'
               /\ lapses' = {} => Octets!Answered(h, c)' = Octets!Worth(h, c)'
    <3>1. /\ Octets!Answered(h, c) <= Octets!Worth(h, c)
          /\ lapses = {} => Octets!Answered(h, c) = Octets!Worth(h, c)
      BY <1>4, <2>1, <2>4 DEF Octets!InTouch
    <3>2. Octets!Answered(h, c)' = Octets!Answered(h, c)
            /\ Octets!Worth(h, c)' = Octets!Worth(h, c)
      BY <1>8
    <3> QED
      BY <1>9, <3>1, <3>2
  <2> QED
    BY <2>2, <2>3, <2>4 DEF Octets!InTouch
<1>13. ASSUME NEW c \in Meters.Clients PROVE Octets!Even(c)'
  <2>1. Octets!Pending(c) \in Nat /\ Octets!Shares(c) \in Nat /\ passed[c] \in Nat
          /\ charged[c] \in Nat
    BY <1>0, <1>6, PendingType, ShareType DEF Octets!Types
  <2>2. Octets!Even(c) /\ UNCHANGED <<charged, passed>>
    BY <1>2, <1>6
  <2>3. Octets!Pending(c)' = 0
    BY <1>2 DEF Octets!Pending
  <2>4. CASE \A h \in Meters.Handlers : ~Octets!Busy(h)
    <3>1. Octets!Shares(c)' = Octets!Shares(c)
      BY <1>3, <1>8, <2>4 DEF Octets!Shares, Octets!Share, Octets!Worth, Octets!Answered,
                              Octets!Filed
    <3>2. lapses' = {} => ~(\E d \in Octets!Known : Octets!Pending(d) > 0)
      BY <2>4 DEF Octets!Starts, Octets!Excused
    <3>3. lapses' = {} => Octets!Pending(c) = 0
      BY <2>1, <3>2 DEF Octets!Pending
    <3> QED
      BY <1>9, <2>1, <2>2, <2>3, <3>1, <3>3 DEF Octets!Even
  <2>5. ASSUME NEW h \in Meters.Handlers, Octets!Busy(h) PROVE Octets!Even(c)'
    <3>1. Octets!InTouch(h) /\ \A g \in Meters.Handlers : g # h => ~Octets!Busy(g)
      BY <1>6, <2>5 DEF Octets!OneAtWork
    <3>2. \A g \in Meters.Handlers : g # h => Octets!Share(g, c)' = Octets!Share(g, c)
      BY <1>3, <1>8, <3>1 DEF Octets!Share
    <3>3. Octets!Worth(h, c) \in Nat /\ Octets!Answered(h, c) \in Nat
            /\ Octets!Share(h, c) \in Nat
      BY <1>0, <1>6, <2>5, ShareType
    <3>4. Octets!Share(h, c)' = IF handler[h].pc = "fetched" THEN Octets!Worth(h, c)
            ELSE Octets!Answered(h, c)
      BY <1>4, <1>8, <2>5 DEF Octets!Share, Octets!Busy
    <3>5. Octets!Shares(c)' = (Octets!Shares(c) - Octets!Share(h, c)) + Octets!Share(h, c)'
      BY <1>0, <1>6, <3>2, <3>3, <3>4, SharesStep
    <3>6. lapses' = {} => ~ IF handler[h].cut THEN \E d \in Octets!Known : octets[d] > 0
                             ELSE octets # handler[h].seen
      BY <2>5 DEF Octets!Starts, Octets!Excused
    <3>7. CASE handler[h].cut
      <4>1. Octets!Share(h, c)' = Octets!Share(h, c)
        BY <2>5, <3>4, <3>7 DEF Octets!Share, Octets!Busy
      <4>2. lapses' = {} => Octets!Pending(c) = 0
        <5>1. restarted = Octets!Known /\ Octets!IsTotals(octets)
          BY <1>0, <3>1, <3>7 DEF Octets!InTouch, Octets!Types
        <5>2. c \in Octets!Known => octets[c] \in Nat
          BY <5>1 DEF Octets!Known, Octets!IsTotals
        <5> QED
          BY <3>6, <3>7, <5>1, <5>2 DEF Octets!Pending
      <4> QED
        BY <1>9, <2>1, <2>2, <2>3, <3>3, <3>5, <4>1, <4>2 DEF Octets!Even
    <3>8. CASE ~handler[h].cut
      <4>1. Octets!Share(h, c) = 0
        BY <2>5, <3>8 DEF Octets!Share, Octets!Busy
      <4>2. Octets!Worth(h, c) <= Octets!Pending(c)
              /\ (lapses' = {} => Octets!Worth(h, c) = Octets!Pending(c))
        <5>1. /\ DOMAIN handler[h].seen = Octets!Known /\ handler[h].restarted = restarted
              /\ \A d \in Octets!Known : handler[h].seen[d] <= octets[d]
          BY <3>1, <3>8 DEF Octets!InTouch
        <5>2. Octets!IsTotals(octets) /\ Octets!IsTotals(kept)
                /\ Octets!IsTotals(handler[h].seen)
          BY <1>0 DEF Octets!Types, Octets!IsAnswer
        <5>3. c \in Octets!Known => octets[c] \in Nat /\ handler[h].seen[c] \in Nat
                /\ Octets!Filed(c) \in Nat
          BY <5>1, <5>2 DEF Octets!IsTotals, Octets!Known, Octets!Filed
        <5>4. lapses' = {} => octets = handler[h].seen
          BY <3>6, <3>8
        <5>5. Octets!Worth(h, c) <= Octets!Pending(c)
          BY <5>1, <5>3 DEF Octets!Worth, Octets!Pending
        <5> QED
          BY <5>1, <5>4, <5>5 DEF Octets!Worth, Octets!Pending
      <4>3. Octets!Share(h, c)' <= Octets!Worth(h, c)
              /\ (lapses' = {} => Octets!Share(h, c)' = Octets!Worth(h, c))
        <5>1. CASE handler[h].pc = "fetched"
          BY <3>3, <3>4, <5>1
        <5>2. CASE handler[h].pc = "loaded"
          <6>1. /\ Octets!Answered(h, c) <= Octets!Worth(h, c)
                /\ lapses = {} => Octets!Answered(h, c) = Octets!Worth(h, c)
            BY <3>1, <5>2 DEF Octets!InTouch
          <6> QED
            BY <1>9, <3>4, <5>2, <6>1
        <5> QED
          BY <2>5, <5>1, <5>2 DEF Octets!Busy
      <4> QED
        BY <1>9, <2>1, <2>2, <2>3, <3>3, <3>4, <3>5, <4>1, <4>2, <4>3 DEF Octets!Even
    <3> QED
      BY <3>7, <3>8
  <2> QED
    BY <2>4, <2>5
<1> QED
  BY <1>7, <1>10, <1>11, <1>12, <1>13

\* A handler reads the totals.
LEMMA FetchAccounted ==
  ASSUME Octets!TotalsAssumption, Octets!AccountedFor, NEW h \in Meters.Handlers,
         Octets!Fetch(h)
  PROVE  Octets!AccountedFor'
<1>0. Octets!Types
  BY DEF Octets!AccountedFor
<1>1. /\ handler' = [handler EXCEPT ![h] = [Octets!NoHandler EXCEPT
            !.pc = "fetched", !.seen = octets, !.restarted = restarted]]
      /\ UNCHANGED <<octets, kept, charged, starts, passed, restarted>>
      /\ Octets!Idle(h)
  BY DEF Octets!Fetch
<1>2. /\ handler'[h] = [pc |-> "fetched", seen |-> octets, delta |-> Octets!NoTotal,
                        restarted |-> restarted, cut |-> FALSE]
      /\ \A g \in Meters.Handlers : g # h => handler'[g] = handler[g]
      /\ handler' = [g \in Meters.Handlers |-> handler'[g]]
  BY <1>0, <1>1 DEF Octets!Types, Octets!NoHandler
<1>3. Octets!Types'
  <2>1. Octets!IsTotals(Octets!NoTotal)
    BY DEF Octets!IsTotals, Octets!NoTotal
  <2>2. restarted \in SUBSET Meters.Clients
    BY <1>0 DEF Octets!Types, Octets!IsTotals, Octets!Known
  <2>3. Octets!IsAnswer(handler'[h])
    BY <1>0, <1>2, <2>1, <2>2 DEF Octets!IsAnswer, Octets!Types
  <2>4. \A g \in Meters.Handlers : Octets!IsAnswer(handler'[g])
    BY <1>0, <1>2, <2>3 DEF Octets!Types
  <2> QED
    BY <1>0, <1>1, <1>2, <2>4 DEF Octets!Types, Octets!Known
<1> SUFFICES ASSUME Sound'
             PROVE  /\ Octets!OneAtWork' /\ Octets!Ahead'
                    /\ \A g \in Meters.Handlers : Octets!Busy(g)' => Octets!InTouch(g)'
                    /\ \A c \in Meters.Clients : Octets!Even(c)'
  BY <1>3 DEF Octets!AccountedFor, Sound
<1>4. Sound /\ \A g \in Meters.Handlers : ~Octets!Busy(g)
  BY DEF Octets!Fetch, Sound, Octets!Excused
<1>5. lapses' = {} => lapses = {}
  BY DEF Octets!Fetch
<1>6. Octets!Ahead /\ (\A g \in Meters.Handlers : Octets!Busy(g) => Octets!InTouch(g))
        /\ \A c \in Meters.Clients : Octets!Even(c)
  BY <1>4 DEF Octets!AccountedFor, Sound
<1>7. \A g \in Meters.Handlers : Octets!Busy(g)' => g = h
  BY <1>2, <1>4 DEF Octets!Busy
<1>8. Octets!Ahead' /\ Octets!OneAtWork'
  BY <1>1, <1>6, <1>7 DEF Octets!Ahead, Octets!OneAtWork, Octets!Known
<1>9. Octets!InTouch(h)'
  <2>1. \A c \in Octets!Known : octets[c] \in Nat
    BY <1>0 DEF Octets!Types, Octets!IsTotals, Octets!Known
  <2>2. \A c \in (Octets!Known \cap DOMAIN kept) \ restarted : kept[c] <= octets[c]
    BY <1>6 DEF Octets!Ahead
  <2>3. ~handler'[h].cut /\ handler'[h].pc # "loaded"
    BY <1>2
  <2>4. /\ DOMAIN handler'[h].seen = Octets!Known' /\ handler'[h].restarted = restarted'
        /\ \A c \in Octets!Known' : handler'[h].seen[c] <= octets'[c]
    BY <1>1, <1>2, <2>1 DEF Octets!Known
  <2>5. \A c \in (DOMAIN handler'[h].seen \cap DOMAIN kept') \ handler'[h].restarted :
          kept'[c] <= handler'[h].seen[c]
    BY <1>1, <1>2, <2>2 DEF Octets!Known
  <2> QED
    BY <2>3, <2>4, <2>5 DEF Octets!InTouch
<1>10. ASSUME NEW c \in Meters.Clients PROVE Octets!Even(c)'
  <2>1. \A g \in Meters.Handlers : g # h => Octets!Share(g, c)' = Octets!Share(g, c)
    BY <1>1, <1>2 DEF Octets!Share, Octets!Worth, Octets!Answered, Octets!Filed
  <2>2. Octets!Share(h, c) = 0 /\ Octets!Share(h, c)' = 0
    BY <1>1, <1>2 DEF Octets!Share, Octets!Idle
  <2>3. \A g \in Meters.Handlers : Octets!Share(g, c)' = Octets!Share(g, c)
    BY <2>1, <2>2
  <2>4. Octets!Shares(c)' = (Octets!Shares(c) - Octets!Share(h, c)) + Octets!Share(h, c)'
    BY <1>0, <1>6, <2>1, <2>2, SharesStep
  <2>5. Octets!Shares(c) \in Nat
    BY <1>0, <1>6, ShareType
  <2>6. Octets!Pending(c)' = Octets!Pending(c)
    BY <1>1 DEF Octets!Pending, Octets!Known, Octets!Filed
  <2>7. Octets!Even(c) /\ UNCHANGED <<charged, passed>>
    BY <1>1, <1>6
  <2> QED
    BY <1>5, <2>2, <2>4, <2>5, <2>6, <2>7 DEF Octets!Even
<1> QED
  BY <1>7, <1>8, <1>9, <1>10

\* It compares them with the file.
LEMMA LoadAccounted ==
  ASSUME Octets!TotalsAssumption, Octets!AccountedFor, NEW h \in Meters.Handlers,
         Octets!Load(h)
  PROVE  Octets!AccountedFor'
<1>0. Octets!Types /\ Octets!IsAnswer(handler[h]) /\ Octets!IsTotals(kept)
  BY DEF Octets!AccountedFor, Octets!Types
<1>1. /\ handler[h].pc = "fetched"
      /\ handler' = [handler EXCEPT ![h].pc = "loaded",
                                   ![h].delta = Octets!Delta(kept, handler[h].seen)]
      /\ UNCHANGED <<octets, kept, charged, passed, restarted>>
  BY DEF Octets!Load
<1>2. /\ handler'[h] = [pc |-> "loaded", seen |-> handler[h].seen,
                        delta |-> Octets!Delta(kept, handler[h].seen),
                        restarted |-> handler[h].restarted, cut |-> handler[h].cut]
      /\ \A g \in Meters.Handlers : g # h => handler'[g] = handler[g]
      /\ handler' = [g \in Meters.Handlers |-> handler'[g]]
  <2>1. handler = [g \in Meters.Handlers |-> handler[g]]
    BY <1>0 DEF Octets!Types
  <2> QED
    BY <1>0, <1>1, <2>1 DEF Octets!IsAnswer
<1> DEFINE seen == handler[h].seen
<1>3. Octets!IsTotals(Octets!Delta(kept, seen))
        /\ DOMAIN Octets!Delta(kept, seen) = DOMAIN seen
  BY <1>0 DEF Octets!IsAnswer, Octets!IsTotals, Octets!Delta
<1>4. Octets!Types'
  <2>1. Octets!IsAnswer(handler'[h])
    BY <1>0, <1>2, <1>3 DEF Octets!IsAnswer
  <2>2. \A g \in Meters.Handlers : Octets!IsAnswer(handler'[g])
    BY <1>0, <1>2, <2>1 DEF Octets!Types
  <2> QED
    BY <1>0, <1>1, <1>2, <2>2 DEF Octets!Types, Octets!Known
<1> SUFFICES ASSUME Sound
             PROVE  /\ Octets!OneAtWork' /\ Octets!Ahead'
                    /\ \A g \in Meters.Handlers : Octets!Busy(g)' => Octets!InTouch(g)'
                    /\ \A c \in Meters.Clients : Octets!Even(c)'
  BY <1>4 DEF Octets!AccountedFor, Sound, Octets!Load
<1>5. /\ Octets!OneAtWork /\ Octets!Ahead /\ \A g \in Meters.Handlers : Octets!Busy(g) =>
         Octets!InTouch(g)
      /\ \A c \in Meters.Clients : Octets!Even(c)
  BY DEF Octets!AccountedFor, Sound
<1>6. Octets!Busy(h) /\ Octets!InTouch(h) /\ \A g \in Meters.Handlers : g # h =>
        ~Octets!Busy(g)
  BY <1>1, <1>5 DEF Octets!Busy, Octets!OneAtWork
<1>7. \A g \in Meters.Handlers : Octets!Busy(g)' => g = h
  BY <1>2, <1>6 DEF Octets!Busy
<1>8. Octets!Ahead' /\ Octets!OneAtWork'
  BY <1>1, <1>5, <1>7 DEF Octets!Ahead, Octets!OneAtWork, Octets!Known
<1>9. lapses' = {} =>
        /\ lapses = {} /\ \A c \in DOMAIN seen \ DOMAIN kept : ~(seen[c] > 0)
        /\ \A c \in handler[h].restarted \cap DOMAIN kept :
             c \in DOMAIN seen => ~(seen[c] >= kept[c] /\ kept[c] > 0)
  BY DEF Octets!Load, Octets!Excused
<1>10. ASSUME NEW c \in Meters.Clients
       PROVE  /\ Octets!Worth(h, c)' = Octets!Worth(h, c) /\ Octets!Worth(h, c) \in Nat
              /\ Octets!Answered(h, c)' \in Nat
                 /\ Octets!Answered(h, c)' <= Octets!Worth(h, c)
              /\ lapses' = {} => Octets!Answered(h, c)' = Octets!Worth(h, c)
  <2>1. Octets!Worth(h, c)' = Octets!Worth(h, c)
    BY <1>1, <1>2 DEF Octets!Worth, Octets!Filed
  <2>2. Octets!Worth(h, c) \in Nat
    BY <1>0, <1>5, <1>6, ShareType
  <2>3. Octets!Answered(h, c)' = IF c \in DOMAIN seen
          THEN Octets!Delta(kept, seen)[c] ELSE 0
    BY <1>2, <1>3 DEF Octets!Answered
  <2>4. CASE c \notin DOMAIN seen
    BY <2>1, <2>2, <2>3, <2>4 DEF Octets!Worth
  <2>5. CASE c \in DOMAIN seen /\ c \notin DOMAIN kept
    <3>1. seen[c] \in Nat /\ Octets!Delta(kept, seen)[c] = 0 /\ Octets!Worth(h, c) = seen[c]
      BY <1>0, <2>5 DEF Octets!IsAnswer, Octets!IsTotals, Octets!Delta, Octets!Worth,
                        Octets!Filed
    <3> QED
      BY <1>9, <2>1, <2>3, <2>5, <3>1
  <2>6. CASE c \in DOMAIN seen /\ c \in DOMAIN kept
    <3>1. seen[c] \in Nat /\ kept[c] \in Nat
      BY <1>0, <2>6 DEF Octets!IsAnswer, Octets!IsTotals
    <3>2. Octets!Delta(kept, seen)[c] = IF seen[c] >= kept[c] THEN seen[c] - kept[c]
            ELSE seen[c]
      BY <2>6 DEF Octets!Delta
    <3>3. CASE c \in handler[h].restarted
      <4>1. Octets!Worth(h, c) = seen[c]
        BY <2>6, <3>3 DEF Octets!Worth
      <4>2. lapses' = {} => ~(seen[c] >= kept[c] /\ kept[c] > 0)
        BY <1>9, <2>6, <3>3
      <4> QED
        BY <2>1, <2>2, <2>3, <2>6, <3>1, <3>2, <4>1, <4>2
    <3>4. CASE c \notin handler[h].restarted
      <4>1. Octets!Worth(h, c) = seen[c] - kept[c] /\ kept[c] <= seen[c]
        BY <1>6, <2>6, <3>4 DEF Octets!Worth, Octets!Filed, Octets!InTouch
      <4> QED
        BY <2>1, <2>2, <2>3, <2>6, <3>1, <3>2, <4>1
    <3> QED
      BY <3>3, <3>4
  <2> QED
    BY <2>4, <2>5, <2>6
<1>11. Octets!InTouch(h)'
  <2>1. IF handler'[h].cut THEN restarted' = Octets!Known'
        ELSE /\ DOMAIN handler'[h].seen = Octets!Known' /\ handler'[h].restarted = restarted'
             /\ \A c \in Octets!Known' : handler'[h].seen[c] <= octets'[c]
    <3>1. IF handler[h].cut THEN restarted = Octets!Known
          ELSE /\ DOMAIN handler[h].seen = Octets!Known /\ handler[h].restarted = restarted
               /\ \A c \in Octets!Known : handler[h].seen[c] <= octets[c]
      BY <1>6 DEF Octets!InTouch
    <3>2. /\ handler'[h].cut = handler[h].cut /\ handler'[h].seen = handler[h].seen
          /\ handler'[h].restarted = handler[h].restarted
      BY <1>2
    <3>3. restarted' = restarted /\ octets' = octets /\ Octets!Known' = Octets!Known
      BY <1>1 DEF Octets!Known
    <3> QED
      BY <3>1, <3>2, <3>3
  <2>2. \A c \in (DOMAIN handler'[h].seen \cap DOMAIN kept') \ handler'[h].restarted :
          kept'[c] <= handler'[h].seen[c]
    BY <1>1, <1>2, <1>6 DEF Octets!InTouch
  <2>3. ASSUME NEW c \in Meters.Clients
        PROVE  /\ Octets!Answered(h, c)' <= Octets!Worth(h, c)'
               /\ lapses' = {} => Octets!Answered(h, c)' = Octets!Worth(h, c)'
    BY <1>10
  <2> QED
    BY <2>1, <2>2, <2>3 DEF Octets!InTouch
<1>12. ASSUME NEW c \in Meters.Clients PROVE Octets!Even(c)'
  <2>1. \A g \in Meters.Handlers : g # h => Octets!Share(g, c)' = Octets!Share(g, c)
    BY <1>1, <1>2 DEF Octets!Share, Octets!Worth, Octets!Answered, Octets!Filed
  <2>2. /\ Octets!Share(h, c) = IF handler[h].cut THEN Octets!Worth(h, c) ELSE 0
        /\ Octets!Share(h, c)' = IF handler[h].cut THEN Octets!Answered(h, c)' ELSE 0
    BY <1>1, <1>2 DEF Octets!Share
  <2>3. /\ Octets!Worth(h, c) \in Nat /\ Octets!Answered(h, c)' \in Nat
           /\ Octets!Answered(h, c)' <= Octets!Worth(h, c)
        /\ lapses' = {} => Octets!Answered(h, c)' = Octets!Worth(h, c)
    BY <1>10
  <2>4. Octets!Shares(c)' = (Octets!Shares(c) - Octets!Share(h, c)) + Octets!Share(h, c)'
    BY <1>0, <1>5, <2>1, <2>2, <2>3, SharesStep
  <2>5. Octets!Shares(c) \in Nat /\ Octets!Pending(c) \in Nat /\ passed[c] \in Nat
          /\ charged[c] \in Nat
    BY <1>0, <1>5, ShareType, PendingType DEF Octets!Types
  <2>6. Octets!Pending(c)' = Octets!Pending(c)
    BY <1>1 DEF Octets!Pending, Octets!Known, Octets!Filed
  <2>7. Octets!Even(c) /\ UNCHANGED <<charged, passed>>
    BY <1>1, <1>5
  <2> QED
    BY <1>9, <2>2, <2>3, <2>4, <2>5, <2>6, <2>7 DEF Octets!Even
<1> QED
  BY <1>7, <1>8, <1>11, <1>12

\* It writes the file: what was pending is now its own.
LEMMA SaveAccounted ==
  ASSUME Octets!TotalsAssumption, Octets!AccountedFor, NEW h \in Meters.Handlers,
         Octets!Save(h)
  PROVE  Octets!AccountedFor'
<1>0. Octets!Types /\ Octets!IsAnswer(handler[h]) /\ Octets!IsTotals(kept)
  BY DEF Octets!AccountedFor, Octets!Types
<1>1. /\ handler[h].pc = "loaded" /\ handler' = [handler EXCEPT ![h].pc = "answered"]
      /\ UNCHANGED <<octets, charged, passed>>
  BY DEF Octets!Save
<1>2. /\ handler'[h] = [handler[h] EXCEPT !.pc = "answered"]
      /\ \A g \in Meters.Handlers : g # h => handler'[g] = handler[g]
      /\ handler' = [g \in Meters.Handlers |-> handler'[g]]
  BY <1>0, <1>1 DEF Octets!Types
<1>3. /\ handler'[h].pc = "answered" /\ handler'[h].delta = handler[h].delta
      /\ Octets!IsAnswer(handler'[h])
  BY <1>0, <1>2 DEF Octets!IsAnswer
<1>4. Octets!Types'
  <2>1. \A g \in Meters.Handlers : Octets!IsAnswer(handler'[g])
    BY <1>0, <1>2, <1>3 DEF Octets!Types
  <2>2. Octets!IsTotals(kept') /\ restarted' \subseteq Octets!Known
    BY <1>0 DEF Octets!Save, Octets!Types, Octets!IsAnswer
  <2> QED
    BY <1>0, <1>1, <1>2, <2>1, <2>2 DEF Octets!Types, Octets!Known
<1> SUFFICES ASSUME Sound'
             PROVE  /\ Octets!OneAtWork' /\ Octets!Ahead'
                    /\ \A g \in Meters.Handlers : Octets!Busy(g)' => Octets!InTouch(g)'
                    /\ \A c \in Meters.Clients : Octets!Even(c)'
  BY <1>4 DEF Octets!AccountedFor, Sound
<1>5. /\ kept' = handler[h].seen /\ restarted' = IF handler[h].cut THEN Octets!Known ELSE {}
      /\ lapses' = lapses
  BY DEF Octets!Save, Sound
<1>6. Sound
  BY <1>5 DEF Sound
<1>7. /\ Octets!OneAtWork /\ Octets!Ahead /\ \A g \in Meters.Handlers : Octets!Busy(g) =>
         Octets!InTouch(g)
      /\ \A c \in Meters.Clients : Octets!Even(c)
  BY <1>6 DEF Octets!AccountedFor, Sound
<1>8. Octets!Busy(h) /\ Octets!InTouch(h) /\ \A g \in Meters.Handlers : g # h =>
        ~Octets!Busy(g)
  BY <1>1, <1>7 DEF Octets!Busy, Octets!OneAtWork
<1>9. \A g \in Meters.Handlers : ~Octets!Busy(g)'
  BY <1>2, <1>3, <1>8 DEF Octets!Busy
<1>10. Octets!Ahead'
  <2>1. CASE handler[h].cut
    BY <1>1, <1>5, <2>1 DEF Octets!Ahead, Octets!Known
  <2>2. CASE ~handler[h].cut
    <3>1. \A c \in Octets!Known : handler[h].seen[c] <= octets[c]
      BY <1>8, <2>2 DEF Octets!InTouch
    <3>2. Octets!Known' = Octets!Known
      BY <1>1 DEF Octets!Known
    <3> QED
      BY <1>1, <1>5, <2>2, <3>1, <3>2 DEF Octets!Ahead
  <2> QED
    BY <2>1, <2>2
<1>11. ASSUME NEW c \in Meters.Clients PROVE Octets!Even(c)'
  <2>1. \A g \in Meters.Handlers : g # h => Octets!Share(g, c)' = Octets!Share(g, c)
    BY <1>2, <1>8 DEF Octets!Share, Octets!Answered, Octets!Busy
  <2>2. /\ Octets!Share(h, c) = IF handler[h].cut THEN Octets!Answered(h, c) ELSE 0
        /\ Octets!Share(h, c)' = Octets!Answered(h, c)
    BY <1>1, <1>3 DEF Octets!Share, Octets!Answered
  <2>3. Octets!Worth(h, c) \in Nat /\ Octets!Answered(h, c) \in Nat
    BY <1>0, <1>7, <1>8, ShareType
  <2>4. Octets!Shares(c)' = (Octets!Shares(c) - Octets!Share(h, c)) + Octets!Share(h, c)'
    BY <1>0, <1>7, <2>1, <2>2, <2>3, SharesStep
  <2>5. Octets!Shares(c) \in Nat /\ Octets!Pending(c) \in Nat /\ passed[c] \in Nat
          /\ charged[c] \in Nat
    BY <1>0, <1>7, ShareType, PendingType DEF Octets!Types
  <2>6. Octets!Even(c) /\ UNCHANGED <<charged, passed, lapses>>
    BY <1>1, <1>5, <1>7
  <2>7. CASE handler[h].cut
    <3>1. Octets!Pending(c)' = Octets!Pending(c)
      <4>1. Octets!Known' = Octets!Known /\ restarted = Octets!Known
              /\ restarted' = Octets!Known /\ octets' = octets
        BY <1>1, <1>5, <1>8, <2>7 DEF Octets!Known, Octets!InTouch
      <4> QED
        BY <4>1 DEF Octets!Pending
    <3> QED
      BY <2>2, <2>3, <2>4, <2>5, <2>6, <2>7, <3>1 DEF Octets!Even
  <2>8. CASE ~handler[h].cut
    <3>1. /\ DOMAIN handler[h].seen = Octets!Known /\ handler[h].restarted = restarted
          /\ Octets!Known' = Octets!Known /\ octets' = octets /\ restarted' = {}
      BY <1>1, <1>5, <1>8, <2>8 DEF Octets!Known, Octets!InTouch
    <3>2. c \in Octets!Known => /\ handler[h].seen[c] \in Nat /\ octets[c] \in Nat
                         /\ Octets!Filed(c) \in Nat /\ Octets!Filed(c)' = handler[h].seen[c]
      BY <1>0, <1>5, <3>1 DEF Octets!Types, Octets!IsAnswer, Octets!IsTotals, Octets!Filed,
                              Octets!Known
    <3>3. Octets!Worth(h, c) + Octets!Pending(c)' = Octets!Pending(c)
      BY <3>1, <3>2 DEF Octets!Worth, Octets!Pending
    <3>4. /\ Octets!Answered(h, c) <= Octets!Worth(h, c)
          /\ lapses = {} => Octets!Answered(h, c) = Octets!Worth(h, c)
      BY <1>1, <1>8 DEF Octets!InTouch
    <3>5. Octets!Pending(c)' = Octets!Pending(c) - Octets!Worth(h, c)
            /\ Octets!Pending(c)' \in Int
      <4>1. Octets!Pending(c)' \in Int
        BY <3>1, <3>2 DEF Octets!Pending
      <4> QED
        BY <2>3, <2>5, <3>3, <4>1
    <3> QED
      BY <2>2, <2>3, <2>4, <2>5, <2>6, <2>8, <3>4, <3>5 DEF Octets!Even
  <2> QED
    BY <2>7, <2>8
<1> QED
  BY <1>9, <1>10, <1>11 DEF Octets!OneAtWork

\* The end of a handler, its answer charged or not.
LEMMA EndAccounted ==
  ASSUME Octets!TotalsAssumption, Octets!AccountedFor, NEW h \in Meters.Handlers,
         Octets!Charge(h) \/ Octets!Forget(h)
  PROVE  Octets!AccountedFor'
<1>0. Octets!Types /\ Octets!IsAnswer(handler[h])
  BY DEF Octets!AccountedFor, Octets!Types
<1>1. /\ handler[h].pc = "answered" /\ handler' = [handler EXCEPT ![h] = Octets!NoHandler]
      /\ UNCHANGED <<octets, kept, passed, restarted>>
  BY DEF Octets!Charge, Octets!Forget
<1>2. /\ handler'[h] = Octets!NoHandler
      /\ \A g \in Meters.Handlers : g # h => handler'[g] = handler[g]
      /\ handler' = [g \in Meters.Handlers |-> handler'[g]]
  BY <1>0, <1>1 DEF Octets!Types
<1>3. /\ Octets!Charge(h) =>
         \A c \in Meters.Clients : charged'[c] = charged[c] + Octets!Answered(h, c)
      /\ Octets!Forget(h) => UNCHANGED charged
  BY DEF Octets!Charge, Octets!Forget, Octets!Answered
<1>4. Octets!Types'
  <2>1. Octets!IsAnswer(Octets!NoHandler)
    BY DEF Octets!IsAnswer, Octets!NoHandler, Octets!IsTotals, Octets!NoTotal
  <2>2. \A g \in Meters.Handlers : Octets!IsAnswer(handler'[g])
    BY <1>0, <1>2, <2>1 DEF Octets!Types
  <2>3. charged' \in [Meters.Clients -> Nat]
    <3>1. charged \in [Meters.Clients -> Nat] /\ Octets!IsTotals(handler[h].delta)
      BY <1>0 DEF Octets!Types, Octets!IsAnswer
    <3>2. CASE Octets!Charge(h)
      BY <3>1, <3>2 DEF Octets!Charge, Octets!IsTotals
    <3> QED
      BY <1>3, <3>1, <3>2
  <2> QED
    BY <1>0, <1>1, <1>2, <2>2, <2>3 DEF Octets!Types, Octets!Known
<1>5. (Sound' => Sound) /\ (lapses' = {} => lapses = {})
  BY DEF Sound, Octets!Charge, Octets!Forget, Octets!Excused
<1> SUFFICES ASSUME Sound
             PROVE  /\ Octets!OneAtWork' /\ Octets!Ahead'
                    /\ \A g \in Meters.Handlers : Octets!Busy(g)' => Octets!InTouch(g)'
                    /\ \A c \in Meters.Clients : Octets!Even(c)'
  BY <1>4, <1>5 DEF Octets!AccountedFor, Sound
<1>6. /\ Octets!OneAtWork /\ Octets!Ahead /\ \A g \in Meters.Handlers : Octets!Busy(g) =>
         Octets!InTouch(g)
      /\ \A c \in Meters.Clients : Octets!Even(c)
  BY DEF Octets!AccountedFor, Sound
<1>7. \A g \in Meters.Handlers : Octets!Busy(g)' => g # h /\ Octets!Busy(g)
  BY <1>2 DEF Octets!Busy, Octets!NoHandler
<1>8. Octets!OneAtWork' /\ Octets!Ahead'
  BY <1>1, <1>6, <1>7 DEF Octets!OneAtWork, Octets!Ahead, Octets!Known
<1>9. ASSUME NEW g \in Meters.Handlers, Octets!Busy(g)' PROVE Octets!InTouch(g)'
  <2>1. Octets!InTouch(g) /\ handler'[g] = handler[g] /\ Octets!Known' = Octets!Known
    BY <1>1, <1>2, <1>6, <1>7, <1>9 DEF Octets!Known
  <2>2. IF handler'[g].cut THEN restarted' = Octets!Known'
        ELSE /\ DOMAIN handler'[g].seen = Octets!Known' /\ handler'[g].restarted = restarted'
             /\ \A c \in Octets!Known' : handler'[g].seen[c] <= octets'[c]
    BY <1>1, <2>1 DEF Octets!InTouch
  <2>3. \A c \in (DOMAIN handler'[g].seen \cap DOMAIN kept') \ handler'[g].restarted :
          kept'[c] <= handler'[g].seen[c]
    BY <1>1, <2>1 DEF Octets!InTouch
  <2>4. ASSUME handler'[g].pc = "loaded", NEW c \in Meters.Clients
        PROVE  /\ Octets!Answered(g, c)' <= Octets!Worth(g, c)'
               /\ lapses' = {} => Octets!Answered(g, c)' = Octets!Worth(g, c)'
    <3>1. /\ Octets!Answered(g, c) <= Octets!Worth(g, c)
          /\ lapses = {} => Octets!Answered(g, c) = Octets!Worth(g, c)
      BY <2>1, <2>4 DEF Octets!InTouch
    <3>2. Octets!Answered(g, c)' = Octets!Answered(g, c)
            /\ Octets!Worth(g, c)' = Octets!Worth(g, c)
      BY <1>1, <2>1 DEF Octets!Answered, Octets!Worth, Octets!Filed
    <3> QED
      BY <1>5, <3>1, <3>2
  <2> QED
    BY <2>2, <2>3, <2>4 DEF Octets!InTouch
<1>10. ASSUME NEW c \in Meters.Clients PROVE Octets!Even(c)'
  <2>1. \A g \in Meters.Handlers : g # h => Octets!Share(g, c)' = Octets!Share(g, c)
    BY <1>1, <1>2 DEF Octets!Share, Octets!Worth, Octets!Answered, Octets!Filed
  <2>2. Octets!Share(h, c) = Octets!Answered(h, c) /\ Octets!Share(h, c)' = 0
    BY <1>1, <1>2 DEF Octets!Share, Octets!NoHandler
  <2>3. Octets!Shares(c)' = (Octets!Shares(c) - Octets!Share(h, c)) + Octets!Share(h, c)'
    BY <1>0, <1>6, <2>1, <2>2, SharesStep
  <2>4. /\ Octets!Shares(c) \in Nat /\ Octets!Pending(c) \in Nat /\ passed[c] \in Nat
           /\ charged[c] \in Nat
        /\ Octets!Answered(h, c) \in Nat
    BY <1>0, <1>6, ShareType, PendingType DEF Octets!Types
  <2>5. Octets!Pending(c)' = Octets!Pending(c)
    BY <1>1 DEF Octets!Pending, Octets!Known, Octets!Filed
  <2>6. Octets!Even(c) /\ UNCHANGED passed
    BY <1>1, <1>6
  <2>7. CASE Octets!Charge(h)
    <3>1. charged'[c] = charged[c] + Octets!Answered(h, c)
      BY <1>3, <2>7
    <3> QED
      BY <1>5, <2>2, <2>3, <2>4, <2>5, <2>6, <3>1 DEF Octets!Even
  <2>8. CASE Octets!Forget(h)
    <3>1. UNCHANGED charged
      BY <1>3, <2>8
    <3>2. lapses' = {} => Octets!Answered(h, c) = 0
      <4>1. lapses' = {} => ~ \E d \in DOMAIN handler[h].delta : handler[h].delta[d] > 0
        BY <2>8 DEF Octets!Forget, Octets!Excused
      <4> QED
        BY <1>0, <4>1 DEF Octets!Answered, Octets!IsAnswer, Octets!IsTotals
    <3> QED
      BY <1>5, <2>2, <2>3, <2>4, <2>5, <2>6, <3>1, <3>2 DEF Octets!Even
  <2> QED
    BY <2>7, <2>8
<1> QED
  BY <1>7, <1>8, <1>9, <1>10

\* Nothing happens.
LEMMA IdleAccounted ==
  ASSUME Octets!AccountedFor, UNCHANGED Octets!vars
  PROVE  Octets!AccountedFor'
<1>1. UNCHANGED <<octets, kept, handler, charged, passed, restarted, lapses>>
  BY DEF Octets!vars
<1>2. Octets!Types'
  BY <1>1 DEF Octets!AccountedFor, Octets!Types, Octets!Known
<1>3. Octets!OneAtWork => Octets!OneAtWork'
  BY <1>1 DEF Octets!OneAtWork, Octets!Busy
<1>4. Octets!Ahead => Octets!Ahead'
  BY <1>1 DEF Octets!Ahead, Octets!Known
<1>5. ASSUME NEW h \in Meters.Handlers
      PROVE  /\ Octets!Busy(h)' <=> Octets!Busy(h)
             /\ Octets!InTouch(h) => Octets!InTouch(h)'
  BY <1>1 DEF Octets!Busy, Octets!InTouch, Octets!Known, Octets!Answered, Octets!Worth,
              Octets!Filed
<1>6. ASSUME NEW c \in Meters.Clients, Octets!Even(c) PROVE Octets!Even(c)'
  BY <1>1, <1>6 DEF Octets!Even, Octets!Shares, Octets!Share, Octets!Worth, Octets!Answered,
                    Octets!Filed, Octets!Pending, Octets!Known
<1> QED
  BY <1>1, <1>2, <1>3, <1>4, <1>5, <1>6 DEF Octets!AccountedFor

\* AccountedFor holds for ever.
THEOREM AccountedInvariant ==
  ASSUME Octets!TotalsAssumption PROVE Octets!Spec => []Octets!AccountedFor
<1>1. Octets!AccountedFor /\ [Octets!Next]_Octets!vars => Octets!AccountedFor'
  BY MovesAccounted, StartsAccounted, FetchAccounted, LoadAccounted, SaveAccounted,
     EndAccounted, IdleAccounted DEF Octets!Next
<1> QED
  BY <1>1, InitAccounted, PTL DEF Octets!Spec

\* The properties of SidecarTraffic follow from it.
LEMMA AccountedCharges ==
  ASSUME Octets!TotalsAssumption, Octets!AccountedFor
  PROVE  Octets!TypeOK /\ Octets!SidecarChargedExactly /\ Octets!NeverChargedTwice
<1>1. Octets!Types
  BY DEF Octets!AccountedFor
<1>2. ASSUME NEW c \in Meters.Clients, Sound
      PROVE  /\ Octets!Shares(c) \in Nat /\ Octets!Pending(c) \in Nat /\ passed[c] \in Nat
             /\ charged[c] \in Nat /\ Octets!Even(c)
  BY <1>1, <1>2, ShareType, PendingType DEF Octets!AccountedFor, Octets!Types, Sound
<1>3. Octets!TypeOK
  BY <1>1 DEF Octets!TypeOK, Octets!Types, Octets!IsTotals, Octets!Known
<1>4. Octets!NeverChargedTwice
  BY <1>2 DEF Octets!NeverChargedTwice, Sound, Octets!Even
<1>5. Octets!SidecarChargedExactly
  <2> SUFFICES ASSUME lapses = {}, \A h \in Meters.Handlers : Octets!Idle(h),
    NEW c \in Meters.Clients
               PROVE  passed[c] = charged[c] + Octets!Pending(c)
    BY DEF Octets!SidecarChargedExactly
  <2>1. Sound
    BY DEF Sound
  <2> DEFINE f == [h \in Meters.Handlers |-> Octets!Share(h, c)]
  <2>2. f \in [Meters.Handlers -> Nat] /\ \A h \in Meters.Handlers : f[h] = 0
    BY DEF Octets!Share, Octets!Idle
  <2>3. Octets!Shares(c) = 0
    <3> HIDE DEF f
    <3>1. Octets!Total(f) = 0
      BY <2>2, TotalZero, FiniteMeters, SameTotals
    <3> QED
      BY <3>1 DEF Octets!Shares, f
  <2> QED
    BY <1>2, <2>1, <2>3 DEF Octets!Even
<1> QED
  BY <1>3, <1>4, <1>5

=============================================================================
