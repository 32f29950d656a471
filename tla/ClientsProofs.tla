--------------------------- MODULE ClientsProofs ---------------------------
(***************************************************************************)
(* Proof of what Clients promises of a panel without workers, for any      *)
(* numbers of clients, inbounds, requests, cut-off goroutines, quotas,     *)
(* dates and ticks: nobody pays twice (EachPaysOnce), all together pay no  *)
(* more than what two fallbacks charge (ChargedWasDelivered), nobody       *)
(* passes his quota (WithinLimit), whoever may connect is served once all  *)
(* is at rest (EntitledIsServed), and whoever may not is served in a known *)
(* way only (OnlyKnownWaysToLinger).                                       *)
(*                                                                         *)
(* Whole rows are read, kept while others write, and saved.  Charged and   *)
(* Limited therefore speak of every copy that may still be saved, the one  *)
(* in the table, those of the goroutines and those of the tick: what has   *)
(* been counted and not charged fits on top of each of them.  Billed says  *)
(* the same of all clients together, where a tick knows the traffic of an  *)
(* inbound only and gives it to one client there: its bills sum up to no   *)
(* more than twice what it has counted.                                    *)
(*                                                                         *)
(* EntitledIsServed and OnlyKnownWaysToLinger speak of the moments when    *)
(* all is at rest.  WillBeServed and WillLeave account for the others: who *)
(* is not where he belongs has been promised to be brought there, by a     *)
(* goroutine about to rebuild the inbound (Due), to add him again (Comes)  *)
(* or to cut him off (Cut), and each step that ends such a promise keeps   *)
(* it.  That the tick saves rows nobody has changed since it read them,    *)
(* unless `lost` says otherwise, is OneTransaction.                        *)
(*                                                                         *)
(* Then what RemoteClients, Subscription and ShareLinks promise, each from *)
(* an invariant of its own.                                                *)
(***************************************************************************)
EXTENDS Clients, Sequences, FiniteSetTheorems, TLAPS

-----------------------------------------------------------------------------
(* Sums over finite sets.  The fold that adds them up is unwound by the    *)
(* smallest set for which a fact fails.                                    *)

\* What FoldFunction adds up over the subsets of a set.
Adds(S, f, g) ==
  g = [s \in SUBSET S |-> IF s = {} THEN 0
                          ELSE f[CHOOSE x \in s : TRUE] + g[s \ {CHOOSE x \in s : TRUE}]]
Upto(f, S) == (CHOOSE g : Adds(S, f, g))[S]

\* Some subset of those chosen from a finite set has no smaller one among them.
LEMMA Smallest ==
  ASSUME NEW S, IsFiniteSet(S), NEW T, T \subseteq SUBSET S, T # {}
  PROVE  \E X \in T : \A Y \in T : Y \subseteq X => Y = X
<1>1. IsWellFoundedOn(StrictSubsetOrdering(S), FiniteSubsetsOf(S))
  BY FS_StrictSubsetOrderingWellFounded
<1>2. T \subseteq FiniteSubsetsOf(S)
  BY FS_Subset DEF FiniteSubsetsOf
<1>3. \E X \in T : \A Y \in T : <<Y, X>> \notin StrictSubsetOrdering(S)
  BY <1>1, <1>2, WFMin
<1> QED
  BY <1>3 DEF StrictSubsetOrdering

\* CHOOSE yields an element.
LEMMA Chosen ==
  ASSUME NEW S, S # {}
  PROVE  (CHOOSE x \in S : TRUE) \in S
OBVIOUS

\* Two such sums agree where both are.
LEMMA AddsAgree ==
  ASSUME NEW S, IsFiniteSet(S), NEW A, A \subseteq S, NEW B, B \subseteq S,
         NEW f, NEW g, NEW h, Adds(A, f, g), Adds(B, f, h)
  PROVE  \A X : X \subseteq A /\ X \subseteq B => g[X] = h[X]
<1> DEFINE T == {X \in SUBSET S : X \subseteq A /\ X \subseteq B /\ g[X] # h[X]}
<1> SUFFICES ASSUME T # {} PROVE FALSE
  OBVIOUS
<1>0. T \subseteq SUBSET S
  OBVIOUS
<1>1. PICK X \in T : \A Y \in T : Y \subseteq X => Y = X
  <2> HIDE DEF T
  <2> QED
    BY <1>0, Smallest
<1>2. g[{}] = 0 /\ h[{}] = 0
  BY DEF Adds
<1>3. X # {}
  BY <1>2
<1> DEFINE x == CHOOSE y \in X : TRUE
<1>4. x \in X /\ X \ {x} \subseteq X /\ X \ {x} # X
  BY <1>3, Chosen
<1>5. g[X \ {x}] = h[X \ {x}]
  <2> HIDE DEF x
  <2>1. X \ {x} \in SUBSET S /\ X \ {x} \subseteq A /\ X \ {x} \subseteq B
    BY <1>1
  <2>2. X \ {x} \notin T
    <3> HIDE DEF T
    <3> QED
      BY <1>1, <1>4
  <2> QED
    BY <2>1, <2>2
<1>6. g[X] = f[x] + g[X \ {x}] /\ h[X] = f[x] + h[X \ {x}]
  BY <1>3 DEF Adds
<1> QED
  BY <1>5, <1>6

\* There is one over every finite set.
LEMMA AddsExist ==
  ASSUME NEW S, IsFiniteSet(S), NEW f
  PROVE  \A X \in SUBSET S : Adds(X, f, CHOOSE g : Adds(X, f, g))
<1> SUFFICES \A X \in SUBSET S : \E g : Adds(X, f, g)
  OBVIOUS
<1> DEFINE T == {X \in SUBSET S : ~ \E g : Adds(X, f, g)}
<1> SUFFICES ASSUME T # {} PROVE FALSE
  OBVIOUS
<1>0. T \subseteq SUBSET S
  OBVIOUS
<1>1. PICK X \in T : \A Y \in T : Y \subseteq X => Y = X
  <2> HIDE DEF T
  <2> QED
    BY <1>0, Smallest
<1> DEFINE some(s) == CHOOSE g : Adds(s, f, g)
           pick(s) == CHOOSE x \in s : TRUE
           full(s) == IF s = {} THEN 0 ELSE f[pick(s)] + some(s \ {pick(s)})[s \ {pick(s)}]
           all == [s \in SUBSET X |-> full(s)]
<1>2. \A s \in SUBSET X : s # X => Adds(s, f, some(s))
  BY <1>1
<1>3. \A s \in SUBSET X : s # {} => pick(s) \in s
  BY Chosen
<1> HIDE DEF some, pick
<1>4. ASSUME NEW s \in SUBSET X, s # X PROVE some(s)[s] = full(s)
  <2>1. Adds(s, f, some(s))
    BY <1>2, <1>4
  <2>2. CASE s = {}
    BY <2>1, <2>2 DEF Adds
  <2>3. CASE s # {}
    <3>1. pick(s) \in s
      BY <1>3, <2>3
    <3>2. Adds(s \ {pick(s)}, f, some(s \ {pick(s)}))
      BY <1>2, <1>4, <3>1
    <3>3. some(s)[s] = f[pick(s)] + some(s)[s \ {pick(s)}]
      BY <2>1, <2>3 DEF Adds, pick
    <3>4. some(s)[s \ {pick(s)}] = some(s \ {pick(s)})[s \ {pick(s)}]
      <4>1. X \subseteq S
        BY <1>1
      <4>3. s \subseteq S /\ s \ {pick(s)} \subseteq S /\ s \ {pick(s)} \subseteq s
        BY <4>1
      <4> QED
        BY <2>1, <3>2, <4>3, AddsAgree
    <3> QED
      BY <2>3, <3>3, <3>4
  <2> QED
    BY <2>2, <2>3
<1>5. ASSUME NEW s \in SUBSET X, s # {}
      PROVE  all[s] = f[pick(s)] + all[s \ {pick(s)}]
  <2>1. pick(s) \in s
    BY <1>3, <1>5
  <2>2. all[s \ {pick(s)}] = full(s \ {pick(s)})
    OBVIOUS
  <2>3. some(s \ {pick(s)})[s \ {pick(s)}] = full(s \ {pick(s)})
    BY <1>4, <2>1
  <2>4. all[s] = f[pick(s)] + some(s \ {pick(s)})[s \ {pick(s)}]
    BY <1>5
  <2> QED
    BY <2>2, <2>3, <2>4
<1>6. all[{}] = 0
  OBVIOUS
<1>7. all = [s \in SUBSET X |-> all[s]]
  OBVIOUS
<1> HIDE DEF all, full
<1>8. Adds(X, f, all)
  BY <1>5, <1>6, <1>7 DEF Adds, pick
<1> QED
  BY <1>1, <1>8

\* The recursion of a sum.
LEMMA UptoNothing ==
  ASSUME NEW f
  PROVE  Upto(f, {}) = 0
<1>1. Adds({}, f, CHOOSE g : Adds({}, f, g))
  BY AddsExist, FS_EmptySet
<1> QED
  BY <1>1 DEF Upto, Adds

AnyOf(S) == CHOOSE x \in S : TRUE

\* A sum is that of the rest and the element chosen.
LEMMA UptoStep ==
  ASSUME NEW S, IsFiniteSet(S), NEW f, S # {}
  PROVE  AnyOf(S) \in S /\ Upto(f, S) = f[AnyOf(S)] + Upto(f, S \ {AnyOf(S)})
<1> DEFINE all == CHOOSE g : Adds(S, f, g)
           rest == CHOOSE g : Adds(S \ {AnyOf(S)}, f, g)
<1>1. AnyOf(S) \in S
  BY Chosen DEF AnyOf
<1>2. Adds(S, f, all) /\ Adds(S \ {AnyOf(S)}, f, rest)
  BY AddsExist
<1>3. all[S] = f[AnyOf(S)] + all[S \ {AnyOf(S)}]
  BY <1>2 DEF Adds, AnyOf
<1> HIDE DEF all, rest
<1>4. PICK R : R = S \ {AnyOf(S)}
  OBVIOUS
<1>5. R \subseteq S
  BY <1>4
<1>6. all[R] = rest[R]
  BY <1>2, <1>4, <1>5, AddsAgree
<1> QED
  BY <1>1, <1>3, <1>4, <1>6 DEF Upto, all, rest

\* A sum of natural numbers is one.
LEMMA UptoType ==
  ASSUME NEW S, IsFiniteSet(S), NEW f, \A x \in S : f[x] \in Nat
  PROVE  Upto(f, S) \in Nat
<1> DEFINE T == {X \in SUBSET S : Upto(f, X) \notin Nat}
<1> SUFFICES ASSUME T # {} PROVE FALSE
  OBVIOUS
<1>1. T \subseteq SUBSET S
  OBVIOUS
<1>2. PICK X \in T : \A Y \in T : Y \subseteq X => Y = X
  <2> HIDE DEF T
  <2> QED
    BY <1>1, Smallest
<1>3. X \in SUBSET S /\ Upto(f, X) \notin Nat /\ IsFiniteSet(X)
  BY <1>2, FS_Subset
<1>4. X # {}
  BY <1>3, UptoNothing
<1>5. AnyOf(X) \in X /\ Upto(f, X) = f[AnyOf(X)] + Upto(f, X \ {AnyOf(X)})
  BY <1>3, <1>4, UptoStep
<1>6. Upto(f, X \ {AnyOf(X)}) \in Nat
  BY <1>2, <1>3, <1>5
<1> QED
  BY <1>3, <1>5, <1>6

\* Sums are added point by point.
LEMMA UptoPlus ==
  ASSUME NEW S, IsFiniteSet(S), NEW f, NEW g, NEW h,
         \A x \in S : g[x] \in Nat /\ h[x] \in Nat /\ f[x] = g[x] + h[x]
  PROVE  Upto(f, S) = Upto(g, S) + Upto(h, S)
<1> DEFINE T == {X \in SUBSET S : Upto(f, X) # Upto(g, X) + Upto(h, X)}
<1> SUFFICES ASSUME T # {} PROVE FALSE
  OBVIOUS
<1>1. T \subseteq SUBSET S
  OBVIOUS
<1>2. PICK X \in T : \A Y \in T : Y \subseteq X => Y = X
  <2> HIDE DEF T
  <2> QED
    BY <1>1, Smallest
<1>3. X \in SUBSET S /\ Upto(f, X) # Upto(g, X) + Upto(h, X) /\ IsFiniteSet(X)
  BY <1>2, FS_Subset
<1>0. IsFiniteSet(X)
  BY <1>3
<1>4. X # {}
  <2>1. Upto(f, {}) = 0 /\ Upto(g, {}) = 0 /\ Upto(h, {}) = 0
    BY UptoNothing
  <2>2. Upto(f, {}) = Upto(g, {}) + Upto(h, {})
    BY <2>1
  <2> HIDE DEF T
  <2> QED
    BY <1>3, <2>2
<1> DEFINE x == AnyOf(X)
           Y == X \ {AnyOf(X)}
<1>5. /\ x \in X /\ Upto(f, X) = f[x] + Upto(f, Y)
      /\ Upto(g, X) = g[x] + Upto(g, Y) /\ Upto(h, X) = h[x] + Upto(h, Y)
  BY <1>0, <1>4, UptoStep
<1>6. Y \in SUBSET S /\ Y # X /\ Y \subseteq X
  BY <1>3, <1>5
<1>7. Upto(f, Y) = Upto(g, Y) + Upto(h, Y)
  BY <1>2, <1>6
<1>8. Upto(g, Y) \in Nat /\ Upto(h, Y) \in Nat
  <2>1. IsFiniteSet(Y)
    BY <1>6, FS_Subset
  <2> HIDE DEF Y
  <2> QED
    BY <1>6, <2>1, UptoType
<1> HIDE DEF x, Y
<1> QED
  BY <1>3, <1>5, <1>7, <1>8

\* A sum of zeros, but for one.
LEMMA UptoPoint ==
  ASSUME NEW S, IsFiniteSet(S), NEW f, NEW a, \A x \in S : x # a => f[x] = 0,
         a \in S => f[a] \in Nat
  PROVE  /\ a \in S => Upto(f, S) = f[a]
         /\ a \notin S => Upto(f, S) = 0
<1> DEFINE hit(X) == IF a \in X THEN f[a] ELSE 0
           T == {X \in SUBSET S : Upto(f, X) # hit(X)}
<1> SUFFICES ASSUME T # {} PROVE FALSE
  OBVIOUS
<1>1. T \subseteq SUBSET S
  OBVIOUS
<1>2. PICK X \in T : \A Y \in T : Y \subseteq X => Y = X
  <2> HIDE DEF T
  <2> QED
    BY <1>1, Smallest
<1>3. X \in SUBSET S /\ Upto(f, X) # hit(X) /\ IsFiniteSet(X)
  BY <1>2, FS_Subset
<1>4. X # {}
  BY <1>3, UptoNothing
<1> DEFINE x == AnyOf(X)
           Y == X \ {AnyOf(X)}
<1>5. x \in X /\ Upto(f, X) = f[x] + Upto(f, Y)
  BY <1>3, <1>4, UptoStep
<1>6. Y \in SUBSET S /\ Y # X /\ Y \subseteq X
  BY <1>3, <1>5
<1>7. Upto(f, Y) = hit(Y)
  BY <1>2, <1>6
<1>8. hit(X) = f[x] + hit(Y)
  BY <1>3, <1>5
<1> QED
  BY <1>3, <1>5, <1>7, <1>8

\* Equal terms have equal sums.
LEMMA UptoSame ==
  ASSUME NEW S, IsFiniteSet(S), NEW f, NEW g, \A x \in S : f[x] = g[x] /\ f[x] \in Nat
  PROVE  Upto(f, S) = Upto(g, S)
<1> DEFINE z == [x \in S |-> 0]
<1>1. Upto(z, S) = 0
  <2>1. {x \in S : x \notin x} \notin S
    OBVIOUS
  <2>3. PICK a : a \notin S
    BY <2>1
  <2> HIDE DEF z
  <2>2. \A x \in S : z[x] = 0
    BY DEF z
  <2> QED
    BY <2>3, <2>2, UptoPoint
<1>2. \A x \in S : g[x] \in Nat /\ z[x] \in Nat /\ f[x] = g[x] + z[x]
  OBVIOUS
<1> HIDE DEF z
<1>3. Upto(f, S) = Upto(g, S) + Upto(z, S)
  BY <1>2, UptoPlus
<1>4. Upto(g, S) \in Nat
  BY <1>2, UptoType
<1> QED
  BY <1>1, <1>3, <1>4

\* One of the values changed.
LEMMA UptoChange ==
  ASSUME NEW S, IsFiniteSet(S), NEW f, NEW g, NEW a \in S,
         \A x \in S : f[x] \in Nat /\ g[x] \in Nat /\ (x # a => g[x] = f[x])
  PROVE  Upto(g, S) = (Upto(f, S) - f[a]) + g[a]
<1> DEFINE base == [x \in S |-> IF x = a THEN 0 ELSE f[x]]
           old == [x \in S |-> IF x = a THEN f[a] ELSE 0]
           new == [x \in S |-> IF x = a THEN g[a] ELSE 0]
<1>1. \A x \in S : /\ base[x] \in Nat /\ old[x] \in Nat /\ new[x] \in Nat
                   /\ f[x] = base[x] + old[x] /\ g[x] = base[x] + new[x]
                   /\ x # a => (old[x] = 0 /\ new[x] = 0)
  OBVIOUS
<1>2. old[a] = f[a] /\ new[a] = g[a]
  OBVIOUS
<1> HIDE DEF base, old, new
<1>3. Upto(f, S) = Upto(base, S) + Upto(old, S)
  BY <1>1, UptoPlus
<1>4. Upto(g, S) = Upto(base, S) + Upto(new, S)
  BY <1>1, UptoPlus
<1>5. Upto(old, S) = f[a] /\ Upto(new, S) = g[a]
  BY <1>1, <1>2, UptoPoint
<1>6. Upto(base, S) \in Nat /\ f[a] \in Nat /\ g[a] \in Nat
  BY <1>1, UptoType
<1> QED
  BY <1>3, <1>4, <1>5, <1>6

\* Smaller values, a smaller sum.
LEMMA UptoMost ==
  ASSUME NEW S, IsFiniteSet(S), NEW f, NEW g,
         \A x \in S : f[x] \in Nat /\ g[x] \in Nat /\ f[x] <= g[x]
  PROVE  Upto(f, S) <= Upto(g, S)
<1> DEFINE d == [x \in S |-> g[x] - f[x]]
<1>1. \A x \in S : f[x] \in Nat /\ d[x] \in Nat /\ g[x] = f[x] + d[x]
  OBVIOUS
<1> HIDE DEF d
<1>2. Upto(g, S) = Upto(f, S) + Upto(d, S)
  BY <1>1, UptoPlus
<1>3. Upto(f, S) \in Nat /\ Upto(d, S) \in Nat
  BY <1>1, UptoType
<1> QED
  BY <1>2, <1>3

\* The same, in one word.
OnlyAt(a, S, f, g) ==
  a \in S /\ \A x \in S : f[x] \in Nat /\ g[x] \in Nat /\ (x # a => g[x] = f[x])
LEMMA UptoOnlyAt ==
  ASSUME NEW S, IsFiniteSet(S), NEW f, NEW g, NEW a, OnlyAt(a, S, f, g)
  PROVE  Upto(g, S) = (Upto(f, S) - f[a]) + g[a]
<1>1. a \in S /\ \A x \in S : f[x] \in Nat /\ g[x] \in Nat /\ (x # a => g[x] = f[x])
  BY DEF OnlyAt
<1> QED
  BY <1>1, UptoChange

\* h gives each term of e that counts, those over Q, to a term of f no smaller.
Into(h, Q, S, e, f) ==
  /\ Q \subseteq S /\ \A x \in S : e[x] \in Nat /\ f[x] \in Nat
  /\ \A x \in Q : h[x] \in S /\ e[x] <= f[h[x]]
  /\ \A x, y \in Q : h[x] = h[y] => x = y
  /\ \A x \in S \ Q : e[x] = 0

\* Terms given to others, no two to the same, sum up to no more than those.
LEMMA UptoInto ==
  ASSUME NEW S, IsFiniteSet(S), NEW e, NEW f, NEW Q, NEW h, Into(h, Q, S, e, f)
  PROVE  Upto(e, S) <= Upto(f, S)
<1> DEFINE im(X) == {h[x] : x \in X \cap Q}
           mask(X) == [y \in S |-> IF y \in im(X) THEN f[y] ELSE 0]
           T == {X \in SUBSET S : ~(Upto(e, X) <= Upto(mask(X), S))}
<1>0. \A X \in SUBSET S : \A y \in S : mask(X)[y] \in Nat /\ mask(X)[y] <= f[y]
  BY DEF Into
<1>1. T = {}
  <2> SUFFICES ASSUME T # {} PROVE FALSE
    OBVIOUS
  <2>0. T \subseteq SUBSET S
    OBVIOUS
  <2>1. PICK X \in T : \A Y \in T : Y \subseteq X => Y = X
    <3> HIDE DEF T
    <3> QED
      BY <2>0, Smallest
  <2>2. X \in SUBSET S /\ ~(Upto(e, X) <= Upto(mask(X), S)) /\ IsFiniteSet(X)
    BY <2>1, FS_Subset
  <2>3. \A Y \in SUBSET S : Upto(mask(Y), S) \in Nat
    <3> HIDE DEF mask
    <3> QED
      BY <1>0, UptoType
  <2>4. X # {}
    <3>1. Upto(e, {}) = 0
      BY UptoNothing
    <3> HIDE DEF mask
    <3> QED
      BY <2>2, <2>3, <3>1
  <2> DEFINE Y == X \ {AnyOf(X)}
  <2>5. PICK x : x = AnyOf(X)
    OBVIOUS
  <2>6. x \in X /\ Upto(e, X) = e[x] + Upto(e, Y)
    BY <2>2, <2>4, <2>5, UptoStep
  <2>7. Y \in SUBSET S /\ Y # X /\ Y \subseteq X /\ Y = X \ {x}
    BY <2>2, <2>5, <2>6
  <2>8. Upto(e, Y) <= Upto(mask(Y), S)
    <3> HIDE DEF mask, Y
    <3> QED
      BY <2>1, <2>7
  <2>9. Upto(e, Y) \in Nat /\ e[x] \in Nat
    <3>1. IsFiniteSet(Y) /\ x \in S
      BY <2>2, <2>6, <2>7, FS_Subset
    <3>2. \A z \in S : e[z] \in Nat
      BY DEF Into
    <3> HIDE DEF Y
    <3>3. \A z \in Y : e[z] \in Nat
      BY <2>7, <3>2
    <3> QED
      BY <3>1, <3>2, <3>3, UptoType
  <2> HIDE DEF Y
  <2>10. CASE x \in Q
    <3>1. PICK a : a = h[x]
      OBVIOUS
    <3>2. a \in S /\ e[x] <= f[a] /\ f[a] \in Nat
      BY <2>10, <3>1 DEF Into
    <3>3. im(X) = im(Y) \cup {a} /\ a \notin im(Y)
      BY <2>2, <2>6, <2>7, <2>10, <3>1 DEF Into
    <3>4. /\ mask(X)[a] = f[a] /\ mask(Y)[a] = 0
          /\ \A y \in S : y # a => mask(X)[y] = mask(Y)[y]
      BY <3>2, <3>3
    <3> HIDE DEF mask, im
    <3>5. Upto(mask(X), S) = (Upto(mask(Y), S) - mask(Y)[a]) + mask(X)[a]
      <4>1. PICK more, less : more = mask(X) /\ less = mask(Y)
        OBVIOUS
      <4>2. OnlyAt(a, S, less, more)
        BY <1>0, <2>2, <2>7, <3>2, <3>4, <4>1 DEF OnlyAt
      <4>3. Upto(more, S) = (Upto(less, S) - less[a]) + more[a]
        BY <4>2, UptoOnlyAt
      <4> QED
        BY <4>1, <4>3
    <3> QED
      BY <2>2, <2>3, <2>6, <2>7, <2>8, <2>9, <3>2, <3>4, <3>5
  <2>11. CASE x \notin Q
    <3>1. im(X) = im(Y)
      BY <2>7, <2>11
    <3>2. mask(X) = mask(Y)
      BY <3>1
    <3>3. e[x] = 0
      BY <2>2, <2>6, <2>11 DEF Into
    <3> HIDE DEF mask, im
    <3> QED
      BY <2>2, <2>3, <2>6, <2>8, <2>9, <3>2, <3>3
  <2> QED
    BY <2>10, <2>11
<1>2. Upto(e, S) <= Upto(mask(S), S)
  <2>1. S \notin T
    BY <1>1
  <2> QED
    BY <2>1
<1>5. \A x \in S : e[x] \in Nat /\ f[x] \in Nat
  BY DEF Into
<1>3. Upto(mask(S), S) <= Upto(f, S)
  <2> HIDE DEF mask
  <2> QED
    BY <1>0, <1>5, UptoMost
<1>4. Upto(e, S) \in Nat /\ Upto(mask(S), S) \in Nat /\ Upto(f, S) \in Nat
  <2> HIDE DEF mask
  <2> QED
    BY <1>0, <1>5, UptoType
<1> HIDE DEF mask
<1> QED
  BY <1>2, <1>3, <1>4

-----------------------------------------------------------------------------
(* What a step does to the goroutines.                                     *)

Typed == ClientsAssumption /\ TypeOK /\ Shapes

\* A goroutine goes on, and no other does.
Turns(w) ==
  /\ work' \in [Workers -> Jobs]
  /\ \A v \in Workers \ {w} : work'[v] = work[v]

\* No work and no row.
LEMMA NothingThere ==
  ASSUME ClientsAssumption
  PROVE  /\ Absent \in Rows /\ Absent.used = 0 /\ Absent.limit = 0 /\ Absent.status = "none"
         /\ ~Absent.enable
         /\ NoWork \in Jobs /\ WellFormed(NoWork) /\ NoWork.pc = "idle" /\ NoWork.c = {}
         /\ NoWork.old = Absent /\ NoWork.todo = {} /\ NoWork.snap = {} /\ ~NoWork.restart
<1>1. Absent \in Rows /\ Absent.used = 0 /\ Absent.limit = 0 /\ Absent.status = "none"
      /\ ~Absent.enable
  BY DEF ClientsAssumption, Absent, Rows
<1> QED
  BY <1>1 DEF NoWork, Jobs, WellFormed, AboutOne, Steps

\* A goroutine is given other work.
LEMMA GivenWork ==
  ASSUME Typed, NEW w \in Workers, NEW j \in Jobs, WellFormed(j),
         work' = [work EXCEPT ![w] = j]
  PROVE  Turns(w) /\ work'[w] = j /\ \A v \in Workers : WellFormed(work'[v])
BY DEF Typed, Shapes, Turns

\* The client a goroutine is about.
LEMMA AboutIt ==
  ASSUME Typed, NEW w \in Workers, work[w].pc \in AboutOne
  PROVE  TheClient(w) \in Clients /\ work[w].c = {TheClient(w)}
<1>1. PICK c \in Clients : work[w].c = {c}
  BY DEF Typed, Shapes, WellFormed
<1> QED
  BY <1>1 DEF TheClient

\* The row of a client.
LEMMA ARow ==
  ASSUME Typed, NEW c \in Clients
  PROVE  /\ row[c] \in Rows /\ on[c] \in SUBSET Inbounds /\ row \in [Clients -> Rows]
         /\ on \in [Clients -> SUBSET Inbounds]
BY DEF Typed, TypeOK

LEMMA ReadMembersDoes ==
  ASSUME Typed, NEW w \in Workers, ReadMembers(w)
  PROVE  /\ Turns(w) /\ \A v \in Workers : WellFormed(work'[v])
         /\ work[w].pc \in {"next", "bulk"}
         /\ \E i \in work[w].todo :
              /\ i \in Inbounds
              /\ work'[w].snap = {<<i, Members(i)>>} /\ work'[w].todo = work[w].todo \ {i}
              /\ work'[w].pc = IF work[w].pc = "bulk" THEN "bulkwrite" ELSE "write"
              /\ work'[w].c = work[w].c /\ work'[w].old = work[w].old
<1>1. PICK i \in work[w].todo :
        work' = [work EXCEPT ![w].snap = {<<i, Members(i)>>},
                            ![w].todo = @ \ {i},
                            ![w].pc = IF @ = "bulk" THEN "bulkwrite" ELSE "write"]
  BY DEF ReadMembers
<1>2. i \in Inbounds /\ Members(i) \in SUBSET Clients
  BY DEF Typed, Shapes, Jobs, Members
<1> DEFINE j == [work[w] EXCEPT !.snap = {<<i, Members(i)>>}, !.todo = @ \ {i},
                                !.pc = IF @ = "bulk" THEN "bulkwrite" ELSE "write"]
<1>3. work[w] \in Jobs /\ WellFormed(work[w]) /\ work[w].pc \in {"next", "bulk"}
  BY DEF Typed, Shapes, ReadMembers
<1>4. /\ j \in Jobs /\ j.snap = {<<i, Members(i)>>} /\ j.todo = work[w].todo \ {i}
      /\ j.pc = (IF work[w].pc = "bulk" THEN "bulkwrite" ELSE "write")
      /\ j.c = work[w].c /\ j.old = work[w].old
  <2>1. {<<i, Members(i)>>} \in SUBSET (Inbounds \X SUBSET Clients)
    BY <1>2
  <2>2. work[w].todo \ {i} \in SUBSET Inbounds
    BY <1>3 DEF Jobs
  <2>3. (IF work[w].pc = "bulk" THEN "bulkwrite" ELSE "write") \in Steps
    BY DEF Steps
  <2> QED
    BY <1>3, <2>1, <2>2, <2>3 DEF Jobs
<1>5. work' = [work EXCEPT ![w] = j]
  BY <1>1
<1> HIDE DEF j
<1>6. WellFormed(j)
  BY <1>2, <1>3, <1>4 DEF WellFormed, AboutOne
<1> QED
  BY <1>2, <1>3, <1>4, <1>5, <1>6, GivenWork

LEMMA RebuildDoes ==
  ASSUME Typed, NEW w \in Workers, Rebuild(w)
  PROVE  /\ Turns(w) /\ \A v \in Workers : WellFormed(work'[v])
         /\ work[w].pc \in {"write", "bulkwrite"}
         /\ work'[w].snap = {} /\ work'[w].todo = work[w].todo
         /\ work'[w].pc = IF work[w].pc = "bulkwrite" THEN "bulk" ELSE "next"
         /\ work'[w].c = work[w].c /\ work'[w].old = work[w].old
         /\ \E i \in Inbounds, M \in SUBSET Clients :
              /\ work[w].snap = {<<i, M>>}
              /\ settings' = [settings EXCEPT ![i] = M] /\ core' = [core EXCEPT ![i] = M]
              /\ lost' = (lost \/ M # Members(i)) /\ stray' = {p \in stray : p[2] # i}
<1> DEFINE j == [work[w] EXCEPT !.snap = {}, !.pc = IF @ = "bulkwrite" THEN "bulk" ELSE "next"]
<1>1. work' = [work EXCEPT ![w] = j]
  BY DEF Rebuild
<1>2. work[w] \in Jobs /\ WellFormed(work[w]) /\ work[w].pc \in {"write", "bulkwrite"}
  BY DEF Typed, Shapes, Rebuild
<1>3. /\ j \in Jobs /\ j.snap = {} /\ j.todo = work[w].todo
      /\ j.pc = (IF work[w].pc = "bulkwrite" THEN "bulk" ELSE "next")
      /\ j.c = work[w].c /\ j.old = work[w].old
  BY <1>2 DEF Jobs, Steps
<1> HIDE DEF j
<1>4. WellFormed(j)
  BY <1>2, <1>3 DEF WellFormed, AboutOne
<1>5. PICK i \in Inbounds, M \in SUBSET Clients : work[w].snap = {<<i, M>>}
  BY <1>2 DEF WellFormed
<1>6. /\ settings' = [settings EXCEPT ![i] = M] /\ core' = [core EXCEPT ![i] = M]
      /\ lost' = (lost \/ M # Members(i)) /\ stray' = {p \in stray : p[2] # i}
  <2>1. PICK s \in work[w].snap :
          /\ settings' = [settings EXCEPT ![s[1]] = s[2]]
          /\ core' = [core EXCEPT ![s[1]] = s[2]]
          /\ lost' = (lost \/ s[2] # Members(s[1]))
          /\ stray' = {p \in stray : p[2] # s[1]}
    BY DEF Rebuild
  <2>2. s = <<i, M>> /\ s[1] = i /\ s[2] = M
    BY <1>5, <2>1
  <2>3. Members(s[1]) = Members(i)
    BY <2>2
  <2>4. lost' = (lost \/ M # Members(i))
    BY <2>1, <2>2, <2>3
  <2> QED
    BY <2>1, <2>2, <2>4
<1> QED
  BY <1>1, <1>2, <1>3, <1>4, <1>5, <1>6, GivenWork

LEMMA FinishDoes ==
  ASSUME Typed, NEW w \in Workers, Finish(w)
  PROVE  /\ Turns(w) /\ \A v \in Workers : WellFormed(work'[v])
         /\ work'[w] = NoWork /\ work[w].pc = "next" /\ work[w].todo = {}
BY NothingThere, GivenWork DEF Typed, Finish

LEMMA CutReadDoes ==
  ASSUME Typed, NEW w \in Workers, CutRead(w)
  PROVE  /\ Turns(w) /\ \A v \in Workers : WellFormed(work'[v])
         /\ TheClient(w) \in Clients /\ work[w].c = {TheClient(w)} /\ work[w].pc = "cut"
         /\ work'[w].old = row[TheClient(w)] /\ work'[w].c = work[w].c
         /\ work'[w].pc = IF row[TheClient(w)] = Absent THEN "next" ELSE "cutsave"
         /\ work'[w].todo = work[w].todo /\ work'[w].snap = work[w].snap
<1> DEFINE pc == IF row[TheClient(w)] = Absent THEN "next" ELSE "cutsave"
           j == [work[w] EXCEPT !.old = row[TheClient(w)], !.pc = pc]
<1>1. work' = [work EXCEPT ![w] = j] /\ work[w].pc = "cut"
  BY DEF CutRead
<1>2. TheClient(w) \in Clients /\ work[w].c = {TheClient(w)}
  BY <1>1, AboutIt DEF AboutOne
<1>3. row[TheClient(w)] \in Rows /\ pc \in Steps \ {"write", "bulkwrite"}
  BY <1>2, ARow DEF Steps
<1>4. work[w] \in Jobs /\ work[w].snap = {}
  BY <1>1 DEF Typed, Shapes, WellFormed
<1>5. pc = IF row[TheClient(w)] = Absent THEN "next" ELSE "cutsave"
  OBVIOUS
<1> HIDE DEF pc
<1>6. /\ j \in Jobs /\ j.old = row[TheClient(w)] /\ j.pc = pc /\ j.c = work[w].c
      /\ j.todo = work[w].todo /\ j.snap = work[w].snap
  BY <1>3, <1>4 DEF Jobs
<1> HIDE DEF j
<1>7. WellFormed(j)
  <2>1. pc \in {"next", "cutsave"}
    BY <1>5
  <2> QED
    BY <1>2, <1>4, <1>6, <2>1 DEF WellFormed
<1> QED
  BY <1>1, <1>2, <1>5, <1>6, <1>7, GivenWork

LEMMA CutSaveDoes ==
  ASSUME Typed, NEW w \in Workers, CutSave(w)
  PROVE  /\ Turns(w) /\ \A v \in Workers : WellFormed(work'[v])
         /\ TheClient(w) \in Clients /\ work[w].c = {TheClient(w)} /\ work[w].pc = "cutsave"
         /\ work'[w].old = Absent /\ work'[w].c = work[w].c /\ work'[w].pc = "next"
         /\ work'[w].todo = work[w].todo /\ work'[w].snap = work[w].snap
         /\ row' \in [Clients -> Rows]
         /\ \A c \in Clients \ {TheClient(w)} : row'[c] = row[c]
         /\ row'[TheClient(w)].used = work[w].old.used
         /\ row'[TheClient(w)].limit = work[w].old.limit
         /\ row'[TheClient(w)].enable = work[w].old.enable
         /\ row'[TheClient(w)].status \in Expired \cup {work[w].old.status}
<1> DEFINE j == [work[w] EXCEPT !.pc = "next", !.old = Absent]
           c == TheClient(w)
           old == work[w].old
           status == IF old.status \in Expired THEN old.status
                     ELSE IF Exceeded(old) THEN "expired_traffic"
                     ELSE IF Late(old) THEN "expired_time" ELSE old.status
           new == [old EXCEPT !.status = status]
<1>1. work' = [work EXCEPT ![w] = j] /\ work[w].pc = "cutsave" /\ row' = [row EXCEPT ![c] = new]
  BY DEF CutSave
<1>2. c \in Clients /\ work[w].c = {c}
  BY <1>1, AboutIt DEF AboutOne
<1>3. work[w] \in Jobs /\ old \in Rows /\ work[w].snap = {}
  BY <1>1 DEF Typed, Shapes, Jobs, WellFormed
<1>4. /\ j \in Jobs /\ j.old = Absent /\ j.pc = "next" /\ j.c = work[w].c
      /\ j.todo = work[w].todo /\ j.snap = work[w].snap
  BY <1>3, NothingThere DEF Jobs, Steps, Typed
<1>5. status \in Expired \cup {old.status} /\ status \in Expired \cup {"none", "active"}
  BY <1>3 DEF Rows, Expired
<1> HIDE DEF status
<1>6. /\ new \in Rows /\ new.used = old.used /\ new.limit = old.limit
      /\ new.enable = old.enable /\ new.status = status
  BY <1>3, <1>5 DEF Rows
<1> HIDE DEF j, new
<1>7. WellFormed(j)
  BY <1>3, <1>4 DEF WellFormed, AboutOne
<1>8. row' \in [Clients -> Rows] /\ row'[c] = new /\ \A d \in Clients \ {c} : row'[d] = row[d]
  BY <1>1, <1>2, <1>6, ARow
<1> QED
  BY <1>1, <1>2, <1>4, <1>5, <1>6, <1>7, <1>8, GivenWork

\* A request that has read the client it is about.
LEMMA OpenDoes ==
  ASSUME Typed, NEW w \in Workers, NEW c \in Clients,
         NEW pc \in {"update", "reset", "bulkreset", "assign"}, Open(w, c, pc)
  PROVE  /\ Turns(w) /\ \A v \in Workers : WellFormed(work'[v])
         /\ work[w] = NoWork
         /\ work'[w].pc = pc /\ work'[w].c = {c} /\ work'[w].old = row[c]
         /\ work'[w].snap = {}
         /\ pc # "assign" => work'[w].todo = {}
<1> DEFINE todo == IF pc = "assign" THEN on[c] ELSE {}
           j == [NoWork EXCEPT !.pc = pc, !.c = {c}, !.old = row[c], !.todo = todo]
<1>1. work' = [work EXCEPT ![w] = j] /\ work[w] = NoWork
  BY DEF Open
<1>2. todo \in SUBSET Inbounds /\ (pc # "assign" => todo = {})
  BY ARow
<1>3. row[c] \in Rows /\ pc \in Steps \ {"write", "bulkwrite"}
  BY ARow DEF Steps
<1> HIDE DEF todo
<1>4. /\ j \in Jobs /\ j.pc = pc /\ j.c = {c} /\ j.old = row[c] /\ j.todo = todo
      /\ j.snap = {}
  BY <1>2, <1>3, NothingThere DEF Jobs, Typed
<1> HIDE DEF j
<1>5. WellFormed(j)
  BY <1>2, <1>3, <1>4 DEF WellFormed
<1> QED
  BY <1>1, <1>2, <1>4, <1>5, GivenWork

\* A goroutine that only has inbounds to rebuild, or nothing to do.
LEMMA HasToRebuild ==
  ASSUME Typed, NEW w \in Workers, NEW j, NEW T \in SUBSET Inbounds, NEW b \in BOOLEAN,
         j \in {[NoWork EXCEPT !.pc = "next", !.todo = T],
                [NoWork EXCEPT !.pc = "next", !.todo = T, !.restart = b]},
         work' = [work EXCEPT ![w] = j]
  PROVE  /\ Turns(w) /\ \A v \in Workers : WellFormed(work'[v])
         /\ work'[w].pc = "next" /\ work'[w].c = {} /\ work'[w].old = Absent
         /\ work'[w].snap = {} /\ work'[w].todo = T
<1>1. /\ j \in Jobs /\ j.pc = "next" /\ j.c = {} /\ j.old = Absent /\ j.snap = {}
      /\ j.todo = T
  BY NothingThere DEF Jobs, Typed, Steps
<1>2. WellFormed(j)
  BY <1>1 DEF WellFormed, AboutOne
<1> QED
  BY <1>1, <1>2, GivenWork

LEMMA AddClientDoes ==
  ASSUME Typed, NEW w \in Workers, NEW c \in Clients, AddClient(w, c)
  PROVE  /\ Turns(w) /\ \A v \in Workers : WellFormed(work'[v])
         /\ work[w] = NoWork /\ row[c].status = "none"
         /\ work'[w].pc = "next" /\ work'[w].c = {} /\ work'[w].old = Absent
         /\ work'[w].snap = {}
         /\ row' \in [Clients -> Rows] /\ on' \in [Clients -> SUBSET Inbounds]
         /\ row'[c].used = 0 /\ on'[c] = work'[w].todo
         /\ \A d \in Clients \ {c} : row'[d] = row[d] /\ on'[d] = on[d]
<1>1. PICK l \in Limits, t \in Dates, S \in SUBSET Inbounds :
        /\ row' = [row EXCEPT ![c] = [Absent EXCEPT !.enable = TRUE,
                            !.status = "active", !.limit = l, !.until = t]]
        /\ on' = [on EXCEPT ![c] = S]
        /\ work' = [work EXCEPT ![w] = [NoWork EXCEPT !.pc = "next", !.todo = S]]
  BY DEF AddClient
<1> DEFINE new == [Absent EXCEPT !.enable = TRUE, !.status = "active", !.limit = l, !.until = t]
           j == [NoWork EXCEPT !.pc = "next", !.todo = S]
<1>2. new \in Rows /\ new.used = 0
  BY NothingThere DEF Rows, Absent, Typed, ClientsAssumption
<1>4. work' = [work EXCEPT ![w] = j]
  BY <1>1
<1>5. /\ Turns(w) /\ \A v \in Workers : WellFormed(work'[v])
      /\ work'[w].pc = "next" /\ work'[w].c = {} /\ work'[w].old = Absent
      /\ work'[w].snap = {} /\ work'[w].todo = S
  <2>1. FALSE \in BOOLEAN /\ j = [NoWork EXCEPT !.pc = "next", !.todo = S]
    OBVIOUS
  <2> HIDE DEF j
  <2> QED
    BY <1>4, <2>1, HasToRebuild
<1> HIDE DEF new, j
<1>6. /\ row' \in [Clients -> Rows] /\ on' \in [Clients -> SUBSET Inbounds]
      /\ row'[c] = new /\ on'[c] = S
      /\ \A d \in Clients \ {c} : row'[d] = row[d] /\ on'[d] = on[d]
  BY <1>1, <1>2, ARow DEF new
<1> QED
  BY <1>2, <1>5, <1>6 DEF AddClient

LEMMA UpdateRowDoes ==
  ASSUME Typed, NEW w \in Workers, UpdateRow(w)
  PROVE  /\ Turns(w) /\ \A v \in Workers : WellFormed(work'[v])
         /\ TheClient(w) \in Clients /\ work[w].c = {TheClient(w)}
         /\ work[w].pc \in {"update", "assign"}
         /\ work'[w].pc = "next" /\ work'[w].c = {} /\ work'[w].old = Absent
         /\ work'[w].snap = {}
         /\ row' \in [Clients -> Rows] /\ on' \in [Clients -> SUBSET Inbounds]
         /\ work'[w].todo = on[TheClient(w)] \cup on'[TheClient(w)]
         /\ \A d \in Clients \ {TheClient(w)} : row'[d] = row[d] /\ on'[d] = on[d]
         /\ row'[TheClient(w)].used = row[TheClient(w)].used
         /\ \/ row' = row /\ row[TheClient(w)].status = "none"
            \/ /\ row[TheClient(w)].status # "none"
               /\ row'[TheClient(w)].status \in {"active", work[w].old.status}
               /\ row'[TheClient(w)].limit > 0 /\ row'[TheClient(w)].used > row'[TheClient(w)].limit
                    => TheClient(w) \in lowered'
         /\ lowered \subseteq lowered'
<1> DEFINE c == TheClient(w)
           old == work[w].old
<1>1. work[w].pc \in {"update", "assign"}
  BY DEF UpdateRow
<1>2. c \in Clients /\ work[w].c = {c}
  BY <1>1, AboutIt DEF AboutOne
<1>3. PICK form \in Submitted(old), S \in SUBSET Inbounds :
        LET new == [form EXCEPT !.used = row[c].used]
            revived == old.status \in Expired /\ ~Over(new) /\ new.enable
        IN /\ row' = IF row[c].status = "none" THEN row
                     ELSE [row EXCEPT ![c] = [new EXCEPT !.status =
                             IF revived THEN "active" ELSE @]]
           /\ on' = [on EXCEPT ![c] = S]
           /\ work' = [work EXCEPT ![w] = [NoWork EXCEPT !.pc = "next",
                                             !.todo = on[c] \cup S]]
           /\ lowered' = IF new.limit > 0 /\ new.used > new.limit
                         THEN lowered \cup {c} ELSE lowered
  BY DEF UpdateRow
<1>4. old \in Rows /\ row[c] \in Rows /\ on[c] \in SUBSET Inbounds
  BY <1>2, ARow DEF Typed, Shapes, Jobs
<1>5. form \in Rows /\ form.status = old.status
  BY <1>4 DEF Submitted, Rows
<1> DEFINE new == [form EXCEPT !.used = row[c].used]
           status == IF old.status \in Expired /\ ~Over(new) /\ new.enable
                     THEN "active" ELSE new.status
           done == [new EXCEPT !.status = status]
           j == [NoWork EXCEPT !.pc = "next", !.todo = on[c] \cup S]
<1>6. new \in Rows /\ new.status = old.status /\ new.used = row[c].used
  BY <1>4, <1>5 DEF Rows
<1>7. status \in {"active", old.status}
  BY <1>6
<1>8. /\ row' = IF row[c].status = "none" THEN row ELSE [row EXCEPT ![c] = done]
      /\ lowered' = IF new.limit > 0 /\ new.used > new.limit THEN lowered \cup {c} ELSE lowered
  BY <1>3
<1> HIDE DEF new, status
<1>9. /\ done \in Rows /\ done.status = status /\ done.used = row[c].used
      /\ done.limit = new.limit
  BY <1>6, <1>7, <1>4 DEF Rows
<1>11. /\ Turns(w) /\ \A v \in Workers : WellFormed(work'[v])
       /\ work'[w].pc = "next" /\ work'[w].c = {} /\ work'[w].old = Absent
       /\ work'[w].snap = {} /\ work'[w].todo = on[c] \cup S
  <2>1. FALSE \in BOOLEAN /\ on[c] \cup S \in SUBSET Inbounds
        /\ j = [NoWork EXCEPT !.pc = "next", !.todo = on[c] \cup S]
    BY <1>4
  <2>2. work' = [work EXCEPT ![w] = j]
    BY <1>3
  <2> HIDE DEF j
  <2> QED
    BY <2>1, <2>2, HasToRebuild
<1> HIDE DEF done, j
<1>12. /\ on' \in [Clients -> SUBSET Inbounds] /\ on'[c] = S
       /\ \A d \in Clients \ {c} : on'[d] = on[d]
  BY <1>2, <1>3, ARow
<1>13. CASE row[c].status = "none"
  BY <1>1, <1>2, <1>4, <1>8, <1>11, <1>12, <1>13, ARow
<1>14. CASE row[c].status # "none"
  <2>1. /\ row' \in [Clients -> Rows] /\ row'[c] = done
        /\ \A d \in Clients \ {c} : row'[d] = row[d]
    BY <1>2, <1>8, <1>9, <1>14, ARow
  <2>2. new.used = row[c].used
    BY <1>6
  <2> QED
    BY <1>1, <1>2, <1>7, <1>8, <1>9, <1>11, <1>12, <1>14, <2>1, <2>2
<1> QED
  BY <1>13, <1>14

LEMMA ResetRowDoes ==
  ASSUME Typed, NEW w \in Workers, ResetRow(w)
  PROVE  /\ Turns(w) /\ \A v \in Workers : WellFormed(work'[v])
         /\ TheClient(w) \in Clients /\ work[w].c = {TheClient(w)}
         /\ work[w].pc \in {"reset", "bulkreset"}
         /\ work'[w].old = Absent /\ work'[w].snap = {} /\ work'[w].todo = {}
         /\ work'[w].c \subseteq work[w].c
         /\ row' \in [Clients -> Rows]
         /\ \A d \in Clients \ {TheClient(w)} : row'[d] = row[d]
         /\ \/ row' = row /\ row[TheClient(w)].status = "none"
            \/ /\ row[TheClient(w)].status # "none"
               /\ row'[TheClient(w)].used = 0
               /\ row'[TheClient(w)].limit = row[TheClient(w)].limit
               /\ row'[TheClient(w)].enable = row[TheClient(w)].enable
               /\ \/ row'[TheClient(w)].status = row[TheClient(w)].status
                  \/ /\ row'[TheClient(w)].status = "active"
                     /\ work[w].old.enable =>
                          work'[w].pc = "readd" /\ work'[w].c = {TheClient(w)}
         /\ work'[w].pc \in {"idle", "readd"}
<1> DEFINE c == TheClient(w)
           old == work[w].old
           was == IF work[w].pc = "reset" THEN old.status \in Expired
                  ELSE old.status = "expired_traffic"
           j == AfterReset(c, was /\ old.enable)
           done == [row[c] EXCEPT !.used = 0, !.status = IF was THEN "active" ELSE @]
<1>1. /\ work[w].pc \in {"reset", "bulkreset"} /\ work' = [work EXCEPT ![w] = j]
  BY DEF ResetRow
<1>2. c \in Clients /\ work[w].c = {c}
  BY <1>1, AboutIt DEF AboutOne
<1>3. row' = IF row[c].status = "none" THEN row ELSE [row EXCEPT ![c] = done]
  BY DEF ResetRow
<1>4. row[c] \in Rows
  BY <1>2, ARow
<1> HIDE DEF was
<1>5. /\ done \in Rows /\ done.used = 0 /\ done.limit = row[c].limit
      /\ done.enable = row[c].enable /\ done.status = IF was THEN "active" ELSE row[c].status
  BY <1>4 DEF Rows
<1>6. /\ j \in Jobs /\ WellFormed(j) /\ j.old = Absent /\ j.snap = {} /\ j.todo = {}
      /\ j.pc \in {"idle", "readd"} /\ j.c \subseteq {c}
      /\ was /\ old.enable => j.pc = "readd" /\ j.c = {c}
  BY <1>2, NothingThere DEF AfterReset, NoWork, Jobs, WellFormed, AboutOne, Steps, Typed
<1> HIDE DEF done, j
<1>7. Turns(w) /\ work'[w] = j /\ \A v \in Workers : WellFormed(work'[v])
  BY <1>1, <1>6, GivenWork
<1>8. CASE row[c].status = "none"
  BY <1>1, <1>2, <1>3, <1>6, <1>7, <1>8, ARow
<1>9. CASE row[c].status # "none"
  <2>1. /\ row' \in [Clients -> Rows] /\ row'[c] = done
        /\ \A d \in Clients \ {c} : row'[d] = row[d]
    BY <1>2, <1>3, <1>5, <1>9, ARow
  <2> QED
    BY <1>1, <1>2, <1>5, <1>6, <1>7, <1>9, <2>1
<1> QED
  BY <1>8, <1>9

LEMMA ReAddDoes ==
  ASSUME Typed, NEW w \in Workers, ReAdd(w)
  PROVE  /\ Turns(w) /\ \A v \in Workers : WellFormed(work'[v])
         /\ TheClient(w) \in Clients /\ work[w].c = {TheClient(w)} /\ work[w].pc = "readd"
         /\ work'[w].pc = "next" /\ work'[w].c = work[w].c /\ work'[w].old = work[w].old
         /\ work'[w].snap = work[w].snap /\ work'[w].todo = on[TheClient(w)]
         /\ core' \in [Inbounds -> SUBSET Clients]
         /\ \A i \in Inbounds :
              core'[i] = IF i \in on[TheClient(w)] THEN core[i] \cup {TheClient(w)} ELSE core[i]
<1> DEFINE c == TheClient(w)
           j == [work[w] EXCEPT !.pc = "next", !.todo = on[c]]
<1>1. work' = [work EXCEPT ![w] = j] /\ work[w].pc = "readd"
  BY DEF ReAdd
<1>2. c \in Clients /\ work[w].c = {c}
  BY <1>1, AboutIt DEF AboutOne
<1>3. work[w] \in Jobs /\ on[c] \in SUBSET Inbounds /\ work[w].snap = {}
  BY <1>1, <1>2, ARow DEF Typed, Shapes, WellFormed
<1>4. /\ j \in Jobs /\ j.pc = "next" /\ j.c = work[w].c /\ j.old = work[w].old
      /\ j.snap = work[w].snap /\ j.todo = on[c]
  BY <1>3 DEF Jobs, Steps
<1> HIDE DEF j
<1>5. WellFormed(j)
  BY <1>3, <1>4 DEF WellFormed, AboutOne
<1>6. core \in [Inbounds -> SUBSET Clients]
  BY DEF Typed, TypeOK
<1>7. core' = [i \in Inbounds |-> IF i \in on[c] THEN core[i] \cup {c} ELSE core[i]]
  BY DEF ReAdd
<1> HIDE DEF c
<1>8. core' \in [Inbounds -> SUBSET Clients]
  BY <1>2, <1>6, <1>7
<1> QED
  BY <1>1, <1>2, <1>4, <1>5, <1>7, <1>8, GivenWork DEF c

\* The row of a client that is gone.
LEMMA GoneRow ==
  ASSUME Typed, NEW c \in Clients, row' = [row EXCEPT ![c] = Absent], on' = [on EXCEPT ![c] = {}]
  PROVE  /\ row' \in [Clients -> Rows] /\ on' \in [Clients -> SUBSET Inbounds]
         /\ row'[c] = Absent /\ on'[c] = {}
         /\ \A d \in Clients \ {c} : row'[d] = row[d] /\ on'[d] = on[d]
BY NothingThere, ARow DEF Typed

LEMMA DeleteClientDoes ==
  ASSUME Typed, NEW w \in Workers, NEW c \in Clients, DeleteClient(w, c)
  PROVE  /\ Turns(w) /\ \A v \in Workers : WellFormed(work'[v])
         /\ work[w] = NoWork
         /\ work'[w].pc = "next" /\ work'[w].c = {} /\ work'[w].old = Absent
         /\ work'[w].snap = {} /\ work'[w].todo = on[c]
         /\ row' \in [Clients -> Rows] /\ on' \in [Clients -> SUBSET Inbounds]
         /\ row'[c] = Absent /\ on'[c] = {}
         /\ \A d \in Clients \ {c} : row'[d] = row[d] /\ on'[d] = on[d]
<1>1. work' = [work EXCEPT ![w] = [NoWork EXCEPT !.pc = "next", !.todo = on[c]]]
  BY DEF DeleteClient, RebuildAll
<1>2. on[c] \in SUBSET Inbounds /\ TRUE \in BOOLEAN
  BY ARow
<1>3. /\ Turns(w) /\ \A v \in Workers : WellFormed(work'[v])
      /\ work'[w].pc = "next" /\ work'[w].c = {} /\ work'[w].old = Absent
      /\ work'[w].snap = {} /\ work'[w].todo = on[c]
  <2> DEFINE T == on[c]
             j == [NoWork EXCEPT !.pc = "next", !.todo = T]
  <2>1. work' = [work EXCEPT ![w] = j] /\ T \in SUBSET Inbounds /\ TRUE \in BOOLEAN
    BY <1>1, <1>2
  <2> SUFFICES work'[w].todo = T /\ Turns(w) /\ (\A v \in Workers : WellFormed(work'[v]))
               /\ work'[w].pc = "next" /\ work'[w].c = {} /\ work'[w].old = Absent
               /\ work'[w].snap = {}
    OBVIOUS
  <2> HIDE DEF T
  <2>2. j \in {[NoWork EXCEPT !.pc = "next", !.todo = T],
               [NoWork EXCEPT !.pc = "next", !.todo = T, !.restart = TRUE]}
    OBVIOUS
  <2> HIDE DEF j
  <2> QED
    BY <2>1, <2>2, HasToRebuild
<1> QED
  BY <1>3, GoneRow DEF DeleteClient

LEMMA BulkDeleteDoes ==
  ASSUME Typed, NEW w \in Workers, NEW c \in Clients, BulkDelete(w, c)
  PROVE  /\ Turns(w) /\ \A v \in Workers : WellFormed(work'[v])
         /\ work[w] = NoWork /\ Unlocked(c)
         /\ work'[w].pc = "bulk" /\ work'[w].c = {c} /\ work'[w].old = Absent
         /\ work'[w].snap = {} /\ work'[w].todo = on[c]
<1> DEFINE j == [NoWork EXCEPT !.pc = "bulk", !.c = {c}, !.todo = on[c]]
<1>1. work' = [work EXCEPT ![w] = j]
  BY DEF BulkDelete
<1>2. /\ j \in Jobs /\ j.pc = "bulk" /\ j.c = {c} /\ j.old = Absent /\ j.snap = {}
      /\ j.todo = on[c]
  BY ARow, NothingThere DEF Jobs, Steps, Typed
<1> HIDE DEF j
<1>3. WellFormed(j)
  BY <1>2 DEF WellFormed
<1> QED
  BY <1>1, <1>2, <1>3, GivenWork DEF BulkDelete

LEMMA BulkCommitDoes ==
  ASSUME Typed, NEW w \in Workers, BulkCommit(w)
  PROVE  /\ Turns(w) /\ \A v \in Workers : WellFormed(work'[v])
         /\ TheClient(w) \in Clients /\ work[w].c = {TheClient(w)}
         /\ work[w].pc = "bulk" /\ work[w].todo = {} /\ work'[w] = NoWork
         /\ row' \in [Clients -> Rows] /\ on' \in [Clients -> SUBSET Inbounds]
         /\ row'[TheClient(w)] = Absent /\ on'[TheClient(w)] = {}
         /\ \A d \in Clients \ {TheClient(w)} : row'[d] = row[d] /\ on'[d] = on[d]
<1>1. work[w].pc = "bulk" /\ work' = [work EXCEPT ![w] = NoWork]
  BY DEF BulkCommit
<1>2. TheClient(w) \in Clients /\ work[w].c = {TheClient(w)}
  BY <1>1, AboutIt DEF AboutOne
<1>3. Turns(w) /\ work'[w] = NoWork /\ \A v \in Workers : WellFormed(work'[v])
  BY <1>1, NothingThere, GivenWork DEF Typed
<1> QED
  BY <1>1, <1>2, <1>3, GoneRow DEF BulkCommit

LEMMA BulkEnableDoes ==
  ASSUME Typed, NEW w \in Workers, NEW c \in Clients, BulkEnable(w, c)
  PROVE  /\ Turns(w) /\ \A v \in Workers : WellFormed(work'[v])
         /\ work[w] = NoWork
         /\ work'[w].pc = "next" /\ work'[w].c = {} /\ work'[w].old = Absent
         /\ work'[w].snap = {} /\ work'[w].todo = on[c]
         /\ row' \in [Clients -> Rows]
         /\ row'[c].used = row[c].used /\ row'[c].limit = row[c].limit
         /\ row'[c].status = row[c].status
         /\ \A d \in Clients \ {c} : row'[d] = row[d]
<1>1. PICK e \in BOOLEAN :
        /\ row' = [row EXCEPT ![c].enable = e]
        /\ work' = [work EXCEPT ![w] = [RebuildAll(c) EXCEPT !.restart = e /\ on[c] # {}]]
  BY DEF BulkEnable
<1> DEFINE b == e /\ on[c] # {}
           j == [NoWork EXCEPT !.pc = "next", !.todo = on[c], !.restart = b]
<1>2. work' = [work EXCEPT ![w] = j]
  BY <1>1 DEF RebuildAll
<1>3. /\ Turns(w) /\ \A v \in Workers : WellFormed(work'[v])
      /\ work'[w].pc = "next" /\ work'[w].c = {} /\ work'[w].old = Absent
      /\ work'[w].snap = {} /\ work'[w].todo = on[c]
  <2> DEFINE T == on[c]
             k == [NoWork EXCEPT !.pc = "next", !.todo = T, !.restart = b]
  <2>1. work' = [work EXCEPT ![w] = k] /\ T \in SUBSET Inbounds /\ b \in BOOLEAN
    BY <1>2, ARow
  <2> SUFFICES work'[w].todo = T /\ Turns(w) /\ (\A v \in Workers : WellFormed(work'[v]))
               /\ work'[w].pc = "next" /\ work'[w].c = {} /\ work'[w].old = Absent
               /\ work'[w].snap = {}
    OBVIOUS
  <2> HIDE DEF T, b, j
  <2>2. k \in {[NoWork EXCEPT !.pc = "next", !.todo = T],
               [NoWork EXCEPT !.pc = "next", !.todo = T, !.restart = b]}
    OBVIOUS
  <2> HIDE DEF k
  <2> QED
    BY <2>1, <2>2, HasToRebuild
<1>4. /\ row' \in [Clients -> Rows]
      /\ row'[c].used = row[c].used /\ row'[c].limit = row[c].limit
      /\ row'[c].status = row[c].status
      /\ \A d \in Clients \ {c} : row'[d] = row[d]
  <2> DEFINE new == [row[c] EXCEPT !.enable = e]
  <2>1. /\ new \in Rows /\ new.used = row[c].used /\ new.limit = row[c].limit
        /\ new.status = row[c].status
    BY ARow DEF Rows
  <2>2. row' = [row EXCEPT ![c] = new]
    BY <1>1
  <2> HIDE DEF new
  <2> QED
    BY <2>1, <2>2, ARow
<1> QED
  BY <1>3, <1>4 DEF BulkEnable

LEMMA ResetAllDoes ==
  ASSUME Typed, NEW w \in Workers, ResetAllClientTraffics(w)
  PROVE  /\ Turns(w) /\ \A v \in Workers : WellFormed(work'[v])
         /\ work[w] = NoWork
         /\ work'[w].pc = "zero" /\ work'[w].old = Absent
         /\ work'[w].snap = {} /\ work'[w].todo = {}
<1> DEFINE C == {c \in Clients : row[c].status = "expired_traffic" /\ row[c].enable}
           j == [NoWork EXCEPT !.pc = "zero", !.c = C]
<1>1. work' = [work EXCEPT ![w] = j] /\ work[w] = NoWork
  BY DEF ResetAllClientTraffics
<1>2. C \in SUBSET Clients
  OBVIOUS
<1> HIDE DEF C
<1>3. j \in Jobs /\ j.pc = "zero" /\ j.old = Absent /\ j.snap = {} /\ j.todo = {}
  BY <1>2, NothingThere DEF Jobs, Steps, Typed
<1> HIDE DEF j
<1>4. WellFormed(j)
  BY <1>3 DEF WellFormed, AboutOne
<1> QED
  BY <1>1, <1>3, <1>4, GivenWork

\* All rows are changed in the same way.
LEMMA ZeroAllDoes ==
  ASSUME Typed, NEW w \in Workers, ZeroAll(w)
  PROVE  /\ Turns(w) /\ \A v \in Workers : WellFormed(work'[v])
         /\ work[w].pc = "zero" /\ work'[w].pc = "mark"
         /\ work'[w].c = work[w].c /\ work'[w].old = work[w].old
         /\ work'[w].snap = work[w].snap /\ work'[w].todo = work[w].todo
         /\ row' \in [Clients -> Rows]
         /\ \A c \in Clients :
              /\ row'[c].used = 0 /\ row'[c].limit = row[c].limit
              /\ row'[c].enable = row[c].enable /\ row'[c].status = row[c].status
<1> DEFINE j == [work[w] EXCEPT !.pc = "mark"]
<1>1. work' = [work EXCEPT ![w] = j] /\ work[w].pc = "zero"
  BY DEF ZeroAll
<1>2. work[w] \in Jobs /\ WellFormed(work[w])
  BY DEF Typed, Shapes
<1>3. /\ j \in Jobs /\ j.pc = "mark" /\ j.c = work[w].c /\ j.old = work[w].old
      /\ j.snap = work[w].snap /\ j.todo = work[w].todo
  BY <1>2 DEF Jobs, Steps
<1> HIDE DEF j
<1>4. WellFormed(j)
  BY <1>1, <1>2, <1>3 DEF WellFormed, AboutOne
<1>5. ASSUME NEW c \in Clients
      PROVE  /\ [row[c] EXCEPT !.used = 0] \in Rows
             /\ [row[c] EXCEPT !.used = 0].used = 0
             /\ [row[c] EXCEPT !.used = 0].limit = row[c].limit
             /\ [row[c] EXCEPT !.used = 0].enable = row[c].enable
             /\ [row[c] EXCEPT !.used = 0].status = row[c].status
  BY ARow DEF Rows
<1>6. row' = [c \in Clients |-> [row[c] EXCEPT !.used = 0]]
  BY DEF ZeroAll
<1> QED
  BY <1>1, <1>3, <1>4, <1>5, <1>6, GivenWork

LEMMA MarkAllDoes ==
  ASSUME Typed, NEW w \in Workers, MarkAll(w)
  PROVE  /\ Turns(w) /\ \A v \in Workers : WellFormed(work'[v])
         /\ work[w].pc = "mark"
         /\ work'[w].pc = "next" /\ work'[w].c = {} /\ work'[w].old = Absent
         /\ work'[w].snap = {} /\ \A c \in work[w].c : on[c] \subseteq work'[w].todo
         /\ row' \in [Clients -> Rows]
         /\ \A c \in Clients :
              /\ row'[c].used = row[c].used /\ row'[c].limit = row[c].limit
              /\ row'[c].enable = row[c].enable
              /\ \/ row'[c].status = row[c].status
                 \/ /\ row'[c].status = "active" /\ row[c].status = "expired_traffic"
                    /\ c \in work[w].c \/ ~row[c].enable \/ lost'
<1> DEFINE used == {c \in Clients : row[c].status = "expired_traffic"}
           back == UNION {on[c] : c \in work[w].c}
           b == back # {}
           j == [NoWork EXCEPT !.pc = "next", !.todo = back, !.restart = b]
<1>1. /\ work' = [work EXCEPT ![w] = j] /\ work[w].pc = "mark"
      /\ row' = [c \in Clients |->
                  IF c \in used THEN [row[c] EXCEPT !.status = "active"] ELSE row[c]]
      /\ lost' = (lost \/ \E c \in used \ work[w].c : row[c].enable)
  BY DEF MarkAll
<1>2. work[w].c \subseteq Clients
  BY DEF Typed, Shapes, Jobs
<1>3. back \in SUBSET Inbounds /\ b \in BOOLEAN /\ \A c \in work[w].c : on[c] \subseteq back
  BY <1>2, ARow
<1>4. ASSUME NEW c \in Clients
      PROVE  /\ row'[c] \in Rows
             /\ row'[c].used = row[c].used /\ row'[c].limit = row[c].limit
             /\ row'[c].enable = row[c].enable
             /\ \/ row'[c].status = row[c].status
                \/ row'[c].status = "active" /\ c \in used
  <2>1. row[c] \in Rows
    BY ARow
  <2>2. row'[c] = IF c \in used THEN [row[c] EXCEPT !.status = "active"] ELSE row[c]
    BY <1>1
  <2> QED
    BY <2>1, <2>2 DEF Rows
<1>5. row' \in [Clients -> Rows]
  BY <1>1, <1>4
<1>6. ASSUME NEW c \in used
      PROVE  c \in work[w].c \/ ~row[c].enable \/ lost'
  BY <1>1
<1> HIDE DEF b, back
<1>7. /\ Turns(w) /\ \A v \in Workers : WellFormed(work'[v])
      /\ work'[w].pc = "next" /\ work'[w].c = {} /\ work'[w].old = Absent
      /\ work'[w].snap = {} /\ work'[w].todo = back
  <2>1. j \in {[NoWork EXCEPT !.pc = "next", !.todo = back],
               [NoWork EXCEPT !.pc = "next", !.todo = back, !.restart = b]}
    OBVIOUS
  <2>2. work' = [work EXCEPT ![w] = j]
    BY <1>1
  <2> HIDE DEF j
  <2> QED
    BY <1>3, <2>1, <2>2, HasToRebuild
<1> QED
  BY <1>1, <1>3, <1>4, <1>5, <1>6, <1>7

LEMMA DelDepletedDoes ==
  ASSUME Typed, NEW w \in Workers, DelDepletedClients(w)
  PROVE  /\ Turns(w) /\ \A v \in Workers : WellFormed(work'[v])
         /\ work[w] = NoWork
         /\ work'[w].pc = "next" /\ work'[w].c = {} /\ work'[w].old = Absent
         /\ work'[w].snap = {} /\ \A p \in books : p[2] \in work'[w].todo
         /\ row' \in [Clients -> Rows] /\ on' \in [Clients -> SUBSET Inbounds]
         /\ books' = {}
         /\ \A c \in Clients :
              \/ row'[c] = row[c] /\ on'[c] = on[c]
              \/ /\ row[c].status # "none" /\ Unlocked(c)
                 /\ row'[c] = Absent /\ on'[c] = {}
                 /\ \A i \in on[c] : <<c, i>> \in books \/ <<c, i>> \in stray'
<1> DEFINE gone == {c \in Clients : row[c].status # "none" /\ \E i \in Inbounds : <<c, i>> \in books}
           T == {p[2] : p \in books}
           j == [NoWork EXCEPT !.pc = "next", !.todo = T]
<1>1. /\ work' = [work EXCEPT ![w] = j] /\ work[w] = NoWork /\ books' = {}
      /\ row' = [c \in Clients |-> IF c \in gone THEN Absent ELSE row[c]]
      /\ on' = [c \in Clients |-> IF c \in gone THEN {} ELSE on[c]]
      /\ stray' = stray \cup {p \in (gone \X Inbounds) \ books : p[2] \in on[p[1]]}
      /\ \A c \in gone : Unlocked(c)
  BY DEF DelDepletedClients
<1>2. T \in SUBSET Inbounds /\ \A p \in books : p[2] \in T
  BY DEF Typed, TypeOK
<1> HIDE DEF T
<1>3. /\ Turns(w) /\ \A v \in Workers : WellFormed(work'[v])
      /\ work'[w].pc = "next" /\ work'[w].c = {} /\ work'[w].old = Absent
      /\ work'[w].snap = {} /\ work'[w].todo = T
  <2>1. TRUE \in BOOLEAN /\ j \in {[NoWork EXCEPT !.pc = "next", !.todo = T],
                                   [NoWork EXCEPT !.pc = "next", !.todo = T, !.restart = TRUE]}
    OBVIOUS
  <2>2. work' = [work EXCEPT ![w] = j]
    BY <1>1
  <2> HIDE DEF j
  <2> QED
    BY <1>2, <2>1, <2>2, HasToRebuild
<1>4. row' \in [Clients -> Rows] /\ on' \in [Clients -> SUBSET Inbounds]
  BY <1>1, ARow, NothingThere DEF Typed
<1>5. ASSUME NEW c \in gone, NEW i \in on[c], <<c, i>> \notin books
      PROVE  <<c, i>> \in stray'
  <2>1. i \in Inbounds
    BY ARow
  <2>2. <<c, i>> \in {p \in (gone \X Inbounds) \ books : p[2] \in on[p[1]]}
    BY <1>5, <2>1
  <2> QED
    BY <1>1, <2>2
<1>6. \A c \in Clients : c \notin gone => row'[c] = row[c] /\ on'[c] = on[c]
  BY <1>1
<1>7. \A c \in gone : row[c].status # "none" /\ row'[c] = Absent /\ on'[c] = {} /\ Unlocked(c)
  BY <1>1
<1> QED
  BY <1>1, <1>2, <1>3, <1>4, <1>5, <1>6, <1>7

-----------------------------------------------------------------------------
(* What is charged.                                                        *)

\* Numbers of bytes.
LEMMA Numbers ==
  ASSUME Typed
  PROVE  /\ Bytes \subseteq Nat /\ Nothing \in Counts
         /\ \A d \in Counts : d.up \in Nat /\ d.down \in Nat /\ Size(d) \in Nat
         /\ Size(Nothing) = 0 /\ NoCounts \in [Clients -> Counts]
         /\ \A r \in Rows : r.used \in Nat /\ r.limit \in Nat
<1>1. \A a \in Amounts : a[1] \in Nat /\ a[2] \in Nat
  BY DEF Typed, ClientsAssumption
<1>2. Bytes \subseteq Nat
  BY <1>1 DEF Bytes
<1>3. Nothing \in Counts /\ Size(Nothing) = 0
  BY DEF Nothing, Counts, Bytes, Size
<1>4. NoCounts \in [Clients -> Counts]
  BY <1>3 DEF NoCounts
<1>5. \A r \in Rows : r.used \in Nat /\ r.limit \in Nat
  BY DEF Rows, Typed, ClientsAssumption
<1>6. ASSUME NEW d \in Counts
      PROVE  d.up \in Nat /\ d.down \in Nat /\ Size(d) \in Nat
  <2>1. d.up \in Nat /\ d.down \in Nat
    BY <1>2 DEF Counts
  <2> QED
    BY <2>1 DEF Size
<1> QED
  BY <1>2, <1>3, <1>4, <1>5, <1>6

\* A share is at most the quotient.
LEMMA AShare ==
  ASSUME NEW x \in Nat, NEW a \in Nat, NEW t \in Nat, t > 0, NEW s \in Share(x, a, t)
  PROVE  s \in Nat /\ s * t <= x * a
<1> DEFINE y == x * a
           q == y \div t
<1>1. y \in Nat
  OBVIOUS
<1>2. s = q \/ (s = q - 1 /\ q > 0)
  BY DEF Share
<1> HIDE DEF y
<1>3. q \in Nat /\ y = t * q + (y % t) /\ y % t \in Nat
  BY <1>1
<1> HIDE DEF q
<1>4. s \in Nat /\ s <= q
  BY <1>2, <1>3
<1>5. s * t <= q * t
  BY <1>3, <1>4
<1> QED
  BY <1>1, <1>3, <1>4, <1>5 DEF y

\* What is charged is no more than what was counted, and no more than what is
\* left of a quota that has been kept.
LEMMA WhatIsCharged ==
  ASSUME Typed, NEW r \in Rows, NEW d \in Counts, NEW a \in Charges(r, d)
  PROVE  /\ a \in Nat /\ a <= Size(d)
         /\ r.limit > 0 /\ r.used <= r.limit => r.used + a <= r.limit
<1> DEFINE total == d.up + d.down
           left == r.limit - r.used
<1>1. d.up \in Nat /\ d.down \in Nat /\ r.used \in Nat /\ r.limit \in Nat /\ Size(d) = total
  <2>1. Size(d) = total
    BY DEF Size
  <2> QED
    BY <2>1, Numbers
<1>2. CASE r.limit = 0 \/ (r.limit > r.used /\ total <= left)
  <2>1. a = total
    BY <1>1, <1>2 DEF Charges
  <2> QED
    BY <1>1, <1>2, <2>1
<1>3. CASE ~(r.limit = 0 \/ (r.limit > r.used /\ total <= left))
           /\ r.used >= r.limit /\ r.limit > 0
  <2>1. a = 0
    BY <1>1, <1>3 DEF Charges
  <2> QED
    BY <1>1, <1>3, <2>1
<1>4. CASE ~(r.limit = 0 \/ (r.limit > r.used /\ total <= left))
           /\ ~(r.used >= r.limit /\ r.limit > 0)
  <2>1. a \in {u + v : u \in Share(d.up, left, total), v \in Share(d.down, left, total)}
    BY <1>1, <1>4 DEF Charges
  <2>2. PICK u \in Share(d.up, left, total), v \in Share(d.down, left, total) : a = u + v
    BY <2>1
  <2>3. left \in Nat /\ total \in Nat /\ total > left
    BY <1>1, <1>4
  <2>4. u \in Nat /\ v \in Nat /\ u * total <= d.up * left /\ v * total <= d.down * left
    BY <1>1, <2>3, AShare
  <2> DEFINE up == d.up
             down == d.down
  <2>5. up \in Nat /\ down \in Nat /\ total = up + down
    BY <1>1
  <2>6. (u + v) * total <= total * left
    <3> HIDE DEF total, left
    <3>1. (u + v) * total = u * total + v * total
      BY <2>3, <2>4
    <3>2. total * left = up * left + down * left
      BY <2>3, <2>5
    <3> QED
      BY <2>3, <2>4, <2>5, <3>1, <3>2
  <2>7. u + v <= left
    <3> HIDE DEF total, left
    <3>1. SUFFICES ASSUME u + v >= left + 1 PROVE FALSE
      BY <2>3, <2>4
    <3>2. (u + v) * total >= (left + 1) * total
      BY <2>3, <2>4, <3>1
    <3>3. (left + 1) * total = total * left + total
      BY <2>3
    <3> QED
      BY <2>3, <2>4, <2>6, <3>2, <3>3
  <2> QED
    BY <1>1, <2>2, <2>3, <2>4, <2>7
<1> QED
  BY <1>2, <1>3, <1>4

-----------------------------------------------------------------------------
(* What the tick and the pages do.                                         *)

\* Idle goroutines are given the clients that are to be cut off.
LEMMA SpawnDoes ==
  ASSUME Typed, NEW S \in SUBSET Clients, NEW again \in BOOLEAN, Spawn(S, again)
  PROVE  /\ work' \in [Workers -> Jobs] /\ \A w \in Workers : WellFormed(work'[w])
         /\ \A w \in Workers :
              \/ work'[w] = work[w]
              \/ /\ work[w] = NoWork /\ work'[w].pc = "cut"
                 /\ work'[w].old = Absent /\ work'[w].snap = {}
         /\ \A c \in S : on[c] # {} =>
              \E w \in Workers : work'[w].pc = "cut" /\ work'[w].c = {c}
<1> DEFINE T == {c \in S : on[c] # {}}
<1>1. PICK who \in [T -> Disablers], at \in [T -> Inbounds] :
        /\ \A c \in T : at[c] \in on[c] /\ work[who[c]] = NoWork
        /\ \A c, d \in T : who[c] = who[d] => c = d
        /\ work' = [w \in Workers |->
                      IF \E c \in T : who[c] = w
                      THEN LET c == CHOOSE c \in T : who[c] = w
                           IN Disable(c, at[c], again)
                      ELSE work[w]]
  BY DEF Spawn
<1>2. T \subseteq Clients /\ \A c \in T : c \in S
  OBVIOUS
<1>3. ASSUME NEW c \in T
      PROVE  LET j == Disable(c, at[c], again)
             IN j \in Jobs /\ WellFormed(j) /\ j.pc = "cut" /\ j.c = {c} /\ j.old = Absent
                /\ j.snap = {}
  <2> DEFINE j == Disable(c, at[c], again)
  <2>1. at[c] \in Inbounds /\ c \in Clients
    BY <1>1, <1>2
  <2>2. j \in Jobs /\ j.pc = "cut" /\ j.c = {c} /\ j.old = Absent /\ j.snap = {}
    BY <2>1, NothingThere DEF Disable, Jobs, Steps, Typed
  <2> HIDE DEF j
  <2>3. WellFormed(j)
    BY <2>1, <2>2 DEF WellFormed
  <2> QED
    BY <2>2, <2>3 DEF j
<1> HIDE DEF T
<1>4. ASSUME NEW w \in Workers
      PROVE  /\ work'[w] \in Jobs /\ WellFormed(work'[w])
             /\ \/ work'[w] = work[w]
                \/ /\ work[w] = NoWork /\ work'[w].pc = "cut"
                   /\ work'[w].old = Absent /\ work'[w].snap = {}
  <2>1. CASE \E c \in T : who[c] = w
    <3> DEFINE d == CHOOSE c \in T : who[c] = w
    <3>1. d \in T /\ who[d] = w
      BY <2>1
    <3>2. work'[w] = Disable(d, at[d], again)
      BY <1>1, <2>1
    <3> HIDE DEF d
    <3> QED
      BY <1>1, <1>3, <3>1, <3>2
  <2>2. CASE ~\E c \in T : who[c] = w
    BY <1>1, <2>2 DEF Typed, Shapes
  <2> QED
    BY <2>1, <2>2
<1>5. work' \in [Workers -> Jobs]
  BY <1>1, <1>4
<1>6. ASSUME NEW c \in T
      PROVE  \E w \in Workers : work'[w].pc = "cut" /\ work'[w].c = {c}
  <2> DEFINE w == who[c]
             d == CHOOSE e \in T : who[e] = w
  <2>1. w \in Workers
    BY <1>1 DEF Workers
  <2>2. d \in T /\ who[d] = w
    OBVIOUS
  <2>3. d = c
    BY <1>1, <2>2
  <2>4. work'[w] = Disable(d, at[d], again)
    BY <1>1, <2>1
  <2> HIDE DEF d, w
  <2> QED
    BY <1>3, <2>1, <2>3, <2>4
<1> QED
  BY <1>4, <1>5, <1>6 DEF T

\* A page changes the status of those who have expired, and nothing else.
LEMMA ShownRows ==
  ASSUME Typed, row' = [c \in Clients |-> [row[c] EXCEPT !.status = Shown(row[c])]]
  PROVE  /\ row' \in [Clients -> Rows]
         /\ \A c \in Clients :
              /\ row'[c].used = row[c].used /\ row'[c].limit = row[c].limit
              /\ row'[c].enable = row[c].enable
              /\ \/ row'[c] = row[c]
                 \/ /\ c \in Changed /\ row[c].status # "none"
                    /\ row'[c].status \in Expired
         /\ Changed \subseteq Clients
<1>1. ASSUME NEW c \in Clients
      PROVE  /\ row'[c] \in Rows
             /\ row'[c].used = row[c].used /\ row'[c].limit = row[c].limit
             /\ row'[c].enable = row[c].enable
             /\ \/ row'[c] = row[c]
                \/ /\ c \in Changed /\ row[c].status # "none"
                   /\ row'[c].status \in Expired
  <2>1. row[c] \in Rows
    BY ARow
  <2>2. Shown(row[c]) = row[c].status \/ (Shown(row[c]) \in Expired /\ row[c].status # "none")
    BY DEF Shown, Expired
  <2>3. row'[c] = [row[c] EXCEPT !.status = Shown(row[c])]
    OBVIOUS
  <2>4. CASE Shown(row[c]) = row[c].status
    BY <2>1, <2>3, <2>4 DEF Rows
  <2>5. CASE Shown(row[c]) # row[c].status
    BY <2>1, <2>2, <2>3, <2>5 DEF Rows, Changed
  <2> QED
    BY <2>4, <2>5
<1>2. row' \in [Clients -> Rows]
  BY <1>1
<1> QED
  BY <1>1, <1>2 DEF Changed

\* The tick's record.
LEMMA TheTick ==
  ASSUME Typed
  PROVE  /\ DOMAIN tick.rows \subseteq Clients
         /\ \A c \in DOMAIN tick.rows : tick.rows[c] \in Rows
         /\ tick.delta \in [Clients -> Counts]
         /\ NoRows \in [{} -> Rows] /\ DOMAIN NoRows = {}
BY NothingThere DEF Typed, Shapes, NoRows

LEMMA TickReadDoes ==
  ASSUME Typed, TickRead
  PROVE  /\ tick'.pc = "read" /\ tick'.delta = pending /\ DOMAIN tick'.rows = Reported
         /\ tick' = [pc |-> tick'.pc, rows |-> tick'.rows, delta |-> tick'.delta]
         /\ tick'.rows \in [Reported -> Rows] /\ Reported \subseteq Clients
         /\ \A c \in Reported : tick'.rows[c] = row[c] /\ row[c].status # "none"
         /\ pending' = NoCounts
<1>1. Reported \subseteq Clients /\ \A c \in Reported : row[c].status # "none"
  BY DEF Reported
<1>2. tick' = [pc |-> "read", rows |-> [c \in Reported |-> row[c]], delta |-> pending]
  BY DEF TickRead
<1>3. [c \in Reported |-> row[c]] \in [Reported -> Rows]
  BY <1>1, ARow
<1>4. pending' = NoCounts
  BY DEF TickRead, ResetCounters
<1> QED
  BY <1>1, <1>2, <1>3, <1>4

\* What the status of a charged row becomes.
LEMMA Marks ==
  ASSUME Typed, NEW r \in Rows
  PROVE  /\ Marked(r) \in Rows
         /\ Marked(r).used = r.used /\ Marked(r).limit = r.limit
         /\ Marked(r).enable = r.enable
         /\ Marked(r).status = r.status \/ Marked(r).status \in Expired
<1>1. CASE ~r.enable
  BY <1>1 DEF Marked
<1>2. CASE r.enable /\ Exceeded(r) /\ r.status # "expired_traffic"
  BY <1>2 DEF Marked, Rows, Expired
<1>3. CASE r.enable /\ ~(Exceeded(r) /\ r.status # "expired_traffic") /\ Late(r)
  BY <1>3 DEF Marked, Rows, Expired
<1>4. CASE r.enable /\ ~(Exceeded(r) /\ r.status # "expired_traffic") /\ ~Late(r)
  BY <1>4 DEF Marked
<1> QED
  BY <1>1, <1>2, <1>3, <1>4

LEMMA TickSaveDoes ==
  ASSUME Typed, TickSave
  PROVE  /\ tick'.pc = "saved" /\ tick'.delta \in [Clients -> Counts]
         /\ tick' = [pc |-> tick'.pc, rows |-> tick'.rows, delta |-> tick'.delta]
         /\ DOMAIN tick'.rows = DOMAIN tick.rows
         /\ tick'.rows \in [DOMAIN tick.rows -> Rows]
         /\ \A c \in DOMAIN tick.rows :
              /\ tick'.rows[c].limit = tick.rows[c].limit
              /\ tick'.rows[c].enable = tick.rows[c].enable
              /\ \E a \in Charges(tick.rows[c], tick.delta[c]) :
                   tick'.rows[c].used = tick.rows[c].used + a
              /\ \/ tick'.rows[c].status = tick.rows[c].status
                 \/ /\ tick'.rows[c].status \in Expired
                    /\ on[c] # {} =>
                         \E w \in Workers : work'[w].pc = "cut" /\ work'[w].c = {c}
         /\ work' \in [Workers -> Jobs] /\ \A w \in Workers : WellFormed(work'[w])
         /\ \A w \in Workers :
              \/ work'[w] = work[w]
              \/ /\ work[w] = NoWork /\ work'[w].pc = "cut"
                 /\ work'[w].old = Absent /\ work'[w].snap = {}
<1> DEFINE D == DOMAIN tick.rows
<1>1. PICK add \in [D -> UNION {Charges(tick.rows[c], tick.delta[c]) : c \in D}] :
        LET charged == [c \in D |-> [tick.rows[c] EXCEPT !.used = @ + add[c]]]
            new == [c \in D |-> Marked(charged[c])]
        IN /\ \A c \in D : add[c] \in Charges(tick.rows[c], tick.delta[c])
           /\ tick' = [pc |-> "saved", rows |-> new,
                       delta |-> IF silent THEN tick.delta ELSE NoCounts]
           /\ Spawn({c \in DOMAIN new : new[c].status # tick.rows[c].status}, TRUE)
  BY DEF TickSave
<1> DEFINE charged == [c \in D |-> [tick.rows[c] EXCEPT !.used = @ + add[c]]]
           new == [c \in D |-> Marked(charged[c])]
           delta == IF silent THEN tick.delta ELSE NoCounts
           S == {c \in D : new[c].status # tick.rows[c].status}
<1>2. /\ \A c \in D : add[c] \in Charges(tick.rows[c], tick.delta[c])
      /\ tick' = [pc |-> "saved", rows |-> new, delta |-> delta]
      /\ Spawn(S, TRUE)
  <2>1. DOMAIN new = D
    OBVIOUS
  <2> QED
    BY <1>1, <2>1
<1>3. D \subseteq Clients /\ delta \in [Clients -> Counts]
  BY TheTick, Numbers
<1>4. ASSUME NEW c \in D
      PROVE  /\ new[c] \in Rows /\ new[c].used = tick.rows[c].used + add[c]
             /\ new[c].limit = tick.rows[c].limit /\ new[c].enable = tick.rows[c].enable
             /\ new[c].status = tick.rows[c].status \/ new[c].status \in Expired
  <2> DEFINE r == tick.rows[c]
             q == [r EXCEPT !.used = @ + add[c]]
  <2>1. r \in Rows /\ tick.delta[c] \in Counts /\ add[c] \in Charges(r, tick.delta[c])
    BY <1>2, <1>3, TheTick
  <2>2. add[c] \in Nat /\ r.used \in Nat
    BY <2>1, WhatIsCharged, Numbers
  <2>3. /\ q \in Rows /\ q.used = r.used + add[c] /\ q.limit = r.limit
        /\ q.enable = r.enable /\ q.status = r.status
    BY <2>1, <2>2 DEF Rows
  <2>4. new[c] = Marked(q)
    OBVIOUS
  <2> HIDE DEF q
  <2> QED
    BY <2>3, <2>4, Marks
<1> HIDE DEF delta
<1>5. new \in [D -> Rows]
  BY <1>4
<1> HIDE DEF new, charged
<1>6. S \in SUBSET Clients /\ TRUE \in BOOLEAN
  BY <1>3
<1>7. /\ work' \in [Workers -> Jobs] /\ \A w \in Workers : WellFormed(work'[w])
      /\ \A w \in Workers :
           \/ work'[w] = work[w]
           \/ /\ work[w] = NoWork /\ work'[w].pc = "cut"
              /\ work'[w].old = Absent /\ work'[w].snap = {}
      /\ \A c \in S : on[c] # {} =>
           \E w \in Workers : work'[w].pc = "cut" /\ work'[w].c = {c}
  <2> HIDE DEF S
  <2> QED
    BY <1>2, <1>6, SpawnDoes
<1>8. /\ tick'.pc = "saved" /\ tick'.rows = new /\ tick'.delta = delta
      /\ tick' = [pc |-> tick'.pc, rows |-> tick'.rows, delta |-> tick'.delta]
      /\ DOMAIN tick'.rows = D
  BY <1>2, <1>5
<1> QED
  BY <1>2, <1>3, <1>4, <1>5, <1>7, <1>8, Zenon

LEMMA TickCommitDoes ==
  ASSUME Typed, TickCommit
  PROVE  /\ tick'.pc \in {"fallback", "broadcast"}
         /\ tick'.pc = "fallback" => silent
         /\ tick'.rows = NoRows /\ tick'.delta = tick.delta
         /\ tick' = [pc |-> tick'.pc, rows |-> tick'.rows, delta |-> tick'.delta]
         /\ row' \in [Clients -> Rows]
         /\ \A c \in Clients : row'[c] = IF c \in DOMAIN tick.rows THEN tick.rows[c] ELSE row[c]
<1>1. tick' = [tick EXCEPT !.pc = IF silent THEN "fallback" ELSE "broadcast", !.rows = NoRows]
  BY DEF TickCommit
<1>2. tick = [pc |-> tick.pc, rows |-> tick.rows, delta |-> tick.delta]
  BY DEF Typed, Shapes
<1>3. tick' = [pc |-> IF silent THEN "fallback" ELSE "broadcast", rows |-> NoRows,
               delta |-> tick.delta]
  BY <1>1, <1>2
<1>4. row' = [c \in Clients |-> IF c \in DOMAIN tick.rows THEN tick.rows[c] ELSE row[c]]
  BY DEF TickCommit
<1>5. row' \in [Clients -> Rows]
  BY <1>4, ARow, TheTick
<1> QED
  BY <1>3, <1>4, <1>5

LEMMA ACount ==
  ASSUME Typed, NEW i \in Inbounds
  PROVE  CountOf(i) \in Counts /\ Increase(CountOf(i), before[i]) \in Nat
<1>1. CountOf(i) \in Counts
  <2> DEFINE S == {c \in Clients : i \in tick.delta[c].via}
  <2>1. CASE S = {}
    <3>1. CountOf(i) = [Nothing EXCEPT !.via = {i}]
      BY <2>1 DEF CountOf
    <3> QED
      BY <3>1, Numbers DEF Counts
  <2>2. CASE S # {}
    <3> DEFINE c == CHOOSE c \in S : TRUE
               d == tick.delta[c]
    <3>1. c \in S
      BY <2>2
    <3>2. d \in Counts
      BY <3>1, TheTick
    <3>3. CountOf(i) = [d EXCEPT !.via = {i}]
      BY <2>2 DEF CountOf
    <3> HIDE DEF d
    <3> QED
      BY <3>2, <3>3 DEF Counts
  <2> QED
    BY <2>1, <2>2
<1>2. before[i] \in Counts
  BY DEF Typed, TypeOK
<1> DEFINE cur == CountOf(i)
           prev == before[i]
<1>3. cur.up \in Nat /\ cur.down \in Nat /\ prev.up \in Nat /\ prev.down \in Nat
  BY <1>1, <1>2, Numbers
<1> HIDE DEF cur, prev
<1>4. Increase(cur, prev) \in Nat
  BY <1>3 DEF Increase
<1> QED
  BY <1>1, <1>4 DEF cur, prev

LEMMA TickFallbackDoes ==
  ASSUME Typed, TickFallback
  PROVE  /\ silent
         /\ tick'.pc = "broadcast" /\ tick'.rows = tick.rows /\ tick'.delta = tick.delta
         /\ tick' = [pc |-> tick'.pc, rows |-> tick'.rows, delta |-> tick'.delta]
         /\ before' \in [Inbounds -> Counts]
         /\ row' \in [Clients -> Rows]
         /\ \A c \in Clients :
              /\ row'[c].limit = row[c].limit /\ row'[c].enable = row[c].enable
              /\ row'[c].status = row[c].status
<1> DEFINE due(i) == CountOf(i).up + CountOf(i).down + Increase(CountOf(i), before[i])
           paid == {i \in Inbounds : due(i) > 0 /\ Payer(i) # {}}
<1>1. row' = [c \in Clients |->
                IF \E i \in paid : Payer(i) = {c}
                THEN [row[c] EXCEPT !.used = @ + due(CHOOSE i \in paid : Payer(i) = {c})]
                ELSE row[c]]
  BY DEF TickFallback
<1>2. \A i \in Inbounds : due(i) \in Nat
  <2> TAKE i \in Inbounds
  <2>1. CountOf(i).up \in Nat /\ CountOf(i).down \in Nat
    BY ACount, Numbers
  <2>2. Increase(CountOf(i), before[i]) \in Nat
    BY ACount
  <2> QED
    BY <2>1, <2>2
<1> HIDE DEF due
<1>3. ASSUME NEW c \in Clients
      PROVE  /\ row'[c] \in Rows
             /\ row'[c].limit = row[c].limit /\ row'[c].enable = row[c].enable
             /\ row'[c].status = row[c].status
  <2>1. row[c] \in Rows /\ row[c].used \in Nat
    BY ARow, Numbers
  <2>2. CASE \E i \in paid : Payer(i) = {c}
    <3> DEFINE i == CHOOSE i \in paid : Payer(i) = {c}
               d == due(i)
               new == [row[c] EXCEPT !.used = @ + d]
    <3>1. i \in paid
      BY <2>2
    <3>2. d \in Nat
      BY <1>2, <3>1
    <3>3. row'[c] = new
      BY <1>1, <2>2
    <3> HIDE DEF d
    <3>4. /\ new \in Rows /\ new.limit = row[c].limit /\ new.enable = row[c].enable
          /\ new.status = row[c].status
      BY <2>1, <3>2 DEF Rows
    <3> QED
      BY <3>3, <3>4
  <2>3. CASE ~\E i \in paid : Payer(i) = {c}
    BY <1>1, <2>1, <2>3
  <2> QED
    BY <2>2, <2>3
<1>4. row' \in [Clients -> Rows]
  BY <1>1, <1>3
<1>5. before' \in [Inbounds -> Counts]
  BY ACount DEF TickFallback
<1>6. /\ tick'.pc = "broadcast" /\ tick'.rows = tick.rows /\ tick'.delta = tick.delta
      /\ tick' = [pc |-> tick'.pc, rows |-> tick'.rows, delta |-> tick'.delta]
  <2>1. tick' = [tick EXCEPT !.pc = "broadcast"]
    BY DEF TickFallback
  <2>2. tick = [pc |-> tick.pc, rows |-> tick.rows, delta |-> tick.delta]
    BY DEF Typed, Shapes
  <2>3. tick' = [pc |-> "broadcast", rows |-> tick.rows, delta |-> tick.delta]
    BY <2>1, <2>2
  <2> QED
    BY <2>3
<1>7. silent
  BY DEF Typed, Shapes, TickFallback
<1> QED
  BY <1>3, <1>4, <1>5, <1>6, <1>7

LEMMA TickBroadcastDoes ==
  ASSUME Typed, TickBroadcast
  PROVE  /\ tick' = NoTick /\ tick'.pc = "idle" /\ tick'.rows = NoRows /\ tick'.delta = NoCounts
         /\ row' \in [Clients -> Rows]
         /\ \A c \in Clients :
              /\ row'[c].used = row[c].used /\ row'[c].limit = row[c].limit
              /\ row'[c].enable = row[c].enable
              /\ \/ row'[c] = row[c]
                 \/ /\ row[c].status # "none" /\ row'[c].status \in Expired
                    /\ row[c].enable /\ on[c] # {} =>
                         \E w \in Workers : work'[w].pc = "cut" /\ work'[w].c = {c}
         /\ work' \in [Workers -> Jobs] /\ \A w \in Workers : WellFormed(work'[w])
         /\ \A w \in Workers :
              \/ work'[w] = work[w]
              \/ /\ work[w] = NoWork /\ work'[w].pc = "cut"
                 /\ work'[w].old = Absent /\ work'[w].snap = {}
<1> DEFINE S == {c \in Changed : row[c].enable}
<1>1. /\ row' = [c \in Clients |-> [row[c] EXCEPT !.status = Shown(row[c])]]
      /\ Spawn(S, FALSE) /\ tick' = NoTick
  BY DEF TickBroadcast
<1>2. /\ row' \in [Clients -> Rows] /\ Changed \subseteq Clients
      /\ \A c \in Clients :
           /\ row'[c].used = row[c].used /\ row'[c].limit = row[c].limit
           /\ row'[c].enable = row[c].enable
           /\ \/ row'[c] = row[c]
              \/ /\ c \in Changed /\ row[c].status # "none"
                 /\ row'[c].status \in Expired
  BY <1>1, ShownRows
<1>3. S \in SUBSET Clients /\ FALSE \in BOOLEAN
  BY <1>2
<1>4. \A c \in Changed : row[c].enable => c \in S
  OBVIOUS
<1> HIDE DEF S
<1>5. /\ work' \in [Workers -> Jobs] /\ \A w \in Workers : WellFormed(work'[w])
      /\ \A w \in Workers :
           \/ work'[w] = work[w]
           \/ /\ work[w] = NoWork /\ work'[w].pc = "cut"
              /\ work'[w].old = Absent /\ work'[w].snap = {}
      /\ \A c \in S : on[c] # {} =>
           \E w \in Workers : work'[w].pc = "cut" /\ work'[w].c = {c}
  BY <1>1, <1>3, SpawnDoes
<1>6. tick'.pc = "idle" /\ tick'.rows = NoRows /\ tick'.delta = NoCounts
  BY <1>1 DEF NoTick
<1> QED
  BY <1>1, <1>2, <1>4, <1>5, <1>6

LEMMA GetClientsDoes ==
  ASSUME Typed, GetClients
  PROVE  /\ row' \in [Clients -> Rows]
         /\ \A c \in Clients :
              /\ row'[c].used = row[c].used /\ row'[c].limit = row[c].limit
              /\ row'[c].enable = row[c].enable
              /\ \/ row'[c] = row[c]
                 \/ /\ row[c].status # "none" /\ row'[c].status \in Expired
                    /\ Unlocked(c)
                    /\ \A i \in on[c] : row[c].enable => <<c, i>> \in stray'
         /\ stray \subseteq stray' /\ restart' \in BOOLEAN
<1> DEFINE gone == {p \in Changed \X Inbounds : row[p[1]].enable /\ p[2] \in on[p[1]]}
<1>1. /\ row' = [c \in Clients |-> [row[c] EXCEPT !.status = Shown(row[c])]]
      /\ stray' = stray \cup gone /\ restart' = (restart \/ gone # {})
      /\ \A c \in Changed : Unlocked(c)
  BY DEF GetClients
<1>2. /\ row' \in [Clients -> Rows]
      /\ \A c \in Clients :
           /\ row'[c].used = row[c].used /\ row'[c].limit = row[c].limit
           /\ row'[c].enable = row[c].enable
           /\ \/ row'[c] = row[c]
              \/ /\ c \in Changed /\ row[c].status # "none"
                 /\ row'[c].status \in Expired
  BY <1>1, ShownRows
<1>3. ASSUME NEW c \in Changed, NEW i \in on[c], row[c].enable
      PROVE  <<c, i>> \in stray'
  <2>1. i \in Inbounds
    BY ARow DEF Changed
  <2>2. <<c, i>> \in gone
    BY <1>3, <2>1
  <2> QED
    BY <1>1, <2>2
<1> QED
  BY <1>1, <1>2, <1>3

-----------------------------------------------------------------------------
(* The types stay what they are.                                           *)

\* What a goroutine, a request or a page can disturb.
LEMMA TypesAfterWork ==
  ASSUME Typed,
         work' \in [Workers -> Jobs], \A v \in Workers : WellFormed(work'[v]),
         row' \in [Clients -> Rows], on' \in [Clients -> SUBSET Inbounds],
         settings' \in [Inbounds -> SUBSET Clients], core' \in [Inbounds -> SUBSET Clients],
         restart' \in BOOLEAN, books' \in {books, {}},
         edits' = edits \/ (edits < MaxEdits /\ edits' = edits + 1),
         UNCHANGED <<now, silent, pending, before, tick, served>>
  PROVE  TypeOK' /\ Shapes'
<1>1. edits' \in 0..MaxEdits
  BY DEF Typed, TypeOK, ClientsAssumption
<1>2. \A w \in Workers : work'[w].old \in Rows /\ work'[w].todo \subseteq Inbounds
  BY DEF Jobs
<1>3. TypeOK'
  BY <1>1, <1>2 DEF Typed, TypeOK
<1>4. Shapes'
  <2>1. Shapes
    BY DEF Typed
  <2> QED
    BY <2>1 DEF Shapes
<1> QED
  BY <1>3, <1>4

\* What the tick, the traffic and the clock can disturb.
LEMMA TypesAfterTick ==
  ASSUME Typed,
         work' \in [Workers -> Jobs], \A v \in Workers : WellFormed(work'[v]),
         row' \in [Clients -> Rows], before' \in [Inbounds -> Counts],
         pending' \in [Clients -> Counts], served' \in [Clients -> Nat], now' \in 0..MaxNow,
         tick' = [pc |-> tick'.pc, rows |-> tick'.rows, delta |-> tick'.delta],
         tick'.pc \in TickSteps, tick'.delta \in [Clients -> Counts],
         NEW S \in SUBSET Clients, tick'.rows \in [S -> Rows],
         tick'.pc \in {"read", "saved"} \/ S = {}, tick'.pc = "fallback" => silent,
         UNCHANGED <<on, books, settings, core, silent, restart, edits>>
  PROVE  TypeOK' /\ Shapes'
<1>1. \A w \in Workers : work'[w].old \in Rows /\ work'[w].todo \subseteq Inbounds
  BY DEF Jobs
<1>2. DOMAIN tick'.rows = S /\ \A c \in S : tick'.rows[c] \in Rows
  OBVIOUS
<1>3. TypeOK'
  BY <1>1, <1>2 DEF Typed, TypeOK
<1>4. Shapes'
  BY <1>2 DEF Typed, Shapes
<1> QED
  BY <1>3, <1>4

\* What a step that leaves them alone keeps.
LEMMA TypesBefore ==
  ASSUME Typed
  PROVE  /\ work \in [Workers -> Jobs] /\ \A v \in Workers : WellFormed(work[v])
         /\ row \in [Clients -> Rows] /\ on \in [Clients -> SUBSET Inbounds]
         /\ settings \in [Inbounds -> SUBSET Clients] /\ core \in [Inbounds -> SUBSET Clients]
         /\ restart \in BOOLEAN /\ before \in [Inbounds -> Counts]
         /\ pending \in [Clients -> Counts] /\ served \in [Clients -> Nat]
         /\ now \in 0..MaxNow
         /\ tick = [pc |-> tick.pc, rows |-> tick.rows, delta |-> tick.delta]
         /\ tick.pc \in TickSteps /\ tick.delta \in [Clients -> Counts]
         /\ tick.rows \in [DOMAIN tick.rows -> Rows] /\ DOMAIN tick.rows \in SUBSET Clients
         /\ tick.pc \in {"read", "saved"} \/ DOMAIN tick.rows = {}
         /\ tick.pc = "fallback" => silent
BY DEF Typed, TypeOK, Shapes

LEMMA GoingKeepsTypes ==
  ASSUME Typed, NEW w \in Workers, Goes(w)
  PROVE  TypeOK' /\ Shapes'
<1> USE TypesBefore, TypesAfterWork
<1>1. CASE ReadMembers(w)
  BY <1>1, ReadMembersDoes DEF ReadMembers, Turns, db, traffic, counts
<1>2. CASE Rebuild(w)
  <2>1. settings' \in [Inbounds -> SUBSET Clients] /\ core' \in [Inbounds -> SUBSET Clients]
    BY <1>2, RebuildDoes
  <2> QED
    BY <1>2, <2>1, RebuildDoes DEF Rebuild, Turns, db, traffic, counts
<1>3. CASE Finish(w)
  <2>1. restart' \in BOOLEAN
    BY <1>3 DEF Finish
  <2> QED
    BY <1>3, <2>1, FinishDoes DEF Finish, Turns, db, traffic, counts
<1>4. CASE CutRead(w)
  BY <1>4, CutReadDoes DEF CutRead, Turns, db, traffic, counts
<1>5. CASE CutSave(w)
  BY <1>5, CutSaveDoes, Zenon DEF CutSave, Turns, traffic, counts
<1>6. CASE UpdateRow(w)
  <2>1. UNCHANGED <<settings, core, restart, books, edits, now, silent, pending, before, tick,
                    served>>
    BY <1>6 DEF UpdateRow, traffic, counts
  <2> QED
    BY <1>6, <2>1, UpdateRowDoes DEF Turns
<1>7. CASE ResetRow(w)
  <2>1. UNCHANGED <<on, settings, core, restart, books, edits, now, silent, pending, before, tick,
                    served>>
    BY <1>7 DEF ResetRow, traffic, counts
  <2> QED
    BY <1>7, <2>1, ResetRowDoes DEF Turns
<1>8. CASE ReAdd(w)
  BY <1>8, ReAddDoes DEF ReAdd, Turns, db, traffic, counts
<1>9. CASE BulkCommit(w)
  BY <1>9, BulkCommitDoes DEF BulkCommit, Turns, traffic, counts
<1>10. CASE ZeroAll(w)
  BY <1>10, ZeroAllDoes DEF ZeroAll, Turns, traffic, counts
<1>11. CASE MarkAll(w)
  <2>1. UNCHANGED <<on, settings, core, restart, books, edits, now, silent, pending, before, tick,
                    served>>
    BY <1>11 DEF MarkAll, traffic, counts
  <2> QED
    BY <1>11, <2>1, MarkAllDoes DEF Turns
<1> QED
  BY <1>1, <1>2, <1>3, <1>4, <1>5, <1>6, <1>7, <1>8, <1>9, <1>10, <1>11 DEF Goes

LEMMA AskingKeepsTypes ==
  ASSUME Typed, NEW w \in Workers, NEW c \in Clients,
         Asks(w, c)
  PROVE  TypeOK' /\ Shapes'
<1> USE TypesBefore, TypesAfterWork
<1>1. CASE AddClient(w, c)
  <2>1. UNCHANGED <<settings, core, restart, books, edits, now, silent, pending, before, tick,
                    served>>
    BY <1>1 DEF AddClient, traffic, counts
  <2> QED
    BY <1>1, <2>1, AddClientDoes DEF Turns
<1>2. ASSUME NEW pc \in {"update", "reset", "bulkreset", "assign"}, Open(w, c, pc)
      PROVE  TypeOK' /\ Shapes'
  BY <1>2, OpenDoes DEF Open, Turns, db, traffic
<1>3. CASE DeleteClient(w, c)
  BY <1>3, DeleteClientDoes DEF DeleteClient, Turns, traffic
<1>4. CASE BulkDelete(w, c)
  BY <1>4, BulkDeleteDoes DEF BulkDelete, Turns, db, traffic
<1>5. CASE BulkEnable(w, c)
  BY <1>5, BulkEnableDoes DEF BulkEnable, Turns, traffic
<1> QED
  BY <1>1, <1>2, <1>3, <1>4, <1>5
     DEF Asks, UpdateClient, ResetClientTraffic, BulkResetTraffic, BulkAssignInbounds

LEMMA AskingForAllKeepsTypes ==
  ASSUME Typed, NEW w \in Workers,
         ResetAllClientTraffics(w) \/ DelDepletedClients(w)
  PROVE  TypeOK' /\ Shapes'
<1> USE TypesBefore, TypesAfterWork
<1>1. CASE ResetAllClientTraffics(w)
  BY <1>1, ResetAllDoes, Zenon DEF ResetAllClientTraffics, Turns, db, traffic
<1>2. CASE DelDepletedClients(w)
  <2>1. UNCHANGED <<settings, core, restart, now, silent, pending, before, tick, served>>
    BY <1>2 DEF DelDepletedClients, traffic
  <2>2. edits < MaxEdits /\ edits' = edits + 1
    BY <1>2 DEF DelDepletedClients
  <2> QED
    BY <1>2, <2>1, <2>2, DelDepletedDoes DEF Turns
<1> QED
  BY <1>1, <1>2

LEMMA TheRestKeepsTypes ==
  ASSUME Typed,
         DatePasses \/ (\E c \in Clients : Send(c)) \/ Tick \/ RestartXray \/ GetClients
  PROVE  TypeOK' /\ Shapes'
<1> USE TypesBefore
<1>1. CASE DatePasses
  <2>1. now' \in 0..MaxNow
    BY <1>1 DEF DatePasses, Typed, ClientsAssumption
  <2>2. UNCHANGED <<row, on, books, settings, core, silent, pending, before, served, tick, work,
                    restart, edits>>
    BY <1>1 DEF DatePasses, traffic, counts
  <2> QED
    BY <2>1, <2>2, TypesAfterTick
<1>2. ASSUME NEW c \in Clients, Send(c) PROVE TypeOK' /\ Shapes'
  <2>1. PICK i \in Inbounds, a \in Amounts :
          LET sum == served[c] + a[1] + a[2]
          IN /\ pending' = [pending EXCEPT ![c] = [via |-> IF silent THEN {i} ELSE {}, up |-> a[1], down |-> a[2]]]
             /\ served' = [served EXCEPT ![c] = IF sum < MaxServed THEN sum ELSE MaxServed]
    BY <1>2 DEF Send
  <2>2. a[1] \in Bytes /\ a[2] \in Bytes /\ a[1] \in Nat /\ a[2] \in Nat
    BY DEF Bytes, Typed, ClientsAssumption
  <2>3. MaxServed \in Nat
    BY DEF Typed, ClientsAssumption
  <2>4. pending' \in [Clients -> Counts]
    BY <2>1, <2>2 DEF Counts
  <2>5. served' \in [Clients -> Nat]
    BY <2>1, <2>2, <2>3
  <2>6. UNCHANGED <<now, row, on, books, settings, core, silent, before, tick, work, restart,
                    edits>>
    BY <1>2 DEF Send, db, counts
  <2> QED
    BY <2>4, <2>5, <2>6, TypesAfterTick
<1>3. CASE TickRead
  <2>1. UNCHANGED <<now, row, on, books, settings, core, silent, before, served, work, restart,
                    edits>>
    BY <1>3 DEF TickRead, db
  <2>2. pending' \in [Clients -> Counts]
    BY <1>3, TickReadDoes, Numbers
  <2> QED
    BY <1>3, <2>1, <2>2, TickReadDoes, TypesAfterTick DEF TickSteps
<1>4. CASE TickSave
  <2>1. UNCHANGED <<now, row, on, books, settings, core, silent, pending, before, served, restart,
                    edits>>
    BY <1>4 DEF TickSave, db, traffic, counts
  <2> QED
    BY <1>4, <2>1, TickSaveDoes, TypesAfterTick DEF TickSteps
<1>5. CASE TickCommit
  <2>1. UNCHANGED <<now, on, books, settings, core, silent, pending, before, served, work, restart,
                    edits>>
    BY <1>5 DEF TickCommit, traffic, counts
  <2>2. tick'.rows \in [{} -> Rows] /\ {} \in SUBSET Clients
    BY <1>5, TickCommitDoes, TheTick
  <2>3. /\ tick'.pc \in TickSteps /\ tick'.delta \in [Clients -> Counts]
        /\ tick'.pc = "fallback" => silent
        /\ tick' = [pc |-> tick'.pc, rows |-> tick'.rows, delta |-> tick'.delta]
        /\ row' \in [Clients -> Rows]
    BY <1>5, TickCommitDoes, TheTick DEF TickSteps
  <2> QED
    BY <2>1, <2>2, <2>3, TypesAfterTick
<1>6. CASE TickFallback
  <2>1. UNCHANGED <<now, on, books, settings, core, silent, pending, served, work, restart, edits>>
    BY <1>6 DEF TickFallback, counts
  <2>2. DOMAIN tick.rows = {}
    BY <1>6 DEF TickFallback
  <2> QED
    BY <1>6, <2>1, <2>2, TickFallbackDoes, TypesAfterTick DEF TickSteps
<1>7. CASE TickBroadcast
  <2>1. UNCHANGED <<now, on, books, settings, core, silent, pending, before, served, restart, edits>>
    BY <1>7 DEF TickBroadcast, traffic, counts
  <2>2. tick'.rows \in [{} -> Rows] /\ {} \in SUBSET Clients /\ tick'.delta \in [Clients -> Counts]
    BY <1>7, TickBroadcastDoes, TheTick, Numbers
  <2>3. tick' = [pc |-> tick'.pc, rows |-> tick'.rows, delta |-> tick'.delta]
    BY <1>7, TickBroadcastDoes DEF NoTick
  <2> QED
    BY <1>7, <2>1, <2>2, <2>3, TickBroadcastDoes, TypesAfterTick DEF TickSteps
<1>8. CASE RestartXray
  <2>1. core' \in [Inbounds -> SUBSET Clients] /\ restart' \in BOOLEAN
    BY <1>8 DEF RestartXray
  <2> QED
    BY <1>8, <2>1, TypesAfterWork DEF RestartXray, db, traffic, counts
<1>9. CASE GetClients
  <2>1. UNCHANGED <<now, on, books, settings, core, silent, pending, before, served, tick, work,
                    edits>>
    BY <1>9 DEF GetClients, traffic, counts
  <2> QED
    BY <1>9, <2>1, GetClientsDoes, TypesAfterWork
<1> QED
  BY <1>1, <1>2, <1>3, <1>4, <1>5, <1>6, <1>7, <1>8, <1>9 DEF Tick

-----------------------------------------------------------------------------
(* What is charged where the core counts inbounds only.                    *)

LEMMA TotalIs ==
  ASSUME NEW f
  PROVE  Total(f) = Upto(f, DOMAIN f)
BY DEF Total, FoldFunction, FoldFunctionOnSet, MapThenFoldSet, Adds, Upto

\* Totals of natural numbers over the clients.
LEMMA Totals ==
  ASSUME ClientsAssumption, NEW f \in [Clients -> Nat]
  PROVE  Total(f) \in Nat /\ Total(f) = Upto(f, Clients) /\ \A c \in Clients : f[c] <= Total(f)
<1>0. IsFiniteSet(Clients)
  BY DEF ClientsAssumption
<1>1. Total(f) = Upto(f, Clients)
  BY TotalIs
<1>2. \A c \in Clients : f[c] \in Nat
  OBVIOUS
<1>3. Upto(f, Clients) \in Nat
  BY <1>0, <1>2, UptoType
<1>4. ASSUME NEW c \in Clients PROVE f[c] <= Upto(f, Clients)
  <2> DEFINE g == [d \in Clients |-> IF d = c THEN f[c] ELSE 0]
  <2>1. /\ g[c] = f[c] /\ \A d \in Clients : d # c => g[d] = 0
        /\ \A d \in Clients : g[d] \in Nat /\ g[d] <= f[d]
    BY <1>2
  <2> HIDE DEF g
  <2>2. Upto(g, Clients) = f[c]
    BY <1>0, <2>1, UptoPoint
  <2>3. Upto(g, Clients) <= Upto(f, Clients)
    BY <1>0, <1>2, <2>1, UptoMost
  <2> QED
    BY <2>2, <2>3
<1> QED
  BY <1>1, <1>3, <1>4

LEMMA TotalsAdd ==
  ASSUME ClientsAssumption, NEW f \in [Clients -> Nat], NEW g \in [Clients -> Nat],
         NEW h \in [Clients -> Nat], \A c \in Clients : f[c] = g[c] + h[c]
  PROVE  Total(f) = Total(g) + Total(h)
<1>1. \A c \in Clients : g[c] \in Nat /\ h[c] \in Nat /\ f[c] = g[c] + h[c]
  OBVIOUS
<1>2. Upto(f, Clients) = Upto(g, Clients) + Upto(h, Clients)
  BY <1>1, UptoPlus DEF ClientsAssumption
<1> QED
  BY <1>2, Totals

LEMMA TotalsChange ==
  ASSUME ClientsAssumption, NEW f \in [Clients -> Nat], NEW g \in [Clients -> Nat],
         NEW a, OnlyAt(a, Clients, f, g)
  PROVE  Total(g) = (Total(f) - f[a]) + g[a]
<1>1. Upto(g, Clients) = (Upto(f, Clients) - f[a]) + g[a]
  BY UptoOnlyAt DEF ClientsAssumption
<1> QED
  BY <1>1, Totals

LEMMA UnbilledType ==
  ASSUME Typed
  PROVE  Unbilled \in [Clients -> Nat]
<1>1. \A c \in Clients : Size(pending[c]) \in Nat /\ Size(tick.delta[c]) \in Nat
  BY TypesBefore, Numbers
<1> QED
  BY <1>1 DEF Unbilled

\* What there is of it.
BillsFit ==
  \E most \in [Clients -> 0..2 * Total(served)] :
    Covers(most) /\ Total(most) + 2 * Total(Unbilled) <= 2 * Total(served)
LEMMA BilledParts ==
  Billed <=>
    (silent => /\ DOMAIN tick.rows = {} /\ OneWay
               /\ (\A c \in Clients : served[c] < MaxServed) => BillsFit)
BY DEF Billed, BillsFit
LEMMA BilledPartsNext ==
  Billed' <=>
    (silent' => /\ DOMAIN tick'.rows = {} /\ OneWay'
                /\ (\A c \in Clients : served'[c] < MaxServed) => BillsFit')
BY DEF Billed, BillsFit

\* A step that moves no traffic and lets no row have more than one that may still be
\* saved.
LEMMA BilledAfter ==
  ASSUME Typed, Billed, UNCHANGED <<silent, served>>,
         silent => /\ DOMAIN tick'.rows = {} /\ OneWay' /\ Unbilled' = Unbilled
                   /\ \A most \in [Clients -> Nat] : Covers(most) => Covers(most)'
  PROVE  Billed'
<1>1. ASSUME silent, \A c \in Clients : served[c] < MaxServed
      PROVE  BillsFit'
  <2>1. PICK most \in [Clients -> 0..2 * Total(served)] :
          Covers(most) /\ Total(most) + 2 * Total(Unbilled) <= 2 * Total(served)
    BY <1>1, BilledParts DEF BillsFit
  <2>2. most \in [Clients -> Nat]
    OBVIOUS
  <2>3. Covers(most)'
    BY <1>1, <2>1, <2>2
  <2>4. Total(most) + 2 * Total(Unbilled') <= 2 * Total(served')
    BY <1>1, <2>1
  <2> QED
    BY <2>1, <2>3, <2>4 DEF BillsFit
<1>2. silent => /\ DOMAIN tick'.rows = {} /\ OneWay'
                /\ (\A c \in Clients : served'[c] < MaxServed) => BillsFit'
  BY <1>1
<1> QED
  BY <1>2, BilledPartsNext

\* The numbers of a row and of the copies of it.
LEMMA KnownNumbers ==
  ASSUME Typed, NEW c \in Clients
  PROVE  row[c].used \in Nat /\ \A w \in Workers : work[w].old.used \in Nat
<1>1. row[c] \in Rows /\ \A w \in Workers : work[w].old \in Rows
  BY ARow DEF Typed, Shapes, Jobs
<1> QED
  BY <1>1, Numbers

\* As long as rows and copies come from where they may, what covers them still does.
LEMMA CoversKept ==
  ASSUME Typed, NEW most \in [Clients -> Nat], Covers(most),
         \A c \in Clients :
           \/ row'[c].used = 0
           \/ row'[c].used = row[c].used
           \/ \E w \in Workers : c \in work[w].c /\ row'[c].used = work[w].old.used,
         \A w \in Workers : \A c \in Clients : c \in work'[w].c =>
           \/ work'[w].old \in {Absent, row[c]}
           \/ c \in work[w].c /\ work'[w].old = work[w].old
  PROVE  Covers(most)'
<1>0. Absent.used = 0
  BY NothingThere DEF Typed
<1>1. ASSUME NEW c \in Clients
      PROVE  /\ row'[c].used <= most[c]
             /\ \A w \in Workers : c \in work'[w].c => work'[w].old.used <= most[c]
  <2>1. /\ row[c].used <= most[c] /\ most[c] \in Nat
        /\ \A w \in Workers : c \in work[w].c => work[w].old.used <= most[c]
    BY DEF Covers
  <2> QED
    BY <1>0, <2>1
<1> QED
  BY <1>1 DEF Covers

LEMMA SendKeepsBilled ==
  ASSUME Typed, Billed, NEW c \in Clients, Send(c)
  PROVE  Billed'
<1>1. UNCHANGED <<row, silent, tick, work>>
  BY DEF Send, db
<1>2. PICK i \in Inbounds, a \in Amounts :
        LET sum == served[c] + a[1] + a[2]
        IN /\ pending' = [pending EXCEPT ![c] = [via |-> IF silent THEN {i} ELSE {}, up |-> a[1], down |-> a[2]]]
           /\ served' = [served EXCEPT ![c] = IF sum < MaxServed THEN sum ELSE MaxServed]
  BY DEF Send
<1>3. PICK up, down : up = a[1] /\ down = a[2]
  OBVIOUS
<1>4. up \in Nat /\ down \in Nat /\ MaxServed \in Nat /\ ClientsAssumption
  BY <1>3 DEF Typed, ClientsAssumption
<1>5. PICK d : d = [via |-> IF silent THEN {i} ELSE {}, up |-> up, down |-> down]
  OBVIOUS
<1>6. pending \in [Clients -> Counts] /\ served \in [Clients -> Nat]
  BY TypesBefore
<1>7. /\ pending' = [pending EXCEPT ![c] = d] /\ Size(d) = up + down
      /\ \A k, l \in d.via : k = l
  BY <1>2, <1>3, <1>5 DEF Size
<1>8. /\ \A e \in Clients \ {c} : pending'[e] = pending[e] /\ served'[e] = served[e]
      /\ pending'[c] = d
      /\ served'[c] = IF served[c] + up + down < MaxServed THEN served[c] + up + down
                      ELSE MaxServed
      /\ served' \in [Clients -> Nat]
  BY <1>2, <1>3, <1>4, <1>6, <1>7
<1>9. pending[c] = Nothing /\ Size(pending[c]) = 0
  BY Numbers DEF Send
<1>10. ASSUME silent PROVE DOMAIN tick'.rows = {} /\ OneWay'
  <2>1. DOMAIN tick.rows = {} /\ OneWay
    BY <1>10, BilledParts
  <2>2. \A e \in Clients : pending'[e] \in {pending[e], d}
    BY <1>8
  <2> QED
    BY <1>1, <1>7, <2>1, <2>2 DEF OneWay
<1>11. ASSUME silent, \A e \in Clients : served'[e] < MaxServed
       PROVE  BillsFit'
  <2>1. /\ \A e \in Clients : served[e] < MaxServed
        /\ served'[c] = served[c] + (up + down)
    BY <1>4, <1>6, <1>8, <1>11
  <2>2. PICK most \in [Clients -> 0..2 * Total(served)] :
          Covers(most) /\ Total(most) + 2 * Total(Unbilled) <= 2 * Total(served)
    BY <1>11, <2>1, BilledParts DEF BillsFit
  <2>3. most \in [Clients -> Nat]
    OBVIOUS
  <2>4. /\ Unbilled \in [Clients -> Nat] /\ Unbilled' \in [Clients -> Nat]
        /\ Unbilled'[c] = Unbilled[c] + (up + down)
        /\ \A e \in Clients : e # c => Unbilled'[e] = Unbilled[e]
    <3>1. \A e \in Clients : /\ Size(pending[e]) \in Nat /\ Size(tick.delta[e]) \in Nat
                             /\ Size(pending'[e]) \in Nat
      <4>1. \A e \in Clients : Size(pending[e]) \in Nat /\ Size(tick.delta[e]) \in Nat
        BY TypesBefore, Numbers
      <4>2. \A e \in Clients : pending'[e] \in {pending[e], d}
        BY <1>8
      <4> QED
        BY <1>4, <1>7, <4>1, <4>2
    <3>2. Unbilled \in [Clients -> Nat]
      BY UnbilledType
    <3>3. PICK rest : rest = [e \in Clients |->
                        IF tick.pc \in {"read", "saved", "fallback"} THEN Size(tick.delta[e]) ELSE 0]
      OBVIOUS
    <3>4. \A e \in Clients : rest[e] \in Nat
      BY <3>1, <3>3
    <3>5. /\ Unbilled = [e \in Clients |-> Size(pending[e]) + rest[e]]
          /\ Unbilled' = [e \in Clients |-> Size(pending'[e]) + rest[e]]
      <4>1. Unbilled = [e \in Clients |-> Size(pending[e]) + rest[e]]
        BY <3>3 DEF Unbilled
      <4>2. Unbilled' = [e \in Clients |-> Size(pending'[e]) + rest[e]]
        BY <1>1, <3>3 DEF Unbilled, Size
      <4> QED
        BY <4>1, <4>2
    <3>6. Size(pending'[c]) = Size(pending[c]) + (up + down)
      BY <1>4, <1>7, <1>8, <1>9
    <3>7. \A e \in Clients : e # c => Size(pending'[e]) = Size(pending[e])
      BY <1>8
    <3>8. Unbilled' \in [Clients -> Nat]
      BY <3>1, <3>4, <3>5
    <3>9. Unbilled'[c] = Unbilled[c] + (up + down)
      BY <1>4, <3>1, <3>4, <3>5, <3>6
    <3> QED
      BY <3>2, <3>5, <3>7, <3>8, <3>9
  <2>5. OnlyAt(c, Clients, Unbilled, Unbilled') /\ OnlyAt(c, Clients, served, served')
    BY <1>6, <1>8, <2>4 DEF OnlyAt
  <2>6. PICK u, v, s, t : u = Unbilled /\ v = Unbilled' /\ s = served /\ t = served'
    OBVIOUS
  <2>7. /\ Total(v) = (Total(u) - u[c]) + v[c] /\ Total(t) = (Total(s) - s[c]) + t[c]
    BY <1>4, <1>6, <1>8, <2>4, <2>5, <2>6, TotalsChange
  <2>8. /\ Total(u) \in Nat /\ Total(s) \in Nat /\ Total(most) \in Nat
        /\ u[c] \in Nat /\ s[c] \in Nat /\ v[c] = u[c] + (up + down) /\ t[c] = s[c] + (up + down)
    BY <1>4, <1>6, <2>1, <2>3, <2>4, <2>6, Totals
  <2>9. Total(v) = Total(u) + (up + down) /\ Total(t) = Total(s) + (up + down)
    BY <1>4, <2>7, <2>8
  <2>10. Total(most) + 2 * Total(u) <= 2 * Total(s)
    BY <2>2, <2>6
  <2>11. Total(most) + 2 * Total(v) <= 2 * Total(t) /\ 2 * Total(s) <= 2 * Total(t)
         /\ Total(t) \in Nat
    BY <1>4, <2>8, <2>9, <2>10
  <2>12. most \in [Clients -> 0..2 * Total(served')]
    <3>1. \A e \in Clients : most[e] \in 0..2 * Total(served')
      <4> TAKE e \in Clients
      <4>1. most[e] \in 0..2 * Total(s)
        BY <2>2, <2>6
      <4> QED
        BY <2>6, <2>8, <2>11, <4>1
    <3> QED
      BY <2>3, <3>1
  <2>13. Covers(most)'
    BY <1>1, <2>2 DEF Covers
  <2> QED
    BY <2>6, <2>11, <2>12, <2>13 DEF BillsFit
<1> QED
  BY <1>1, <1>10, <1>11, BilledPartsNext

\* What inbound i costs the client that pays for it.
Bill(i) == CountOf(i).up + CountOf(i).down + Increase(CountOf(i), before[i])

\* At most twice the traffic one client has moved through it.
LEMMA ABill ==
  ASSUME Typed, NEW i \in Inbounds
  PROVE  /\ Bill(i) \in Nat
         /\ Bill(i) > 0 => \E c \in Clients : /\ c = CHOOSE d \in {e \in Clients : i \in tick.delta[e].via} : TRUE
                                              /\ i \in tick.delta[c].via
                                              /\ Bill(i) <= 2 * Size(tick.delta[c])
<1> DEFINE S == {c \in Clients : i \in tick.delta[c].via}
           cur == CountOf(i)
           prev == before[i]
<1>1. cur \in Counts /\ prev \in Counts
  BY ACount DEF Typed, TypeOK
<1>2. cur.up \in Nat /\ cur.down \in Nat /\ prev.up \in Nat /\ prev.down \in Nat
  BY <1>1, Numbers
<1> HIDE DEF cur, prev
<1>3. Increase(cur, prev) \in Nat /\ Increase(cur, prev) <= cur.up + cur.down
  BY <1>2 DEF Increase
<1>4. Bill(i) = cur.up + cur.down + Increase(cur, prev)
  BY DEF Bill, cur, prev
<1>5. Bill(i) \in Nat /\ Bill(i) <= 2 * (cur.up + cur.down)
  BY <1>2, <1>3, <1>4
<1>6. CASE S = {}
  <2>1. cur.up = 0 /\ cur.down = 0
    BY <1>6 DEF cur, CountOf, Nothing
  <2> QED
    BY <1>5, <2>1
<1>7. CASE S # {}
  <2>1. PICK c : c = CHOOSE d \in S : TRUE
    OBVIOUS
  <2>2. c \in S
    BY <1>7, <2>1
  <2>3. PICK d : d = tick.delta[c]
    OBVIOUS
  <2>4. d \in Counts
    BY <2>2, <2>3, TypesBefore
  <2>5. cur = [d EXCEPT !.via = {i}]
    BY <1>7, <2>1, <2>3 DEF cur, CountOf
  <2>6. cur.up = d.up /\ cur.down = d.down
    BY <2>4, <2>5 DEF Counts
  <2>7. Bill(i) <= 2 * Size(d)
    BY <1>5, <2>6 DEF Size
  <2> QED
    BY <1>5, <2>1, <2>2, <2>3, <2>7
<1> QED
  BY <1>6, <1>7

\* The bills of a tick come to at most twice what it has counted, for no traffic of a
\* client is on two of them.
LEMMA BillsOfATick ==
  ASSUME Typed, Billed, TickFallback
  PROVE  \E add \in [Clients -> Nat] :
           /\ \A c \in Clients : row'[c].used = row[c].used + add[c]
           /\ \E sizes \in [Clients -> Nat] :
                /\ \A c \in Clients : sizes[c] = Size(tick.delta[c])
                /\ Total(add) <= Total(sizes) + Total(sizes)
<1> DEFINE paid == {i \in Inbounds : Bill(i) > 0 /\ Payer(i) # {}}
           for(c) == CHOOSE i \in paid : Payer(i) = {c}
           Q == {c \in Clients : \E i \in paid : Payer(i) = {c}}
           of(i) == CHOOSE d \in {e \in Clients : i \in tick.delta[e].via} : TRUE
           add == [c \in Clients |-> IF c \in Q THEN Bill(for(c)) ELSE 0]
           sizes == [c \in Clients |-> Size(tick.delta[c])]
           twice == [c \in Clients |-> 2 * Size(tick.delta[c])]
           h == [c \in Q |-> of(for(c))]
<1>0. ClientsAssumption /\ silent /\ OneWay
  BY BilledParts, TickFallbackDoes DEF Typed
<1>1. row' = [c \in Clients |->
                IF \E i \in paid : Payer(i) = {c}
                THEN [row[c] EXCEPT !.used = @ + Bill(CHOOSE i \in paid : Payer(i) = {c})]
                ELSE row[c]]
  BY DEF TickFallback, Bill
<1>2. ASSUME NEW c \in Q
      PROVE  /\ for(c) \in Inbounds /\ Payer(for(c)) = {c} /\ Bill(for(c)) \in Nat
             /\ h[c] \in Clients /\ for(c) \in tick.delta[h[c]].via
             /\ Bill(for(c)) <= 2 * Size(tick.delta[h[c]])
  <2>1. for(c) \in paid /\ Payer(for(c)) = {c}
    BY <1>2
  <2>2. PICK i : i = for(c)
    OBVIOUS
  <2>3. i \in Inbounds /\ Bill(i) > 0
    BY <2>1, <2>2
  <2>4. h[c] = of(i)
    BY <2>2
  <2>5. of(i) \in Clients /\ i \in tick.delta[of(i)].via
        /\ Bill(i) <= 2 * Size(tick.delta[of(i)]) /\ Bill(i) \in Nat
    BY <2>3, ABill
  <2> HIDE DEF for, h, of
  <2> QED
    BY <2>1, <2>2, <2>3, <2>4, <2>5
<1>3. \A c \in Clients : Size(tick.delta[c]) \in Nat /\ row[c] \in Rows /\ row[c].used \in Nat
  BY TypesBefore, ARow, Numbers
<1>4. sizes \in [Clients -> Nat] /\ twice \in [Clients -> Nat]
      /\ \A c \in Clients : twice[c] = sizes[c] + sizes[c] /\ sizes[c] = Size(tick.delta[c])
                            /\ twice[c] = 2 * Size(tick.delta[c])
  BY <1>3
<1>5. add \in [Clients -> Nat] /\ Q \subseteq Clients
      /\ (\A c \in Q : add[c] = Bill(for(c))) /\ \A e \in Clients \ Q : add[e] = 0
  <2>1. \A c \in Q : Bill(for(c)) \in Nat
    BY <1>2
  <2> HIDE DEF for
  <2> QED
    BY <2>1
<1>6. ASSUME NEW c \in Clients
      PROVE  row'[c].used = row[c].used + add[c]
  <2>1. CASE c \in Q
    <3>1. PICK n : n = Bill(for(c))
      OBVIOUS
    <3>2. n \in Nat /\ add[c] = n
      BY <1>2, <1>5, <2>1, <3>1
    <3>3. row'[c] = [row[c] EXCEPT !.used = @ + n]
      BY <1>1, <2>1, <3>1
    <3> QED
      BY <1>3, <3>2, <3>3 DEF Rows
  <2>2. CASE c \notin Q
    <3>1. row'[c] = row[c] /\ add[c] = 0
      BY <1>1, <2>2
    <3> QED
      BY <1>3, <3>1
  <2> QED
    BY <2>1, <2>2
<1>7. \A x, y \in Q : h[x] = h[y] => x = y
  <2> SUFFICES ASSUME NEW x \in Q, NEW y \in Q, h[x] = h[y] PROVE x = y
    OBVIOUS
  <2>1. PICK i, j, d : i = for(x) /\ j = for(y) /\ d = h[x]
    OBVIOUS
  <2>2. /\ d \in Clients /\ i \in tick.delta[d].via /\ j \in tick.delta[d].via
        /\ Payer(i) = {x} /\ Payer(j) = {y}
    BY <1>2, <2>1
  <2>3. i = j
    BY <1>0, <2>2 DEF OneWay
  <2> QED
    BY <2>2, <2>3
<1>8. \A c \in Q : h[c] \in Clients /\ add[c] <= twice[h[c]]
  BY <1>2, <1>4, <1>5
<1> HIDE DEF paid, for, Q, of, add, sizes, twice, h
<1>9. Into(h, Q, Clients, add, twice)
  BY <1>4, <1>5, <1>7, <1>8 DEF Into
<1>10. Total(add) <= Total(twice) /\ Total(twice) = Total(sizes) + Total(sizes)
  <2>1. Upto(add, Clients) <= Upto(twice, Clients)
    BY <1>0, <1>9, UptoInto DEF ClientsAssumption
  <2>2. Total(twice) = Total(sizes) + Total(sizes)
    BY <1>0, <1>4, TotalsAdd
  <2> QED
    BY <1>0, <1>4, <1>5, <2>1, <2>2, Totals
<1> QED
  BY <1>4, <1>5, <1>6, <1>10

LEMMA FallbackKeepsBilled ==
  ASSUME Typed, Billed, TickFallback
  PROVE  Billed'
<1>0. ClientsAssumption /\ silent
  BY TickFallbackDoes DEF Typed
<1>1. UNCHANGED <<silent, pending, served, work>> /\ tick.pc = "fallback"
  BY DEF TickFallback
<1>2. tick'.pc = "broadcast" /\ tick'.rows = tick.rows /\ tick'.delta = tick.delta
  BY TickFallbackDoes
<1>3. DOMAIN tick'.rows = {} /\ OneWay'
  BY <1>0, <1>1, <1>2, BilledParts DEF OneWay
<1>4. ASSUME \A c \in Clients : served[c] < MaxServed PROVE BillsFit'
  <2>1. PICK most \in [Clients -> 0..2 * Total(served)] :
          Covers(most) /\ Total(most) + 2 * Total(Unbilled) <= 2 * Total(served)
    BY <1>0, <1>4, BilledParts DEF BillsFit
  <2>2. most \in [Clients -> Nat] /\ Unbilled \in [Clients -> Nat] /\ served \in [Clients -> Nat]
    BY UnbilledType, TypesBefore
  <2>3. PICK add \in [Clients -> Nat], sizes \in [Clients -> Nat] :
          /\ \A c \in Clients : row'[c].used = row[c].used + add[c]
          /\ \A c \in Clients : sizes[c] = Size(tick.delta[c])
          /\ Total(add) <= Total(sizes) + Total(sizes)
    BY BillsOfATick
  <2>4. PICK u, v, s : u = Unbilled /\ v = Unbilled' /\ s = served
    OBVIOUS
  <2>5. v \in [Clients -> Nat] /\ \A c \in Clients : u[c] = v[c] + sizes[c]
    <3>1. \A c \in Clients : Size(pending[c]) \in Nat /\ Size(tick.delta[c]) \in Nat
      BY TypesBefore, Numbers
    <3>2. u = [c \in Clients |-> Size(pending[c]) + Size(tick.delta[c])]
      BY <1>1, <2>4 DEF Unbilled
    <3>3. v = [c \in Clients |-> Size(pending[c]) + 0]
      BY <1>1, <1>2, <2>4 DEF Unbilled, Size
    <3> QED
      BY <2>3, <3>1, <3>2, <3>3
  <2>6. Total(u) = Total(v) + Total(sizes)
    BY <1>0, <2>2, <2>3, <2>4, <2>5, TotalsAdd
  <2>7. PICK more : more = [c \in Clients |-> most[c] + add[c]]
    OBVIOUS
  <2>8. more \in [Clients -> Nat] /\ \A c \in Clients : more[c] = most[c] + add[c]
    BY <2>2, <2>7
  <2>9. Total(more) = Total(most) + Total(add)
    BY <1>0, <2>2, <2>3, <2>8, TotalsAdd
  <2>10. /\ Total(most) \in Nat /\ Total(add) \in Nat /\ Total(sizes) \in Nat
         /\ Total(v) \in Nat /\ Total(s) \in Nat /\ Total(more) \in Nat
         /\ \A c \in Clients : more[c] <= Total(more)
    BY <1>0, <2>2, <2>3, <2>4, <2>5, <2>8, Totals
  <2>11. Total(most) + 2 * Total(u) <= 2 * Total(s)
    BY <2>1, <2>4
  <2>12. Total(more) + 2 * Total(v) <= 2 * Total(s) /\ Total(more) <= 2 * Total(s)
    BY <2>3, <2>6, <2>9, <2>10, <2>11
  <2>13. more \in [Clients -> 0..2 * Total(s)]
    <3>1. \A c \in Clients : more[c] \in 0..2 * Total(s)
      BY <2>8, <2>10, <2>12
    <3> QED
      BY <2>8, <3>1
  <2>14. Covers(more)'
    <3>1. ASSUME NEW c \in Clients
          PROVE  /\ row'[c].used <= more[c]
                 /\ \A w \in Workers : c \in work[w].c => work[w].old.used <= more[c]
      <4>1. /\ row[c].used <= most[c] /\ row'[c].used = row[c].used + add[c]
            /\ \A w \in Workers : c \in work[w].c => work[w].old.used <= most[c]
            /\ more[c] = most[c] + add[c] /\ most[c] \in Nat /\ add[c] \in Nat
        BY <2>1, <2>2, <2>3, <2>8 DEF Covers
      <4> QED
        BY <4>1, KnownNumbers
    <3> QED
      BY <1>1, <3>1 DEF Covers
  <2> QED
    BY <1>1, <2>4, <2>12, <2>13, <2>14 DEF BillsFit
<1> QED
  BY <1>1, <1>3, <1>4, BilledPartsNext

LEMMA TickKeepsBilled ==
  ASSUME Typed, Billed, Tick
  PROVE  Billed'
<1>0. /\ Absent.used = 0 /\ NoRows \in [{} -> Rows] /\ DOMAIN NoRows = {}
      /\ \A c \in Clients : /\ Size(pending[c]) \in Nat /\ Size(tick.delta[c]) \in Nat
                            /\ NoCounts[c] = Nothing /\ Size(Nothing) = 0 /\ Nothing.via = {}
  BY NothingThere, TheTick, TypesBefore, Numbers DEF Typed, NoCounts, Nothing
<1>1. CASE TickRead
  <2>1. UNCHANGED <<row, silent, served, work>> /\ tick.pc = "idle"
    BY <1>1 DEF TickRead, db
  <2>2. tick'.pc = "read" /\ tick'.delta = pending /\ DOMAIN tick'.rows = Reported
        /\ pending' = NoCounts
    BY <1>1, TickReadDoes
  <2>3. ASSUME silent
        PROVE  /\ DOMAIN tick'.rows = {} /\ OneWay' /\ Unbilled' = Unbilled
               /\ \A most \in [Clients -> Nat] : Covers(most) => Covers(most)'
    <3>1. DOMAIN tick'.rows = {}
      BY <2>2, <2>3 DEF Reported
    <3>2. OneWay'
      BY <1>0, <2>2, <2>3, BilledParts DEF OneWay
    <3>3. Unbilled' = [c \in Clients |-> Size(pending'[c]) + Size(pending[c])]
      BY <2>2 DEF Unbilled, Size
    <3>4. Unbilled = [c \in Clients |-> Size(pending[c]) + 0]
      BY <2>1 DEF Unbilled
    <3>5. \A c \in Clients : Size(pending'[c]) + Size(pending[c]) = Size(pending[c]) + 0
      BY <1>0, <2>2
    <3>6. Unbilled' = Unbilled
      BY <3>3, <3>4, <3>5
    <3>7. \A most \in [Clients -> Nat] : Covers(most) => Covers(most)'
      BY <2>1 DEF Covers
    <3> QED
      BY <3>1, <3>2, <3>6, <3>7
  <2> QED
    BY <2>1, <2>3, BilledAfter
<1>2. CASE TickSave
  <2>1. UNCHANGED <<row, silent, pending, served>> /\ tick.pc = "read"
    BY <1>2 DEF TickSave, db, traffic
  <2>2. tick'.pc = "saved" /\ DOMAIN tick'.rows = DOMAIN tick.rows
    BY <1>2, TickSaveDoes
  <2>3. silent => tick'.delta = tick.delta
    BY <1>2 DEF TickSave
  <2>4. \A w \in Workers : work'[w] = work[w] \/ work'[w].old = Absent
    BY <1>2, TickSaveDoes
  <2>5. ASSUME silent
        PROVE  /\ DOMAIN tick'.rows = {} /\ OneWay' /\ Unbilled' = Unbilled
               /\ \A most \in [Clients -> Nat] : Covers(most) => Covers(most)'
    <3>1. DOMAIN tick'.rows = {} /\ OneWay'
      BY <2>1, <2>2, <2>3, <2>5, BilledParts DEF OneWay
    <3>2. Unbilled' = Unbilled
      BY <2>1, <2>2, <2>3, <2>5 DEF Unbilled, Size
    <3>3. \A most \in [Clients -> Nat] : Covers(most) => Covers(most)'
      BY <2>1, <2>4, CoversKept
    <3> QED
      BY <3>1, <3>2, <3>3
  <2> QED
    BY <2>1, <2>5, BilledAfter
<1>3. CASE TickCommit
  <2>1. UNCHANGED <<silent, pending, served, work>> /\ tick.pc = "saved"
    BY <1>3 DEF TickCommit, traffic
  <2>2. tick'.rows = NoRows /\ tick'.delta = tick.delta
        /\ \A c \in Clients : row'[c] = IF c \in DOMAIN tick.rows THEN tick.rows[c] ELSE row[c]
    BY <1>3, TickCommitDoes
  <2>3. ASSUME silent
        PROVE  /\ DOMAIN tick'.rows = {} /\ OneWay' /\ Unbilled' = Unbilled
               /\ \A most \in [Clients -> Nat] : Covers(most) => Covers(most)'
    <3>1. DOMAIN tick'.rows = {} /\ OneWay' /\ DOMAIN tick.rows = {}
      BY <1>0, <2>1, <2>2, <2>3, BilledParts DEF OneWay
    <3>2. tick'.pc = "fallback"
      BY <1>3, <2>3, TypesBefore DEF TickCommit
    <3>3. Unbilled' = Unbilled
      BY <2>1, <2>2, <3>2 DEF Unbilled, Size
    <3>4. \A most \in [Clients -> Nat] : Covers(most) => Covers(most)'
      BY <2>1, <2>2, <3>1 DEF Covers
    <3> QED
      BY <3>1, <3>3, <3>4
  <2> QED
    BY <2>1, <2>3, BilledAfter
<1>4. CASE TickFallback
  BY <1>4, FallbackKeepsBilled
<1>5. CASE TickBroadcast
  <2>1. UNCHANGED <<silent, pending, served>> /\ tick.pc = "broadcast"
    BY <1>5 DEF TickBroadcast, traffic
  <2>2. tick'.pc = "idle" /\ tick'.rows = NoRows /\ tick'.delta = NoCounts
    BY <1>5, TickBroadcastDoes
  <2>3. \A c \in Clients : row'[c].used = row[c].used
    BY <1>5, TickBroadcastDoes
  <2>4. \A w \in Workers : work'[w] = work[w] \/ work'[w].old = Absent
    BY <1>5, TickBroadcastDoes
  <2>5. ASSUME silent
        PROVE  /\ DOMAIN tick'.rows = {} /\ OneWay' /\ Unbilled' = Unbilled
               /\ \A most \in [Clients -> Nat] : Covers(most) => Covers(most)'
    <3>1. DOMAIN tick'.rows = {} /\ OneWay'
      BY <1>0, <2>1, <2>2, <2>5, BilledParts DEF OneWay
    <3>2. Unbilled' = Unbilled
      BY <2>1, <2>2 DEF Unbilled, Size
    <3>3. \A most \in [Clients -> Nat] : Covers(most) => Covers(most)'
      BY <2>3, <2>4, CoversKept
    <3> QED
      BY <3>1, <3>2, <3>3
  <2> QED
    BY <2>1, <2>5, BilledAfter
<1> QED
  BY <1>1, <1>2, <1>3, <1>4, <1>5 DEF Tick

LEMMA TheRestKeepsBilled ==
  ASSUME Typed, Billed, UNCHANGED <<silent, pending, served, tick>>,
         \A c \in Clients : row'[c].used = row[c].used, work' = work
  PROVE  Billed'
<1>1. ASSUME silent
      PROVE  /\ DOMAIN tick'.rows = {} /\ OneWay' /\ Unbilled' = Unbilled
             /\ \A most \in [Clients -> Nat] : Covers(most) => Covers(most)'
  <2>1. DOMAIN tick'.rows = {} /\ OneWay'
    BY <1>1, BilledParts DEF OneWay
  <2>2. Unbilled' = Unbilled
    BY DEF Unbilled, Size
  <2>3. \A most \in [Clients -> Nat] : Covers(most) => Covers(most)'
    BY DEF Covers
  <2> QED
    BY <2>1, <2>2, <2>3
<1> QED
  BY <1>1, BilledAfter

-----------------------------------------------------------------------------
(* What is charged has been delivered, and fits.                           *)

\* Where a row may come from: it is cleared, keeps what it says, is saved as
\* somebody has read it, or carries another quota, which fits or is on record.
RowsComeFrom ==
  \A c \in Clients :
    \/ row'[c].used = 0
    \/ row'[c].used = row[c].used /\ row'[c].limit = row[c].limit
    \/ \E w \in Workers : /\ c \in work[w].c
                          /\ row'[c].used = work[w].old.used
                          /\ row'[c].limit = work[w].old.limit
    \/ row'[c].used = row[c].used /\ (Fits(row'[c]) \/ c \in lowered')

\* Where what a goroutine has read may come from.
CopiesComeFrom ==
  \A w \in Workers : \A c \in Clients : c \in work'[w].c =>
    \/ work'[w].old \in {Absent, row[c]}
    \/ c \in work[w].c /\ work'[w].old = work[w].old

\* A quota is set right only when nobody has read the row.
SetRight ==
  \A c \in Clients : c \in lowered \ lowered' =>
    /\ row'[c].used = 0 /\ c \notin DOMAIN tick.rows
    /\ \A w \in Workers : c \in work'[w].c => work'[w].old = Absent

LEMMA QuotasAfterWork ==
  ASSUME Typed, Charged, Billed, Limited, row' \in [Clients -> Rows], work' \in [Workers -> Jobs],
         RowsComeFrom, CopiesComeFrom, SetRight,
         UNCHANGED <<silent, pending, served, tick>>
  PROVE  Charged' /\ Billed' /\ Limited'
<1>1. \A c \in Clients : Size(pending[c]) \in Nat /\ served[c] \in Nat
  BY Numbers, TypesBefore
<1>2. ASSUME NEW c \in Clients
      PROVE  /\ row[c].used \in Nat /\ row'[c].used \in Nat /\ row'[c].limit \in Nat
             /\ Absent.used = 0 /\ Absent.limit = 0
             /\ \A w \in Workers : work[w].old.used \in Nat
  <2>1. \A w \in Workers : work[w].old \in Rows
    BY DEF Typed, Shapes, Jobs
  <2>2. row[c] \in Rows /\ row'[c] \in Rows
    BY ARow
  <2> QED
    BY <2>1, <2>2, Numbers, NothingThere DEF Typed
<1>3. ASSUME NEW c \in Clients, ~silent, served[c] < MaxServed
      PROVE  /\ row'[c].used + Size(pending[c]) <= served[c]
             /\ \A w \in Workers : c \in work'[w].c =>
                  work'[w].old.used + Size(pending[c]) <= served[c]
  <2>1. /\ Paid(c, row[c]) /\ \A w \in Workers : c \in work[w].c => Paid(c, work[w].old)
    BY <1>3 DEF Charged
  <2>2. Paid(c, Absent)
    BY <1>1, <1>2, <2>1 DEF Paid
  <2>3. row'[c].used + Size(pending[c]) <= served[c]
    <3>1. CASE row'[c].used = 0
      BY <1>2, <2>2, <3>1 DEF Paid
    <3>2. CASE row'[c].used = row[c].used
      BY <2>1, <3>2 DEF Paid
    <3>3. CASE \E w \in Workers : c \in work[w].c /\ row'[c].used = work[w].old.used
      BY <2>1, <3>3 DEF Paid
    <3> QED
      BY <3>1, <3>2, <3>3 DEF RowsComeFrom
  <2>4. ASSUME NEW w \in Workers, c \in work'[w].c
        PROVE  work'[w].old.used + Size(pending[c]) <= served[c]
    BY <2>1, <2>2, <2>4 DEF CopiesComeFrom, Paid
  <2> QED
    BY <2>3, <2>4
<1>4. Charged'
  <2>1. ASSUME NEW c \in Clients, ~silent, served[c] < MaxServed, c \in DOMAIN tick.rows
        PROVE  /\ tick.pc = "saved" => tick.rows[c].used + Size(pending[c]) <= served[c]
               /\ tick.pc = "read" =>
                    tick.rows[c].used + Size(tick.delta[c]) + Size(pending[c]) <= served[c]
    BY <2>1 DEF Charged, Paid
  <2> QED
    BY <1>3, <2>1 DEF Charged, Paid, Size
<1>5. ASSUME NEW c \in Clients, c \notin lowered', ~silent
      PROVE  /\ Fits(row'[c])
             /\ \A w \in Workers : c \in work'[w].c => Fits(work'[w].old)
             /\ c \in DOMAIN tick.rows => Fits(tick.rows[c])
  <2>1. Fits(Absent) /\ (row'[c].used = 0 => Fits(row'[c]))
    BY <1>2 DEF Fits
  <2>2. CASE c \in lowered
    BY <1>5, <2>1, <2>2 DEF SetRight
  <2>3. CASE c \notin lowered
    <3>1. /\ Fits(row[c]) /\ \A w \in Workers : c \in work[w].c => Fits(work[w].old)
          /\ c \in DOMAIN tick.rows => Fits(tick.rows[c])
      BY <1>5, <2>3 DEF Limited
    <3>2. Fits(row'[c])
      <4>1. CASE row'[c].used = row[c].used /\ row'[c].limit = row[c].limit
        BY <3>1, <4>1 DEF Fits
      <4>2. CASE \E w \in Workers : /\ c \in work[w].c
                                    /\ row'[c].used = work[w].old.used
                                    /\ row'[c].limit = work[w].old.limit
        BY <3>1, <4>2 DEF Fits
      <4> QED
        BY <1>5, <2>1, <4>1, <4>2 DEF RowsComeFrom
    <3>3. \A w \in Workers : c \in work'[w].c => Fits(work'[w].old)
      BY <2>1, <3>1 DEF CopiesComeFrom
    <3> QED
      BY <3>1, <3>2, <3>3
  <2> QED
    BY <2>2, <2>3
<1>6. Limited'
  BY <1>5 DEF Limited, Fits
<1>7. ASSUME NEW most \in [Clients -> Nat], Covers(most) PROVE Covers(most)'
  <2>1. \A c \in Clients :
          \/ row'[c].used = 0
          \/ row'[c].used = row[c].used
          \/ \E w \in Workers : c \in work[w].c /\ row'[c].used = work[w].old.used
    BY DEF RowsComeFrom
  <2>2. \A w \in Workers : \A c \in Clients : c \in work'[w].c =>
          \/ work'[w].old \in {Absent, row[c]}
          \/ c \in work[w].c /\ work'[w].old = work[w].old
    BY DEF CopiesComeFrom
  <2> QED
    BY <1>7, <2>1, <2>2, CoversKept
<1>8. silent => DOMAIN tick'.rows = {} /\ OneWay' /\ Unbilled' = Unbilled
  BY BilledParts DEF OneWay, Unbilled, Size
<1>9. Billed'
  BY <1>7, <1>8, BilledAfter
<1> QED
  BY <1>4, <1>6, <1>9

LEMMA GoingKeepsQuotas ==
  ASSUME Typed, Charged, Billed, Limited, NEW w \in Workers, Goes(w)
  PROVE  Charged' /\ Billed' /\ Limited'
<1> DEFINE d == TheClient(w)
<1>1. CASE ReadMembers(w)
  <2>1. UNCHANGED <<row, silent, pending, served, tick, lowered>>
    BY <1>1 DEF ReadMembers, db, traffic, ghosts
  <2>2. RowsComeFrom /\ CopiesComeFrom /\ SetRight
    BY <1>1, <2>1, ReadMembersDoes DEF RowsComeFrom, CopiesComeFrom, SetRight, Turns
  <2> QED
    BY <1>1, <2>1, <2>2, ReadMembersDoes, ARow, QuotasAfterWork, TypesBefore DEF Turns
<1>2. CASE Rebuild(w)
  <2>1. UNCHANGED <<row, silent, pending, served, tick, lowered>>
    BY <1>2 DEF Rebuild, db, traffic
  <2>2. RowsComeFrom /\ CopiesComeFrom /\ SetRight
    BY <1>2, <2>1, RebuildDoes DEF RowsComeFrom, CopiesComeFrom, SetRight, Turns
  <2> QED
    BY <1>2, <2>1, <2>2, RebuildDoes, QuotasAfterWork, TypesBefore DEF Turns
<1>3. CASE Finish(w)
  <2>1. UNCHANGED <<row, silent, pending, served, tick, lowered>>
    BY <1>3 DEF Finish, db, traffic, ghosts
  <2>2. RowsComeFrom /\ CopiesComeFrom /\ SetRight
    BY <1>3, <2>1, FinishDoes, NothingThere
       DEF RowsComeFrom, CopiesComeFrom, SetRight, Turns, Typed
  <2> QED
    BY <1>3, <2>1, <2>2, FinishDoes, QuotasAfterWork, TypesBefore DEF Turns
<1>4. CASE CutRead(w)
  <2>1. UNCHANGED <<row, silent, pending, served, tick, lowered>>
    BY <1>4 DEF CutRead, db, traffic, ghosts
  <2>2. RowsComeFrom /\ CopiesComeFrom /\ SetRight
    BY <1>4, <2>1, CutReadDoes DEF RowsComeFrom, CopiesComeFrom, SetRight, Turns
  <2> QED
    BY <1>4, <2>1, <2>2, CutReadDoes, QuotasAfterWork, TypesBefore DEF Turns
<1>5. CASE CutSave(w)
  <2>1. UNCHANGED <<silent, pending, served, tick, lowered>>
    BY <1>5 DEF CutSave, traffic
  <2>2. RowsComeFrom /\ CopiesComeFrom /\ SetRight
    <3>1. RowsComeFrom
      BY <1>5, CutSaveDoes DEF RowsComeFrom
    <3> QED
      BY <1>5, <2>1, <3>1, CutSaveDoes DEF CopiesComeFrom, SetRight, Turns
  <2> QED
    BY <1>5, <2>1, <2>2, CutSaveDoes, QuotasAfterWork DEF Turns
<1>6. CASE UpdateRow(w)
  <2>1. UNCHANGED <<silent, pending, served, tick>>
    BY <1>6 DEF UpdateRow, traffic
  <2>2. RowsComeFrom
    <3> SUFFICES ASSUME NEW c \in Clients
                 PROVE  \/ row'[c].used = row[c].used /\ row'[c].limit = row[c].limit
                        \/ row'[c].used = row[c].used /\ (Fits(row'[c]) \/ c \in lowered')
      BY DEF RowsComeFrom
    <3>1. row'[c].used \in Nat /\ row'[c].limit \in Nat
      BY <1>6, UpdateRowDoes, Numbers
    <3> QED
      BY <1>6, <3>1, UpdateRowDoes DEF Fits
  <2>3. CopiesComeFrom /\ SetRight
    BY <1>6, UpdateRowDoes DEF CopiesComeFrom, SetRight, Turns
  <2> QED
    BY <1>6, <2>1, <2>2, <2>3, UpdateRowDoes, QuotasAfterWork DEF Turns
<1>7. CASE ResetRow(w)
  <2>1. /\ UNCHANGED <<silent, pending, served, tick>>
        /\ lowered' = IF row[d].status = "none" THEN lowered ELSE Righted(w, d)
    BY <1>7 DEF ResetRow, traffic
  <2>2. RowsComeFrom /\ CopiesComeFrom
    BY <1>7, ResetRowDoes DEF RowsComeFrom, CopiesComeFrom, Turns
  <2>3. SetRight
    <3> SUFFICES ASSUME NEW c \in Clients, c \in lowered \ lowered'
                 PROVE  /\ row'[c].used = 0 /\ c \notin DOMAIN tick.rows
                        /\ \A v \in Workers : c \in work'[v].c => work'[v].old = Absent
      BY DEF SetRight
    <3>1. c = d /\ ~Copied(w, d) /\ row[d].status # "none"
      BY <2>1 DEF Righted
    <3> QED
      BY <1>7, <3>1, ResetRowDoes DEF Copied, Turns
  <2> QED
    BY <1>7, <2>1, <2>2, <2>3, ResetRowDoes, QuotasAfterWork DEF Turns
<1>8. CASE ReAdd(w)
  <2>1. UNCHANGED <<row, silent, pending, served, tick, lowered>>
    BY <1>8 DEF ReAdd, db, traffic, ghosts
  <2>2. RowsComeFrom /\ CopiesComeFrom /\ SetRight
    BY <1>8, <2>1, ReAddDoes DEF RowsComeFrom, CopiesComeFrom, SetRight, Turns
  <2> QED
    BY <1>8, <2>1, <2>2, ReAddDoes, QuotasAfterWork, TypesBefore DEF Turns
<1>9. CASE BulkCommit(w)
  <2>1. UNCHANGED <<silent, pending, served, tick, lowered>>
    BY <1>9 DEF BulkCommit, traffic
  <2>2. RowsComeFrom /\ CopiesComeFrom /\ SetRight
    BY <1>9, <2>1, BulkCommitDoes, NothingThere
       DEF RowsComeFrom, CopiesComeFrom, SetRight, Turns, Typed
  <2> QED
    BY <1>9, <2>1, <2>2, BulkCommitDoes, QuotasAfterWork DEF Turns
<1>10. CASE ZeroAll(w)
  <2>1. /\ UNCHANGED <<silent, pending, served, tick>>
        /\ lowered' = {c \in lowered : Copied(w, c)}
    BY <1>10 DEF ZeroAll, traffic
  <2>2. RowsComeFrom /\ CopiesComeFrom
    BY <1>10, ZeroAllDoes DEF RowsComeFrom, CopiesComeFrom, Turns
  <2>3. SetRight
    <3> SUFFICES ASSUME NEW c \in Clients, c \in lowered \ lowered'
                 PROVE  /\ row'[c].used = 0 /\ c \notin DOMAIN tick.rows
                        /\ \A v \in Workers : c \in work'[v].c => work'[v].old = Absent
      BY DEF SetRight
    <3>1. ~Copied(w, c)
      BY <2>1
    <3>2. work[w].old = Absent
      BY <1>10, ZeroAllDoes DEF Typed, Shapes, WellFormed
    <3> QED
      BY <1>10, <3>1, <3>2, ZeroAllDoes DEF Copied, Turns
  <2> QED
    BY <1>10, <2>1, <2>2, <2>3, ZeroAllDoes, QuotasAfterWork DEF Turns
<1>11. CASE MarkAll(w)
  <2>1. UNCHANGED <<silent, pending, served, tick, lowered>>
    BY <1>11 DEF MarkAll, traffic
  <2>2. RowsComeFrom /\ CopiesComeFrom /\ SetRight
    BY <1>11, <2>1, MarkAllDoes DEF RowsComeFrom, CopiesComeFrom, SetRight, Turns
  <2> QED
    BY <1>11, <2>1, <2>2, MarkAllDoes, QuotasAfterWork DEF Turns
<1> QED
  BY <1>1, <1>2, <1>3, <1>4, <1>5, <1>6, <1>7, <1>8, <1>9, <1>10, <1>11 DEF Goes

LEMMA AskingKeepsQuotas ==
  ASSUME Typed, Charged, Billed, Limited, NEW w \in Workers, NEW c \in Clients,
         Asks(w, c)
  PROVE  Charged' /\ Billed' /\ Limited'
<1>1. CASE AddClient(w, c)
  <2>1. UNCHANGED <<silent, pending, served, tick>> /\ lowered' = Righted(w, c)
    BY <1>1 DEF AddClient, traffic
  <2>2. RowsComeFrom /\ CopiesComeFrom
    BY <1>1, AddClientDoes DEF RowsComeFrom, CopiesComeFrom, Turns
  <2>3. SetRight
    <3> SUFFICES ASSUME NEW e \in Clients, e \in lowered \ lowered'
                 PROVE  /\ row'[e].used = 0 /\ e \notin DOMAIN tick.rows
                        /\ \A v \in Workers : e \in work'[v].c => work'[v].old = Absent
      BY DEF SetRight
    <3>1. e = c /\ ~Copied(w, c)
      BY <2>1 DEF Righted
    <3> QED
      BY <1>1, <3>1, AddClientDoes DEF Copied, Turns
  <2> QED
    BY <1>1, <2>1, <2>2, <2>3, AddClientDoes, QuotasAfterWork DEF Turns
<1>2. ASSUME NEW pc \in {"update", "reset", "bulkreset", "assign"}, Open(w, c, pc)
      PROVE  Charged' /\ Billed' /\ Limited'
  <2>1. UNCHANGED <<row, silent, pending, served, tick, lowered>>
    BY <1>2 DEF Open, db, traffic, ghosts
  <2>2. RowsComeFrom /\ CopiesComeFrom /\ SetRight
    BY <1>2, <2>1, OpenDoes DEF RowsComeFrom, CopiesComeFrom, SetRight, Turns
  <2> QED
    BY <1>2, <2>1, <2>2, OpenDoes, QuotasAfterWork, TypesBefore DEF Turns
<1>3. CASE DeleteClient(w, c)
  <2>1. UNCHANGED <<silent, pending, served, tick, lowered>>
    BY <1>3 DEF DeleteClient, traffic, ghosts
  <2>2. RowsComeFrom /\ CopiesComeFrom /\ SetRight
    BY <1>3, <2>1, DeleteClientDoes, NothingThere
       DEF RowsComeFrom, CopiesComeFrom, SetRight, Turns, Typed
  <2> QED
    BY <1>3, <2>1, <2>2, DeleteClientDoes, QuotasAfterWork DEF Turns
<1>4. CASE BulkDelete(w, c)
  <2>1. UNCHANGED <<row, silent, pending, served, tick, lowered>>
    BY <1>4 DEF BulkDelete, db, traffic, ghosts
  <2>2. RowsComeFrom /\ CopiesComeFrom /\ SetRight
    BY <1>4, <2>1, BulkDeleteDoes DEF RowsComeFrom, CopiesComeFrom, SetRight, Turns
  <2> QED
    BY <1>4, <2>1, <2>2, BulkDeleteDoes, QuotasAfterWork, TypesBefore DEF Turns
<1>5. CASE BulkEnable(w, c)
  <2>1. UNCHANGED <<silent, pending, served, tick, lowered>>
    BY <1>5 DEF BulkEnable, traffic, ghosts
  <2>2. RowsComeFrom /\ CopiesComeFrom /\ SetRight
    BY <1>5, <2>1, BulkEnableDoes DEF RowsComeFrom, CopiesComeFrom, SetRight, Turns
  <2> QED
    BY <1>5, <2>1, <2>2, BulkEnableDoes, QuotasAfterWork DEF Turns
<1> QED
  BY <1>1, <1>2, <1>3, <1>4, <1>5
     DEF Asks, UpdateClient, ResetClientTraffic, BulkResetTraffic, BulkAssignInbounds

LEMMA AskingForAllKeepsQuotas ==
  ASSUME Typed, Charged, Billed, Limited, NEW w \in Workers,
         ResetAllClientTraffics(w) \/ DelDepletedClients(w)
  PROVE  Charged' /\ Billed' /\ Limited'
<1>1. CASE ResetAllClientTraffics(w)
  <2>1. UNCHANGED <<row, silent, pending, served, tick, lowered>>
    BY <1>1 DEF ResetAllClientTraffics, db, traffic, ghosts
  <2>2. RowsComeFrom /\ CopiesComeFrom /\ SetRight
    BY <1>1, <2>1, ResetAllDoes DEF RowsComeFrom, CopiesComeFrom, SetRight, Turns
  <2> QED
    BY <1>1, <2>1, <2>2, ResetAllDoes, QuotasAfterWork, TypesBefore DEF Turns
<1>2. CASE DelDepletedClients(w)
  <2>1. UNCHANGED <<silent, pending, served, tick, lowered>>
    BY <1>2 DEF DelDepletedClients, traffic
  <2>2. RowsComeFrom /\ CopiesComeFrom /\ SetRight
    <3>1. RowsComeFrom
      <4> SUFFICES ASSUME NEW e \in Clients
                   PROVE  \/ row'[e].used = 0
                          \/ row'[e].used = row[e].used /\ row'[e].limit = row[e].limit
        BY DEF RowsComeFrom
      <4> QED
        BY <1>2, DelDepletedDoes, NothingThere DEF Typed
    <3> QED
      BY <1>2, <2>1, <3>1, DelDepletedDoes DEF CopiesComeFrom, SetRight, Turns
  <2> QED
    BY <1>2, <2>1, <2>2, DelDepletedDoes, QuotasAfterWork DEF Turns
<1> QED
  BY <1>1, <1>2

LEMMA SendKeepsQuotas ==
  ASSUME Typed, Charged, Billed, Limited, NEW c \in Clients, Send(c)
  PROVE  Charged' /\ Billed' /\ Limited'
<1>1. UNCHANGED <<row, silent, tick, work, lowered>>
  BY DEF Send, db, ghosts
<1>2. Limited'
  BY <1>1 DEF Limited, Fits
<1>3. PICK i \in Inbounds, a \in Amounts :
        LET sum == served[c] + a[1] + a[2]
        IN /\ pending' = [pending EXCEPT ![c] = [via |-> IF silent THEN {i} ELSE {}, up |-> a[1], down |-> a[2]]]
           /\ served' = [served EXCEPT ![c] = IF sum < MaxServed THEN sum ELSE MaxServed]
  BY DEF Send
<1>4. a[1] \in Nat /\ a[2] \in Nat /\ MaxServed \in Nat /\ served[c] \in Nat
  BY TypesBefore DEF Typed, ClientsAssumption
<1> DEFINE up == a[1]
           down == a[2]
           d == [via |-> IF silent THEN {i} ELSE {}, up |-> up, down |-> down]
<1>5. pending[c] = Nothing /\ Size(pending[c]) = 0
  BY Numbers DEF Send
<1>6. pending \in [Clients -> Counts] /\ served \in [Clients -> Nat]
  BY TypesBefore
<1>7. Size(d) = up + down
  BY DEF Size
<1>8. pending' = [pending EXCEPT ![c] = d]
  BY <1>3
<1>9. /\ \A e \in Clients \ {c} : pending'[e] = pending[e] /\ served'[e] = served[e]
      /\ pending'[c] = d
  BY <1>3, <1>6, <1>8
<1>10. served'[c] < MaxServed =>
         served[c] < MaxServed /\ served'[c] = served[c] + Size(pending'[c])
  <2>1. served'[c] = LET sum == served[c] + up + down
                     IN IF sum < MaxServed THEN sum ELSE MaxServed
    BY <1>3, <1>6
  <2>2. up \in Nat /\ down \in Nat
    BY <1>4
  <2> HIDE DEF up, down, d
  <2> QED
    BY <1>4, <1>7, <1>9, <2>1, <2>2
<1>11. Size(d) \in Nat
  BY <1>4, <1>7
<1> HIDE DEF d
<1>12. ASSUME NEW e \in Clients, NEW r \in Rows, NEW n \in Nat, served'[e] < MaxServed,
              r.used + n + Size(pending[e]) <= served[e]
       PROVE  r.used + n + Size(pending'[e]) <= served'[e]
  <2>1. r.used \in Nat
    BY Numbers
  <2>2. CASE e = c
    BY <1>4, <1>5, <1>9, <1>10, <1>11, <1>12, <2>1, <2>2
  <2>3. CASE e # c
    <3>1. Size(pending'[e]) = Size(pending[e])
      BY <1>9, <2>3
    <3> QED
      BY <1>9, <1>12, <2>3, <3>1
  <2> QED
    BY <2>2, <2>3
<1>13. \A e \in Clients : served'[e] < MaxServed => served[e] < MaxServed
  BY <1>9, <1>10
<1>14. \A e \in Clients : Size(pending[e]) \in Nat /\ Size(pending'[e]) \in Nat
                          /\ served[e] \in Nat
  <2>1. \A e \in Clients : Size(pending[e]) \in Nat /\ served[e] \in Nat
    BY <1>6, Numbers
  <2>2. \A e \in Clients : pending'[e] \in {pending[e], d}
    BY <1>9
  <2> QED
    BY <1>11, <2>1, <2>2
<1>15. ASSUME NEW e \in Clients, ~silent, served'[e] < MaxServed
       PROVE  /\ row[e].used + Size(pending'[e]) <= served'[e]
              /\ \A w \in Workers : e \in work[w].c =>
                   work[w].old.used + Size(pending'[e]) <= served'[e]
              /\ e \in DOMAIN tick.rows =>
                   /\ tick.pc = "saved" => tick.rows[e].used + Size(pending'[e]) <= served'[e]
                   /\ tick.pc = "read" =>
                        tick.rows[e].used + Size(tick.delta[e]) + Size(pending'[e]) <= served'[e]
  <2>1. served[e] < MaxServed
    BY <1>13, <1>15
  <2>2. ASSUME NEW r \in Rows, Paid(e, r)
        PROVE  r.used + Size(pending'[e]) <= served'[e]
    <3>1. r.used \in Nat
      BY Numbers
    <3>2. r.used + 0 + Size(pending[e]) <= served[e]
      BY <1>14, <2>2, <3>1 DEF Paid
    <3>3. r.used + 0 + Size(pending'[e]) <= served'[e]
      BY <1>12, <1>15, <3>2
    <3> QED
      BY <1>14, <3>1, <3>3
  <2>3. Paid(e, row[e]) /\ row[e] \in Rows
    BY <1>15, <2>1, ARow DEF Charged
  <2>4. ASSUME NEW w \in Workers, e \in work[w].c
        PROVE  work[w].old.used + Size(pending'[e]) <= served'[e]
    <3>1. Paid(e, work[w].old) /\ work[w].old \in Rows
      BY <1>15, <2>1, <2>4 DEF Charged, Typed, Shapes, Jobs
    <3> QED
      BY <2>2, <3>1
  <2>5. ASSUME e \in DOMAIN tick.rows, tick.pc = "saved"
        PROVE  tick.rows[e].used + Size(pending'[e]) <= served'[e]
    <3>1. Paid(e, tick.rows[e]) /\ tick.rows[e] \in Rows
      BY <1>15, <2>1, <2>5, TheTick DEF Charged
    <3> QED
      BY <2>2, <3>1
  <2>6. ASSUME e \in DOMAIN tick.rows, tick.pc = "read"
        PROVE  tick.rows[e].used + Size(tick.delta[e]) + Size(pending'[e]) <= served'[e]
    <3>1. tick.rows[e].used + Size(tick.delta[e]) + Size(pending[e]) <= served[e]
      BY <1>15, <2>1, <2>6 DEF Charged
    <3>2. tick.rows[e] \in Rows /\ Size(tick.delta[e]) \in Nat
      BY <2>6, TheTick, Numbers
    <3> QED
      BY <1>12, <1>15, <3>1, <3>2
  <2> QED
    BY <2>2, <2>3, <2>4, <2>5, <2>6
<1>16. Charged'
  BY <1>1, <1>15 DEF Charged, Paid, Size
<1> QED
  BY <1>2, <1>16, SendKeepsBilled

\* What a goroutine that the tick has started holds.
LEMMA SpawnedHoldNothing ==
  ASSUME Typed, Charged, Limited, NEW c \in Clients, ~silent, NEW w \in Workers,
         c \in work'[w].c, work'[w] = work[w] \/ work'[w].old = Absent
  PROVE  /\ served[c] < MaxServed => work'[w].old.used + Size(pending[c]) <= served[c]
         /\ c \notin lowered => Fits(work'[w].old)
<1>1. CASE work'[w] = work[w]
  BY <1>1 DEF Charged, Limited, Paid
<1>2. CASE work'[w].old = Absent
  <2>1. Absent.used = 0 /\ Absent.limit = 0 /\ Absent.used \in Nat /\ Absent.limit \in Nat
    BY NothingThere DEF Typed
  <2>2. row[c].used \in Nat /\ Size(pending[c]) \in Nat /\ served[c] \in Nat
    BY ARow, Numbers, TypesBefore
  <2>3. served[c] < MaxServed => row[c].used + Size(pending[c]) <= served[c]
    BY DEF Charged, Paid
  <2> QED
    BY <1>2, <2>1, <2>2, <2>3 DEF Fits
<1> QED
  BY <1>1, <1>2

LEMMA TickSaveKeepsQuotas ==
  ASSUME Typed, Charged, Limited, TickSave
  PROVE  Charged' /\ Limited'
<1>1. UNCHANGED <<row, silent, pending, served, lowered>> /\ tick.pc = "read"
  BY DEF TickSave, db, traffic
<1>2. \A w \in Workers : work'[w] = work[w] \/ work'[w].old = Absent
  BY TickSaveDoes
<1>3. ASSUME NEW c \in DOMAIN tick.rows
      PROVE  /\ c \in Clients /\ tick.rows[c] \in Rows
             /\ \E a \in Nat :
                  /\ a <= Size(tick.delta[c]) /\ tick'.rows[c].used = tick.rows[c].used + a
                  /\ Fits(tick.rows[c]) => Fits(tick'.rows[c])
  <2>1. c \in Clients /\ tick.rows[c] \in Rows /\ tick.delta[c] \in Counts
    BY TheTick
  <2>2. PICK a \in Charges(tick.rows[c], tick.delta[c]) :
          tick'.rows[c].used = tick.rows[c].used + a
    BY TickSaveDoes
  <2>3. /\ a \in Nat /\ a <= Size(tick.delta[c])
        /\ tick.rows[c].limit > 0 /\ tick.rows[c].used <= tick.rows[c].limit
             => tick.rows[c].used + a <= tick.rows[c].limit
    BY <2>1, WhatIsCharged
  <2>4. tick'.rows[c].limit = tick.rows[c].limit
    BY TickSaveDoes
  <2> QED
    BY <2>1, <2>2, <2>3, <2>4 DEF Fits
<1>4. DOMAIN tick'.rows = DOMAIN tick.rows /\ tick'.pc = "saved"
  BY TickSaveDoes
<1>5. ASSUME NEW c \in DOMAIN tick.rows, ~silent, served[c] < MaxServed
      PROVE  tick'.rows[c].used + Size(pending[c]) <= served[c]
  <2>1. tick.rows[c].used + Size(tick.delta[c]) + Size(pending[c]) <= served[c]
    BY <1>1, <1>3, <1>5 DEF Charged
  <2>2. PICK a \in Nat : a <= Size(tick.delta[c]) /\ tick'.rows[c].used = tick.rows[c].used + a
    BY <1>3
  <2>3. /\ Size(tick.delta[c]) \in Nat /\ Size(pending[c]) \in Nat /\ served[c] \in Nat
        /\ tick.rows[c].used \in Nat
    BY <1>3, TheTick, Numbers, TypesBefore
  <2> QED
    BY <2>1, <2>2, <2>3
<1>6. Charged'
  BY <1>1, <1>2, <1>4, <1>5, SpawnedHoldNothing DEF Charged, Paid, Size
<1>7. Limited'
  BY <1>1, <1>2, <1>3, <1>4, SpawnedHoldNothing DEF Limited, Fits
<1> QED
  BY <1>6, <1>7

LEMMA TickKeepsQuotas ==
  ASSUME Typed, Charged, Billed, Limited, Tick
  PROVE  Charged' /\ Billed' /\ Limited'
<1> SUFFICES Charged' /\ Limited'
  BY TickKeepsBilled
<1>0. \A c \in Clients : /\ Size(pending[c]) \in Nat /\ served[c] \in Nat
                         /\ row[c].used \in Nat
  BY ARow, Numbers, TypesBefore
<1>1. CASE TickRead
  <2>1. UNCHANGED <<row, silent, served, work, lowered>>
    BY <1>1 DEF TickRead, db, ghosts
  <2>2. \A c \in Clients : pending'[c] = Nothing /\ Size(Nothing) = 0
    BY <1>1, TickReadDoes, Numbers DEF NoCounts
  <2>3. ASSUME NEW c \in Clients, ~silent, served[c] < MaxServed
        PROVE  /\ row[c].used + 0 <= served[c]
               /\ \A w \in Workers : c \in work[w].c => work[w].old.used + 0 <= served[c]
               /\ c \in DOMAIN tick'.rows =>
                    tick'.rows[c].used + Size(tick'.delta[c]) + 0 <= served[c]
    <3>1. row[c].used + Size(pending[c]) <= served[c]
      BY <2>3 DEF Charged, Paid
    <3>2. ASSUME NEW w \in Workers, c \in work[w].c
          PROVE  work[w].old.used + 0 <= served[c]
      <4>1. work[w].old.used + Size(pending[c]) <= served[c]
        BY <2>3, <3>2 DEF Charged, Paid
      <4>2. work[w].old.used \in Nat
        BY Numbers DEF Typed, Shapes, Jobs
      <4> QED
        BY <1>0, <4>1, <4>2
    <3>3. c \in DOMAIN tick'.rows => tick'.rows[c] = row[c]
      BY <1>1, TickReadDoes
    <3>4. tick'.delta[c] = pending[c]
      BY <1>1, TickReadDoes
    <3> QED
      BY <1>0, <3>1, <3>2, <3>3, <3>4
  <2>4. tick'.pc = "read"
    BY <1>1, TickReadDoes
  <2>5. ASSUME NEW c \in Clients
        PROVE  /\ pending'[c].up + pending'[c].down = 0
               /\ Size(tick'.delta[c]) = tick'.delta[c].up + tick'.delta[c].down
    BY <2>2 DEF Size
  <2>6. Charged'
    BY <2>1, <2>3, <2>4, <2>5 DEF Charged, Paid, Size
  <2>7. Limited'
    <3>1. \A c \in DOMAIN tick'.rows : tick'.rows[c] = row[c]
      BY <1>1, TickReadDoes
    <3> QED
      BY <2>1, <3>1 DEF Limited, Fits
  <2> QED
    BY <2>6, <2>7
<1>2. CASE TickSave
  BY <1>2, TickSaveKeepsQuotas
<1>3. CASE TickCommit
  <2>1. UNCHANGED <<silent, pending, served, work, lowered>> /\ tick.pc = "saved"
    BY <1>3 DEF TickCommit, traffic, ghosts
  <2>2. DOMAIN tick'.rows = {}
    BY <1>3, TickCommitDoes, TheTick
  <2>3. \A c \in Clients : row'[c] = IF c \in DOMAIN tick.rows THEN tick.rows[c] ELSE row[c]
    BY <1>3, TickCommitDoes
  <2>4. Charged'
    BY <2>1, <2>2, <2>3 DEF Charged, Paid, Size
  <2>5. Limited'
    BY <2>1, <2>2, <2>3 DEF Limited, Fits
  <2> QED
    BY <2>4, <2>5
<1>4. CASE TickFallback
  <2>1. silent /\ silent' = silent
    BY <1>4, TickFallbackDoes DEF TickFallback
  <2> QED
    BY <2>1 DEF Charged, Limited
<1>5. CASE TickBroadcast
  <2>1. UNCHANGED <<silent, pending, served, lowered>>
    BY <1>5 DEF TickBroadcast, traffic, ghosts
  <2>2. DOMAIN tick'.rows = {}
    BY <1>5, TickBroadcastDoes, TheTick
  <2>3. \A c \in Clients : row'[c].used = row[c].used /\ row'[c].limit = row[c].limit
    BY <1>5, TickBroadcastDoes
  <2>4. \A w \in Workers : work'[w] = work[w] \/ work'[w].old = Absent
    BY <1>5, TickBroadcastDoes
  <2>5. Charged'
    BY <2>1, <2>2, <2>3, <2>4, SpawnedHoldNothing DEF Charged, Paid, Size
  <2>6. Limited'
    BY <2>1, <2>2, <2>3, <2>4, SpawnedHoldNothing DEF Limited, Fits
  <2> QED
    BY <2>5, <2>6
<1> QED
  BY <1>1, <1>2, <1>3, <1>4, <1>5 DEF Tick

LEMMA TheRestKeepsQuotas ==
  ASSUME Typed, Charged, Billed, Limited, DatePasses \/ RestartXray \/ GetClients
  PROVE  Charged' /\ Billed' /\ Limited'
<1>1. CASE DatePasses
  <2>1. UNCHANGED <<row, silent, pending, served, tick, work, lowered>>
    BY <1>1 DEF DatePasses, traffic, ghosts
  <2> QED
    BY <2>1, TheRestKeepsBilled DEF Charged, Limited, Paid, Size, Fits
<1>2. CASE RestartXray
  <2>1. UNCHANGED <<row, silent, pending, served, tick, work, lowered>>
    BY <1>2 DEF RestartXray, db, traffic, ghosts
  <2> QED
    BY <2>1, TheRestKeepsBilled DEF Charged, Limited, Paid, Size, Fits
<1>3. CASE GetClients
  <2>1. UNCHANGED <<silent, pending, served, tick, work, lowered>>
    BY <1>3 DEF GetClients, traffic
  <2>2. \A c \in Clients : row'[c].used = row[c].used /\ row'[c].limit = row[c].limit
    BY <1>3, GetClientsDoes
  <2> QED
    BY <2>1, <2>2, TheRestKeepsBilled DEF Charged, Limited, Paid, Size, Fits
<1> QED
  BY <1>1, <1>2, <1>3

-----------------------------------------------------------------------------
(* Who belongs there is served, and nobody else, once all is done.         *)

Serving == OneTransaction /\ WillBeServed /\ WillLeave

\* What one goroutine has promised.
DueBy(j, i) == j.pc # "assign" /\ (i \in j.todo \/ \E s \in j.snap : s[1] = i)
CutBy(j, c) == j.pc \in {"cut", "cutsave"} /\ j.c = {c}
ComesBy(j, c) == j.pc = "readd" /\ j.c = {c}
HeldBy(j, c) == j.pc \in {"bulk", "bulkwrite"} /\ j.c = {c}

\* Only the promises of the goroutine that goes on can change.
LEMMA Promised ==
  ASSUME Typed, NEW w \in Workers, Turns(w)
  PROVE  /\ \A i \in Inbounds : Due(i) => DueBy(work[w], i) \/ Due(i)'
         /\ \A i \in Inbounds : DueBy(work'[w], i) => Due(i)'
         /\ \A c \in Clients : Cut(c) => CutBy(work[w], c) \/ Cut(c)'
         /\ \A c \in Clients : CutBy(work'[w], c) => Cut(c)'
         /\ \A c \in Clients : Comes(c) => ComesBy(work[w], c) \/ Comes(c)'
         /\ \A c \in Clients : ComesBy(work'[w], c) => Comes(c)'
         /\ \A v \in Workers, c \in Clients :
              Holds(v, c)' => Holds(v, c) \/ HeldBy(work'[w], c)
BY DEF Turns, Due, DueBy, Cut, CutBy, Comes, ComesBy, Holds, HeldBy

\* A goroutine with nothing to do has promised nothing.
LEMMA NothingPromised ==
  ASSUME Typed, NEW w \in Workers, work[w] = NoWork
  PROVE  /\ \A i \in Inbounds : ~DueBy(work[w], i)
         /\ \A c \in Clients : ~CutBy(work[w], c) /\ ~ComesBy(work[w], c) /\ ~HeldBy(work[w], c)
BY NothingThere DEF DueBy, CutBy, ComesBy, HeldBy, Typed

\* The transaction of the tick while others go on.
LEMMA TransactionAfterWork ==
  ASSUME Typed, OneTransaction, tick' = tick, lost => lost',
         \A c \in DOMAIN tick.rows : tick.pc = "saved" =>
           /\ \A v \in Workers : ~Holds(v, c)'
           /\ ~lost' =>
                /\ row'[c].status = row[c].status /\ row'[c].enable = row[c].enable
                /\ on'[c] = on[c]
                /\ Cut(c) => Cut(c)'
  PROVE  OneTransaction'
<1>1. \A c \in DOMAIN tick.rows : tick.rows[c].status # "none"
  BY DEF OneTransaction
<1>2. ASSUME tick.pc = "saved", NEW c \in DOMAIN tick.rows
      PROVE  /\ \A v \in Workers : ~Holds(v, c)'
             /\ ~lost' =>
                  /\ row'[c].status # "none" /\ tick.rows[c].enable = row'[c].enable
                  /\ \/ tick.rows[c].status = row'[c].status
                     \/ tick.rows[c].status \in Expired /\ (on'[c] = {} \/ Cut(c)')
  <2>1. ~lost => /\ row[c].status # "none" /\ tick.rows[c].enable = row[c].enable
                 /\ \/ tick.rows[c].status = row[c].status
                    \/ tick.rows[c].status \in Expired /\ (on[c] = {} \/ Cut(c))
    BY <1>2 DEF OneTransaction
  <2> QED
    BY <1>2, <2>1
<1> QED
  BY <1>1, <1>2 DEF OneTransaction

\* Who belongs to an inbound after the step did so before, or is provided for.
JoinersKept ==
  \A i \in Inbounds, c \in Clients : ~lost' /\ c \in Members(i)' =>
    \/ c \in Members(i) /\ (Comes(c) => Comes(c)')
    \/ Due(i)' \/ Comes(c)'

\* Who does not belong to it did not before, or is provided for.
LeaversKept ==
  \A i \in Inbounds, c \in Clients : ~lost' /\ c \notin Members(i)' =>
    \/ /\ c \notin Members(i)
       /\ row[c].status # "none" /\ i \in on[c] /\ Cut(c) =>
            row'[c].status # "none" /\ i \in on'[c] /\ Cut(c)'
    \/ Due(i)' \/ <<c, i>> \in stray'
    \/ row'[c].status # "none" /\ i \in on'[c] /\ Cut(c)'

LEMMA Serves ==
  ASSUME Typed, Serving, OneTransaction', lost => lost', UNCHANGED <<settings, core>>,
         stray \subseteq stray', \A i \in Inbounds : Due(i) => Due(i)',
         JoinersKept, LeaversKept
  PROVE  Serving'
<1>1. WillBeServed'
  <2> SUFFICES ASSUME ~lost', NEW i \in Inbounds, NEW c \in Members(i)'
               PROVE  c \in settings'[i] \cap core'[i] \/ Due(i)' \/ Comes(c)'
    BY DEF WillBeServed
  <2>1. c \in Clients
    BY DEF Members
  <2>2. c \in Members(i) => c \in settings[i] \cap core[i] \/ Due(i) \/ Comes(c)
    BY DEF Serving, WillBeServed
  <2> QED
    BY <2>1, <2>2 DEF JoinersKept
<1>2. WillLeave'
  <2> SUFFICES ASSUME ~lost', NEW i \in Inbounds,
                      NEW c \in (settings'[i] \cup core'[i]) \ Members(i)'
               PROVE  \/ <<c, i>> \in stray' \/ Due(i)'
                      \/ row'[c].status # "none" /\ i \in on'[c] /\ Cut(c)'
    BY DEF WillLeave
  <2>1. c \in Clients
    BY TypesBefore
  <2>2. c \notin Members(i) =>
          \/ <<c, i>> \in stray \/ Due(i)
          \/ row[c].status # "none" /\ i \in on[c] /\ Cut(c)
    BY DEF Serving, WillLeave
  <2> QED
    BY <2>1, <2>2 DEF LeaversKept
<1> QED
  BY <1>1, <1>2 DEF Serving

\* A step of one goroutine that changes no row.
LEMMA QuietServes ==
  ASSUME Typed, Serving, NEW w \in Workers, Turns(w),
         UNCHANGED <<row, on, settings, core, stray, lost, tick>>,
         \A i \in Inbounds : DueBy(work[w], i) => DueBy(work'[w], i),
         \A c \in Clients :
           /\ CutBy(work[w], c) => CutBy(work'[w], c) \/ row[c].status = "none"
           /\ ComesBy(work[w], c) => ComesBy(work'[w], c)
           /\ HeldBy(work'[w], c) => Holds(w, c) \/ Unlocked(c)
  PROVE  Serving'
<1>1. \A i \in Inbounds : Due(i) => Due(i)'
  BY Promised
<1>2. \A i \in Inbounds : Members(i)' = Members(i)
  BY DEF Members
<1>3. \A c \in Clients : Comes(c) => Comes(c)'
  BY Promised
<1>4. \A c \in Clients : Cut(c) => Cut(c)' \/ row[c].status = "none"
  BY Promised
<1>5. OneTransaction'
  <2>1. ASSUME NEW c \in DOMAIN tick.rows, tick.pc = "saved"
        PROVE  c \in Clients /\ (\A v \in Workers : ~Holds(v, c)')
               /\ (~lost => row[c].status # "none")
    <3>1. c \in Clients /\ (\A v \in Workers : ~Holds(v, c)) /\ ~Unlocked(c)
          /\ (~lost => row[c].status # "none")
      BY <2>1, TheTick DEF Serving, OneTransaction, Unlocked
    <3> QED
      BY <3>1, Promised
  <2>2. \A c \in DOMAIN tick.rows : tick.pc = "saved" =>
           /\ \A v \in Workers : ~Holds(v, c)'
           /\ ~lost' =>
                /\ row'[c].status = row[c].status /\ row'[c].enable = row[c].enable
                /\ on'[c] = on[c]
                /\ Cut(c) => Cut(c)'
    BY <1>4, <2>1
  <2> QED
    BY <2>2, TransactionAfterWork DEF Serving
<1>6. JoinersKept
  BY <1>2, <1>3 DEF JoinersKept
<1>7. LeaversKept
  BY <1>2, <1>4 DEF LeaversKept
<1> QED
  BY <1>1, <1>5, <1>6, <1>7, Serves

\* A step of one goroutine about one client, whom the tick does not hold.
LEMMA OneServes ==
  ASSUME Typed, Serving, NEW w \in Workers, Turns(w), NEW c \in Clients, lost => lost',
         UNCHANGED <<settings, core, tick>>, stray \subseteq stray',
         \A d \in Clients \ {c} : row'[d] = row[d] /\ on'[d] = on[d],
         \A i \in Inbounds : DueBy(work[w], i) => DueBy(work'[w], i),
         \A d \in Clients \ {c} : ~CutBy(work[w], d) /\ ~ComesBy(work[w], d),
         \A d \in Clients : ~HeldBy(work'[w], d),
         tick.pc = "saved" /\ c \in DOMAIN tick.rows => row[c].status = "none",
         \A i \in Inbounds : ~lost' /\ c \in Members(i)' =>
           \/ c \in Members(i) /\ (Comes(c) => Comes(c)')
           \/ Due(i)' \/ Comes(c)',
         \A i \in Inbounds : ~lost' /\ c \notin Members(i)' =>
           \/ /\ c \notin Members(i)
              /\ row[c].status # "none" /\ i \in on[c] /\ Cut(c) =>
                   row'[c].status # "none" /\ i \in on'[c] /\ Cut(c)'
           \/ Due(i)' \/ <<c, i>> \in stray'
  PROVE  Serving'
<1>1. \A i \in Inbounds : Due(i) => Due(i)'
  BY Promised
<1>2. \A i \in Inbounds, d \in Clients \ {c} : d \in Members(i)' <=> d \in Members(i)
  BY DEF Members
<1>3. \A d \in Clients \ {c} : (Comes(d) => Comes(d)') /\ (Cut(d) => Cut(d)')
  BY Promised
<1>4. OneTransaction'
  <2>1. ASSUME NEW d \in DOMAIN tick.rows, tick.pc = "saved"
        PROVE  /\ \A v \in Workers : ~Holds(v, d)'
               /\ ~lost' =>
                    /\ row'[d].status = row[d].status /\ row'[d].enable = row[d].enable
                    /\ on'[d] = on[d]
                    /\ Cut(d) => Cut(d)'
    <3>1. /\ d \in Clients /\ \A v \in Workers : ~Holds(v, d)
          /\ ~lost => row[d].status # "none"
      BY <2>1, TheTick DEF Serving, OneTransaction
    <3>2. \A v \in Workers : ~Holds(v, d)'
      BY <3>1, Promised
    <3>3. CASE d = c
      BY <2>1, <3>1, <3>2, <3>3
    <3>4. CASE d # c
      BY <1>3, <3>1, <3>2, <3>4
    <3> QED
      BY <3>3, <3>4
  <2> QED
    BY <2>1, TransactionAfterWork DEF Serving
<1>5. JoinersKept
  <2> SUFFICES ASSUME NEW i \in Inbounds, NEW d \in Clients, ~lost', d \in Members(i)'
               PROVE  \/ d \in Members(i) /\ (Comes(d) => Comes(d)')
                      \/ Due(i)' \/ Comes(d)'
    BY DEF JoinersKept
  <2>1. CASE d = c
    BY <2>1
  <2>2. CASE d # c
    BY <1>2, <1>3, <2>2
  <2> QED
    BY <2>1, <2>2
<1>6. LeaversKept
  <2> SUFFICES ASSUME NEW i \in Inbounds, NEW d \in Clients, ~lost', d \notin Members(i)'
               PROVE  \/ /\ d \notin Members(i)
                         /\ row[d].status # "none" /\ i \in on[d] /\ Cut(d) =>
                              row'[d].status # "none" /\ i \in on'[d] /\ Cut(d)'
                      \/ Due(i)' \/ <<d, i>> \in stray'
    BY DEF LeaversKept
  <2>1. CASE d = c
    BY <2>1
  <2>2. CASE d # c
    BY <1>2, <1>3, <2>2
  <2> QED
    BY <2>1, <2>2
<1> QED
  BY <1>1, <1>4, <1>5, <1>6, Serves

LEMMA RebuildServes ==
  ASSUME Typed, Serving, NEW w \in Workers, Rebuild(w)
  PROVE  Serving'
<1>1. PICK i \in Inbounds, M \in SUBSET Clients :
        /\ work[w].snap = {<<i, M>>}
        /\ settings' = [settings EXCEPT ![i] = M] /\ core' = [core EXCEPT ![i] = M]
        /\ lost' = (lost \/ M # Members(i)) /\ stray' = {p \in stray : p[2] # i}
  BY RebuildDoes
<1>2. UNCHANGED <<row, on, tick>>
  BY DEF Rebuild, db
<1>3. \A k \in Inbounds : Members(k)' = Members(k)
  BY <1>2 DEF Members
<1>4. /\ Turns(w) /\ work'[w].todo = work[w].todo /\ work'[w].c = work[w].c
      /\ \/ work[w].pc = "bulkwrite" /\ work'[w].pc = "bulk"
         \/ work[w].pc = "write" /\ work'[w].pc = "next"
  BY RebuildDoes
<1>5. ASSUME NEW k \in Inbounds, Due(k), k # i
      PROVE  Due(k)'
  <2>1. DueBy(work[w], k) => DueBy(work'[w], k)
    BY <1>1, <1>4, <1>5 DEF DueBy
  <2> QED
    BY <1>4, <1>5, <2>1, Promised
<1>6. \A c \in Clients : /\ Comes(c) => Comes(c)'
                         /\ Cut(c) => Cut(c)'
                         /\ \A v \in Workers : Holds(v, c)' => \E u \in Workers : Holds(u, c)
  <2> TAKE c \in Clients
  <2>1. ~ComesBy(work[w], c) /\ ~CutBy(work[w], c)
    BY <1>4 DEF ComesBy, CutBy
  <2>2. HeldBy(work'[w], c) => Holds(w, c)
    BY <1>4 DEF HeldBy, Holds
  <2> QED
    BY <1>4, <2>1, <2>2, Promised
<1>7. OneTransaction'
  <2>1. ASSUME NEW c \in DOMAIN tick.rows, tick.pc = "saved"
        PROVE  /\ \A v \in Workers : ~Holds(v, c)'
               /\ Cut(c) => Cut(c)'
    <3>1. c \in Clients /\ \A v \in Workers : ~Holds(v, c)
      BY <2>1, TheTick DEF Serving, OneTransaction
    <3> QED
      BY <1>6, <3>1
  <2>2. lost => lost'
    BY <1>1
  <2> QED
    BY <1>2, <2>1, <2>2, TransactionAfterWork DEF Serving
<1>8. settings'[i] = M /\ core'[i] = M
      /\ \A k \in Inbounds \ {i} : settings'[k] = settings[k] /\ core'[k] = core[k]
  BY <1>1, TypesBefore
<1>9. WillBeServed'
  <2> SUFFICES ASSUME ~lost', NEW k \in Inbounds, NEW c \in Members(k)'
               PROVE  c \in settings'[k] \cap core'[k] \/ Due(k)' \/ Comes(c)'
    BY DEF WillBeServed
  <2>1. c \in Clients /\ c \in Members(k) /\ ~lost /\ M = Members(i)
    BY <1>1, <1>3 DEF Members
  <2>2. c \in settings[k] \cap core[k] \/ Due(k) \/ Comes(c)
    BY <2>1 DEF Serving, WillBeServed
  <2> QED
    BY <1>5, <1>6, <1>8, <2>1, <2>2
<1>10. WillLeave'
  <2> SUFFICES ASSUME ~lost', NEW k \in Inbounds,
                      NEW c \in (settings'[k] \cup core'[k]) \ Members(k)'
               PROVE  \/ <<c, k>> \in stray' \/ Due(k)'
                      \/ row'[c].status # "none" /\ k \in on'[c] /\ Cut(c)'
    BY DEF WillLeave
  <2>1. ~lost /\ M = Members(i) /\ c \notin Members(k)
    BY <1>1, <1>3
  <2>2. k # i /\ c \in settings[k] \cup core[k] /\ c \in Clients
    BY <1>8, <2>1, TypesBefore
  <2>3. \/ <<c, k>> \in stray \/ Due(k)
        \/ row[c].status # "none" /\ k \in on[c] /\ Cut(c)
    BY <2>1, <2>2 DEF Serving, WillLeave
  <2> QED
    BY <1>1, <1>2, <1>5, <1>6, <2>2, <2>3
<1> QED
  BY <1>7, <1>9, <1>10 DEF Serving

LEMMA ReAddServes ==
  ASSUME Typed, Serving, NEW w \in Workers, ReAdd(w)
  PROVE  Serving'
<1> DEFINE d == TheClient(w)
<1>1. UNCHANGED <<row, on, settings, tick, lost, stray>>
  BY DEF ReAdd, db, ghosts
<1>2. /\ Turns(w) /\ d \in Clients /\ work[w].c = {d} /\ work[w].pc = "readd"
      /\ work'[w].pc = "next" /\ work'[w].todo = on[d]
      /\ \A i \in Inbounds : core'[i] = IF i \in on[d] THEN core[i] \cup {d} ELSE core[i]
  BY ReAddDoes
<1>3. work[w].todo = {} /\ work[w].snap = {}
  BY <1>2 DEF Typed, Shapes, WellFormed
<1> HIDE DEF d
<1>4. \A i \in Inbounds : Members(i)' = Members(i)
  BY <1>1 DEF Members
<1>5. \A i \in Inbounds : (Due(i) => Due(i)') /\ (i \in on[d] => Due(i)')
  <2> TAKE i \in Inbounds
  <2>1. ~DueBy(work[w], i)
    BY <1>3 DEF DueBy
  <2>2. i \in on[d] => DueBy(work'[w], i)
    BY <1>2 DEF DueBy
  <2> QED
    BY <1>2, <2>1, <2>2, Promised
<1>6. \A c \in Clients : /\ Comes(c) => Comes(c)' \/ c = d
                         /\ Cut(c) => Cut(c)'
                         /\ \A v \in Workers : Holds(v, c)' => Holds(v, c)
  <2> TAKE c \in Clients
  <2>1. ~CutBy(work[w], c) /\ ~HeldBy(work'[w], c) /\ (ComesBy(work[w], c) => c = d)
    BY <1>2 DEF CutBy, HeldBy, ComesBy
  <2> QED
    BY <1>2, <2>1, Promised
<1>7. OneTransaction'
  <2>1. ASSUME NEW c \in DOMAIN tick.rows, tick.pc = "saved"
        PROVE  (\A v \in Workers : ~Holds(v, c)') /\ (Cut(c) => Cut(c)')
    <3>1. c \in Clients /\ \A v \in Workers : ~Holds(v, c)
      BY <2>1, TheTick DEF Serving, OneTransaction
    <3> QED
      BY <1>6, <3>1
  <2> QED
    BY <1>1, <2>1, TransactionAfterWork DEF Serving
<1>8. WillBeServed'
  <2> SUFFICES ASSUME ~lost', NEW i \in Inbounds, NEW c \in Members(i)'
               PROVE  c \in settings'[i] \cap core'[i] \/ Due(i)' \/ Comes(c)'
    BY DEF WillBeServed
  <2>1. c \in Clients /\ c \in Members(i) /\ i \in on[c]
    BY <1>4 DEF Members
  <2>2. c \in settings[i] \cap core[i] \/ Due(i) \/ Comes(c)
    BY <1>1, <2>1 DEF Serving, WillBeServed
  <2> QED
    BY <1>1, <1>2, <1>5, <1>6, <2>1, <2>2
<1>9. WillLeave'
  <2> SUFFICES ASSUME ~lost', NEW i \in Inbounds,
                      NEW c \in (settings'[i] \cup core'[i]) \ Members(i)'
               PROVE  \/ <<c, i>> \in stray' \/ Due(i)'
                      \/ row'[c].status # "none" /\ i \in on'[c] /\ Cut(c)'
    BY DEF WillLeave
  <2>1. CASE c \in settings[i] \cup core[i]
    <3>1. c \in Clients /\ c \notin Members(i)
      BY <1>4, <2>1, TypesBefore
    <3>2. \/ <<c, i>> \in stray \/ Due(i)
          \/ row[c].status # "none" /\ i \in on[c] /\ Cut(c)
      BY <1>1, <2>1, <3>1 DEF Serving, WillLeave
    <3> QED
      BY <1>1, <1>5, <1>6, <3>1, <3>2
  <2>2. CASE c \notin settings[i] \cup core[i]
    BY <1>1, <1>2, <1>5, <2>2
  <2> QED
    BY <2>1, <2>2
<1> QED
  BY <1>7, <1>8, <1>9 DEF Serving

LEMMA QuietGoersServe ==
  ASSUME Typed, Serving, NEW w \in Workers, ReadMembers(w) \/ Finish(w) \/ CutRead(w)
  PROVE  Serving'
<1>1. CASE ReadMembers(w)
  <2>1. UNCHANGED <<row, on, settings, core, stray, lost, tick>>
    BY <1>1 DEF ReadMembers, db, ghosts
  <2>2. PICK i \in work[w].todo :
          /\ work'[w].snap = {<<i, Members(i)>>} /\ work'[w].todo = work[w].todo \ {i}
          /\ \/ work[w].pc = "bulk" /\ work'[w].pc = "bulkwrite"
             \/ work[w].pc = "next" /\ work'[w].pc = "write"
          /\ work'[w].c = work[w].c
    BY <1>1, ReadMembersDoes
  <2>3. work[w].snap = {}
    BY <2>2 DEF Typed, Shapes, WellFormed
  <2>4. \A k \in Inbounds : DueBy(work[w], k) => DueBy(work'[w], k)
    <3> SUFFICES ASSUME NEW k \in Inbounds, k \in work[w].todo
                 PROVE  k \in work'[w].todo \/ \E s \in work'[w].snap : s[1] = k
      BY <2>2, <2>3 DEF DueBy
    <3>1. CASE k = i
      BY <2>2, <3>1
    <3>2. CASE k # i
      BY <2>2, <3>2
    <3> QED
      BY <3>1, <3>2
  <2>5. \A c \in Clients :
          /\ ~CutBy(work[w], c) /\ ~ComesBy(work[w], c)
          /\ HeldBy(work'[w], c) => Holds(w, c)
    BY <2>2 DEF CutBy, ComesBy, HeldBy, Holds
  <2>6. Turns(w)
    BY <1>1, ReadMembersDoes
  <2> QED
    BY <2>1, <2>4, <2>5, <2>6, QuietServes
<1>2. CASE Finish(w)
  <2>1. UNCHANGED <<row, on, settings, core, stray, lost, tick>>
    BY <1>2 DEF Finish, db, ghosts
  <2>2. /\ Turns(w) /\ work'[w] = NoWork /\ work[w].pc = "next" /\ work[w].todo = {}
        /\ work[w].snap = {}
    BY <1>2, FinishDoes DEF Typed, Shapes, WellFormed
  <2>3. work'[w].pc = "idle"
    BY <2>2, NothingThere DEF Typed
  <2>4. \A k \in Inbounds : ~DueBy(work[w], k)
    BY <2>2 DEF DueBy
  <2>5. \A c \in Clients :
          ~CutBy(work[w], c) /\ ~ComesBy(work[w], c) /\ ~HeldBy(work'[w], c)
    BY <2>2, <2>3 DEF CutBy, ComesBy, HeldBy
  <2> QED
    BY <2>1, <2>2, <2>4, <2>5, QuietServes
<1>3. CASE CutRead(w)
  <2> DEFINE d == TheClient(w)
  <2>1. UNCHANGED <<row, on, settings, core, stray, lost, tick>>
    BY <1>3 DEF CutRead, db, ghosts
  <2>2. /\ Turns(w) /\ d \in Clients /\ work[w].c = {d} /\ work[w].pc = "cut"
        /\ work'[w].c = work[w].c
        /\ work'[w].pc = IF row[d] = Absent THEN "next" ELSE "cutsave"
        /\ work'[w].todo = work[w].todo /\ work'[w].snap = work[w].snap
    BY <1>3, CutReadDoes
  <2> HIDE DEF d
  <2>3. \A k \in Inbounds : DueBy(work[w], k) => DueBy(work'[w], k)
    BY <2>2 DEF DueBy
  <2>4. row[d] = Absent => row[d].status = "none"
    BY NothingThere DEF Typed
  <2>5. \A c \in Clients :
          /\ CutBy(work[w], c) => CutBy(work'[w], c) \/ row[c].status = "none"
          /\ ~ComesBy(work[w], c) /\ ~HeldBy(work'[w], c)
    BY <2>2, <2>4 DEF CutBy, ComesBy, HeldBy
  <2> QED
    BY <2>1, <2>2, <2>3, <2>5, QuietServes
<1> QED
  BY <1>1, <1>2, <1>3

LEMMA CutSaveServes ==
  ASSUME Typed, Serving, NEW w \in Workers, CutSave(w)
  PROVE  Serving'
<1> DEFINE old == work[w].old
<1>0. PICK d \in Clients : d = TheClient(w)
  BY CutSaveDoes
<1>1. /\ UNCHANGED <<on, settings, core, tick>> /\ Unlocked(d)
      /\ lost' = (lost \/ row[d] # old)
      /\ stray' = stray \cup ({d} \X (on[d] \ work[w].todo))
  BY <1>0 DEF CutSave
<1>2. /\ Turns(w) /\ d \in Clients /\ work[w].c = {d} /\ work[w].pc = "cutsave"
      /\ work'[w].pc = "next" /\ work'[w].c = {d}
      /\ work'[w].todo = work[w].todo /\ work'[w].snap = work[w].snap
      /\ \A c \in Clients \ {d} : row'[c] = row[c]
      /\ row'[d].enable = old.enable /\ row'[d].status \in Expired \cup {old.status}
  BY <1>0, CutSaveDoes
<1> HIDE DEF old
<1>3. on[d] \subseteq Inbounds
  BY <1>2, ARow
<1>4. \A i \in Inbounds : /\ DueBy(work[w], i) => DueBy(work'[w], i)
                          /\ i \in work[w].todo => DueBy(work'[w], i)
  BY <1>2 DEF DueBy
<1>5. /\ \A c \in Clients \ {d} : ~CutBy(work[w], c) /\ ~ComesBy(work[w], c)
      /\ \A c \in Clients : ~HeldBy(work'[w], c) /\ ~ComesBy(work[w], c)
  BY <1>2 DEF CutBy, ComesBy, HeldBy
<1>6. Comes(d) => Comes(d)'
  BY <1>2, <1>5, Promised
<1>7. ASSUME NEW i \in Inbounds, ~lost', d \in Members(i)' PROVE d \in Members(i)
  <2>1. i \in on[d] /\ row'[d].enable /\ row'[d].status = "active" /\ row[d] = old
    BY <1>1, <1>7 DEF Members
  <2>2. row[d].enable /\ row[d].status = "active"
    BY <1>2, <2>1 DEF Expired
  <2> QED
    BY <1>2, <2>1, <2>2 DEF Members
<1>8. ASSUME NEW i \in Inbounds
      PROVE  (d \notin Members(i) /\ i \notin on[d]) \/ Due(i)' \/ <<d, i>> \in stray'
  <2>1. CASE i \notin on[d]
    BY <2>1 DEF Members
  <2>2. CASE i \in work[w].todo
    BY <1>2, <1>4, <2>2, Promised
  <2>3. CASE i \in on[d] \ work[w].todo
    BY <1>1, <2>3
  <2> QED
    BY <2>1, <2>2, <2>3
<1>9. /\ ~(tick.pc = "saved" /\ d \in DOMAIN tick.rows) /\ stray \subseteq stray'
      /\ lost => lost'
  BY <1>1 DEF Unlocked
<1> QED
  BY <1>1, <1>2, <1>4, <1>5, <1>6, <1>7, <1>8, <1>9, OneServes

LEMMA UpdateRowServes ==
  ASSUME Typed, Serving, NEW w \in Workers, UpdateRow(w)
  PROVE  Serving'
<1>0. PICK d \in Clients : d = TheClient(w)
  BY UpdateRowDoes
<1>1. /\ UNCHANGED <<settings, core, tick, stray>> /\ Unlocked(d)
      /\ lost => lost'
  BY <1>0 DEF UpdateRow
<1>2. /\ Turns(w) /\ d \in Clients /\ work[w].c = {d} /\ work[w].pc \in {"update", "assign"}
      /\ work'[w].pc = "next" /\ work'[w].c = {} /\ work'[w].todo = on[d] \cup on'[d]
      /\ \A c \in Clients \ {d} : row'[c] = row[c] /\ on'[c] = on[c]
  BY <1>0, UpdateRowDoes
<1>3. work[w].snap = {} /\ (work[w].pc # "assign" => work[w].todo = {})
  BY <1>2 DEF Typed, Shapes, WellFormed
<1>4. \A i \in Inbounds : /\ ~DueBy(work[w], i)
                          /\ i \in on[d] \cup on'[d] => DueBy(work'[w], i)
  BY <1>2, <1>3 DEF DueBy
<1>5. \A c \in Clients : ~HeldBy(work'[w], c) /\ ~CutBy(work[w], c) /\ ~ComesBy(work[w], c)
  BY <1>2 DEF CutBy, ComesBy, HeldBy
<1>6. \A i \in Inbounds : i \in on[d] \cup on'[d] => Due(i)'
  BY <1>2, <1>4, Promised
<1>7. \A i \in Inbounds : /\ d \in Members(i)' => Due(i)'
                          /\ (d \notin Members(i) /\ i \notin on[d]) \/ Due(i)'
  BY <1>6 DEF Members
<1>8. ~(tick.pc = "saved" /\ d \in DOMAIN tick.rows) /\ stray \subseteq stray'
  BY <1>1 DEF Unlocked
<1> QED
  BY <1>1, <1>2, <1>4, <1>5, <1>7, <1>8, OneServes

LEMMA ResetRowServes ==
  ASSUME Typed, Serving, NEW w \in Workers, ResetRow(w)
  PROVE  Serving'
<1> DEFINE old == work[w].old
<1>0. PICK d \in Clients : d = TheClient(w)
  BY ResetRowDoes
<1>1. /\ UNCHANGED <<on, settings, core, tick, stray>> /\ Unlocked(d)
      /\ lost' = (lost \/ row[d] # old)
  BY <1>0 DEF ResetRow
<1>2. /\ Turns(w) /\ d \in Clients /\ work[w].c = {d} /\ work[w].pc \in {"reset", "bulkreset"}
      /\ work'[w].pc \in {"idle", "readd"}
      /\ \A c \in Clients \ {d} : row'[c] = row[c]
      /\ \/ row' = row /\ row[d].status = "none"
         \/ /\ row[d].status # "none" /\ row'[d].enable = row[d].enable
            /\ \/ row'[d].status = row[d].status
               \/ /\ row'[d].status = "active"
                  /\ old.enable => work'[w].pc = "readd" /\ work'[w].c = {d}
  BY <1>0, ResetRowDoes
<1> HIDE DEF old
<1>3. work[w].snap = {} /\ work[w].todo = {}
  BY <1>2 DEF Typed, Shapes, WellFormed
<1>4. \A i \in Inbounds : ~DueBy(work[w], i)
  BY <1>3 DEF DueBy
<1>5. \A c \in Clients : ~HeldBy(work'[w], c) /\ ~CutBy(work[w], c) /\ ~ComesBy(work[w], c)
  BY <1>2 DEF CutBy, ComesBy, HeldBy
<1>6. (Comes(d) => Comes(d)') /\ (Cut(d) => Cut(d)')
  BY <1>2, <1>5, Promised
<1>7. ASSUME NEW i \in Inbounds, ~lost', d \in Members(i)'
      PROVE  d \in Members(i) \/ Comes(d)'
  <2>1. i \in on[d] /\ row'[d].enable /\ row'[d].status = "active" /\ row[d] = old
    BY <1>1, <1>7 DEF Members
  <2>2. CASE row[d].status = "active" /\ row[d].enable
    BY <1>2, <2>1, <2>2 DEF Members
  <2>3. CASE ~(row[d].status = "active" /\ row[d].enable)
    <3>1. old.enable /\ work'[w].pc = "readd" /\ work'[w].c = {d}
      BY <1>2, <2>1, <2>3
    <3>2. ComesBy(work'[w], d)
      BY <3>1 DEF ComesBy
    <3> QED
      BY <1>2, <3>2, Promised
  <2> QED
    BY <2>2, <2>3
<1>8. ASSUME NEW i \in Inbounds, d \notin Members(i)' PROVE d \notin Members(i)
  BY <1>1, <1>2, <1>8 DEF Members
<1>9. row[d].status # "none" => row'[d].status # "none"
  BY <1>2
<1>10. /\ ~(tick.pc = "saved" /\ d \in DOMAIN tick.rows) /\ stray \subseteq stray'
       /\ lost => lost'
  BY <1>1 DEF Unlocked
<1> QED
  BY <1>1, <1>2, <1>4, <1>5, <1>6, <1>7, <1>8, <1>9, <1>10, OneServes

LEMMA BulkCommitServes ==
  ASSUME Typed, Serving, NEW w \in Workers, BulkCommit(w)
  PROVE  Serving'
<1>0. PICK d \in Clients : d = TheClient(w)
  BY BulkCommitDoes
<1>1. /\ UNCHANGED <<settings, core, tick, lost>>
      /\ stray' = stray \cup ({d} \X on[d])
  BY <1>0 DEF BulkCommit
<1>2. /\ Turns(w) /\ d \in Clients /\ work[w].c = {d} /\ work[w].pc = "bulk"
      /\ work[w].todo = {} /\ work'[w] = NoWork /\ row'[d] = Absent
      /\ \A c \in Clients \ {d} : row'[c] = row[c] /\ on'[c] = on[c]
  BY <1>0, BulkCommitDoes
<1>3. work[w].snap = {} /\ work'[w].pc = "idle" /\ Absent.status = "none"
  BY <1>2, NothingThere DEF Typed, Shapes, WellFormed
<1>4. \A i \in Inbounds : ~DueBy(work[w], i)
  BY <1>2, <1>3 DEF DueBy
<1>5. \A c \in Clients : ~HeldBy(work'[w], c) /\ ~CutBy(work[w], c) /\ ~ComesBy(work[w], c)
  BY <1>2, <1>3 DEF CutBy, ComesBy, HeldBy
<1>6. \A i \in Inbounds : d \notin Members(i)'
  BY <1>2, <1>3 DEF Members
<1>7. \A i \in Inbounds : (d \notin Members(i) /\ i \notin on[d]) \/ <<d, i>> \in stray'
  BY <1>1 DEF Members
<1>8. ~(tick.pc = "saved" /\ d \in DOMAIN tick.rows)
  BY <1>2 DEF Serving, OneTransaction, Holds
<1>9. stray \subseteq stray'
  BY <1>1
<1> QED
  BY <1>1, <1>2, <1>4, <1>5, <1>6, <1>7, <1>8, <1>9, OneServes

LEMMA ZeroAllServes ==
  ASSUME Typed, Serving, NEW w \in Workers, ZeroAll(w)
  PROVE  Serving'
<1>1. UNCHANGED <<on, settings, core, tick, lost, stray>> /\ \A c \in Clients : Unlocked(c)
  BY DEF ZeroAll
<1>2. /\ Turns(w) /\ work[w].pc = "zero" /\ work'[w].pc = "mark"
      /\ work'[w].snap = work[w].snap /\ work'[w].todo = work[w].todo
      /\ \A c \in Clients : row'[c].enable = row[c].enable /\ row'[c].status = row[c].status
  BY ZeroAllDoes
<1>3. \A i \in Inbounds : DueBy(work[w], i) => DueBy(work'[w], i)
  BY <1>2 DEF DueBy
<1>4. \A c \in Clients : ~CutBy(work[w], c) /\ ~ComesBy(work[w], c)
  BY <1>2 DEF CutBy, ComesBy
<1>5. /\ \A i \in Inbounds : Due(i) => Due(i)'
      /\ \A c \in Clients : (Comes(c) => Comes(c)') /\ (Cut(c) => Cut(c)')
  BY <1>2, <1>3, <1>4, Promised
<1>6. \A i \in Inbounds, c \in Clients : c \in Members(i)' <=> c \in Members(i)
  BY <1>1, <1>2 DEF Members
<1>7. OneTransaction'
  <2>1. \A c \in DOMAIN tick.rows : tick.pc # "saved"
    BY <1>1, TheTick DEF Unlocked
  <2> QED
    BY <1>1, <2>1, TransactionAfterWork DEF Serving
<1>8. JoinersKept /\ LeaversKept
  BY <1>1, <1>2, <1>5, <1>6 DEF JoinersKept, LeaversKept
<1> QED
  BY <1>1, <1>5, <1>7, <1>8, Serves

LEMMA MarkAllServes ==
  ASSUME Typed, Serving, NEW w \in Workers, MarkAll(w)
  PROVE  Serving'
<1>1. /\ UNCHANGED <<on, settings, core, tick, stray>> /\ \A c \in Clients : Unlocked(c)
      /\ lost => lost'
  BY DEF MarkAll
<1>2. /\ Turns(w) /\ work[w].pc = "mark" /\ work'[w].pc = "next"
      /\ \A c \in work[w].c : on[c] \subseteq work'[w].todo
      /\ \A c \in Clients :
           /\ row'[c].enable = row[c].enable
           /\ \/ row'[c].status = row[c].status
              \/ /\ row'[c].status = "active" /\ row[c].status = "expired_traffic"
                 /\ c \in work[w].c \/ ~row[c].enable \/ lost'
  BY MarkAllDoes
<1>3. work[w].todo = {} /\ work[w].snap = {}
  BY <1>2 DEF Typed, Shapes, WellFormed
<1>4. \A i \in Inbounds : ~DueBy(work[w], i) /\ (i \in work'[w].todo => DueBy(work'[w], i))
  BY <1>2, <1>3 DEF DueBy
<1>5. \A c \in Clients : ~CutBy(work[w], c) /\ ~ComesBy(work[w], c)
  BY <1>2 DEF CutBy, ComesBy
<1>6. /\ \A i \in Inbounds : (Due(i) => Due(i)') /\ (i \in work'[w].todo => Due(i)')
      /\ \A c \in Clients : (Comes(c) => Comes(c)') /\ (Cut(c) => Cut(c)')
  BY <1>2, <1>4, <1>5, Promised
<1>7. OneTransaction'
  <2>1. \A c \in DOMAIN tick.rows : tick.pc # "saved"
    BY <1>1, TheTick DEF Unlocked
  <2> QED
    BY <1>1, <2>1, TransactionAfterWork DEF Serving
<1>8. JoinersKept
  <2> SUFFICES ASSUME NEW i \in Inbounds, NEW c \in Clients, ~lost', c \in Members(i)'
               PROVE  c \in Members(i) \/ Due(i)'
    BY <1>6 DEF JoinersKept
  <2>1. i \in on[c] /\ row[c].enable
    BY <1>1, <1>2 DEF Members
  <2>2. row[c].status = "active" \/ c \in work[w].c
    BY <1>2, <2>1 DEF Members
  <2> QED
    BY <1>2, <1>6, <2>1, <2>2 DEF Members
<1>9. LeaversKept
  <2> SUFFICES ASSUME NEW i \in Inbounds, NEW c \in Clients, c \notin Members(i)'
               PROVE  /\ c \notin Members(i)
                      /\ row[c].status # "none" => row'[c].status # "none"
    BY <1>1, <1>6 DEF LeaversKept
  <2> QED
    BY <1>1, <1>2 DEF Members
<1> QED
  BY <1>1, <1>6, <1>7, <1>8, <1>9, Serves

LEMMA QuietRequestsServe ==
  ASSUME Typed, Serving, NEW w \in Workers, NEW c \in Clients,
         \/ \E pc \in {"update", "reset", "bulkreset", "assign"} : Open(w, c, pc)
         \/ BulkDelete(w, c)
  PROVE  Serving'
<1>1. ASSUME NEW pc \in {"update", "reset", "bulkreset", "assign"}, Open(w, c, pc)
      PROVE  Serving'
  <2>1. UNCHANGED <<row, on, settings, core, stray, lost, tick>>
    BY <1>1 DEF Open, db, ghosts
  <2>2. Turns(w) /\ work[w] = NoWork /\ work'[w].pc = pc
    BY <1>1, OpenDoes
  <2>3. \A d \in Clients : ~HeldBy(work'[w], d)
    BY <2>2 DEF HeldBy
  <2> QED
    BY <2>1, <2>2, <2>3, NothingPromised, QuietServes
<1>2. CASE BulkDelete(w, c)
  <2>1. UNCHANGED <<row, on, settings, core, stray, lost, tick>>
    BY <1>2 DEF BulkDelete, db, ghosts
  <2>2. Turns(w) /\ work[w] = NoWork /\ work'[w].c = {c} /\ Unlocked(c)
    BY <1>2, BulkDeleteDoes
  <2>3. \A d \in Clients : HeldBy(work'[w], d) => Unlocked(d)
    BY <2>2 DEF HeldBy
  <2> QED
    BY <2>1, <2>2, <2>3, NothingPromised, QuietServes
<1> QED
  BY <1>1, <1>2

LEMMA ResetAllServes ==
  ASSUME Typed, Serving, NEW w \in Workers, ResetAllClientTraffics(w)
  PROVE  Serving'
<1>1. UNCHANGED <<row, on, settings, core, stray, lost, tick>>
  BY DEF ResetAllClientTraffics, db, ghosts
<1>2. Turns(w) /\ work[w] = NoWork /\ work'[w].pc = "zero"
  BY ResetAllDoes
<1>3. \A d \in Clients : ~HeldBy(work'[w], d)
  BY <1>2 DEF HeldBy
<1> QED
  BY <1>1, <1>2, <1>3, NothingPromised, QuietServes

LEMMA AddClientServes ==
  ASSUME Typed, Serving, NEW w \in Workers, NEW c \in Clients, AddClient(w, c)
  PROVE  Serving'
<1>1. UNCHANGED <<settings, core, tick, lost, stray>>
  BY DEF AddClient
<1>2. /\ Turns(w) /\ work[w] = NoWork /\ row[c].status = "none"
      /\ work'[w].pc = "next" /\ on'[c] = work'[w].todo
      /\ \A d \in Clients \ {c} : row'[d] = row[d] /\ on'[d] = on[d]
  BY AddClientDoes
<1>3. /\ \A i \in Inbounds : i \in on'[c] => DueBy(work'[w], i)
      /\ \A d \in Clients : ~HeldBy(work'[w], d)
  BY <1>2 DEF DueBy, HeldBy
<1>4. \A i \in Inbounds : c \in Members(i)' => Due(i)'
  BY <1>2, <1>3, Promised DEF Members
<1>5. \A i \in Inbounds : c \notin Members(i)
  BY <1>2 DEF Members
<1> QED
  BY <1>1, <1>2, <1>3, <1>4, <1>5, NothingPromised, OneServes

LEMMA DeleteClientServes ==
  ASSUME Typed, Serving, NEW w \in Workers, NEW c \in Clients, DeleteClient(w, c)
  PROVE  Serving'
<1>1. UNCHANGED <<settings, core, tick, lost, stray>> /\ Unlocked(c)
  BY DEF DeleteClient, ghosts
<1>2. /\ Turns(w) /\ work[w] = NoWork /\ row'[c] = Absent
      /\ work'[w].pc = "next" /\ work'[w].todo = on[c]
      /\ \A d \in Clients \ {c} : row'[d] = row[d] /\ on'[d] = on[d]
  BY DeleteClientDoes
<1>3. /\ \A i \in Inbounds : i \in on[c] => DueBy(work'[w], i)
      /\ \A d \in Clients : ~HeldBy(work'[w], d)
  BY <1>2 DEF DueBy, HeldBy
<1>4. \A i \in Inbounds : (c \notin Members(i) /\ i \notin on[c]) \/ Due(i)'
  BY <1>2, <1>3, Promised DEF Members
<1>5. \A i \in Inbounds : c \notin Members(i)'
  BY <1>2, NothingThere DEF Members, Typed
<1>6. ~(tick.pc = "saved" /\ c \in DOMAIN tick.rows)
  BY <1>1 DEF Unlocked
<1> QED
  BY <1>1, <1>2, <1>3, <1>4, <1>5, <1>6, NothingPromised, OneServes

LEMMA BulkEnableServes ==
  ASSUME Typed, Serving, NEW w \in Workers, NEW c \in Clients, BulkEnable(w, c)
  PROVE  Serving'
<1>1. UNCHANGED <<on, settings, core, tick, lost, stray>> /\ Unlocked(c)
  BY DEF BulkEnable, ghosts
<1>2. /\ Turns(w) /\ work[w] = NoWork
      /\ work'[w].pc = "next" /\ work'[w].todo = on[c]
      /\ \A d \in Clients \ {c} : row'[d] = row[d]
  BY BulkEnableDoes
<1>3. /\ \A i \in Inbounds : i \in on[c] => DueBy(work'[w], i)
      /\ \A d \in Clients : ~HeldBy(work'[w], d)
  BY <1>2 DEF DueBy, HeldBy
<1>4. \A i \in Inbounds : /\ (c \notin Members(i) /\ i \notin on[c]) \/ Due(i)'
                          /\ c \in Members(i)' => Due(i)'
  BY <1>1, <1>2, <1>3, Promised DEF Members
<1>5. ~(tick.pc = "saved" /\ c \in DOMAIN tick.rows)
  BY <1>1 DEF Unlocked
<1> QED
  BY <1>1, <1>2, <1>3, <1>4, <1>5, NothingPromised, OneServes

LEMMA DelDepletedServes ==
  ASSUME Typed, Serving, NEW w \in Workers, DelDepletedClients(w)
  PROVE  Serving'
<1>1. UNCHANGED <<settings, core, tick, lost>> /\ stray \subseteq stray'
  BY DEF DelDepletedClients
<1>2. /\ Turns(w) /\ work[w] = NoWork /\ work'[w].pc = "next"
      /\ \A p \in books : p[2] \in work'[w].todo
      /\ \A c \in Clients :
           \/ row'[c] = row[c] /\ on'[c] = on[c]
           \/ /\ row[c].status # "none" /\ Unlocked(c)
              /\ row'[c] = Absent /\ on'[c] = {}
              /\ \A i \in on[c] : <<c, i>> \in books \/ <<c, i>> \in stray'
  BY DelDepletedDoes
<1>3. /\ \A i \in Inbounds, c \in Clients : <<c, i>> \in books => DueBy(work'[w], i)
      /\ \A d \in Clients : ~HeldBy(work'[w], d)
  BY <1>2 DEF DueBy, HeldBy
<1>4. /\ \A i \in Inbounds : Due(i) => Due(i)'
      /\ \A i \in Inbounds, c \in Clients : <<c, i>> \in books => Due(i)'
      /\ \A c \in Clients : (Comes(c) => Comes(c)') /\ (Cut(c) => Cut(c)')
      /\ \A v \in Workers, c \in Clients : Holds(v, c)' => Holds(v, c)
  BY <1>2, <1>3, NothingPromised, Promised
<1>5. OneTransaction'
  <2>1. ASSUME NEW c \in DOMAIN tick.rows, tick.pc = "saved"
        PROVE  /\ \A v \in Workers : ~Holds(v, c)'
               /\ row'[c] = row[c] /\ on'[c] = on[c] /\ (Cut(c) => Cut(c)')
    <3>1. c \in Clients /\ ~Unlocked(c) /\ \A v \in Workers : ~Holds(v, c)
      BY <2>1, TheTick DEF Unlocked, Serving, OneTransaction
    <3> QED
      BY <1>2, <1>4, <3>1
  <2> QED
    BY <1>1, <2>1, TransactionAfterWork DEF Serving
<1>6. Absent.status = "none"
  BY NothingThere DEF Typed
<1>7. JoinersKept
  <2> SUFFICES ASSUME NEW i \in Inbounds, NEW c \in Clients, c \in Members(i)'
               PROVE  c \in Members(i)
    BY <1>4 DEF JoinersKept
  <2> QED
    BY <1>2, <1>6 DEF Members
<1>8. LeaversKept
  <2> SUFFICES ASSUME NEW i \in Inbounds, NEW c \in Clients, c \notin Members(i)'
               PROVE  \/ /\ c \notin Members(i)
                         /\ row[c].status # "none" /\ i \in on[c] =>
                              row'[c].status # "none" /\ i \in on'[c]
                      \/ Due(i)' \/ <<c, i>> \in stray'
    BY <1>4 DEF LeaversKept
  <2>1. CASE row'[c] = row[c] /\ on'[c] = on[c]
    BY <2>1 DEF Members
  <2>2. CASE i \notin on[c]
    BY <2>2 DEF Members
  <2>3. CASE i \in on[c] /\ \A k \in on[c] : <<c, k>> \in books \/ <<c, k>> \in stray'
    BY <1>4, <2>3
  <2> QED
    BY <1>2, <2>1, <2>2, <2>3
<1> QED
  BY <1>1, <1>4, <1>5, <1>7, <1>8, Serves

\* What the tick starts only adds promises.
LEMMA SpawnedPromise ==
  ASSUME Typed,
         \A w \in Workers : work'[w] = work[w] \/ (work[w] = NoWork /\ work'[w].pc = "cut")
  PROVE  /\ \A i \in Inbounds : Due(i) => Due(i)'
         /\ \A c \in Clients : (Comes(c) => Comes(c)') /\ (Cut(c) => Cut(c)')
         /\ \A v \in Workers, c \in Clients : Holds(v, c)' => Holds(v, c)
<1>1. \A w \in Workers, i \in Inbounds : DueBy(work[w], i) => DueBy(work'[w], i)
  BY NothingPromised
<1>2. \A w \in Workers, c \in Clients :
        /\ ComesBy(work[w], c) => ComesBy(work'[w], c)
        /\ CutBy(work[w], c) => CutBy(work'[w], c)
        /\ HeldBy(work'[w], c) => HeldBy(work[w], c)
  <2> TAKE w \in Workers, c \in Clients
  <2>1. CASE work'[w] = work[w]
    BY <2>1
  <2>2. CASE work[w] = NoWork /\ work'[w].pc = "cut"
    <3>1. ~ComesBy(work[w], c) /\ ~CutBy(work[w], c)
      BY <2>2, NothingPromised
    <3>2. ~HeldBy(work'[w], c)
      BY <2>2 DEF HeldBy
    <3> QED
      BY <3>1, <3>2
  <2> QED
    BY <2>1, <2>2
<1> QED
  BY <1>1, <1>2 DEF Due, DueBy, Comes, ComesBy, Cut, CutBy, Holds, HeldBy

LEMMA TickSaveServes ==
  ASSUME Typed, Serving, TickSave
  PROVE  Serving'
<1>1. /\ UNCHANGED <<row, on, settings, core, stray>>
      /\ lost' = (lost \/ \E c \in DOMAIN tick.rows : row[c] # tick.rows[c])
      /\ \A c \in DOMAIN tick.rows, w \in Workers : ~Holds(w, c)
  BY DEF TickSave, db
<1>2. /\ DOMAIN tick'.rows = DOMAIN tick.rows
      /\ \A c \in DOMAIN tick.rows :
           /\ tick'.rows[c].enable = tick.rows[c].enable
           /\ \/ tick'.rows[c].status = tick.rows[c].status
              \/ /\ tick'.rows[c].status \in Expired
                 /\ on[c] # {} =>
                      \E w \in Workers : work'[w].pc = "cut" /\ work'[w].c = {c}
      /\ \A w \in Workers : work'[w] = work[w] \/ (work[w] = NoWork /\ work'[w].pc = "cut")
  BY TickSaveDoes
<1>3. /\ \A i \in Inbounds : Due(i) => Due(i)'
      /\ \A c \in Clients : (Comes(c) => Comes(c)') /\ (Cut(c) => Cut(c)')
      /\ \A v \in Workers, c \in Clients : Holds(v, c)' => Holds(v, c)
  BY <1>2, SpawnedPromise
<1>4. OneTransaction'
  <2>1. ASSUME NEW c \in DOMAIN tick.rows
        PROVE  /\ tick'.rows[c].status # "none"
               /\ \A w \in Workers : ~Holds(w, c)'
               /\ ~lost' =>
                    /\ row'[c].status # "none" /\ tick'.rows[c].enable = row'[c].enable
                    /\ \/ tick'.rows[c].status = row'[c].status
                       \/ tick'.rows[c].status \in Expired /\ (on'[c] = {} \/ Cut(c)')
    <3>1. tick.rows[c].status # "none" /\ c \in Clients
      BY TheTick DEF Serving, OneTransaction
    <3>2. \A w \in Workers : ~Holds(w, c)'
      BY <1>1, <1>3, <3>1
    <3>3. ~lost' => row[c] = tick.rows[c]
      BY <1>1
    <3>4. tick'.rows[c].status # "none"
      BY <1>2, <3>1 DEF Expired
    <3>5. (\E w \in Workers : work'[w].pc = "cut" /\ work'[w].c = {c}) => Cut(c)'
      BY DEF Cut
    <3> QED
      BY <1>1, <1>2, <3>1, <3>2, <3>3, <3>4, <3>5
  <2> QED
    BY <1>2, <2>1 DEF OneTransaction
<1>5. \A i \in Inbounds : Members(i)' = Members(i)
  BY <1>1 DEF Members
<1>6. JoinersKept /\ LeaversKept
  BY <1>1, <1>3, <1>5 DEF JoinersKept, LeaversKept
<1> QED
  BY <1>1, <1>3, <1>4, <1>6, Serves

\* The rest of the tick leaves no transaction open.
LEMMA NoTransaction ==
  ASSUME DOMAIN tick'.rows = {} \/ (/\ tick'.pc # "saved"
                                     /\ \A c \in DOMAIN tick'.rows : tick'.rows[c].status # "none")
  PROVE  OneTransaction'
BY DEF OneTransaction

LEMMA TickServes ==
  ASSUME Typed, Serving, Tick
  PROVE  Serving'
<1>1. CASE TickRead
  <2>1. UNCHANGED <<row, on, settings, core, stray, lost, work>>
    BY <1>1 DEF TickRead, db, ghosts
  <2>2. OneTransaction'
    BY <1>1, TickReadDoes, NoTransaction
  <2>3. /\ \A i \in Inbounds : (Due(i)' <=> Due(i)) /\ Members(i)' = Members(i)
        /\ \A c \in Clients : (Comes(c)' <=> Comes(c)) /\ (Cut(c)' <=> Cut(c))
    BY <2>1 DEF Due, Members, Comes, Cut
  <2>4. JoinersKept /\ LeaversKept
    BY <2>1, <2>3 DEF JoinersKept, LeaversKept
  <2> QED
    BY <2>1, <2>2, <2>3, <2>4, Serves
<1>2. CASE TickSave
  BY <1>2, TickSaveServes
<1>3. CASE TickCommit
  <2>1. UNCHANGED <<on, settings, core, stray, lost, work>> /\ tick.pc = "saved"
    BY <1>3 DEF TickCommit, ghosts
  <2>2. OneTransaction'
    BY <1>3, TickCommitDoes, TheTick, NoTransaction
  <2>3. /\ \A i \in Inbounds : Due(i)' <=> Due(i)
        /\ \A c \in Clients : (Comes(c)' <=> Comes(c)) /\ (Cut(c)' <=> Cut(c))
    BY <2>1 DEF Due, Comes, Cut
  <2>4. ASSUME NEW c \in Clients, ~lost
        PROVE  /\ row'[c].enable = row[c].enable
               /\ row[c].status # "none" => row'[c].status # "none"
               /\ \/ row'[c].status = row[c].status
                  \/ /\ row'[c].status \in Expired /\ row'[c].status # "none"
                     /\ on[c] = {} \/ Cut(c)
    <3>1. CASE c \in DOMAIN tick.rows
      <4>1. /\ tick.rows[c].enable = row[c].enable /\ tick.rows[c].status # "none"
            /\ \/ tick.rows[c].status = row[c].status
               \/ tick.rows[c].status \in Expired /\ (on[c] = {} \/ Cut(c))
        BY <2>1, <2>4, <3>1 DEF Serving, OneTransaction
      <4>2. row'[c] = tick.rows[c]
        BY <1>3, <3>1, TickCommitDoes
      <4> QED
        BY <4>1, <4>2
    <3>2. CASE c \notin DOMAIN tick.rows
      <4>1. row'[c] = row[c]
        BY <1>3, <3>2, TickCommitDoes
      <4> QED
        BY <4>1
    <3> QED
      BY <3>1, <3>2
  <2>5. JoinersKept
    <3> SUFFICES ASSUME NEW i \in Inbounds, NEW c \in Clients, ~lost, c \in Members(i)'
                 PROVE  c \in Members(i)
      BY <2>1, <2>3 DEF JoinersKept
    <3> QED
      BY <2>1, <2>4 DEF Members, Expired
  <2>6. LeaversKept
    <3> SUFFICES ASSUME NEW i \in Inbounds, NEW c \in Clients, ~lost, c \notin Members(i)'
                 PROVE  \/ c \notin Members(i) /\ (row[c].status # "none" => row'[c].status # "none")
                        \/ row'[c].status # "none" /\ i \in on'[c] /\ Cut(c)'
      BY <2>1, <2>3 DEF LeaversKept
    <3> QED
      BY <2>1, <2>3, <2>4 DEF Members
  <2> QED
    BY <2>1, <2>2, <2>3, <2>5, <2>6, Serves
<1>4. CASE TickFallback
  <2>1. UNCHANGED <<on, settings, core, stray, lost, work>>
    BY <1>4 DEF TickFallback, ghosts
  <2>2. OneTransaction'
    <3>1. DOMAIN tick'.rows = {}
      BY <1>4, TickFallbackDoes DEF TickFallback, Typed, Shapes
    <3> QED
      BY <3>1, NoTransaction
  <2>3. \A c \in Clients : row'[c].enable = row[c].enable /\ row'[c].status = row[c].status
    BY <1>4, TickFallbackDoes
  <2>4. /\ \A i \in Inbounds : Due(i)' <=> Due(i)
        /\ \A i \in Inbounds, c \in Clients : c \in Members(i)' <=> c \in Members(i)
        /\ \A c \in Clients : (Comes(c)' <=> Comes(c)) /\ (Cut(c)' <=> Cut(c))
    BY <2>1, <2>3 DEF Due, Members, Comes, Cut
  <2>5. JoinersKept /\ LeaversKept
    BY <2>1, <2>3, <2>4 DEF JoinersKept, LeaversKept
  <2> QED
    BY <2>1, <2>2, <2>4, <2>5, Serves
<1>5. CASE TickBroadcast
  <2>1. UNCHANGED <<on, settings, core, stray, lost>>
    BY <1>5 DEF TickBroadcast, ghosts
  <2>2. /\ DOMAIN tick'.rows = {}
        /\ \A c \in Clients :
             /\ row'[c].enable = row[c].enable
             /\ \/ row'[c] = row[c]
                \/ /\ row[c].status # "none" /\ row'[c].status \in Expired
                   /\ row[c].enable /\ on[c] # {} =>
                        \E w \in Workers : work'[w].pc = "cut" /\ work'[w].c = {c}
        /\ \A w \in Workers : work'[w] = work[w] \/ (work[w] = NoWork /\ work'[w].pc = "cut")
    BY <1>5, TickBroadcastDoes, TheTick
  <2>3. OneTransaction'
    BY <2>2, NoTransaction
  <2>4. /\ \A i \in Inbounds : Due(i) => Due(i)'
        /\ \A c \in Clients : (Comes(c) => Comes(c)') /\ (Cut(c) => Cut(c)')
    BY <2>2, SpawnedPromise
  <2>5. \A c \in Clients : /\ row[c].status # "none" => row'[c].status # "none"
                           /\ \/ row'[c] = row[c]
                              \/ /\ row'[c].status \in Expired /\ row'[c].status # "none"
                                 /\ row[c].enable /\ on[c] # {} => Cut(c)'
    BY <2>2 DEF Expired, Cut
  <2>6. JoinersKept
    <3> SUFFICES ASSUME NEW i \in Inbounds, NEW c \in Clients, c \in Members(i)'
                 PROVE  c \in Members(i)
      BY <2>4 DEF JoinersKept
    <3> QED
      BY <2>1, <2>5 DEF Members, Expired
  <2>7. LeaversKept
    <3> SUFFICES ASSUME NEW i \in Inbounds, NEW c \in Clients, c \notin Members(i)'
                 PROVE  \/ c \notin Members(i) /\ (row[c].status # "none" => row'[c].status # "none")
                        \/ row'[c].status # "none" /\ i \in on'[c] /\ Cut(c)'
      BY <2>1, <2>4 DEF LeaversKept
    <3> QED
      BY <2>1, <2>5 DEF Members
  <2> QED
    BY <2>1, <2>3, <2>4, <2>6, <2>7, Serves
<1> QED
  BY <1>1, <1>2, <1>3, <1>4, <1>5 DEF Tick

LEMMA TheRestServes ==
  ASSUME Typed, Serving,
         DatePasses \/ (\E c \in Clients : Send(c)) \/ RestartXray \/ GetClients
  PROVE  Serving'
<1>1. CASE DatePasses \/ \E c \in Clients : Send(c)
  <2>1. UNCHANGED <<row, on, settings, core, stray, lost, work, tick>>
    BY <1>1 DEF DatePasses, Send, db, ghosts
  <2>2. /\ \A i \in Inbounds : (Due(i)' <=> Due(i)) /\ Members(i)' = Members(i)
        /\ \A c \in Clients : (Comes(c)' <=> Comes(c)) /\ (Cut(c)' <=> Cut(c))
    BY <2>1 DEF Due, Members, Comes, Cut
  <2>3. OneTransaction'
    BY <2>1 DEF Serving, OneTransaction, Holds, Cut
  <2>4. JoinersKept /\ LeaversKept
    BY <2>1, <2>2 DEF JoinersKept, LeaversKept
  <2> QED
    BY <2>1, <2>2, <2>3, <2>4, Serves
<1>2. CASE RestartXray
  <2>1. /\ UNCHANGED <<row, on, settings, stray, lost, work, tick>>
        /\ core' \in {core, settings}
    BY <1>2 DEF RestartXray, db, ghosts
  <2>2. OneTransaction' /\ \A i \in Inbounds : Members(i)' = Members(i)
    BY <2>1 DEF Serving, OneTransaction, Holds, Cut, Members
  <2>3. /\ \A i \in Inbounds : Due(i)' <=> Due(i)
        /\ \A c \in Clients : (Comes(c)' <=> Comes(c)) /\ (Cut(c)' <=> Cut(c))
    BY <2>1 DEF Due, Comes, Cut
  <2>4. WillBeServed'
    <3> SUFFICES ASSUME ~lost', NEW i \in Inbounds, NEW c \in Members(i)'
                 PROVE  c \in settings'[i] \cap core'[i] \/ Due(i)' \/ Comes(c)'
      BY DEF WillBeServed
    <3>1. c \in Members(i) /\ c \in Clients /\ ~lost
      BY <2>1, <2>2 DEF Members
    <3>2. c \in settings[i] \cap core[i] \/ Due(i) \/ Comes(c)
      BY <3>1 DEF Serving, WillBeServed
    <3> QED
      BY <2>1, <2>3, <3>1, <3>2
  <2>5. WillLeave'
    <3> SUFFICES ASSUME ~lost', NEW i \in Inbounds,
                        NEW c \in (settings'[i] \cup core'[i]) \ Members(i)'
                 PROVE  \/ <<c, i>> \in stray' \/ Due(i)'
                        \/ row'[c].status # "none" /\ i \in on'[c] /\ Cut(c)'
      BY DEF WillLeave
    <3>1. c \in (settings[i] \cup core[i]) \ Members(i) /\ c \in Clients /\ ~lost
      BY <2>1, <2>2, TypesBefore
    <3>2. \/ <<c, i>> \in stray \/ Due(i)
          \/ row[c].status # "none" /\ i \in on[c] /\ Cut(c)
      BY <3>1 DEF Serving, WillLeave
    <3> QED
      BY <2>1, <2>3, <3>1, <3>2
  <2> QED
    BY <2>2, <2>4, <2>5 DEF Serving
<1>3. CASE GetClients
  <2>1. UNCHANGED <<on, settings, core, lost, work, tick>>
    BY <1>3 DEF GetClients
  <2>2. /\ stray \subseteq stray'
        /\ \A c \in Clients :
             /\ row'[c].enable = row[c].enable
             /\ \/ row'[c] = row[c]
                \/ /\ row[c].status # "none" /\ row'[c].status \in Expired
                   /\ Unlocked(c)
                   /\ \A i \in on[c] : row[c].enable => <<c, i>> \in stray'
    BY <1>3, GetClientsDoes
  <2>3. /\ \A i \in Inbounds : Due(i)' <=> Due(i)
        /\ \A c \in Clients : (Comes(c)' <=> Comes(c)) /\ (Cut(c)' <=> Cut(c))
        /\ \A v \in Workers, c \in Clients : Holds(v, c)' <=> Holds(v, c)
    BY <2>1 DEF Due, Comes, Cut, Holds
  <2>4. OneTransaction'
    <3>1. ASSUME NEW c \in DOMAIN tick.rows, tick.pc = "saved"
          PROVE  /\ \A v \in Workers : ~Holds(v, c)'
                 /\ row'[c] = row[c] /\ (Cut(c) => Cut(c)')
      <4>1. c \in Clients /\ ~Unlocked(c) /\ \A v \in Workers : ~Holds(v, c)
        BY <3>1, TheTick DEF Unlocked, Serving, OneTransaction
      <4> QED
        BY <2>2, <2>3, <4>1
    <3> QED
      BY <2>1, <3>1, TransactionAfterWork DEF Serving
  <2>5. \A c \in Clients : row[c].status # "none" => row'[c].status # "none"
    BY <2>2 DEF Expired
  <2>6. JoinersKept
    <3> SUFFICES ASSUME NEW i \in Inbounds, NEW c \in Clients, c \in Members(i)'
                 PROVE  c \in Members(i)
      BY <2>3 DEF JoinersKept
    <3> QED
      BY <2>1, <2>2 DEF Members, Expired
  <2>7. LeaversKept
    <3> SUFFICES ASSUME NEW i \in Inbounds, NEW c \in Clients, c \notin Members(i)'
                 PROVE  c \notin Members(i) \/ <<c, i>> \in stray'
      BY <2>1, <2>3, <2>5 DEF LeaversKept
    <3> QED
      BY <2>1, <2>2 DEF Members
  <2> QED
    BY <2>1, <2>2, <2>3, <2>4, <2>6, <2>7, Serves
<1> QED
  BY <1>1, <1>2, <1>3

-----------------------------------------------------------------------------
(* The invariant and what follows from it.                                 *)

LEMMA ClientsInit ==
  ASSUME ClientsAssumption, Init
  PROVE  ClientsInv
<1>1. /\ Absent \in Rows /\ Absent.used = 0 /\ Absent.limit = 0 /\ ~Absent.enable
      /\ NoWork \in Jobs /\ WellFormed(NoWork) /\ NoWork.pc = "idle" /\ NoWork.c = {}
      /\ NoWork.old = Absent /\ NoWork.todo = {} /\ NoWork.snap = {}
  BY NothingThere
<1>2. {MaxNow, MaxServed, MaxEdits} \subseteq Nat /\ Amounts \subseteq Nat \X Nat
      /\ Silences \subseteq BOOLEAN /\ \A b \in Books : b \subseteq Clients \X Inbounds
  BY DEF ClientsAssumption
<1>3. Nothing \in Counts /\ NoCounts \in [Clients -> Counts] /\ Size(Nothing) = 0
  BY DEF Nothing, Counts, Bytes, NoCounts, Size
<1>4. /\ row = [c \in Clients |-> Absent] /\ on = [c \in Clients |-> {}]
      /\ settings = [i \in Inbounds |-> {}] /\ core = settings
      /\ work = [w \in Workers |-> NoWork]
      /\ pending = NoCounts /\ served = [c \in Clients |-> 0]
  BY DEF Init
<1>5. tick.pc = "idle" /\ tick.rows = NoRows /\ tick.delta = NoCounts
      /\ tick = [pc |-> tick.pc, rows |-> tick.rows, delta |-> tick.delta]
  BY DEF Init, NoTick
<1>6. NoRows \in [{} -> Rows] /\ DOMAIN tick.rows = {}
  BY <1>5 DEF NoRows
<1>7. TypeOK
  <2>1. now \in 0..MaxNow /\ edits \in 0..MaxEdits
    BY <1>2 DEF Init
  <2>2. silent \in BOOLEAN /\ restart \in BOOLEAN /\ books \subseteq Clients \X Inbounds
    BY <1>2 DEF Init
  <2>3. before \in [Inbounds -> Counts] /\ pending \in [Clients -> Counts]
    BY <1>3 DEF Init
  <2>4. \A w \in Workers : work[w].old \in Rows /\ work[w].todo \subseteq Inbounds
    BY <1>1, <1>4
  <2> QED
    BY <1>1, <1>4, <1>6, <2>1, <2>2, <2>3, <2>4 DEF TypeOK
<1>8. Shapes
  <2>1. work \in [Workers -> Jobs] /\ \A w \in Workers : WellFormed(work[w])
    BY <1>1, <1>4
  <2>2. {} \in SUBSET Clients /\ tick.rows \in [{} -> Rows]
    BY <1>5, <1>6
  <2>3. served \in [Clients -> Nat]
    BY <1>4
  <2>4. \E S \in SUBSET Clients : tick.rows \in [S -> Rows]
    BY <2>2
  <2> QED
    BY <1>3, <1>5, <1>6, <2>1, <2>3, <2>4 DEF Shapes, TickSteps
<1>9. Charged
  <2>1. \A c \in Clients : row[c].used = 0 /\ Size(pending[c]) = 0 /\ served[c] = 0
    BY <1>1, <1>3, <1>4 DEF NoCounts
  <2>2. \A w \in Workers : work[w].c = {}
    BY <1>1, <1>4
  <2> QED
    BY <1>6, <2>1, <2>2 DEF Charged, Paid
<1>10. Limited
  <2>1. \A c \in Clients : row[c].limit = 0
    BY <1>1, <1>4
  <2>2. \A w \in Workers : work[w].c = {}
    BY <1>1, <1>4
  <2> QED
    BY <1>6, <2>1, <2>2 DEF Limited, Fits
<1>11. Billed
  <2>1. PICK most : most = [c \in Clients |-> 0]
    OBVIOUS
  <2>2. \A c \in Clients : Size(pending[c]) = 0 /\ Size(tick.delta[c]) = 0
    BY <1>3, <1>4, <1>5 DEF NoCounts
  <2>3. /\ served = most /\ Unbilled = most /\ most \in [Clients -> Nat]
        /\ \A c \in Clients : most[c] = most[c] + most[c]
    BY <1>4, <1>5, <2>1, <2>2 DEF Unbilled
  <2>4. Total(most) = Total(most) + Total(most) /\ Total(most) \in Nat
    BY <2>3, TotalsAdd, Totals
  <2>5. Total(most) = 0
    <3>1. \A n \in Nat : n = n + n => n = 0
      OBVIOUS
    <3> QED
      BY <2>4, <3>1, Zenon
  <2>6. most \in [Clients -> 0..2 * Total(served)]
    BY <2>1, <2>3, <2>5
  <2>7. Covers(most)
    <3>1. \A c \in Clients : row[c].used = 0 /\ most[c] = 0
      BY <1>1, <1>4, <2>1
    <3>2. \A w \in Workers : work[w].c = {}
      BY <1>1, <1>4
    <3> QED
      BY <3>1, <3>2 DEF Covers
  <2>8. OneWay
    BY <1>4, <1>5 DEF OneWay, NoCounts, Nothing
  <2>9. Total(most) + 2 * Total(Unbilled) <= 2 * Total(served)
    BY <2>3, <2>5
  <2>10. BillsFit
    BY <2>6, <2>7, <2>9 DEF BillsFit
  <2> QED
    BY <1>6, <2>8, <2>10, BilledParts
<1>12. OneTransaction
  BY <1>6 DEF OneTransaction
<1>13. WillBeServed
  BY <1>4 DEF WillBeServed, Members
<1>14. WillLeave
  BY <1>4 DEF WillLeave
<1> QED
  BY <1>7, <1>8, <1>9, <1>10, <1>11, <1>12, <1>13, <1>14 DEF ClientsInv

LEMMA ClientsNext ==
  ASSUME ClientsAssumption, ClientsInv, [Next]_vars
  PROVE  ClientsInv'
<1>1. Typed /\ Charged /\ Billed /\ Limited /\ Serving
  BY DEF ClientsInv, Typed, Serving
<1>2. SUFFICES /\ TypeOK' /\ Shapes'
               /\ Charged' /\ Billed' /\ Limited'
               /\ Serving'
  BY DEF ClientsInv, Serving
<1>3. CASE DatePasses \/ RestartXray \/ GetClients
  BY <1>1, <1>3, TheRestKeepsTypes, TheRestKeepsQuotas, TheRestServes
<1>4. ASSUME NEW c \in Clients, Send(c) PROVE /\ TypeOK' /\ Shapes'
                                              /\ Charged' /\ Billed' /\ Limited'
                                              /\ Serving'
  BY <1>1, <1>4, TheRestKeepsTypes, SendKeepsQuotas, TheRestServes
<1>5. CASE Tick
  BY <1>1, <1>5, TheRestKeepsTypes, TickKeepsQuotas, TickServes
<1>6. ASSUME NEW w \in Workers, Goes(w) PROVE /\ TypeOK' /\ Shapes'
                                              /\ Charged' /\ Billed' /\ Limited'
                                              /\ Serving'
  <2>1. Serving'
    BY <1>1, <1>6, QuietGoersServe, RebuildServes, CutSaveServes, UpdateRowServes,
       ResetRowServes, ReAddServes, BulkCommitServes, ZeroAllServes, MarkAllServes DEF Goes
  <2> QED
    BY <1>1, <1>6, <2>1, GoingKeepsTypes, GoingKeepsQuotas
<1>7. ASSUME NEW w \in Workers, NEW c \in Clients, Asks(w, c)
      PROVE  /\ TypeOK' /\ Shapes'
             /\ Charged' /\ Billed' /\ Limited'
             /\ Serving'
  <2>1. Serving'
    BY <1>1, <1>7, QuietRequestsServe, AddClientServes, DeleteClientServes, BulkEnableServes
       DEF Asks, UpdateClient, ResetClientTraffic, BulkResetTraffic, BulkAssignInbounds
  <2> QED
    BY <1>1, <1>7, <2>1, AskingKeepsTypes, AskingKeepsQuotas
<1>8. ASSUME NEW w \in Workers, ResetAllClientTraffics(w) \/ DelDepletedClients(w)
      PROVE  /\ TypeOK' /\ Shapes'
             /\ Charged' /\ Billed' /\ Limited'
             /\ Serving'
  <2>1. Serving'
    BY <1>1, <1>8, ResetAllServes, DelDepletedServes
  <2> QED
    BY <1>1, <1>8, <2>1, AskingForAllKeepsTypes, AskingForAllKeepsQuotas
<1>9. CASE UNCHANGED vars
  <2>1. UNCHANGED <<now, row, on, books, settings, core, silent, pending, before, tick, work,
                    restart, edits, served, lowered, lost, stray>>
    BY <1>9 DEF vars
  <2>2. TypeOK' /\ Shapes'
    BY <1>1, <2>1, TypesBefore, TypesAfterWork
  <2>3. RowsComeFrom /\ CopiesComeFrom /\ SetRight
    BY <2>1 DEF RowsComeFrom, CopiesComeFrom, SetRight
  <2>4. Charged' /\ Billed' /\ Limited'
    BY <1>1, <2>1, <2>3, TypesBefore, QuotasAfterWork
  <2>5. /\ \A i \in Inbounds : (Due(i)' <=> Due(i)) /\ Members(i)' = Members(i)
        /\ \A c \in Clients : (Comes(c)' <=> Comes(c)) /\ (Cut(c)' <=> Cut(c))
    BY <2>1 DEF Due, Members, Comes, Cut
  <2>6. OneTransaction'
    BY <1>1, <2>1 DEF Serving, OneTransaction, Holds, Cut
  <2>7. JoinersKept /\ LeaversKept
    BY <2>1, <2>5 DEF JoinersKept, LeaversKept
  <2>8. Serving'
    BY <1>1, <2>1, <2>5, <2>6, <2>7, Serves
  <2> QED
    BY <2>2, <2>4, <2>8
<1> QED
  BY <1>3, <1>4, <1>5, <1>6, <1>7, <1>8, <1>9 DEF Next

\* The invariant holds at every moment, for any number of clients, inbounds,
\* requests and goroutines, and whatever the quotas, dates and traffic.
THEOREM ClientsInvariant ==
  ASSUME ClientsAssumption
  PROVE  Spec => []ClientsInv
<1>1. Init => ClientsInv
  BY ClientsInit
<1>2. ClientsInv /\ [Next]_vars => ClientsInv'
  BY ClientsNext
<1> QED
  BY <1>1, <1>2, PTL DEF Spec

\* Rows, settings and counters keep their types.
THEOREM ClientsTypes ==
  ASSUME ClientsAssumption
  PROVE  Spec => []TypeOK
<1>1. ClientsInv => TypeOK
  BY DEF ClientsInv
<1> QED
  BY <1>1, ClientsInvariant, PTL

LEMMA InvPaysOnce ==
  ASSUME ClientsAssumption, ClientsInv
  PROVE  EachPaysOnce
<1> SUFFICES ASSUME NEW c \in Clients, ~silent, served[c] < MaxServed
             PROVE  row[c].used <= served[c]
  BY DEF EachPaysOnce
<1>1. Typed
  BY DEF Typed, ClientsInv
<1>2. row[c].used + Size(pending[c]) <= served[c]
  BY DEF ClientsInv, Charged, Paid
<1>3. row[c].used \in Nat /\ Size(pending[c]) \in Nat /\ served[c] \in Nat
  BY <1>1, ARow, Numbers, TypesBefore
<1> QED
  BY <1>2, <1>3

\* Where the core counts clients, none of them pays for a byte twice.
THEOREM PaysOnce ==
  ASSUME ClientsAssumption
  PROVE  Spec => []EachPaysOnce
<1>1. ClientsInv => EachPaysOnce
  BY InvPaysOnce
<1> QED
  BY <1>1, ClientsInvariant, PTL

\* Where the core counts inbounds only, no more than twice what has been delivered is
\* charged to all of them together.
THEOREM ChargedIsDelivered ==
  ASSUME ClientsAssumption
  PROVE  Spec => []ChargedWasDelivered
<1>1. ClientsInv => EachPaysOnce
  BY InvPaysOnce
<1>2. ClientsInv => ChargedWasDelivered
  <2> SUFFICES ASSUME ClientsInv PROVE ChargedWasDelivered
    OBVIOUS
  <2> DEFINE used == [c \in Clients |-> row[c].used]
  <2>1. Typed /\ Billed
    BY DEF Typed, ClientsInv
  <2>2. ASSUME silent, \A c \in Clients : served[c] < MaxServed
        PROVE  Total(used) <= 2 * Total(served)
    <3>1. PICK most \in [Clients -> 0..2 * Total(served)] :
            Covers(most) /\ Total(most) + 2 * Total(Unbilled) <= 2 * Total(served)
      BY <2>1, <2>2, BilledParts DEF BillsFit
    <3>2. /\ most \in [Clients -> Nat] /\ Unbilled \in [Clients -> Nat]
          /\ served \in [Clients -> Nat]
      BY <2>1, UnbilledType, TypesBefore
    <3>3. used \in [Clients -> Nat]
      BY <2>1, KnownNumbers
    <3>4. \A c \in Clients : used[c] \in Nat /\ most[c] \in Nat /\ used[c] <= most[c]
      BY <3>1, <3>2, <3>3 DEF Covers
    <3> HIDE DEF used
    <3>5. Upto(used, Clients) <= Upto(most, Clients)
      BY <3>4, UptoMost DEF ClientsAssumption
    <3>6. Total(used) <= Total(most)
      BY <3>2, <3>3, <3>5, Totals
    <3>7. /\ Total(used) \in Nat /\ Total(most) \in Nat /\ Total(Unbilled) \in Nat
          /\ Total(served) \in Nat
      BY <3>2, <3>3, Totals
    <3> QED
      BY <3>1, <3>6, <3>7
  <2> QED
    BY <1>1, <2>2 DEF ChargedWasDelivered
<1> QED
  BY <1>2, ClientsInvariant, PTL

\* A row stays within its quota, unless the quota has been set below it.
THEOREM StaysWithinLimit ==
  ASSUME ClientsAssumption
  PROVE  Spec => []WithinLimit
<1>1. ClientsInv => WithinLimit
  BY DEF ClientsInv, Limited, Fits, WithinLimit
<1> QED
  BY <1>1, ClientsInvariant, PTL

\* At rest nobody has promised anything, so all is done.
LEMMA AtRest ==
  ASSUME ClientsAssumption, Idle
  PROVE  /\ \A i \in Inbounds : ~Due(i)
         /\ \A c \in Clients : ~Comes(c) /\ ~Cut(c)
<1>1. /\ NoWork.pc = "idle" /\ NoWork.todo = {} /\ NoWork.snap = {}
  BY NothingThere
<1> QED
  BY <1>1 DEF Idle, Due, Comes, Cut

\* Once all has come to rest, who may connect is served.
THEOREM TheEntitledAreServed ==
  ASSUME ClientsAssumption
  PROVE  Spec => []EntitledIsServed
<1>1. ClientsInv => EntitledIsServed
  <2> SUFFICES ASSUME ClientsInv, Idle, ~lost, NEW i \in Inbounds, NEW c \in Members(i)
               PROVE  c \in settings[i] \cap core[i]
    BY DEF EntitledIsServed
  <2>1. c \in Clients
    BY DEF Members
  <2> QED
    BY <2>1, AtRest DEF ClientsInv, WillBeServed
<1> QED
  BY <1>1, ClientsInvariant, PTL

\* Then who may not is served only in one of the known ways.
THEOREM OnlyTheStrayLinger ==
  ASSUME ClientsAssumption
  PROVE  Spec => []OnlyKnownWaysToLinger
<1>1. ClientsInv => OnlyKnownWaysToLinger
  <2> SUFFICES ASSUME ClientsInv, Idle, ~lost, NEW i \in Inbounds,
                      NEW c \in core[i] \ Members(i)
               PROVE  <<c, i>> \in stray
    BY DEF OnlyKnownWaysToLinger
  <2>1. c \in Clients
    BY DEF ClientsInv, TypeOK
  <2> QED
    BY <2>1, AtRest DEF ClientsInv, WillLeave
<1> QED
  BY <1>1, ClientsInvariant, PTL

-----------------------------------------------------------------------------
(* A client in multi-node mode (RemoteClients), for any inbounds, workers, *)
(* goroutines and budgets.  Every row, setting and worker is either up to  *)
(* date, or there is a goroutine that will see to it, a call on its way,   *)
(* or a reason on record (RemoteInv): what each step must keep of this is  *)
(* RemoteStep, for the inbounds whose rows it changes and for the others.  *)

CONSTANT Sites   \* the constants of RemoteClients
VARIABLES client, attached, listed, conf, calls, charge, jobs, budget, unsaved, behind,
          overwritten

Remote == INSTANCE RemoteClients WITH
  Inbounds <- Sites.Inbounds, Nodes <- Sites.Nodes, At <- Sites.At,
  Requests <- Sites.Requests, Disablers <- Sites.Disablers, Budgets <- Sites.Budgets,
  row <- client, on <- attached, settings <- listed, tick <- charge, work <- jobs,
  left <- budget, lost <- overwritten

-----------------------------------------------------------------------------
(* What a step keeps.                                                      *)

\* The calls that are under way after a step are those of before, perhaps no
\* longer the last word, and the new ones in cs.
Heeds(cs) ==
  /\ cs \subseteq calls'
  /\ \A c \in calls' \ cs : \E d \in calls :
       /\ c.node = d.node /\ c.of = d.of /\ c.give = d.give /\ d.stale \subseteq c.stale
  /\ \A d \in calls : \E c \in calls' : c.node = d.node /\ c.of = d.of

\* The other calls to n about i are not the last word.
Overtaken(cs, n, i) == \A c \in calls' \ cs : c.node = n /\ i \in c.of => i \in c.stale

\* A call in cs tells n of i, and it is the last word.
Retold(cs, n, i) == Overtaken(cs, n, i) /\ \E c \in cs : c.node = n /\ i \in c.of

\* What a call says is right when the step is over.
RightNext(c) ==
  \A i \in c.of \ c.stale :
    (i \in c.give <=> i \in Remote!Listed') \/ Remote!Owed(jobs', c.node, i)

\* The rows of an inbound do not change, and no promise about it is forgotten.
SameNext(cs, i) ==
  /\ i \in Remote!Listed' <=> i \in Remote!Listed
  /\ Remote!Promised(jobs, i) => Remote!Promised(jobs', i) \/ Remote!Saving(jobs', i)
  /\ Remote!Saving(jobs, i) => Remote!Saving(jobs', i)
  /\ \A n \in Sites.Nodes : n \in Sites.At[i] /\ Remote!Owed(jobs, n, i) =>
     Remote!Owed(jobs', n, i) \/ Retold(cs, n, i)

\* They may change: somebody will rebuild it, or its workers are told or the
\* reason is recorded.
MovedNext(cs, i) ==
  \/ Remote!Promised(jobs', i)
  \/ /\ i \in unsaved'
     /\ \A n \in Sites.Nodes : n \in Sites.At[i] =>
          Retold(cs, n, i) \/ (<<n, i>> \in behind' /\ Overtaken(cs, n, i))

\* RemoteInv holds after a step if each of its parts does.
LEMMA RemoteAssembled ==
  ASSUME Remote!RemoteTypes',
         ~overwritten' =>
           /\ \A i \in Sites.Inbounds :
                \/ i \in unsaved' \/ (i \in listed' <=> i \in Remote!Listed')
                \/ Remote!Promised(jobs', i) \/ Remote!Saving(jobs', i)
           /\ \A c \in calls' : RightNext(c)
           /\ \A n \in Sites.Nodes, i \in Sites.Inbounds : n \in Sites.At[i] =>
                \/ <<n, i>> \in behind' \/ (i \in conf'[n] <=> i \in Remote!Listed')
                \/ Remote!Owed(jobs', n, i) \/ \E c \in calls' : c.node = n /\ i \in c.of
  PROVE  Remote!RemoteInv'
BY DEF Remote!RemoteInv, Remote!SettingsKept, Remote!CallRight, Remote!ConfKept, RightNext,
       Remote!Promised, Remote!Saving, Remote!Owed

\* A step keeps RemoteInv if it keeps what is said of the inbounds it changes
\* and of the others, and every promise it ends is kept otherwise.
LEMMA RemoteStep ==
  ASSUME Remote!RemoteInv, Remote!RemoteTypes', NEW cs, NEW S,
         overwritten => overwritten', listed' = listed, conf' = conf,
         unsaved \subseteq unsaved', behind \subseteq behind',
         Heeds(cs),
         ~overwritten' => /\ \A c \in cs : RightNext(c)
                   /\ \A i \in Sites.Inbounds : IF i \in S THEN MovedNext(cs, i)
                      ELSE SameNext(cs, i)
  PROVE  Remote!RemoteInv'
<1> SUFFICES ASSUME ~overwritten'
             PROVE  /\ \A i \in Sites.Inbounds :
                         \/ i \in unsaved' \/ (i \in listed' <=> i \in Remote!Listed')
                         \/ Remote!Promised(jobs', i) \/ Remote!Saving(jobs', i)
                    /\ \A c \in calls' : RightNext(c)
                    /\ \A n \in Sites.Nodes, i \in Sites.Inbounds : n \in Sites.At[i] =>
                         \/ <<n, i>> \in behind' \/ (i \in conf'[n] <=> i \in Remote!Listed')
                         \/ Remote!Owed(jobs', n, i) \/ \E c \in calls' : c.node = n
                            /\ i \in c.of
  BY RemoteAssembled
<1>0. /\ \A i \in Sites.Inbounds : Remote!SettingsKept(i)
      /\ \A c \in calls : Remote!CallRight(c) /\ Remote!CallOK(c)
      /\ \A n \in Sites.Nodes, i \in Sites.Inbounds : n \in Sites.At[i] =>
         Remote!ConfKept(n, i)
  BY DEF Remote!RemoteInv, Remote!RemoteTypes
<1>1. ASSUME NEW i \in Sites.Inbounds
      PROVE  \/ i \in unsaved' \/ (i \in listed' <=> i \in Remote!Listed')
             \/ Remote!Promised(jobs', i) \/ Remote!Saving(jobs', i)
  <2>1. CASE i \in S
    BY <2>1 DEF MovedNext
  <2>2. CASE i \notin S
    <3>1. SameNext(cs, i) /\ Remote!SettingsKept(i)
      BY <1>0, <2>2
    <3>2. QED
      BY <3>1 DEF SameNext, Remote!SettingsKept
  <2>3. QED
    BY <2>1, <2>2
<1>2. ASSUME NEW c \in calls', NEW i \in c.of \ c.stale
      PROVE  (i \in c.give <=> i \in Remote!Listed') \/ Remote!Owed(jobs', c.node, i)
  <2>1. CASE c \in cs
    BY <2>1 DEF RightNext
  <2>2. CASE c \notin cs
    <3>1. PICK d \in calls : c.node = d.node /\ c.of = d.of /\ c.give = d.give
                             /\ d.stale \subseteq c.stale
      BY <2>2 DEF Heeds
    <3>2. /\ i \in d.of \ d.stale /\ i \in Sites.Inbounds /\ d.node \in Sites.Nodes
             /\ d.node \in Sites.At[i]
          /\ (i \in d.give <=> i \in Remote!Listed) \/ Remote!Owed(jobs, d.node, i)
      BY <1>0, <3>1 DEF Remote!CallOK, Remote!CallRight
    <3>3. ~Retold(cs, d.node, i) /\ ~Overtaken(cs, d.node, i)
      BY <2>2, <3>1 DEF Retold, Overtaken
    <3>4. CASE i \in S
      BY <3>1, <3>2, <3>3, <3>4 DEF MovedNext, Remote!Owed
    <3>5. CASE i \notin S
      <4>1. SameNext(cs, i)
        BY <3>2, <3>5
      <4>2. QED
        BY <3>1, <3>2, <3>3, <4>1 DEF SameNext
    <3>6. QED
      BY <3>4, <3>5
  <2>3. QED
    BY <2>1, <2>2
<1>3. ASSUME NEW n \in Sites.Nodes, NEW i \in Sites.Inbounds, n \in Sites.At[i]
      PROVE  \/ <<n, i>> \in behind' \/ (i \in conf'[n] <=> i \in Remote!Listed')
             \/ Remote!Owed(jobs', n, i) \/ \E c \in calls' : c.node = n /\ i \in c.of
  <2>1. Retold(cs, n, i) => \E c \in calls' : c.node = n /\ i \in c.of
    BY DEF Retold, Heeds
  <2>2. CASE i \in S
    BY <1>3, <2>1, <2>2 DEF MovedNext, Remote!Owed
  <2>3. CASE i \notin S
    <3>1. SameNext(cs, i) /\ Remote!ConfKept(n, i)
      BY <1>0, <1>3, <2>3
    <3>2. (\E c \in calls : c.node = n /\ i \in c.of)
            => \E c \in calls' : c.node = n /\ i \in c.of
      BY DEF Heeds
    <3>3. QED
      BY <1>3, <2>1, <3>1, <3>2 DEF SameNext, Remote!ConfKept
  <2>4. QED
    BY <2>2, <2>3
<1>4. QED
  BY <1>1, <1>2, <1>3 DEF RightNext

---------------------------------------------------------------------------
\* Calls lose their fresh rows as others are written.
LEMMA AgedCalls ==
  ASSUME Remote!RemoteTypes, NEW P, calls' = Remote!AgedBy(P)
  PROVE  /\ Heeds({}) /\ \A c \in calls' : Remote!CallOK(c)
         /\ \A n \in Sites.Nodes, i \in Sites.Inbounds : <<n, i>> \in P =>
            Overtaken({}, n, i)
<1>1. \A d \in calls : Remote!CallOK(d)
  BY DEF Remote!RemoteTypes
<1>2. ASSUME NEW d \in calls, NEW c,
             c = [d EXCEPT !.stale = @ \cup {i \in d.of : <<d.node, i>> \in P}]
      PROVE  /\ c.node = d.node /\ c.of = d.of /\ c.give = d.give /\ Remote!CallOK(c)
             /\ c.stale = d.stale \cup {i \in d.of : <<d.node, i>> \in P}
  BY <1>1, <1>2 DEF Remote!CallOK
<1>3. ASSUME NEW c \in calls'
      PROVE  \E d \in calls : /\ c.node = d.node /\ c.of = d.of /\ c.give = d.give /\ Remote!CallOK(c)
                              /\ c.stale = d.stale \cup {i \in d.of : <<d.node, i>> \in P}
  <2>1. PICK d \in calls : c = [d EXCEPT !.stale = @ \cup {i \in d.of :
               <<d.node, i>> \in P}]
    BY <1>3 DEF Remote!AgedBy
  <2>2. QED
    BY <1>2, <2>1
<1>4. ASSUME NEW d \in calls PROVE \E c \in calls' : c.node = d.node /\ c.of = d.of
  <2>1. PICK c : c = [d EXCEPT !.stale = @ \cup {i \in d.of : <<d.node, i>> \in P}]
    OBVIOUS
  <2>2. c \in calls'
    BY <2>1 DEF Remote!AgedBy
  <2>3. QED
    BY <1>2, <2>1, <2>2
<1>5. Heeds({})
  BY <1>3, <1>4 DEF Heeds
<1>6. ASSUME NEW n \in Sites.Nodes, NEW i \in Sites.Inbounds,
             <<n, i>> \in P PROVE Overtaken({}, n, i)
  BY <1>3, <1>6 DEF Overtaken
<1>7. QED
  BY <1>3, <1>5, <1>6

\* New calls go to the workers of an inbound, and the older ones stay.
LEMMA ToldCalls ==
  ASSUME Remote!RemoteTypes, NEW cs, \A c \in cs : Remote!CallOK(c),
         calls' = Remote!Told(cs)
  PROVE  /\ Heeds(cs) /\ \A c \in calls' : Remote!CallOK(c)
         /\ \A n \in Sites.Nodes,
            i \in Sites.Inbounds : (\E c \in cs : c.node = n /\ i \in c.of) =>
              Retold(cs, n, i)
<1> DEFINE P == UNION {{c.node} \X c.of : c \in cs}
<1>1. \A d \in calls : Remote!CallOK(d)
  BY DEF Remote!RemoteTypes
<1>2. ASSUME NEW d \in calls, NEW c,
             c = [d EXCEPT !.stale = @ \cup {i \in d.of : <<d.node, i>> \in P}]
      PROVE  /\ c.node = d.node /\ c.of = d.of /\ c.give = d.give /\ Remote!CallOK(c)
             /\ c.stale = d.stale \cup {i \in d.of : <<d.node, i>> \in P}
  BY <1>1, <1>2 DEF Remote!CallOK
<1>3. ASSUME NEW c \in calls', c \notin cs
      PROVE  \E d \in calls : /\ c.node = d.node /\ c.of = d.of /\ c.give = d.give /\ Remote!CallOK(c)
                              /\ c.stale = d.stale \cup {i \in d.of : <<d.node, i>> \in P}
  <2>1. PICK d \in calls : c = [d EXCEPT !.stale = @ \cup {i \in d.of :
               <<d.node, i>> \in P}]
    BY <1>3 DEF Remote!AgedBy, Remote!Told
  <2>2. QED
    BY <1>2, <2>1
<1>4. ASSUME NEW d \in calls PROVE \E c \in calls' : c.node = d.node /\ c.of = d.of
  <2>1. PICK c : c = [d EXCEPT !.stale = @ \cup {i \in d.of : <<d.node, i>> \in P}]
    OBVIOUS
  <2>2. c \in calls'
    BY <2>1 DEF Remote!AgedBy, Remote!Told
  <2>3. QED
    BY <1>2, <2>1, <2>2
<1>5. cs \subseteq calls'
  BY DEF Remote!Told
<1>6. ASSUME NEW n \in Sites.Nodes, NEW i \in Sites.Inbounds, NEW e \in cs, e.node = n,
             i \in e.of
      PROVE  Overtaken(cs, n, i)
  <2>1. <<n, i>> \in P
    BY <1>6
  <2>2. QED
    BY <1>3, <2>1 DEF Overtaken
<1>7. QED
  BY <1>3, <1>4, <1>5, <1>6 DEF Heeds, Retold

\* No call is under way to an inbound without workers.
LEMMA NoCalls ==
  ASSUME Remote!RemoteTypes, calls' = calls
  PROVE  Heeds({}) /\ \A c \in calls' : Remote!CallOK(c)
BY DEF Remote!RemoteTypes, Heeds

\* The calls ToWorkers adds are those it was asked for.
LEMMA CallsToWorkers ==
  ASSUME NEW I \in SUBSET Sites.Inbounds, NEW give, NEW stale
  PROVE  /\ \A c \in Remote!ToWorkers(I, give, stale) :
              /\ Remote!CallOK(c)
              /\ \A i \in c.of : i \in I /\ (i \in c.give <=> i \in give)
                 /\ (i \in c.stale <=> i \in stale)
         /\ \A n \in Sites.Nodes, i \in I : n \in Sites.At[i] =>
              \E c \in Remote!ToWorkers(I, give, stale) : c.node = n /\ i \in c.of
<1>1. ASSUME NEW c \in Remote!ToWorkers(I, give, stale)
      PROVE  /\ Remote!CallOK(c)
             /\ \A i \in c.of : i \in I /\ (i \in c.give <=> i \in give)
                /\ (i \in c.stale <=> i \in stale)
  <2>1. PICK p \in Remote!Pairs(I) :
               c = Remote!Call(p[1], {p[2]}, give \cap {p[2]}, stale \cap {p[2]})
    BY DEF Remote!ToWorkers
  <2>2. p[1] \in Sites.Nodes /\ p[2] \in I /\ p[2] \in Sites.Inbounds
          /\ p[1] \in Sites.At[p[2]]
    BY DEF Remote!Pairs
  <2>3. c.node = p[1] /\ c.of = {p[2]} /\ c.give = give \cap {p[2]}
          /\ c.stale = stale \cap {p[2]}
    BY <2>1 DEF Remote!Call
  <2>4. c \in [node : Sites.Nodes, of : SUBSET Sites.Inbounds, give : SUBSET Sites.Inbounds,
            stale : SUBSET Sites.Inbounds]
    BY <2>1, <2>2 DEF Remote!Call
  <2>5. QED
    BY <2>2, <2>3, <2>4 DEF Remote!CallOK
<1>2. ASSUME NEW n \in Sites.Nodes, NEW i \in I, n \in Sites.At[i]
      PROVE  \E c \in Remote!ToWorkers(I, give, stale) : c.node = n /\ i \in c.of
  <2>1. PICK p : p = <<n, i>>
    OBVIOUS
  <2>2. p \in Remote!Pairs(I) /\ p[1] = n /\ p[2] = i
    BY <1>2, <2>1 DEF Remote!Pairs
  <2>3. PICK c : c = Remote!Call(p[1], {p[2]}, give \cap {p[2]}, stale \cap {p[2]})
    OBVIOUS
  <2>4. c \in Remote!ToWorkers(I, give, stale)
    BY <2>2, <2>3 DEF Remote!ToWorkers
  <2>5. QED
    BY <2>2, <2>3, <2>4 DEF Remote!Call
<1>3. QED
  BY <1>1, <1>2

---------------------------------------------------------------------------
\* A goroutine is given other work, and no other is.
LEMMA WorkGiven ==
  ASSUME Remote!RemoteTypes, NEW w \in Remote!Workers, NEW x, Remote!WorkOK(x),
         jobs' = [jobs EXCEPT ![w] = x]
  PROVE  /\ jobs' = [v \in Remote!Workers |-> jobs'[v]]
            /\ \A v \in Remote!Workers : Remote!WorkOK(jobs'[v])
         /\ jobs'[w] = x /\ \A v \in Remote!Workers \ {w} : jobs'[v] = jobs[v]
<1>1. jobs = [v \in Remote!Workers |-> jobs[v]]
  BY DEF Remote!RemoteTypes
<1>2. jobs'[w] = x /\ \A v \in Remote!Workers \ {w} : jobs'[v] = jobs[v]
  BY <1>1
<1>3. jobs' = [v \in Remote!Workers |-> jobs'[v]]
  BY <1>1
<1>4. QED
  BY <1>2, <1>3 DEF Remote!RemoteTypes

\* Goroutine w still tells and saves what it was to.
LEMMA PromisesKept ==
  ASSUME NEW w \in Remote!Workers, \A v \in Remote!Workers \ {w} : jobs'[v] = jobs[v],
         NEW i,
         Remote!Tells(jobs[w], i) => Remote!Tells(jobs'[w], i),
         Remote!Saves(jobs[w], i) => Remote!Saves(jobs'[w], i)
           /\ jobs[w].passed \subseteq jobs'[w].passed
  PROVE  /\ Remote!Promised(jobs, i) => Remote!Promised(jobs', i)
         /\ Remote!Saving(jobs, i) => Remote!Saving(jobs', i)
         /\ \A n : Remote!Owed(jobs, n, i) => Remote!Owed(jobs', n, i)
<1>1. ASSUME NEW v \in Remote!Workers
      PROVE  /\ Remote!Tells(jobs[v], i) => Remote!Tells(jobs'[v], i)
             /\ Remote!Saves(jobs[v], i) => Remote!Saves(jobs'[v], i)
                /\ jobs[v].passed \subseteq jobs'[v].passed
  BY DEF Remote!Tells, Remote!Saves
<1>2. Remote!Promised(jobs, i) => Remote!Promised(jobs', i)
  BY <1>1 DEF Remote!Promised
<1>3. Remote!Saving(jobs, i) => Remote!Saving(jobs', i)
  BY <1>1 DEF Remote!Saving
<1>4. ASSUME NEW n, Remote!Owed(jobs, n, i) PROVE Remote!Owed(jobs', n, i)
  BY <1>1, <1>2, <1>4 DEF Remote!Owed
<1>5. QED
  BY <1>2, <1>3, <1>4

\* What a goroutine has read is something that was there.
LEMMA WorkIsOK ==
  ASSUME Remote!RemoteTypes
  PROVE  /\ \A w \in Remote!Workers : Remote!WorkOK(jobs[w])
         /\ Remote!WorkOK(Remote!NoWork) /\ Remote!Absent \in Remote!Row
            /\ Remote!RowOK(Remote!Absent) /\ Remote!Fresh \in Remote!Row
               /\ Remote!RowOK(Remote!Fresh)
         /\ Remote!Here \in Remote!Row \X SUBSET Sites.Inbounds
            /\ Remote!ListedBy(Remote!Here) = Remote!Listed
               /\ Remote!Listed \subseteq Sites.Inbounds
         /\ Remote!Here[1] = client /\ Remote!Here[2] = attached
<1>1. \A w \in Remote!Workers : Remote!WorkOK(jobs[w])
  BY DEF Remote!RemoteTypes
<1>2. Remote!Absent \in Remote!Row /\ Remote!RowOK(Remote!Absent)
        /\ Remote!Fresh \in Remote!Row /\ Remote!RowOK(Remote!Fresh)
  BY DEF Remote!Absent, Remote!Fresh, Remote!Row, Remote!RowOK
<1>3. Remote!WorkOK(Remote!NoWork)
  BY <1>2 DEF Remote!WorkOK, Remote!NoWork
<1>4. Remote!Here \in Remote!Row \X SUBSET Sites.Inbounds
        /\ Remote!ListedBy(Remote!Here) = Remote!Listed
           /\ Remote!Listed \subseteq Sites.Inbounds
      /\ Remote!Here[1] = client /\ Remote!Here[2] = attached
  BY DEF Remote!RemoteTypes, Remote!RowOK, Remote!Here, Remote!ListedBy, Remote!Listed
<1>5. QED
  BY <1>1, <1>2, <1>3, <1>4
---------------------------------------------------------------------------
\* A goroutine goes on, and whoever it makes listed or unlisted it will rebuild.
LEMMA RemoteRequest ==
  ASSUME Remote!RemoteInv, NEW w \in Remote!Workers, NEW x, Remote!WorkOK(x),
         jobs' = [jobs EXCEPT ![w] = x],
         UNCHANGED <<listed, conf, calls, unsaved, behind>>, overwritten => overwritten',
         Remote!RowOK(client'), Remote!RowOK(charge'), attached' \subseteq Sites.Inbounds,
         \A i \in Sites.Inbounds :
           /\ Remote!Tells(jobs[w], i) => Remote!Tells(x, i)
           /\ Remote!Saves(jobs[w], i) => Remote!Saves(x, i)
              /\ jobs[w].passed \subseteq x.passed,
         ~overwritten' =>
           \A i \in Sites.Inbounds :
             Remote!Tells(x, i) \/ (i \in Remote!Listed' <=> i \in Remote!Listed)
  PROVE  Remote!RemoteInv'
<1>0. Remote!RemoteTypes
  BY DEF Remote!RemoteInv
<1>1. /\ jobs' = [v \in Remote!Workers |-> jobs'[v]]
         /\ \A v \in Remote!Workers : Remote!WorkOK(jobs'[v])
      /\ jobs'[w] = x /\ \A v \in Remote!Workers \ {w} : jobs'[v] = jobs[v]
  BY <1>0, WorkGiven
<1>2. Heeds({}) /\ \A c \in calls' : Remote!CallOK(c)
  BY <1>0, NoCalls
<1>3. Remote!RemoteTypes'
  BY <1>0, <1>1, <1>2 DEF Remote!RemoteTypes
<1>4. PICK S : S = {i \in Sites.Inbounds : Remote!Tells(x, i)}
  OBVIOUS
<1>5. ASSUME NEW i \in Sites.Inbounds
      PROVE  /\ Remote!Promised(jobs, i) => Remote!Promised(jobs', i)
             /\ Remote!Saving(jobs, i) => Remote!Saving(jobs', i)
             /\ \A n : Remote!Owed(jobs, n, i) => Remote!Owed(jobs', n, i)
  BY <1>1, PromisesKept
<1>6. ASSUME ~overwritten', NEW i \in Sites.Inbounds
      PROVE  IF i \in S THEN MovedNext({}, i) ELSE SameNext({}, i)
  <2>1. CASE i \in S
    <3>1. Remote!Promised(jobs', i)
      BY <1>1, <1>4, <2>1 DEF Remote!Promised
    <3>2. QED
      BY <2>1, <3>1 DEF MovedNext
  <2>2. CASE i \notin S
    <3>1. i \in Remote!Listed' <=> i \in Remote!Listed
      BY <1>4, <1>6, <2>2
    <3>2. QED
      BY <1>5, <2>2, <3>1 DEF SameNext
  <2>3. QED
    BY <2>1, <2>2
<1>7. QED
  BY <1>2, <1>3, <1>6, RemoteStep

\* A goroutine without work promises nothing.
LEMMA IdleOK ==
  ASSUME Remote!RemoteTypes, NEW w \in Remote!Workers, NEW i
  PROVE  /\ jobs[w].pc \notin {"tell", "save"} => ~Remote!Saves(jobs[w], i)
            /\ (Remote!Tells(jobs[w], i) => i \in jobs[w].todo)
         /\ jobs[w].pc \in {"idle", "update", "reset", "bulkreset", "page"} =>
            ~Remote!Tells(jobs[w], i) /\ ~Remote!Saves(jobs[w], i)
         /\ jobs[w] = Remote!NoWork => ~Remote!Tells(jobs[w], i)
            /\ ~Remote!Saves(jobs[w], i)
BY DEF Remote!RemoteTypes, Remote!WorkOK, Remote!Tells, Remote!Saves, Remote!NoWork

\* NoWork, but for some of its parts.
LEMMA GivenOK ==
  ASSUME Remote!RemoteTypes, NEW I \in SUBSET Sites.Inbounds
  PROVE  /\ Remote!WorkOK(Remote!Rebuilding(I))
            /\ \A i : Remote!Tells(Remote!Rebuilding(I), i) <=> i \in I
         /\ \A i \in I : Remote!WorkOK(Remote!Cut(i))
            /\ \A j : Remote!Tells(Remote!Cut(i), j) <=> j = i
         /\ \A pc \in {"update", "reset", "bulkreset", "page"}, r \in Remote!Row :
              Remote!RowOK(r) /\ r # Remote!Absent =>
                Remote!WorkOK([Remote!NoWork EXCEPT !.pc = pc, !.old = r])
         /\ Remote!WorkOK([Remote!NoWork EXCEPT !.pc = "bulk", !.then = "bulk", !.todo = I])
         /\ Remote!WorkOK([Remote!NoWork EXCEPT !.pc = "add", !.todo = I])
         /\ Remote!WorkOK([Remote!NoWork EXCEPT !.pc = "addeach", !.then = "addeach", !.todo = I])
<1>0. Remote!Absent \in Remote!Row /\ Remote!RowOK(Remote!Absent)
  BY WorkIsOK
<1>1. Remote!WorkOK(Remote!Rebuilding(I))
        /\ \A i : Remote!Tells(Remote!Rebuilding(I), i) <=> i \in I
  BY <1>0 DEF Remote!Rebuilding, Remote!NoWork, Remote!WorkOK, Remote!Tells
<1>2. ASSUME NEW i \in I PROVE Remote!WorkOK(Remote!Cut(i))
             /\ \A j : Remote!Tells(Remote!Cut(i), j) <=> j = i
  BY <1>0 DEF Remote!Cut, Remote!NoWork, Remote!WorkOK, Remote!Tells
<1>3. ASSUME NEW pc \in {"update", "reset", "bulkreset", "page"}, NEW r \in Remote!Row,
             Remote!RowOK(r), r # Remote!Absent
      PROVE  Remote!WorkOK([Remote!NoWork EXCEPT !.pc = pc, !.old = r])
  BY <1>0, <1>3 DEF Remote!NoWork, Remote!WorkOK
<1>4. Remote!WorkOK([Remote!NoWork EXCEPT !.pc = "bulk", !.then = "bulk", !.todo = I])
  BY <1>0 DEF Remote!NoWork, Remote!WorkOK
<1>5. Remote!WorkOK([Remote!NoWork EXCEPT !.pc = "add", !.todo = I])
  BY <1>0 DEF Remote!NoWork, Remote!WorkOK
<1>6. Remote!WorkOK([Remote!NoWork EXCEPT !.pc = "addeach", !.then = "addeach", !.todo = I])
  BY <1>0 DEF Remote!NoWork, Remote!WorkOK
<1>7. QED
  BY <1>1, <1>2, <1>3, <1>4, <1>5, <1>6, Zenon

\* Reading the rows of one of the inbounds a goroutine has to do.
LEMMA ReadingOK ==
  ASSUME Remote!RemoteTypes, NEW w \in Remote!Workers, NEW i \in jobs[w].todo,
         jobs[w].pc \notin {"tell", "save"}
  PROVE  /\ i \in Sites.Inbounds /\ Remote!WorkOK(Remote!Reading(w, i))
         /\ \A j : Remote!Tells(jobs[w], j) => Remote!Tells(Remote!Reading(w, i), j)
<1>1. Remote!WorkOK(jobs[w]) /\ Remote!Here \in Remote!Row \X SUBSET Sites.Inbounds
        /\ Remote!ListedBy(Remote!Here) = Remote!Listed
  BY WorkIsOK
<1>2. i \in Sites.Inbounds
  BY <1>1 DEF Remote!WorkOK
<1>3. PICK x : x = Remote!Reading(w, i)
  OBVIOUS
<1>4. /\ x.pc = "tell" /\ x.then = jobs[w].then /\ x.old = jobs[w].old
         /\ x.seen = Remote!Here
      /\ x.todo = jobs[w].todo \ {i} /\ x.at = {i} /\ x.give = Remote!Listed \cap {i}
      /\ x.passed = jobs[w].passed
  BY <1>1, <1>3 DEF Remote!Reading, Remote!WorkOK
<1>5. x \in [pc :
        {"idle", "next", "bulk", "addeach", "tell", "save", "cut", "cutread", "cutsave",
                  "add", "update", "reset", "bulkreset", "page"},
            then : {"next", "bulk", "addeach"}, old : Remote!Row, seen :
              Remote!Row \X SUBSET Sites.Inbounds,
            todo : SUBSET Sites.Inbounds, at : SUBSET Sites.Inbounds, give :
              SUBSET Sites.Inbounds,
            passed : SUBSET Sites.Nodes]
  BY <1>1, <1>2, <1>3 DEF Remote!Reading, Remote!WorkOK
<1>6. Remote!WorkOK(x)
  BY <1>1, <1>4, <1>5 DEF Remote!WorkOK
<1>7. \A j : Remote!Tells(jobs[w], j) => Remote!Tells(x, j)
  BY <1>4 DEF Remote!Tells
<1>8. QED
  BY <1>2, <1>3, <1>6, <1>7

\* A goroutine reads the clients of an inbound.
LEMMA RemoteReadMembers ==
  ASSUME Remote!RemoteInv, NEW w \in Remote!Workers, Remote!ReadMembers(w)
  PROVE  Remote!RemoteInv'
<1>0. Remote!RemoteTypes
  BY DEF Remote!RemoteInv
<1>1. jobs[w].pc \in {"next", "bulk"}
  BY DEF Remote!ReadMembers
<1>2. PICK i \in jobs[w].todo : jobs' = [jobs EXCEPT ![w] = Remote!Reading(w, i)]
  BY DEF Remote!ReadMembers
<1>3. PICK x : x = Remote!Reading(w, i)
  OBVIOUS
<1>4. Remote!WorkOK(x) /\ \A j : Remote!Tells(jobs[w], j) => Remote!Tells(x, j)
  BY <1>0, <1>1, <1>2, <1>3, ReadingOK
<1>5. \A j : ~Remote!Saves(jobs[w], j)
  BY <1>0, <1>1, IdleOK
<1>6. UNCHANGED <<client, attached, listed, conf, calls, charge, budget, unsaved, behind,
        overwritten>>
  BY DEF Remote!ReadMembers, Remote!ghosts
<1>7. Remote!RowOK(client) /\ Remote!RowOK(charge) /\ attached \subseteq Sites.Inbounds
  BY <1>0 DEF Remote!RemoteTypes
<1>8. Remote!Listed' = Remote!Listed
  BY <1>6 DEF Remote!Listed
<1>9. QED
  BY <1>2, <1>3, <1>4, <1>5, <1>6, <1>7, <1>8, RemoteRequest

\* A goroutine has gone through its inbounds.
LEMMA RemoteFinish ==
  ASSUME Remote!RemoteInv, NEW w \in Remote!Workers, Remote!Finish(w)
  PROVE  Remote!RemoteInv'
<1>0. Remote!RemoteTypes
  BY DEF Remote!RemoteInv
<1>1. jobs[w].pc \in {"next", "addeach"} /\ jobs[w].todo = {}
        /\ jobs' = [jobs EXCEPT ![w] = Remote!NoWork]
  BY DEF Remote!Finish
<1>5. \A j : ~Remote!Tells(jobs[w], j) /\ ~Remote!Saves(jobs[w], j)
  BY <1>1 DEF Remote!Tells, Remote!Saves
<1>6. UNCHANGED <<client, attached, listed, conf, calls, charge, budget, unsaved, behind,
        overwritten>>
  BY DEF Remote!Finish, Remote!ghosts
<1>7. Remote!RowOK(client) /\ Remote!RowOK(charge) /\ attached \subseteq Sites.Inbounds
  BY <1>0 DEF Remote!RemoteTypes
<1>8. Remote!Listed' = Remote!Listed
  BY <1>6 DEF Remote!Listed
<1>9. QED
  BY <1>0, <1>1, <1>5, <1>6, <1>7, <1>8, WorkIsOK, RemoteRequest

\* A cut-off goroutine reads the row.
LEMMA RemoteCutRead ==
  ASSUME Remote!RemoteInv, NEW w \in Remote!Workers, Remote!CutRead(w)
  PROVE  Remote!RemoteInv'
<1>0. Remote!RemoteTypes /\ Remote!WorkOK(jobs[w]) /\ Remote!RowOK(client)
  BY DEF Remote!RemoteInv, Remote!RemoteTypes
<1>1. PICK x : x = [jobs[w] EXCEPT !.old = client,
                          !.pc = IF client = Remote!Absent THEN "next" ELSE "cutsave"]
  OBVIOUS
<1>2. jobs[w].pc = "cutread" /\ jobs' = [jobs EXCEPT ![w] = x]
  BY <1>0, <1>1 DEF Remote!CutRead, Remote!RemoteTypes
<1>3. Remote!WorkOK(x) /\ x.todo = jobs[w].todo
  BY <1>0, <1>1, <1>2 DEF Remote!WorkOK, Remote!RowOK
<1>5. \A j : ~Remote!Saves(jobs[w], j) /\ (Remote!Tells(jobs[w], j) => Remote!Tells(x, j))
  BY <1>2, <1>3 DEF Remote!Tells, Remote!Saves
<1>6. UNCHANGED <<client, attached, listed, conf, calls, charge, budget, unsaved, behind,
        overwritten>>
  BY DEF Remote!CutRead, Remote!ghosts
<1>7. Remote!RowOK(client) /\ Remote!RowOK(charge) /\ attached \subseteq Sites.Inbounds
  BY <1>0 DEF Remote!RemoteTypes
<1>8. Remote!Listed' = Remote!Listed
  BY <1>6 DEF Remote!Listed
<1>9. QED
  BY <1>2, <1>3, <1>5, <1>6, <1>7, <1>8, RemoteRequest

\* A request reads the row.
LEMMA RemoteOpen ==
  ASSUME Remote!RemoteInv, NEW w \in Remote!Workers,
         NEW pc \in {"update", "reset", "bulkreset", "page"}, Remote!Open(w, pc)
  PROVE  Remote!RemoteInv'
<1>0. Remote!RemoteTypes /\ Remote!RowOK(client)
  BY DEF Remote!RemoteInv, Remote!RemoteTypes
<1>1. PICK x : x = [Remote!NoWork EXCEPT !.pc = pc, !.old = client]
  OBVIOUS
<1>2. jobs[w] = Remote!NoWork /\ jobs' = [jobs EXCEPT ![w] = x] /\ client.status # "none"
  BY <1>1 DEF Remote!Open, Remote!Edit, Remote!Idle, Remote!Become
<1>3. client \in Remote!Row /\ client # Remote!Absent
  BY <1>0, <1>2 DEF Remote!RowOK, Remote!Absent
<1>4. Remote!WorkOK(x)
  BY <1>0, <1>1, <1>3, GivenOK, Zenon
<1>5. \A j : ~Remote!Saves(jobs[w], j) /\ ~Remote!Tells(jobs[w], j)
  BY <1>0, <1>2, IdleOK
<1>6. UNCHANGED <<client, attached, listed, conf, calls, charge, unsaved, behind,
        overwritten>>
  BY DEF Remote!Open, Remote!ghosts
<1>7. Remote!RowOK(client) /\ Remote!RowOK(charge) /\ attached \subseteq Sites.Inbounds
  BY <1>0 DEF Remote!RemoteTypes
<1>8. Remote!Listed' = Remote!Listed
  BY <1>6 DEF Remote!Listed
<1>9. QED
  BY <1>2, <1>4, <1>5, <1>6, <1>7, <1>8, RemoteRequest

\* Clients that are over are deleted together.
LEMMA RemoteBulkDelete ==
  ASSUME Remote!RemoteInv, NEW w \in Remote!Workers, Remote!BulkDelete(w)
  PROVE  Remote!RemoteInv'
<1>0. Remote!RemoteTypes
  BY DEF Remote!RemoteInv
<1>1. PICK x : x = [Remote!NoWork EXCEPT !.pc = "bulk", !.then = "bulk", !.todo = attached]
  OBVIOUS
<1>2. jobs[w] = Remote!NoWork /\ jobs' = [jobs EXCEPT ![w] = x]
  BY <1>1 DEF Remote!BulkDelete, Remote!Edit, Remote!Idle, Remote!Become
<1>7. Remote!RowOK(client) /\ Remote!RowOK(charge) /\ attached \subseteq Sites.Inbounds
  BY <1>0 DEF Remote!RemoteTypes
<1>4. Remote!WorkOK(x)
  BY <1>0, <1>1, <1>7, GivenOK, Zenon
<1>5. \A j : ~Remote!Saves(jobs[w], j) /\ ~Remote!Tells(jobs[w], j)
  BY <1>0, <1>2, IdleOK
<1>6. UNCHANGED <<client, attached, listed, conf, calls, charge, unsaved, behind,
        overwritten>>
  BY DEF Remote!BulkDelete, Remote!ghosts
<1>8. Remote!Listed' = Remote!Listed
  BY <1>6 DEF Remote!Listed
<1>9. QED
  BY <1>2, <1>4, <1>5, <1>6, <1>7, <1>8, RemoteRequest
---------------------------------------------------------------------------
(* Sites.Requests that change the rows.                                          *)

\* The inbounds that list the client are inbounds.
LEMMA ListedWithin ==
  ASSUME TRUE
  PROVE  Remote!Listed \subseteq attached /\ Remote!Listed' \subseteq attached'
BY DEF Remote!Listed

\* A client is added.
LEMMA RemoteAddClient ==
  ASSUME Remote!RemoteInv, NEW w \in Remote!Workers, Remote!AddClient(w)
  PROVE  Remote!RemoteInv'
<1>0. Remote!RemoteTypes
  BY DEF Remote!RemoteInv
<1>1. PICK x : x = Remote!Rebuilding(attached')
  OBVIOUS
<1>2. /\ jobs[w] = Remote!NoWork /\ jobs' = [jobs EXCEPT ![w] = x]
         /\ client.status = "none" /\ client' = Remote!Fresh
      /\ attached' \in SUBSET Sites.Inbounds
  BY <1>1 DEF Remote!AddClient, Remote!Edit, Remote!Idle, Remote!Become
<1>3. UNCHANGED <<listed, conf, calls, charge, unsaved, behind, overwritten>>
  BY DEF Remote!AddClient, Remote!ghosts
<1>4. Remote!WorkOK(x) /\ \A j : Remote!Tells(x, j) <=> j \in attached'
  BY <1>0, <1>1, <1>2, GivenOK, Zenon
<1>5. \A j : ~Remote!Saves(jobs[w], j) /\ ~Remote!Tells(jobs[w], j)
  BY <1>0, <1>2, IdleOK
<1>6. Remote!RowOK(client') /\ Remote!RowOK(charge')
  BY <1>0, <1>2, <1>3, WorkIsOK DEF Remote!RemoteTypes
<1>7. Remote!Listed = {}
  BY <1>2 DEF Remote!Listed
<1>8. \A j \in Sites.Inbounds :
        Remote!Tells(x, j) \/ (j \in Remote!Listed' <=> j \in Remote!Listed)
  BY <1>4, <1>7, ListedWithin
<1>9. QED
  BY <1>2, <1>3, <1>4, <1>5, <1>6, <1>8, RemoteRequest

\* Clients are switched on or off together.
LEMMA RemoteBulkEnable ==
  ASSUME Remote!RemoteInv, NEW w \in Remote!Workers, Remote!BulkEnable(w)
  PROVE  Remote!RemoteInv'
<1>0. Remote!RemoteTypes /\ Remote!RowOK(client) /\ Remote!RowOK(charge)
        /\ attached \subseteq Sites.Inbounds
  BY DEF Remote!RemoteInv, Remote!RemoteTypes
<1>1. PICK x : x = Remote!Rebuilding(attached)
  OBVIOUS
<1>2. PICK e \in BOOLEAN : client' = [client EXCEPT !.enable = e]
  BY DEF Remote!BulkEnable
<1>3. /\ jobs[w] = Remote!NoWork /\ jobs' = [jobs EXCEPT ![w] = x] /\ client.status # "none"
      /\ UNCHANGED <<attached, listed, conf, calls, charge, unsaved, behind, overwritten>>
  BY <1>1 DEF Remote!BulkEnable, Remote!Edit, Remote!Idle, Remote!Become, Remote!ghosts
<1>4. Remote!WorkOK(x) /\ \A j : Remote!Tells(x, j) <=> j \in attached
  BY <1>0, <1>1, GivenOK, Zenon
<1>5. \A j : ~Remote!Saves(jobs[w], j) /\ ~Remote!Tells(jobs[w], j)
  BY <1>0, <1>3, IdleOK
<1>6. Remote!RowOK(client') /\ Remote!RowOK(charge') /\ attached' \subseteq Sites.Inbounds
  BY <1>0, <1>2, <1>3 DEF Remote!RowOK, Remote!Row
<1>8. \A j \in Sites.Inbounds :
        Remote!Tells(x, j) \/ (j \in Remote!Listed' <=> j \in Remote!Listed)
  BY <1>3, <1>4, ListedWithin
<1>9. QED
  BY <1>3, <1>4, <1>5, <1>6, <1>8, RemoteRequest

\* A client is deleted.
LEMMA RemoteDeleteClient ==
  ASSUME Remote!RemoteInv, NEW w \in Remote!Workers, Remote!DeleteClient(w)
  PROVE  Remote!RemoteInv'
<1>0. Remote!RemoteTypes /\ Remote!RowOK(client) /\ Remote!RowOK(charge)
        /\ attached \subseteq Sites.Inbounds
  BY DEF Remote!RemoteInv, Remote!RemoteTypes
<1>1. PICK x : x = Remote!Rebuilding(attached)
  OBVIOUS
<1>3. /\ jobs[w] = Remote!NoWork /\ jobs' = [jobs EXCEPT ![w] = x]
         /\ client' = Remote!Absent /\ attached' = {}
      /\ UNCHANGED <<listed, conf, calls, charge, unsaved, behind, overwritten>>
  BY <1>1 DEF Remote!DeleteClient, Remote!Edit, Remote!Idle, Remote!Become, Remote!ghosts
<1>4. Remote!WorkOK(x) /\ \A j : Remote!Tells(x, j) <=> j \in attached
  BY <1>0, <1>1, GivenOK, Zenon
<1>5. \A j : ~Remote!Saves(jobs[w], j) /\ ~Remote!Tells(jobs[w], j)
  BY <1>0, <1>3, IdleOK
<1>6. Remote!RowOK(client') /\ Remote!RowOK(charge') /\ attached' \subseteq Sites.Inbounds
  BY <1>0, <1>3, WorkIsOK
<1>8. \A j \in Sites.Inbounds :
        Remote!Tells(x, j) \/ (j \in Remote!Listed' <=> j \in Remote!Listed)
  BY <1>3, <1>4, ListedWithin
<1>9. QED
  BY <1>3, <1>4, <1>5, <1>6, <1>8, RemoteRequest

\* A request writes the row.
LEMMA RemoteUpdateRow ==
  ASSUME Remote!RemoteInv, NEW w \in Remote!Workers, Remote!UpdateRow(w)
  PROVE  Remote!RemoteInv'
<1>0. Remote!RemoteTypes /\ Remote!RowOK(client) /\ Remote!RowOK(charge)
        /\ attached \subseteq Sites.Inbounds /\ Remote!WorkOK(jobs[w])
  BY DEF Remote!RemoteInv, Remote!RemoteTypes
<1>1. PICK old : old = jobs[w].old
  OBVIOUS
<1>2. PICK e \in BOOLEAN, f \in BOOLEAN, S \in SUBSET Sites.Inbounds :
          /\ client' = IF client.status = "none" THEN client
                    ELSE [enable |-> e, full |-> f,
                          status |-> IF old.status = "expired" /\ e /\ ~f THEN "active"
                                     ELSE old.status]
          /\ attached' = S /\ Remote!Become(w, Remote!Rebuilding(attached \cup S))
  BY <1>1 DEF Remote!UpdateRow
<1>3. PICK x : x = Remote!Rebuilding(attached \cup S)
  OBVIOUS
<1>4. /\ jobs[w].pc = "update" /\ jobs' = [jobs EXCEPT ![w] = x]
      /\ UNCHANGED <<listed, conf, calls, charge, unsaved, behind>>
         /\ (overwritten => overwritten')
  BY <1>2, <1>3 DEF Remote!UpdateRow, Remote!Become
<1>5. Remote!WorkOK(x) /\ \A j : Remote!Tells(x, j) <=> j \in attached \cup attached'
  BY <1>0, <1>2, <1>3, GivenOK, Zenon
<1>6. \A j : ~Remote!Saves(jobs[w], j) /\ ~Remote!Tells(jobs[w], j)
  BY <1>0, <1>4, IdleOK
<1>7. old \in Remote!Row /\ Remote!RowOK(old) /\ old # Remote!Absent
  BY <1>0, <1>1, <1>4 DEF Remote!WorkOK
<1>8. Remote!RowOK(client') /\ Remote!RowOK(charge') /\ attached' \subseteq Sites.Inbounds
  BY <1>0, <1>2, <1>4, <1>7 DEF Remote!RowOK, Remote!Row
<1>9. \A j \in Sites.Inbounds :
        Remote!Tells(x, j) \/ (j \in Remote!Listed' <=> j \in Remote!Listed)
  BY <1>5, ListedWithin
<1>10. QED
  BY <1>4, <1>5, <1>6, <1>8, <1>9, RemoteRequest

\* The row is reset.
LEMMA RemoteResetRow ==
  ASSUME Remote!RemoteInv, NEW w \in Remote!Workers, Remote!ResetRow(w)
  PROVE  Remote!RemoteInv'
<1>0. Remote!RemoteTypes /\ Remote!RowOK(client) /\ Remote!RowOK(charge)
        /\ attached \subseteq Sites.Inbounds /\ Remote!WorkOK(jobs[w])
  BY DEF Remote!RemoteInv, Remote!RemoteTypes
<1>1. PICK old : old = jobs[w].old
  OBVIOUS
<1>2. PICK x : x = IF old.status # "expired" \/ ~old.enable THEN Remote!NoWork
                  ELSE IF jobs[w].pc = "reset"
                    THEN [Remote!NoWork EXCEPT !.pc = "add", !.todo = attached]
                  ELSE [Remote!NoWork EXCEPT !.pc = "addeach", !.then = "addeach", !.todo = attached]
  OBVIOUS
<1>3. /\ jobs[w].pc \in {"reset", "bulkreset"} /\ jobs' = [jobs EXCEPT ![w] = x]
      /\ UNCHANGED <<attached, listed, conf, calls, charge, unsaved, behind>>
      /\ overwritten' = (overwritten \/ client # old)
      /\ client' = IF client.status = "none" THEN client
               ELSE [client EXCEPT !.full = FALSE, !.status
                 = IF old.status = "expired" THEN "active" ELSE @]
  BY <1>1, <1>2 DEF Remote!ResetRow, Remote!Become
<1>5. Remote!WorkOK(x) /\ (old.status = "expired" /\ old.enable => x.todo = attached)
  <2>1. Remote!WorkOK(x)
    BY <1>0, <1>2, GivenOK, WorkIsOK, Zenon
  <2>2. old.status = "expired" /\ old.enable => x.todo = attached
    BY <1>2 DEF Remote!NoWork
  <2>3. QED
    BY <2>1, <2>2
<1>6. \A j : ~Remote!Saves(jobs[w], j) /\ ~Remote!Tells(jobs[w], j)
  BY <1>0, <1>3, IdleOK
<1>8. Remote!RowOK(client') /\ Remote!RowOK(charge') /\ attached' \subseteq Sites.Inbounds
  BY <1>0, <1>3 DEF Remote!RowOK, Remote!Row, Remote!Absent
<1>9. ASSUME ~overwritten' PROVE \A j \in Sites.Inbounds :
             Remote!Tells(x, j) \/ (j \in Remote!Listed' <=> j \in Remote!Listed)
  <2>1. client = old
    BY <1>3, <1>9
  <2>2. CASE old.status = "expired" /\ old.enable
    BY <1>3, <1>5, <2>2, ListedWithin DEF Remote!Tells
  <2>3. CASE old.status = "expired" /\ ~old.enable
    <3>1. Remote!Listed = {} /\ ~client'.enable
      BY <1>0, <1>3, <2>1, <2>3 DEF Remote!Listed, Remote!RowOK, Remote!Row
    <3>2. Remote!Listed' = {}
      BY <3>1 DEF Remote!Listed
    <3>3. QED
      BY <3>1, <3>2
  <2>4. CASE old.status # "expired"
    <3>1. client'.enable = client.enable /\ client'.status = client.status
      BY <1>0, <1>3, <2>1, <2>4 DEF Remote!RowOK, Remote!Row
    <3>2. Remote!Listed' = Remote!Listed
      BY <1>3, <3>1 DEF Remote!Listed
    <3>3. QED
      BY <3>2
  <2>5. QED
    BY <2>2, <2>3, <2>4
<1>10. QED
  BY <1>3, <1>5, <1>6, <1>8, <1>9, RemoteRequest
---------------------------------------------------------------------------
(* Steps that tell the workers.                                            *)

\* A tick reads the row.
LEMMA RemoteTickRead ==
  ASSUME Remote!RemoteInv, Remote!TickRead
  PROVE  Remote!RemoteInv'
<1>0. Remote!RemoteTypes /\ Remote!RowOK(client) /\ Remote!RowOK(charge)
        /\ attached \subseteq Sites.Inbounds
  BY DEF Remote!RemoteInv, Remote!RemoteTypes
<1>1. UNCHANGED <<client, attached, listed, conf, calls, jobs, unsaved, behind,
        overwritten>> /\ charge' = client
  BY DEF Remote!TickRead, Remote!ghosts
<1>2. Heeds({}) /\ \A c \in calls' : Remote!CallOK(c)
  BY <1>0, <1>1, NoCalls
<1>3. Remote!RemoteTypes'
  BY <1>0, <1>1, <1>2 DEF Remote!RemoteTypes
<1>4. Remote!Listed' = Remote!Listed
  BY <1>1 DEF Remote!Listed
<1>5. \A i \in Sites.Inbounds : SameNext({}, i)
  BY <1>1, <1>4 DEF SameNext
<1>6. QED
  BY <1>1, <1>2, <1>3, <1>5, RemoteStep

\* A goroutine is to save i now, and has told its workers.
HasTold(x, cs, i) ==
  /\ Remote!Saves(x, i)
  /\ \A n \in Sites.Nodes : n \in Sites.At[i] => \E c \in cs : c.node = n /\ i \in c.of

\* What goroutine w does changes no row.
LEMMA RemoteTell ==
  ASSUME Remote!RemoteInv, NEW w \in Remote!Workers, NEW x, Remote!WorkOK(x),
         jobs' = [jobs EXCEPT ![w] = x],
         UNCHANGED <<client, attached, listed, conf, charge, unsaved, behind, overwritten>>,
         NEW cs, \A c \in cs : Remote!CallOK(c), calls' = Remote!Told(cs),
         ~overwritten => /\ \A c \in cs : \A i \in c.of \ c.stale : i \in c.give <=> i \in Remote!Listed
                  /\ \A i \in Sites.Inbounds :
                       /\ Remote!Saves(jobs[w], i) => Remote!Saves(x, i)
                          /\ jobs[w].passed \subseteq x.passed
                       /\ (Remote!Tells(jobs[w], i) =>
                          Remote!Tells(x, i)) \/ HasTold(x, cs, i)
  PROVE  Remote!RemoteInv'
<1>0. Remote!RemoteTypes
  BY DEF Remote!RemoteInv
<1>1. /\ jobs' = [v \in Remote!Workers |-> jobs'[v]]
         /\ \A v \in Remote!Workers : Remote!WorkOK(jobs'[v])
      /\ jobs'[w] = x /\ \A v \in Remote!Workers \ {w} : jobs'[v] = jobs[v]
  BY <1>0, WorkGiven
<1>2. /\ Heeds(cs) /\ \A c \in calls' : Remote!CallOK(c)
      /\ \A n \in Sites.Nodes,
         i \in Sites.Inbounds : (\E c \in cs : c.node = n /\ i \in c.of) => Retold(cs, n, i)
  BY <1>0, ToldCalls
<1>3. Remote!RemoteTypes'
  BY <1>0, <1>1, <1>2 DEF Remote!RemoteTypes
<1>4. Remote!Listed' = Remote!Listed
  BY DEF Remote!Listed
<1>5. ASSUME ~overwritten', NEW i \in Sites.Inbounds PROVE SameNext(cs, i)
  <2>1. Remote!Saves(jobs[w], i) => Remote!Saves(x, i) /\ jobs[w].passed \subseteq x.passed
    BY <1>5
  <2>2. CASE Remote!Tells(jobs[w], i) => Remote!Tells(x, i)
    <3>1. /\ Remote!Promised(jobs, i) => Remote!Promised(jobs', i)
          /\ Remote!Saving(jobs, i) => Remote!Saving(jobs', i)
          /\ \A n : Remote!Owed(jobs, n, i) => Remote!Owed(jobs', n, i)
      BY <1>1, <2>1, <2>2, PromisesKept
    <3>2. QED
      BY <1>4, <3>1 DEF SameNext
  <2>3. CASE HasTold(x, cs, i)
    <3>1. Remote!Saving(jobs', i)
      BY <1>1, <2>3 DEF Remote!Saving, HasTold
    <3>2. \A n \in Sites.Nodes : n \in Sites.At[i] => Retold(cs, n, i)
      BY <1>2, <2>3 DEF HasTold
    <3>3. QED
      BY <1>4, <3>1, <3>2 DEF SameNext
  <2>4. QED
    BY <1>5, <2>2, <2>3
<1>6. ASSUME ~overwritten', NEW c \in cs PROVE RightNext(c)
  BY <1>4, <1>6 DEF RightNext
<1>7. PICK S : S = {}
  OBVIOUS
<1>8. ~overwritten' =>
        \A i \in Sites.Inbounds : IF i \in S THEN MovedNext(cs, i) ELSE SameNext(cs, i)
  BY <1>5, <1>7
<1>9. QED
  BY <1>2, <1>3, <1>6, <1>8, RemoteStep

\* A request tells the workers of an inbound.
LEMMA RemoteTellWorkers ==
  ASSUME Remote!RemoteInv, NEW w \in Remote!Workers, Remote!TellWorkers(w)
  PROVE  Remote!RemoteInv'
<1>0. Remote!RemoteTypes /\ Remote!WorkOK(jobs[w])
  BY DEF Remote!RemoteInv, Remote!RemoteTypes
<1>1. PICK x : x = [jobs[w] EXCEPT !.pc = "save"]
  OBVIOUS
<1>2. PICK stale : stale = IF jobs[w].seen = Remote!Here THEN {} ELSE jobs[w].at
  OBVIOUS
<1>a. PICK I : I = jobs[w].at
  OBVIOUS
<1>b. PICK give : give = jobs[w].give
  OBVIOUS
<1>3. PICK cs : cs = Remote!ToWorkers(I, give, stale)
  OBVIOUS
<1>4. /\ jobs[w].pc = "tell" /\ jobs' = [jobs EXCEPT ![w] = x] /\ calls' = Remote!Told(cs)
      /\ UNCHANGED <<client, attached, listed, conf, charge, unsaved, behind, overwritten>>
  BY <1>0, <1>1, <1>2, <1>a, <1>b, <1>3 DEF Remote!TellWorkers, Remote!RemoteTypes,
                                            Remote!ghosts
<1>5. /\ I \in SUBSET Sites.Inbounds /\ give = Remote!ListedBy(jobs[w].seen) \cap I
      /\ Remote!WorkOK(x) /\ x.pc = "save" /\ x.at = I /\ x.todo = jobs[w].todo
  BY <1>0, <1>1, <1>a, <1>b, <1>4 DEF Remote!WorkOK
<1>d. I \in SUBSET Sites.Inbounds /\ Remote!WorkOK(x)
  BY <1>5
<1>6. \A c \in cs :
        /\ Remote!CallOK(c)
        /\ \A i \in c.of : i \in I /\ (i \in c.give <=> i \in give)
           /\ (i \in c.stale <=> i \in stale)
  BY <1>3, <1>d, CallsToWorkers
<1>c. \A n \in Sites.Nodes, i \in I : n \in Sites.At[i] => \E c \in cs : c.node = n
        /\ i \in c.of
  BY <1>3, <1>d, CallsToWorkers
<1>7. ASSUME NEW c \in cs,
             NEW i \in c.of \ c.stale PROVE i \in c.give <=> i \in Remote!Listed
  <2>1. i \in I /\ jobs[w].seen = Remote!Here
    BY <1>a, <1>2, <1>6
  <2>2. Remote!ListedBy(Remote!Here) = Remote!Listed
    BY <1>0, WorkIsOK
  <2>3. QED
    BY <1>5, <1>6, <2>1, <2>2
<1>8. ASSUME NEW i \in Sites.Inbounds
      PROVE  (Remote!Tells(jobs[w], i) => Remote!Tells(x, i)) \/ HasTold(x, cs, i)
  <2>1. CASE i \in I
    BY <1>4, <1>5, <1>c, <2>1 DEF Remote!Saves, HasTold
  <2>2. CASE i \notin I
    BY <1>4, <1>5, <1>a, <2>2 DEF Remote!Tells
  <2>3. QED
    BY <2>1, <2>2
<1>9. \A i : ~Remote!Saves(jobs[w], i)
  BY <1>4 DEF Remote!Saves
<1>10. /\ \A c \in cs : Remote!CallOK(c)
       /\ \A c \in cs : \A i \in c.of \ c.stale : i \in c.give <=> i \in Remote!Listed
  BY <1>6, <1>7
<1>11. ~overwritten => /\ \A c \in cs : \A i \in c.of \ c.stale : i \in c.give <=> i \in Remote!Listed
                /\ \A i \in Sites.Inbounds :
                       /\ Remote!Saves(jobs[w], i) => Remote!Saves(x, i)
                          /\ jobs[w].passed \subseteq x.passed
                       /\ (Remote!Tells(jobs[w], i) =>
                          Remote!Tells(x, i)) \/ HasTold(x, cs, i)
  BY <1>8, <1>9, <1>10
<1>12. QED
  BY <1>4, <1>d, <1>10, <1>11, RemoteTell

\* A cut-off goroutine takes the client out of an inbound.
LEMMA RemoteCutCall ==
  ASSUME Remote!RemoteInv, NEW w \in Remote!Workers, Remote!CutCall(w)
  PROVE  Remote!RemoteInv'
<1>0. Remote!RemoteTypes /\ Remote!WorkOK(jobs[w])
  BY DEF Remote!RemoteInv, Remote!RemoteTypes
<1>1. PICK x : x = [jobs[w] EXCEPT !.pc = "cutread"]
  OBVIOUS
<1>2. PICK I, none, stale : I = jobs[w].todo /\ none = {}
             /\ stale = jobs[w].todo \cap Remote!Listed
  OBVIOUS
<1>3. PICK cs : cs = Remote!ToWorkers(I, none, stale)
  OBVIOUS
<1>4. /\ jobs[w].pc = "cut" /\ jobs' = [jobs EXCEPT ![w] = x] /\ calls' = Remote!Told(cs)
      /\ UNCHANGED <<client, attached, listed, conf, charge, unsaved, behind, overwritten>>
  BY <1>0, <1>1, <1>2, <1>3 DEF Remote!CutCall, Remote!RemoteTypes, Remote!ghosts
<1>5. jobs[w].todo \in SUBSET Sites.Inbounds /\ Remote!WorkOK(x) /\ x.todo = jobs[w].todo
  BY <1>0, <1>1, <1>4 DEF Remote!WorkOK
<1>a. I \in SUBSET Sites.Inbounds
  BY <1>2, <1>5
<1>6. \A c \in cs :
        /\ Remote!CallOK(c)
        /\ \A i \in c.of : i \in I /\ (i \in c.give <=> i \in none)
           /\ (i \in c.stale <=> i \in stale)
  BY <1>3, <1>a, CallsToWorkers
<1>7. \A c \in cs : \A i \in c.of \ c.stale : i \in c.give <=> i \in Remote!Listed
  BY <1>2, <1>6
<1>8. \A i : ~Remote!Saves(jobs[w], i) /\ (Remote!Tells(jobs[w], i) => Remote!Tells(x, i))
  BY <1>4, <1>5 DEF Remote!Saves, Remote!Tells
<1>9. QED
  BY <1>4, <1>5, <1>6, <1>7, <1>8, RemoteTell

\* A reset adds the client again.
LEMMA RemoteReAdd ==
  ASSUME Remote!RemoteInv, NEW w \in Remote!Workers, Remote!ReAdd(w)
  PROVE  Remote!RemoteInv'
<1>0. Remote!RemoteTypes /\ Remote!WorkOK(jobs[w])
  BY DEF Remote!RemoteInv, Remote!RemoteTypes
<1>1. PICK I : I = jobs[w].todo
  OBVIOUS
<1>2. PICK x : x = Remote!Rebuilding(I)
  OBVIOUS
<1>a. PICK stale : stale = I \ Remote!Listed
  OBVIOUS
<1>3. PICK cs : cs = Remote!ToWorkers(I, I, stale)
  OBVIOUS
<1>4. /\ jobs[w].pc = "add" /\ jobs' = [jobs EXCEPT ![w] = x] /\ calls' = Remote!Told(cs)
      /\ UNCHANGED <<client, attached, listed, conf, charge, unsaved, behind, overwritten>>
  BY <1>1, <1>2, <1>a, <1>3 DEF Remote!ReAdd, Remote!Adding, Remote!Become, Remote!ghosts
<1>5. I \in SUBSET Sites.Inbounds
  BY <1>0, <1>1 DEF Remote!WorkOK
<1>6. Remote!WorkOK(x) /\ \A j : Remote!Tells(x, j) <=> j \in I
  BY <1>0, <1>2, <1>5, GivenOK, Zenon
<1>7. \A c \in cs :
        /\ Remote!CallOK(c)
        /\ \A i \in c.of : i \in I /\ (i \in c.give <=> i \in I)
           /\ (i \in c.stale <=> i \in stale)
  BY <1>3, <1>5, CallsToWorkers
<1>8. \A c \in cs : \A i \in c.of \ c.stale : i \in c.give <=> i \in Remote!Listed
  BY <1>a, <1>7
<1>9. \A i : ~Remote!Saves(jobs[w], i) /\ (Remote!Tells(jobs[w], i) => Remote!Tells(x, i))
  BY <1>1, <1>4, <1>6 DEF Remote!Saves, Remote!Tells
<1>10. QED
  BY <1>4, <1>6, <1>7, <1>8, <1>9, RemoteTell

\* A reset of all adds the clients again.
LEMMA RemoteReAddEach ==
  ASSUME Remote!RemoteInv, NEW w \in Remote!Workers, Remote!ReAddEach(w)
  PROVE  Remote!RemoteInv'
<1>0. Remote!RemoteTypes /\ Remote!WorkOK(jobs[w])
  BY DEF Remote!RemoteInv, Remote!RemoteTypes
<1>1. PICK k \in jobs[w].todo : calls' = Remote!Adding({k})
             /\ Remote!Become(w, Remote!Reading(w, k))
  BY DEF Remote!ReAddEach
<1>2. PICK x : x = Remote!Reading(w, k)
  OBVIOUS
<1>3. PICK I : I = {k}
  OBVIOUS
<1>a. PICK stale : stale = I \ Remote!Listed
  OBVIOUS
<1>4. PICK cs : cs = Remote!ToWorkers(I, I, stale)
  OBVIOUS
<1>5. /\ jobs[w].pc = "addeach" /\ jobs' = [jobs EXCEPT ![w] = x]
         /\ calls' = Remote!Told(cs)
      /\ UNCHANGED <<client, attached, listed, conf, charge, unsaved, behind, overwritten>>
  BY <1>1, <1>2, <1>3, <1>a, <1>4 DEF Remote!ReAddEach, Remote!Adding, Remote!Become,
                                      Remote!ghosts
<1>6. k \in Sites.Inbounds /\ Remote!WorkOK(x) /\ \A j : Remote!Tells(jobs[w], j) =>
        Remote!Tells(x, j)
  BY <1>0, <1>1, <1>2, <1>5, ReadingOK
<1>7. I \in SUBSET Sites.Inbounds
  BY <1>3, <1>6
<1>8. \A c \in cs :
        /\ Remote!CallOK(c)
        /\ \A i \in c.of : i \in I /\ (i \in c.give <=> i \in I)
           /\ (i \in c.stale <=> i \in stale)
  BY <1>4, <1>7, CallsToWorkers
<1>9. \A c \in cs : \A i \in c.of \ c.stale : i \in c.give <=> i \in Remote!Listed
  BY <1>a, <1>8
<1>10. \A i : ~Remote!Saves(jobs[w], i)
  BY <1>5 DEF Remote!Saves
<1>11. QED
  BY <1>5, <1>6, <1>8, <1>9, <1>10, RemoteTell
---------------------------------------------------------------------------
(* Steps that leave the workers of some inbounds as they are, attached record.   *)

\* A call is given up.
LEMMA RemoteAbandon ==
  ASSUME Remote!RemoteInv, NEW w \in Remote!Workers, NEW x, Remote!WorkOK(x),
         jobs' = [jobs EXCEPT ![w] = x],
         UNCHANGED <<listed, conf>>, overwritten => overwritten',
         Remote!RowOK(client'), Remote!RowOK(charge'), attached' \subseteq Sites.Inbounds,
         NEW I \in SUBSET Sites.Inbounds, Remote!Abandon(I),
           calls' = Remote!AgedBy(Remote!Pairs(I)),
         \A i \in Sites.Inbounds :
           /\ Remote!Tells(jobs[w], i) => Remote!Tells(x, i)
           /\ Remote!Saves(jobs[w], i) => Remote!Saves(x, i)
              /\ jobs[w].passed \subseteq x.passed,
         ~overwritten' =>
           \A i \in Sites.Inbounds :
             i \in I \/ Remote!Tells(x, i) \/ (i \in Remote!Listed' <=> i \in Remote!Listed)
  PROVE  Remote!RemoteInv'
<1>0. Remote!RemoteTypes
  BY DEF Remote!RemoteInv
<1>1. /\ jobs' = [v \in Remote!Workers |-> jobs'[v]]
         /\ \A v \in Remote!Workers : Remote!WorkOK(jobs'[v])
      /\ jobs'[w] = x /\ \A v \in Remote!Workers \ {w} : jobs'[v] = jobs[v]
  BY <1>0, WorkGiven
<1>2. /\ Heeds({}) /\ \A c \in calls' : Remote!CallOK(c)
      /\ \A n \in Sites.Nodes, i \in Sites.Inbounds : <<n, i>> \in Remote!Pairs(I) =>
         Overtaken({}, n, i)
  BY <1>0, AgedCalls
<1>3. unsaved' = unsaved \cup I /\ behind' = behind \cup Remote!Pairs(I)
        /\ Remote!Pairs(I) \subseteq Sites.Nodes \X Sites.Inbounds
  BY DEF Remote!Abandon, Remote!Pairs
<1>4. Remote!RemoteTypes'
  BY <1>0, <1>1, <1>2, <1>3 DEF Remote!RemoteTypes
<1>5. PICK S : S = {i \in Sites.Inbounds : i \in I \/ Remote!Tells(x, i)}
  OBVIOUS
<1>6. ASSUME NEW i \in Sites.Inbounds
      PROVE  /\ Remote!Promised(jobs, i) => Remote!Promised(jobs', i)
             /\ Remote!Saving(jobs, i) => Remote!Saving(jobs', i)
             /\ \A n : Remote!Owed(jobs, n, i) => Remote!Owed(jobs', n, i)
  BY <1>1, PromisesKept
<1>7. ASSUME ~overwritten', NEW i \in Sites.Inbounds
      PROVE  IF i \in S THEN MovedNext({}, i) ELSE SameNext({}, i)
  <2>1. CASE Remote!Tells(x, i)
    <3>1. Remote!Promised(jobs', i)
      BY <1>1, <2>1 DEF Remote!Promised
    <3>2. QED
      BY <1>5, <2>1, <3>1 DEF MovedNext
  <2>2. CASE i \in I
    <3>1. i \in unsaved' /\ i \in S
      BY <1>3, <1>5, <2>2
    <3>2. \A n \in Sites.Nodes : n \in Sites.At[i] => <<n, i>> \in Remote!Pairs(I)
      BY <2>2 DEF Remote!Pairs
    <3>3. \A n \in Sites.Nodes : n \in Sites.At[i] => <<n, i>> \in behind'
            /\ Overtaken({}, n, i)
      BY <1>2, <1>3, <3>2
    <3>4. QED
      BY <3>1, <3>3 DEF MovedNext
  <2>3. CASE i \notin S
    <3>1. i \in Remote!Listed' <=> i \in Remote!Listed
      BY <1>5, <1>7, <2>3
    <3>2. QED
      BY <1>6, <2>3, <3>1 DEF SameNext
  <2>4. QED
    BY <1>5, <2>1, <2>2, <2>3
<1>8. QED
  BY <1>2, <1>3, <1>4, <1>7, RemoteStep

\* The rows of many clients are written.
LEMMA RemoteBulkCommit ==
  ASSUME Remote!RemoteInv, NEW w \in Remote!Workers, Remote!BulkCommit(w)
  PROVE  Remote!RemoteInv'
<1>0. Remote!RemoteTypes /\ Remote!RowOK(client) /\ Remote!RowOK(charge)
        /\ attached \in SUBSET Sites.Inbounds
  BY DEF Remote!RemoteInv, Remote!RemoteTypes
<1>1. /\ jobs[w].pc = "bulk" /\ jobs[w].todo = {}
         /\ jobs' = [jobs EXCEPT ![w] = Remote!NoWork]
      /\ client' = Remote!Absent /\ attached' = {} /\ Remote!Abandon(attached)
         /\ calls' = Remote!AgedBy(Remote!Pairs(attached))
      /\ UNCHANGED <<listed, conf, charge, overwritten>>
  BY DEF Remote!BulkCommit, Remote!Become
<1>2. \A i : ~Remote!Tells(jobs[w], i) /\ ~Remote!Saves(jobs[w], i)
  BY <1>1 DEF Remote!Tells, Remote!Saves
<1>3. \A i \in Sites.Inbounds :
        i \in attached \/ (i \in Remote!Listed' <=> i \in Remote!Listed)
  BY <1>1, ListedWithin
<1>4. Remote!WorkOK(Remote!NoWork) /\ Remote!RowOK(client')
  BY <1>0, <1>1, WorkIsOK
<1>5. QED
  BY <1>0, <1>1, <1>2, <1>3, <1>4, RemoteAbandon

\* A cut-off goroutine saves the row.
LEMMA RemoteCutSave ==
  ASSUME Remote!RemoteInv, NEW w \in Remote!Workers, Remote!CutSave(w)
  PROVE  Remote!RemoteInv'
<1>0. Remote!RemoteTypes /\ Remote!RowOK(client) /\ Remote!RowOK(charge)
        /\ attached \in SUBSET Sites.Inbounds /\ Remote!WorkOK(jobs[w])
  BY DEF Remote!RemoteInv, Remote!RemoteTypes
<1>1. PICK old : old = jobs[w].old
  OBVIOUS
<1>2. PICK r : r = [old EXCEPT !.status = IF old.full THEN "expired" ELSE @]
  OBVIOUS
<1>3. PICK gone : gone = IF r = old THEN {} ELSE Remote!Listed \ jobs[w].todo
  OBVIOUS
<1>4. PICK x : x = [jobs[w] EXCEPT !.pc = "next", !.old = Remote!Absent]
  OBVIOUS
<1>5. /\ jobs[w].pc = "cutsave" /\ jobs' = [jobs EXCEPT ![w] = x]
      /\ client' = r /\ Remote!Abandon(gone) /\ calls' = Remote!AgedBy(Remote!Pairs(gone))
      /\ overwritten' = (overwritten \/ client # old)
         /\ UNCHANGED <<attached, listed, conf, charge>>
  BY <1>0, <1>1, <1>2, <1>3, <1>4 DEF Remote!CutSave, Remote!RemoteTypes
<1>6. Remote!WorkOK(x) /\ x.todo = jobs[w].todo /\ x.pc = "next"
  BY <1>0, <1>4, <1>5, WorkIsOK DEF Remote!WorkOK
<1>7. \A i : ~Remote!Saves(jobs[w], i) /\ (Remote!Tells(jobs[w], i) => Remote!Tells(x, i))
  BY <1>5, <1>6 DEF Remote!Tells, Remote!Saves
<1>8. old \in Remote!Row /\ Remote!RowOK(old) /\ old # Remote!Absent
  BY <1>0, <1>1, <1>5 DEF Remote!WorkOK
<1>9. Remote!RowOK(client') /\ (r # old => r.status = "expired")
  BY <1>2, <1>5, <1>8 DEF Remote!RowOK, Remote!Row
<1>10. ASSUME ~overwritten', NEW i \in Sites.Inbounds
       PROVE  i \in gone \/ Remote!Tells(x, i) \/ (i \in Remote!Listed' <=> i \in Remote!Listed)
  <2>1. client = old
    BY <1>5, <1>10
  <2>2. CASE r = old
    <3>1. Remote!Listed' = Remote!Listed
      BY <1>5, <2>1, <2>2 DEF Remote!Listed
    <3>2. QED
      BY <3>1
  <2>3. CASE r # old
    <3>1. Remote!Listed' = {}
      BY <1>5, <1>9, <2>3 DEF Remote!Listed
    <3>2. QED
      BY <1>3, <1>6, <2>3, <3>1 DEF Remote!Tells
  <2>4. QED
    BY <2>2, <2>3
<1>11. gone \in SUBSET Sites.Inbounds
  BY <1>0, <1>3, ListedWithin
<1>12. QED
  BY <1>0, <1>5, <1>6, <1>7, <1>9, <1>10, <1>11, RemoteAbandon

\* A tick saves the row it has read.
LEMMA RemoteTickSave ==
  ASSUME Remote!RemoteInv, Remote!TickSave
  PROVE  Remote!RemoteInv'
<1>0. Remote!RemoteTypes /\ Remote!RowOK(client) /\ Remote!RowOK(charge)
        /\ attached \in SUBSET Sites.Inbounds
  BY DEF Remote!RemoteInv, Remote!RemoteTypes
<1>1. PICK full \in {charge.full, TRUE} :
       LET r == [charge EXCEPT !.full = full,
                             !.status = IF full /\ charge.enable THEN "expired" ELSE @]
       IN /\ client' = r
          /\ IF r.status # charge.status /\ attached # {}
             THEN \E w \in Sites.Disablers, i \in attached :
                    /\ jobs[w] = Remote!NoWork
                    /\ jobs' = [jobs EXCEPT ![w] = Remote!Cut(i)]
                    /\ Remote!Abandon(attached \ {i})
                       /\ calls' = Remote!AgedBy(Remote!Pairs(attached \ {i}))
             ELSE UNCHANGED <<jobs, unsaved, behind, calls>>
  BY DEF Remote!TickSave
<1>2. PICK r : r = [charge EXCEPT !.full = full,
                             !.status = IF full /\ charge.enable THEN "expired" ELSE @]
  OBVIOUS
<1>3. /\ client' = r
      /\ charge # Remote!Absent /\ charge' = Remote!Absent
         /\ overwritten' = (overwritten \/ client # charge)
      /\ UNCHANGED <<attached, listed, conf>>
  BY <1>1, <1>2 DEF Remote!TickSave
<1>4. charge \in Remote!Row /\ charge.status # "none" /\ Remote!RowOK(r)
        /\ r.enable = charge.enable
  BY <1>0, <1>1, <1>2, <1>3 DEF Remote!RowOK, Remote!Row
<1>5. Remote!RowOK(client') /\ Remote!RowOK(charge') /\ attached' \subseteq Sites.Inbounds
  BY <1>0, <1>3, <1>4, WorkIsOK
<1>6. CASE r.status # charge.status /\ attached # {}
  <2>1. PICK w \in Sites.Disablers, i \in attached :
                    /\ jobs[w] = Remote!NoWork
                    /\ jobs' = [jobs EXCEPT ![w] = Remote!Cut(i)]
                    /\ Remote!Abandon(attached \ {i})
                       /\ calls' = Remote!AgedBy(Remote!Pairs(attached \ {i}))
    BY <1>1, <1>2, <1>6
  <2>2. PICK x : x = Remote!Cut(i)
    OBVIOUS
  <2>3. PICK I : I = attached \ {i}
    OBVIOUS
  <2>4. w \in Remote!Workers /\ I \in SUBSET Sites.Inbounds
          /\ jobs' = [jobs EXCEPT ![w] = x]
        /\ Remote!Abandon(I) /\ calls' = Remote!AgedBy(Remote!Pairs(I))
    BY <1>0, <2>1, <2>2, <2>3 DEF Remote!Workers
  <2>5. \A j : ~Remote!Tells(jobs[w], j) /\ ~Remote!Saves(jobs[w], j)
    BY <1>0, <2>1, <2>4, IdleOK
  <2>6. Remote!WorkOK(x) /\ Remote!Tells(x, i)
    BY <1>0, <2>2, GivenOK, Zenon
  <2>7. \A j \in Sites.Inbounds :
          j \in I \/ Remote!Tells(x, j) \/ (j \in Remote!Listed' <=> j \in Remote!Listed)
    BY <1>3, <2>3, <2>6, ListedWithin
  <2>8. QED
    BY <1>3, <1>5, <2>4, <2>5, <2>6, <2>7, RemoteAbandon
<1>7. CASE r.status = charge.status \/ attached = {}
  <2>1. UNCHANGED <<jobs, unsaved, behind, calls>>
    BY <1>1, <1>2, <1>7
  <2>2. Heeds({}) /\ \A c \in calls' : Remote!CallOK(c)
    BY <1>0, <2>1, NoCalls
  <2>3. Remote!RemoteTypes'
    BY <1>0, <1>3, <1>5, <2>1, <2>2 DEF Remote!RemoteTypes
  <2>4. ASSUME ~overwritten' PROVE Remote!Listed' = Remote!Listed
    BY <1>3, <1>4, <1>7, <2>4 DEF Remote!Listed
  <2>5. ASSUME ~overwritten', NEW i \in Sites.Inbounds PROVE SameNext({}, i)
    BY <2>1, <2>4, <2>5 DEF SameNext
  <2>6. PICK S : S = {}
    OBVIOUS
  <2>7. ~overwritten' =>
          \A i \in Sites.Inbounds : IF i \in S THEN MovedNext({}, i) ELSE SameNext({}, i)
    BY <2>5, <2>6
  <2>8. QED
    BY <1>3, <2>1, <2>2, <2>3, <2>7, RemoteStep
<1>8. QED
  BY <1>6, <1>7

\* The page of clients marks one that is over.
LEMMA RemotePageMark ==
  ASSUME Remote!RemoteInv, NEW w \in Remote!Workers, Remote!PageMark(w)
  PROVE  Remote!RemoteInv'
<1>0. Remote!RemoteTypes /\ Remote!RowOK(client) /\ Remote!RowOK(charge)
        /\ attached \in SUBSET Sites.Inbounds /\ Remote!WorkOK(jobs[w])
  BY DEF Remote!RemoteInv, Remote!RemoteTypes
<1>1. PICK old : old = jobs[w].old
  OBVIOUS
<1>2. /\ jobs[w].pc = "page" /\ jobs' = [jobs EXCEPT ![w] = Remote!NoWork]
      /\ UNCHANGED <<attached, listed, conf, charge, behind>>
  BY DEF Remote!PageMark, Remote!Become
<1>3. \A i : ~Remote!Tells(jobs[w], i) /\ ~Remote!Saves(jobs[w], i)
  BY <1>0, <1>2, IdleOK
<1>4. Remote!WorkOK(Remote!NoWork)
  BY <1>0, WorkIsOK
<1>5. CASE ~(old.full /\ old.status = "active" /\ client.status # "none")
  <2>1. UNCHANGED <<client, calls, unsaved, overwritten>>
    BY <1>1, <1>5 DEF Remote!PageMark
  <2>2. Remote!Listed' = Remote!Listed
    BY <1>2, <2>1 DEF Remote!Listed
  <2>3. QED
    BY <1>0, <1>2, <1>3, <1>4, <2>1, <2>2, RemoteRequest
<1>6. CASE old.full /\ old.status = "active" /\ client.status # "none"
  <2>1. /\ client' = [client EXCEPT !.status = "expired"]
        /\ calls' = IF old.enable
           THEN Remote!Told(Remote!ToWorkers(attached, {}, {})) ELSE calls
        /\ unsaved' = unsaved \cup attached
        /\ overwritten' = (overwritten \/ client # old)
    BY <1>1, <1>6 DEF Remote!PageMark
  <2>2. PICK cs : cs = IF old.enable THEN Remote!ToWorkers(attached, {}, {}) ELSE {}
    OBVIOUS
  <2>3. PICK S : S = IF old.enable THEN attached ELSE {}
    OBVIOUS
  <2>a. PICK none, I : none = {} /\ I = attached
    OBVIOUS
  <2>d. I \in SUBSET Sites.Inbounds
    BY <1>0, <2>a
  <2>b. \A c \in Remote!ToWorkers(I, none, none) :
           /\ Remote!CallOK(c)
           /\ \A i \in c.of : i \in I /\ (i \in c.give <=> i \in none)
              /\ (i \in c.stale <=> i \in none)
    BY <2>d, CallsToWorkers
  <2>e. PICK told : told = Remote!ToWorkers(I, none, none)
    OBVIOUS
  <2>c. \A n \in Sites.Nodes, i \in I : n \in Sites.At[i] =>
          \E c \in told : c.node = n /\ i \in c.of
    BY <2>d, <2>e, CallsToWorkers
  <2>4. /\ \A c \in Remote!ToWorkers(attached, {}, {}) : Remote!CallOK(c)
           /\ \A i \in c.of : i \in attached /\ i \notin c.give
        /\ \A n \in Sites.Nodes, i \in attached : n \in Sites.At[i] =>
              \E c \in Remote!ToWorkers(attached, {}, {}) : c.node = n /\ i \in c.of
    BY <2>a, <2>b, <2>c, <2>e
  <2>5. Heeds(cs) /\ \A c \in calls' : Remote!CallOK(c)
    BY <1>0, <2>1, <2>2, <2>4, ToldCalls, NoCalls
  <2>6. Remote!RowOK(client') /\ client'.status = "expired"
          /\ client'.enable = client.enable
    BY <1>0, <2>1 DEF Remote!RowOK, Remote!Row
  <2>7. /\ jobs' = [v \in Remote!Workers |-> jobs'[v]]
           /\ \A v \in Remote!Workers : Remote!WorkOK(jobs'[v])
        /\ jobs'[w] = Remote!NoWork /\ \A v \in Remote!Workers \ {w} : jobs'[v] = jobs[v]
    BY <1>0, <1>2, <1>4, WorkGiven
  <2>8. Remote!RemoteTypes'
    BY <1>0, <1>2, <2>1, <2>5, <2>6, <2>7 DEF Remote!RemoteTypes
  <2>9. Remote!Listed' = {}
    BY <2>6 DEF Remote!Listed
  <2>10. \A c \in cs : RightNext(c)
    BY <2>2, <2>4, <2>9 DEF RightNext
  <2>11. ASSUME NEW i \in Sites.Inbounds
         PROVE  /\ Remote!Promised(jobs, i) => Remote!Promised(jobs', i)
                /\ Remote!Saving(jobs, i) => Remote!Saving(jobs', i)
                /\ \A n : Remote!Owed(jobs, n, i) => Remote!Owed(jobs', n, i)
    BY <1>3, <2>7, PromisesKept
  <2>12. ASSUME ~overwritten', NEW i \in Sites.Inbounds
         PROVE  IF i \in S THEN MovedNext(cs, i) ELSE SameNext(cs, i)
    <3>1. CASE i \in S
      <4>1. old.enable /\ i \in attached /\ i \in unsaved'
              /\ cs = Remote!ToWorkers(attached, {}, {}) /\ calls' = Remote!Told(cs)
        BY <2>1, <2>2, <2>3, <3>1
      <4>2. \A n \in Sites.Nodes : n \in Sites.At[i] => Retold(cs, n, i)
        BY <1>0, <2>4, <4>1, ToldCalls
      <4>3. QED
        BY <3>1, <4>1, <4>2 DEF MovedNext
    <3>2. CASE i \notin S
      <4>1. i \notin Remote!Listed
        BY <2>1, <2>3, <2>12, <3>2 DEF Remote!Listed
      <4>2. QED
        BY <2>9, <2>11, <3>2, <4>1 DEF SameNext
    <3>3. QED
      BY <3>1, <3>2
  <2>13. QED
    BY <1>2, <2>1, <2>5, <2>8, <2>10, <2>12, RemoteStep
<1>7. QED
  BY <1>5, <1>6
---------------------------------------------------------------------------
(* Pushes, calls that arrive or get overwritten, and listed that are saved.     *)

\* A worker is given the whole configuration.
LEMMA RemotePushNode ==
  ASSUME Remote!RemoteInv, NEW n \in Sites.Nodes, Remote!PushNode(n)
  PROVE  Remote!RemoteInv'
<1>0. Remote!RemoteTypes /\ listed \subseteq Sites.Inbounds
  BY DEF Remote!RemoteInv, Remote!RemoteTypes
<1>1. PICK I : I = {i \in Sites.Inbounds : n \in Sites.At[i]}
  OBVIOUS
<1>2. PICK e : e = Remote!Call(n, I, listed \cap I, unsaved \cap I)
  OBVIOUS
<1>3. PICK cs : cs = {e}
  OBVIOUS
<1>4. /\ calls' = Remote!Told(cs)
      /\ jobs' = [w \in Remote!Workers |->
                   IF jobs[w].pc = "save" /\ n \in UNION {Sites.At[i] : i \in jobs[w].at}
                   THEN [jobs[w] EXCEPT !.passed = @ \cup {n}] ELSE jobs[w]]
      /\ UNCHANGED <<client, attached, listed, conf, charge, unsaved, behind, overwritten>>
  BY <1>1, <1>2, <1>3 DEF Remote!PushNode, Remote!ghosts
<1>5. /\ e.node = n /\ e.of = I /\ e.give = listed \cap I /\ e.stale = unsaved \cap I
      /\ Remote!CallOK(e)
  <2>1. e \in [node : Sites.Nodes, of : SUBSET Sites.Inbounds, give : SUBSET Sites.Inbounds,
               stale : SUBSET Sites.Inbounds]
    BY <1>1, <1>2 DEF Remote!Call
  <2>2. e.node = n /\ e.of = I /\ e.give = listed \cap I /\ e.stale = unsaved \cap I
    BY <1>2 DEF Remote!Call
  <2>3. QED
    BY <1>1, <2>1, <2>2 DEF Remote!CallOK
<1>a. \A c \in cs : Remote!CallOK(c)
  BY <1>3, <1>5
<1>b. calls' = Remote!Told(cs)
  BY <1>4
<1>6. /\ Heeds(cs) /\ \A c \in calls' : Remote!CallOK(c)
  BY <1>0, <1>a, <1>b, ToldCalls
<1>7. ASSUME NEW w \in Remote!Workers
      PROVE  /\ Remote!WorkOK(jobs'[w]) /\ jobs'[w].pc = jobs[w].pc
                /\ jobs'[w].todo = jobs[w].todo
             /\ jobs'[w].at = jobs[w].at /\ jobs[w].passed \subseteq jobs'[w].passed
             /\ \A i : Remote!Saves(jobs[w], i) /\ n \in Sites.At[i] =>
                n \in jobs'[w].passed
  <2>1. Remote!WorkOK(jobs[w])
    BY <1>0 DEF Remote!RemoteTypes
  <2>2. CASE jobs[w].pc = "save" /\ n \in UNION {Sites.At[i] : i \in jobs[w].at}
    <3>1. jobs'[w] = [jobs[w] EXCEPT !.passed = @ \cup {n}]
      BY <1>4, <2>2
    <3>2. QED
      BY <2>1, <3>1 DEF Remote!WorkOK
  <2>3. CASE ~(jobs[w].pc = "save" /\ n \in UNION {Sites.At[i] : i \in jobs[w].at})
    <3>1. jobs'[w] = jobs[w]
      BY <1>4, <2>3
    <3>2. \A i : ~(Remote!Saves(jobs[w], i) /\ n \in Sites.At[i])
      BY <2>3 DEF Remote!Saves
    <3>3. QED
      BY <2>1, <3>1, <3>2
  <2>4. QED
    BY <2>2, <2>3
<1>8. Remote!RemoteTypes'
  <2>1. jobs' = [w \in Remote!Workers |-> jobs'[w]]
    BY <1>4
  <2>2. QED
    BY <1>0, <1>4, <1>6, <1>7, <2>1 DEF Remote!RemoteTypes
<1>9. Remote!Listed' = Remote!Listed
  BY <1>4 DEF Remote!Listed
<1>10. ASSUME NEW i \in Sites.Inbounds PROVE SameNext(cs, i)
  <2>1. ASSUME NEW w \in Remote!Workers
        PROVE  /\ Remote!Tells(jobs[w], i) => Remote!Tells(jobs'[w], i)
               /\ Remote!Saves(jobs[w], i) => Remote!Saves(jobs'[w], i)
    BY <1>7 DEF Remote!Tells, Remote!Saves
  <2>2. Remote!Promised(jobs, i) => Remote!Promised(jobs', i)
    BY <2>1 DEF Remote!Promised
  <2>3. Remote!Saving(jobs, i) => Remote!Saving(jobs', i)
    BY <2>1 DEF Remote!Saving
  <2>4. \A m : Remote!Owed(jobs, m, i) => Remote!Owed(jobs', m, i)
    BY <1>7, <2>1, <2>2 DEF Remote!Owed
  <2>5. QED
    BY <1>9, <2>2, <2>3, <2>4 DEF SameNext
<1>11. ASSUME ~overwritten', NEW i \in I \ unsaved
       PROVE  (i \in listed <=> i \in Remote!Listed') \/ Remote!Owed(jobs', n, i)
  <2>1. i \in Sites.Inbounds /\ n \in Sites.At[i]
    BY <1>1
  <2>2. Remote!SettingsKept(i)
    BY <1>4, <1>11, <2>1 DEF Remote!RemoteInv
  <2>3. Remote!Promised(jobs, i) => Remote!Owed(jobs', n, i)
    BY <1>7 DEF Remote!Promised, Remote!Owed, Remote!Tells
  <2>4. Remote!Saving(jobs, i) => Remote!Owed(jobs', n, i)
    BY <1>7, <2>1 DEF Remote!Saving, Remote!Owed, Remote!Saves
  <2>5. QED
    BY <1>9, <1>11, <2>2, <2>3, <2>4 DEF Remote!SettingsKept
<1>12. ASSUME ~overwritten', NEW c \in cs PROVE RightNext(c)
  BY <1>3, <1>5, <1>11, <1>12 DEF RightNext
<1>13. PICK S : S = {}
  OBVIOUS
<1>14. ~overwritten' =>
         \A i \in Sites.Inbounds : IF i \in S THEN MovedNext(cs, i) ELSE SameNext(cs, i)
  BY <1>10, <1>13
<1>15. QED
  BY <1>4, <1>6, <1>8, <1>12, <1>14, RemoteStep

\* A call reaches its worker.
LEMMA RemoteDeliver ==
  ASSUME Remote!RemoteInv, NEW c \in calls, Remote!Deliver(c)
  PROVE  Remote!RemoteInv'
<1>0. Remote!RemoteTypes /\ Remote!CallOK(c)
        /\ behind \subseteq Sites.Nodes \X Sites.Inbounds
           /\ conf \in [Sites.Nodes -> SUBSET Sites.Inbounds]
  BY DEF Remote!RemoteInv, Remote!RemoteTypes
<1>1. /\ calls' = calls \ {c} /\ conf' = [conf EXCEPT ![c.node] = (@ \ c.of) \cup c.give]
      /\ behind' = (behind \ ({c.node} \X c.of)) \cup ({c.node} \X c.stale)
      /\ UNCHANGED <<client, attached, listed, charge, jobs, unsaved, overwritten>>
  BY DEF Remote!Deliver
<1>2. c.node \in Sites.Nodes /\ c.of \subseteq Sites.Inbounds /\ c.give \subseteq c.of
        /\ c.stale \subseteq c.of
  BY <1>0 DEF Remote!CallOK
<1>3. conf' \in [Sites.Nodes -> SUBSET Sites.Inbounds]
        /\ behind' \subseteq Sites.Nodes \X Sites.Inbounds
  BY <1>0, <1>1, <1>2
<1>4. Remote!RemoteTypes'
  BY <1>0, <1>1, <1>3 DEF Remote!RemoteTypes
<1>5. Remote!Listed' = Remote!Listed
  BY <1>1 DEF Remote!Listed
<1>6. ASSUME ~overwritten'
      PROVE  /\ \A i \in Sites.Inbounds : Remote!SettingsKept(i)
             /\ \A d \in calls : Remote!CallRight(d)
             /\ \A n \in Sites.Nodes, i \in Sites.Inbounds : n \in Sites.At[i] =>
                Remote!ConfKept(n, i)
  BY <1>1, <1>6 DEF Remote!RemoteInv
<1>7. ASSUME ~overwritten', NEW i \in Sites.Inbounds
      PROVE  \/ i \in unsaved' \/ (i \in listed' <=> i \in Remote!Listed')
             \/ Remote!Promised(jobs', i) \/ Remote!Saving(jobs', i)
  BY <1>1, <1>5, <1>6, <1>7 DEF Remote!SettingsKept
<1>8. ASSUME ~overwritten', NEW d \in calls' PROVE RightNext(d)
  BY <1>1, <1>5, <1>6, <1>8 DEF Remote!CallRight, RightNext
<1>9. ASSUME ~overwritten', NEW n \in Sites.Nodes, NEW i \in Sites.Inbounds,
             n \in Sites.At[i]
      PROVE  \/ <<n, i>> \in behind' \/ (i \in conf'[n] <=> i \in Remote!Listed')
             \/ Remote!Owed(jobs', n, i) \/ \E d \in calls' : d.node = n /\ i \in d.of
  <2>1. Remote!ConfKept(n, i)
    BY <1>6, <1>9
  <2>2. CASE n = c.node /\ i \in c.stale
    <3>1. <<n, i>> \in behind'
      BY <1>1, <2>2
    <3>2. QED
      BY <3>1
  <2>3. CASE n = c.node /\ i \in c.of \ c.stale
    <3>1. (i \in c.give <=> i \in Remote!Listed) \/ Remote!Owed(jobs, n, i)
      BY <1>6, <1>9, <2>3 DEF Remote!CallRight
    <3>2. i \in conf'[n] <=> i \in c.give
      BY <1>0, <1>1, <1>2, <2>3
    <3>3. QED
      BY <1>1, <1>5, <3>1, <3>2
  <2>4. CASE ~(n = c.node /\ i \in c.of)
    <3>1. i \in conf'[n] <=> i \in conf[n]
      BY <1>0, <1>1, <1>2, <2>4
    <3>2. <<n, i>> \in behind => <<n, i>> \in behind'
      BY <1>1, <2>4
    <3>3. (\E d \in calls : d.node = n /\ i \in d.of) => \E d \in calls' : d.node = n
            /\ i \in d.of
      BY <1>1, <2>4
    <3>4. QED
      BY <1>1, <1>5, <2>1, <3>1, <3>2, <3>3 DEF Remote!ConfKept
  <2>5. QED
    BY <2>2, <2>3, <2>4
<1>10. QED
  BY <1>4, <1>7, <1>8, <1>9, RemoteAssembled

\* A call is lost.
LEMMA RemoteLose ==
  ASSUME Remote!RemoteInv, NEW c \in calls, Remote!Lose(c)
  PROVE  Remote!RemoteInv'
<1>0. Remote!RemoteTypes /\ Remote!CallOK(c)
        /\ behind \subseteq Sites.Nodes \X Sites.Inbounds
  BY DEF Remote!RemoteInv, Remote!RemoteTypes
<1>1. /\ calls' = calls \ {c} /\ behind' = behind \cup ({c.node} \X c.of)
      /\ UNCHANGED <<client, attached, listed, conf, charge, jobs, unsaved, overwritten>>
  BY DEF Remote!Lose
<1>2. c.node \in Sites.Nodes /\ c.of \subseteq Sites.Inbounds
  BY <1>0 DEF Remote!CallOK
<1>4. Remote!RemoteTypes'
  BY <1>0, <1>1, <1>2 DEF Remote!RemoteTypes
<1>5. Remote!Listed' = Remote!Listed
  BY <1>1 DEF Remote!Listed
<1>6. ASSUME ~overwritten'
      PROVE  /\ \A i \in Sites.Inbounds : Remote!SettingsKept(i)
             /\ \A d \in calls : Remote!CallRight(d)
             /\ \A n \in Sites.Nodes, i \in Sites.Inbounds : n \in Sites.At[i] =>
                Remote!ConfKept(n, i)
  BY <1>1, <1>6 DEF Remote!RemoteInv
<1>7. ASSUME ~overwritten', NEW i \in Sites.Inbounds
      PROVE  \/ i \in unsaved' \/ (i \in listed' <=> i \in Remote!Listed')
             \/ Remote!Promised(jobs', i) \/ Remote!Saving(jobs', i)
  BY <1>1, <1>5, <1>6, <1>7 DEF Remote!SettingsKept
<1>8. ASSUME ~overwritten', NEW d \in calls' PROVE RightNext(d)
  BY <1>1, <1>5, <1>6, <1>8 DEF Remote!CallRight, RightNext
<1>9. ASSUME ~overwritten', NEW n \in Sites.Nodes, NEW i \in Sites.Inbounds,
             n \in Sites.At[i]
      PROVE  \/ <<n, i>> \in behind' \/ (i \in conf'[n] <=> i \in Remote!Listed')
             \/ Remote!Owed(jobs', n, i) \/ \E d \in calls' : d.node = n /\ i \in d.of
  <2>1. Remote!ConfKept(n, i)
    BY <1>6, <1>9
  <2>2. CASE n = c.node /\ i \in c.of
    <3>1. <<n, i>> \in behind'
      BY <1>1, <2>2
    <3>2. QED
      BY <3>1
  <2>4. CASE ~(n = c.node /\ i \in c.of)
    <3>3. (\E d \in calls : d.node = n /\ i \in d.of) => \E d \in calls' : d.node = n
            /\ i \in d.of
      BY <1>1, <2>4
    <3>4. QED
      BY <1>1, <1>5, <2>1, <3>3 DEF Remote!ConfKept
  <2>5. QED
    BY <2>2, <2>4
<1>10. QED
  BY <1>4, <1>7, <1>8, <1>9, RemoteAssembled

\* The settings of an inbound are saved, or fail to be.
LEMMA RemoteSaveInbound ==
  ASSUME Remote!RemoteInv, NEW w \in Remote!Workers, Remote!SaveInbound(w)
  PROVE  Remote!RemoteInv'
<1>0. Remote!RemoteTypes /\ Remote!WorkOK(jobs[w]) /\ listed \subseteq Sites.Inbounds
        /\ unsaved \subseteq Sites.Inbounds
  BY DEF Remote!RemoteInv, Remote!RemoteTypes
<1>1. PICK x : x = Remote!Saved(w)
  OBVIOUS
<1>2. PICK late : late = jobs[w].passed \X jobs[w].at
  OBVIOUS
<1>3. /\ jobs[w].pc = "save" /\ jobs' = [jobs EXCEPT ![w] = x]
      /\ calls' = Remote!AgedBy(late) /\ behind' = behind \cup late
      /\ UNCHANGED <<client, attached, conf, charge, overwritten>>
      /\ \/ /\ listed' = (listed \ jobs[w].at) \cup jobs[w].give
            /\ unsaved' = IF jobs[w].seen = Remote!Here THEN unsaved \ jobs[w].at
                          ELSE unsaved \cup jobs[w].at
         \/ unsaved' = unsaved \cup jobs[w].at /\ listed' = listed
  BY <1>1, <1>2 DEF Remote!SaveInbound
<1>4. /\ jobs[w].at \subseteq Sites.Inbounds /\ jobs[w].passed \subseteq Sites.Nodes
      /\ jobs[w].give = Remote!ListedBy(jobs[w].seen) \cap jobs[w].at
         /\ jobs[w].todo \subseteq Sites.Inbounds
      /\ jobs[w].then \in {"next", "bulk", "addeach"}
  BY <1>0, <1>3 DEF Remote!WorkOK
<1>5. /\ Remote!WorkOK(x) /\ x.pc \in {"next", "bulk", "addeach"} /\ x.todo = jobs[w].todo
  <2>1. Remote!Absent \in Remote!Row /\ Remote!RowOK(Remote!Absent)
    BY WorkIsOK, <1>0
  <2>2. QED
    BY <1>1, <1>4, <2>1 DEF Remote!Saved, Remote!NoWork, Remote!WorkOK
<1>6. /\ jobs' = [v \in Remote!Workers |-> jobs'[v]]
         /\ \A v \in Remote!Workers : Remote!WorkOK(jobs'[v])
      /\ jobs'[w] = x /\ \A v \in Remote!Workers \ {w} : jobs'[v] = jobs[v]
  BY <1>0, <1>3, <1>5, WorkGiven
<1>7. /\ Heeds({}) /\ \A c \in calls' : Remote!CallOK(c)
      /\ \A n \in Sites.Nodes, i \in Sites.Inbounds : <<n, i>> \in late =>
         Overtaken({}, n, i)
  BY <1>0, <1>3, AgedCalls
<1>8. listed' \subseteq Sites.Inbounds /\ unsaved' \subseteq Sites.Inbounds
  BY <1>0, <1>3, <1>4
<1>9. behind' \subseteq Sites.Nodes \X Sites.Inbounds
  BY <1>0, <1>2, <1>3, <1>4 DEF Remote!RemoteTypes
<1>10. Remote!RemoteTypes'
  BY <1>0, <1>3, <1>6, <1>7, <1>8, <1>9 DEF Remote!RemoteTypes
<1>11. Remote!Listed' = Remote!Listed
  BY <1>3 DEF Remote!Listed
<1>12. ASSUME ~overwritten'
      PROVE  /\ \A i \in Sites.Inbounds : Remote!SettingsKept(i)
             /\ \A d \in calls : Remote!CallRight(d) /\ Remote!CallOK(d)
             /\ \A n \in Sites.Nodes, i \in Sites.Inbounds : n \in Sites.At[i] =>
                Remote!ConfKept(n, i)
  BY <1>3, <1>12 DEF Remote!RemoteInv, Remote!RemoteTypes
<1>13. ASSUME NEW i PROVE Remote!Promised(jobs, i) => Remote!Promised(jobs', i)
  <2>1. Remote!Tells(jobs[w], i) => Remote!Tells(x, i)
    BY <1>3, <1>5 DEF Remote!Tells
  <2>2. QED
    BY <1>6, <2>1 DEF Remote!Promised
<1>14. ASSUME NEW i, i \notin jobs[w].at PROVE Remote!Saving(jobs, i) =>
              Remote!Saving(jobs', i)
  <2>1. ~Remote!Saves(jobs[w], i)
    BY <1>14 DEF Remote!Saves
  <2>2. QED
    BY <1>6, <2>1 DEF Remote!Saving
<1>15. ASSUME NEW n \in Sites.Nodes, NEW i,
              Remote!Owed(jobs, n, i) PROVE Remote!Owed(jobs', n, i) \/ <<n, i>> \in late
  <2>1. CASE Remote!Promised(jobs, i)
    BY <1>13, <2>1 DEF Remote!Owed
  <2>2. CASE \E v \in Remote!Workers : Remote!Saves(jobs[v], i) /\ n \in jobs[v].passed
    <3>1. PICK v \in Remote!Workers : Remote!Saves(jobs[v], i) /\ n \in jobs[v].passed
      BY <2>2
    <3>2. CASE v = w
      BY <1>2, <3>1, <3>2 DEF Remote!Saves
    <3>3. CASE v # w
      BY <1>6, <3>1, <3>3 DEF Remote!Owed
    <3>4. QED
      BY <3>2, <3>3
  <2>3. QED
    BY <1>15, <2>1, <2>2 DEF Remote!Owed
<1>16. ASSUME ~overwritten', NEW i \in Sites.Inbounds
      PROVE  \/ i \in unsaved' \/ (i \in listed' <=> i \in Remote!Listed')
             \/ Remote!Promised(jobs', i) \/ Remote!Saving(jobs', i)
  <2>1. CASE i \in jobs[w].at
    <3>1. CASE i \in unsaved'
      BY <3>1
    <3>2. CASE i \notin unsaved'
      <4>1. listed' = (listed \ jobs[w].at) \cup jobs[w].give /\ jobs[w].seen = Remote!Here
        BY <1>3, <2>1, <3>2
      <4>2. Remote!ListedBy(Remote!Here) = Remote!Listed
        BY <1>0, WorkIsOK
      <4>3. i \in listed' <=> i \in Remote!Listed
        BY <1>4, <2>1, <4>1, <4>2
      <4>4. QED
        BY <1>11, <4>3
    <3>3. QED
      BY <3>1, <3>2
  <2>2. CASE i \notin jobs[w].at
    <3>1. (i \in listed' <=> i \in listed) /\ (i \in unsaved => i \in unsaved')
      BY <1>3, <1>4, <2>2
    <3>2. Remote!SettingsKept(i)
      BY <1>12, <1>16
    <3>3. QED
      BY <1>11, <1>13, <1>14, <2>2, <3>1, <3>2 DEF Remote!SettingsKept
  <2>3. QED
    BY <2>1, <2>2
<1>17. ASSUME ~overwritten', NEW c \in calls', NEW i \in c.of \ c.stale
       PROVE  (i \in c.give <=> i \in Remote!Listed') \/ Remote!Owed(jobs', c.node, i)
  <2>1. PICK d \in calls : c.node = d.node /\ c.of = d.of /\ c.give = d.give
                           /\ d.stale \subseteq c.stale
    BY <1>7 DEF Heeds
  <2>2. /\ i \in d.of \ d.stale /\ i \in Sites.Inbounds /\ d.node \in Sites.Nodes
        /\ (i \in d.give <=> i \in Remote!Listed) \/ Remote!Owed(jobs, d.node, i)
    BY <1>12, <1>17, <2>1 DEF Remote!CallOK, Remote!CallRight
  <2>3. <<d.node, i>> \notin late
    BY <1>7, <2>1, <2>2 DEF Overtaken
  <2>4. QED
    BY <1>11, <1>15, <2>1, <2>2, <2>3
<1>18. ASSUME ~overwritten', NEW n \in Sites.Nodes, NEW i \in Sites.Inbounds,
              n \in Sites.At[i]
       PROVE  \/ <<n, i>> \in behind' \/ (i \in conf'[n] <=> i \in Remote!Listed')
              \/ Remote!Owed(jobs', n, i) \/ \E d \in calls' : d.node = n /\ i \in d.of
  <2>1. Remote!ConfKept(n, i)
    BY <1>12, <1>18
  <2>2. (\E d \in calls : d.node = n /\ i \in d.of) => \E d \in calls' : d.node = n
          /\ i \in d.of
    BY <1>7 DEF Heeds
  <2>3. QED
    BY <1>3, <1>11, <1>15, <2>1, <2>2 DEF Remote!ConfKept
<1>19. QED
  BY <1>10, <1>16, <1>17, <1>18, RemoteAssembled DEF RightNext

---------------------------------------------------------------------------
\* RemoteInv holds at the start.
LEMMA RemoteInit ==
  ASSUME Remote!Init PROVE Remote!RemoteInv
<1>a. Remote!Absent \in Remote!Row /\ Remote!RowOK(Remote!Absent)
        /\ Remote!Fresh \in Remote!Row /\ Remote!RowOK(Remote!Fresh)
  BY DEF Remote!Absent, Remote!Fresh, Remote!Row, Remote!RowOK
<1>1. Remote!RowOK(Remote!Absent) /\ Remote!Absent \in Remote!Row /\ Remote!RowOK(client)
  BY <1>a DEF Remote!Init
<1>2. Remote!WorkOK(Remote!NoWork)
  BY <1>1 DEF Remote!WorkOK, Remote!NoWork
<1>3. attached \subseteq Sites.Inbounds /\ Remote!Listed = attached
  BY DEF Remote!Init, Remote!Listed, Remote!Fresh, Remote!Absent
<1>4. conf \in [Sites.Nodes -> SUBSET Sites.Inbounds]
  BY <1>3 DEF Remote!Init
<1>5. jobs = [w \in Remote!Workers |-> jobs[w]]
        /\ \A w \in Remote!Workers : Remote!WorkOK(jobs[w])
  BY <1>2 DEF Remote!Init
<1>6. Remote!RemoteTypes
  BY <1>1, <1>3, <1>4, <1>5 DEF Remote!Init, Remote!RemoteTypes
<1>7. \A i \in Sites.Inbounds : Remote!SettingsKept(i)
  BY <1>3 DEF Remote!Init, Remote!SettingsKept
<1>8. \A n \in Sites.Nodes, i \in Sites.Inbounds : n \in Sites.At[i] =>
        Remote!ConfKept(n, i)
  BY <1>3 DEF Remote!Init, Remote!ConfKept
<1>9. \A c \in calls : Remote!CallRight(c)
  BY DEF Remote!Init
<1>10. QED
  BY <1>6, <1>7, <1>8, <1>9 DEF Remote!RemoteInv

\* Every step keeps it.
LEMMA RemoteNext ==
  ASSUME Remote!RemoteInv, [Remote!Next]_Remote!vars PROVE Remote!RemoteInv'
<1>1. CASE Remote!TickRead
  BY <1>1, RemoteTickRead
<1>2. CASE Remote!TickSave
  BY <1>2, RemoteTickSave
<1>3. ASSUME NEW w \in Remote!Workers, Remote!Goes(w) PROVE Remote!RemoteInv'
  BY <1>3, RemoteReadMembers, RemoteTellWorkers, RemoteSaveInbound, RemoteFinish,
     RemoteCutCall,
     RemoteCutRead, RemoteCutSave, RemoteUpdateRow, RemoteResetRow, RemoteReAdd,
       RemoteReAddEach,
     RemoteBulkCommit, RemotePageMark DEF Remote!Goes
<1>4. ASSUME NEW w \in Remote!Workers, Remote!Asks(w) PROVE Remote!RemoteInv'
  BY <1>4, RemoteAddClient, RemoteBulkEnable, RemoteDeleteClient, RemoteBulkDelete,
     RemoteOpen DEF Remote!Asks
<1>5. ASSUME NEW n \in Sites.Nodes, Remote!PushNode(n) PROVE Remote!RemoteInv'
  BY <1>5, RemotePushNode
<1>6. ASSUME NEW c \in calls, Remote!Deliver(c) \/ Remote!Lose(c) PROVE Remote!RemoteInv'
  BY <1>6, RemoteDeliver, RemoteLose
<1>7. CASE UNCHANGED Remote!vars
  <2>1. UNCHANGED <<client, attached, listed, conf, calls, charge, jobs, unsaved, behind,
          overwritten>>
    BY <1>7 DEF Remote!vars
  <2>2. Remote!Listed' = Remote!Listed
    BY <2>1 DEF Remote!Listed
  <2>3. Remote!RemoteTypes'
    BY <2>1 DEF Remote!RemoteInv, Remote!RemoteTypes
  <2>4. Heeds({}) /\ \A i \in Sites.Inbounds : SameNext({}, i)
    BY <2>1, <2>2 DEF Heeds, SameNext
  <2>5. PICK S : S = {}
    OBVIOUS
  <2>6. ~overwritten' =>
          \A i \in Sites.Inbounds : IF i \in S THEN MovedNext({}, i) ELSE SameNext({}, i)
    BY <2>4, <2>5
  <2>7. QED
    BY <2>1, <2>3, <2>4, <2>6, RemoteStep
<1>8. QED
  BY <1>1, <1>2, <1>3, <1>4, <1>5, <1>6, <1>7 DEF Remote!Next

\* At rest it says who is served, and why.
LEMMA RemoteAtRest ==
  ASSUME Remote!RemoteInv
  PROVE  Remote!TypeOK /\ Remote!EntitledIsServed /\ Remote!OnlyKnownWaysToLinger
<1>1. Remote!TypeOK
  <2>1. \A w \in Remote!Workers : Remote!WorkOK(jobs[w])
    BY DEF Remote!RemoteInv, Remote!RemoteTypes
  <2>2. \A w \in Remote!Workers : jobs[w].todo \cup jobs[w].at \subseteq Sites.Inbounds
    BY <2>1 DEF Remote!WorkOK
  <2>3. \A c \in calls : c.node \in Sites.Nodes /\ c.give \cup c.stale \subseteq c.of
    BY DEF Remote!RemoteInv, Remote!RemoteTypes, Remote!CallOK
  <2>4. QED
    BY <2>2, <2>3 DEF Remote!RemoteInv, Remote!RemoteTypes, Remote!RowOK, Remote!TypeOK
<1>2. ASSUME Remote!Quiet, ~overwritten
      PROVE  /\ \A i \in Sites.Inbounds :
                i \in unsaved \/ (i \in listed <=> i \in Remote!Listed)
             /\ \A n \in Sites.Nodes, i \in Sites.Inbounds : n \in Sites.At[i] =>
                  <<n, i>> \in behind \/ (i \in conf[n] <=> i \in Remote!Listed)
  <2>1. \A w \in Remote!Workers, i \in Sites.Inbounds : ~Remote!Tells(jobs[w], i)
          /\ ~Remote!Saves(jobs[w], i)
    BY <1>2 DEF Remote!Quiet, Remote!NoWork, Remote!Tells, Remote!Saves
  <2>2. \A i \in Sites.Inbounds : ~Remote!Promised(jobs, i) /\ ~Remote!Saving(jobs, i)
          /\ \A n : ~Remote!Owed(jobs, n, i)
    BY <2>1 DEF Remote!Promised, Remote!Saving, Remote!Owed
  <2>3. QED
    BY <1>2, <2>2 DEF Remote!RemoteInv, Remote!Quiet, Remote!SettingsKept, Remote!ConfKept
<1>3. \A I \in SUBSET Sites.Inbounds : \A p \in Remote!Pairs(I) :
        p[1] \in Sites.Nodes /\ p[2] \in I /\ p[2] \in Sites.Inbounds
          /\ p[1] \in Sites.At[p[2]] /\ p = <<p[1], p[2]>>
  BY DEF Remote!Pairs
<1>4. Remote!Listed \subseteq Sites.Inbounds /\ listed \subseteq Sites.Inbounds
  BY DEF Remote!RemoteInv, Remote!RemoteTypes, Remote!Listed
<1>5. Remote!EntitledIsServed
  BY <1>2, <1>3, <1>4 DEF Remote!EntitledIsServed
<1>6. Remote!OnlyKnownWaysToLinger
  BY <1>2, <1>3, <1>4 DEF Remote!OnlyKnownWaysToLinger
<1>7. QED
  BY <1>1, <1>5, <1>6

\* RemoteInv holds for ever, for any inbounds, workers, requests, goroutines,
\* edits, ticks, pushes and faults.
THEOREM RemoteInvariant == Remote!Spec => []Remote!RemoteInv
<1>1. Remote!Init => Remote!RemoteInv
  BY RemoteInit
<1>2. Remote!RemoteInv /\ [Remote!Next]_Remote!vars => Remote!RemoteInv'
  BY RemoteNext
<1>3. QED
  BY <1>1, <1>2, PTL DEF Remote!Spec
-----------------------------------------------------------------------------
(* A client's subscription (Subscription), for any requests, devices,      *)
(* inbounds, hosts and edits.  SubscriptionInv speaks of the moments       *)
(* between the steps of a request: who is about to insert a device has     *)
(* counted fewer than the limit, who was shut out has got no further than  *)
(* the gate, and what a host hides is hidden yet.  A step is one of a      *)
(* request, which leaves the others alone (SubRequest), or an edit, which  *)
(* lets requests forget (SubEdited).                                       *)

CONSTANT Offers   \* the constants of Subscription
VARIABLES subscriber, table, banned, multi, published, assigned, enabled, proxies,
          listening, address, asking, changes, excused

Links == INSTANCE Subscription WITH
  Requests <- Offers.Requests, Devices <- Offers.Devices, NoDevice <- Offers.NoDevice,
  Names <- Offers.Names, Inbounds <- Offers.Inbounds, Protocol <- Offers.Protocol,
  Nodes <- Offers.Nodes, Hosts <- Offers.Hosts, Mode <- Offers.Mode,
  Notices <- Offers.Notices, MaxDevices <- Offers.MaxDevices, Topics <- Offers.Topics,
  MaxRows <- Offers.MaxRows, MaxEdits <- Offers.MaxEdits,
  client <- subscriber, req <- asking, edits <- changes

\* Subscription counts with the Cardinality of its own instance.
LEMMA CountedAlike ==
  ASSUME NEW S
  PROVE  Links!Cardinality(S) = Cardinality(S)
BY DEF Links!Cardinality, Cardinality

\* The parts of SubscriptionInv when the step is over.
ShutNext(d) == \E k \in DOMAIN table' : table'[k].device = d /\ table'[k].blocked
GateNext(q) ==
  /\ q.pc \in {"register", "insert"} => q.device # Offers.NoDevice
  /\ q.shut /\ q.way # "page" /\ subscriber'.hwid =>
       q.links = {} /\ (q.pc = "refused" \/ (q.pc = "register" /\ ShutNext(q.device)))
RoomNext(q) ==
  ~excused' /\ q.pc = "insert" /\ subscriber'.max > 0 => q.count < subscriber'.max
HiddenNext(q) ==
  /\ \A i \in q.hidden : Links!Replaced(i)'
  /\ \A l \in q.links :
       l.of \in q.hidden /\ Offers.Protocol[l.of] # "hysteria" /\ q.way # "json" =>
         l.at \in {"host", "proxy"}

\* SubscriptionInv holds after a step if each of its parts does.
LEMMA SubAssembled ==
  ASSUME Links!TypeOK', Links!RowsOK', asking' \in [Offers.Requests -> Links!Asked],
         Links!DevicesWithinLimit',
         \A r \in Offers.Requests : GateNext(asking'[r]) /\ RoomNext(asking'[r])
           /\ HiddenNext(asking'[r])
  PROVE  Links!SubscriptionInv'
<1>1. \A r \in Offers.Requests : Links!GateHolds(asking[r])'
  BY DEF GateNext, Links!GateHolds, ShutNext, Links!Shut, Links!RowsOf, Links!Ids
<1>2. \A r \in Offers.Requests : Links!RoomFound(asking[r])'
  BY DEF RoomNext, Links!RoomFound
<1>3. \A r \in Offers.Requests : Links!StillHidden(asking[r])'
  BY DEF HiddenNext, Links!StillHidden
<1>4. QED
  BY <1>1, <1>2, <1>3 DEF Links!SubscriptionInv

\* A device is shut out as long as the table does not change.
LEMMA ShutSame ==
  ASSUME table' = table, NEW d PROVE Links!Shut(d) <=> ShutNext(d)
BY DEF Links!Shut, ShutNext, Links!RowsOf, Links!Ids

\* Nothing but one request changes.
LEMMA SubRequest ==
  ASSUME Links!SubscriptionInv, NEW r \in Offers.Requests, NEW q \in Links!Asked,
         asking' = [asking EXCEPT ![r] = q],
         UNCHANGED <<subscriber, table, banned, Links!settings, changes, excused>>,
         address' \in Offers.Names \cup {""},
         Links!GateHolds(q), Links!RoomFound(q), Links!StillHidden(q)
  PROVE  Links!SubscriptionInv'
<1>1. Links!TypeOK /\ Links!RowsOK /\ asking \in [Offers.Requests -> Links!Asked]
        /\ Links!DevicesWithinLimit
  BY DEF Links!SubscriptionInv
<1>2. asking' \in [Offers.Requests -> Links!Asked] /\ asking'[r] = q
        /\ \A s \in Offers.Requests \ {r} : asking'[s] = asking[s]
  BY <1>1
<1>3. \A s \in Offers.Requests : Links!GateHolds(asking'[s])
        /\ Links!RoomFound(asking'[s]) /\ Links!StillHidden(asking'[s])
  BY <1>2 DEF Links!SubscriptionInv
<1>4. \A i : Links!Replaced(i)' <=> Links!Replaced(i)
  BY DEF Links!Replaced, Links!HostFor, Links!settings
<1>5. \A s \in Offers.Requests : GateNext(asking'[s]) /\ RoomNext(asking'[s])
        /\ HiddenNext(asking'[s])
  <2>1. \A s \in Offers.Requests : GateNext(asking'[s])
    BY <1>3, ShutSame DEF GateNext, Links!GateHolds
  <2>2. \A s \in Offers.Requests : RoomNext(asking'[s])
    BY <1>3 DEF RoomNext, Links!RoomFound
  <2>3. \A s \in Offers.Requests : HiddenNext(asking'[s])
    BY <1>3, <1>4 DEF HiddenNext, Links!StillHidden
  <2>4. QED
    BY <2>1, <2>2, <2>3
<1>6. \A s \in Offers.Requests : asking'[s].todo \subseteq Offers.Inbounds
  BY <1>2 DEF Links!Asked
<1>7. Links!TypeOK'
  BY <1>1, <1>6 DEF Links!TypeOK, Links!settings
<1>8. Links!RowsOK' /\ Links!DevicesWithinLimit'
  BY <1>1 DEF Links!RowsOK, Links!DevicesWithinLimit, Links!Ids, Links!Active
<1>9. QED
  BY <1>2, <1>5, <1>7, <1>8, SubAssembled

\* A request that is over promises nothing.
LEMMA NobodyAsks ==
  ASSUME TRUE
  PROVE  Links!NoRequest \in Links!Asked /\ Links!GateHolds(Links!NoRequest)
           /\ Links!RoomFound(Links!NoRequest) /\ Links!StillHidden(Links!NoRequest)
<1>1. Links!NoRequest \in Links!Asked
  BY DEF Links!NoRequest, Links!Asked, Links!Ways
<1>2. Links!GateHolds(Links!NoRequest) /\ Links!RoomFound(Links!NoRequest)
  BY DEF Links!NoRequest, Links!GateHolds, Links!RoomFound
<1>3. Links!StillHidden(Links!NoRequest)
  BY DEF Links!NoRequest, Links!StillHidden
<1>4. QED
  BY <1>1, <1>2, <1>3

\* A request comes and passes the gates.
LEMMA SubGetSubs ==
  ASSUME Links!SubscriptionInv, NEW r \in Offers.Requests, NEW way \in Links!Ways,
         NEW h \in Offers.Names,
         NEW d \in Offers.Devices \cup {Offers.NoDevice}, Links!GetSubs(r, way, h, d)
  PROVE  Links!SubscriptionInv'
<1>1. PICK S, shut : S = {i \in Offers.Inbounds : Links!Replaced(i)}
             /\ shut = \E k \in Links!RowsOf(d) : table[k].blocked
  OBVIOUS
<1>2. PICK refused : refused = CASE way = "subs" -> Links!LinksRefused(r)
                   [] way = "json" -> Links!JsonRefused(r)
                   [] way = "page" -> Links!PageRefused
  OBVIOUS
<1>3. PICK p : p = [Links!NoRequest EXCEPT !.way = way, !.host = h, !.device = d, !.todo = Offers.Inbounds,
              !.hidden = S, !.shut = shut]
  OBVIOUS
<1>4. PICK q : q = [p EXCEPT !.pc = IF refused THEN "refused"
                  ELSE IF Links!Registers(p) THEN "register" ELSE "links"]
  OBVIOUS
<1>5. /\ asking' = [asking EXCEPT ![r] = q]
      /\ address' = IF way = "subs" THEN h ELSE address
      /\ UNCHANGED <<subscriber, table, banned, Links!settings, changes, excused>>
  BY <1>1, <1>2, <1>3, <1>4 DEF Links!GetSubs
<1>6. /\ p.way = way /\ p.host = h /\ p.device = d /\ p.todo = Offers.Inbounds
         /\ p.hidden = S /\ p.shut = shut
      /\ p.links = {} /\ p.count = 0 /\ p.pc = "idle" /\ shut \in BOOLEAN
  BY <1>1, <1>3 DEF Links!NoRequest
<1>7. p \in Links!Asked
  BY <1>1, <1>3, <1>6, NobodyAsks DEF Links!Asked
<1>8. /\ q.way = way /\ q.device = d /\ q.hidden = S /\ q.shut = shut /\ q.links = {}
      /\ q.pc \in {"refused", "register", "links"} /\ q \in Links!Asked
      /\ q.pc = "register" => Links!Registers(p)
      /\ q.pc = "links" => ~Links!Registers(p)
  BY <1>4, <1>6, <1>7 DEF Links!Asked
<1>9. Links!GateHolds(q)
  <2>1. shut => Links!Shut(d) /\ d # Offers.NoDevice
    BY <1>1 DEF Links!Shut, Links!SubscriptionInv, Links!RowsOK, Links!RowsOf
  <2>2. QED
    BY <1>6, <1>8, <2>1 DEF Links!GateHolds, Links!Registers
<1>10. Links!RoomFound(q)
  BY <1>8 DEF Links!RoomFound
<1>11. Links!StillHidden(q)
  BY <1>1, <1>8 DEF Links!StillHidden
<1>12. address' \in Offers.Names \cup {""}
  BY <1>5 DEF Links!SubscriptionInv, Links!TypeOK
<1>13. QED
  BY <1>5, <1>8, <1>9, <1>10, <1>11, <1>12, SubRequest

\* The devices that count are finitely many rows.
LEMMA ActiveCounts ==
  ASSUME Links!RowsOK
  PROVE  Links!Active \subseteq Links!Ids /\ Links!Ids = 1 .. Len(table)
           /\ IsFiniteSet(Links!Active) /\ Links!Cardinality(Links!Active) \in Nat
<1>1. Links!Ids = 1 .. Len(table) /\ Len(table) \in Nat
  BY DEF Links!RowsOK, Links!Ids
<1>2. IsFiniteSet(1 .. Len(table))
  BY <1>1, FS_Interval
<1>3. IsFiniteSet(Links!Active)
  BY <1>1, <1>2, FS_Subset, CountedAlike DEF Links!Active
<1>4. QED
  BY <1>1, <1>3, FS_CardinalityType, CountedAlike DEF Links!Active

\* A request looks for its device.
LEMMA SubLookUp ==
  ASSUME Links!SubscriptionInv, Links!DevicesAssumption, NEW r \in Offers.Requests,
         Links!LookUp(r)
  PROVE  Links!SubscriptionInv'
<1>0. asking[r] \in Links!Asked /\ Links!GateHolds(asking[r])
        /\ Links!StillHidden(asking[r]) /\ asking \in [Offers.Requests -> Links!Asked]
  BY DEF Links!SubscriptionInv
<1>1. PICK pc : pc = IF Links!Shut(asking[r].device) THEN "refused"
                  ELSE IF Links!Known(asking[r].device) THEN "links"
                    ELSE IF Links!Full THEN "refused" ELSE "insert"
  OBVIOUS
<1>2. PICK q : q = [asking[r] EXCEPT !.pc = pc, !.count = Links!Cardinality(Links!Active)]
  OBVIOUS
<1>3. asking[r].pc = "register" /\ asking' = [asking EXCEPT ![r] = q]
      /\ UNCHANGED <<subscriber, table, banned, Links!settings, address, changes, excused>>
  BY <1>0, <1>1, <1>2 DEF Links!LookUp
<1>4. Links!Cardinality(Links!Active) \in Nat
  BY ActiveCounts DEF Links!SubscriptionInv
<1>5. /\ q \in Links!Asked /\ q.pc = pc /\ q.count = Links!Cardinality(Links!Active)
         /\ q.way = asking[r].way
      /\ q.device = asking[r].device /\ q.shut = asking[r].shut
         /\ q.hidden = asking[r].hidden
      /\ q.links = asking[r].links
  BY <1>0, <1>1, <1>2, <1>4 DEF Links!Asked
<1>6. Links!GateHolds(q)
  BY <1>0, <1>1, <1>3, <1>5 DEF Links!GateHolds
<1>7. subscriber.max \in Nat
  BY DEF Links!SubscriptionInv, Links!TypeOK, Links!DevicesAssumption
<1>8. Links!RoomFound(q)
  BY <1>1, <1>4, <1>5, <1>7 DEF Links!RoomFound, Links!Full
<1>9. Links!StillHidden(q)
  BY <1>0, <1>5 DEF Links!StillHidden
<1>10. address' \in Offers.Names \cup {""}
  BY <1>3 DEF Links!SubscriptionInv, Links!TypeOK
<1>11. QED
  BY <1>3, <1>5, <1>6, <1>8, <1>9, <1>10, SubRequest

\* A request is over.
LEMMA SubDone ==
  ASSUME Links!SubscriptionInv, NEW r \in Offers.Requests, Links!Done(r)
  PROVE  Links!SubscriptionInv'
<1>1. address' \in Offers.Names \cup {""}
  BY DEF Links!SubscriptionInv, Links!TypeOK, Links!Done
<1>2. asking' = [asking EXCEPT ![r] = Links!NoRequest]
      /\ UNCHANGED <<subscriber, table, banned, Links!settings, changes, excused>>
  BY DEF Links!Done
<1>3. QED
  BY <1>1, <1>2, NobodyAsks, SubRequest

\* The links of an inbound: what they are, and what a host that replaces its
\* addresses leaves.
LEMMA EndpointsAre ==
  ASSUME Links!TypeOK, NEW i \in Offers.Inbounds, NEW a \in Offers.Names \cup {""}
  PROVE  /\ \A l \in Links!AddressesForInbound(i, a) :
              l.at \in Links!Places /\ l.over \in BOOLEAN
                /\ (Links!Replaced(i) => l.at = "host")
         /\ \A l \in Links!LinksOf(i, a) :
              /\ l.at \in Links!Places /\ l.over \in BOOLEAN
              /\ Links!Replaced(i) /\ Offers.Protocol[i] # "hysteria" =>
                 l.at \in {"host", "proxy"}
         /\ \A l \in Links!JsonLinks(i, a) : l.at \in Links!Places /\ l.over \in BOOLEAN
<1>1. Links!NodeAddresses(i) \subseteq Offers.Nodes
        /\ Links!DefaultAddress(i, a) \in Links!Places
  BY DEF Links!TypeOK, Links!NodeAddresses, Links!DefaultAddress, Links!Places
<1>2. PICK H, N, y, z, D : /\ H = Links!HostFor(i) /\ N = Links!NodeAddresses(i) /\ y = Links!DefaultAddress(i, a)
                        /\ z \in BOOLEAN /\ z = (Links!HostFor(i) # {})
                        /\ D = IF Links!NodeAddresses(i) = {}
                           THEN {Links!At(y, FALSE)} ELSE {}
  OBVIOUS
<1>3. \A l \in Links!AddressesForInbound(i, a) :
        l.at \in Links!Places /\ l.over \in BOOLEAN /\ (Links!Replaced(i) => l.at = "host")
  <2>1. ASSUME NEW l \in {[at |-> "host", over |-> TRUE] : h \in H}
        PROVE  l.at = "host" /\ l.over \in BOOLEAN
    <3>1. l = [at |-> "host", over |-> TRUE]
      BY Zenon
    <3>2. QED
      BY <3>1
  <2>2. ASSUME NEW l \in {[at |-> n, over |-> FALSE] : n \in N}
        PROVE  l.at \in Offers.Nodes /\ l.over \in BOOLEAN
    <3>1. PICK n \in N : l = [at |-> n, over |-> FALSE]
      OBVIOUS
    <3>2. QED
      BY <1>1, <1>2, <3>1
  <2>3. ASSUME NEW l \in D
        PROVE  l.at = y /\ l.over \in BOOLEAN
    <3>1. l = [at |-> y, over |-> FALSE]
      BY <1>2 DEF Links!At
    <3>2. QED
      BY <3>1
  <2>4. CASE Links!Replaced(i)
    <3>1. Links!AddressesForInbound(i, a) = {[at |-> "host", over |-> TRUE] : h \in H}
      BY <1>2, <2>4 DEF Links!AddressesForInbound, Links!At
    <3>2. QED
      BY <2>1, <3>1 DEF Links!Places
  <2>5. CASE ~Links!Replaced(i)
    <3>1. Links!AddressesForInbound(i, a) = Links!Joined(i, a)
      BY <2>5 DEF Links!AddressesForInbound
    <3>2. Links!Joined(i, a) = {[at |-> "host", over |-> TRUE] : h \in H}
                           \cup {[at |-> n, over |-> FALSE] : n \in N} \cup D
      BY <1>2 DEF Links!Joined, Links!At
    <3>3. QED
      BY <1>1, <1>2, <2>1, <2>2, <2>3, <2>5, <3>1, <3>2 DEF Links!Places
  <2>6. QED
    BY <2>4, <2>5
<1>4. ASSUME NEW l \in Links!ShareLinks(i, a)
      PROVE  l.at \in Links!Places /\ l.over \in BOOLEAN
               /\ (Links!Replaced(i) => l.at \in {"host", "proxy"})
  <2>1. CASE i \in proxies
    <3>1. l = [at |-> "proxy", over |-> z]
      BY <1>2, <1>4, <2>1 DEF Links!ShareLinks, Links!At
    <3>2. QED
      BY <1>2, <3>1 DEF Links!Places
  <2>2. CASE i \notin proxies
    BY <1>3, <1>4, <2>2 DEF Links!ShareLinks
  <2>3. QED
    BY <2>1, <2>2
<1>5. ASSUME NEW l \in Links!MixedLinks(i, a)
      PROVE  l.at \in Links!Places /\ l.over \in BOOLEAN
               /\ (Links!Replaced(i) => l.at \in {"host", "proxy"})
  <2>1. PICK S : S = Links!AddressesForInbound(i, a)
    OBVIOUS
  <2>2. l \in {[at |-> m.at, over |-> FALSE] : m \in S}
    BY <1>5, <2>1 DEF Links!MixedLinks, Links!At
  <2>3. PICK m \in S : l = [at |-> m.at, over |-> FALSE]
    BY <2>2
  <2>4. QED
    BY <1>3, <2>1, <2>3
<1>6. ASSUME NEW l \in Links!HysteriaLinks(i, a)
      PROVE  l.at \in Links!Places /\ l.over \in BOOLEAN
  <2>1. PICK x : x = IF i \in proxies THEN "proxy" ELSE a
    OBVIOUS
  <2>2. l = [at |-> x, over |-> z]
    BY <1>2, <1>6, <2>1 DEF Links!HysteriaLinks, Links!At
  <2>3. QED
    BY <1>2, <2>1, <2>2 DEF Links!Places
<1>7. ASSUME NEW l \in Links!JsonLinks(i, a)
      PROVE  l.at \in Links!Places /\ l.over \in BOOLEAN
  <2>1. PICK x : x = IF i \in proxies THEN "proxy" ELSE a
    OBVIOUS
  <2>2. l = [at |-> x, over |-> FALSE]
    BY <1>7, <2>1 DEF Links!JsonLinks, Links!At
  <2>3. QED
    BY <2>1, <2>2 DEF Links!Places
<1>8. \A l \in Links!LinksOf(i, a) :
        /\ l.at \in Links!Places /\ l.over \in BOOLEAN
        /\ Links!Replaced(i) /\ Offers.Protocol[i] # "hysteria" =>
           l.at \in {"host", "proxy"}
  <2>1. CASE Offers.Protocol[i] = "mixed"
    BY <1>5, <2>1 DEF Links!LinksOf
  <2>2. CASE Offers.Protocol[i] = "hysteria"
    BY <1>6, <2>2 DEF Links!LinksOf
  <2>3. CASE Offers.Protocol[i] # "mixed" /\ Offers.Protocol[i] # "hysteria"
    BY <1>4, <2>3 DEF Links!LinksOf
  <2>4. QED
    BY <2>1, <2>2, <2>3
<1>9. QED
  BY <1>3, <1>7, <1>8

\* A request writes the links of an inbound.
LEMMA SubLink ==
  ASSUME Links!SubscriptionInv, NEW r \in Offers.Requests, NEW i \in Offers.Inbounds,
         Links!Link(r, i)
  PROVE  Links!SubscriptionInv'
<1>0. /\ asking[r] \in Links!Asked /\ Links!GateHolds(asking[r])
         /\ Links!StillHidden(asking[r]) /\ asking \in [Offers.Requests -> Links!Asked]
      /\ Links!TypeOK
  BY DEF Links!SubscriptionInv
<1>1. PICK a : a = IF asking[r].way = "subs" THEN address ELSE asking[r].host
  OBVIOUS
<1>2. PICK S : S = IF asking[r].way = "json" THEN Links!JsonLinks(i, asking[r].host)
             ELSE Links!LinksOf(i, a)
  OBVIOUS
<1>3. PICK q : q = [asking[r] EXCEPT !.todo = @ \ {i}, !.links = @ \cup Links!Of(i, S)]
  OBVIOUS
<1>4. /\ asking[r].pc = "links" /\ asking' = [asking EXCEPT ![r] = q]
      /\ UNCHANGED <<subscriber, table, banned, Links!settings, address, changes, excused>>
  BY <1>0, <1>1, <1>2, <1>3 DEF Links!Link
<1>5. a \in Offers.Names \cup {""} /\ asking[r].host \in Offers.Names \cup {""}
  BY <1>0, <1>1 DEF Links!TypeOK, Links!Asked
<1>6. \A l \in S :
        /\ l.at \in Links!Places /\ l.over \in BOOLEAN
        /\ Links!Replaced(i) /\ Offers.Protocol[i] # "hysteria"
           /\ asking[r].way # "json" => l.at \in {"host", "proxy"}
  BY <1>0, <1>2, <1>5, EndpointsAre
<1>7. ASSUME NEW l \in Links!Of(i, S)
      PROVE  /\ l \in Links!Points /\ l.of = i
             /\ Links!Replaced(i) /\ Offers.Protocol[i] # "hysteria"
                /\ asking[r].way # "json" => l.at \in {"host", "proxy"}
  <2>1. PICK m \in S : l = [of |-> i, at |-> m.at, over |-> m.over]
    BY <1>7 DEF Links!Of
  <2>2. QED
    BY <1>6, <2>1 DEF Links!Points
<1>8. /\ q \in Links!Asked /\ q.pc = asking[r].pc /\ q.way = asking[r].way
         /\ q.device = asking[r].device
      /\ q.shut = asking[r].shut /\ q.hidden = asking[r].hidden
         /\ q.links = asking[r].links \cup Links!Of(i, S)
      /\ q.count = asking[r].count
  <2>1. Links!Of(i, S) \in SUBSET Links!Points
    BY <1>7
  <2>2. QED
    BY <1>0, <1>3, <2>1 DEF Links!Asked
<1>9. Links!GateHolds(q)
  BY <1>0, <1>4, <1>8 DEF Links!GateHolds
<1>10. Links!RoomFound(q)
  BY <1>4, <1>8 DEF Links!RoomFound
<1>11. Links!StillHidden(q)
  <2>1. \A j \in q.hidden : Links!Replaced(j)
    BY <1>0, <1>8 DEF Links!StillHidden
  <2>2. ASSUME NEW l \in q.links, l.of \in q.hidden, Offers.Protocol[l.of] # "hysteria",
               q.way # "json"
        PROVE  l.at \in {"host", "proxy"}
    <3>1. CASE l \in asking[r].links
      BY <1>0, <1>8, <2>2, <3>1 DEF Links!StillHidden
    <3>2. CASE l \in Links!Of(i, S)
      BY <1>7, <1>8, <2>1, <2>2, <3>2
    <3>3. QED
      BY <1>8, <2>2, <3>1, <3>2
  <2>3. QED
    BY <2>1, <2>2 DEF Links!StillHidden
<1>12. address' \in Offers.Names \cup {""}
  BY <1>0, <1>4 DEF Links!TypeOK
<1>13. QED
  BY <1>4, <1>8, <1>9, <1>10, <1>11, <1>12, SubRequest

\* A request as an edit leaves it.
Milder(p, q) ==
  /\ p.way = q.way /\ p.device = q.device /\ p.links = q.links /\ p.count = q.count
  /\ p.pc = q.pc \/ (q.pc = "insert" /\ p.pc = "links")
  /\ p.hidden \subseteq q.hidden /\ (p.shut => q.shut)

\* An edit keeps SubscriptionInv if whoever it lets in is forgotten, and
\* whoever is shut out of what it leaves stays so.
LEMMA SubEdited ==
  ASSUME Links!SubscriptionInv, asking' \in [Offers.Requests -> Links!Asked],
         Links!TypeOK', Links!RowsOK', Links!DevicesWithinLimit',
         \A r \in Offers.Requests : Milder(asking'[r], asking[r]),
         \A r \in Offers.Requests : \A i \in asking'[r].hidden : Links!Replaced(i)',
         \A r \in Offers.Requests : asking'[r].shut =>
           (subscriber'.hwid => subscriber.hwid)
             /\ (Links!Shut(asking[r].device) => ShutNext(asking[r].device)),
         excused' \/ (~excused /\ subscriber'.max = subscriber.max)
  PROVE  Links!SubscriptionInv'
<1>1. \A r \in Offers.Requests : asking[r] \in Links!Asked /\ asking'[r] \in Links!Asked
  BY DEF Links!SubscriptionInv
<1>2. ASSUME NEW r \in Offers.Requests PROVE GateNext(asking'[r])
  <2>1. PICK p, q : p = asking'[r] /\ q = asking[r]
    OBVIOUS
  <2>2. Links!GateHolds(q) /\ Milder(p, q)
    BY <2>1 DEF Links!SubscriptionInv
  <2>3. p.shut => (subscriber'.hwid => subscriber.hwid)
          /\ (Links!Shut(q.device) => ShutNext(q.device))
    BY <2>1
  <2>4. GateNext(p)
    BY <2>2, <2>3 DEF Links!GateHolds, Milder, GateNext
  <2>5. QED
    BY <2>1, <2>4
<1>3. ASSUME NEW r \in Offers.Requests PROVE RoomNext(asking'[r])
  <2>1. PICK p, q : p = asking'[r] /\ q = asking[r]
    OBVIOUS
  <2>2. Links!RoomFound(q) /\ Milder(p, q)
    BY <2>1 DEF Links!SubscriptionInv
  <2>3. RoomNext(p)
    BY <2>2 DEF Links!RoomFound, Milder, RoomNext
  <2>4. QED
    BY <2>1, <2>3
<1>4. ASSUME NEW r \in Offers.Requests PROVE HiddenNext(asking'[r])
  <2>1. PICK p, q : p = asking'[r] /\ q = asking[r]
    OBVIOUS
  <2>2. Links!StillHidden(q) /\ Milder(p, q) /\ \A i \in p.hidden : Links!Replaced(i)'
    BY <2>1 DEF Links!SubscriptionInv
  <2>3. HiddenNext(p)
    BY <2>2 DEF Links!StillHidden, Milder, HiddenNext
  <2>4. QED
    BY <2>1, <2>3
<1>5. QED
  BY <1>2, <1>3, <1>4, SubAssembled

\* A request that is not changed promises what it did.
LEMMA MilderSelf ==
  ASSUME NEW q PROVE Milder(q, q)
BY DEF Milder

\* Hosts replace the addresses of an inbound until a host is edited.
LEMMA ReplacedSame ==
  ASSUME UNCHANGED <<assigned, enabled>>,
         NEW i PROVE Links!Replaced(i)' <=> Links!Replaced(i)
BY DEF Links!Replaced, Links!HostFor

\* The limit of devices holds when no device has become active.
LEMMA FewerActive ==
  ASSUME Links!SubscriptionInv, Links!DevicesAssumption, subscriber' = subscriber,
         excused' \/ ~excused,
         \A k \in DOMAIN table' : table'[k].active /\ ~table'[k].blocked =>
           k \in DOMAIN table /\ table[k].active /\ ~table[k].blocked
  PROVE  Links!DevicesWithinLimit'
<1>1. PICK A, B : A = Links!Active /\ B = {k \in DOMAIN table' : table'[k].active
             /\ ~table'[k].blocked}
  OBVIOUS
<1>2. B \in SUBSET A
  BY <1>1 DEF Links!Active, Links!Ids
<1>3. IsFiniteSet(A) /\ Links!Cardinality(A) \in Nat
  BY <1>1, ActiveCounts DEF Links!SubscriptionInv
<1>4. IsFiniteSet(B) /\ Links!Cardinality(B) <= Links!Cardinality(A)
  BY <1>2, <1>3, FS_Subset, CountedAlike
<1>5. Links!Cardinality(B) \in Nat
  BY <1>4, FS_CardinalityType, CountedAlike
<1>6. subscriber.max \in Nat
  BY DEF Links!SubscriptionInv, Links!TypeOK, Links!DevicesAssumption
<1>7. ~excused /\ subscriber.max > 0 => Links!Cardinality(A) <= subscriber.max
  BY <1>1 DEF Links!SubscriptionInv, Links!DevicesWithinLimit
<1>8. ~excused' /\ subscriber'.max > 0 => Links!Cardinality(B) <= subscriber'.max
  BY <1>3, <1>4, <1>5, <1>6, <1>7
<1>9. QED
  BY <1>1, <1>8 DEF Links!DevicesWithinLimit, Links!Active, Links!Ids

\* Edits are counted.
LEMMA OneEditMore ==
  ASSUME Links!TypeOK, Links!DevicesAssumption, changes < Offers.MaxEdits,
         changes' = changes + 1
  PROVE  changes' \in 0 .. Offers.MaxEdits
<1>1. changes \in 0 .. Offers.MaxEdits /\ Offers.MaxEdits \in Nat
  BY DEF Links!TypeOK, Links!DevicesAssumption
<1>2. QED
  BY <1>1

\* The table keeps its ids.
DeviceRows == [device : Offers.Devices \cup {Offers.NoDevice}, active :
  BOOLEAN, blocked : BOOLEAN]

\* A table that keeps its ids is one of devices.
LEMMA DevicesEdited ==
  ASSUME Links!RowsOK, DOMAIN table' = DOMAIN table,
         table' = [k \in DOMAIN table |-> table'[k]],
         \A k \in DOMAIN table : table'[k] \in DeviceRows /\
           (table'[k].device = Offers.NoDevice => ~table'[k].blocked)
  PROVE  Links!RowsOK' /\ Len(table') = Len(table)
<1>1. Len(table) \in Nat /\ DOMAIN table = 1 .. Len(table)
  BY DEF Links!RowsOK
<1>2. table' \in [1 .. Len(table) -> DeviceRows]
  BY <1>1
<1>3. table' \in Seq(DeviceRows) /\ Len(table') = Len(table)
  BY <1>1, <1>2
<1>4. \A k \in DOMAIN table' : table'[k].device = Offers.NoDevice => ~table'[k].blocked
  OBVIOUS
<1>5. QED
  BY <1>3, <1>4 DEF Links!RowsOK, DeviceRows, Links!Ids

\* Requests forget about some devices.
Forgetting(forgotten) ==
  [r \in Offers.Requests |->
     IF asking[r].device \in forgotten THEN [asking[r] EXCEPT !.shut = FALSE]
       ELSE asking[r]]

\* What becomes of requests that forget about some devices.
LEMMA SubForgets ==
  ASSUME asking \in [Offers.Requests -> Links!Asked],
         NEW forgotten \in SUBSET (Offers.Devices \cup {Offers.NoDevice}),
         asking' = Forgetting(forgotten)
  PROVE  /\ asking' \in [Offers.Requests -> Links!Asked]
         /\ \A r \in Offers.Requests :
              /\ Milder(asking'[r], asking[r]) /\ asking'[r].hidden = asking[r].hidden
              /\ asking'[r].todo \subseteq Offers.Inbounds
              /\ asking'[r].shut =>
                   /\ asking[r].device \in Offers.Devices \cup {Offers.NoDevice}
                   /\ asking[r].device \notin forgotten
<1>1. ASSUME NEW r \in Offers.Requests
      PROVE  /\ asking'[r] \in Links!Asked
             /\ Milder(asking'[r], asking[r]) /\ asking'[r].hidden = asking[r].hidden
             /\ asking'[r].todo \subseteq Offers.Inbounds
             /\ asking'[r].shut =>
                  /\ asking[r].device \in Offers.Devices \cup {Offers.NoDevice}
                  /\ asking[r].device \notin forgotten
  <2>1. PICK q : q = asking[r] /\ q \in Links!Asked
    OBVIOUS
  <2>2. CASE q.device \in forgotten
    <3>1. PICK p : p = [q EXCEPT !.shut = FALSE]
      OBVIOUS
    <3>2. asking'[r] = p
      BY <2>1, <2>2, <3>1 DEF Forgetting
    <3>3. /\ p \in Links!Asked /\ Milder(p, q) /\ p.hidden = q.hidden
          /\ p.todo \subseteq Offers.Inbounds /\ ~p.shut
      BY <2>1, <3>1 DEF Links!Asked, Milder
    <3>4. QED
      BY <2>1, <3>2, <3>3
  <2>3. CASE q.device \notin forgotten
    <3>1. asking'[r] = q
      BY <2>1, <2>3 DEF Forgetting
    <3>2. Milder(q, q) /\ q.todo \subseteq Offers.Inbounds
            /\ q.device \in Offers.Devices \cup {Offers.NoDevice}
      BY <2>1, MilderSelf DEF Links!Asked
    <3>3. QED
      BY <2>1, <2>3, <3>1, <3>2
  <2>4. QED
    BY <2>2, <2>3
<1>2. asking' \in [Offers.Requests -> Links!Asked]
  <2>1. asking' = [r \in Offers.Requests |-> asking'[r]]
    BY DEF Forgetting
  <2>2. QED
    BY <1>1, <2>1
<1>3. QED
  BY <1>1, <1>2

\* The switch, the quota or the limit of devices is edited.
LEMMA SubEditClient ==
  ASSUME Links!SubscriptionInv, Links!DevicesAssumption, Links!EditClient
  PROVE  Links!SubscriptionInv'
<1>0. /\ Links!TypeOK /\ Links!RowsOK /\ asking \in [Offers.Requests -> Links!Asked]
      /\ subscriber \in [enable : BOOLEAN, over : BOOLEAN, hwid : BOOLEAN, max :
         Offers.MaxDevices]
  BY DEF Links!SubscriptionInv, Links!TypeOK
<1>1. /\ table' = table /\ banned' = banned /\ Links!settings' = Links!settings
         /\ address' = address
      /\ excused' = TRUE /\ changes < Offers.MaxEdits /\ changes' = changes + 1
  BY DEF Links!EditClient, Links!Edit
<1>2. subscriber' \in [enable : BOOLEAN, over : BOOLEAN, hwid : BOOLEAN, max :
        Offers.MaxDevices]
  BY <1>0 DEF Links!EditClient
<1>3. PICK all : all = Offers.Devices \cup {Offers.NoDevice}
  OBVIOUS
<1>4. PICK forgotten \in SUBSET all :
        /\ forgotten = {} => subscriber'.hwid = subscriber.hwid
        /\ forgotten = {} \/ forgotten = all
        /\ asking' = Forgetting(forgotten)
  <2>1. \A r \in Offers.Requests : asking[r].device \in all
    BY <1>0, <1>3 DEF Links!Asked
  <2>2. \/ asking' = asking /\ subscriber'.hwid = subscriber.hwid
        \/ asking' = [r \in Offers.Requests |-> [asking[r] EXCEPT !.shut = FALSE]]
    BY <1>0 DEF Links!EditClient
  <2>3. CASE asking' = asking /\ subscriber'.hwid = subscriber.hwid
    <3>1. asking' = [r \in Offers.Requests |-> asking[r]]
      BY <1>0, <2>3
    <3>2. WITNESS {} \in SUBSET all
    <3>3. QED
      BY <2>3, <3>1 DEF Forgetting
  <2>4. CASE asking' = [r \in Offers.Requests |-> [asking[r] EXCEPT !.shut = FALSE]]
    <3>1. all # {}
      BY <1>3
    <3>2. WITNESS all \in SUBSET all
    <3>3. QED
      BY <2>1, <2>4, <3>1 DEF Forgetting
  <2>5. QED
    BY <2>2, <2>3, <2>4
<1>5. /\ asking' \in [Offers.Requests -> Links!Asked]
      /\ \A r \in Offers.Requests :
           /\ Milder(asking'[r], asking[r]) /\ asking'[r].hidden = asking[r].hidden
           /\ asking'[r].todo \subseteq Offers.Inbounds
           /\ asking'[r].shut =>
                /\ asking[r].device \in Offers.Devices \cup {Offers.NoDevice}
                /\ asking[r].device \notin forgotten
  <2>1. forgotten \in SUBSET (Offers.Devices \cup {Offers.NoDevice})
    BY <1>3, <1>4
  <2>2. QED
    BY <1>0, <1>4, <2>1, SubForgets
<1>6. changes' \in 0 .. Offers.MaxEdits
  BY <1>0, <1>1, OneEditMore
<1>7. Links!TypeOK'
  BY <1>0, <1>1, <1>2, <1>5, <1>6 DEF Links!TypeOK, Links!settings
<1>8. Links!RowsOK'
  BY <1>0, <1>1 DEF Links!RowsOK, Links!Ids
<1>9. Links!DevicesWithinLimit'
  BY <1>1 DEF Links!DevicesWithinLimit
<1>10. \A r \in Offers.Requests : \A i \in asking'[r].hidden : Links!Replaced(i)'
  BY <1>1, <1>5, ReplacedSame DEF Links!settings, Links!SubscriptionInv, Links!StillHidden
<1>11. \A r \in Offers.Requests : asking'[r].shut =>
         (subscriber'.hwid => subscriber.hwid)
           /\ (Links!Shut(asking[r].device) => ShutNext(asking[r].device))
  BY <1>1, <1>3, <1>4, <1>5, ShutSame
<1>12. QED
  BY <1>1, <1>5, <1>7, <1>8, <1>9, <1>10, <1>11, SubEdited

\* What the edits of devices have in common.
LEMMA SubDevices ==
  ASSUME Links!SubscriptionInv, Links!DevicesAssumption, Links!RowsOK',
         Len(table') = Len(table),
         UNCHANGED <<subscriber, banned, Links!settings, address>>,
           changes < Offers.MaxEdits, changes' = changes + 1,
         NEW forgotten \in SUBSET (Offers.Devices \cup {Offers.NoDevice}),
         asking' = Forgetting(forgotten),
         \A d \in (Offers.Devices \cup {Offers.NoDevice}) \ forgotten : Links!Shut(d) =>
           ShutNext(d),
         excused' \/ ~excused, Links!DevicesWithinLimit'
  PROVE  Links!SubscriptionInv'
<1>0. /\ Links!TypeOK /\ Links!RowsOK /\ asking \in [Offers.Requests -> Links!Asked]
      /\ \A r \in Offers.Requests : asking[r] \in Links!Asked
  BY DEF Links!SubscriptionInv
<1>1. /\ asking' \in [Offers.Requests -> Links!Asked]
      /\ \A r \in Offers.Requests :
           /\ Milder(asking'[r], asking[r]) /\ asking'[r].hidden = asking[r].hidden
           /\ asking'[r].todo \subseteq Offers.Inbounds
           /\ asking'[r].shut =>
                /\ asking[r].device \in Offers.Devices \cup {Offers.NoDevice}
                /\ asking[r].device \notin forgotten
  BY <1>0, SubForgets
<1>4. changes' \in 0 .. Offers.MaxEdits
  BY <1>0, OneEditMore
<1>5. Links!TypeOK'
  BY <1>0, <1>1, <1>4 DEF Links!TypeOK, Links!settings
<1>6. \A r \in Offers.Requests : \A i \in asking'[r].hidden : Links!Replaced(i)'
  BY <1>1, ReplacedSame DEF Links!settings, Links!SubscriptionInv, Links!StillHidden
<1>7. \A r \in Offers.Requests : asking'[r].shut =>
         (subscriber'.hwid => subscriber.hwid)
           /\ (Links!Shut(asking[r].device) => ShutNext(asking[r].device))
  BY <1>1
<1>8. excused' \/ (~excused /\ subscriber'.max = subscriber.max)
  OBVIOUS
<1>9. QED
  BY <1>1, <1>5, <1>6, <1>7, <1>8, SubEdited

\* The rows of the table, one by one.
LEMMA DevicesAre ==
  ASSUME Links!SubscriptionInv
  PROVE  /\ asking \in [Offers.Requests -> Links!Asked] /\ Links!RowsOK
         /\ \A k \in DOMAIN table : table[k] \in DeviceRows
            /\ (table[k].device = Offers.NoDevice => ~table[k].blocked)
<1>1. table \in Seq(DeviceRows)
        /\ \A k \in DOMAIN table : table[k].device = Offers.NoDevice => ~table[k].blocked
  BY DEF Links!SubscriptionInv, Links!RowsOK, DeviceRows, Links!Ids
<1>2. \A k \in DOMAIN table : table[k] \in DeviceRows
  BY <1>1
<1>3. QED
  BY <1>1, <1>2 DEF Links!SubscriptionInv

\* What some rows are overwritten with: devices, which stay blocked unless requests
\* forget about them; and none of them more active than before.
Overwrites(ks, rows, forgotten) ==
  \A k \in ks :
    /\ rows[k] \in DeviceRows /\ (rows[k].device = Offers.NoDevice => ~rows[k].blocked)
    /\ table[k].blocked =>
         table[k].device \in forgotten \/ (rows[k].blocked
           /\ rows[k].device = table[k].device)
LetsNobodyIn(ks, rows) ==
  \A k \in ks : rows[k].active /\ ~rows[k].blocked => table[k].active /\ ~table[k].blocked

\* Some rows are overwritten, each by one that is no more active.
LEMMA SubRows ==
  ASSUME Links!SubscriptionInv, Links!DevicesAssumption,
         NEW ks \in SUBSET DOMAIN table, NEW rows,
         table' = [k \in DOMAIN table |-> IF k \in ks THEN rows[k] ELSE table[k]],
         UNCHANGED <<subscriber, banned, Links!settings, address>>,
           changes < Offers.MaxEdits, changes' = changes + 1,
         NEW forgotten \in SUBSET (Offers.Devices \cup {Offers.NoDevice}),
           asking' = Forgetting(forgotten),
         Overwrites(ks, rows, forgotten), excused' \/ (~excused /\ LetsNobodyIn(ks, rows))
  PROVE  Links!SubscriptionInv'
<1>0. Links!RowsOK /\ (\A k \in DOMAIN table : table[k] \in DeviceRows
        /\ (table[k].device = Offers.NoDevice => ~table[k].blocked))
  BY DevicesAre
<1>1. /\ DOMAIN table' = DOMAIN table
      /\ \A k \in DOMAIN table : table'[k] = IF k \in ks THEN rows[k] ELSE table[k]
      /\ table' = [k \in DOMAIN table |-> table'[k]]
  OBVIOUS
<1>2. \A k \in DOMAIN table : table'[k] \in DeviceRows
        /\ (table'[k].device = Offers.NoDevice => ~table'[k].blocked)
  BY <1>0, <1>1 DEF Overwrites
<1>3. Links!RowsOK' /\ Len(table') = Len(table)
  BY <1>0, <1>1, <1>2, DevicesEdited
<1>4. Links!DevicesWithinLimit'
  <2>1. CASE excused'
    BY <2>1 DEF Links!DevicesWithinLimit
  <2>2. CASE ~excused'
    <3>1. \A k \in DOMAIN table' : table'[k].active /\ ~table'[k].blocked =>
            k \in DOMAIN table /\ table[k].active /\ ~table[k].blocked
      BY <1>1, <2>2 DEF LetsNobodyIn
    <3>2. QED
      BY <2>2, <3>1, FewerActive
  <2>3. QED
    BY <2>1, <2>2
<1>5. \A d \in (Offers.Devices \cup {Offers.NoDevice}) \ forgotten : Links!Shut(d) =>
        ShutNext(d)
  BY <1>1 DEF Links!Shut, ShutNext, Links!RowsOf, Links!Ids, Overwrites
<1>6. QED
  BY <1>3, <1>4, <1>5, SubDevices

\* A device is blocked or let in.
LEMMA SubSetHWIDBlocked ==
  ASSUME Links!SubscriptionInv, Links!DevicesAssumption, NEW k \in Links!Ids,
         Links!SetHWIDBlocked(k)
  PROVE  Links!SubscriptionInv'
<1>0. /\ asking \in [Offers.Requests -> Links!Asked] /\ k \in DOMAIN table
         /\ table[k] \in DeviceRows
  BY DevicesAre DEF Links!Ids
<1>1. PICK gone : gone = [table[k] EXCEPT !.blocked = ~table[k].blocked]
  OBVIOUS
<1>2. PICK ks, rows : ks = {k} /\ rows = [j \in {k} |-> gone]
  OBVIOUS
<1>3. /\ gone \in DeviceRows /\ gone.device = table[k].device
         /\ gone.active = table[k].active
      /\ gone.blocked = ~table[k].blocked
  BY <1>0, <1>1 DEF DeviceRows
<1>4. /\ table' = [table EXCEPT ![k] = gone] /\ table[k].device # Offers.NoDevice
      /\ UNCHANGED <<subscriber, banned, Links!settings, address>>
         /\ changes < Offers.MaxEdits /\ changes' = changes + 1
      /\ excused' = (excused \/ table[k].blocked)
      /\ asking' = IF table[k].blocked THEN Links!Forget(table[k].device) ELSE asking
  BY <1>0, <1>1 DEF Links!SetHWIDBlocked, Links!Edit
<1>5. table' = [j \in DOMAIN table |-> IF j \in ks THEN rows[j] ELSE table[j]]
  BY <1>2, <1>4
<1>6. PICK forgotten : forgotten = IF table[k].blocked THEN {table[k].device} ELSE {}
  OBVIOUS
<1>7. asking' = Forgetting(forgotten)
  <2>1. CASE table[k].blocked
    BY <1>4, <1>6, <2>1 DEF Forgetting, Links!Forget
  <2>2. CASE ~table[k].blocked
    <3>1. asking' = [r \in Offers.Requests |-> asking[r]]
      BY <1>0, <1>4, <2>2
    <3>2. QED
      BY <1>6, <2>2, <3>1 DEF Forgetting
  <2>3. QED
    BY <2>1, <2>2
<1>8. forgotten \in SUBSET (Offers.Devices \cup {Offers.NoDevice})
  BY <1>0, <1>6 DEF DeviceRows
<1>10. ks \in SUBSET DOMAIN table /\ Overwrites(ks, rows, forgotten)
  BY <1>0, <1>2, <1>3, <1>4, <1>6 DEF Overwrites
<1>11. excused' \/ (~excused /\ ~table[k].blocked)
  BY <1>4, Zenon
<1>12. ~table[k].blocked => LetsNobodyIn(ks, rows)
  BY <1>2, <1>3 DEF LetsNobodyIn
<1>13. excused' \/ (~excused /\ LetsNobodyIn(ks, rows))
  BY <1>11, <1>12
<1>14. UNCHANGED <<subscriber, banned, Links!settings, address>>
         /\ changes < Offers.MaxEdits /\ changes' = changes + 1
  BY <1>4
<1>15. QED
  BY <1>5, <1>7, <1>8, <1>10, <1>13, <1>14, SubRows

\* A device is deactivated.
LEMMA SubDeactivateHWID ==
  ASSUME Links!SubscriptionInv, Links!DevicesAssumption, NEW k \in Links!Ids,
         Links!DeactivateHWID(k)
  PROVE  Links!SubscriptionInv'
<1>0. asking \in [Offers.Requests -> Links!Asked] /\ k \in DOMAIN table
        /\ table[k] \in DeviceRows
  BY DevicesAre DEF Links!Ids
<1>1. PICK gone : gone = [table[k] EXCEPT !.active = FALSE]
  OBVIOUS
<1>2. PICK ks, rows : ks = {k} /\ rows = [j \in {k} |-> gone]
  OBVIOUS
<1>3. /\ gone \in DeviceRows /\ gone.device = table[k].device /\ ~gone.active
      /\ gone.blocked = table[k].blocked
  BY <1>0, <1>1 DEF DeviceRows
<1>4. /\ table' = [table EXCEPT ![k] = gone] /\ table[k].device # Offers.NoDevice
      /\ UNCHANGED <<subscriber, banned, Links!settings, address>>
         /\ changes < Offers.MaxEdits /\ changes' = changes + 1
      /\ excused' = excused /\ asking' = asking
  BY <1>0, <1>1 DEF Links!DeactivateHWID, Links!Edit
<1>5. table' = [j \in DOMAIN table |-> IF j \in ks THEN rows[j] ELSE table[j]]
  BY <1>2, <1>4
<1>6. PICK forgotten : forgotten = {}
  OBVIOUS
<1>7. asking' = Forgetting(forgotten)
  <2>1. asking' = [r \in Offers.Requests |-> asking[r]]
    BY <1>0, <1>4
  <2>2. QED
    BY <1>6, <2>1 DEF Forgetting
<1>8. forgotten \in SUBSET (Offers.Devices \cup {Offers.NoDevice})
  BY <1>6
<1>10. ks \in SUBSET DOMAIN table /\ Overwrites(ks, rows, forgotten)
  BY <1>0, <1>2, <1>3, <1>4, <1>6 DEF Overwrites
<1>11. excused' \/ (~excused /\ LetsNobodyIn(ks, rows))
  BY <1>2, <1>3, <1>4 DEF LetsNobodyIn
<1>12. UNCHANGED <<subscriber, banned, Links!settings, address>>
         /\ changes < Offers.MaxEdits /\ changes' = changes + 1
  BY <1>4
<1>13. QED
  BY <1>5, <1>7, <1>8, <1>10, <1>11, <1>12, SubRows

\* A row that has been deleted counts for nobody.
LEMMA NobodysDevice ==
  ASSUME NEW gone, gone = [device |-> Offers.NoDevice, active |-> FALSE, blocked |-> FALSE]
  PROVE  gone \in DeviceRows /\ ~gone.active /\ ~gone.blocked
BY DEF DeviceRows

\* A device is deleted.
LEMMA SubRemoveHWID ==
  ASSUME Links!SubscriptionInv, Links!DevicesAssumption, NEW k \in Links!Ids,
         Links!RemoveHWID(k)
  PROVE  Links!SubscriptionInv'
<1>0. asking \in [Offers.Requests -> Links!Asked] /\ k \in DOMAIN table
        /\ table[k] \in DeviceRows
  BY DevicesAre DEF Links!Ids
<1>1. PICK gone : gone = [device |-> Offers.NoDevice, active |-> FALSE, blocked |-> FALSE]
  OBVIOUS
<1>2. PICK ks, rows : ks = {k} /\ rows = [j \in {k} |-> gone]
  OBVIOUS
<1>3. gone \in DeviceRows /\ ~gone.active /\ ~gone.blocked
  BY <1>1, NobodysDevice
<1>4. /\ table' = [table EXCEPT ![k] = gone] /\ table[k].device # Offers.NoDevice
      /\ UNCHANGED <<subscriber, banned, Links!settings, address>>
         /\ changes < Offers.MaxEdits /\ changes' = changes + 1
      /\ excused' = excused /\ asking' = Links!Forget(table[k].device)
  BY <1>1 DEF Links!RemoveHWID, Links!Edit
<1>5. table' = [j \in DOMAIN table |-> IF j \in ks THEN rows[j] ELSE table[j]]
  BY <1>0, <1>2, <1>4
<1>6. PICK forgotten : forgotten = {table[k].device}
  OBVIOUS
<1>7. asking' = Forgetting(forgotten)
  BY <1>4, <1>6 DEF Forgetting, Links!Forget
<1>8. forgotten \in SUBSET (Offers.Devices \cup {Offers.NoDevice})
  BY <1>0, <1>6 DEF DeviceRows
<1>10. ks \in SUBSET DOMAIN table /\ Overwrites(ks, rows, forgotten)
  BY <1>0, <1>2, <1>3, <1>4, <1>6 DEF Overwrites
<1>11. excused' \/ (~excused /\ LetsNobodyIn(ks, rows))
  BY <1>2, <1>3, <1>4 DEF LetsNobodyIn
<1>12. UNCHANGED <<subscriber, banned, Links!settings, address>>
         /\ changes < Offers.MaxEdits /\ changes' = changes + 1
  BY <1>4
<1>13. QED
  BY <1>5, <1>7, <1>8, <1>10, <1>11, <1>12, SubRows

\* All devices are deleted.
LEMMA SubClearHWIDs ==
  ASSUME Links!SubscriptionInv, Links!DevicesAssumption, Links!ClearHWIDs
  PROVE  Links!SubscriptionInv'
<1>0. asking \in [Offers.Requests -> Links!Asked]
        /\ (\A k \in DOMAIN table : table[k] \in DeviceRows)
  BY DevicesAre
<1>1. PICK gone : gone = [device |-> Offers.NoDevice, active |-> FALSE, blocked |-> FALSE]
  OBVIOUS
<1>2. PICK ks, rows : ks = DOMAIN table /\ rows = [j \in ks |-> gone]
  OBVIOUS
<1>3. gone \in DeviceRows /\ ~gone.active /\ ~gone.blocked
  BY <1>1, NobodysDevice
<1>4. /\ table' = [k \in DOMAIN table |-> gone]
      /\ UNCHANGED <<subscriber, banned, Links!settings, address>>
         /\ changes < Offers.MaxEdits /\ changes' = changes + 1
      /\ excused' = excused
         /\ asking' = [r \in Offers.Requests |-> [asking[r] EXCEPT !.shut = FALSE]]
  BY <1>1 DEF Links!ClearHWIDs, Links!Edit, Links!Ids
<1>5. table' = [j \in DOMAIN table |-> IF j \in ks THEN rows[j] ELSE table[j]]
  BY <1>2, <1>4
<1>6. PICK forgotten : forgotten = Offers.Devices \cup {Offers.NoDevice}
  OBVIOUS
<1>7. asking' = Forgetting(forgotten)
  <2>1. \A r \in Offers.Requests : asking[r].device \in forgotten
    BY <1>0, <1>6 DEF Links!Asked
  <2>2. QED
    BY <1>4, <2>1 DEF Forgetting
<1>8. forgotten \in SUBSET (Offers.Devices \cup {Offers.NoDevice})
  BY <1>6
<1>9. ks \in SUBSET DOMAIN table /\ (\A k \in ks : table[k].device \in forgotten)
  BY <1>0, <1>2, <1>6 DEF DeviceRows
<1>10. Overwrites(ks, rows, forgotten)
  BY <1>2, <1>3, <1>9 DEF Overwrites
<1>11. excused' \/ (~excused /\ LetsNobodyIn(ks, rows))
  BY <1>2, <1>3, <1>4 DEF LetsNobodyIn
<1>12. UNCHANGED <<subscriber, banned, Links!settings, address>>
         /\ changes < Offers.MaxEdits /\ changes' = changes + 1
  BY <1>4
<1>13. QED
  BY <1>5, <1>7, <1>8, <1>9, <1>10, <1>11, <1>12, SubRows

\* Nothing that a request looks at changes.
LEMMA SubAside ==
  ASSUME Links!SubscriptionInv, Links!DevicesAssumption, Links!TypeOK',
         UNCHANGED <<subscriber, table, excused>>,
         NEW hidden, \A r \in Offers.Requests : hidden[r] \in SUBSET asking[r].hidden,
         \A r \in Offers.Requests : \A i \in hidden[r] : Links!Replaced(i)',
         asking' = [r \in Offers.Requests |-> [asking[r] EXCEPT !.hidden = hidden[r]]]
  PROVE  Links!SubscriptionInv'
<1>0. asking \in [Offers.Requests -> Links!Asked] /\ Links!RowsOK
        /\ Links!DevicesWithinLimit
  BY DEF Links!SubscriptionInv
<1>1. ASSUME NEW r \in Offers.Requests
      PROVE  /\ asking'[r] \in Links!Asked /\ Milder(asking'[r], asking[r])
             /\ (asking'[r].shut => asking[r].shut) /\ asking'[r].hidden = hidden[r]
  <2>1. PICK q, S : q = asking[r] /\ q \in Links!Asked /\ S = hidden[r]
               /\ S \in SUBSET q.hidden
    BY <1>0
  <2>2. PICK p : p = [q EXCEPT !.hidden = S]
    OBVIOUS
  <2>3. asking'[r] = p
    BY <2>1, <2>2
  <2>4. p \in Links!Asked /\ Milder(p, q) /\ (p.shut => q.shut) /\ p.hidden = S
    BY <2>1, <2>2 DEF Links!Asked, Milder
  <2>5. QED
    BY <2>1, <2>3, <2>4
<1>2. asking' \in [Offers.Requests -> Links!Asked]
  <2>1. asking' = [r \in Offers.Requests |-> asking'[r]]
    OBVIOUS
  <2>2. QED
    BY <1>1, <2>1
<1>3. Links!RowsOK' /\ Links!DevicesWithinLimit'
  BY <1>0 DEF Links!RowsOK, Links!DevicesWithinLimit, Links!Ids, Links!Active
<1>4. \A r \in Offers.Requests : asking'[r].shut =>
         (subscriber'.hwid => subscriber.hwid)
           /\ (Links!Shut(asking[r].device) => ShutNext(asking[r].device))
  BY ShutSame
<1>5. \A r \in Offers.Requests : \A i \in asking'[r].hidden : Links!Replaced(i)'
  BY <1>1
<1>6. CASE excused
  <2>1. excused'
    BY <1>6
  <2>2. QED
    BY <1>1, <1>2, <1>3, <1>4, <1>5, <2>1, SubEdited
<1>7. CASE ~excused
  <2>1. ~excused /\ subscriber'.max = subscriber.max
    BY <1>7
  <2>2. QED
    BY <1>1, <1>2, <1>3, <1>4, <1>5, <2>1, SubEdited
<1>8. QED
  BY <1>6, <1>7

\* The requests do not change.
LEMMA AskingStays ==
  ASSUME Links!SubscriptionInv, Links!DevicesAssumption, Links!TypeOK',
         UNCHANGED <<subscriber, table, assigned, enabled, asking, excused>>
  PROVE  Links!SubscriptionInv'
<1>0. asking \in [Offers.Requests -> Links!Asked]
  BY DEF Links!SubscriptionInv
<1>1. PICK hidden : hidden = [r \in Offers.Requests |-> asking[r].hidden]
  OBVIOUS
<1>2. \A r \in Offers.Requests : hidden[r] \in SUBSET asking[r].hidden
  BY <1>1
<1>3. \A r \in Offers.Requests : \A i \in hidden[r] : Links!Replaced(i)'
  BY <1>1, ReplacedSame DEF Links!SubscriptionInv, Links!StillHidden
<1>4. ASSUME NEW r \in Offers.Requests PROVE [asking[r] EXCEPT !.hidden = hidden[r]] = asking[r]
  <2>1. PICK q : q = asking[r] /\ q \in Links!Asked
    BY <1>0
  <2>2. [q EXCEPT !.hidden = q.hidden] = q
    BY <2>1 DEF Links!Asked
  <2>3. QED
    BY <1>1, <2>1, <2>2
<1>5. asking' = [r \in Offers.Requests |-> [asking[r] EXCEPT !.hidden = hidden[r]]]
  <2>1. asking' = [r \in Offers.Requests |-> asking[r]]
    BY <1>0
  <2>2. QED
    BY <1>4, <2>1
<1>6. QED
  BY <1>2, <1>3, <1>5, SubAside

\* An address is blocked or let in.
LEMMA SubSession ==
  ASSUME Links!SubscriptionInv, Links!DevicesAssumption, NEW r \in Offers.Requests,
         Links!SetSessionIPBlocked(r)
  PROVE  Links!SubscriptionInv'
<1>0. Links!TypeOK
  BY DEF Links!SubscriptionInv
<1>1. /\ UNCHANGED <<subscriber, table, Links!settings, address, asking, excused>>
      /\ changes < Offers.MaxEdits /\ changes' = changes + 1
         /\ banned' = Links!Toggle(banned, r)
  BY DEF Links!SetSessionIPBlocked, Links!Edit
<1>2. changes' \in 0 .. Offers.MaxEdits
  BY <1>0, <1>1, OneEditMore
<1>3. Links!TypeOK'
  BY <1>0, <1>1, <1>2 DEF Links!TypeOK, Links!settings, Links!Toggle
<1>4. QED
  BY <1>1, <1>3, AskingStays DEF Links!settings

\* A host is edited.
LEMMA SubEditHost ==
  ASSUME Links!SubscriptionInv, Links!DevicesAssumption, NEW h \in Offers.Hosts,
         Links!EditHost(h)
  PROVE  Links!SubscriptionInv'
<1>0. Links!TypeOK /\ asking \in [Offers.Requests -> Links!Asked]
  BY DEF Links!SubscriptionInv
<1>1. /\ UNCHANGED <<subscriber, table, banned, multi, published, proxies, listening,
         address, excused>>
      /\ changes < Offers.MaxEdits /\ changes' = changes + 1
      /\ \/ enabled' = Links!Toggle(enabled, h) /\ assigned' = assigned
         \/ \E i \in Offers.Inbounds : assigned' = Links!Toggle(assigned, <<i, h>>)
            /\ enabled' = enabled
      /\ asking' = [r \in Offers.Requests |-> [asking[r] EXCEPT !.hidden = {i \in @ :
         Links!Replaced(i)'}]]
  BY DEF Links!EditHost, Links!Edit
<1>2. changes' \in 0 .. Offers.MaxEdits
  BY <1>0, <1>1, OneEditMore
<1>3. PICK hidden : hidden = [r \in Offers.Requests |-> {i \in asking[r].hidden :
             Links!Replaced(i)'}]
  OBVIOUS
<1>4. asking' = [r \in Offers.Requests |-> [asking[r] EXCEPT !.hidden = hidden[r]]]
  BY <1>0, <1>1, <1>3
<1>5. /\ \A r \in Offers.Requests : hidden[r] \in SUBSET asking[r].hidden
      /\ \A r \in Offers.Requests : \A i \in hidden[r] : Links!Replaced(i)'
  BY <1>3
<1>6. enabled' \subseteq Offers.Hosts /\ assigned' \subseteq Offers.Inbounds \X Offers.Hosts
  <2>1. enabled \subseteq Offers.Hosts /\ assigned \subseteq Offers.Inbounds \X Offers.Hosts
    BY <1>0 DEF Links!TypeOK
  <2>2. ASSUME NEW i \in Offers.Inbounds, assigned' = Links!Toggle(assigned, <<i, h>>)
        PROVE  assigned' \subseteq Offers.Inbounds \X Offers.Hosts
    <3>1. <<i, h>> \in Offers.Inbounds \X Offers.Hosts
      OBVIOUS
    <3>2. QED
      BY <2>1, <2>2, <3>1 DEF Links!Toggle
  <2>3. enabled' = Links!Toggle(enabled, h) => enabled' \subseteq Offers.Hosts
    BY <2>1 DEF Links!Toggle
  <2>4. QED
    BY <1>1, <2>1, <2>2, <2>3
<1>7. \A r \in Offers.Requests : asking'[r].todo \subseteq Offers.Inbounds
  BY <1>0, <1>4 DEF Links!Asked
<1>8. Links!TypeOK'
  BY <1>0, <1>1, <1>2, <1>6, <1>7 DEF Links!TypeOK
<1>9. UNCHANGED <<subscriber, table, excused>>
  BY <1>1
<1>10. QED
  BY <1>4, <1>5, <1>8, <1>9, SubAside

\* An inbound is edited.
LEMMA SubEditInbound ==
  ASSUME Links!SubscriptionInv, Links!DevicesAssumption, NEW i \in Offers.Inbounds,
         Links!EditInbound(i)
  PROVE  Links!SubscriptionInv'
<1>0. Links!TypeOK
  BY DEF Links!SubscriptionInv
<1>1. /\ UNCHANGED <<subscriber, table, banned, multi, assigned, enabled, address, asking,
         excused>>
      /\ changes < Offers.MaxEdits /\ changes' = changes + 1
      /\ \/ proxies' = Links!Toggle(proxies, i) /\ UNCHANGED <<listening, published>>
         \/ listening' = Links!Toggle(listening, i) /\ UNCHANGED <<proxies, published>>
         \/ \E n \in Offers.Nodes :
            published' = [published EXCEPT ![i] = Links!Toggle(@, n)]
                             /\ UNCHANGED <<proxies, listening>>
  BY DEF Links!EditInbound, Links!Edit
<1>2. changes' \in 0 .. Offers.MaxEdits
  BY <1>0, <1>1, OneEditMore
<1>3. /\ published' \in [Offers.Inbounds -> SUBSET Offers.Nodes]
      /\ proxies' \cup listening' \subseteq Offers.Inbounds
  <2>1. published \in [Offers.Inbounds -> SUBSET Offers.Nodes]
          /\ proxies \cup listening \subseteq Offers.Inbounds
    BY <1>0 DEF Links!TypeOK
  <2>2. Links!Toggle(proxies, i) \subseteq Offers.Inbounds
          /\ Links!Toggle(listening, i) \subseteq Offers.Inbounds
    BY <2>1 DEF Links!Toggle
  <2>3. \A n \in Offers.Nodes : Links!Toggle(published[i], n) \in SUBSET Offers.Nodes
    BY <2>1 DEF Links!Toggle
  <2>4. CASE \E n \in Offers.Nodes :
               published' = [published EXCEPT ![i] = Links!Toggle(@, n)]
                             /\ UNCHANGED <<proxies, listening>>
    BY <2>1, <2>3, <2>4
  <2>5. QED
    BY <1>1, <2>1, <2>2, <2>4
<1>4. Links!TypeOK'
  BY <1>0, <1>1, <1>2, <1>3 DEF Links!TypeOK
<1>5. QED
  BY <1>1, <1>4, AskingStays

\* A device more.
LEMMA OneDeviceMore ==
  ASSUME Links!SubscriptionInv, NEW d \in Offers.Devices,
         table' = Append(table, Links!Row(d))
  PROVE  /\ Links!RowsOK' /\ Len(table') = Len(table) + 1
         /\ \A k \in DOMAIN table : k \in DOMAIN table' /\ table'[k] = table[k]
         /\ \A e \in Offers.Devices \cup {Offers.NoDevice} : Links!Shut(e) => ShutNext(e)
         /\ Links!Cardinality(Links!Active') = Links!Cardinality(Links!Active) + 1
<1>0. Links!RowsOK /\ table \in Seq(DeviceRows) /\ Len(table) \in Nat
        /\ DOMAIN table = 1 .. Len(table)
  BY DEF Links!SubscriptionInv, Links!RowsOK, DeviceRows
<1>1. PICK gone : gone = Links!Row(d)
  OBVIOUS
<1>2. gone \in DeviceRows /\ gone.active /\ ~gone.blocked
  BY <1>1 DEF Links!Row, DeviceRows
<1>3. /\ table' \in Seq(DeviceRows) /\ Len(table') = Len(table) + 1
      /\ DOMAIN table' = 1 .. (Len(table) + 1)
      /\ \A k \in 1 .. Len(table) : table'[k] = table[k]
      /\ table'[Len(table) + 1] = gone
  BY <1>0, <1>1, <1>2
<1>4. \A k \in DOMAIN table : k \in DOMAIN table' /\ table'[k] = table[k]
  BY <1>0, <1>3
<1>5. \A k \in DOMAIN table' : table'[k].device = Offers.NoDevice => ~table'[k].blocked
  <2>1. ASSUME NEW k \in DOMAIN table' PROVE table'[k].device = Offers.NoDevice =>
               ~table'[k].blocked
    <3>1. CASE k = Len(table) + 1
      BY <1>2, <1>3, <3>1
    <3>2. CASE k \in DOMAIN table
      BY <1>4, <3>2, DevicesAre
    <3>3. QED
      BY <1>0, <1>3, <3>1, <3>2
  <2>2. QED
    BY <2>1
<1>6. Links!RowsOK'
  BY <1>3, <1>5 DEF Links!RowsOK, DeviceRows, Links!Ids
<1>7. \A e \in Offers.Devices \cup {Offers.NoDevice} : Links!Shut(e) => ShutNext(e)
  BY <1>4 DEF Links!Shut, ShutNext, Links!RowsOf, Links!Ids
<1>8. Links!Cardinality(Links!Active') = Links!Cardinality(Links!Active) + 1
  <2>1. PICK A, B, n : /\ A = Links!Active /\ n = Len(table) + 1
                       /\ B = {k \in DOMAIN table' : table'[k].active /\ ~table'[k].blocked}
    OBVIOUS
  <2>2. A \subseteq 1 .. Len(table) /\ IsFiniteSet(A)
    BY <1>0, <2>1, ActiveCounts
  <2>3. B = A \cup {n}
    <3>1. n \in B
      BY <1>0, <1>2, <1>3, <2>1
    <3>2. \A k \in 1 .. Len(table) : k \in A <=> k \in B
      BY <1>0, <1>4, <2>1 DEF Links!Active, Links!Ids
    <3>3. B \subseteq (1 .. Len(table)) \cup {n}
      BY <1>0, <1>3, <2>1
    <3>4. QED
      BY <2>2, <3>1, <3>2, <3>3
  <2>4. n \notin A
    BY <1>0, <2>1, <2>2
  <2>5. Links!Cardinality(B) = Links!Cardinality(A) + 1
    BY <2>2, <2>3, <2>4, FS_AddElement, CountedAlike
  <2>6. QED
    BY <2>1, <2>5 DEF Links!Active, Links!Ids
<1>9. QED
  BY <1>3, <1>4, <1>6, <1>7, <1>8

\* A request inserts its device, or fails to.
LEMMA SubInsert ==
  ASSUME Links!SubscriptionInv, Links!DevicesAssumption, NEW r \in Offers.Requests,
         Links!Insert(r)
  PROVE  Links!SubscriptionInv'
<1>0. /\ Links!TypeOK /\ Links!RowsOK /\ asking \in [Offers.Requests -> Links!Asked]
         /\ Links!DevicesWithinLimit
      /\ asking[r] \in Links!Asked /\ Links!GateHolds(asking[r])
         /\ Links!RoomFound(asking[r])
  BY DEF Links!SubscriptionInv
<1>1. /\ asking[r].pc = "insert" /\ asking' = [asking EXCEPT ![r].pc = "links"]
      /\ UNCHANGED <<subscriber, banned, Links!settings, address, changes>>
      /\ \/ /\ Len(table) < Offers.MaxRows
            /\ table' = Append(table, Links!Row(asking[r].device))
            /\ excused' = (excused \/ Links!Cardinality(Links!Active) # asking[r].count)
         \/ UNCHANGED <<table, excused>>
  BY DEF Links!Insert, Links!Answer
<1>2. /\ asking' \in [Offers.Requests -> Links!Asked]
      /\ \A s \in Offers.Requests :
           /\ Milder(asking'[s], asking[s]) /\ asking'[s].hidden = asking[s].hidden
           /\ asking'[s].todo \subseteq Offers.Inbounds /\ asking'[s].shut = asking[s].shut
           /\ asking[s].device \in Offers.Devices \cup {Offers.NoDevice}
  <2>1. PICK p : p = [asking[r] EXCEPT !.pc = "links"]
    OBVIOUS
  <2>2. asking' = [asking EXCEPT ![r] = p]
    BY <1>0, <1>1, <2>1
  <2>3. /\ p \in Links!Asked /\ Milder(p, asking[r]) /\ p.hidden = asking[r].hidden
           /\ p.shut = asking[r].shut
    BY <1>0, <1>1, <2>1 DEF Links!Asked, Milder
  <2>4. asking' \in [Offers.Requests -> Links!Asked]
    BY <1>0, <2>2, <2>3
  <2>5. \A s \in Offers.Requests : Milder(asking'[s], asking[s])
          /\ asking'[s].hidden = asking[s].hidden
                            /\ asking'[s].shut = asking[s].shut
    BY <1>0, <2>2, <2>3, MilderSelf
  <2>6. \A s \in Offers.Requests : asking'[s].todo \subseteq Offers.Inbounds
          /\ asking[s].device \in Offers.Devices \cup {Offers.NoDevice}
    BY <1>0, <2>4 DEF Links!Asked
  <2>7. QED
    BY <2>4, <2>5, <2>6
<1>3. asking[r].device \in Offers.Devices
  BY <1>0, <1>1, <1>2 DEF Links!GateHolds
<1>4. \A s \in Offers.Requests : \A i \in asking'[s].hidden : Links!Replaced(i)'
  BY <1>1, <1>2, ReplacedSame DEF Links!settings, Links!SubscriptionInv, Links!StillHidden
<1>5. subscriber.max \in Nat /\ Links!Cardinality(Links!Active) \in Nat
        /\ asking[r].count \in Nat /\ Offers.MaxRows \in Nat
      /\ Len(table) \in Nat
  <2>1. subscriber.max \in Nat /\ Offers.MaxRows \in Nat
    BY <1>0 DEF Links!TypeOK, Links!DevicesAssumption
  <2>2. Len(table) \in Nat
    BY <1>0 DEF Links!RowsOK
  <2>3. asking[r].count \in Nat
    BY <1>0 DEF Links!Asked
  <2>4. QED
    BY <1>0, <2>1, <2>2, <2>3, ActiveCounts
<1>6. CASE UNCHANGED <<table, excused>>
  <2>1. Links!TypeOK'
    BY <1>0, <1>1, <1>2, <1>6 DEF Links!TypeOK, Links!settings
  <2>2. Links!RowsOK' /\ Links!DevicesWithinLimit'
    BY <1>0, <1>1, <1>6 DEF Links!RowsOK, Links!DevicesWithinLimit, Links!Ids, Links!Active
  <2>3. \A s \in Offers.Requests : Links!Shut(asking[s].device) =>
          ShutNext(asking[s].device)
    BY <1>6, ShutSame
  <2>4. subscriber'.max = subscriber.max /\ subscriber'.hwid = subscriber.hwid
    BY <1>1
  <2>5. excused' \/ ~excused
    BY <1>6
  <2>6. QED
    BY <1>2, <1>4, <2>1, <2>2, <2>3, <2>4, <2>5, SubEdited
<1>7. CASE /\ Len(table) < Offers.MaxRows
           /\ table' = Append(table, Links!Row(asking[r].device))
           /\ excused' = (excused \/ Links!Cardinality(Links!Active) # asking[r].count)
  <2>1. /\ Links!RowsOK' /\ Len(table') = Len(table) + 1
        /\ \A e \in Offers.Devices \cup {Offers.NoDevice} : Links!Shut(e) => ShutNext(e)
        /\ Links!Cardinality(Links!Active') = Links!Cardinality(Links!Active) + 1
    BY <1>3, <1>7, OneDeviceMore
  <2>2. Len(table') <= Offers.MaxRows
    BY <1>5, <1>7, <2>1
  <2>3. Links!TypeOK'
    BY <1>0, <1>1, <1>2, <2>2 DEF Links!TypeOK, Links!settings
  <2>4. excused' \/ (~excused /\ Links!Cardinality(Links!Active) = asking[r].count)
    BY <1>7, Zenon
  <2>5. Links!DevicesWithinLimit'
    <3>1. CASE excused'
      BY <3>1 DEF Links!DevicesWithinLimit
    <3>2. CASE ~excused /\ Links!Cardinality(Links!Active) = asking[r].count
      <4>1. subscriber.max > 0 => asking[r].count < subscriber.max
        BY <1>0, <1>1, <3>2 DEF Links!RoomFound
      <4>2. subscriber.max > 0 => Links!Cardinality(Links!Active') <= subscriber.max
        BY <1>5, <2>1, <3>2, <4>1
      <4>3. QED
        BY <1>1, <4>2 DEF Links!DevicesWithinLimit
    <3>3. QED
      BY <2>4, <3>1, <3>2
  <2>6. \A s \in Offers.Requests : Links!Shut(asking[s].device) =>
          ShutNext(asking[s].device)
    BY <1>2, <2>1
  <2>7. subscriber'.max = subscriber.max /\ subscriber'.hwid = subscriber.hwid
    BY <1>1
  <2>8. QED
    BY <1>2, <1>4, <2>1, <2>3, <2>4, <2>5, <2>6, <2>7, SubEdited
<1>8. QED
  BY <1>1, <1>6, <1>7

\* SubscriptionInv holds at the start.
LEMMA SubInit ==
  ASSUME Links!Init, Links!DevicesAssumption
  PROVE  Links!SubscriptionInv
<1>1. /\ table = <<>> /\ excused = FALSE /\ changes = 0 /\ address = "" /\ banned = {}
      /\ asking = [r \in Offers.Requests |-> Links!NoRequest]
      /\ subscriber = [enable |-> TRUE, over |-> FALSE, hwid |-> TRUE,
                   max |-> CHOOSE m \in Offers.MaxDevices : \A n \in Offers.MaxDevices :
                     n <= m]
      /\ published \in [Offers.Inbounds -> SUBSET Offers.Nodes]
         /\ assigned = Offers.Inbounds \X Offers.Hosts
      /\ enabled = Offers.Hosts /\ proxies = {} /\ listening = {}
  BY DEF Links!Init
<1>2. \E m \in Offers.MaxDevices : \A n \in Offers.MaxDevices : n <= m
  BY DEF Links!DevicesAssumption
<1>3. subscriber.max \in Offers.MaxDevices
  BY <1>1, <1>2, Zenon
<1>4. subscriber \in [enable : BOOLEAN, over : BOOLEAN, hwid : BOOLEAN, max :
        Offers.MaxDevices]
  BY <1>1, <1>3
<1>5. Len(table) = 0 /\ DOMAIN table = {} /\ table \in Seq(DeviceRows)
  <2>1. table = <<>>
    BY <1>1
  <2>2. table \in Seq(DeviceRows) /\ Len(table) = 0
    BY <2>1
  <2>3. DOMAIN table = 1 .. Len(table)
    BY <2>2
  <2>4. QED
    BY <2>2, <2>3
<1>6. Links!RowsOK
  BY <1>5 DEF Links!RowsOK, DeviceRows, Links!Ids
<1>7. asking \in [Offers.Requests -> Links!Asked]
        /\ \A r \in Offers.Requests : asking[r] = Links!NoRequest
  BY <1>1, NobodyAsks
<1>8. \A r \in Offers.Requests : asking[r].todo \subseteq Offers.Inbounds
  BY <1>7 DEF Links!Asked
<1>9. Offers.MaxRows \in Nat /\ Offers.MaxEdits \in Nat
  BY DEF Links!DevicesAssumption
<1>10. Links!TypeOK
  <2>1. Len(table) <= Offers.MaxRows /\ changes \in 0 .. Offers.MaxEdits
    <3>1. Len(table) = 0 /\ changes = 0
      BY <1>1, <1>5
    <3>2. QED
      BY <1>9, <3>1
  <2>2. /\ assigned \subseteq Offers.Inbounds \X Offers.Hosts
           /\ enabled \subseteq Offers.Hosts
        /\ proxies \cup listening \subseteq Offers.Inbounds
        /\ address \in Offers.Names \cup {""} /\ banned \subseteq Offers.Requests
    BY <1>1
  <2>3. published \in [Offers.Inbounds -> SUBSET Offers.Nodes]
    BY <1>1
  <2>4. QED
    BY <1>4, <1>8, <2>1, <2>2, <2>3 DEF Links!TypeOK
<1>11. Links!DevicesWithinLimit
  <2>1. Links!Active = {}
    BY <1>5 DEF Links!Active, Links!Ids
  <2>2. Links!Cardinality(Links!Active) = 0
    BY <2>1, FS_EmptySet, CountedAlike
  <2>3. subscriber.max \in Nat
    BY <1>3 DEF Links!DevicesAssumption
  <2>4. QED
    BY <2>2, <2>3 DEF Links!DevicesWithinLimit
<1>12. QED
  BY <1>6, <1>7, <1>10, <1>11, NobodyAsks DEF Links!SubscriptionInv

\* Every step keeps it.
LEMMA SubNext ==
  ASSUME Links!SubscriptionInv, Links!DevicesAssumption, [Links!Next]_Links!vars
  PROVE  Links!SubscriptionInv'
<1>1. CASE UNCHANGED Links!vars
  <2>1. /\ UNCHANGED <<subscriber, table, assigned, enabled, asking, excused>>
    BY <1>1 DEF Links!vars
  <2>2. Links!TypeOK'
    BY <1>1 DEF Links!vars, Links!SubscriptionInv, Links!TypeOK
  <2>3. QED
    BY <2>1, <2>2, AskingStays
<1>2. ASSUME NEW r \in Offers.Requests, Links!Serves(r) PROVE Links!SubscriptionInv'
  <2>1. ASSUME NEW i \in Offers.Inbounds, Links!Link(r, i) PROVE Links!SubscriptionInv'
    BY <2>1, SubLink
  <2>2. ASSUME NEW way \in Links!Ways, NEW h \in Offers.Names,
               NEW d \in Offers.Devices \cup {Offers.NoDevice},
               Links!GetSubs(r, way, h, d)
        PROVE  Links!SubscriptionInv'
    BY <2>2, SubGetSubs
  <2>3. QED
    BY <1>2, <2>1, <2>2, SubLookUp, SubInsert, SubDone DEF Links!Serves
<1>3. CASE Links!EditClient
  BY <1>3, SubEditClient
<1>4. CASE Links!ClearHWIDs
  BY <1>4, SubClearHWIDs
<1>5. ASSUME NEW r \in Offers.Requests,
             Links!SetSessionIPBlocked(r) PROVE Links!SubscriptionInv'
  BY <1>5, SubSession
<1>6. ASSUME NEW k \in Links!Ids,
             Links!SetHWIDBlocked(k) \/ Links!DeactivateHWID(k) \/ Links!RemoveHWID(k)
      PROVE  Links!SubscriptionInv'
  BY <1>6, SubSetHWIDBlocked, SubDeactivateHWID, SubRemoveHWID
<1>7. ASSUME NEW h \in Offers.Hosts, Links!EditHost(h) PROVE Links!SubscriptionInv'
  BY <1>7, SubEditHost
<1>8. ASSUME NEW i \in Offers.Inbounds, Links!EditInbound(i) PROVE Links!SubscriptionInv'
  BY <1>8, SubEditInbound
<1>9. QED
  BY <1>1, <1>2, <1>3, <1>4, <1>5, <1>6, <1>7, <1>8 DEF Links!Next

\* It says who gets links, and what a host hides.
LEMMA SubSays ==
  ASSUME Links!SubscriptionInv
  PROVE  Links!TypeOK /\ Links!DevicesWithinLimit /\ Links!BlockedStaysOut
           /\ Links!HostHidesOrigin
<1>1. Links!TypeOK /\ Links!DevicesWithinLimit
  BY DEF Links!SubscriptionInv
<1>2. Links!BlockedStaysOut
  BY DEF Links!SubscriptionInv, Links!GateHolds, Links!BlockedStaysOut
<1>3. Links!HostHidesOrigin
  BY DEF Links!SubscriptionInv, Links!StillHidden, Links!HostHidesOrigin
<1>4. QED
  BY <1>1, <1>2, <1>3

\* SubscriptionInv holds for ever, for any requests, devices, inbounds, nodes,
\* hosts and edits.
THEOREM SubscriptionInvariant ==
  ASSUME Links!DevicesAssumption
  PROVE  Links!Spec => []Links!SubscriptionInv
<1>1. Links!Init => Links!SubscriptionInv
  BY SubInit
<1>2. Links!SubscriptionInv /\ [Links!Next]_Links!vars => Links!SubscriptionInv'
  BY SubNext
<1>3. QED
  BY <1>1, <1>2, PTL DEF Links!Spec

-----------------------------------------------------------------------------
(* The words of a subscription (ShareLinks), for any protocols, transports,*)
(* overrides and number of proxies.  The next configuration starts from    *)
(* what the last has left (LinksInv); a generator's links are told by how  *)
(* many there are, the security of each, and that those without TLS are    *)
(* plain (LinksAre).                                                       *)

CONSTANT Wordings   \* the constants of ShareLinks
VARIABLES inbound, stream, configs

Words == INSTANCE ShareLinks WITH
  Protocols <- Wordings.Protocols, Networks <- Wordings.Networks,
  Securities <- Wordings.Securities, Overrides <- Wordings.Overrides,
  MaxProxies <- Wordings.MaxProxies

\* A proxy's configuration brings the settings of what it asks for, and asks for
\* what the proxy forces or the one before it had.
LEMMA RetouchedBrings ==
  ASSUME NEW s \in Words!Configs, NEW force \in Words!Forces, Words!Brings(s)
  PROVE  /\ Words!Retouched(s, force) \in Words!Configs
            /\ Words!Brings(Words!Retouched(s, force))
         /\ Words!Retouched(s, force).security = Words!Forced(force, s.security)
<1>1. CASE force = "tls" /\ s.security # "tls"
  <2>1. PICK t : t = [security |-> "tls", layers |-> s.layers \cup {"tls"}]
    OBVIOUS
  <2>2. Words!Retouched(s, force) = t
    BY <1>1, <2>1 DEF Words!Retouched
  <2>3. t \in Words!Configs /\ Words!Brings(t) /\ t.security = "tls"
    BY <2>1 DEF Words!Configs, Words!Brings, Words!Forces
  <2>4. QED
    BY <1>1, <2>2, <2>3 DEF Words!Forced
<1>2. CASE force = "none" /\ s.security # "none"
  <2>1. PICK t : t = [security |-> "none", layers |-> s.layers \ {"tls"}]
    OBVIOUS
  <2>2. Words!Retouched(s, force) = t
    BY <1>2, <2>1 DEF Words!Retouched
  <2>3. t \in Words!Configs /\ Words!Brings(t) /\ t.security = "none"
    BY <2>1 DEF Words!Configs, Words!Brings, Words!Forces
  <2>4. QED
    BY <1>2, <2>2, <2>3 DEF Words!Forced
<1>3. CASE ~(force = "tls" /\ s.security # "tls") /\ ~(force = "none"
             /\ s.security # "none")
  <2>1. Words!Retouched(s, force) = s
    BY <1>3 DEF Words!Retouched
  <2>2. QED
    BY <1>3, <2>1 DEF Words!Forced, Words!Forces
<1>4. QED
  BY <1>1, <1>2, <1>3

\* The proxies of an inbound are a sequence, and a configuration has one of its
\* own when there are none.
LEMMA ProxiesAre ==
  ASSUME NEW i \in Words!Inputs
  PROVE  /\ i.proxies \in Seq(Words!Forces) /\ Words!JsonProxies(i) \in Seq(Words!Forces)
         /\ i.security \in Wordings.Securities /\ i.protocol \in Wordings.Protocols
         /\ i.proxies = <<>> => Len(Words!JsonProxies(i)) = 1
            /\ Words!JsonProxies(i)[1] = "same"
         /\ i.proxies # <<>> => Words!JsonProxies(i) = i.proxies
<1>1. /\ i.proxies \in UNION {[1 .. n -> Words!Forces] : n \in 0 .. Wordings.MaxProxies}
      /\ i.security \in Wordings.Securities /\ i.protocol \in Wordings.Protocols
  BY DEF Words!Inputs
<1>2. PICK n \in 0 .. Wordings.MaxProxies : i.proxies \in [1 .. n -> Words!Forces]
  BY <1>1
<1>3. i.proxies \in Seq(Words!Forces)
  BY <1>2
<1>4. <<"same">> \in Seq(Words!Forces)
  BY DEF Words!Forces
<1>5. QED
  BY <1>1, <1>3, <1>4 DEF Words!JsonProxies

\* LinksInv holds at the start.
LEMMA LinksInit ==
  ASSUME Words!Init, Words!LinksAssumption
  PROVE  Words!LinksInv
<1>1. inbound \in Words!Inputs /\ stream = Words!StreamData(inbound) /\ configs = <<>>
  BY DEF Words!Init
<1>2. PICK sec : sec = inbound.security /\ sec \in Wordings.Securities
  BY <1>1, ProxiesAre
<1>3. PICK layers : layers = IF sec = "none" THEN {} ELSE {sec}
  OBVIOUS
<1>4. stream = [security |-> sec, layers |-> layers]
  BY <1>1, <1>2, <1>3 DEF Words!StreamData
<1>5. stream \in Words!Configs /\ Words!Brings(stream) /\ stream.security = inbound.security
  BY <1>2, <1>3, <1>4 DEF Words!Configs, Words!Brings
<1>6. configs \in Seq(Words!Configs) /\ Len(configs) = 0
  BY <1>1
<1>7. DOMAIN configs = {}
  BY <1>6
<1>8. Len(Words!JsonProxies(inbound)) \in Nat
  BY <1>1, ProxiesAre
<1>9. QED
  BY <1>1, <1>5, <1>6, <1>7, <1>8 DEF Words!LinksInv

\* Every configuration keeps it.
LEMMA LinksNext ==
  ASSUME Words!LinksInv, Words!LinksAssumption, [Words!Next]_Words!vars
  PROVE  Words!LinksInv'
<1>1. CASE UNCHANGED Words!vars
  BY <1>1 DEF Words!vars, Words!LinksInv, Words!AsItWas
<1>2. CASE Words!GetConfig
  <2>1. PICK P, n, force, sec : /\ P = Words!JsonProxies(inbound) /\ n = Len(configs) + 1
                                /\ force = P[n] /\ sec = inbound.security
    OBVIOUS
  <2>2. /\ inbound' = inbound /\ inbound \in Words!Inputs /\ stream \in Words!Configs
           /\ configs \in Seq(Words!Configs)
        /\ Words!Brings(stream) /\ \A k \in DOMAIN configs : Words!Brings(configs[k])
        /\ P \in Seq(Words!Forces) /\ Len(configs) < Len(P)
        /\ stream' = Words!Retouched(stream, force) /\ configs' = Append(configs, stream')
    BY <1>2, <2>1, ProxiesAre DEF Words!GetConfig, Words!LinksInv
  <2>3. n \in 1 .. Len(P) /\ Len(P) \in Nat /\ Len(configs) \in Nat
          /\ DOMAIN configs = 1 .. Len(configs)
    BY <2>1, <2>2
  <2>4. force \in Words!Forces
    BY <2>1, <2>2, <2>3
  <2>5. /\ stream' \in Words!Configs /\ Words!Brings(stream')
        /\ stream'.security = Words!Forced(force, stream.security)
    BY <2>2, <2>4, RetouchedBrings
  <2>6. /\ configs' \in Seq(Words!Configs) /\ Len(configs') = n /\ DOMAIN configs' = 1 .. n
        /\ configs'[n] = stream' /\ \A k \in 1 .. Len(configs) : configs'[k] = configs[k]
    BY <2>1, <2>2, <2>3, <2>5
  <2>7. \A k : Words!AsItWas(k)' <=> Words!AsItWas(k)
    BY <2>2 DEF Words!AsItWas
  <2>8. /\ Words!AsItWas(n) => stream.security = sec
        /\ \A k \in DOMAIN configs : Words!AsItWas(k) =>
           configs[k].security = Words!Forced(P[k], sec)
    BY <2>1 DEF Words!LinksInv
  <2>9. Words!AsItWas(n) => stream'.security = Words!Forced(force, sec)
    BY <2>5, <2>8
  <2>10. Words!AsItWas(n + 1) => Words!AsItWas(n) /\ force \in {"same", sec}
    <3>1. n - 1 \in Nat /\ n \in 1 .. (n + 1) - 1 /\ 1 .. n - 1 \subseteq 1 .. (n + 1) - 1
      BY <2>1, <2>3
    <3>2. QED
      BY <2>1, <3>1 DEF Words!AsItWas
  <2>11. Words!AsItWas(n + 1) => stream'.security = sec
    BY <2>9, <2>10 DEF Words!Forced
  <2>12. \A k \in DOMAIN configs' : Words!AsItWas(k) =>
           configs'[k].security = Words!Forced(P[k], sec)
    <3>1. ASSUME NEW k \in DOMAIN configs', Words!AsItWas(k)
          PROVE  configs'[k].security = Words!Forced(P[k], sec)
      <4>1. CASE k = n
        BY <2>1, <2>6, <2>9, <3>1, <4>1
      <4>2. CASE k \in DOMAIN configs
        BY <2>3, <2>6, <2>8, <3>1, <4>2
      <4>3. QED
        BY <2>1, <2>3, <2>6, <4>1, <4>2
    <3>2. QED
      BY <3>1
  <2>13. \A k \in DOMAIN configs' : Words!Brings(configs'[k])
    <3>1. ASSUME NEW k \in DOMAIN configs'
          PROVE  Words!Brings(configs'[k])
      <4>1. CASE k = n
        BY <2>5, <2>6, <4>1
      <4>2. CASE k \in DOMAIN configs
        BY <2>2, <2>3, <2>6, <4>2
      <4>3. QED
        BY <2>1, <2>3, <2>6, <4>1, <4>2
    <3>2. QED
      BY <3>1
  <2>14. Words!JsonProxies(inbound)' = P /\ (inbound.security)' = sec
           /\ Len(configs') <= Len(P)
    BY <2>1, <2>2, <2>3, <2>6
  <2>15. (Words!AsItWas(Len(configs) + 1))' <=> Words!AsItWas(n + 1)
    BY <2>2, <2>6, <2>14, <2>1 DEF Words!AsItWas
  <2>16. QED
    BY <2>1, <2>2, <2>5, <2>6, <2>7, <2>11, <2>12, <2>13, <2>14, <2>15 DEF Words!LinksInv,
                                                                           Words!Brings
<1>3. QED
  BY <1>1, <1>2 DEF Words!Next

\* The two generators of a protocol.
LEMMA TwoGenerators ==
  ASSUME inbound \in Words!Inputs, Words!LinksAssumption
  PROVE  Words!GeneratorsAgree
<1>1. inbound.protocol \in {"vmess", "vless", "trojan", "shadowsocks"}
  BY ProxiesAre DEF Words!LinksAssumption
<1>2. CASE ~inbound.listed
  BY <1>2 DEF Words!GeneratorsAgree
<1>3. CASE inbound.listed
  <2>1. CASE inbound.protocol = "vmess"
    BY <1>3, <2>1 DEF Words!GeneratorsAgree, Words!LinksFromSettings, Words!LinksFromRow,
                      Words!VmessLink, Words!VmessLinkWithClient
  <2>2. CASE inbound.protocol = "vless"
    BY <1>3, <2>2 DEF Words!GeneratorsAgree, Words!LinksFromSettings, Words!LinksFromRow,
                      Words!VlessLink, Words!VlessLinkWithClient
  <2>3. CASE inbound.protocol = "trojan"
    BY <1>3, <2>3 DEF Words!GeneratorsAgree, Words!LinksFromSettings, Words!LinksFromRow,
                      Words!TrojanLink, Words!TrojanLinkWithClient
  <2>4. CASE inbound.protocol = "shadowsocks"
    BY <1>3, <2>4 DEF Words!GeneratorsAgree, Words!LinksFromSettings, Words!LinksFromRow,
                      Words!ShadowsocksLink,
      Words!ShadowsocksLinkWithClient
  <2>5. QED
    BY <1>1, <2>1, <2>2, <2>3, <2>4
<1>4. QED
  BY <1>2, <1>3

\* What a link has of the TLS values was put there by a host.
Plain(params) == \A p \in DOMAIN params \cap Words!TlsKeys : params[p] = "host"

\* Parameters that are none of TLS are plain.
LEMMA PlainKeys ==
  ASSUME NEW keys, keys \cap Words!TlsKeys = {}
  PROVE  Plain(Words!Keys(keys, "inbound"))
<1>1. PICK f : f = [k \in keys |-> "inbound"]
  OBVIOUS
<1>2. DOMAIN f = keys
  BY <1>1
<1>3. Plain(f)
  BY <1>2 DEF Plain
<1>4. QED
  BY <1>1, <1>3 DEF Words!Keys

\* A host adds values of its own.
LEMMA PlainOver ==
  ASSUME NEW i, NEW params, Plain(params)
  PROVE  Plain(Words!Overridden(i, params))
<1>1. PICK keys : keys = (i.host \cap {"sni", "alpn", "fp", "allowInsecure"}) \cup
        (IF i.network \in {"grpc", "ws", "httpupgrade", "xhttp", "http"}
         THEN {Words!Carriers(i.protocol, i.network)[k] :
           k \in i.host \cap {"host", "path"}}
         ELSE {})
  OBVIOUS
<1>2. PICK f : f = [k \in keys |-> "host"]
  OBVIOUS
<1>3. PICK g : g = [k \in DOMAIN f \cup DOMAIN params |-> IF k \in DOMAIN f
             THEN f[k] ELSE params[k]]
  OBVIOUS
<1>4. Words!Overridden(i, params) = IF i.host = Words!NoHost THEN params ELSE g
  BY <1>1, <1>2, <1>3 DEF Words!Overridden, Words!Keys, Words!Over
<1>5. Plain(g)
  <2>1. ASSUME NEW p \in DOMAIN g \cap Words!TlsKeys PROVE g[p] = "host"
    <3>1. CASE p \in DOMAIN f
      BY <1>2, <1>3, <2>1, <3>1
    <3>2. CASE p \notin DOMAIN f
      BY <1>3, <2>1, <3>2 DEF Plain
    <3>3. QED
      BY <3>1, <3>2
  <2>2. QED
    BY <2>1 DEF Plain
<1>6. CASE i.host = Words!NoHost
  BY <1>4, <1>6
<1>7. CASE i.host # Words!NoHost
  BY <1>4, <1>5, <1>7
<1>8. QED
  BY <1>6, <1>7

\* Parameters that lose some stay plain, and are when they lose those of TLS.
LEMMA PlainWithout ==
  ASSUME NEW params, NEW keys
  PROVE  /\ Plain(Words!Without(params, Words!TlsKeys))
         /\ Plain(params) => Plain(Words!Without(params, keys))
<1>1. PICK f : f = [k \in DOMAIN params \ Words!TlsKeys |-> params[k]]
  OBVIOUS
<1>2. DOMAIN f = DOMAIN params \ Words!TlsKeys
  BY <1>1
<1>3. Plain(f)
  BY <1>2 DEF Plain
<1>4. PICK g : g = [k \in DOMAIN params \ keys |-> params[k]]
  OBVIOUS
<1>5. DOMAIN g = DOMAIN params \ keys /\ \A k \in DOMAIN g : g[k] = params[k]
  BY <1>4
<1>6. Plain(params) => Plain(g)
  BY <1>5 DEF Plain
<1>7. QED
  BY <1>1, <1>3, <1>4, <1>6 DEF Words!Without

\* The links of a url or an object, of an inbound that has parameters: how
\* many, of which security, and plain where that is none.
LinksAre(links, i, own) ==
  /\ i.proxies = <<>> => DOMAIN links = {1} /\ links[1].security = own
  /\ i.proxies # <<>> =>
       /\ DOMAIN links = DOMAIN i.proxies
       /\ \A k \in DOMAIN links : links[k].security = Words!Forced(i.proxies[k], i.security)
  /\ \A k \in DOMAIN links : links[k].security = "none" => Plain(links[k].params)

\* A proxy without TLS drops what the inbound has of it.
LEMMA PlainProxy ==
  ASSUME NEW params, NEW force, NEW security, security = "none" => Plain(params),
         Words!Forced(force, security) = "none"
  PROVE  Plain(Words!Without(params, Words!Dropped(force)))
<1>1. CASE force = "none"
  BY <1>1, PlainWithout DEF Words!Dropped
<1>2. CASE force # "none"
  BY <1>2, PlainWithout DEF Words!Forced
<1>3. QED
  BY <1>1, <1>2

\* The links of vless, trojan and shadowsocks.
LEMMA UrlLinksAre ==
  ASSUME NEW i \in Words!Inputs, NEW params,
         Words!Says(i) = "none" \/ i.security = "none" => Plain(params)
  PROVE  LinksAre(Words!UrlLinks(i, params), i, Words!Says(i))
<1>1. PICK over, own : over = Words!Overridden(i, params) /\ own = Words!Says(i)
  OBVIOUS
<1>2. own = "none" \/ i.security = "none" => Plain(over)
  BY <1>1, PlainOver
<1>3. CASE i.proxies = <<>>
  <2>1. PICK l : l = Words!Link(own, over)
    OBVIOUS
  <2>2. l.security = own /\ l.params = over
    BY <2>1 DEF Words!Link
  <2>3. PICK links : links = <<l>>
    OBVIOUS
  <2>4. DOMAIN links = {1} /\ links[1] = l
    BY <2>3
  <2>5. Words!UrlLinks(i, params) = links
    BY <1>1, <1>3, <2>1, <2>3 DEF Words!UrlLinks
  <2>6. LinksAre(links, i, own)
    BY <1>2, <1>3, <2>2, <2>4 DEF LinksAre
  <2>7. QED
    BY <1>1, <2>5, <2>6
<1>4. CASE i.proxies # <<>>
  <2>1. PICK links : links = [k \in DOMAIN i.proxies |->
           Words!Link(Words!Forced(i.proxies[k], i.security), Words!Without(over, Words!Dropped(i.proxies[k])))]
    OBVIOUS
  <2>2. Words!UrlLinks(i, params) = links
    BY <1>1, <1>4, <2>1 DEF Words!UrlLinks
  <2>3. ASSUME NEW k \in DOMAIN i.proxies
        PROVE  /\ links[k].security = Words!Forced(i.proxies[k], i.security)
               /\ links[k].security = "none" => Plain(links[k].params)
    <3>1. PICK force, security, rest : /\ force = i.proxies[k] /\ security = Words!Forced(force, i.security)
                                       /\ rest = Words!Without(over, Words!Dropped(force))
      OBVIOUS
    <3>2. links[k] = [security |-> security, params |-> rest]
      BY <2>1, <3>1 DEF Words!Link
    <3>3. links[k].security = security /\ links[k].params = rest
      BY <3>2
    <3>4. security = "none" => Plain(rest)
      BY <1>2, <3>1, PlainProxy
    <3>5. QED
      BY <3>1, <3>3, <3>4
  <2>4. DOMAIN links = DOMAIN i.proxies
    BY <2>1
  <2>5. LinksAre(links, i, own)
    BY <1>4, <2>3, <2>4 DEF LinksAre
  <2>6. QED
    BY <1>1, <2>2, <2>5
<1>5. QED
  BY <1>3, <1>4

\* The links of vmess.
LEMMA VmessLinksAre ==
  ASSUME NEW i \in Words!Inputs, i.security = "none" => Plain(Words!VmessParams(i))
  PROVE  LinksAre(Words!VmessLinks(i), i, i.security)
<1>1. PICK params, own : params = Words!VmessParams(i) /\ own = i.security
  OBVIOUS
<1>2. own = "none" => Plain(params)
  BY <1>1
<1>3. CASE i.proxies = <<>>
  <2>1. PICK l, over : over = Words!Overridden(i, params) /\ l = Words!Link(own, over)
    OBVIOUS
  <2>2. l.security = own /\ l.params = over
    BY <2>1 DEF Words!Link
  <2>3. PICK links : links = <<l>>
    OBVIOUS
  <2>4. DOMAIN links = {1} /\ links[1] = l
    BY <2>3
  <2>5. Words!VmessLinks(i) = links
    BY <1>1, <1>3, <2>1, <2>3 DEF Words!VmessLinks
  <2>6. own = "none" => Plain(over)
    BY <1>2, <2>1, PlainOver
  <2>7. LinksAre(links, i, own)
    BY <1>3, <2>2, <2>4, <2>6 DEF LinksAre
  <2>8. QED
    BY <1>1, <2>5, <2>7
<1>4. CASE i.proxies # <<>>
  <2>1. PICK links : links = [k \in DOMAIN i.proxies |->
           Words!Link(Words!Forced(i.proxies[k], own), Words!Overridden(i, Words!Without(params, Words!Dropped(i.proxies[k]))))]
    OBVIOUS
  <2>2. Words!VmessLinks(i) = links
    BY <1>1, <1>4, <2>1 DEF Words!VmessLinks
  <2>3. ASSUME NEW k \in DOMAIN i.proxies
        PROVE  /\ links[k].security = Words!Forced(i.proxies[k], own)
               /\ links[k].security = "none" => Plain(links[k].params)
    <3>1. PICK force, security, rest, over :
             /\ force = i.proxies[k] /\ security = Words!Forced(force, own)
             /\ rest = Words!Without(params, Words!Dropped(force))
                /\ over = Words!Overridden(i, rest)
      OBVIOUS
    <3>2. links[k] = [security |-> security, params |-> over]
      BY <2>1, <3>1 DEF Words!Link
    <3>3. links[k].security = security /\ links[k].params = over
      BY <3>2
    <3>4. security = "none" => Plain(over)
      BY <1>2, <3>1, PlainProxy, PlainOver
    <3>5. QED
      BY <3>1, <3>3, <3>4
  <2>4. DOMAIN links = DOMAIN i.proxies
    BY <2>1
  <2>5. LinksAre(links, i, own)
    BY <1>1, <1>4, <2>3, <2>4 DEF LinksAre
  <2>6. QED
    BY <1>1, <2>2, <2>5
<1>5. QED
  BY <1>3, <1>4

\* An inbound without TLS has none of its parameters.
LEMMA ParamsArePlain ==
  ASSUME NEW i
  PROVE  /\ i.security = "none" => /\ Plain(Words!VmessParams(i)) /\ Plain(Words!VlessParams(i))
                                   /\ Plain(Words!TrojanParams(i))
         /\ i.security # "tls" => Plain(Words!ShadowsocksParams(i))
<1>1. Words!Transport(i.network) \cap Words!TlsKeys = {}
  BY DEF Words!Transport, Words!TlsKeys
<1>2. Words!VmessTransport(i.network) \cap Words!TlsKeys = {}
  BY DEF Words!VmessTransport, Words!TlsKeys
<1>3. i.security # "tls" => Words!TlsParams(i) = {}
  BY DEF Words!TlsParams
<1>4. i.security = "none" => Words!RealityParams(i) = {}
  BY DEF Words!RealityParams
<1>5. i.security = "none" =>
        Words!VmessTransport(i.network) \cup Words!TlsParams(i) = Words!VmessTransport(i.network)
  BY <1>3
<1>6. i.security = "none" => Plain(Words!VmessParams(i))
  BY <1>2, <1>5, PlainKeys DEF Words!VmessParams
<1>7. ASSUME i.security = "none" PROVE Plain(Words!VlessParams(i))
  <2>1. PICK keys : keys = Words!Transport(i.network) \cup {"encryption"} \cup Words!TlsParams(i) \cup Words!RealityParams(i)
           \cup IF Words!Flows(i) /\ i.security # "none" THEN {"flow"} ELSE {}
    OBVIOUS
  <2>2. keys = Words!Transport(i.network) \cup {"encryption"}
    BY <1>3, <1>4, <1>7, <2>1
  <2>3. keys \cap Words!TlsKeys = {}
    BY <1>1, <2>2 DEF Words!TlsKeys
  <2>4. Words!VlessParams(i) = Words!Keys(keys, "inbound")
    BY <2>1 DEF Words!VlessParams
  <2>5. QED
    BY <2>3, <2>4, PlainKeys
<1>8. ASSUME i.security = "none" PROVE Plain(Words!TrojanParams(i))
  <2>1. PICK keys : keys = Words!Transport(i.network) \cup Words!TlsParams(i) \cup Words!RealityParams(i)
           \cup IF Words!Flows(i) /\ i.security = "reality" THEN {"flow"} ELSE {}
    OBVIOUS
  <2>2. keys = Words!Transport(i.network)
    BY <1>3, <1>4, <1>8, <2>1
  <2>3. Words!TrojanParams(i) = Words!Keys(keys, "inbound")
    BY <2>1 DEF Words!TrojanParams
  <2>4. QED
    BY <1>1, <2>2, <2>3, PlainKeys
<1>9. ASSUME i.security # "tls" PROVE Plain(Words!ShadowsocksParams(i))
  <2>1. PICK keys : keys = Words!Transport(i.network) \cup Words!TlsParams(i)
    OBVIOUS
  <2>2. keys = Words!Transport(i.network)
    BY <1>3, <1>9, <2>1
  <2>3. Words!ShadowsocksParams(i) = Words!Keys(keys, "inbound")
    BY <2>1 DEF Words!ShadowsocksParams
  <2>4. QED
    BY <1>1, <2>2, <2>3, PlainKeys
<1>10. QED
  BY <1>6, <1>7, <1>8, <1>9

\* The links of a client: none where the generator stops.
LEMMA RowLinksAre ==
  ASSUME NEW i \in Words!Inputs, Words!LinksAssumption
  PROVE  LET links == Words!LinksFromRow(i).links
         IN LinksAre(links, i, Words!Says(i)) \/ DOMAIN links = {}
<1>1. i.protocol \in {"vmess", "vless", "trojan", "shadowsocks"}
  BY ProxiesAre DEF Words!LinksAssumption
<1>2. \A l : Words!Links(l).links = l
  BY DEF Words!Links
<1>3. DOMAIN Words!Panic.links = {}
  <2>1. PICK none : none = <<>>
    OBVIOUS
  <2>2. none \in Seq({}) /\ Len(none) = 0
    BY <2>1
  <2>3. DOMAIN none = {}
    BY <2>2
  <2>4. Words!Panic.links = none
    BY <2>1 DEF Words!Panic
  <2>5. QED
    BY <2>3, <2>4
<1>4. CASE i.protocol = "vmess"
  <2>1. Words!LinksFromRow(i) = Words!Links(Words!VmessLinks(i))
    BY <1>4 DEF Words!LinksFromRow, Words!VmessLinkWithClient
  <2>2. Words!Says(i) = i.security
    BY <1>4 DEF Words!Says
  <2>3. LinksAre(Words!VmessLinks(i), i, Words!Says(i))
    BY <2>2, ParamsArePlain, VmessLinksAre
  <2>4. QED
    BY <2>1, <2>3 DEF Words!Links
<1>5. CASE i.protocol = "vless"
  <2>1. Words!LinksFromRow(i) = Words!Links(Words!UrlLinks(i, Words!VlessParams(i)))
    BY <1>5 DEF Words!LinksFromRow, Words!VlessLinkWithClient, Words!VlessLinks
  <2>2. Words!Says(i) = i.security
    BY <1>5 DEF Words!Says
  <2>3. LinksAre(Words!UrlLinks(i, Words!VlessParams(i)), i, Words!Says(i))
    BY <2>2, ParamsArePlain, UrlLinksAre
  <2>4. QED
    BY <2>1, <2>3 DEF Words!Links
<1>6. CASE i.protocol = "trojan"
  <2>1. Words!LinksFromRow(i) \in {Words!Panic, Words!Links(Words!UrlLinks(i, Words!TrojanParams(i)))}
    BY <1>6 DEF Words!LinksFromRow, Words!TrojanLinkWithClient, Words!TrojanLinks
  <2>2. Words!Says(i) = i.security
    BY <1>6 DEF Words!Says
  <2>3. LinksAre(Words!UrlLinks(i, Words!TrojanParams(i)), i, Words!Says(i))
    BY <2>2, ParamsArePlain, UrlLinksAre
  <2>4. QED
    BY <1>3, <2>1, <2>3 DEF Words!Links
<1>7. CASE i.protocol = "shadowsocks"
  <2>1. Words!LinksFromRow(i) = Words!Links(Words!UrlLinks(i, Words!ShadowsocksParams(i)))
    BY <1>7 DEF Words!LinksFromRow, Words!ShadowsocksLinkWithClient, Words!ShadowsocksLinks
  <2>2. Words!Says(i) = "none" \/ i.security = "none" => i.security # "tls"
    BY <1>7 DEF Words!Says
  <2>3. LinksAre(Words!UrlLinks(i, Words!ShadowsocksParams(i)), i, Words!Says(i))
    BY <2>2, ParamsArePlain, UrlLinksAre
  <2>4. QED
    BY <2>1, <2>3 DEF Words!Links
<1>8. QED
  BY <1>1, <1>4, <1>5, <1>6, <1>7

\* LinksInv says what links and configurations agree on.
LEMMA LinksSay ==
  ASSUME Words!LinksInv, Words!LinksAssumption
  PROVE  Words!GeneratorsAgree /\ Words!PlainIsPlain /\ Words!SameSecurity
           /\ Words!TlsHasSettings
<1>1. /\ inbound \in Words!Inputs /\ configs \in Seq(Words!Configs)
      /\ Len(configs) <= Len(Words!JsonProxies(inbound))
  BY DEF Words!LinksInv
<1>2. Words!GeneratorsAgree
  BY <1>1, TwoGenerators
<1>3. Words!TlsHasSettings
  BY DEF Words!LinksInv, Words!Brings, Words!TlsHasSettings
<1>4. PICK links : links = Words!LinksFromRow(inbound).links
  OBVIOUS
<1>5. LinksAre(links, inbound, Words!Says(inbound)) \/ DOMAIN links = {}
  BY <1>1, <1>4, RowLinksAre
<1>6. Words!PlainIsPlain
  <2>1. \A k \in DOMAIN links : links[k].security = "none" => Plain(links[k].params)
    BY <1>5 DEF LinksAre
  <2>2. QED
    BY <1>4, <2>1 DEF Words!PlainIsPlain, Plain
<1>7. Words!SameSecurity
  <2>1. ASSUME inbound.protocol = "shadowsocks" => inbound.security # "reality",
               NEW k \in DOMAIN configs \cap DOMAIN links, Words!AsItWas(k)
        PROVE  configs[k].security = links[k].security
    <3>1. LinksAre(links, inbound, Words!Says(inbound))
      BY <1>5, <2>1
    <3>2. configs[k].security = Words!Forced(Words!JsonProxies(inbound)[k], inbound.security)
      BY <2>1 DEF Words!LinksInv
    <3>3. CASE inbound.proxies = <<>>
      <4>1. k = 1 /\ links[k].security = Words!Says(inbound)
        BY <2>1, <3>1, <3>3 DEF LinksAre
      <4>2. Words!JsonProxies(inbound)[1] = "same"
              /\ inbound.security \in {"none", "tls", "reality"}
        BY <1>1, <3>3, ProxiesAre DEF Words!LinksAssumption
      <4>3. Words!Says(inbound) = inbound.security
        BY <2>1, <4>2 DEF Words!Says
      <4>4. QED
        BY <3>2, <4>1, <4>2, <4>3 DEF Words!Forced
    <3>4. CASE inbound.proxies # <<>>
      <4>1. Words!JsonProxies(inbound) = inbound.proxies
        BY <1>1, <3>4, ProxiesAre
      <4>2. links[k].security = Words!Forced(inbound.proxies[k], inbound.security)
        BY <2>1, <3>1, <3>4 DEF LinksAre
      <4>3. QED
        BY <3>2, <4>1, <4>2
    <3>5. QED
      BY <3>3, <3>4
  <2>2. QED
    BY <1>4, <2>1 DEF Words!SameSecurity, Words!AsItWas
<1>8. QED
  BY <1>2, <1>3, <1>6, <1>7

\* LinksInv holds for ever, for any protocols, transports, overrides and
\* proxies.
THEOREM LinksInvariant ==
  ASSUME Words!LinksAssumption
  PROVE  Words!Spec => []Words!LinksInv
<1>1. Words!Init => Words!LinksInv
  BY LinksInit
<1>2. Words!LinksInv /\ [Words!Next]_Words!vars => Words!LinksInv'
  BY LinksNext
<1>3. QED
  BY <1>1, <1>2, PTL DEF Words!Spec
=============================================================================
