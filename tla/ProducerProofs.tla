---------------------------- MODULE ProducerProofs ----------------------------
(***************************************************************************)
(* Proofs about the sub-queue of one producer, for any number of consumers *)
(* and elements: ProducerBase, and that ImplicitProducer and               *)
(* ExplicitProducer implement it.                                          *)
(*                                                                         *)
(* Every value dequeueOptimisticCount has handed out is a claim.  A claim  *)
(* is void (given back), won (it advanced headIndex) or open, in exactly   *)
(* one way; dequeueOvercommit counts the void ones and headIndex the won.  *)
(* An overcommit loaded before a claim counts void claims below it, so a   *)
(* consumer that tests its claim against the tail with that value knows    *)
(* how many claims up to its own can still be won: not more than there are *)
(* elements.  That is Reached, and the highest claim won satisfies it.     *)
(*                                                                         *)
(* For ImplicitProducer also what its blocks and its index add: a consumer *)
(* moves its own element out of a block that is still that element's, and  *)
(* the destructor leaves no element and no block behind.                   *)
(***************************************************************************)
EXTENDS ImplicitProducer, FiniteSetTheorems, TLAPS

(***************************************************************************)
(* ProducerBase                                                            *)
(***************************************************************************)
\* The claims consumer c has open.
Open(c) ==
  CASE pc[c] \in {"reload", "give"} -> loc[c].my .. loc[c].my + loc[c].want - 1
    [] pc[c] = "head" -> Succeeded(c)
    [] OTHER -> {}

Below(n) == {x \in void : x < n}

\* Of the claims up to s, at most tailIndex are not void.
Reached(s) == s + 1 - Cardinality(Below(s + 1)) <= tailIndex

ClaimInv ==
  /\ void \subseteq 0 .. dequeueOptimisticCount - 1
  /\ won \subseteq 0 .. dequeueOptimisticCount - 1
  /\ void \cap won = {}
  /\ \A c \in Consumer :
       /\ Open(c) \subseteq 0 .. dequeueOptimisticCount - 1
       /\ Open(c) \cap void = {} /\ Open(c) \cap won = {}
       /\ \A d \in Consumer \ {c} : Open(c) \cap Open(d) = {}
  /\ \A x \in 0 .. dequeueOptimisticCount - 1 :
       x \in void \/ x \in won \/ \E c \in Consumer : x \in Open(c)

CountInv ==
  dequeueOvercommit = Cardinality(void) /\ headIndex = Cardinality(won)

LocalInv ==
  \A c \in Consumer :
    /\ pc[c] \in {"overcommit", "optimistic", "claim"} => loc[c].max >= 1
    /\ pc[c] \in {"optimistic", "claim"} => loc[c].over <= dequeueOvercommit
    /\ pc[c] = "reload" => /\ loc[c].want >= 1 /\ loc[c].got = 0
                           /\ loc[c].over <= Cardinality(Below(loc[c].my))
    /\ pc[c] = "give" => loc[c].got < loc[c].want
    /\ pc[c] = "head" => loc[c].got >= 1
    /\ pc[c] \in {"give", "head"} /\ loc[c].got > 0 =>
         Reached(loc[c].my + loc[c].got - 1)

TopInv ==
  won = {} \/ \E s \in won : Reached(s) /\ \A x \in won : x <= s

TakeInv ==
  \A c \in Consumer : pc[c] = "take" =>
    /\ loc[c].index + loc[c].got <= headIndex
    /\ \A d \in Consumer \ {c} : pc[d] = "take" => Mine(c) \cap Mine(d) = {}

BaseInv == BaseTypeOK /\ ClaimInv /\ CountInv /\ LocalInv /\ TopInv /\ TakeInv

-------------------------------------------------------------------------------
\* A set of natural numbers below a bound is finite.
LEMMA BoundedFinite ==
  ASSUME NEW n \in Nat, NEW S \in SUBSET (0 .. n - 1)
  PROVE  IsFiniteSet(S) /\ Cardinality(S) \in Nat
<1>1. IsFiniteSet(0 .. n - 1)
  BY FS_Interval
<1>2. IsFiniteSet(S)
  BY <1>1, FS_Subset, Zenon
<1>3. QED
  BY <1>2, FS_CardinalityType, Zenon

\* Adding a disjoint interval adds its length.
LEMMA AddInterval ==
  ASSUME NEW n \in Nat, NEW S \in SUBSET (0 .. n - 1),
         NEW a \in Nat, NEW k \in Nat, S \cap (a .. a + k - 1) = {}
  PROVE  Cardinality(S \cup (a .. a + k - 1)) = Cardinality(S) + k
<1> DEFINE I == a .. a + k - 1
<1>1. IsFiniteSet(I) /\ Cardinality(I) = k
  <2>1. IsFiniteSet(I) /\ Cardinality(I) = IF a > a + k - 1 THEN 0 ELSE (a + k - 1) - a + 1
    BY FS_Interval
  <2>2. QED
    BY <2>1
<1>2. IsFiniteSet(S) /\ Cardinality(S) \in Nat
  BY BoundedFinite
<1>3. S \cap I = {}
  OBVIOUS
<1>4. Cardinality(S \cap I) = 0
  BY <1>3, FS_EmptySet
<1> HIDE DEF I
<1>5. Cardinality(S \cup I) = Cardinality(S) + Cardinality(I) - Cardinality(S \cap I)
  BY <1>1, <1>2, FS_Union, Zenon
<1>6. QED
  BY <1>1, <1>2, <1>4, <1>5 DEF I

\* An interval is its beginning and the rest.
LEMMA SplitInterval ==
  ASSUME NEW a \in Nat, NEW n \in Nat, NEW k \in Nat, k <= n
  PROVE  /\ a .. a + n - 1 = (a .. a + k - 1) \cup (a + k .. a + n - 1)
         /\ (a .. a + k - 1) \cap (a + k .. a + n - 1) = {}
  OBVIOUS

\* Below counts only void claims, and grows with void.
LEMMA BelowGrows ==
  ASSUME BaseTypeOK, ClaimInv, BaseTypeOK', ClaimInv', void \subseteq void',
         NEW n \in Nat
  PROVE  /\ Cardinality(Below(n)) \in Nat /\ Cardinality(Below(n)') \in Nat
         /\ Cardinality(Below(n)) <= Cardinality(Below(n)')
<1>1. Below(n) \in SUBSET (0 .. dequeueOptimisticCount - 1)
  BY DEF ClaimInv, Below
<1>2. Below(n)' \in SUBSET (0 .. dequeueOptimisticCount' - 1)
  BY DEF ClaimInv, Below
<1>3. dequeueOptimisticCount \in Nat /\ dequeueOptimisticCount' \in Nat
  BY DEF BaseTypeOK
<1>4. IsFiniteSet(Below(n)) /\ Cardinality(Below(n)) \in Nat
  BY <1>1, <1>3, BoundedFinite
<1>5. IsFiniteSet(Below(n)') /\ Cardinality(Below(n)') \in Nat
  BY <1>2, <1>3, BoundedFinite
<1>6. Below(n) \in SUBSET (Below(n)')
  BY DEF Below
<1>7. Cardinality(Below(n)) <= Cardinality(Below(n)')
  BY <1>5, <1>6, FS_Subset, Zenon
<1>8. QED
  BY <1>4, <1>5, <1>7

\* What a consumer knows to be reached by the tail stays so: the tail only grows,
\* and so does the set of refuted claims.
LEMMA ReachedStays ==
  ASSUME BaseTypeOK, ClaimInv, BaseTypeOK', ClaimInv', void \subseteq void',
         tailIndex <= tailIndex', NEW s \in Nat, Reached(s)
  PROVE  Reached(s)'
<1>1. s + 1 \in Nat
  OBVIOUS
<1>2. /\ Cardinality(Below(s + 1)) \in Nat /\ Cardinality(Below(s + 1)') \in Nat
      /\ Cardinality(Below(s + 1)) <= Cardinality(Below(s + 1)')
  BY <1>1, BelowGrows
<1>3. s + 1 - Cardinality(Below(s + 1)') <= tailIndex'
  BY <1>2 DEF Reached, BaseTypeOK
<1>4. QED
  BY <1>3 DEF Reached, Below

\* A step that leaves won alone keeps TopInv.
LEMMA TopStays ==
  ASSUME BaseInv, BaseTypeOK', ClaimInv', void \subseteq void',
         tailIndex <= tailIndex', won' = won
  PROVE  TopInv'
<1>1. CASE won = {}
  BY <1>1 DEF TopInv
<1>2. ASSUME NEW s \in won, Reached(s), \A x \in won : x <= s
      PROVE  TopInv'
  <2>1. s \in Nat
    BY <1>2 DEF BaseInv, BaseTypeOK
  <2>2. Reached(s)'
    BY <1>2, <2>1, ReachedStays DEF BaseInv
  <2>3. QED
    BY <1>2, <2>2 DEF TopInv
<1>3. QED
  BY <1>1, <1>2 DEF BaseInv, TopInv

\* Every initial state of a producer satisfies the invariant.
LEMMA BaseInvInit ==
  ASSUME BaseInit
  PROVE  BaseInv
<1> USE BaseAssumption
<1>1. BaseTypeOK
  BY DEF BaseInit, BaseTypeOK, Zero, Local
<1>2. ClaimInv
  BY DEF BaseInit, ClaimInv, Open
<1>3. CountInv
  BY FS_EmptySet DEF BaseInit, CountInv
<1>4. LocalInv /\ TopInv /\ TakeInv
  BY DEF BaseInit, LocalInv, TopInv, TakeInv
<1>5. QED
  BY <1>1, <1>2, <1>3, <1>4 DEF BaseInv

-------------------------------------------------------------------------------
\* A step of consumer c leaves the locals and the claims of the others alone.
LEMMA OthersStay ==
  ASSUME BaseTypeOK, NEW c \in Consumer, NEW p, NEW l, To(c, p, l)
  PROVE  /\ pc'[c] = p /\ loc'[c] = l
         /\ \A d \in Consumer \ {c} :
              /\ pc'[d] = pc[d] /\ loc'[d] = loc[d]
              /\ Open(d)' = Open(d) /\ Mine(d)' = Mine(d)
<1>1. pc'[c] = p /\ loc'[c] = l
  BY DEF BaseTypeOK, To
<1>2. ASSUME NEW d \in Consumer \ {c}
      PROVE  pc'[d] = pc[d] /\ loc'[d] = loc[d]
  BY DEF BaseTypeOK, To
<1>3. ASSUME NEW d \in Consumer \ {c}
      PROVE  Open(d)' = Open(d) /\ Mine(d)' = Mine(d)
  BY <1>2 DEF Open, Mine, Succeeded
<1>4. QED
  BY <1>1, <1>2, <1>3

\* tailIndex only grows.
LEMMA PublishStep ==
  ASSUME BaseInv, NEW n \in 1..MaxBulk, Publish(n)
  PROVE  BaseInv'
<1> USE BaseAssumption
<1>1. BaseTypeOK' /\ void' = void /\ tailIndex <= tailIndex' /\ won' = won
  BY DEF BaseInv, BaseTypeOK, Publish
<1>2. ClaimInv'
  BY DEF BaseInv, ClaimInv, Open, Succeeded, Publish
<1>3. CountInv' /\ TakeInv'
  BY DEF BaseInv, CountInv, TakeInv, Mine, Publish
<1>4. TopInv'
  BY <1>1, <1>2, TopStays
<1>5. LocalInv'
  <2> SUFFICES ASSUME NEW c \in Consumer, pc[c] \in {"give", "head"}, loc[c].got > 0,
                      Reached(loc[c].my + loc[c].got - 1)
               PROVE  Reached(loc[c].my + loc[c].got - 1)'
    BY <1>1 DEF BaseInv, LocalInv, Publish, Below
  <2>1. loc[c].my + loc[c].got - 1 \in Nat /\ loc' = loc
    BY DEF BaseInv, BaseTypeOK, Local, Publish
  <2>2. QED
    BY <2>1, <1>1, <1>2, ReachedStays DEF BaseInv
<1>6. QED
  BY <1>1, <1>2, <1>3, <1>4, <1>5 DEF BaseInv

\* What the steps that hold no claim before or after have in common.
LEMMA QuietStep ==
  ASSUME BaseInv, NEW c \in Consumer, NEW p, NEW l, To(c, p, l), BaseTypeOK',
         UNCHANGED <<tailIndex, headIndex, dequeueOptimisticCount,
                     dequeueOvercommit, void, won>>,
         pc[c] \notin {"reload", "give", "head"},
         p \notin {"reload", "give", "head", "take"},
         p \in {"overcommit", "optimistic", "claim"} => l.max >= 1,
         p \in {"optimistic", "claim"} => l.over <= dequeueOvercommit
  PROVE  BaseInv'
<1>1. /\ pc'[c] = p /\ loc'[c] = l
      /\ \A d \in Consumer \ {c} :
           /\ pc'[d] = pc[d] /\ loc'[d] = loc[d]
           /\ Open(d)' = Open(d) /\ Mine(d)' = Mine(d)
  BY OthersStay DEF BaseInv
<1>2. \A d \in Consumer : Open(d)' = Open(d)
  <2>1. Open(c) = {} /\ Open(c)' = {}
    BY <1>1 DEF Open
  <2>2. QED
    BY <1>1, <2>1
<1>3. ClaimInv'
  BY <1>2 DEF BaseInv, ClaimInv
<1>4. CountInv'
  BY DEF BaseInv, CountInv
<1>5. LocalInv'
  <2>2. ASSUME NEW d \in Consumer \ {c}
        PROVE  /\ pc'[d] = pc[d] /\ loc'[d] = loc[d]
               /\ Reached(loc[d].my + loc[d].got - 1)' = Reached(loc[d].my + loc[d].got - 1)
               /\ Below(loc[d].my)' = Below(loc[d].my)
    <3>1. pc'[d] = pc[d] /\ loc'[d] = loc[d]
      BY <1>1
    <3>2. QED
      BY <3>1 DEF Reached, Below
  <2>3. QED
    BY <1>1, <2>2 DEF BaseInv, LocalInv
<1>6. TopInv'
  BY DEF BaseInv, TopInv, Reached, Below
<1>7. TakeInv'
  BY <1>1 DEF BaseInv, TakeInv
<1>8. QED
  BY <1>3, <1>4, <1>5, <1>6, <1>7 DEF BaseInv

\* The loads before the claim, and the return of a call that took its elements,
\* preserve the invariant.
LEMMA LoadStep ==
  ASSUME BaseInv, NEW c \in Consumer,
         \/ \E max \in 1..MaxBulk : LoadTail(c, max)
         \/ LoadOvercommit(c) \/ SeemsEmpty(c) \/ LoadOptimistic(c) \/ Taken(c)
  PROVE  BaseInv'
<1> USE BaseAssumption
<1>0. BaseTypeOK
  BY DEF BaseInv
<1>1. ASSUME NEW max \in 1..MaxBulk, LoadTail(c, max)
      PROVE  BaseInv'
  <2> DEFINE l == [Zero EXCEPT !.max = max, !.tail = tailIndex]
  <2>0. tailIndex \in Nat /\ max \in Nat /\ max >= 1
    BY <1>0 DEF BaseTypeOK
  <2>1. l \in Local /\ l.max >= 1
    BY <2>0 DEF Zero, Local
  <2>2. To(c, "overcommit", l) /\ pc[c] = "idle"
    BY <1>1 DEF LoadTail
  <2> HIDE DEF l
  <2>3. BaseTypeOK'
    BY <1>0, <1>1, <2>1, <2>2 DEF BaseTypeOK, LoadTail, To
  <2>4. QED
    BY <1>1, <2>1, <2>2, <2>3, QuietStep DEF LoadTail
<1>2. CASE LoadOvercommit(c)
  <2> DEFINE l == [loc[c] EXCEPT !.over = dequeueOvercommit]
  <2>1. l \in Local /\ l.max >= 1 /\ l.over <= dequeueOvercommit
    BY <1>2 DEF Local, BaseInv, BaseTypeOK, LocalInv, LoadOvercommit
  <2>2. To(c, "optimistic", l) /\ pc[c] = "overcommit"
    BY <1>2 DEF LoadOvercommit
  <2> HIDE DEF l
  <2>3. BaseTypeOK'
    BY <1>0, <1>2, <2>1, <2>2 DEF BaseTypeOK, LoadOvercommit, To
  <2>4. QED
    BY <1>2, <2>1, <2>2, <2>3, QuietStep DEF LoadOvercommit
<1>3. CASE SeemsEmpty(c) \/ Taken(c)
  <2>1. Zero \in Local
    BY DEF Zero, Local
  <2>2. To(c, "idle", Zero) /\ pc[c] \in {"optimistic", "take"}
    BY <1>3 DEF SeemsEmpty, Taken
  <2>3. BaseTypeOK'
    BY <1>0, <1>3, <2>1, <2>2 DEF BaseTypeOK, SeemsEmpty, Taken, To
  <2>4. QED
    BY <1>3, <2>2, <2>3, QuietStep DEF SeemsEmpty, Taken
<1>4. CASE LoadOptimistic(c)
  <2> DEFINE w == Least(loc[c].tail - (dequeueOptimisticCount - loc[c].over), loc[c].max)
             l == [loc[c] EXCEPT !.want = w]
  <2>1. w \in 1 .. loc[c].max
    BY <1>4 DEF Local, BaseInv, BaseTypeOK, LocalInv, LoadOptimistic, Least
  <2>2. To(c, "claim", l) /\ pc[c] = "optimistic"
    BY <1>4 DEF LoadOptimistic
  <2> HIDE DEF w
  <2>3. /\ l \in Local /\ l.max >= 1 /\ l.over <= dequeueOvercommit
        /\ l.want \in 1 .. l.max
    BY <1>4, <2>1 DEF Local, BaseInv, BaseTypeOK, LocalInv, LoadOptimistic
  <2> HIDE DEF l
  <2>4. BaseTypeOK'
    BY <1>0, <1>4, <2>2, <2>3 DEF BaseTypeOK, LoadOptimistic, To
  <2>5. QED
    BY <1>4, <2>2, <2>3, <2>4, QuietStep DEF LoadOptimistic
<1>5. QED
  BY <1>1, <1>2, <1>3, <1>4

\* fetch_add on dequeueOptimisticCount: the new claims lie above all others.
LEMMA ClaimStep ==
  ASSUME BaseInv, NEW c \in Consumer, Claim(c)
  PROVE  BaseInv'
<1> DEFINE w == loc[c].want
           C == dequeueOptimisticCount
           l == [Zero EXCEPT !.my = C, !.over = loc[c].over, !.want = w]
<1>1. w \in Nat /\ w >= 1 /\ C \in Nat /\ C' = C + w /\ loc[c].over \in Nat
  BY DEF BaseInv, BaseTypeOK, Local, Claim
<1>2. /\ l \in Local /\ l.my = C /\ l.want = w /\ l.over = loc[c].over /\ l.got = 0
  BY <1>1 DEF Local, Zero
<1>3. To(c, "reload", l) /\ pc[c] = "claim"
  BY DEF Claim
<1>4. UNCHANGED <<tailIndex, headIndex, dequeueOvercommit, void, won>>
  BY DEF Claim
<1> HIDE DEF l
<1>5. /\ pc'[c] = "reload" /\ loc'[c] = l
      /\ \A d \in Consumer \ {c} :
           /\ pc'[d] = pc[d] /\ loc'[d] = loc[d]
           /\ Open(d)' = Open(d) /\ Mine(d)' = Mine(d)
  BY <1>3, OthersStay DEF BaseInv
<1>6. BaseTypeOK'
  BY <1>1, <1>2, <1>3, <1>4 DEF BaseInv, BaseTypeOK, To
<1>7. Open(c) = {} /\ Open(c)' = C .. C + w - 1
  BY <1>2, <1>3, <1>5 DEF Open
<1>8. ClaimInv'
  <2>1. void' \subseteq 0 .. C' - 1 /\ won' \subseteq 0 .. C' - 1
    BY <1>1, <1>4 DEF BaseInv, ClaimInv
  <2>2. void' \cap won' = {}
    BY <1>4 DEF BaseInv, ClaimInv
  <2>3. ASSUME NEW d \in Consumer
        PROVE  /\ Open(d)' \subseteq 0 .. C' - 1
               /\ Open(d)' \cap void' = {} /\ Open(d)' \cap won' = {}
    <3>1. CASE d = c
      BY <3>1, <1>1, <1>4, <1>7 DEF BaseInv, ClaimInv
    <3>2. CASE d # c
      BY <3>2, <1>1, <1>4, <1>5 DEF BaseInv, ClaimInv
    <3>3. QED
      BY <3>1, <3>2
  <2>4. ASSUME NEW d \in Consumer, NEW e \in Consumer \ {d}
        PROVE  Open(d)' \cap Open(e)' = {}
    <3>1. ASSUME NEW f \in Consumer
          PROVE  Open(f) \cap (C .. C + w - 1) = {}
      <4>1. Open(f) \subseteq 0 .. C - 1
        BY DEF BaseInv, ClaimInv
      <4>2. QED
        BY <4>1, <1>1
    <3>2. CASE d = c
      BY <3>1, <3>2, <1>5, <1>7
    <3>3. CASE e = c
      BY <3>1, <3>3, <1>5, <1>7
    <3>4. CASE d # c /\ e # c
      BY <3>4, <1>5 DEF BaseInv, ClaimInv
    <3>5. QED
      BY <3>2, <3>3, <3>4
  <2>5. ASSUME NEW x \in 0 .. C' - 1
        PROVE  x \in void' \/ x \in won' \/ \E d \in Consumer : x \in Open(d)'
    <3>1. CASE x \in 0 .. C - 1
      BY <3>1, <1>4, <1>5, <1>7 DEF BaseInv, ClaimInv
    <3>2. CASE x \notin 0 .. C - 1
      BY <3>2, <1>1, <1>7
    <3>3. QED
      BY <3>1, <3>2
  <2>6. QED
    BY <2>1, <2>2, <2>3, <2>4, <2>5 DEF ClaimInv
<1>9. CountInv' /\ TakeInv' /\ TopInv'
  <2>1. CountInv'
    BY <1>4 DEF BaseInv, CountInv
  <2>2. TakeInv'
    BY <1>4, <1>5 DEF BaseInv, TakeInv
  <2>3. TopInv'
    BY <1>4 DEF BaseInv, TopInv, Reached, Below
  <2>4. QED
    BY <2>1, <2>2, <2>3
<1>10. LocalInv'
  <2>1. \A n : Reached(n)' = Reached(n) /\ Below(n)' = Below(n)
    BY <1>4 DEF Reached, Below
  <2>2. Below(C) = void
    BY <1>1 DEF BaseInv, ClaimInv, Below
  <2>3. l.over <= Cardinality(Below(C))
    BY <1>2, <1>3, <2>2 DEF BaseInv, LocalInv, CountInv
  <2>4. QED
    BY <1>1, <1>2, <1>4, <1>5, <2>1, <2>3 DEF BaseInv, LocalInv
<1>11. QED
  BY <1>6, <1>8, <1>9, <1>10 DEF BaseInv

\* The claim is tested against the tail: Open stays, and if something was got
\* then the highest claim kept is Reached.
LEMMA ReloadStep ==
  ASSUME BaseInv, NEW c \in Consumer, Reload(c)
  PROVE  BaseInv'
<1> DEFINE my == loc[c].my
           w == loc[c].want
           actual == tailIndex - (my - loc[c].over)
           g == IF actual > 0 THEN Least(w, actual) ELSE 0
           l == [loc[c] EXCEPT !.got = g]
           p == IF g < w THEN "give" ELSE "head"
<1>1. /\ my \in Nat /\ w \in Nat /\ w >= 1 /\ loc[c].over \in Nat /\ tailIndex \in Nat
      /\ dequeueOptimisticCount \in Nat
  BY DEF BaseInv, BaseTypeOK, Local, LocalInv, Reload
<1>2. g \in 0 .. w /\ (g > 0 => my + g - loc[c].over <= tailIndex)
  BY <1>1 DEF Least
<1>3. To(c, p, l) /\ pc[c] = "reload"
  BY DEF Reload
<1>4. UNCHANGED <<tailIndex, headIndex, dequeueOptimisticCount, dequeueOvercommit,
                  void, won>>
  BY DEF Reload
<1> HIDE DEF g
<1>5. l \in Local /\ l.my = my /\ l.want = w /\ l.got = g
  BY <1>1, <1>2 DEF BaseInv, BaseTypeOK, Local
<1> HIDE DEF l
<1>6. /\ pc'[c] = p /\ loc'[c] = l
      /\ \A d \in Consumer \ {c} :
           /\ pc'[d] = pc[d] /\ loc'[d] = loc[d]
           /\ Open(d)' = Open(d) /\ Mine(d)' = Mine(d)
  BY <1>3, OthersStay DEF BaseInv
<1>7. BaseTypeOK'
  BY <1>3, <1>4, <1>5 DEF BaseInv, BaseTypeOK, To
<1>8. \A d \in Consumer : Open(d)' = Open(d)
  <2>1. Open(c) = my .. my + w - 1
    BY <1>3 DEF Open
  <2>2. Open(c)' = my .. my + w - 1
    <3>1. CASE p = "give"
      BY <3>1, <1>5, <1>6 DEF Open
    <3>2. CASE p = "head"
      <4>1. g = w
        BY <3>2, <1>1, <1>2
      <4>2. QED
        BY <3>2, <4>1, <1>5, <1>6 DEF Open, Succeeded
    <3>3. QED
      BY <3>1, <3>2
  <2>3. QED
    BY <1>6, <2>1, <2>2
<1>9. ClaimInv'
  BY <1>4, <1>8 DEF BaseInv, ClaimInv
<1>10. CountInv' /\ TopInv'
  BY <1>4 DEF BaseInv, CountInv, TopInv, Reached, Below
<1>11. TakeInv'
  BY <1>4, <1>6 DEF BaseInv, TakeInv
<1>12. LocalInv'
  <2>1. ASSUME NEW d \in Consumer \ {c}
        PROVE  /\ pc'[d] = pc[d] /\ loc'[d] = loc[d]
               /\ Reached(loc[d].my + loc[d].got - 1)' = Reached(loc[d].my + loc[d].got - 1)
               /\ Below(loc[d].my)' = Below(loc[d].my)
    <3>1. pc'[d] = pc[d] /\ loc'[d] = loc[d]
      BY <1>6
    <3>2. QED
      BY <3>1, <1>4 DEF Reached, Below
  <2>2. ASSUME NEW n \in Nat, n = my + g - 1, g > 0
        PROVE  Reached(n)'
    <3>1. Below(n + 1) \in SUBSET (0 .. dequeueOptimisticCount - 1)
      BY DEF BaseInv, ClaimInv, Below
    <3>2. IsFiniteSet(Below(n + 1)) /\ Cardinality(Below(n + 1)) \in Nat
      BY <3>1, <1>1, BoundedFinite
    <3>3. my < n + 1
      BY <2>2, <1>1, <1>2
    <3>4. Below(my) \in SUBSET Below(n + 1)
      <4> HIDE DEF my
      <4>1. ASSUME NEW x \in void, x < my PROVE x < n + 1
        <5>1. x \in Int
          BY DEF BaseInv, BaseTypeOK
        <5>2. QED
          BY <5>1, <4>1, <3>3, <1>1
      <4>2. QED
        BY <4>1 DEF Below
    <3>5. Cardinality(Below(my)) <= Cardinality(Below(n + 1)) /\ IsFiniteSet(Below(my))
      BY <3>2, <3>4, FS_Subset, Zenon
    <3>6. Cardinality(Below(my)) \in Nat
      BY <3>5, FS_CardinalityType, Zenon
    <3>7. loc[c].over <= Cardinality(Below(my))
      BY <1>3 DEF BaseInv, LocalInv
    <3>8. n + 1 - Cardinality(Below(n + 1)) <= tailIndex
      BY <1>1, <1>2, <2>2, <3>2, <3>5, <3>6, <3>7
    <3>9. QED
      BY <3>8, <1>4 DEF Reached, Below
  <2>3. g > 0 => my + g - 1 \in Nat
    BY <1>1, <1>2
  <2>4. pc'[c] \in {"give", "head"} /\ loc'[c].my = my /\ loc'[c].want = w /\ loc'[c].got = g
    BY <1>5, <1>6
  <2>5. loc'[c].got > 0 => Reached(loc[c].my + loc[c].got - 1)'
    BY <2>2, <2>3, <2>4
  <2>6. /\ pc'[c] = "give" => loc'[c].got < loc'[c].want
        /\ pc'[c] = "head" => loc'[c].got >= 1
    BY <1>1, <1>2, <1>6, <2>4
  <2>7. QED
    BY <1>4, <2>1, <2>4, <2>5, <2>6 DEF BaseInv, LocalInv
<1>13. QED
  BY <1>7, <1>9, <1>10, <1>11, <1>12 DEF BaseInv

\* fetch_add on dequeueOvercommit: the failed part of the claim becomes void.
LEMMA GiveBackStep ==
  ASSUME BaseInv, NEW c \in Consumer, GiveBack(c)
  PROVE  BaseInv'
<1> DEFINE my == loc[c].my
           w == loc[c].want
           g == loc[c].got
           F == Failed(c)
           p == IF g = 0 THEN "idle" ELSE "head"
           l == IF g = 0 THEN Zero ELSE loc[c]
<1>1. /\ my \in Nat /\ w \in Nat /\ g \in Nat /\ g < w
      /\ dequeueOptimisticCount \in Nat /\ dequeueOvercommit \in Nat
      /\ pc[c] = "give" /\ loc[c] \in Local
  BY DEF BaseInv, BaseTypeOK, Local, LocalInv, GiveBack
<1>2. To(c, p, l)
  BY DEF GiveBack
<1>3. /\ UNCHANGED <<tailIndex, headIndex, dequeueOptimisticCount, won>>
      /\ void' = void \cup F /\ dequeueOvercommit' = dequeueOvercommit + (w - g)
  BY DEF GiveBack
<1>4. /\ pc'[c] = p /\ loc'[c] = l
      /\ \A d \in Consumer \ {c} :
           /\ pc'[d] = pc[d] /\ loc'[d] = loc[d]
           /\ Open(d)' = Open(d) /\ Mine(d)' = Mine(d)
  BY <1>2, OthersStay DEF BaseInv
<1>5. BaseTypeOK'
  <2>1. l \in Local
    BY <1>1 DEF Local, Zero
  <2>2. F \subseteq Nat
    BY <1>1 DEF Failed
  <2>3. dequeueOvercommit' \in Nat
    BY <1>1, <1>3
  <2> HIDE DEF l
  <2>4. QED
    BY <1>2, <1>3, <2>1, <2>2, <2>3 DEF BaseInv, BaseTypeOK, To
<1>6. /\ Open(c) = Open(c)' \cup F /\ Open(c)' \cap F = {}
  <2>1. Open(c) = my .. my + w - 1 /\ F = my + g .. my + w - 1
    BY <1>1 DEF Open, Failed
  <2>2. Open(c)' = my .. my + g - 1
    <3>1. CASE g = 0
      BY <3>1, <1>1, <1>4 DEF Open
    <3>2. CASE g # 0
      BY <3>2, <1>1, <1>4 DEF Open, Succeeded
    <3>3. QED
      BY <3>1, <3>2
  <2>3. /\ my .. my + w - 1 = (my .. my + g - 1) \cup (my + g .. my + w - 1)
        /\ (my .. my + g - 1) \cap (my + g .. my + w - 1) = {}
    BY <1>1, SplitInterval
  <2>4. QED
    BY <2>1, <2>2, <2>3
<1> HIDE DEF p, l
<1>7. ClaimInv'
  <2> HIDE DEF F
  <2>1. /\ void' \subseteq 0 .. dequeueOptimisticCount' - 1
        /\ won' \subseteq 0 .. dequeueOptimisticCount' - 1
        /\ void' \cap won' = {}
    BY <1>3, <1>6 DEF BaseInv, ClaimInv
  <2>2. ASSUME NEW d \in Consumer
        PROVE  /\ Open(d)' \subseteq 0 .. dequeueOptimisticCount' - 1
               /\ Open(d)' \cap void' = {} /\ Open(d)' \cap won' = {}
    <3>1. CASE d = c
      BY <3>1, <1>3, <1>6 DEF BaseInv, ClaimInv
    <3>2. CASE d # c
      <4>1. Open(d)' = Open(d) /\ Open(d) \cap Open(c) = {}
        BY <3>2, <1>4 DEF BaseInv, ClaimInv
      <4>2. QED
        BY <4>1, <1>3, <1>6 DEF BaseInv, ClaimInv
    <3>3. QED
      BY <3>1, <3>2
  <2>3. ASSUME NEW d \in Consumer, NEW e \in Consumer \ {d}
        PROVE  Open(d)' \cap Open(e)' = {}
    <3>1. Open(d) \cap Open(e) = {}
      BY DEF BaseInv, ClaimInv
    <3>2. Open(d)' \subseteq Open(d) /\ Open(e)' \subseteq Open(e)
      BY <1>4, <1>6
    <3>3. QED
      BY <3>1, <3>2
  <2>4. ASSUME NEW x \in 0 .. dequeueOptimisticCount' - 1
        PROVE  x \in void' \/ x \in won' \/ \E d \in Consumer : x \in Open(d)'
    <3>1. x \in void \/ x \in won \/ \E d \in Consumer : x \in Open(d)
      BY <1>3 DEF BaseInv, ClaimInv
    <3>2. ASSUME NEW d \in Consumer, x \in Open(d)
          PROVE  x \in F \/ x \in Open(d)'
      BY <3>2, <1>4, <1>6
    <3>3. QED
      BY <3>1, <3>2, <1>3
  <2>5. QED
    BY <2>1, <2>2, <2>3, <2>4 DEF ClaimInv
<1>8. CountInv'
  <2>1. F = my + g .. my + g + (w - g) - 1
    BY <1>1 DEF Failed
  <2>2. void \cap F = {}
    BY <1>6 DEF BaseInv, ClaimInv
  <2>3. my + g \in Nat /\ w - g \in Nat
    BY <1>1
  <2>4. void \in SUBSET (0 .. dequeueOptimisticCount - 1)
    BY DEF BaseInv, ClaimInv
  <2> HIDE DEF F, my, w, g
  <2>5. Cardinality(void \cup F) = Cardinality(void) + (w - g)
    BY <1>1, <2>1, <2>2, <2>3, <2>4, AddInterval, ZenonT(40)
  <2>6. QED
    BY <2>5, <1>3 DEF BaseInv, CountInv
<1>9. void \subseteq void' /\ tailIndex <= tailIndex'
  BY <1>3 DEF BaseInv, BaseTypeOK
<1>10. TopInv'
  BY <1>3, <1>5, <1>7, <1>9, TopStays
<1>11. TakeInv'
  <2>1. pc'[c] # "take"
    BY <1>4 DEF p
  <2>2. QED
    BY <2>1, <1>3, <1>4 DEF BaseInv, TakeInv
<1>12. LocalInv'
  <2>1. ASSUME NEW d \in Consumer \ {c}
        PROVE  /\ pc'[d] = pc[d] /\ loc'[d] = loc[d]
               /\ pc[d] = "reload" => loc[d].over <= Cardinality(Below(loc[d].my)')
               /\ pc[d] \in {"give", "head"} /\ loc[d].got > 0 =>
                    Reached(loc[d].my + loc[d].got - 1)'
    <3>1. pc'[d] = pc[d] /\ loc'[d] = loc[d]
      BY <1>4
    <3>2. loc[d].my \in Nat /\ loc[d].got \in Nat /\ loc[d].over \in Nat
      BY DEF BaseInv, BaseTypeOK, Local
    <3>3. ASSUME NEW n \in Nat, n = loc[d].my, pc[d] = "reload"
          PROVE  loc[d].over <= Cardinality(Below(n)')
      <4>1. loc[d].over <= Cardinality(Below(n))
        BY <3>3 DEF BaseInv, LocalInv
      <4>2. /\ Cardinality(Below(n)) \in Nat /\ Cardinality(Below(n)') \in Nat
            /\ Cardinality(Below(n)) <= Cardinality(Below(n)')
        BY <1>5, <1>7, <1>9, BelowGrows DEF BaseInv
      <4>3. QED
        BY <3>2, <4>1, <4>2
    <3>4. ASSUME NEW n \in Nat, n = loc[d].my + loc[d].got - 1,
                 pc[d] \in {"give", "head"}, loc[d].got > 0
          PROVE  Reached(n)'
      <4>1. Reached(n)
        BY <3>4 DEF BaseInv, LocalInv
      <4>2. QED
        BY <4>1, <1>5, <1>7, <1>9, ReachedStays DEF BaseInv
    <3>5. loc[d].got > 0 => loc[d].my + loc[d].got - 1 \in Nat
      BY <3>2
    <3>6. QED
      BY <3>1, <3>2, <3>3, <3>4, <3>5
  <2>2. pc'[c] = "head" => loc'[c] = loc[c] /\ g >= 1
    BY <1>1, <1>4 DEF p, l
  <2>3. pc'[c] = "head" => Reached(loc[c].my + loc[c].got - 1)'
    <3>1. SUFFICES ASSUME pc'[c] = "head"
                   PROVE  Reached(loc[c].my + loc[c].got - 1)'
      OBVIOUS
    <3>2. my + g - 1 \in Nat
      BY <1>1, <2>2, <3>1
    <3>3. ASSUME NEW n \in Nat, n = my + g - 1
          PROVE  Reached(n)'
      <4>1. Reached(n)
        BY <1>1, <2>2, <3>1, <3>3 DEF BaseInv, LocalInv
      <4>2. QED
        BY <4>1, <1>5, <1>7, <1>9, ReachedStays DEF BaseInv
    <3>4. QED
      BY <2>2, <3>1, <3>2, <3>3
  <2>4. pc'[c] \in {"idle", "head"}
    BY <1>4 DEF p
  <2>5. dequeueOvercommit <= dequeueOvercommit'
    BY <1>1, <1>3
  <2>6. ASSUME NEW d \in Consumer \ {c}, pc[d] \in {"optimistic", "claim"}
        PROVE  loc[d].over <= dequeueOvercommit'
    <3>1. loc[d].over <= dequeueOvercommit /\ loc[d].over \in Nat
      BY <2>6 DEF BaseInv, BaseTypeOK, LocalInv, Local
    <3>2. QED
      BY <3>1, <2>5, <1>1, <1>3
  <2>7. QED
    BY <2>1, <2>2, <2>3, <2>4, <2>6 DEF BaseInv, LocalInv
<1>13. QED
  BY <1>5, <1>7, <1>8, <1>10, <1>11, <1>12 DEF BaseInv

\* fetch_add on headIndex: what is left of the claim is won.
LEMMA FetchHeadStep ==
  ASSUME BaseInv, NEW c \in Consumer, FetchHead(c)
  PROVE  BaseInv'
<1> DEFINE my == loc[c].my
           g == loc[c].got
           S == Succeeded(c)
           l == [Zero EXCEPT !.index = headIndex, !.got = g]
<1>1. /\ my \in Nat /\ g \in Nat /\ g >= 1 /\ headIndex \in Nat
      /\ dequeueOptimisticCount \in Nat /\ pc[c] = "head"
  BY DEF BaseInv, BaseTypeOK, Local, LocalInv, FetchHead
<1>2. To(c, "take", l)
  BY DEF FetchHead
<1>3. /\ UNCHANGED <<tailIndex, dequeueOptimisticCount, dequeueOvercommit, void>>
      /\ won' = won \cup S /\ headIndex' = headIndex + g
  BY DEF FetchHead
<1>4. l \in Local /\ l.index = headIndex /\ l.got = g
  BY <1>1 DEF Local, Zero
<1> HIDE DEF l
<1>5. /\ pc'[c] = "take" /\ loc'[c] = l
      /\ \A d \in Consumer \ {c} :
           /\ pc'[d] = pc[d] /\ loc'[d] = loc[d]
           /\ Open(d)' = Open(d) /\ Mine(d)' = Mine(d)
  BY <1>2, OthersStay DEF BaseInv
<1>6. S = my .. my + g - 1 /\ Open(c) = S /\ Open(c)' = {}
  BY <1>1, <1>5 DEF Open, Succeeded
<1>7. BaseTypeOK'
  <2>1. S \subseteq Nat
    BY <1>1, <1>6
  <2>2. headIndex' \in Nat
    BY <1>1, <1>3
  <2> HIDE DEF S
  <2>3. QED
    BY <1>2, <1>3, <1>4, <2>1, <2>2 DEF BaseInv, BaseTypeOK, To
<1>8. ClaimInv'
  <2> HIDE DEF S
  <2>1. /\ void' \subseteq 0 .. dequeueOptimisticCount' - 1
        /\ won' \subseteq 0 .. dequeueOptimisticCount' - 1
        /\ void' \cap won' = {}
    BY <1>3, <1>6 DEF BaseInv, ClaimInv
  <2>2. ASSUME NEW d \in Consumer
        PROVE  /\ Open(d)' \subseteq 0 .. dequeueOptimisticCount' - 1
               /\ Open(d)' \cap void' = {} /\ Open(d)' \cap won' = {}
               /\ \A e \in Consumer \ {d} : Open(d)' \cap Open(e)' = {}
    <3>1. CASE d = c
      BY <3>1, <1>6
    <3>2. CASE d # c
      <4>1. Open(d)' = Open(d) /\ Open(d) \cap Open(c) = {}
        BY <3>2, <1>5 DEF BaseInv, ClaimInv
      <4>2. \A e \in Consumer : Open(e)' \subseteq Open(e)
        BY <1>5, <1>6
      <4>3. QED
        BY <4>1, <4>2, <1>3, <1>6 DEF BaseInv, ClaimInv
    <3>3. QED
      BY <3>1, <3>2
  <2>3. ASSUME NEW x \in 0 .. dequeueOptimisticCount' - 1
        PROVE  x \in void' \/ x \in won' \/ \E d \in Consumer : x \in Open(d)'
    <3>1. x \in void \/ x \in won \/ \E d \in Consumer : x \in Open(d)
      BY <1>3 DEF BaseInv, ClaimInv
    <3>2. ASSUME NEW d \in Consumer, x \in Open(d)
          PROVE  x \in S \/ x \in Open(d)'
      BY <3>2, <1>5, <1>6
    <3>3. QED
      BY <3>1, <3>2, <1>3
  <2>4. QED
    BY <2>1, <2>2, <2>3 DEF ClaimInv
<1>9. CountInv'
  <2>1. won \cap S = {} /\ won \in SUBSET (0 .. dequeueOptimisticCount - 1)
    BY <1>6 DEF BaseInv, ClaimInv
  <2>2. S = my .. my + g - 1
    BY <1>6
  <2> HIDE DEF S, my, g
  <2>3. Cardinality(won \cup S) = Cardinality(won) + g
    BY <1>1, <2>1, <2>2, AddInterval
  <2>4. QED
    BY <2>3, <1>3 DEF BaseInv, CountInv
<1>10. LocalInv'
  <2>1. ASSUME NEW d \in Consumer \ {c}
        PROVE  /\ pc'[d] = pc[d] /\ loc'[d] = loc[d]
               /\ Reached(loc[d].my + loc[d].got - 1)' = Reached(loc[d].my + loc[d].got - 1)
               /\ Below(loc[d].my)' = Below(loc[d].my)
    <3>1. pc'[d] = pc[d] /\ loc'[d] = loc[d]
      BY <1>5
    <3>2. QED
      BY <3>1, <1>3 DEF Reached, Below
  <2>2. QED
    BY <1>3, <1>5, <2>1 DEF BaseInv, LocalInv
<1>11. TopInv'
  <2>1. my + g - 1 \in Nat /\ my + g - 1 \in S
    BY <1>1, <1>6
  <2>2. Reached(my + g - 1)
    BY <1>1 DEF BaseInv, LocalInv
  <2>3. ASSUME NEW s \in Nat, Reached(s)
        PROVE  Reached(s)'
    BY <2>3, <1>3 DEF Reached, Below
  <2>4. ASSUME NEW m \in Nat, m = my + g - 1
        PROVE  TopInv'
    <3>1. Reached(m)' /\ m \in won' /\ \A x \in S : x <= m
      BY <2>1, <2>2, <2>3, <2>4, <1>1, <1>3, <1>6
    <3>2. CASE won = {}
      BY <3>1, <3>2, <1>3 DEF TopInv
    <3>3. ASSUME NEW s \in won, Reached(s), \A x \in won : x <= s
          PROVE  TopInv'
      <4>1. s \in Nat /\ Reached(s)' /\ s \in won' /\ won \subseteq Nat /\ S \subseteq Nat
        BY <3>3, <2>3, <1>1, <1>3, <1>6 DEF BaseInv, BaseTypeOK
      <4>2. CASE s <= m
        <5>1. \A x \in won' : x <= m
          BY <4>1, <4>2, <3>1, <3>3, <1>3
        <5>2. QED
          BY <5>1, <3>1 DEF TopInv
      <4>3. CASE ~(s <= m)
        <5>1. \A x \in won' : x <= s
          BY <4>1, <4>3, <3>1, <3>3, <1>3
        <5>2. QED
          BY <5>1, <4>1 DEF TopInv
      <4>4. QED
        BY <4>2, <4>3
    <3>4. QED
      BY <3>2, <3>3 DEF BaseInv, TopInv
  <2>5. QED
    BY <2>1, <2>4
<1>12. TakeInv'
  <2>1. Mine(c)' = headIndex .. headIndex + g - 1
    BY <1>4, <1>5 DEF Mine
  <2>2. ASSUME NEW d \in Consumer \ {c}, pc[d] = "take"
        PROVE  Mine(d) \subseteq 0 .. headIndex - 1 /\ loc[d].index + loc[d].got <= headIndex'
    BY <2>2, <1>1, <1>3 DEF BaseInv, TakeInv, BaseTypeOK, Local, Mine
  <2>3. ASSUME NEW d \in Consumer \ {c}, pc'[d] = "take"
        PROVE  Mine(c)' \cap Mine(d)' = {}
    BY <2>1, <2>2, <2>3, <1>1, <1>5
  <2>4. ASSUME NEW d \in Consumer \ {c}, NEW e \in Consumer \ {c, d},
               pc'[d] = "take", pc'[e] = "take"
        PROVE  Mine(d)' \cap Mine(e)' = {}
    BY <2>4, <1>5 DEF BaseInv, TakeInv
  <2>5. loc'[c].index + loc'[c].got <= headIndex'
    BY <1>1, <1>3, <1>4, <1>5
  <2>6. QED
    BY <1>5, <2>2, <2>3, <2>4, <2>5 DEF TakeInv
<1>13. QED
  BY <1>7, <1>8, <1>9, <1>10, <1>11, <1>12 DEF BaseInv

\* Every step of a producer preserves the invariant.
LEMMA BaseInvNext ==
  ASSUME BaseInv, [BaseNext]_baseVars
  PROVE  BaseInv'
<1>1. ASSUME NEW n \in 1..MaxBulk, Publish(n) PROVE BaseInv'
  BY <1>1, PublishStep
<1>2. ASSUME NEW c \in Consumer,
             (\E max \in 1..MaxBulk : LoadTail(c, max)) \/ Claiming(c) \/ Taken(c)
      PROVE  BaseInv'
  BY <1>2, LoadStep, ClaimStep, ReloadStep, GiveBackStep, FetchHeadStep DEF Claiming
<1>3. CASE UNCHANGED baseVars
  <2>1. BaseTypeOK' /\ CountInv' /\ TakeInv'
    BY <1>3 DEF baseVars, BaseInv, BaseTypeOK, CountInv, TakeInv, Mine
  <2>2. ClaimInv'
    BY <1>3 DEF baseVars, BaseInv, ClaimInv, Open, Succeeded
  <2>3. LocalInv' /\ TopInv'
    BY <1>3 DEF baseVars, BaseInv, LocalInv, TopInv, Reached, Below
  <2>4. QED
    BY <2>1, <2>2, <2>3 DEF BaseInv
<1>4. QED
  BY <1>1, <1>2, <1>3 DEF BaseNext

\* The highest claim won bounds headIndex.
LEMMA HeadBehindTail ==
  ASSUME BaseInv
  PROVE  OnlyPublished
<1>0. /\ tailIndex \in Nat /\ dequeueOptimisticCount \in Nat
      /\ headIndex = Cardinality(won)
  BY BaseAssumption DEF BaseInv, BaseTypeOK, CountInv
<1>1. CASE won = {}
  BY <1>0, <1>1, FS_EmptySet DEF OnlyPublished
<1>2. ASSUME NEW s \in won, Reached(s), \A x \in won : x <= s
      PROVE  OnlyPublished
  <2> DEFINE I == 0 .. s
             B == Below(s + 1)
  <2>1. s \in Nat /\ won \subseteq Nat /\ void \subseteq Nat
    BY <1>2 DEF BaseInv, BaseTypeOK
  <2>2. IsFiniteSet(I) /\ Cardinality(I) = s + 1
    <3>1. IsFiniteSet(0 .. s) /\ Cardinality(0 .. s) = IF 0 > s THEN 0 ELSE s - 0 + 1
      BY <2>1, FS_Interval
    <3>2. QED
      BY <2>1, <3>1
  <2>3. B \subseteq I /\ I \cap B = B
    <3>1. ASSUME NEW x \in void, x < s + 1 PROVE x \in 0 .. s
      BY <2>1, <3>1
    <3>2. B \subseteq I
      BY <3>1 DEF Below
    <3>3. QED
      BY <3>2
  <2>4. won \in SUBSET (I \ B)
    BY <1>2, <2>1 DEF BaseInv, ClaimInv, Below
  <2> HIDE DEF I, B
  <2>5. IsFiniteSet(I \ B) /\ Cardinality(I \ B) = Cardinality(I) - Cardinality(I \cap B)
    BY <2>2, FS_Difference, Zenon
  <2>6. Cardinality(won) <= Cardinality(I \ B)
    BY <2>4, <2>5, FS_Subset, Zenon
  <2>7. IsFiniteSet(B) /\ Cardinality(B) \in Nat
    <3>1. IsFiniteSet(B)
      BY <2>2, <2>3, FS_Subset
    <3>2. QED
      BY <3>1, FS_CardinalityType
  <2>8. Cardinality(won) <= (s + 1) - Cardinality(B)
    BY <2>2, <2>3, <2>5, <2>6
  <2>9. headIndex \in Nat /\ s + 1 - Cardinality(B) <= tailIndex
    BY <1>2 DEF BaseInv, BaseTypeOK, Reached, B
  <2>10. QED
    BY <1>0, <2>1, <2>7, <2>8, <2>9 DEF OnlyPublished
<1>3. QED
  BY <1>1, <1>2 DEF BaseInv, TopInv

\* The invariant implies that no two calls hold an element and that an element
\* held is gone from the queue (headIndex has passed it).
LEMMA TakenOnce ==
  ASSUME BaseInv
  PROVE  ExactlyOnce
<1>1. headIndex <= tailIndex
  BY HeadBehindTail DEF OnlyPublished
<1> SUFFICES ASSUME NEW c \in Consumer, pc[c] = "take"
             PROVE  /\ Mine(c) \subseteq 0 .. tailIndex - 1
                    /\ Mine(c) \cap (headIndex .. tailIndex - 1) = {}
  BY DEF ExactlyOnce, BaseInv, TakeInv
<1>2. loc[c].index \in Nat /\ loc[c].got \in Nat /\ loc[c].index + loc[c].got <= headIndex
  BY DEF BaseInv, BaseTypeOK, TakeInv, Local
<1>3. headIndex \in Nat /\ tailIndex \in Nat
  BY BaseAssumption DEF BaseInv, BaseTypeOK
<1>4. QED
  BY <1>1, <1>2, <1>3 DEF Mine

\* With no claim open, the claims minus those given back are the elements taken.
LEMMA ClaimsSettled ==
  ASSUME BaseInv
  PROVE  NothingHidden
<1> SUFFICES ASSUME \A c \in Consumer : pc[c] \notin {"reload", "give", "head"}
             PROVE  dequeueOptimisticCount - dequeueOvercommit = headIndex
  BY DEF NothingHidden
<1> DEFINE C == dequeueOptimisticCount
<1>1. \A c \in Consumer : Open(c) = {}
  BY DEF Open
<1>2. 0 .. C - 1 = void \cup won /\ void \cap won = {}
  BY <1>1 DEF BaseInv, ClaimInv
<1>3. C \in Nat
  BY DEF BaseInv, BaseTypeOK
<1>4. Cardinality(0 .. C - 1) = C
  <2>1. Cardinality(0 .. C - 1) = IF 0 > C - 1 THEN 0 ELSE (C - 1) - 0 + 1
    BY <1>3, FS_Interval
  <2>2. QED
    BY <1>3, <2>1
<1>5. void \in SUBSET (0 .. C - 1) /\ won \in SUBSET (0 .. C - 1)
  BY <1>2
<1>6. /\ IsFiniteSet(void) /\ Cardinality(void) \in Nat
      /\ IsFiniteSet(won) /\ Cardinality(won) \in Nat
  BY <1>3, <1>5, BoundedFinite
<1>7. Cardinality(void \cup won) =
        Cardinality(void) + Cardinality(won) - Cardinality(void \cap won)
  BY <1>6, FS_Union, Zenon
<1>8. Cardinality(void \cap won) = 0
  BY <1>2, FS_EmptySet
<1>9. C = Cardinality(void) + Cardinality(won)
  <2>1. Cardinality(void \cup won) = C
    BY <1>2, <1>4
  <2>2. QED
    BY <2>1, <1>6, <1>7, <1>8
<1>10. QED
  BY <1>6, <1>9 DEF BaseInv, CountInv

-------------------------------------------------------------------------------
\* Consumers claim no more than their callers have room for.
THEOREM BaseTypeCorrect == BaseSpec => []BaseTypeOK
<1>1. BaseInv => BaseTypeOK
  BY DEF BaseInv
<1>2. QED
  BY BaseInvInit, BaseInvNext, <1>1, PTL DEF BaseSpec

\* headIndex never passes tailIndex, for any number of consumers: the stale
\* overcommit each of them works with errs on the safe side.
THEOREM HeadNeverPassesTail == BaseSpec => []OnlyPublished
<1>1. BaseInv => OnlyPublished
  BY HeadBehindTail
<1>2. QED
  BY BaseInvInit, BaseInvNext, <1>1, PTL DEF BaseSpec

\* Every element is taken by at most one consumer, and only once published.
THEOREM TakenExactlyOnce == BaseSpec => []ExactlyOnce
<1>1. BaseInv => ExactlyOnce
  BY TakenOnce
<1>2. QED
  BY BaseInvInit, BaseInvNext, <1>1, PTL DEF BaseSpec

\* When no claim is open, dequeueOptimisticCount less dequeueOvercommit is
\* headIndex: no interleaving of claims and give-backs hides an element.
THEOREM NoElementHidden == BaseSpec => []NothingHidden
<1>1. BaseInv => NothingHidden
  BY ClaimsSettled
<1>2. QED
  BY BaseInvInit, BaseInvNext, <1>1, PTL DEF BaseSpec

\* All of it together: dequeueOptimisticCount and dequeueOvercommit let any
\* number of consumers share a sub-queue without a compare-and-swap.
THEOREM ClaimsAreSound == BaseSpec => []ClaimsSound
  BY BaseTypeCorrect, HeadNeverPassesTail, TakenExactlyOnce, NoElementHidden, PTL
  DEF ClaimsSound

(***************************************************************************)
(* ImplicitProducer implements the counter protocol of ProducerBase, for   *)
(* any number of consumers, any block and index size and whatever fails or *)
(* throws on the way; so the theorems above hold of it.                    *)
(*                                                                         *)
(* All but four kinds of steps leave the counters alone.  The one that     *)
(* needs an invariant is the publication: the number of elements that      *)
(* enqueue_bulk adds to tailIndex is still the count it was called with,   *)
(* although the call went through allocation, growth of the index and      *)
(* construction in between.                                                *)
(***************************************************************************)
\* A call of enqueue_bulk in progress, and one that is being undone.
Ongoing(p, n, b, ch) == [pc |-> p, n |-> n, base |-> b, chain |-> ch]
Undone(b, ch) == [pc |-> "undo", chain |-> ch, base |-> b]

\* The inductive invariant: a call in progress remembers its count.
CountKept ==
  \/ \E p, n, b, ch : n \in 1..MaxBulk /\ enq = Ongoing(p, n, b, ch)
  \/ \E b, ch : enq = Undone(b, ch)
  \/ enq = Idle
  \/ enq = [pc |-> "destroyed"]

\* Init of the detailed sub-queue is an initial state of the protocol.
LEMMA ImplicitInit == Init => BaseInit /\ CountKept
BY DEF Init, CountKept

\* Every step of enqueue_bulk keeps the count, and is a publication of 1 to
\* MaxBulk elements or leaves the counters alone.
LEMMA EnqueueBulkStep ==
  ASSUME CountKept, EnqueueBulk
  PROVE  CountKept' /\ [BaseNext]_baseVars
<1>1. ASSUME NEW n \in 1..MaxBulk, Enqueue(n) PROVE CountKept' /\ UNCHANGED baseVars
  <2>1. enq' = Ongoing(IF FirstNew <= LastNew(n) THEN "room" ELSE "construct",
                       n, FirstNew, <<>>)
    BY <1>1 DEF Enqueue, Ongoing
  <2>2. UNCHANGED baseVars
    BY <1>1 DEF Enqueue
  <2> QED
    BY <2>1, <2>2, <1>1 DEF CountKept
<1>2. ASSUME Room \/ InsertFails \/ RequisitionFails \/ ConstructThrows
      PROVE  CountKept' /\ UNCHANGED baseVars
  <2>1. PICK p, n, b, ch : n \in 1..MaxBulk /\ enq = Ongoing(p, n, b, ch)
    BY <1>2 DEF Room, InsertFails, RequisitionFails, ConstructThrows, CountKept,
                Undone, Idle
  <2>2. enq' = Undone(FirstNew, enq.chain) \/ enq' = Ongoing("insert", n, b, ch)
    BY <1>2, <2>1 DEF Room, InsertFails, RequisitionFails, ConstructThrows, Undo,
                      Undone, Ongoing
  <2>3. UNCHANGED baseVars
    BY <1>2 DEF Room, InsertFails, RequisitionFails, ConstructThrows
  <2> QED
    BY <2>1, <2>2, <2>3 DEF CountKept
<1>3. ASSUME InsertKey \/ InsertTail \/ NewBlockIndex \/ Requisition \/ SetValue \/ Construct
      PROVE  CountKept' /\ UNCHANGED baseVars
  <2>0. enq.pc \in {"insert", "tail", "block", "value", "construct"}
    BY <1>3 DEF InsertKey, InsertTail, NewBlockIndex, Requisition, SetValue, Construct
  <2>1. PICK p, n, b, ch : n \in 1..MaxBulk /\ enq = Ongoing(p, n, b, ch)
    BY <2>0 DEF CountKept, Undone, Idle
  <2>2. \E q, d, ci : enq' = Ongoing(q, n, d, ci)
    <3>1. ASSUME InsertKey \/ InsertTail \/ NewBlockIndex \/ Construct
          PROVE  \E q : enq' = Ongoing(q, n, b, ch)
      BY <3>1, <2>1 DEF InsertKey, InsertTail, NewBlockIndex, Construct, Ongoing
    <3>2. ASSUME Requisition PROVE \E ci : enq' = Ongoing("value", n, b, ci)
      BY <3>2, <2>1 DEF Requisition, Ongoing
    <3>3. ASSUME SetValue
          PROVE  enq' = Ongoing(IF enq.base < LastNew(enq.n) THEN "room" ELSE "construct",
                                n, b + BLOCK_SIZE, ch)
      BY <3>3, <2>1 DEF SetValue, Ongoing
    <3> QED
      BY <1>3, <3>1, <3>2, <3>3
  <2>3. UNCHANGED baseVars
    BY <1>3 DEF InsertKey, InsertTail, NewBlockIndex, Requisition, SetValue, Construct
  <2> QED
    BY <2>1, <2>2, <2>3 DEF CountKept
<1>4. ASSUME UndoEntry PROVE CountKept' /\ UNCHANGED baseVars
  <2>1. CASE \E p, n, b, ch : n \in 1..MaxBulk /\ enq = Ongoing(p, n, b, ch)
    <3>1. PICK p, n, b, ch : n \in 1..MaxBulk /\ enq = Ongoing(p, n, b, ch)
      BY <2>1
    <3>2. enq' = Ongoing(p, n, b + BLOCK_SIZE, ch)
      BY <1>4, <3>1 DEF UndoEntry, Ongoing
    <3> QED
      BY <1>4, <3>1, <3>2 DEF UndoEntry, CountKept
  <2>2. CASE \E b, ch : enq = Undone(b, ch)
    <3>1. PICK b, ch : enq = Undone(b, ch)
      BY <2>2
    <3>2. enq' = Undone(b + BLOCK_SIZE, ch)
      BY <1>4, <3>1 DEF UndoEntry, Undone
    <3> QED
      BY <1>4, <3>2 DEF UndoEntry, CountKept
  <2> QED
    BY <1>4, <2>1, <2>2 DEF UndoEntry, CountKept, Idle
<1>5. ASSUME UndoDone PROVE CountKept' /\ UNCHANGED baseVars
  BY <1>5 DEF UndoDone, CountKept
<1>6. ASSUME EnqueuePublish PROVE CountKept' /\ \E n \in 1..MaxBulk : Publish(n)
  <2>1. PICK p, n, b, ch : n \in 1..MaxBulk /\ enq = Ongoing(p, n, b, ch)
    BY <1>6 DEF EnqueuePublish, CountKept, Undone, Idle
  <2>2. enq.n = n
    BY <2>1 DEF Ongoing
  <2> QED
    BY <1>6, <2>1, <2>2 DEF EnqueuePublish, CountKept
<1> QED
  BY <1>1, <1>2, <1>3, <1>4, <1>5, <1>6 DEF EnqueueBulk, BaseNext

\* Every step of dequeue_bulk is one of the protocol's steps of that consumer,
\* or looks at blocks and leaves the counters alone.
LEMMA DequeueBulkStep ==
  ASSUME CountKept, NEW c \in Consumer, DequeueBulk(c)
  PROVE  CountKept' /\ [BaseNext]_baseVars
<1>1. ASSUME NEW max \in 1..MaxBulk, LoadTail(c, max), UNCHANGED implVars
      PROVE  enq' = enq /\ BaseNext
  BY <1>1 DEF BaseNext, implVars
<1>2. ASSUME Claiming(c), UNCHANGED implVars PROVE enq' = enq /\ BaseNext
  BY <1>2 DEF BaseNext, implVars
<1>3. ASSUME LoadIndex(c) \/ LoadIndexTail(c) \/ LoadKey(c) \/ LoadValue(c)
      PROVE  enq' = enq /\ UNCHANGED baseVars
  BY <1>3 DEF LoadIndex, LoadIndexTail, LoadKey, LoadValue
<1>4. ASSUME Move(c) \/ SetManyEmpty(c) \/ ClearEntry(c) \/ FreeBlock(c)
      PROVE  enq' = enq /\ UNCHANGED baseVars
  BY <1>4 DEF Move, SetManyEmpty, ClearEntry, FreeBlock
<1>5. ASSUME NextRun(c) PROVE enq' = enq /\ (UNCHANGED baseVars \/ Taken(c))
  BY <1>5 DEF NextRun
<1>6. enq' = enq /\ [BaseNext]_baseVars
  BY <1>1, <1>2, <1>3, <1>4, <1>5 DEF DequeueBulk, BaseNext
<1> QED
  BY <1>6 DEF CountKept

\* A step of the detailed sub-queue is a step of the protocol or a stutter.
LEMMA ImplicitStep ==
  ASSUME CountKept, [Next]_vars
  PROVE  CountKept' /\ [BaseNext]_baseVars
<1>1. CASE EnqueueBulk
  BY <1>1, EnqueueBulkStep
<1>2. CASE \E c \in Consumer : DequeueBulk(c)
  BY <1>2, DequeueBulkStep
<1>3. CASE Destroy
  BY <1>3 DEF Destroy, CountKept
<1>4. CASE UNCHANGED vars
  BY <1>4 DEF vars, implVars, CountKept
<1> QED
  BY <1>1, <1>2, <1>3, <1>4 DEF Next

\* The sub-queue behind enqueue and dequeue, with its blocks and its index,
\* implements the counter protocol, for every value of the constants.
THEOREM ImplicitImplementsBase == Spec => ImplementsBase
<1>1. Init => BaseInit /\ CountKept
  BY ImplicitInit
<1>2. CountKept /\ [Next]_vars => CountKept' /\ [BaseNext]_baseVars
  BY ImplicitStep
<1> QED
  BY <1>1, <1>2, PTL DEF Spec, ImplementsBase, BaseSpec

\* In the real layout too, no consumer gets an element that is not published,
\* no two get the same one, and none is hidden from all of them once the
\* open claims are settled.
THEOREM ImplicitTakesExactlyOnce == Spec => []ClaimsSound
<1>1. Spec => BaseSpec
  BY ImplicitImplementsBase DEF ImplementsBase
<1> QED
  BY <1>1, ClaimsAreSound, PTL

(***************************************************************************)
(* The block index of ImplicitProducer: every element is in its place.     *)
(*                                                                         *)
(* Blocks are numbered by their bases.  An index maps a block number to    *)
(* an entry by an offset of its own, modulo its capacity: when the index   *)
(* is copied into a larger one the entries move and the offset changes,    *)
(* so the invariant says that there is an offset for each header and that  *)
(* an entry two headers share is the entry of the same block in both.      *)
(* Round the circle of the present index the keys form a window that ends  *)
(* at the last block keyed: a key once valid is followed by valid keys,    *)
(* and a lookup that starts from any tail finds its own block by the       *)
(* distance of the keys.  A block that has an element not yet counted is   *)
(* linked: its entry has its key and its address, and nobody reuses the    *)
(* entry.  A block has exactly one owner: the pool, an entry, the call     *)
(* that has just taken it or the consumer that is about to return it.      *)
(* What a consumer remembers across its steps (a header, a tail, a         *)
(* position, a block) is still true while it has elements not counted.     *)
(***************************************************************************)

\* Blocks are numbered from 0 in the order of their bases.
BlockNo(i) == i \div BLOCK_SIZE
Elems(m) == BLOCK_SIZE * m .. BLOCK_SIZE * m + BLOCK_SIZE - 1

\* The first block a new call needs, and the one a call in progress is at.
FirstNo == BlockNo(tailIndex + BLOCK_SIZE - 1)
CallNo == BlockNo(enq.base)

\* The number of blocks that have been given a key, and up to the index tail.
Keyed ==
  IF enq.pc = "idle" THEN FirstNo
  ELSE IF enq.pc = "undo" THEN FirstNo + Len(enq.chain)
  ELSE IF enq.pc \in {"tail", "block", "value"} THEN CallNo + 1 ELSE CallNo
AtTail ==
  IF enq.pc = "idle" THEN FirstNo
  ELSE IF enq.pc = "undo" THEN FirstNo + Len(enq.chain) - (CallNo - FirstNo)
  ELSE IF enq.pc \in {"block", "value"} THEN CallNo + 1 ELSE CallNo

\* The values of the records.
Header ==
  [capacity : Nat \ {0}, tail : Nat,
   index : UNION {[0 .. n - 1 -> Entry] : n \in Nat}]
Step == {"room", "insert", "tail", "block", "value", "construct", "publish"}
Enq ==
  [pc : {"idle"}] \cup [pc : {"undo"}, chain : Seq(Block), base : Nat]
    \cup [pc : Step, n : 1 .. MaxBulk, base : Nat, chain : Seq(Block)]
Rd ==
  [pc : {"idle"}] \cup [pc : {"tail"}, h : Nat] \cup [pc : {"key"}, h : Nat, t : Nat]
    \cup [pc : {"value"}, h : Nat, i : Nat, pos : Nat]
    \cup [pc : {"move", "count", "clear", "free", "next"}, h : Nat, i : Nat, pos : Nat,
          block : Block]
ShapeInv ==
  TypeOK /\ header \in Seq(Header) /\ enq \in Enq /\ rd \in [Consumer -> Rd]

\* The call in progress: the blocks from FirstNo up to CallNo are in its chain.
CallInv ==
  /\ enq.pc # "idle" => enq.base = BLOCK_SIZE * CallNo /\ FirstNo <= CallNo
  /\ enq.pc \in Step =>
       /\ tailIndex + enq.n <= MaxTail
       /\ Len(enq.chain) = CallNo - FirstNo + (IF enq.pc = "value" THEN 1 ELSE 0)
  /\ enq.pc \in {"room", "insert", "tail", "block", "value"} =>
       CallNo <= BlockNo(tailIndex + enq.n - 1)
  /\ enq.pc \in {"construct", "publish"} =>
       CallNo = BlockNo(tailIndex + enq.n + BLOCK_SIZE - 1)
  /\ enq.pc = "undo" => CallNo <= FirstNo + Len(enq.chain)
  /\ header = <<>> => /\ tailIndex = 0 /\ enq.pc \in {"idle", "room", "insert", "undo"}
                      /\ enq.pc # "idle" => enq.chain = <<>>
                      /\ \A e \in Entry : value[e] = Null

\* The elements c holds and has not counted, and those it has not moved out.
RunEnd(c) == Least(BaseOf(rd[c].i) + BLOCK_SIZE, loc[c].index + loc[c].got)
FirstUncounted(c) ==
  IF rd[c].pc \in {"idle", "tail", "key"} THEN loc[c].index
  ELSE IF rd[c].pc \in {"value", "move", "count"} THEN rd[c].i ELSE RunEnd(c)
FirstUnmoved(c) ==
  IF rd[c].pc \in {"idle", "tail", "key"} THEN loc[c].index
  ELSE IF rd[c].pc \in {"value", "move"} THEN rd[c].i ELSE RunEnd(c)
Uncounted(c) ==
  IF pc[c] = "take" THEN FirstUncounted(c) .. loc[c].index + loc[c].got - 1 ELSE {}
Unmoved(c) ==
  IF pc[c] = "take" THEN FirstUnmoved(c) .. loc[c].index + loc[c].got - 1 ELSE {}

\* The elements whose block has counted them as dequeued.
Counted == {i \in 0 .. headIndex - 1 : \A c \in Consumer : i \notin Uncounted(c)}
Gone(m) == Elems(m) \subseteq Counted

\* The elements that are constructed and not moved out.
Constructed == IF enq.pc = "publish" THEN tailIndex + enq.n ELSE tailIndex
Present ==
  {i \in 0 .. Constructed - 1 : i >= headIndex \/ \E c \in Consumer : i \in Unmoved(c)}

\* The blocks an entry must lead to: those with an element that is not counted
\* or whose last consumer is about to clear the entry, and those of the call.
Clearing(c, m) == rd[c].pc = "clear" /\ BlockNo(rd[c].i) = m
InUse(m) ==
  m \in 0 .. FirstNo - 1 /\ (~Gone(m) \/ \E c \in Consumer : Clearing(c, m))
InCall(m) ==
  /\ enq.pc # "idle"
  /\ (IF enq.pc = "undo" THEN CallNo ELSE FirstNo) <= m
  /\ m < FirstNo + Len(enq.chain) - (IF enq.pc = "value" THEN 1 ELSE 0)
Linked(m) == InUse(m) \/ InCall(m)

\* Blocks no entry leads to that are not in the pool: taken and not yet entered,
\* or taken out of the index again.
InHand(b) ==
  \/ enq.pc = "value" /\ b = enq.chain[Len(enq.chain)]
  \/ enq.pc = "undo" /\ \E k \in 1 .. CallNo - FirstNo : b = enq.chain[k]
FreedBy(c, b) == rd[c].pc = "free" /\ rd[c].block = b

\* Position and entry of block m in header j, given the offset of each header.
Pos(off, j, m) == (m + off[j]) % header[j].capacity
At(off, j, m) == header[j].index[Pos(off, j, m)]
CurAt(off, m) == At(off, Len(header), m)

\* No index is larger than the present one, which has every entry of its size
\* exactly once, and an entry an older index also has is where its offset says.
HeaderInv(off) ==
  /\ off \in [1 .. Len(header) -> Int]
  /\ \A j \in 1 .. Len(header) :
       /\ header[j].capacity <= Cur.capacity
       /\ header[j].index \in [0 .. header[j].capacity - 1 -> 1 .. header[j].capacity]
       /\ header[j].tail \in 0 .. header[j].capacity - 1
  /\ Cur.capacity <= MaxEntries
  /\ \A e \in 1 .. Cur.capacity : \E p \in 0 .. Cur.capacity - 1 : Cur.index[p] = e
  /\ \A j \in 1 .. Len(header) : \A q \in 0 .. header[j].capacity - 1 : \A m \in Int :
       CurAt(off, m) = header[j].index[q] => q = Pos(off, j, m)
  /\ \A j \in 1 .. Len(header) - 1 :
       key[header[j].index[header[j].tail]] # INVALID_BLOCK_BASE

\* The keys in the present index, round the circle.
WindowInv(off) ==
  /\ \A e \in Entry : e > Cur.capacity => key[e] = INVALID_BLOCK_BASE
  /\ \A m \in Int : Keyed - Cur.capacity <= m /\ m < Keyed =>
       key[CurAt(off, m)] \in {INVALID_BLOCK_BASE, BLOCK_SIZE * m,
                               BLOCK_SIZE * (m + Cur.capacity)}
  /\ \A m, k \in Int : /\ Keyed - Cur.capacity <= m /\ m <= k /\ k < Keyed
                       /\ key[CurAt(off, m)] = BLOCK_SIZE * m
                       => key[CurAt(off, k)] = BLOCK_SIZE * k
  /\ Keyed - Cur.capacity <= FirstNo
  /\ \A m \in Int : FirstNo <= m /\ m < Keyed => key[CurAt(off, m)] = BLOCK_SIZE * m
  /\ Cur.tail = Pos(off, Len(header), AtTail - 1)

\* The entry of a block that is linked has its key and its block, the block has
\* counted what was counted of its elements, no other entry has a block, and
\* tailBlock is the block of the last element while that is linked.
LinkInv(off) ==
  /\ \A m \in Int : Linked(m) =>
       /\ Keyed - Cur.capacity <= m
       /\ key[CurAt(off, m)] = BLOCK_SIZE * m
       /\ value[CurAt(off, m)] \in Block
       /\ dequeued[value[CurAt(off, m)]] = Cardinality(Counted \cap Elems(m))
  /\ \A m \in Int : InCall(m) => value[CurAt(off, m)] = enq.chain[m - FirstNo + 1]
  /\ \A e \in Entry : value[e] # Null => \E m \in Int : Linked(m) /\ e = CurAt(off, m)
  /\ \A m \in Int : Constructed > 0 /\ m = BlockNo(Constructed - 1) /\ ~Gone(m) =>
       tailBlock = value[CurAt(off, m)]

\* Consumer c has the entry of its element, and in it the block.
ReaderAt(off, c) ==
  /\ pc[c] = "take" => loc[c].got >= 1
  /\ rd[c].pc # "idle" =>
       /\ pc[c] = "take" /\ rd[c].h \in 1 .. Len(header)
       /\ \A i \in Uncounted(c) :
            At(off, rd[c].h, BlockNo(i)) = CurAt(off, BlockNo(i))
  /\ rd[c].pc = "key" =>
       /\ rd[c].t \in 0 .. header[rd[c].h].capacity - 1
       /\ key[header[rd[c].h].index[rd[c].t]] # INVALID_BLOCK_BASE
  /\ rd[c].pc \in {"value", "move", "count", "clear", "free", "next"} =>
       /\ rd[c].i \in Mine(c)
       /\ rd[c].pos = Pos(off, rd[c].h, BlockNo(rd[c].i))
  /\ rd[c].pc \in {"move", "count", "clear"} =>
       rd[c].block = value[CurAt(off, BlockNo(rd[c].i))]
  /\ rd[c].pc = "clear" =>
       /\ Gone(BlockNo(rd[c].i))
       /\ At(off, rd[c].h, BlockNo(rd[c].i)) = CurAt(off, BlockNo(rd[c].i))
       /\ \A d \in Consumer \ {c} : ~Clearing(d, BlockNo(rd[c].i))
ReaderInv(off) == \A c \in Consumer : ReaderAt(off, c)

\* Every block has exactly one owner.
OwnerInv ==
  /\ \A e \in Entry : value[e] \notin free
  /\ \A e, f \in Entry : value[e] = value[f] /\ value[e] # Null => e = f
  /\ \A b \in Block : InHand(b) =>
       /\ b \notin free /\ \A e \in Entry : value[e] # b
       /\ enq.pc = "value" => dequeued[b] = 0
  /\ \A c \in Consumer : \A b \in Block : FreedBy(c, b) =>
       /\ b \notin free /\ ~InHand(b) /\ \A e \in Entry : value[e] # b
       /\ \A d \in Consumer \ {c} : ~FreedBy(d, b)
  /\ \A b \in Block : \/ b \in free \/ InHand(b) \/ \E c \in Consumer : FreedBy(c, b)
                      \/ \E e \in Entry : value[e] = b

\* An element that is there is in its place, and a place holds nothing else.
SlotInv(off) ==
  /\ \A i \in Present : slot[<<value[CurAt(off, BlockNo(i))], i % BLOCK_SIZE>>] = i
  /\ \A b \in Block, s \in Place : slot[<<b, s>>] # Null =>
       /\ slot[<<b, s>>] \in Present /\ slot[<<b, s>>] % BLOCK_SIZE = s
       /\ value[CurAt(off, BlockNo(slot[<<b, s>>]))] = b

IndexInv(off) ==
  /\ HeaderInv(off) /\ WindowInv(off) /\ LinkInv(off) /\ ReaderInv(off) /\ SlotInv(off)

\* The inductive invariant while the producer lives; without an index (the
\* allocation in its constructor failed) nothing is stored or looked up.
BlockInv ==
  /\ ShapeInv /\ CallInv /\ OwnerInv
  /\ IF header = <<>>
     THEN /\ \A x \in Block \X Place : slot[x] = Null
          /\ \A c \in Consumer : pc[c] # "take" /\ rd[c].pc = "idle"
     ELSE \E off \in [1 .. Len(header) -> Int] : IndexInv(off)

\* After the destructor nobody is in a call and every block is in the pool.
DestroyedInv ==
  /\ enq.pc = "destroyed" /\ TypeOK
  /\ \A c \in Consumer : pc[c] = "idle" /\ rd[c].pc = "idle"
  /\ free = Block /\ \A x \in Block \X Place : slot[x] = Null

(***************************************************************************)
(* Division and remainder by a positive number.                            *)
(***************************************************************************)
\* Quotient and remainder are the only numbers of their kind.
LEMMA DivUnique ==
  ASSUME NEW c \in Nat \ {0}, NEW q \in Int, NEW r \in 0 .. c - 1
  PROVE  (c * q + r) \div c = q /\ (c * q + r) % c = r
  OBVIOUS

\* What a quotient and a remainder are.
LEMMA DivMod ==
  ASSUME NEW c \in Nat \ {0}, NEW a \in Int
  PROVE  /\ a \div c \in Int /\ a % c \in 0 .. c - 1
         /\ a = c * (a \div c) + (a % c)
<1>1. a \div c \in Int
  OBVIOUS
<1>2. a % c \in 0 .. c - 1
  OBVIOUS
<1>3. a = c * (a \div c) + (a % c)
  OBVIOUS
<1> QED
  BY <1>1, <1>2, <1>3

\* Multiples of the divisor do not change the remainder.
LEMMA ModShift ==
  ASSUME NEW c \in Nat \ {0}, NEW a \in Int, NEW k \in Int
  PROVE  (a + c * k) % c = a % c
<1> DEFINE r == a % c
<1>1. PICK q \in Int : a = c * q + r
  BY DivMod
<1>2. r \in 0 .. c - 1
  BY DivMod
<1> HIDE DEF r
<1>3. a + c * k = c * (q + k) + r /\ q + k \in Int
  BY <1>1, <1>2
<1>4. (a + c * k) % c = r
  BY <1>2, <1>3, DivUnique, ZenonT(40)
<1> QED
  BY <1>4 DEF r

\* One round more or less.
LEMMA ModRound ==
  ASSUME NEW c \in Nat \ {0}, NEW a \in Int
  PROVE  (a + c) % c = a % c
<1>1. PICK k \in Int : k = 1
  OBVIOUS
<1>2. (a + c * k) % c = a % c
  BY ModShift
<1>3. a + c * k = a + c
  BY <1>1
<1> QED
  BY <1>2, <1>3

\* A remainder may be taken early.
LEMMA ModAdd ==
  ASSUME NEW c \in Nat \ {0}, NEW a \in Int, NEW b \in Int
  PROVE  ((a % c) + b) % c = (a + b) % c
<1>1. PICK q \in Int : a = c * q + (a % c)
  BY DivMod
<1>2. a % c \in Int
  BY DivMod
<1>3. a + b = ((a % c) + b) + c * q /\ (a % c) + b \in Int
  BY <1>1, <1>2
<1> QED
  BY <1>3, ModShift

\* Numbers with the same remainder differ by a multiple of the divisor.
LEMMA ModDiff ==
  ASSUME NEW c \in Nat \ {0}, NEW a \in Int, NEW b \in Int, a % c = b % c
  PROVE  \E k \in Int : a = b + c * k
<1>1. PICK q \in Int : a = c * q + (a % c)
  BY DivMod
<1>2. PICK k \in Int : b = c * k + (b % c)
  BY DivMod
<1>3. a % c \in Int
  BY DivMod
<1>4. a = b + c * (q - k) /\ q - k \in Int
  BY <1>1, <1>2, <1>3
<1> QED
  BY <1>4

\* Numbers with the same remainder that are close are equal.
LEMMA ModEq ==
  ASSUME NEW c \in Nat \ {0}, NEW a \in Int, NEW b \in Int, a % c = b % c,
         a - b < c, b - a < c
  PROVE  a = b
<1>1. PICK k \in Int : a = b + c * k
  BY ModDiff
<1>2. k = 0
  <2>1. CASE k >= 1
    BY <2>1, <1>1
  <2>2. CASE k <= -1
    BY <2>2, <1>1
  <2> QED
    BY <2>1, <2>2
<1> QED
  BY <1>1, <1>2

\* The same remainder by 2 * c is the same remainder by c.
LEMMA ModDouble ==
  ASSUME NEW c \in Nat \ {0}, NEW a \in Int, NEW b \in Int,
         a % (2 * c) = b % (2 * c)
  PROVE  a % c = b % c
<1>0. 2 * c \in Nat \ {0}
  OBVIOUS
<1>1. PICK k \in Int : a = b + (2 * c) * k
  BY <1>0, ModDiff
<1>2. a = b + c * (2 * k) /\ 2 * k \in Int
  BY <1>1
<1> QED
  BY <1>2, ModShift

\* A remainder is its own remainder.
LEMMA ModSmall ==
  ASSUME NEW c \in Nat \ {0}, NEW a \in 0 .. c - 1
  PROVE  a % c = a
  OBVIOUS

(***************************************************************************)
(* Numbers of blocks.                                                      *)
(***************************************************************************)
\* Element i is before block m exactly if its block is.
LEMMA NoBefore ==
  ASSUME NEW i \in Int, NEW m \in Int
  PROVE  BlockNo(i) \in Int /\ (BlockNo(i) < m <=> i < BLOCK_SIZE * m)
<1> DEFINE q == i \div BLOCK_SIZE
           r == i % BLOCK_SIZE
<1>0. BLOCK_SIZE \in Nat \ {0}
  BY ImplicitAssumption
<1>1. q \in Int /\ r \in 0 .. BLOCK_SIZE - 1 /\ i = BLOCK_SIZE * q + r
  BY <1>0, DivMod
<1> HIDE DEF q, r
<1>2. ASSUME q < m PROVE i < BLOCK_SIZE * m
  <2>1. BLOCK_SIZE * q + BLOCK_SIZE <= BLOCK_SIZE * m
    BY <1>0, <1>1, <1>2
  <2> QED
    BY <1>0, <1>1, <2>1
<1>3. ASSUME m <= q PROVE BLOCK_SIZE * m <= i
  <2>1. BLOCK_SIZE * m <= BLOCK_SIZE * q
    BY <1>0, <1>1, <1>3
  <2> QED
    BY <1>0, <1>1, <2>1
<1> QED
  BY <1>0, <1>1, <1>2, <1>3 DEF BlockNo, q

\* The elements of a block are those with its number.
LEMMA NoElems ==
  ASSUME NEW i \in Int, NEW m \in Int
  PROVE  i \in Elems(m) <=> BlockNo(i) = m
<1>0. BLOCK_SIZE \in Nat \ {0}
  BY ImplicitAssumption
<1>1. BlockNo(i) \in Int
  BY NoBefore
<1>2. BlockNo(i) < m <=> i < BLOCK_SIZE * m
  BY NoBefore
<1>3. m + 1 \in Int
  OBVIOUS
<1>4. BlockNo(i) < m + 1 <=> i < BLOCK_SIZE * (m + 1)
  BY <1>3, NoBefore
<1>5. BLOCK_SIZE * (m + 1) = BLOCK_SIZE * m + BLOCK_SIZE /\ BLOCK_SIZE * m \in Int
  BY <1>0
<1> QED
  BY <1>0, <1>1, <1>2, <1>4, <1>5 DEF Elems

\* The base of an element, and its place in the block.
LEMMA NoBase ==
  ASSUME NEW i \in Nat
  PROVE  /\ BlockNo(i) \in Nat /\ BaseOf(i) = BLOCK_SIZE * BlockNo(i)
         /\ i % BLOCK_SIZE \in Place /\ i = BLOCK_SIZE * BlockNo(i) + (i % BLOCK_SIZE)
         /\ BaseOf(i) \in Nat /\ BaseOf(i) <= i /\ i < BaseOf(i) + BLOCK_SIZE
<1>0. BLOCK_SIZE \in Nat \ {0}
  BY ImplicitAssumption
<1>1. /\ BlockNo(i) \in Int /\ i % BLOCK_SIZE \in 0 .. BLOCK_SIZE - 1
      /\ i = BLOCK_SIZE * BlockNo(i) + (i % BLOCK_SIZE)
  BY <1>0, DivMod DEF BlockNo
<1>2. BlockNo(i) >= 0
  <2>1. BlockNo(i) < 0 <=> i < BLOCK_SIZE * 0
    BY NoBefore
  <2> QED
    BY <1>0, <1>1, <2>1
<1>3. BaseOf(i) = BLOCK_SIZE * BlockNo(i)
  BY <1>0, <1>1 DEF BaseOf, BlockNo
<1>4. BLOCK_SIZE * BlockNo(i) \in Nat
  BY <1>0, <1>1, <1>2
<1> QED
  BY <1>0, <1>1, <1>2, <1>3, <1>4 DEF Place

\* The number of the block with a given base.
LEMMA NoOfBase ==
  ASSUME NEW m \in Int
  PROVE  BlockNo(BLOCK_SIZE * m) = m
<1>0. BLOCK_SIZE \in Nat \ {0} /\ 0 \in 0 .. BLOCK_SIZE - 1
  BY ImplicitAssumption
<1>1. (BLOCK_SIZE * m + 0) \div BLOCK_SIZE = m
  BY <1>0, DivUnique
<1>2. BLOCK_SIZE * m + 0 = BLOCK_SIZE * m
  BY <1>0
<1> QED
  BY <1>1, <1>2 DEF BlockNo

\* Where the tail stands among the blocks.
LEMMA FirstNoFacts ==
  ASSUME tailIndex \in Nat
  PROVE  /\ FirstNo \in Nat /\ FirstNew = BLOCK_SIZE * FirstNo
         /\ tailIndex <= BLOCK_SIZE * FirstNo
         /\ BLOCK_SIZE * FirstNo < tailIndex + BLOCK_SIZE
<1>0. BLOCK_SIZE \in Nat \ {0}
  BY ImplicitAssumption
<1>1. tailIndex + BLOCK_SIZE - 1 \in Nat
  BY <1>0
<1>2. FirstNo \in Nat /\ FirstNew = BLOCK_SIZE * FirstNo /\ FirstNew \in Nat
      /\ FirstNew <= tailIndex + BLOCK_SIZE - 1
      /\ tailIndex + BLOCK_SIZE - 1 < FirstNew + BLOCK_SIZE
  BY <1>1, NoBase DEF FirstNo, FirstNew
<1> QED
  BY <1>0, <1>2

\* Bases are ordered as the blocks are, and none is INVALID_BLOCK_BASE.
LEMMA BaseOrder ==
  ASSUME NEW x \in Int, NEW y \in Int
  PROVE  /\ BLOCK_SIZE * x < BLOCK_SIZE * y <=> x < y
         /\ BLOCK_SIZE * x <= BLOCK_SIZE * y <=> x <= y
         /\ BLOCK_SIZE * x = BLOCK_SIZE * y <=> x = y
         /\ BLOCK_SIZE * x # INVALID_BLOCK_BASE
<1>0. BLOCK_SIZE \in Nat /\ BLOCK_SIZE >= 2
  BY ImplicitAssumption
<1>1. x < y => BLOCK_SIZE * x < BLOCK_SIZE * y
  BY <1>0
<1>2. y < x => BLOCK_SIZE * y < BLOCK_SIZE * x
  BY <1>0
<1>3. BLOCK_SIZE * x \in Int /\ BLOCK_SIZE * y \in Int
  BY <1>0
<1>4. BLOCK_SIZE * x # 1
  <2>1. CASE x >= 1
    <3>1. BLOCK_SIZE * x >= BLOCK_SIZE
      BY <1>0, <2>1
    <3> QED
      BY <1>0, <1>3, <3>1
  <2>2. CASE x <= 0
    <3>1. BLOCK_SIZE * x <= 0
      BY <1>0, <2>2
    <3> QED
      BY <1>3, <3>1
  <2> QED
    BY <2>1, <2>2
<1> QED
  BY <1>1, <1>2, <1>3, <1>4 DEF INVALID_BLOCK_BASE

(***************************************************************************)
(* The circular index.                                                     *)
(***************************************************************************)
\* The present index is one of the headers.
LEMMA CurFacts ==
  ASSUME ShapeInv, header # <<>>
  PROVE  /\ Len(header) \in Nat \ {0} /\ Len(header) \in 1 .. Len(header)
         /\ Cur = header[Len(header)] /\ Cur \in Header
         /\ Cur.capacity \in Nat \ {0}
         /\ \A j \in 1 .. Len(header) : /\ header[j] \in Header
                                        /\ header[j].capacity \in Nat \ {0}
<1>1. header \in Seq(Header)
  BY DEF ShapeInv
<1>2. Len(header) \in Nat \ {0} /\ \A j \in 1 .. Len(header) : header[j] \in Header
  BY <1>1
<1>3. Cur = header[Len(header)]
  BY DEF Cur, Last
<1>4. \A x \in Header : x.capacity \in Nat \ {0}
  BY DEF Header
<1>5. Len(header) \in 1 .. Len(header)
  BY <1>2
<1> HIDE DEF Header
<1> QED
  BY <1>2, <1>3, <1>4, <1>5

\* Positions lie within the header, entries among those of the header.
LEMMA AtType ==
  ASSUME ShapeInv, header # <<>>, NEW off, HeaderInv(off),
         NEW j \in 1 .. Len(header), NEW m \in Int
  PROVE  /\ off[j] \in Int
         /\ Pos(off, j, m) \in 0 .. header[j].capacity - 1
         /\ At(off, j, m) \in 1 .. header[j].capacity
         /\ At(off, j, m) \in 1 .. Cur.capacity
         /\ At(off, j, m) \in Entry
<1>1. /\ header[j].capacity \in Nat \ {0} /\ Cur.capacity \in Nat \ {0}
  BY CurFacts
<1>2. off[j] \in Int
  BY DEF HeaderInv
<1>3. Pos(off, j, m) \in 0 .. header[j].capacity - 1
  <2>1. m + off[j] \in Int
    BY <1>2
  <2> QED
    BY <1>1, <2>1, DivMod DEF Pos
<1>4. At(off, j, m) \in 1 .. header[j].capacity
  BY <1>3 DEF HeaderInv, At
<1>5. header[j].capacity <= Cur.capacity /\ Cur.capacity <= MaxEntries
  BY DEF HeaderInv
<1> QED
  BY <1>1, <1>2, <1>3, <1>4, <1>5, ImplicitAssumption DEF Entry

\* The same for the present index.
LEMMA CurType ==
  ASSUME ShapeInv, header # <<>>, NEW off, HeaderInv(off), NEW m \in Int
  PROVE  /\ off[Len(header)] \in Int
         /\ Pos(off, Len(header), m) \in 0 .. Cur.capacity - 1
         /\ CurAt(off, m) \in 1 .. Cur.capacity
         /\ CurAt(off, m) \in Entry
<1>1. Len(header) \in 1 .. Len(header) /\ Cur = header[Len(header)]
  BY CurFacts
<1> QED
  BY <1>1, AtType DEF CurAt

\* Blocks with the same entry have the same remainder.
LEMMA CurSame ==
  ASSUME ShapeInv, header # <<>>, NEW off, HeaderInv(off), NEW m \in Int, NEW k \in Int,
         CurAt(off, m) = CurAt(off, k)
  PROVE  Pos(off, Len(header), m) = Pos(off, Len(header), k)
<1>1. Len(header) \in 1 .. Len(header) /\ Cur = header[Len(header)]
  BY CurFacts
<1>2. Pos(off, Len(header), k) \in 0 .. header[Len(header)].capacity - 1
  BY <1>1, CurType
<1> QED
  BY <1>1, <1>2 DEF HeaderInv, CurAt, At

\* Blocks less than a round apart have different entries.
LEMMA CurInj ==
  ASSUME ShapeInv, header # <<>>, NEW off, HeaderInv(off), NEW m \in Int, NEW k \in Int,
         CurAt(off, m) = CurAt(off, k), m - k < Cur.capacity, k - m < Cur.capacity
  PROVE  m = k
<1>1. Cur.capacity \in Nat \ {0} /\ Cur = header[Len(header)]
  BY CurFacts
<1>2. off[Len(header)] \in Int
  BY CurType
<1>3. (m + off[Len(header)]) % Cur.capacity = (k + off[Len(header)]) % Cur.capacity
  BY <1>1, CurSame DEF Pos
<1>4. m + off[Len(header)] = k + off[Len(header)]
  <2> DEFINE x == m + off[Len(header)]
             y == k + off[Len(header)]
  <2>1. x \in Int /\ y \in Int /\ x - y < Cur.capacity /\ y - x < Cur.capacity
    BY <1>1, <1>2
  <2>2. x % Cur.capacity = y % Cur.capacity
    BY <1>3
  <2> HIDE DEF x, y
  <2>3. x = y
    BY <1>1, <2>1, <2>2, ModEq
  <2> QED
    BY <2>3 DEF x, y
<1> QED
  BY <1>2, <1>4

\* A round later the entry is the same.
LEMMA CurPeriod ==
  ASSUME ShapeInv, header # <<>>, NEW off, HeaderInv(off), NEW m \in Int
  PROVE  CurAt(off, m + Cur.capacity) = CurAt(off, m)
<1>1. Cur.capacity \in Nat \ {0} /\ Cur = header[Len(header)]
  BY CurFacts
<1>2. off[Len(header)] \in Int
  BY CurType
<1> DEFINE x == m + off[Len(header)]
<1>3. x \in Int /\ (m + Cur.capacity) + off[Len(header)] = x + Cur.capacity
  BY <1>1, <1>2
<1>4. ((m + Cur.capacity) + off[Len(header)]) % Cur.capacity = x % Cur.capacity
  <2> HIDE DEF x
  <2>1. (x + Cur.capacity) % Cur.capacity = x % Cur.capacity
    BY <1>1, <1>3, ModRound
  <2> QED
    BY <1>3, <2>1
<1> QED
  BY <1>1, <1>4 DEF CurAt, At, Pos

\* In every round there is a block for each position.
LEMMA WindowRep ==
  ASSUME NEW c \in Nat \ {0}, NEW p \in 0 .. c - 1, NEW a \in Int, NEW o \in Int
  PROVE  \E m \in a .. a + c - 1 : (m + o) % c = p
<1> DEFINE d == p - o - a
           m == a + (d % c)
<1>1. d \in Int
  OBVIOUS
<1>2. d % c \in 0 .. c - 1
  BY <1>1, DivMod
<1>3. m \in a .. a + c - 1
  BY <1>2
<1>4. m + o = (d % c) + (a + o) /\ a + o \in Int
  BY <1>2
<1>5. ((d % c) + (a + o)) % c = (d + (a + o)) % c
  BY <1>1, <1>4, ModAdd
<1>6. d + (a + o) = p
  OBVIOUS
<1>7. (m + o) % c = p % c
  BY <1>4, <1>5, <1>6
<1> QED
  BY <1>3, <1>7, ModSmall

\* The key at a position of any header, if valid, is that of a block which has
\* this position there: what the lookup relies on.
LEMMA KeyAtPos ==
  ASSUME ShapeInv, header # <<>>, NEW off, HeaderInv(off), WindowInv(off), Keyed \in Int,
         NEW j \in 1 .. Len(header), NEW t \in 0 .. header[j].capacity - 1,
         key[header[j].index[t]] # INVALID_BLOCK_BASE
  PROVE  \E k \in Int : key[header[j].index[t]] = BLOCK_SIZE * k /\ Pos(off, j, k) = t
<1> DEFINE e == header[j].index[t]
           C == Cur.capacity
           o == off[Len(header)]
<1>1. /\ header[j].capacity \in Nat \ {0} /\ C \in Nat \ {0} /\ o \in Int
      /\ Cur = header[Len(header)]
  BY CurFacts, CurType
<1>2. e \in 1 .. C
  <2>1. e \in 1 .. header[j].capacity /\ header[j].capacity <= C
    BY DEF HeaderInv
  <2> QED
    BY <1>1, <2>1
<1>3. PICK p \in 0 .. C - 1 : Cur.index[p] = e
  BY <1>2 DEF HeaderInv
<1>4. PICK m \in Keyed - C .. Keyed - C + C - 1 : (m + o) % C = p
  <2>1. Keyed - C \in Int
    BY <1>1
  <2> HIDE DEF C, o
  <2> QED
    BY <1>1, <2>1, WindowRep
<1>5. m \in Int /\ Keyed - C <= m /\ m < Keyed
  BY <1>1, <1>4
<1>6. CurAt(off, m) = e
  BY <1>1, <1>3, <1>4 DEF CurAt, At, Pos
<1>7. \E k \in {m, m + C} : key[e] = BLOCK_SIZE * k
  BY <1>1, <1>5, <1>6 DEF WindowInv
<1>8. PICK k \in {m, m + C} : key[e] = BLOCK_SIZE * k
  BY <1>7
<1>9. k \in Int /\ CurAt(off, k) = e
  <2>1. CurAt(off, m + C) = CurAt(off, m)
    BY <1>5, CurPeriod
  <2>2. m + C \in Int
    BY <1>1, <1>5
  <2> QED
    BY <1>5, <1>6, <1>8, <2>1, <2>2
<1>10. t = Pos(off, j, k)
  BY <1>9 DEF HeaderInv
<1> QED
  BY <1>8, <1>9, <1>10

\* get_block_index_index_for_index finds the position of the element's block.
LEMMA LookupFinds ==
  ASSUME ShapeInv, header # <<>>, NEW off, HeaderInv(off), WindowInv(off), Keyed \in Int,
         NEW j \in 1 .. Len(header), NEW t \in 0 .. header[j].capacity - 1,
         key[header[j].index[t]] # INVALID_BLOCK_BASE, NEW i \in Nat
  PROVE  PositionFor(header[j], t, i) = Pos(off, j, BlockNo(i))
<1>1. PICK k \in Int : key[header[j].index[t]] = BLOCK_SIZE * k /\ Pos(off, j, k) = t
  BY KeyAtPos
<1>2. header[j].capacity \in Nat \ {0} /\ off[j] \in Int
  BY CurFacts, AtType
<1>3. BlockNo(i) \in Nat /\ BaseOf(i) = BLOCK_SIZE * BlockNo(i)
  BY NoBase
<1>4. BaseOf(i) - BLOCK_SIZE * k = BLOCK_SIZE * (BlockNo(i) - k) /\ BlockNo(i) - k \in Int
  BY <1>3, ImplicitAssumption
<1>5. (BaseOf(i) - BLOCK_SIZE * k) \div BLOCK_SIZE = BlockNo(i) - k
  BY <1>4, NoOfBase DEF BlockNo
<1> DEFINE a == k + off[j]
           x == BlockNo(i) - k
<1>6. a \in Int /\ x \in Int /\ a + x = BlockNo(i) + off[j]
  BY <1>2, <1>3
<1>7. ((a % header[j].capacity) + x) % header[j].capacity = (a + x) % header[j].capacity
  <2> HIDE DEF a, x
  <2> QED
    BY <1>2, <1>6, ModAdd
<1>8. PositionFor(header[j], t, i) = (t + x) % header[j].capacity
  BY <1>1, <1>5 DEF PositionFor
<1>9. t = a % header[j].capacity
  BY <1>1 DEF Pos
<1> QED
  BY <1>6, <1>7, <1>8, <1>9 DEF Pos

\* The position after that of block m is that of block m + 1, and the one before
\* it that of block m - 1.
LEMMA NextPos ==
  ASSUME ShapeInv, header # <<>>, NEW off, HeaderInv(off), NEW j \in 1 .. Len(header),
         NEW m \in Int, NEW d \in Int
  PROVE  (Pos(off, j, m) + d) % header[j].capacity = Pos(off, j, m + d)
<1>1. header[j].capacity \in Nat \ {0} /\ off[j] \in Int
  BY CurFacts, AtType
<1> DEFINE a == m + off[j]
<1>2. a \in Int /\ a + d = (m + d) + off[j]
  BY <1>1
<1>3. ((a % header[j].capacity) + d) % header[j].capacity = (a + d) % header[j].capacity
  <2> HIDE DEF a
  <2> QED
    BY <1>1, <1>2, ModAdd
<1> QED
  BY <1>2, <1>3 DEF Pos

\* insert_block_index_entry is at the entry of the next block.
LEMMA NewEntryIs ==
  ASSUME BaseInv, ShapeInv, CallInv, header # <<>>, NEW off, HeaderInv(off), WindowInv(off),
         AtTail \in Nat
  PROVE  NewTail = Pos(off, Len(header), AtTail) /\ NewEntry = CurAt(off, AtTail)
<1>1. Len(header) \in 1 .. Len(header) /\ Cur = header[Len(header)]
  BY CurFacts
<1>2. Cur.tail = Pos(off, Len(header), AtTail - 1)
  BY DEF WindowInv
<1>3. AtTail - 1 \in Int /\ (AtTail - 1) + 1 = AtTail
  OBVIOUS
<1>4. (Cur.tail + 1) % Cur.capacity = Pos(off, Len(header), (AtTail - 1) + 1)
  BY <1>1, <1>2, <1>3, NextPos
<1> QED
  BY <1>1, <1>3, <1>4 DEF NewTail, NewEntry, CurAt, At

(***************************************************************************)
(* What the invariant says of a state.                                     *)
(***************************************************************************)
\* The fields of the producer's record in each phase.
LEMMA EnqFields ==
  ASSUME enq \in Enq
  PROVE  /\ enq.pc \in {"idle", "undo"} \cup Step
         /\ enq.pc = "undo" => enq \in [pc : {"undo"}, chain : Seq(Block), base : Nat]
         /\ enq.pc \in Step =>
              enq \in [pc : Step, n : 1 .. MaxBulk, base : Nat, chain : Seq(Block)]
         /\ enq.pc # "idle" => /\ enq.chain \in Seq(Block) /\ enq.base \in Nat
                               /\ Len(enq.chain) \in Nat
         /\ enq.pc \in Step => enq.n \in Nat \ {0} /\ enq.n \in 1 .. MaxBulk
<1>1. /\ enq.pc \in {"idle", "undo"} \cup Step
      /\ enq.pc = "undo" => enq \in [pc : {"undo"}, chain : Seq(Block), base : Nat]
      /\ enq.pc \in Step =>
           enq \in [pc : Step, n : 1 .. MaxBulk, base : Nat, chain : Seq(Block)]
  BY DEF Enq, Step
<1>2. enq.pc # "idle" => enq.chain \in Seq(Block) /\ enq.base \in Nat
  BY <1>1
<1>3. enq.pc # "idle" => Len(enq.chain) \in Nat
  BY <1>2
<1>4. enq.pc \in Step => enq.n \in 1 .. MaxBulk
  BY <1>1
<1> QED
  BY <1>1, <1>2, <1>3, <1>4, BaseAssumption

\* The counters.
LEMMA Counters ==
  ASSUME BaseInv
  PROVE  /\ tailIndex \in Nat /\ headIndex \in Nat /\ headIndex <= tailIndex
         /\ tailIndex <= MaxTail
         /\ FirstNo \in Nat /\ FirstNew = BLOCK_SIZE * FirstNo
         /\ tailIndex <= BLOCK_SIZE * FirstNo
         /\ BLOCK_SIZE * FirstNo < tailIndex + BLOCK_SIZE
         /\ BLOCK_SIZE \in Nat \ {0, 1} /\ MaxTail \in Nat
<1>1. tailIndex \in Nat /\ headIndex \in Nat /\ MaxTail \in Nat /\ tailIndex <= MaxTail
  BY BaseAssumption DEF BaseInv, BaseTypeOK
<1>2. headIndex <= tailIndex
  BY HeadBehindTail DEF OnlyPublished
<1> QED
  BY <1>1, <1>2, FirstNoFacts, ImplicitAssumption

\* The blocks of the call in progress.
LEMMA CallFacts ==
  ASSUME BaseInv, ShapeInv, CallInv
  PROVE  /\ Keyed \in Nat /\ AtTail \in Nat /\ FirstNo <= Keyed /\ FirstNo <= AtTail
         /\ AtTail <= Keyed
         /\ enq.pc # "idle" => CallNo \in Nat
         /\ enq.pc \in {"idle", "undo"} \cup Step
         /\ enq.pc # "idle" => FirstNo <= CallNo
<1>1. /\ enq.pc \in {"idle", "undo"} \cup Step
      /\ enq.pc # "idle" => enq.base \in Nat /\ Len(enq.chain) \in Nat
  BY EnqFields DEF ShapeInv
<1>2. FirstNo \in Nat
  BY Counters
<1>3. enq.pc # "idle" => CallNo \in Nat
  BY <1>1, NoBase DEF CallNo
<1>4. enq.pc \in Step => Len(enq.chain) = CallNo - FirstNo + (IF enq.pc = "value" THEN 1 ELSE 0)
  BY DEF CallInv
<1>5. enq.pc = "undo" => CallNo <= FirstNo + Len(enq.chain)
  BY DEF CallInv
<1>6. enq.pc # "idle" => FirstNo <= CallNo
  BY DEF CallInv
<1>7. CASE enq.pc = "idle"
  BY <1>2, <1>7 DEF Keyed, AtTail
<1>8. CASE enq.pc = "undo"
  BY <1>1, <1>2, <1>3, <1>5, <1>6, <1>8 DEF Keyed, AtTail
<1>9. CASE enq.pc \in Step
  BY <1>2, <1>3, <1>6, <1>9 DEF Keyed, AtTail, Step
<1> QED
  BY <1>1, <1>7, <1>8, <1>9

\* Blocks that an entry must lead to have a number below Keyed.
LEMMA LinkedRange ==
  ASSUME BaseInv, ShapeInv, CallInv, NEW m \in Int, Linked(m)
  PROVE  0 <= m /\ m < Keyed
<1>1. FirstNo \in Nat /\ Keyed \in Nat /\ FirstNo <= Keyed
  BY Counters, CallFacts
<1>2. CASE InUse(m)
  BY <1>1, <1>2 DEF InUse
<1>3. CASE InCall(m)
  <2>1. /\ enq.pc \in {"undo"} \cup Step /\ CallNo \in Nat /\ FirstNo <= CallNo
        /\ Len(enq.chain) \in Nat
    BY <1>3, CallFacts, EnqFields DEF InCall, ShapeInv
  <2>2. CASE enq.pc = "undo"
    BY <1>1, <1>3, <2>1, <2>2 DEF InCall, Keyed
  <2>3. CASE enq.pc \in Step
    <3>1. Len(enq.chain) = CallNo - FirstNo + (IF enq.pc = "value" THEN 1 ELSE 0)
      BY <2>3 DEF CallInv
    <3>2. Keyed \in {CallNo, CallNo + 1}
      BY <2>3 DEF Keyed, Step
    <3>3. FirstNo <= m /\ m < FirstNo + Len(enq.chain) - (IF enq.pc = "value" THEN 1 ELSE 0)
      BY <1>3, <2>3 DEF InCall, Step
    <3> QED
      BY <1>1, <2>1, <3>1, <3>2, <3>3
  <2> QED
    BY <2>1, <2>2, <2>3
<1> QED
  BY <1>2, <1>3 DEF Linked

\* No two of them have the same entry ...
LEMMA LinkedInj ==
  ASSUME BaseInv, ShapeInv, CallInv, header # <<>>, NEW off, HeaderInv(off), LinkInv(off),
         NEW m \in Int, NEW k \in Int, Linked(m), Linked(k),
         CurAt(off, m) = CurAt(off, k)
  PROVE  m = k
<1>1. m < Keyed /\ k < Keyed /\ Keyed \in Nat
  BY LinkedRange, CallFacts
<1>2. Keyed - Cur.capacity <= m /\ Keyed - Cur.capacity <= k
  BY DEF LinkInv
<1>3. Cur.capacity \in Nat
  BY CurFacts
<1>4. m - k < Cur.capacity /\ k - m < Cur.capacity
  BY <1>1, <1>2, <1>3
<1> QED
  BY <1>4, CurInj

\* ... or the same block.
LEMMA LinkedBlocks ==
  ASSUME BaseInv, ShapeInv, CallInv, OwnerInv, header # <<>>, NEW off, HeaderInv(off),
         LinkInv(off), NEW m \in Int, NEW k \in Int, Linked(m), Linked(k),
         value[CurAt(off, m)] = value[CurAt(off, k)]
  PROVE  m = k
<1>1. CurAt(off, m) \in Entry /\ CurAt(off, k) \in Entry
  BY CurType
<1>2. value[CurAt(off, m)] # Null
  BY ImplicitAssumption DEF LinkInv
<1>3. CurAt(off, m) = CurAt(off, k)
  BY <1>1, <1>2 DEF OwnerInv
<1> QED
  BY <1>3, LinkedInj

\* The elements a consumer holds.
LEMMA HeldElems ==
  ASSUME BaseInv, ShapeInv, NEW off, ReaderInv(off), NEW c \in Consumer, pc[c] = "take"
  PROVE  /\ loc[c].index \in Nat /\ loc[c].got \in Nat \ {0}
         /\ loc[c].index + loc[c].got <= headIndex
         /\ rd[c].pc \in {"value", "move", "count", "clear", "free", "next"} =>
              /\ rd[c].i \in Nat /\ rd[c].i \in Mine(c)
              /\ RunEnd(c) \in Nat /\ rd[c].i < RunEnd(c)
              /\ RunEnd(c) <= loc[c].index + loc[c].got
              /\ RunEnd(c) <= BLOCK_SIZE * BlockNo(rd[c].i) + BLOCK_SIZE
              /\ RunEnd(c) < loc[c].index + loc[c].got =>
                   RunEnd(c) = BLOCK_SIZE * BlockNo(rd[c].i) + BLOCK_SIZE
              /\ Run(c) = rd[c].i .. RunEnd(c) - 1
         /\ FirstUncounted(c) \in Nat /\ FirstUnmoved(c) \in Nat
         /\ loc[c].index <= FirstUncounted(c) /\ FirstUncounted(c) <= FirstUnmoved(c)
         /\ Unmoved(c) \subseteq Uncounted(c) /\ Uncounted(c) \subseteq Mine(c)
<1>1. loc[c].index \in Nat /\ loc[c].got \in Nat
  BY DEF BaseInv, BaseTypeOK, Local
<1>2. loc[c].got >= 1
  BY DEF ReaderInv, ReaderAt
<1>3. loc[c].index + loc[c].got <= headIndex /\ headIndex \in Nat
  BY DEF BaseInv, TakeInv, BaseTypeOK
<1>4. ASSUME rd[c].pc \in {"value", "move", "count", "clear", "free", "next"}
      PROVE  /\ rd[c].i \in Nat /\ rd[c].i \in Mine(c)
             /\ RunEnd(c) \in Nat /\ rd[c].i < RunEnd(c)
             /\ RunEnd(c) <= loc[c].index + loc[c].got
             /\ RunEnd(c) <= BLOCK_SIZE * BlockNo(rd[c].i) + BLOCK_SIZE
             /\ RunEnd(c) < loc[c].index + loc[c].got =>
                   RunEnd(c) = BLOCK_SIZE * BlockNo(rd[c].i) + BLOCK_SIZE
             /\ Run(c) = rd[c].i .. RunEnd(c) - 1
  <2>1. rd[c].i \in Mine(c)
    BY <1>4 DEF ReaderInv, ReaderAt
  <2>2. rd[c].i \in Nat /\ rd[c].i < loc[c].index + loc[c].got
    BY <1>1, <2>1 DEF Mine
  <2>3. /\ BaseOf(rd[c].i) = BLOCK_SIZE * BlockNo(rd[c].i) /\ BaseOf(rd[c].i) \in Nat
        /\ rd[c].i < BaseOf(rd[c].i) + BLOCK_SIZE
    BY <2>2, NoBase
  <2>4. BLOCK_SIZE \in Nat
    BY ImplicitAssumption
  <2>5. Run(c) = rd[c].i .. RunEnd(c) - 1
    BY DEF Run, RunEnd
  <2> QED
    BY <1>1, <2>1, <2>2, <2>3, <2>4, <2>5, SMTT(40) DEF RunEnd, Least
<1>5. rd[c].pc \in {"idle", "tail", "key", "value", "move", "count", "clear", "free", "next"}
  BY DEF ShapeInv, Rd
<1>6. /\ FirstUncounted(c) \in Nat /\ FirstUnmoved(c) \in Nat
      /\ loc[c].index <= FirstUncounted(c) /\ FirstUncounted(c) <= FirstUnmoved(c)
  <2>1. CASE rd[c].pc \in {"idle", "tail", "key"}
    BY <1>1, <2>1 DEF FirstUncounted, FirstUnmoved
  <2>2. CASE rd[c].pc \in {"value", "move", "count", "clear", "free", "next"}
    <3>1. loc[c].index <= rd[c].i
      BY <1>1, <1>4, <2>2 DEF Mine
    <3> QED
      BY <1>1, <1>4, <2>2, <3>1 DEF FirstUncounted, FirstUnmoved
  <2> QED
    BY <1>5, <2>1, <2>2
<1>7. Unmoved(c) \subseteq Uncounted(c) /\ Uncounted(c) \subseteq Mine(c)
  BY <1>1, <1>6 DEF Unmoved, Uncounted, Mine
<1> QED
  BY <1>1, <1>2, <1>3, <1>4, <1>6, <1>7

\* The block of a published element that is not counted is in use.
LEMMA UncountedInUse ==
  ASSUME BaseInv, NEW i \in 0 .. tailIndex - 1, i \notin Counted
  PROVE  /\ BlockNo(i) \in Nat /\ ~Gone(BlockNo(i)) /\ InUse(BlockNo(i))
         /\ Linked(BlockNo(i))
<1>1. tailIndex \in Nat /\ FirstNo \in Nat /\ tailIndex <= BLOCK_SIZE * FirstNo
  BY Counters
<1>2. i \in Nat /\ i < BLOCK_SIZE * FirstNo
  BY <1>1, ImplicitAssumption
<1>3. BlockNo(i) \in Nat
  BY <1>2, NoBase
<1>4. BlockNo(i) < FirstNo
  BY <1>1, <1>2, NoBefore
<1>5. i \in Elems(BlockNo(i))
  BY <1>2, <1>3, NoElems
<1> QED
  BY <1>1, <1>3, <1>4, <1>5 DEF Gone, InUse, Linked

\* An element a consumer has yet to count is such an element, and nobody else's.
LEMMA HeldInUse ==
  ASSUME BaseInv, ShapeInv, NEW off, ReaderInv(off), NEW c \in Consumer,
         NEW i \in Uncounted(c)
  PROVE  /\ i \in Nat /\ i < headIndex /\ i \notin Counted /\ i \in 0 .. tailIndex - 1
         /\ \A d \in Consumer \ {c} : i \notin Uncounted(d)
<1>1. pc[c] = "take"
  BY DEF Uncounted
<1>2. i \in Mine(c) /\ i \in Nat /\ i < headIndex
  <2>1. Uncounted(c) \subseteq Mine(c)
    BY <1>1, HeldElems
  <2>2. /\ loc[c].index \in Nat /\ loc[c].got \in Nat
        /\ loc[c].index + loc[c].got <= headIndex
    BY <1>1, HeldElems
  <2>3. headIndex \in Nat
    BY Counters
  <2> QED
    BY <2>1, <2>2, <2>3 DEF Mine
<1>3. i \notin Counted
  BY DEF Counted
<1>4. ASSUME NEW d \in Consumer \ {c} PROVE i \notin Uncounted(d)
  <2>1. CASE pc[d] = "take"
    <3>1. Uncounted(d) \subseteq Mine(d)
      BY <2>1, HeldElems
    <3> QED
      BY <1>1, <1>2, <2>1, <3>1 DEF BaseInv, TakeInv
  <2>2. CASE pc[d] # "take"
    BY <2>2 DEF Uncounted
  <2> QED
    BY <2>1, <2>2
<1> QED
  BY <1>2, <1>3, <1>4, Counters

\* The block of an element that is constructed and not counted has an entry.
LEMMA ConstructedLinked ==
  ASSUME BaseInv, ShapeInv, CallInv, NEW i \in 0 .. Constructed - 1, i \notin Counted
  PROVE  i \in Nat /\ BlockNo(i) \in Nat /\ Linked(BlockNo(i)) /\ ~Gone(BlockNo(i))
<1>1. /\ tailIndex \in Nat /\ headIndex \in Nat /\ headIndex <= tailIndex /\ FirstNo \in Nat
  BY Counters
<1>2. CASE i < tailIndex
  <2>1. i \in 0 .. tailIndex - 1 /\ i \in Nat
    BY <1>1, <1>2
  <2> QED
    BY <2>1, UncountedInUse
<1>3. CASE ~(i < tailIndex)
  <2>1. enq.pc = "publish" /\ Constructed = tailIndex + enq.n
    BY <1>1, <1>3 DEF Constructed
  <2>2. enq.n \in Nat \ {0} /\ enq.pc \in Step /\ Len(enq.chain) \in Nat
    BY <2>1, EnqFields DEF ShapeInv, Step
  <2>3. i \in Nat /\ tailIndex <= i /\ i < tailIndex + enq.n
    BY <1>1, <1>3, <2>1, <2>2
  <2>4. BlockNo(i) \in Nat /\ CallNo \in Nat /\ FirstNo <= CallNo
    BY <2>1, <2>3, NoBase, CallFacts
  <2>5. i \in Elems(BlockNo(i))
    BY <2>3, <2>4, NoElems
  <2>6. ~Gone(BlockNo(i))
    BY <2>5 DEF Gone
  <2>7. CASE BlockNo(i) < FirstNo
    BY <1>1, <2>3, <2>4, <2>6, <2>7 DEF Linked, InUse
  <2>8. CASE FirstNo <= BlockNo(i)
    <3>1. Len(enq.chain) = CallNo - FirstNo
      <4>1. Len(enq.chain) = CallNo - FirstNo + (IF enq.pc = "value" THEN 1 ELSE 0)
        BY <2>2 DEF CallInv
      <4> QED
        BY <1>1, <2>1, <2>4, <4>1
    <3>2. BlockNo(i) < CallNo
      <4>1. CallNo = BlockNo(tailIndex + enq.n + BLOCK_SIZE - 1)
        BY <2>1 DEF CallInv
      <4>2. tailIndex + enq.n + BLOCK_SIZE - 1 \in Nat /\ BLOCK_SIZE \in Nat
        BY <1>1, <2>2, ImplicitAssumption
      <4>3. tailIndex + enq.n + BLOCK_SIZE - 1 < BLOCK_SIZE * CallNo + BLOCK_SIZE
        BY <4>1, <4>2, NoBase
      <4>4. i < BLOCK_SIZE * CallNo
        <5>1. BLOCK_SIZE * CallNo \in Nat
          BY <2>4, <4>2
        <5> QED
          BY <1>1, <2>2, <2>3, <4>2, <4>3, <5>1
      <4> QED
        BY <2>3, <2>4, <4>4, NoBefore
    <3> QED
      BY <1>1, <2>1, <2>3, <2>4, <2>6, <2>8, <3>1, <3>2 DEF Linked, InCall
  <2> QED
    BY <1>1, <2>4, <2>7, <2>8
<1> QED
  BY <1>2, <1>3

\* The block of every element present has an entry.
LEMMA PresentLinked ==
  ASSUME BaseInv, ShapeInv, CallInv, NEW off, ReaderInv(off), NEW i \in Present
  PROVE  /\ i \in Nat /\ BlockNo(i) \in Nat /\ Linked(BlockNo(i)) /\ ~Gone(BlockNo(i))
         /\ i \notin Counted /\ i % BLOCK_SIZE \in Place
<1>1. i \in 0 .. Constructed - 1
  BY DEF Present
<1>2. i \notin Counted
  <2>1. CASE i >= headIndex
    BY <1>1, <2>1, Counters DEF Counted
  <2>2. CASE \E c \in Consumer : i \in Unmoved(c)
    <3>1. PICK c \in Consumer : i \in Unmoved(c)
      BY <2>2
    <3>2. i \in Uncounted(c)
      BY <3>1, HeldElems DEF Unmoved
    <3> QED
      BY <3>2, HeldInUse
  <2> QED
    BY <2>1, <2>2 DEF Present
<1>3. i \in Nat /\ BlockNo(i) \in Nat /\ Linked(BlockNo(i)) /\ ~Gone(BlockNo(i))
  BY <1>1, <1>2, ConstructedLinked
<1> QED
  BY <1>2, <1>3, NoBase

\* So has the block of the last element, unless it is gone.
LEMMA LastLinked ==
  ASSUME BaseInv, ShapeInv, CallInv, Constructed > 0, ~Gone(BlockNo(Constructed - 1))
  PROVE  /\ Constructed \in Nat /\ BlockNo(Constructed - 1) \in Nat
         /\ Linked(BlockNo(Constructed - 1))
<1>1. Constructed \in Nat /\ tailIndex <= Constructed /\ tailIndex \in Nat /\ FirstNo \in Nat
  BY Counters, EnqFields DEF Constructed, ShapeInv, Step
<1> DEFINE i == Constructed - 1
<1>2. i \in Nat /\ i \in 0 .. Constructed - 1
  BY <1>1
<1>3. BlockNo(i) \in Nat
  BY <1>2, NoBase
<1>4. CASE i \notin Counted
  BY <1>1, <1>2, <1>4, ConstructedLinked
<1>5. CASE i \in Counted
  <2>1. i < tailIndex /\ tailIndex <= BLOCK_SIZE * FirstNo /\ BLOCK_SIZE \in Nat
    BY <1>2, <1>5, Counters DEF Counted
  <2>2. i < BLOCK_SIZE * FirstNo
    BY <1>1, <1>2, <2>1
  <2>3. BlockNo(i) < FirstNo
    BY <1>1, <1>2, <2>2, NoBefore
  <2> QED
    BY <1>1, <1>3, <2>3 DEF Linked, InUse
<1> QED
  BY <1>4, <1>5

\* And the block a consumer is at, until its entry is cleared.
LEMMA ReaderLinked ==
  ASSUME BaseInv, ShapeInv, CallInv, NEW off, ReaderInv(off), NEW c \in Consumer,
         rd[c].pc \in {"value", "move", "count", "clear"}
  PROVE  /\ rd[c].i \in Nat /\ BlockNo(rd[c].i) \in Nat /\ Linked(BlockNo(rd[c].i))
         /\ BlockNo(rd[c].i) < FirstNo /\ pc[c] = "take"
         /\ rd[c].pc # "clear" => rd[c].i \in Uncounted(c)
<1>1. pc[c] = "take"
  BY DEF ReaderInv, ReaderAt
<1>2. /\ rd[c].i \in Nat /\ rd[c].i \in Mine(c) /\ loc[c].index \in Nat /\ loc[c].got \in Nat
      /\ loc[c].index + loc[c].got <= headIndex
  BY <1>1, HeldElems
<1>3. /\ headIndex \in Nat /\ tailIndex \in Nat /\ headIndex <= tailIndex /\ FirstNo \in Nat
      /\ tailIndex <= BLOCK_SIZE * FirstNo
  BY Counters
<1>4. rd[c].i < BLOCK_SIZE * FirstNo /\ BlockNo(rd[c].i) \in Nat
  BY <1>2, <1>3, NoBase, ImplicitAssumption DEF Mine
<1>5. BlockNo(rd[c].i) < FirstNo
  BY <1>2, <1>3, <1>4, NoBefore
<1>6. ASSUME rd[c].pc # "clear" PROVE rd[c].i \in Uncounted(c) /\ Linked(BlockNo(rd[c].i))
  <2>1. rd[c].i \in Uncounted(c)
    BY <1>1, <1>2, <1>6 DEF Uncounted, FirstUncounted, Mine
  <2>2. rd[c].i \in 0 .. tailIndex - 1 /\ rd[c].i \notin Counted
    BY <2>1, HeldInUse
  <2> QED
    BY <2>1, <2>2, UncountedInUse
<1>7. ASSUME rd[c].pc = "clear" PROVE Linked(BlockNo(rd[c].i))
  BY <1>3, <1>4, <1>5, <1>7 DEF Linked, InUse, Clearing
<1> QED
  BY <1>1, <1>2, <1>4, <1>5, <1>6, <1>7

\* An element a consumer has yet to count is in a block that has an entry.
LEMMA HeldLinked ==
  ASSUME BaseInv, ShapeInv, CallInv, NEW off, ReaderInv(off), NEW c \in Consumer,
         NEW i \in Uncounted(c)
  PROVE  i \in Nat /\ BlockNo(i) \in Nat /\ Linked(BlockNo(i))
<1>1. i \in Nat /\ i \in 0 .. tailIndex - 1 /\ i \notin Counted
  BY HeldInUse
<1> QED
  BY <1>1, UncountedInUse

(***************************************************************************)
(* What a step leaves alone.                                               *)
(***************************************************************************)
\* The elements and their consumers as a step leaves them that does not touch them.
ElementsStay ==
  /\ FirstNo' = FirstNo /\ FirstNew' = FirstNew
  /\ Counted' = Counted /\ \A m : Gone(m)' <=> Gone(m)
  /\ \A c \in Consumer : /\ Uncounted(c)' = Uncounted(c) /\ Unmoved(c)' = Unmoved(c)
                         /\ Mine(c)' = Mine(c) /\ Run(c)' = Run(c)
                         /\ \A m : Clearing(c, m)' <=> Clearing(c, m)
                         /\ \A b : FreedBy(c, b)' <=> FreedBy(c, b)
  /\ \A m : InUse(m)' <=> InUse(m)

\* Positions and entries in the index stay.
IndexStays(off) ==
  /\ Cur' = Cur /\ Len(header)' = Len(header)
  /\ \A j, m : Pos(off, j, m)' = Pos(off, j, m) /\ At(off, j, m)' = At(off, j, m)
  /\ \A m : CurAt(off, m)' = CurAt(off, m)

\* A step of the producer that does not publish leaves the elements alone.
LEMMA ReadersStay ==
  ASSUME UNCHANGED <<tailIndex, headIndex, pc, loc, rd>>
  PROVE  ElementsStay
<1>1. FirstNo' = FirstNo /\ FirstNew' = FirstNew
  BY DEF FirstNo, FirstNew
<1>2. \A c \in Consumer : /\ Uncounted(c)' = Uncounted(c) /\ Unmoved(c)' = Unmoved(c)
                          /\ Mine(c)' = Mine(c) /\ Run(c)' = Run(c)
                          /\ \A m : Clearing(c, m)' <=> Clearing(c, m)
                          /\ \A b : FreedBy(c, b)' <=> FreedBy(c, b)
  BY DEF Uncounted, Unmoved, FirstUncounted, FirstUnmoved, RunEnd, Mine, Run, Clearing,
         FreedBy
<1>3. Counted' = Counted
  BY <1>2 DEF Counted
<1>4. \A m : Gone(m)' <=> Gone(m)
  BY <1>3 DEF Gone, Elems
<1>5. \A m : InUse(m)' <=> InUse(m)
  BY <1>1, <1>2, <1>4 DEF InUse
<1> QED
  BY <1>1, <1>2, <1>3, <1>4, <1>5 DEF ElementsStay

\* Without a new header, positions and entries stay.
LEMMA SameIndex ==
  ASSUME header' = header, NEW off
  PROVE  IndexStays(off)
  BY DEF IndexStays, Cur, Pos, At, CurAt

\* A step that only moves on in enqueue_bulk, with the same blocks in the chain.
LEMMA CallMoves ==
  ASSUME BaseInv, BlockInv,
         UNCHANGED <<baseVars, free, slot, dequeued, key, value, header, tailBlock, rd>>,
         enq' \in Enq, CallInv', Keyed' = Keyed, AtTail' = AtTail,
         Constructed' = Constructed,
         \A m \in Int : InCall(m)' <=> InCall(m),
         \A m \in Int : InCall(m) => enq'.chain = enq.chain,
         \A b \in Block : InHand(b)' <=> InHand(b),
         \A b \in Block : ~(enq'.pc = "value" /\ InHand(b))
  PROVE  BlockInv'
<1> USE DEF ElementsStay, IndexStays
<1>1. UNCHANGED <<tailIndex, headIndex, pc, loc, rd>>
  BY DEF baseVars
<1>2. ElementsStay
  BY <1>1, ReadersStay
<1>3. \A m \in Int : Linked(m)' <=> Linked(m)
  BY <1>2 DEF Linked
<1>4. Present' = Present
  BY <1>1, <1>2 DEF Present
<1>5. ShapeInv'
  BY <1>1 DEF BlockInv, ShapeInv, TypeOK, BaseTypeOK, baseVars
<1>6. OwnerInv'
  BY <1>2 DEF BlockInv, OwnerInv
<1>7. ASSUME header # <<>> PROVE \E off \in [1 .. Len(header') -> Int] : IndexInv(off)'
  <2>1. PICK off \in [1 .. Len(header) -> Int] : IndexInv(off)
    BY <1>7 DEF BlockInv
  <2>2. IndexStays(off)
    BY SameIndex
  <2>3. HeaderInv(off)'
    BY <2>1, <2>2 DEF IndexInv, HeaderInv
  <2>4. WindowInv(off)'
    BY <1>2, <2>1, <2>2 DEF IndexInv, WindowInv
  <2>5. LinkInv(off)'
    BY <1>2, <1>3, <2>1, <2>2 DEF IndexInv, LinkInv, BlockNo, Elems
  <2>6. ReaderInv(off)'
    <3>1. ReaderInv(off)
      BY <2>1 DEF IndexInv
    <3> QED
      BY <1>1, <1>2, <2>2, <3>1 DEF ReaderInv, ReaderAt, BlockNo
  <2>7. SlotInv(off)'
    BY <1>4, <2>1, <2>2 DEF IndexInv, SlotInv, BlockNo
  <2> QED
    BY <2>1, <2>2, <2>3, <2>4, <2>5, <2>6, <2>7 DEF IndexInv
<1> QED
  BY <1>1, <1>5, <1>6, <1>7 DEF BlockInv

(***************************************************************************)
(* The steps of enqueue_bulk.                                              *)
(***************************************************************************)
\* A call that gives up, with all its blocks still in the index.
LEMMA GiveUp ==
  ASSUME BaseInv, BlockInv, enq.pc \in {"room", "insert", "construct"}, enq' = Undo,
         UNCHANGED <<baseVars, free, slot, dequeued, key, value, header, tailBlock, rd>>
  PROVE  BlockInv'
<1>1. ShapeInv /\ CallInv
  BY DEF BlockInv
<1>2. /\ enq.chain \in Seq(Block) /\ Len(enq.chain) \in Nat /\ enq.pc \in Step
  BY <1>1, EnqFields DEF ShapeInv, Step
<1>3. /\ FirstNo \in Nat /\ FirstNew = BLOCK_SIZE * FirstNo /\ FirstNew \in Nat
  BY Counters
<1>4. FirstNo' = FirstNo /\ CallNo' = FirstNo
  BY <1>3, NoOfBase DEF FirstNo, baseVars, CallNo, BlockNo, Undo
<1>5. /\ enq'.pc = "undo" /\ enq'.chain = enq.chain /\ enq'.base = FirstNew
  BY DEF Undo
<1>6. Len(enq.chain) = CallNo - FirstNo /\ CallNo \in Nat /\ FirstNo <= CallNo
  <2>1. CallNo \in Nat /\ FirstNo <= CallNo
    BY <1>1, CallFacts
  <2>2. Len(enq.chain) = CallNo - FirstNo + (IF enq.pc = "value" THEN 1 ELSE 0)
    BY <1>1, <1>2 DEF CallInv
  <2> QED
    BY <1>3, <2>1, <2>2
<1>7. enq' \in Enq
  BY <1>2, <1>3 DEF Undo, Enq
<1>8. CallInv'
  <2>1. ~(enq'.pc \in Step)
    BY <1>5 DEF Step
  <2>2. header' = <<>> => /\ tailIndex' = 0 /\ enq'.chain = <<>>
                          /\ \A e \in Entry : value'[e] = Null
    BY <1>1, <1>5 DEF CallInv, baseVars
  <2> QED
    BY <1>2, <1>3, <1>4, <1>5, <2>1, <2>2 DEF CallInv
<1>9. Keyed' = Keyed /\ AtTail' = AtTail
  <2>1. Keyed = CallNo /\ AtTail = CallNo
    BY DEF Keyed, AtTail
  <2>2. /\ Keyed' = FirstNo + Len(enq.chain)
        /\ AtTail' = FirstNo + Len(enq.chain) - (FirstNo - FirstNo)
    BY <1>4, <1>5 DEF Keyed, AtTail
  <2> QED
    BY <1>3, <1>6, <2>1, <2>2
<1>10. Constructed' = Constructed
  BY <1>5 DEF Constructed, baseVars
<1>11. \A m \in Int : InCall(m)' <=> InCall(m)
  BY <1>4, <1>5 DEF InCall
<1>12. \A b \in Block : InHand(b)' <=> InHand(b)
  BY <1>3, <1>4, <1>5 DEF InHand
<1> QED
  BY <1>5, <1>7, <1>8, <1>9, <1>10, <1>11, <1>12, CallMoves

\* The limit on the size of the sub-queue.
LEMMA RoomStep ==
  ASSUME BaseInv, BlockInv, Room
  PROVE  BlockInv'
<1>0. enq.pc = "room"
      /\ UNCHANGED <<baseVars, free, slot, dequeued, key, value, header, tailBlock, rd>>
  BY DEF Room
<1>1. CASE enq' = Undo
  BY <1>0, <1>1, GiveUp
<1>2. CASE enq' = [enq EXCEPT !.pc = "insert"]
  <2>1. ShapeInv /\ CallInv
    BY DEF BlockInv
  <2>2. enq \in [pc : Step, n : 1 .. MaxBulk, base : Nat, chain : Seq(Block)]
    BY <1>0, <2>1, EnqFields DEF ShapeInv, Step
  <2>3. /\ enq'.pc = "insert" /\ enq'.n = enq.n /\ enq'.base = enq.base
        /\ enq'.chain = enq.chain
        /\ enq' \in [pc : Step, n : 1 .. MaxBulk, base : Nat, chain : Seq(Block)]
    BY <1>2, <2>2 DEF Step
  <2>4. FirstNo' = FirstNo /\ CallNo' = CallNo /\ UNCHANGED <<tailIndex, value, header>>
    BY <1>0, <2>3 DEF FirstNo, CallNo, BlockNo, baseVars
  <2>5. CallInv'
    BY <1>0, <2>1, <2>3, <2>4 DEF CallInv, Step, BlockNo
  <2> QED
    BY <1>0, <2>3, <2>4, <2>5, CallMoves
    DEF Enq, Keyed, AtTail, Constructed, InCall, InHand
<1> QED
  BY <1>1, <1>2 DEF Room

\* A call begins.
LEMMA EnqueueStep ==
  ASSUME BaseInv, BlockInv, NEW n \in 1 .. MaxBulk, Enqueue(n)
  PROVE  BlockInv'
<1>0. /\ enq.pc = "idle" /\ tailIndex + n <= MaxTail
      /\ UNCHANGED <<baseVars, free, slot, dequeued, key, value, header, tailBlock, rd>>
  BY DEF Enqueue
<1>1. ShapeInv /\ CallInv /\ n \in Nat \ {0}
  BY BaseAssumption DEF BlockInv
<1>2. /\ tailIndex \in Nat /\ FirstNo \in Nat /\ FirstNew = BLOCK_SIZE * FirstNo
      /\ FirstNew \in Nat /\ BLOCK_SIZE \in Nat \ {0, 1}
  BY Counters
<1>3. /\ enq'.pc = (IF FirstNew <= LastNew(n) THEN "room" ELSE "construct")
      /\ enq'.n = n /\ enq'.base = FirstNew /\ enq'.chain = <<>> /\ enq' \in Enq
  BY <1>2 DEF Enqueue, Enq, Step
<1>4. FirstNo' = FirstNo /\ CallNo' = FirstNo /\ tailIndex' = tailIndex
  BY <1>0, <1>2, <1>3, NoOfBase DEF FirstNo, baseVars, CallNo, BlockNo
<1>5. /\ tailIndex + n - 1 \in Nat /\ LastNew(n) = BLOCK_SIZE * BlockNo(tailIndex + n - 1)
      /\ BlockNo(tailIndex + n - 1) \in Nat
  <2>1. tailIndex + n - 1 \in Nat
    BY <1>1, <1>2
  <2> QED
    BY <2>1, NoBase DEF LastNew
<1>6. FirstNew <= LastNew(n) => FirstNo <= BlockNo(tailIndex + n - 1)
  <2>1. BlockNo(tailIndex + n - 1) < FirstNo =>
          BLOCK_SIZE * BlockNo(tailIndex + n - 1) < BLOCK_SIZE * FirstNo
    <3> DEFINE x == BlockNo(tailIndex + n - 1)
    <3>1. x \in Nat
      BY <1>5
    <3> HIDE DEF x
    <3>2. x < FirstNo => BLOCK_SIZE * x < BLOCK_SIZE * FirstNo
      BY <1>2, <3>1
    <3> QED
      BY <3>2 DEF x
  <2> QED
    BY <1>2, <1>5, <2>1
<1>7. ~(FirstNew <= LastNew(n)) => FirstNo = BlockNo(tailIndex + n + BLOCK_SIZE - 1)
  <2> SUFFICES ASSUME LastNew(n) < FirstNew
               PROVE  FirstNo = BlockNo(tailIndex + n + BLOCK_SIZE - 1)
    BY <1>2, <1>5
  <2>1. BlockNo(tailIndex + n - 1) < FirstNo
    <3>1. FirstNo <= BlockNo(tailIndex + n - 1) =>
            BLOCK_SIZE * FirstNo <= BLOCK_SIZE * BlockNo(tailIndex + n - 1)
      <4> DEFINE x == BlockNo(tailIndex + n - 1)
      <4>1. x \in Nat
        BY <1>5
      <4> HIDE DEF x
      <4>2. FirstNo <= x => BLOCK_SIZE * FirstNo <= BLOCK_SIZE * x
        BY <1>2, <4>1
      <4> QED
        BY <4>2 DEF x
    <3> QED
      BY <1>2, <1>5, <3>1
  <2>2. tailIndex + n - 1 < BLOCK_SIZE * FirstNo
    BY <1>2, <1>5, <2>1, NoBefore
  <2>3. tailIndex <= BLOCK_SIZE * FirstNo /\ BLOCK_SIZE * FirstNo < tailIndex + BLOCK_SIZE
    BY Counters
  <2>4. tailIndex + n + BLOCK_SIZE - 1 \in Elems(FirstNo)
    BY <1>1, <1>2, <2>2, <2>3 DEF Elems
  <2> QED
    BY <1>1, <1>2, <2>4, NoElems
<1>8. CallInv'
  <2>1. Len(enq'.chain) = 0
    BY <1>3
  <2>2. header' = <<>> => enq'.pc \in {"room"} /\ \A e \in Entry : value'[e] = Null
    <3> SUFFICES ASSUME header = <<>> PROVE FirstNew <= LastNew(n) /\ \A e \in Entry : value[e] = Null
      BY <1>0, <1>3
    <3>1. tailIndex = 0 /\ \A e \in Entry : value[e] = Null
      BY <1>1 DEF CallInv
    <3>2. FirstNo = 0
      <4>1. BLOCK_SIZE * FirstNo < BLOCK_SIZE * 1
        BY <1>2, <3>1, Counters
      <4> QED
        BY <1>2, <4>1
    <3> QED
      BY <1>2, <1>5, <3>1, <3>2
  <2>3. enq'.pc \in Step /\ enq'.pc \in {"room", "construct"} /\ tailIndex' + enq'.n <= MaxTail
    BY <1>0, <1>3, <1>4 DEF Step
  <2>4. enq'.base = BLOCK_SIZE * CallNo'
    BY <1>2, <1>3, <1>4
  <2>5. enq'.pc = "room" => CallNo' <= BlockNo(tailIndex' + enq'.n - 1)
    BY <1>3, <1>4, <1>6
  <2>6. enq'.pc = "construct" => CallNo' = BlockNo(tailIndex' + enq'.n + BLOCK_SIZE - 1)
    BY <1>3, <1>4, <1>7
  <2>7. header' = <<>> => tailIndex' = 0
    BY <1>0, <1>1, <1>4 DEF CallInv
  <2> QED
    BY <1>2, <1>3, <1>4, <2>1, <2>2, <2>3, <2>4, <2>5, <2>6, <2>7 DEF CallInv, BlockNo
<1>9. Keyed' = Keyed /\ AtTail' = AtTail
  BY <1>0, <1>3, <1>4 DEF Keyed, AtTail
<1>10. Constructed' = Constructed
  BY <1>0, <1>3, <1>4 DEF Constructed
<1>11. \A m \in Int : ~InCall(m) /\ ~InCall(m)'
  BY <1>0, <1>2, <1>3, <1>4 DEF InCall
<1>12. \A b \in Block : InHand(b)' <=> InHand(b)
  BY <1>0, <1>3 DEF InHand
<1> QED
  BY <1>0, <1>3, <1>8, <1>9, <1>10, <1>11, <1>12, CallMoves

\* No room in the index, or a constructor throws.
LEMMA GiveUpStep ==
  ASSUME BaseInv, BlockInv, InsertFails \/ ConstructThrows
  PROVE  BlockInv'
  BY GiveUp DEF InsertFails, ConstructThrows

\* The key of the next entry is written: the entry was unused, or its block is gone.
LEMMA InsertKeyStep ==
  ASSUME BaseInv, BlockInv, InsertKey
  PROVE  BlockInv'
<1> USE DEF ElementsStay, IndexStays
<1>0. /\ enq.pc = "insert" /\ header # <<>>
      /\ key[NewEntry] = INVALID_BLOCK_BASE \/ value[NewEntry] = Null
      /\ key' = [key EXCEPT ![NewEntry] = enq.base]
      /\ enq' = [enq EXCEPT !.pc = "tail"]
      /\ UNCHANGED <<baseVars, free, slot, dequeued, value, header, tailBlock, rd>>
  BY DEF InsertKey
<1>1. ShapeInv /\ CallInv /\ OwnerInv
  BY DEF BlockInv
<1>2. PICK off \in [1 .. Len(header) -> Int] : IndexInv(off)
  BY <1>0 DEF BlockInv
<1>3. HeaderInv(off) /\ WindowInv(off) /\ LinkInv(off) /\ ReaderInv(off) /\ SlotInv(off)
  BY <1>2 DEF IndexInv
<1> DEFINE W == CallNo
           C == Cur.capacity
<1>4. W \in Nat /\ FirstNo \in Nat /\ FirstNo <= W /\ Keyed = W /\ AtTail = W
  BY <1>0, <1>1, CallFacts, Counters DEF Keyed, AtTail
<1>5. NewEntry = CurAt(off, W) /\ CurAt(off, W) \in 1 .. C /\ CurAt(off, W) \in Entry
  BY <1>0, <1>1, <1>3, <1>4, NewEntryIs, CurType
<1>6. C \in Nat \ {0}
  BY <1>0, <1>1, CurFacts
<1>7. enq.base = BLOCK_SIZE * W /\ enq.base \in Nat /\ enq.pc \in Step
  BY <1>0, <1>1, EnqFields DEF CallInv, ShapeInv, Step
<1>8. /\ enq'.pc = "tail" /\ enq'.n = enq.n /\ enq'.base = enq.base /\ enq'.chain = enq.chain
      /\ enq' \in Enq
  <2>1. enq \in [pc : Step, n : 1 .. MaxBulk, base : Nat, chain : Seq(Block)]
    BY <1>1, <1>7, EnqFields DEF ShapeInv
  <2>2. enq' \in [pc : Step, n : 1 .. MaxBulk, base : Nat, chain : Seq(Block)]
    BY <1>0, <2>1 DEF Step
  <2> QED
    BY <1>0, <2>1, <2>2 DEF Enq
<1>9. UNCHANGED <<tailIndex, headIndex, pc, loc, rd>>
  BY <1>0 DEF baseVars
<1>10. ElementsStay
  BY <1>9, ReadersStay
<1>11. CallNo' = W /\ Keyed' = W + 1 /\ AtTail' = W /\ Constructed' = Constructed
  BY <1>0, <1>8, <1>9 DEF CallNo, BlockNo, Keyed, AtTail, Constructed
<1>12. /\ \A m \in Int : InCall(m)' <=> InCall(m)
       /\ \A m \in Int : Linked(m)' <=> Linked(m)
       /\ \A b : InHand(b)' <=> InHand(b)
  BY <1>0, <1>8, <1>10, <1>11 DEF InCall, Linked, InHand
<1>13. Present' = Present
  BY <1>9, <1>10, <1>11 DEF Present
<1>14. ASSUME NEW m \in Int, Linked(m) PROVE W + 1 - C <= m /\ m < W
  <2>1. W - C <= m /\ m < W
    BY <1>1, <1>3, <1>4, <1>14, LinkedRange DEF LinkInv
  <2>2. ASSUME m = W - C PROVE FALSE
    <3>1. m + C = W
      BY <1>4, <1>6, <2>2
    <3>2. CurAt(off, W) = CurAt(off, m)
      BY <1>0, <1>1, <1>3, <3>1, CurPeriod
    <3>3. key[CurAt(off, W)] = BLOCK_SIZE * m /\ value[CurAt(off, W)] \in Block
      BY <1>3, <1>14, <3>2 DEF LinkInv
    <3> QED
      BY <1>0, <1>5, <3>3, BaseOrder, ImplicitAssumption
  <2> QED
    BY <1>4, <1>6, <2>1, <2>2
<1>15. ASSUME NEW m \in Int, W + 1 - C <= m, m < W
       PROVE  CurAt(off, m) # CurAt(off, W) /\ key'[CurAt(off, m)] = key[CurAt(off, m)]
  <2>1. CurAt(off, m) # CurAt(off, W)
    <3>1. m - W < C /\ W - m < C
      BY <1>4, <1>6, <1>15
    <3> QED
      BY <1>0, <1>1, <1>3, <1>4, <1>15, <3>1, CurInj
  <2>2. CurAt(off, m) \in Entry
    BY <1>0, <1>1, <1>3, CurType
  <2> QED
    BY <1>0, <1>5, <2>1, <2>2
<1>16. /\ key' \in [Entry -> Nat] /\ key'[CurAt(off, W)] = BLOCK_SIZE * W
       /\ \A e \in Entry : e # CurAt(off, W) => key'[e] = key[e]
       /\ \A e \in Entry : key[e] # INVALID_BLOCK_BASE => key'[e] # INVALID_BLOCK_BASE
  <2>1. key \in [Entry -> Nat]
    BY <1>1 DEF ShapeInv, TypeOK
  <2>2. BLOCK_SIZE * W # INVALID_BLOCK_BASE
    BY <1>4, BaseOrder
  <2> QED
    BY <1>0, <1>5, <1>7, <2>1, <2>2
<1>17. ShapeInv'
  BY <1>0, <1>1, <1>8, <1>9, <1>16 DEF ShapeInv, TypeOK, BaseTypeOK, baseVars
<1>18. CallInv'
  BY <1>0, <1>1, <1>7, <1>8, <1>9, <1>10, <1>11 DEF CallInv, Step, BlockNo
<1>19. OwnerInv'
  BY <1>0, <1>1, <1>8, <1>10, <1>12 DEF OwnerInv
<1>20. IndexStays(off)
  BY <1>0, SameIndex
<1>21. HeaderInv(off)'
  <2>1. ASSUME NEW j \in 1 .. Len(header) - 1
        PROVE  key'[header[j].index[header[j].tail]] # INVALID_BLOCK_BASE
    <3>1. header[j].index[header[j].tail] \in Entry
      <4>1. j \in 1 .. Len(header) /\ header[j].capacity \in Nat
        BY <1>0, <1>1, CurFacts
      <4>2. header[j].index[header[j].tail] \in 1 .. header[j].capacity
        BY <1>3, <4>1 DEF HeaderInv
      <4>3. header[j].capacity <= Cur.capacity /\ Cur.capacity <= MaxEntries
        BY <1>3, <4>1 DEF HeaderInv
      <4> QED
        BY <1>6, <4>1, <4>2, <4>3, ImplicitAssumption DEF Entry
    <3> QED
      BY <1>3, <1>16, <3>1 DEF HeaderInv
  <2> QED
    BY <1>0, <1>3, <1>20, <2>1 DEF HeaderInv
<1>22. WindowInv(off)'
  <2>1. ASSUME NEW e \in Entry, e > C PROVE key'[e] = INVALID_BLOCK_BASE
    <3>1. e # CurAt(off, W)
      BY <1>5, <1>6, <2>1 DEF Entry
    <3> QED
      BY <1>3, <1>16, <2>1, <3>1 DEF WindowInv
  <2>2. ASSUME NEW m \in Int, (W + 1) - C <= m, m < W + 1
        PROVE  key'[CurAt(off, m)] \in {INVALID_BLOCK_BASE, BLOCK_SIZE * m,
                                        BLOCK_SIZE * (m + C)}
    <3>1. CASE m = W
      BY <1>16, <3>1
    <3>2. CASE m < W
      <4>1. key[CurAt(off, m)] \in {INVALID_BLOCK_BASE, BLOCK_SIZE * m, BLOCK_SIZE * (m + C)}
        BY <1>3, <1>4, <1>6, <2>2, <3>2 DEF WindowInv
      <4> QED
        BY <1>4, <1>6, <1>15, <2>2, <3>2, <4>1
    <3> QED
      BY <1>4, <2>2, <3>1, <3>2
  <2>3. ASSUME NEW m \in Int, NEW k \in Int, (W + 1) - C <= m, m <= k, k < W + 1,
               key'[CurAt(off, m)] = BLOCK_SIZE * m
        PROVE  key'[CurAt(off, k)] = BLOCK_SIZE * k
    <3>1. CASE k = W
      BY <1>16, <3>1
    <3>2. CASE k < W
      <4>1. m < W /\ W + 1 - C <= k /\ W - C <= m
        BY <1>4, <1>6, <2>3, <3>2
      <4>2. key[CurAt(off, m)] = BLOCK_SIZE * m
        BY <1>4, <1>6, <1>15, <2>3, <4>1
      <4>3. key[CurAt(off, k)] = BLOCK_SIZE * k
        BY <1>3, <1>4, <2>3, <3>2, <4>1, <4>2 DEF WindowInv
      <4> QED
        BY <1>15, <3>2, <4>1, <4>3
    <3> QED
      BY <1>4, <2>3, <3>1, <3>2
  <2>4. (W + 1) - C <= FirstNo
    <3>1. CASE FirstNo = W
      BY <1>4, <1>6, <3>1
    <3>2. CASE FirstNo < W
      <4>1. Len(enq.chain) = W - FirstNo
        <5>1. Len(enq.chain) = W - FirstNo + (IF enq.pc = "value" THEN 1 ELSE 0)
          BY <1>1, <1>7 DEF CallInv
        <5> QED
          BY <1>0, <1>4, <5>1
      <4>2. InCall(FirstNo)
        BY <1>0, <1>4, <3>2, <4>1 DEF InCall
      <4> QED
        BY <1>4, <1>6, <1>14, <4>2 DEF Linked
    <3> QED
      BY <1>4, <3>1, <3>2
  <2>5. ASSUME NEW m \in Int, FirstNo <= m, m < W + 1
        PROVE  key'[CurAt(off, m)] = BLOCK_SIZE * m
    <3>1. CASE m = W
      BY <1>16, <3>1
    <3>2. CASE m < W
      <4>1. key[CurAt(off, m)] = BLOCK_SIZE * m
        BY <1>3, <1>4, <2>5, <3>2 DEF WindowInv
      <4>2. W + 1 - C <= m
        BY <1>4, <1>6, <2>4, <2>5
      <4> QED
        BY <1>15, <3>2, <4>1, <4>2
    <3> QED
      BY <1>4, <2>5, <3>1, <3>2
  <2>6. Cur.tail = Pos(off, Len(header), W - 1)
    BY <1>3, <1>4 DEF WindowInv
  <2> HIDE DEF W, C
  <2> QED
    BY <1>0, <1>10, <1>11, <1>20, <2>1, <2>2, <2>3, <2>4, <2>5, <2>6 DEF WindowInv, C
<1>23. LinkInv(off)'
  <2>1. ASSUME NEW m \in Int, Linked(m)
        PROVE  /\ (W + 1) - C <= m /\ key'[CurAt(off, m)] = BLOCK_SIZE * m
               /\ value[CurAt(off, m)] \in Block
               /\ dequeued[value[CurAt(off, m)]] = Cardinality(Counted \cap Elems(m))
    BY <1>3, <1>4, <1>6, <1>14, <1>15, <2>1 DEF LinkInv
  <2> HIDE DEF W, C
  <2> QED
    BY <1>0, <1>3, <1>8, <1>10, <1>11, <1>12, <1>20, <2>1
    DEF LinkInv, BlockNo, Elems, C
<1>24. ReaderInv(off)'
  <2>1. ASSUME NEW c \in Consumer, rd[c].pc = "key"
        PROVE  key'[header[rd[c].h].index[rd[c].t]] # INVALID_BLOCK_BASE
    <3>1. /\ rd[c].h \in 1 .. Len(header) /\ rd[c].t \in 0 .. header[rd[c].h].capacity - 1
          /\ key[header[rd[c].h].index[rd[c].t]] # INVALID_BLOCK_BASE
      BY <1>3, <2>1 DEF ReaderInv, ReaderAt
    <3>2. header[rd[c].h].index[rd[c].t] \in 1 .. header[rd[c].h].capacity
      BY <1>3, <3>1 DEF HeaderInv
    <3>3. header[rd[c].h].capacity \in Nat /\ header[rd[c].h].capacity <= Cur.capacity
      BY <1>0, <1>1, <1>3, <3>1, CurFacts DEF HeaderInv
    <3>4. Cur.capacity <= MaxEntries
      BY <1>3 DEF HeaderInv
    <3>5. header[rd[c].h].index[rd[c].t] \in Entry
      BY <1>6, <3>2, <3>3, <3>4, ImplicitAssumption DEF Entry
    <3> QED
      BY <1>16, <3>1, <3>5
  <2> QED
    BY <1>0, <1>3, <1>9, <1>10, <1>20, <2>1 DEF ReaderInv, ReaderAt, BlockNo
<1>25. SlotInv(off)'
  BY <1>0, <1>3, <1>13, <1>20 DEF SlotInv, BlockNo
<1> QED
  BY <1>0, <1>17, <1>18, <1>19, <1>20, <1>21, <1>22, <1>23, <1>24, <1>25
  DEF BlockInv, IndexInv

\* Setting the tail of the present index leaves the rest of it alone.
LEMMA SetTailFacts ==
  ASSUME ShapeInv, header # <<>>, NEW t \in Nat, SetTail(t)
  PROVE  /\ header' \in Seq(Header) /\ Len(header') = Len(header) /\ header' # <<>>
         /\ Cur'.tail = t /\ Cur'.capacity = Cur.capacity /\ Cur'.index = Cur.index
         /\ \A j \in 1 .. Len(header) : /\ header'[j].capacity = header[j].capacity
                                        /\ header'[j].index = header[j].index
         /\ \A j \in 1 .. Len(header) - 1 : header'[j] = header[j]
<1>1. /\ Len(header) \in Nat \ {0} /\ header \in Seq(Header) /\ Cur = header[Len(header)]
      /\ Cur \in Header
  BY CurFacts DEF ShapeInv
<1> DEFINE x == [Cur EXCEPT !.tail = t]
<1>2. x \in Header /\ x.tail = t /\ x.capacity = Cur.capacity /\ x.index = Cur.index
  BY <1>1 DEF Header
<1> HIDE DEF x
<1>3. header' = [header EXCEPT ![Len(header)] = x]
  BY <1>1 DEF SetTail, x
<1>4. header' \in Seq(Header) /\ Len(header') = Len(header)
  <2> HIDE DEF Header
  <2> QED
    BY <1>1, <1>2, <1>3
<1>5. header' # <<>>
  BY <1>1, <1>4
<1>6. Cur' = x
  BY <1>1, <1>3, <1>4 DEF Cur, Last
<1>7. header'[Len(header)] = x /\ \A j \in 1 .. Len(header) - 1 : header'[j] = header[j]
  BY <1>1, <1>3
<1> QED
  BY <1>1, <1>2, <1>4, <1>5, <1>6, <1>7

\* So positions and entries stay, and the invariant of the headers.
LEMMA SetTailIndex ==
  ASSUME ShapeInv, header # <<>>, NEW off, HeaderInv(off), NEW t \in 0 .. Cur.capacity - 1,
         SetTail(t), key' = key
  PROVE  /\ \A j \in 1 .. Len(header) :
              \A m : Pos(off, j, m)' = Pos(off, j, m) /\ At(off, j, m)' = At(off, j, m)
         /\ \A m : CurAt(off, m)' = CurAt(off, m)
         /\ HeaderInv(off)'
<1>0. Cur.capacity \in Nat \ {0} /\ t \in Nat
  BY CurFacts
<1>1. /\ header' \in Seq(Header) /\ Len(header') = Len(header) /\ header' # <<>>
      /\ Cur'.tail = t /\ Cur'.capacity = Cur.capacity /\ Cur'.index = Cur.index
      /\ \A j \in 1 .. Len(header) : /\ header'[j].capacity = header[j].capacity
                                     /\ header'[j].index = header[j].index
      /\ \A j \in 1 .. Len(header) - 1 : header'[j] = header[j]
  BY <1>0, SetTailFacts
<1>2. \A j \in 1 .. Len(header) :
        \A m : Pos(off, j, m)' = Pos(off, j, m) /\ At(off, j, m)' = At(off, j, m)
  BY <1>1 DEF Pos, At
<1>3. Len(header) \in 1 .. Len(header) /\ Cur = header[Len(header)] /\ Len(header) \in Nat
  BY CurFacts
<1>4. \A m : CurAt(off, m)' = CurAt(off, m)
  BY <1>1, <1>2, <1>3 DEF CurAt
<1>5. HeaderInv(off)'
  <2>1. ASSUME NEW j \in 1 .. Len(header)
        PROVE  header'[j].tail \in 0 .. header[j].capacity - 1
    <3>1. CASE j = Len(header)
      BY <1>1, <1>3, <3>1 DEF Cur, Last
    <3>2. CASE j # Len(header)
      <4>1. j \in 1 .. Len(header) - 1
        BY <1>3, <3>2
      <4> QED
        BY <1>1, <4>1 DEF HeaderInv
    <3> QED
      BY <3>1, <3>2
  <2>2. ASSUME NEW j \in 1 .. Len(header) - 1
        PROVE  key'[header'[j].index[header'[j].tail]] # INVALID_BLOCK_BASE
    BY <1>1 DEF HeaderInv
  <2>3. \A j \in 1 .. Len(header') : \A q \in 0 .. header'[j].capacity - 1 : \A m \in Int :
          CurAt(off, m)' = header'[j].index[q] => q = Pos(off, j, m)'
    <3> SUFFICES ASSUME NEW j \in 1 .. Len(header), NEW q \in 0 .. header'[j].capacity - 1,
                        NEW m \in Int, CurAt(off, m)' = header'[j].index[q]
                 PROVE  q = Pos(off, j, m)'
      BY <1>1
    <3>1. q \in 0 .. header[j].capacity - 1 /\ CurAt(off, m) = header[j].index[q]
      BY <1>1, <1>4
    <3> QED
      BY <1>2, <3>1 DEF HeaderInv
  <2>4. \A j \in 1 .. Len(header') :
          /\ header'[j].capacity <= Cur'.capacity
          /\ header'[j].index \in [0 .. header'[j].capacity - 1 -> 1 .. header'[j].capacity]
          /\ header'[j].tail \in 0 .. header'[j].capacity - 1
    BY <1>1, <2>1 DEF HeaderInv
  <2>5. /\ off \in [1 .. Len(header') -> Int] /\ Cur'.capacity <= MaxEntries
        /\ \A e \in 1 .. Cur'.capacity : \E p \in 0 .. Cur'.capacity - 1 : Cur'.index[p] = e
    BY <1>1 DEF HeaderInv
  <2> QED
    BY <1>1, <2>2, <2>3, <2>4, <2>5 DEF HeaderInv
<1> QED
  BY <1>2, <1>4, <1>5

\* The tail moves on to the new entry.
LEMMA InsertTailStep ==
  ASSUME BaseInv, BlockInv, InsertTail
  PROVE  BlockInv'
<1> USE DEF ElementsStay
<1>0. /\ enq.pc = "tail" /\ SetTail(NewTail) /\ enq' = [enq EXCEPT !.pc = "block"]
      /\ UNCHANGED <<baseVars, free, slot, dequeued, key, value, tailBlock, rd>>
  BY DEF InsertTail
<1>1. ShapeInv /\ CallInv /\ OwnerInv
  BY DEF BlockInv
<1>2. header # <<>>
  BY <1>0, <1>1 DEF CallInv
<1>3. PICK off \in [1 .. Len(header) -> Int] : IndexInv(off)
  BY <1>2 DEF BlockInv
<1>4. HeaderInv(off) /\ WindowInv(off) /\ LinkInv(off) /\ ReaderInv(off) /\ SlotInv(off)
  BY <1>3 DEF IndexInv
<1>5. CallNo \in Nat /\ Keyed = CallNo + 1 /\ AtTail = CallNo
  BY <1>0, <1>1, CallFacts DEF Keyed, AtTail
<1>6. NewTail = Pos(off, Len(header), CallNo) /\ NewTail \in 0 .. Cur.capacity - 1
  <2>1. NewTail = Pos(off, Len(header), CallNo)
    BY <1>1, <1>2, <1>4, <1>5, NewEntryIs
  <2>2. CallNo \in Int
    BY <1>5
  <2> QED
    BY <1>1, <1>2, <1>4, <2>1, <2>2, CurType
<1>7. /\ header' \in Seq(Header) /\ Len(header') = Len(header) /\ header' # <<>>
      /\ Cur'.tail = NewTail /\ Cur'.capacity = Cur.capacity /\ Cur'.index = Cur.index
      /\ \A j \in 1 .. Len(header) : /\ header'[j].capacity = header[j].capacity
                                     /\ header'[j].index = header[j].index
  <2>1. NewTail \in Nat
    BY <1>1, <1>2, <1>6, CurFacts
  <2> QED
    BY <1>0, <1>1, <1>2, <2>1, SetTailFacts
<1>8. /\ \A j \in 1 .. Len(header) :
           \A m : Pos(off, j, m)' = Pos(off, j, m) /\ At(off, j, m)' = At(off, j, m)
      /\ \A m : CurAt(off, m)' = CurAt(off, m)
      /\ HeaderInv(off)'
  BY <1>0, <1>1, <1>2, <1>4, <1>6, SetTailIndex
<1>9. /\ enq'.pc = "block" /\ enq'.n = enq.n /\ enq'.base = enq.base
      /\ enq'.chain = enq.chain /\ enq' \in Enq
  <2>1. enq \in [pc : Step, n : 1 .. MaxBulk, base : Nat, chain : Seq(Block)]
    BY <1>0, <1>1, EnqFields DEF ShapeInv, Step
  <2>2. enq' \in [pc : Step, n : 1 .. MaxBulk, base : Nat, chain : Seq(Block)]
    BY <1>0, <2>1 DEF Step
  <2> QED
    BY <1>0, <2>1, <2>2 DEF Enq
<1>10. UNCHANGED <<tailIndex, headIndex, pc, loc, rd>>
  BY <1>0 DEF baseVars
<1>11. ElementsStay
  BY <1>10, ReadersStay
<1>12. CallNo' = CallNo /\ Keyed' = Keyed /\ AtTail' = CallNo + 1 /\ Constructed' = Constructed
  BY <1>0, <1>5, <1>9, <1>10 DEF CallNo, BlockNo, Keyed, AtTail, Constructed
<1>13. /\ \A m \in Int : InCall(m)' <=> InCall(m)
       /\ \A m \in Int : Linked(m)' <=> Linked(m)
       /\ \A b : InHand(b)' <=> InHand(b)
  BY <1>0, <1>9, <1>11, <1>12 DEF InCall, Linked, InHand
<1>14. Present' = Present
  BY <1>10, <1>11, <1>12 DEF Present
<1>15. ShapeInv'
  BY <1>0, <1>1, <1>7, <1>9, <1>10 DEF ShapeInv, TypeOK, BaseTypeOK, baseVars
<1>16. CallInv'
  BY <1>0, <1>1, <1>7, <1>9, <1>10, <1>11, <1>12 DEF CallInv, Step, BlockNo
<1>17. OwnerInv'
  BY <1>0, <1>1, <1>9, <1>11, <1>13 DEF OwnerInv
<1>18. WindowInv(off)'
  <2>1. Cur'.tail = Pos(off, Len(header), CallNo)
    BY <1>6, <1>7
  <2>2. (CallNo + 1) - 1 = CallNo
    BY <1>5
  <2>3. header'[Len(header)].capacity = header[Len(header)].capacity
    BY <1>1, <1>2, <1>7, CurFacts
  <2>4. Cur'.tail = Pos(off, Len(header), AtTail - 1)'
    BY <1>7, <1>12, <2>1, <2>2, <2>3 DEF Pos
  <2> QED
    BY <1>0, <1>4, <1>7, <1>8, <1>11, <1>12, <2>4, SMTT(40) DEF WindowInv
<1>19. LinkInv(off)'
  BY <1>0, <1>4, <1>7, <1>8, <1>9, <1>11, <1>12, <1>13, ZenonT(40) DEF LinkInv, BlockNo, Elems
<1>20. ReaderInv(off)'
  BY <1>0, <1>4, <1>7, <1>8, <1>10, <1>11, SMTT(40) DEF ReaderInv, ReaderAt, BlockNo
<1>21. SlotInv(off)'
  BY <1>0, <1>4, <1>8, <1>14 DEF SlotInv, BlockNo
<1> QED
  BY <1>7, <1>8, <1>15, <1>16, <1>17, <1>18, <1>19, <1>20, <1>21 DEF BlockInv, IndexInv

\* A block comes out of the pool: it belongs to the call, in no entry yet.
LEMMA RequisitionStep ==
  ASSUME BaseInv, BlockInv, Requisition
  PROVE  BlockInv'
<1> USE DEF ElementsStay, IndexStays
<1>0. /\ enq.pc = "block"
      /\ UNCHANGED <<baseVars, slot, key, value, header, tailBlock, rd>>
  BY DEF Requisition
<1>1. PICK b \in free : /\ free' = free \ {b}
                        /\ dequeued' = [dequeued EXCEPT ![b] = 0]
                        /\ enq' = [enq EXCEPT !.pc = "value", !.chain = Append(@, b)]
  BY DEF Requisition
<1>2. ShapeInv /\ CallInv /\ OwnerInv
  BY DEF BlockInv
<1>3. header # <<>>
  BY <1>0, <1>2 DEF CallInv
<1>4. PICK off \in [1 .. Len(header) -> Int] : IndexInv(off)
  BY <1>3 DEF BlockInv
<1>5. HeaderInv(off) /\ WindowInv(off) /\ LinkInv(off) /\ ReaderInv(off) /\ SlotInv(off)
  BY <1>4 DEF IndexInv
<1>6. b \in Block /\ free \subseteq Block /\ dequeued \in [Block -> 0 .. BLOCK_SIZE]
  BY <1>2 DEF ShapeInv, TypeOK
<1>7. enq \in [pc : Step, n : 1 .. MaxBulk, base : Nat, chain : Seq(Block)]
  BY <1>0, <1>2, EnqFields DEF ShapeInv, Step
<1>8. /\ enq'.pc = "value" /\ enq'.n = enq.n /\ enq'.base = enq.base
      /\ enq'.chain = Append(enq.chain, b)
      /\ enq' \in [pc : Step, n : 1 .. MaxBulk, base : Nat, chain : Seq(Block)]
  <2>0. enq.chain \in Seq(Block)
    BY <1>7
  <2>3. Append(enq.chain, b) \in Seq(Block)
    BY <1>6, <2>0
  <2>1. PICK ch \in Seq(Block) : ch = Append(enq.chain, b)
    BY <2>3, Zenon
  <2>2. enq' = [enq EXCEPT !.pc = "value", !.chain = ch]
    BY <1>1, <2>1
  <2> QED
    BY <1>7, <2>1, <2>2 DEF Step
<1>9. /\ enq.chain \in Seq(Block) /\ Len(enq.chain) \in Nat
      /\ Len(enq'.chain) = Len(enq.chain) + 1 /\ enq'.chain[Len(enq'.chain)] = b
      /\ \A k \in 1 .. Len(enq.chain) : enq'.chain[k] = enq.chain[k]
  BY <1>6, <1>7, <1>8
<1>10. UNCHANGED <<tailIndex, headIndex, pc, loc, rd>>
  BY <1>0 DEF baseVars
<1>11. ElementsStay
  BY <1>10, ReadersStay
<1>12. CallNo \in Nat /\ FirstNo \in Nat /\ FirstNo <= CallNo /\ Len(enq.chain) = CallNo - FirstNo
  <2>1. CallNo \in Nat /\ FirstNo \in Nat /\ FirstNo <= CallNo
    BY <1>0, <1>2, CallFacts, Counters
  <2>2. Len(enq.chain) = CallNo - FirstNo + (IF enq.pc = "value" THEN 1 ELSE 0)
    BY <1>0, <1>2 DEF CallInv, Step
  <2> QED
    BY <1>0, <2>1, <2>2
<1>13. CallNo' = CallNo /\ Keyed' = Keyed /\ AtTail' = AtTail /\ Constructed' = Constructed
  BY <1>0, <1>8, <1>10 DEF CallNo, BlockNo, Keyed, AtTail, Constructed
<1>14. /\ \A m \in Int : InCall(m)' <=> InCall(m)
       /\ \A m \in Int : Linked(m)' <=> Linked(m)
  <2>1. \A m \in Int : InCall(m)' <=> InCall(m)
    BY <1>0, <1>8, <1>9, <1>11, <1>12 DEF InCall
  <2> QED
    BY <1>11, <2>1 DEF Linked
<1>15. \A x : InHand(x)' <=> x = b
  BY <1>8, <1>9 DEF InHand
<1>16. \A x : ~InHand(x)
  BY <1>0 DEF InHand
<1>17. Present' = Present
  BY <1>10, <1>11, <1>13 DEF Present
<1>18. ShapeInv'
  <2>1. dequeued' \in [Block -> 0 .. BLOCK_SIZE]
    BY <1>1, <1>6, ImplicitAssumption
  <2> QED
    BY <1>0, <1>1, <1>2, <1>8, <1>10, <2>1 DEF ShapeInv, TypeOK, BaseTypeOK, baseVars, Enq
<1>19. CallInv'
  <2>1. Len(enq'.chain) = CallNo - FirstNo + 1
    BY <1>9, <1>12
  <2> QED
    BY <1>0, <1>2, <1>3, <1>8, <1>10, <1>11, <1>13, <2>1 DEF CallInv, Step, BlockNo
<1>20. OwnerInv'
  <2>1. \A e \in Entry : value[e] # b
    BY <1>2 DEF OwnerInv
  <2>2. \A c \in Consumer : ~FreedBy(c, b)
    BY <1>2, <1>6 DEF OwnerInv
  <2>3. dequeued'[b] = 0
    BY <1>1, <1>6
  <2> QED
    BY <1>0, <1>1, <1>2, <1>6, <1>8, <1>11, <1>15, <1>16, <2>1, <2>2, <2>3 DEF OwnerInv
<1>21. IndexStays(off)
  BY <1>0, SameIndex
<1>22. HeaderInv(off)'
  BY <1>0, <1>5, <1>21 DEF HeaderInv
<1>23. WindowInv(off)'
  BY <1>0, <1>5, <1>11, <1>13, <1>21 DEF WindowInv
<1>24. LinkInv(off)'
  <2>1. ASSUME NEW m \in Int, Linked(m)
        PROVE  dequeued'[value[CurAt(off, m)]] = Cardinality(Counted \cap Elems(m))
    <3>1. value[CurAt(off, m)] \in Block /\ CurAt(off, m) \in Entry
      BY <1>2, <1>3, <1>5, <2>1, CurType DEF LinkInv
    <3>2. value[CurAt(off, m)] # b
      BY <1>2, <3>1 DEF OwnerInv
    <3> QED
      BY <1>1, <1>5, <1>6, <2>1, <3>1, <3>2 DEF LinkInv
  <2>2. ASSUME NEW m \in Int, InCall(m)
        PROVE  value[CurAt(off, m)] = enq'.chain[m - FirstNo + 1]
    <3>1. m - FirstNo + 1 \in 1 .. Len(enq.chain)
      BY <1>0, <1>9, <1>12, <2>2 DEF InCall
    <3> QED
      BY <1>5, <1>9, <2>2, <3>1 DEF LinkInv
  <2> QED
    BY <1>0, <1>5, <1>11, <1>13, <1>14, <1>21, <2>1, <2>2 DEF LinkInv, BlockNo, Elems
<1>25. ReaderInv(off)'
  BY <1>0, <1>5, <1>10, <1>11, <1>21 DEF ReaderInv, ReaderAt, BlockNo
<1>26. SlotInv(off)'
  BY <1>0, <1>5, <1>17, <1>21 DEF SlotInv, BlockNo
<1> QED
  BY <1>0, <1>3, <1>4, <1>18, <1>19, <1>20, <1>22, <1>23, <1>24, <1>25, <1>26
  DEF BlockInv, IndexInv

\* The next block is a block size further on.
LEMMA NoNext ==
  ASSUME NEW i \in Nat
  PROVE  BlockNo(i + BLOCK_SIZE) = BlockNo(i) + 1
<1>1. /\ BlockNo(i) \in Nat /\ i % BLOCK_SIZE \in 0 .. BLOCK_SIZE - 1
      /\ i = BLOCK_SIZE * BlockNo(i) + (i % BLOCK_SIZE)
  BY NoBase DEF Place
<1>2. BLOCK_SIZE \in Nat \ {0}
  BY ImplicitAssumption
<1> DEFINE q == BlockNo(i)
           r == i % BLOCK_SIZE
<1>3. q \in Nat /\ r \in 0 .. BLOCK_SIZE - 1 /\ i = BLOCK_SIZE * q + r
  BY <1>1
<1> HIDE DEF q, r
<1>4. i + BLOCK_SIZE = BLOCK_SIZE * (q + 1) + r /\ q + 1 \in Int
  BY <1>2, <1>3
<1>5. (i + BLOCK_SIZE) \div BLOCK_SIZE = q + 1
  BY <1>2, <1>3, <1>4, DivUnique
<1> QED
  BY <1>5 DEF BlockNo, q

\* No element of a block from the tail on is counted.
LEMMA NoneCounted ==
  ASSUME BaseInv, NEW m \in Int, FirstNo <= m
  PROVE  Counted \cap Elems(m) = {} /\ Cardinality(Counted \cap Elems(m)) = 0
<1>1. /\ headIndex \in Nat /\ tailIndex \in Nat /\ headIndex <= tailIndex /\ FirstNo \in Nat
      /\ tailIndex <= BLOCK_SIZE * FirstNo
  BY Counters
<1>2. BLOCK_SIZE * FirstNo <= BLOCK_SIZE * m
  BY <1>1, BaseOrder
<1>3. BLOCK_SIZE \in Nat /\ BLOCK_SIZE * FirstNo \in Int /\ BLOCK_SIZE * m \in Int
  BY <1>1, ImplicitAssumption
<1>4. Counted \cap Elems(m) = {}
  BY <1>1, <1>2, <1>3 DEF Counted, Elems
<1> QED
  BY <1>4, FS_EmptySet

\* The new block goes into its entry and the call on to the next.
LEMMA SetValueStep ==
  ASSUME BaseInv, BlockInv, SetValue
  PROVE  BlockInv'
<1> USE DEF ElementsStay, IndexStays
<1>0. /\ enq.pc = "value"
      /\ value' = [value EXCEPT ![Cur.index[Cur.tail]] = Last(enq.chain)]
      /\ enq' = [enq EXCEPT !.pc = IF enq.base < LastNew(enq.n) THEN "room" ELSE "construct",
                            !.base = @ + BLOCK_SIZE]
      /\ UNCHANGED <<baseVars, free, slot, dequeued, key, header, tailBlock, rd>>
  BY DEF SetValue
<1>2. ShapeInv /\ CallInv /\ OwnerInv
  BY DEF BlockInv
<1>3. header # <<>>
  BY <1>0, <1>2 DEF CallInv
<1>4. PICK off \in [1 .. Len(header) -> Int] : IndexInv(off)
  BY <1>3 DEF BlockInv
<1>5. HeaderInv(off) /\ WindowInv(off) /\ LinkInv(off) /\ ReaderInv(off) /\ SlotInv(off)
  BY <1>4 DEF IndexInv
<1>6. PICK W \in Nat : W = CallNo
  BY <1>0, <1>2, CallFacts
<1>7. enq \in [pc : Step, n : 1 .. MaxBulk, base : Nat, chain : Seq(Block)]
  BY <1>0, <1>2, EnqFields DEF ShapeInv, Step
<1>8. /\ enq'.pc = (IF enq.base < LastNew(enq.n) THEN "room" ELSE "construct")
      /\ enq'.n = enq.n /\ enq'.base = enq.base + BLOCK_SIZE /\ enq'.chain = enq.chain
      /\ enq' \in [pc : Step, n : 1 .. MaxBulk, base : Nat, chain : Seq(Block)]
  <2>1. PICK p \in Step : p = IF enq.base < LastNew(enq.n) THEN "room" ELSE "construct"
    BY DEF Step
  <2>2. PICK x \in Nat : x = enq.base + BLOCK_SIZE
    BY <1>7, ImplicitAssumption
  <2>3. enq' = [enq EXCEPT !.pc = p, !.base = x]
    BY <1>0, <2>1, <2>2
  <2> QED
    BY <1>7, <2>1, <2>2, <2>3
<1>9. /\ enq.chain \in Seq(Block) /\ Len(enq.chain) \in Nat /\ enq.n \in Nat \ {0}
      /\ enq.base \in Nat
  BY <1>7, BaseAssumption
<1>10. UNCHANGED <<tailIndex, headIndex, pc, loc, rd>>
  BY <1>0 DEF baseVars
<1>11. ElementsStay
  BY <1>10, ReadersStay
<1>12. /\ FirstNo \in Nat /\ FirstNo <= W /\ Len(enq.chain) = W - FirstNo + 1
       /\ tailIndex \in Nat /\ enq.base = BLOCK_SIZE * W
       /\ W <= BlockNo(tailIndex + enq.n - 1) /\ BLOCK_SIZE \in Nat \ {0, 1}
       /\ Keyed = W + 1 /\ AtTail = W + 1
  BY <1>0, <1>2, <1>6, Counters DEF CallInv, Step, Keyed, AtTail
<1>13. CallNo' = W + 1
  <2>1. enq'.base = BLOCK_SIZE * W + BLOCK_SIZE
    BY <1>8, <1>12
  <2>2. BlockNo(enq.base + BLOCK_SIZE) = W + 1
    BY <1>6, <1>9, NoNext DEF CallNo
  <2> QED
    BY <1>8, <2>2 DEF CallNo, BlockNo
<1>14. Keyed' = Keyed /\ AtTail' = AtTail /\ Constructed' = Constructed
  BY <1>0, <1>8, <1>10, <1>12, <1>13 DEF Keyed, AtTail, Constructed
<1>15. PICK b \in Block : b = Last(enq.chain) /\ b = enq.chain[Len(enq.chain)]
  BY <1>9, <1>12 DEF Last
<1>16. PICK e0 \in Entry : e0 = CurAt(off, W) /\ Cur.index[Cur.tail] = e0
  <2>1. Cur = header[Len(header)]
    BY <1>2, <1>3, CurFacts
  <2>2. (W + 1) - 1 = W
    OBVIOUS
  <2>3. Cur.tail = Pos(off, Len(header), W)
    BY <1>5, <1>12, <2>2 DEF WindowInv
  <2>4. Cur.index[Cur.tail] = CurAt(off, W)
    BY <2>1, <2>3 DEF CurAt, At
  <2>5. W \in Int
    OBVIOUS
  <2> QED
    BY <1>2, <1>3, <1>5, <2>4, <2>5, CurType
<1>17. /\ \A m \in Int : InCall(m)' <=> (InCall(m) \/ m = W)
       /\ \A m \in Int : Linked(m)' <=> (Linked(m) \/ m = W)
  <2>0. enq'.pc \notin {"idle", "undo", "value"} /\ enq'.chain = enq.chain
    BY <1>8
  <2>1. ASSUME NEW m \in Int PROVE InCall(m)' <=> (InCall(m) \/ m = W)
    <3>1. InCall(m)' <=> FirstNo <= m /\ m < FirstNo + Len(enq.chain)
      <4>1. InCall(m)' <=> FirstNo' <= m /\ m < FirstNo' + Len(enq'.chain) - 0
        BY <2>0 DEF InCall
      <4> QED
        BY <1>9, <1>11, <1>12, <2>0, <4>1
    <3>2. InCall(m) <=> FirstNo <= m /\ m < FirstNo + Len(enq.chain) - 1
      BY <1>0 DEF InCall
    <3> QED
      BY <1>12, <3>1, <3>2
  <2> QED
    BY <1>11, <2>1 DEF Linked
<1>18. /\ \A x : InHand(x) <=> x = b
       /\ \A x : ~InHand(x)'
  BY <1>0, <1>8, <1>15 DEF InHand
<1>19. Present' = Present
  BY <1>10, <1>11, <1>14 DEF Present
<1>20. ~Linked(W)
  BY <1>0, <1>9, <1>12, SMTT(40) DEF Linked, InUse, InCall
<1>21. Cur.capacity \in Nat \ {0}
  BY <1>2, <1>3, CurFacts
<1>22. ASSUME NEW m \in Int, Linked(m) PROVE CurAt(off, m) \in Entry /\ CurAt(off, m) # e0
  <2>1. Keyed - Cur.capacity <= m /\ m < Keyed
    BY <1>2, <1>5, <1>22, LinkedRange DEF LinkInv
  <2>2. m - W < Cur.capacity /\ W - m < Cur.capacity
    BY <1>12, <1>21, <2>1
  <2>3. CurAt(off, m) = e0 => m = W
    BY <1>2, <1>3, <1>5, <1>16, <2>2, CurInj
  <2> QED
    BY <1>2, <1>3, <1>5, <1>20, <1>22, <2>3, CurType
<1>23. value[e0] = Null
  BY <1>5, <1>22 DEF LinkInv
<1>24. /\ value \in [Entry -> Block \cup {Null}]
       /\ value' \in [Entry -> Block \cup {Null}] /\ value'[e0] = b
       /\ \A e \in Entry : e # e0 => value'[e] = value[e]
  BY <1>0, <1>2, <1>15, <1>16 DEF ShapeInv, TypeOK
<1>25. \A m \in Int : Linked(m) => value'[CurAt(off, m)] = value[CurAt(off, m)]
  BY <1>22, <1>24
<1>26. ShapeInv'
  BY <1>0, <1>2, <1>8, <1>10, <1>24 DEF ShapeInv, TypeOK, BaseTypeOK, baseVars, Enq
<1>27. CallInv'
  <2>1. /\ tailIndex + enq.n - 1 \in Nat
        /\ LastNew(enq.n) = BLOCK_SIZE * BlockNo(tailIndex + enq.n - 1)
        /\ BlockNo(tailIndex + enq.n - 1) \in Nat
    <3>1. tailIndex + enq.n - 1 \in Nat
      BY <1>9, <1>12
    <3> QED
      BY <3>1, NoBase DEF LastNew
  <2>2. enq.base < LastNew(enq.n) <=> W < BlockNo(tailIndex + enq.n - 1)
    BY <1>12, <2>1, BaseOrder, SMTT(40)
  <2>3. (tailIndex + enq.n - 1) + BLOCK_SIZE = tailIndex + enq.n + BLOCK_SIZE - 1
    <3>1. tailIndex \in Nat /\ enq.n \in Nat /\ BLOCK_SIZE \in Nat
      BY <1>9, <1>12
    <3> QED
      BY <3>1, SMTT(40)
  <2>4. BlockNo(tailIndex + enq.n + BLOCK_SIZE - 1) = BlockNo(tailIndex + enq.n - 1) + 1
    BY <2>1, <2>3, NoNext
  <2>5. enq'.pc = "room" => W + 1 <= BlockNo(tailIndex + enq.n - 1)
    BY <1>8, <2>1, <2>2
  <2>6. enq'.pc = "construct" => W + 1 = BlockNo(tailIndex + enq.n + BLOCK_SIZE - 1)
    BY <1>8, <1>12, <2>1, <2>2, <2>4
  <2>7. enq'.pc \in {"room", "construct"} /\ enq'.pc \in Step
    BY <1>8 DEF Step
  <2>8. enq'.base = BLOCK_SIZE * (W + 1)
    BY <1>8, <1>12
  <2>9. Len(enq'.chain) = (W + 1) - FirstNo + 0
    BY <1>8, <1>9, <1>12
  <2>10. FirstNo <= W + 1
    BY <1>12
  <2>11. tailIndex + enq.n <= MaxTail
    BY <1>0, <1>2 DEF CallInv, Step
  <2> QED
    BY <1>0, <1>3, <1>8, <1>10, <1>11, <1>13, <2>5, <2>6, <2>7, <2>8, <2>9, <2>10, <2>11
    DEF CallInv, BlockNo
<1>28. OwnerInv'
  <2>1. b \notin free /\ \A e \in Entry : value[e] # b
    BY <1>2, <1>18 DEF OwnerInv
  <2>2. \A c \in Consumer : ~FreedBy(c, b)
    BY <1>2, <1>18 DEF OwnerInv
  <2>3. \A e \in Entry : value'[e] \notin free'
    BY <1>0, <1>2, <1>24, <2>1 DEF OwnerInv
  <2>4. \A e, f \in Entry : value'[e] = value'[f] /\ value'[e] # Null => e = f
    BY <1>2, <1>24, <2>1 DEF OwnerInv
  <2>5. \A c \in Consumer : \A x \in Block : FreedBy(c, x) =>
          /\ x \notin free /\ \A e \in Entry : value'[e] # x
          /\ \A d \in Consumer \ {c} : ~FreedBy(d, x)
    BY <1>2, <1>24, <2>2 DEF OwnerInv
  <2>6. \A x \in Block : \/ x \in free \/ \E c \in Consumer : FreedBy(c, x)
                         \/ \E e \in Entry : value'[e] = x
    <3> SUFFICES ASSUME NEW x \in Block, x \notin free, ~ \E c \in Consumer : FreedBy(c, x)
                 PROVE  \E e \in Entry : value'[e] = x
      OBVIOUS
    <3>1. CASE x = b
      BY <1>24, <3>1
    <3>2. CASE x # b
      <4>1. PICK e \in Entry : value[e] = x
        BY <1>2, <1>18, <3>2 DEF OwnerInv
      <4>2. e # e0
        BY <1>23, <4>1, ImplicitAssumption
      <4> QED
        BY <1>24, <4>1, <4>2
    <3> QED
      BY <3>1, <3>2
  <2> QED
    BY <1>0, <1>11, <1>18, <2>3, <2>4, <2>5, <2>6 DEF OwnerInv
<1>29. IndexStays(off)
  BY <1>0, SameIndex
<1>30. HeaderInv(off)'
  BY <1>0, <1>5, <1>29 DEF HeaderInv
<1>31. WindowInv(off)'
  BY <1>0, <1>5, <1>11, <1>14, <1>29 DEF WindowInv
<1>32. LinkInv(off)'
  <2>1. ASSUME NEW m \in Int, Linked(m) \/ m = W
        PROVE  /\ Keyed - Cur.capacity <= m
               /\ key[CurAt(off, m)] = BLOCK_SIZE * m
               /\ value'[CurAt(off, m)] \in Block
               /\ dequeued[value'[CurAt(off, m)]] = Cardinality(Counted \cap Elems(m))
    <3>1. CASE Linked(m)
      BY <1>5, <1>25, <3>1 DEF LinkInv
    <3>2. CASE m = W
      <4>1. dequeued[b] = 0
        BY <1>0, <1>2, <1>18 DEF OwnerInv
      <4>2. key[CurAt(off, W)] = BLOCK_SIZE * W
        BY <1>5, <1>12 DEF WindowInv
      <4>3. Cardinality(Counted \cap Elems(W)) = 0
        <5>1. W \in Int /\ FirstNo <= W
          BY <1>12
        <5> QED
          BY <5>1, NoneCounted
      <4>4. Keyed - Cur.capacity <= W
        BY <1>12, <1>21
      <4> QED
        BY <1>16, <1>24, <3>2, <4>1, <4>2, <4>3, <4>4
    <3> QED
      BY <2>1, <3>1, <3>2
  <2>2. ASSUME NEW m \in Int, InCall(m) \/ m = W
        PROVE  value'[CurAt(off, m)] = enq.chain[m - FirstNo + 1]
    <3>1. CASE InCall(m)
      BY <1>5, <1>25, <3>1 DEF LinkInv, Linked
    <3>2. CASE m = W
      BY <1>12, <1>15, <1>16, <1>24, <3>2
    <3> QED
      BY <2>2, <3>1, <3>2
  <2>3. ASSUME NEW e \in Entry, value'[e] # Null
        PROVE  \E m \in Int : (Linked(m) \/ m = W) /\ e = CurAt(off, m)
    <3>1. CASE e = e0
      BY <1>16, <3>1
    <3>2. CASE e # e0
      BY <1>5, <1>24, <2>3, <3>2 DEF LinkInv
    <3> QED
      BY <3>1, <3>2
  <2>4. ASSUME NEW m \in Int, Constructed > 0, m = BlockNo(Constructed - 1), ~Gone(m)
        PROVE  tailBlock = value'[CurAt(off, m)]
    BY <1>2, <1>5, <1>25, <2>4, LastLinked DEF LinkInv
  <2>5. \A m \in Int : Linked(m)' =>
          /\ Keyed' - Cur'.capacity <= m
          /\ key'[CurAt(off, m)'] = BLOCK_SIZE * m
          /\ value'[CurAt(off, m)'] \in Block
          /\ dequeued'[value'[CurAt(off, m)']] = Cardinality(Counted' \cap Elems(m))
    BY <1>0, <1>11, <1>14, <1>17, <1>29, <2>1
  <2>6. \A m \in Int : InCall(m)' => value'[CurAt(off, m)'] = enq'.chain[m - FirstNo' + 1]
    BY <1>8, <1>11, <1>17, <1>29, <2>2
  <2>7. \A e \in Entry : value'[e] # Null => \E m \in Int : Linked(m)' /\ e = CurAt(off, m)'
    BY <1>17, <1>29, <2>3
  <2>8. \A m \in Int : Constructed' > 0 /\ m = BlockNo(Constructed' - 1) /\ ~Gone(m)' =>
          tailBlock' = value'[CurAt(off, m)']
    BY <1>0, <1>11, <1>14, <1>29, <2>4
  <2> QED
    BY <2>5, <2>6, <2>7, <2>8 DEF LinkInv, BlockNo, Elems
<1>33. ReaderInv(off)'
  <2>1. ASSUME NEW c \in Consumer, rd[c].pc \in {"move", "count", "clear"}
        PROVE  rd[c].block = value'[CurAt(off, BlockNo(rd[c].i))]
    <3>1. Linked(BlockNo(rd[c].i)) /\ BlockNo(rd[c].i) \in Int
      BY <1>2, <1>5, <2>1, ReaderLinked
    <3> QED
      BY <1>5, <1>25, <2>1, <3>1 DEF ReaderInv, ReaderAt
  <2> QED
    BY <1>0, <1>5, <1>10, <1>11, <1>29, <2>1 DEF ReaderInv, ReaderAt, BlockNo
<1>34. SlotInv(off)'
  <2>1. \A i \in Present : value'[CurAt(off, BlockNo(i))] = value[CurAt(off, BlockNo(i))]
    BY <1>2, <1>5, <1>25, PresentLinked
  <2> QED
    BY <1>0, <1>5, <1>19, <1>29, <2>1 DEF SlotInv, BlockNo
<1> QED
  BY <1>0, <1>3, <1>4, <1>26, <1>27, <1>28, <1>30, <1>31, <1>32, <1>33, <1>34
  DEF BlockInv, IndexInv

\* When the newest blocks are given up, their keys stay in the window one round
\* earlier: they are keys of a block a round later.
LEMMA WindowShrinks ==
  ASSUME BaseInv, ShapeInv, CallInv, header # <<>>, NEW off, HeaderInv(off), WindowInv(off),
         NEW n \in Nat, FirstNo <= n, n <= Keyed
  PROVE  /\ \A m \in Int : n - Cur.capacity <= m /\ m < n =>
              key[CurAt(off, m)] \in {INVALID_BLOCK_BASE, BLOCK_SIZE * m,
                                      BLOCK_SIZE * (m + Cur.capacity)}
         /\ \A m, k \in Int : /\ n - Cur.capacity <= m /\ m <= k /\ k < n
                              /\ key[CurAt(off, m)] = BLOCK_SIZE * m
                              => key[CurAt(off, k)] = BLOCK_SIZE * k
         /\ n - Cur.capacity <= FirstNo
         /\ \A m \in Int : FirstNo <= m /\ m < n => key[CurAt(off, m)] = BLOCK_SIZE * m
<1>1. PICK C \in Nat \ {0} : C = Cur.capacity
  BY CurFacts
<1>2. Keyed \in Nat /\ FirstNo \in Nat /\ Keyed - C <= FirstNo
  BY <1>1, CallFacts, Counters DEF WindowInv
<1>3. ASSUME NEW m \in Int, n - C <= m, m < Keyed - C
      PROVE  key[CurAt(off, m)] = BLOCK_SIZE * (m + C) /\ key[CurAt(off, m)] # BLOCK_SIZE * m
  <2>1. m + C \in Int /\ FirstNo <= m + C /\ m + C < Keyed /\ m # m + C
    BY <1>1, <1>2, <1>3
  <2>2. key[CurAt(off, m + C)] = BLOCK_SIZE * (m + C)
    BY <2>1 DEF WindowInv
  <2>3. CurAt(off, m + C) = CurAt(off, m)
    BY <1>1, CurPeriod
  <2>4. BLOCK_SIZE * m # BLOCK_SIZE * (m + C)
    BY <2>1, BaseOrder
  <2> QED
    BY <2>2, <2>3, <2>4
<1>4. ASSUME NEW m \in Int, n - C <= m, m < n
      PROVE  key[CurAt(off, m)] \in {INVALID_BLOCK_BASE, BLOCK_SIZE * m,
                                     BLOCK_SIZE * (m + C)}
  <2>1. CASE m < Keyed - C
    BY <1>3, <1>4, <2>1
  <2>2. CASE Keyed - C <= m
    <3>1. m < Keyed
      BY <1>2, <1>4
    <3> QED
      BY <1>1, <2>2, <3>1 DEF WindowInv
  <2> QED
    BY <1>2, <2>1, <2>2
<1>5. ASSUME NEW m \in Int, NEW k \in Int, n - C <= m, m <= k, k < n,
             key[CurAt(off, m)] = BLOCK_SIZE * m
      PROVE  key[CurAt(off, k)] = BLOCK_SIZE * k
  <2>1. Keyed - C <= m
    BY <1>2, <1>3, <1>5
  <2>2. k < Keyed
    BY <1>2, <1>5
  <2> QED
    BY <1>1, <1>5, <2>1, <2>2 DEF WindowInv
<1>6. ASSUME NEW m \in Int, FirstNo <= m, m < n PROVE key[CurAt(off, m)] = BLOCK_SIZE * m
  <2>1. m < Keyed
    BY <1>2, <1>6
  <2> QED
    BY <1>6, <2>1 DEF WindowInv
<1>7. n - C <= FirstNo
  BY <1>1, <1>2
<1> QED
  BY <1>1, <1>4, <1>5, <1>6, <1>7

\* The entry at the tail, and the tail one back.
LEMMA TailEntry ==
  ASSUME BaseInv, ShapeInv, CallInv, header # <<>>, NEW off, HeaderInv(off), WindowInv(off)
  PROVE  /\ Cur.index[Cur.tail] = CurAt(off, AtTail - 1) /\ CurAt(off, AtTail - 1) \in Entry
         /\ (Cur.tail - 1) % Cur.capacity = Pos(off, Len(header), AtTail - 2)
         /\ (Cur.tail - 1) % Cur.capacity \in 0 .. Cur.capacity - 1
<1>1. Len(header) \in 1 .. Len(header) /\ Cur = header[Len(header)]
  BY CurFacts
<1>2. Cur.tail = Pos(off, Len(header), AtTail - 1)
  BY DEF WindowInv
<1>3. PICK a \in Int : a = AtTail - 1
  BY CallFacts
<1>4. a + (-1) = AtTail - 2 /\ -1 \in Int /\ a + (-1) \in Int
  BY <1>3, CallFacts
<1>5. (Pos(off, Len(header), a) + (-1)) % header[Len(header)].capacity
        = Pos(off, Len(header), a + (-1))
  BY <1>1, <1>4, NextPos
<1>6. Cur.tail \in Int /\ Pos(off, Len(header), a + (-1)) \in 0 .. Cur.capacity - 1
  <2>1. Pos(off, Len(header), a) \in 0 .. Cur.capacity - 1
    BY CurType
  <2>2. Pos(off, Len(header), a + (-1)) \in 0 .. Cur.capacity - 1
    BY <1>4, CurType
  <2> QED
    BY <1>2, <1>3, <2>1, <2>2
<1>7. Cur.tail + (-1) = Cur.tail - 1
  BY <1>6
<1>8. CurAt(off, a) \in Entry
  BY CurType
<1>9. Cur.index[Cur.tail] = CurAt(off, a)
  BY <1>1, <1>2, <1>3 DEF CurAt, At
<1>10. (Cur.tail - 1) % Cur.capacity = Pos(off, Len(header), a + (-1))
  BY <1>1, <1>2, <1>3, <1>5, <1>7
<1> QED
  BY <1>3, <1>4, <1>6, <1>8, <1>9, <1>10

\* No block is to be had: the entry is given up and the call undone.
LEMMA RequisitionFailsStep ==
  ASSUME BaseInv, BlockInv, RequisitionFails
  PROVE  BlockInv'
<1> USE DEF ElementsStay
<1> DEFINE t == (Cur.tail - 1) % Cur.capacity
<1>0. /\ enq.pc = "block" /\ enq' = Undo /\ SetTail(t)
      /\ value' = [value EXCEPT ![Cur.index[Cur.tail]] = Null]
      /\ UNCHANGED <<baseVars, free, slot, dequeued, key, tailBlock, rd>>
  BY DEF RequisitionFails
<1> HIDE DEF t
<1>2. ShapeInv /\ CallInv /\ OwnerInv
  BY DEF BlockInv
<1>3. header # <<>>
  BY <1>0, <1>2 DEF CallInv
<1>4. PICK off \in [1 .. Len(header) -> Int] : IndexInv(off)
  BY <1>3 DEF BlockInv
<1>5. HeaderInv(off) /\ WindowInv(off) /\ LinkInv(off) /\ ReaderInv(off) /\ SlotInv(off)
  BY <1>4 DEF IndexInv
<1>6. PICK W \in Nat : W = CallNo
  BY <1>0, <1>2, CallFacts
<1>7. enq.chain \in Seq(Block) /\ Len(enq.chain) \in Nat /\ enq.pc \in Step
  BY <1>0, <1>2, EnqFields DEF ShapeInv, Step
<1>8. /\ FirstNo \in Nat /\ FirstNo <= W /\ Len(enq.chain) = W - FirstNo
      /\ FirstNew = BLOCK_SIZE * FirstNo /\ FirstNew \in Nat
      /\ Keyed = W + 1 /\ AtTail = W + 1
  <2>1. FirstNo \in Nat /\ FirstNo <= W /\ FirstNew = BLOCK_SIZE * FirstNo /\ FirstNew \in Nat
    BY <1>0, <1>2, <1>6, CallFacts, Counters
  <2>2. Len(enq.chain) = W - FirstNo + (IF enq.pc = "value" THEN 1 ELSE 0)
    BY <1>2, <1>6, <1>7 DEF CallInv
  <2> QED
    BY <1>0, <1>6, <2>1, <2>2 DEF Keyed, AtTail
<1>9. UNCHANGED <<tailIndex, headIndex, pc, loc, rd>>
  BY <1>0 DEF baseVars
<1>10. ElementsStay
  BY <1>9, ReadersStay
<1>11. /\ enq'.pc = "undo" /\ enq'.chain = enq.chain /\ enq'.base = FirstNew /\ enq' \in Enq
       /\ CallNo' = FirstNo
  <2>1. enq'.pc = "undo" /\ enq'.chain = enq.chain /\ enq'.base = FirstNew /\ enq' \in Enq
    BY <1>0, <1>7, <1>8 DEF Undo, Enq
  <2> QED
    BY <1>8, <2>1, NoOfBase DEF CallNo, BlockNo
<1>12. Keyed' = W /\ AtTail' = W /\ Constructed' = Constructed
  <2>1. Keyed' = FirstNo + Len(enq.chain)
    BY <1>10, <1>11 DEF Keyed
  <2>2. AtTail' = FirstNo + Len(enq.chain) - (FirstNo - FirstNo)
    BY <1>10, <1>11 DEF AtTail
  <2>3. Constructed' = Constructed
    BY <1>0, <1>9, <1>11 DEF Constructed
  <2> QED
    BY <1>8, <2>1, <2>2, <2>3
<1>13. PICK e0 \in Entry : e0 = CurAt(off, W) /\ Cur.index[Cur.tail] = e0
  <2>1. (W + 1) - 1 = W
    OBVIOUS
  <2> QED
    BY <1>2, <1>3, <1>5, <1>8, <2>1, TailEntry
<1>14. t = Pos(off, Len(header), W - 1) /\ t \in 0 .. Cur.capacity - 1
  <2>1. (W + 1) - 2 = W - 1
    OBVIOUS
  <2> QED
    BY <1>2, <1>3, <1>5, <1>8, <2>1, TailEntry DEF t
<1>15. Cur.capacity \in Nat \ {0}
  BY <1>2, <1>3, CurFacts
<1>16. value[e0] = Null /\ value' = value
  <2>1. ASSUME value[e0] # Null PROVE FALSE
    <3>1. PICK m \in Int : Linked(m) /\ e0 = CurAt(off, m)
      BY <1>5, <2>1 DEF LinkInv
    <3>2. Keyed - Cur.capacity <= m /\ m < Keyed
      BY <1>2, <1>5, <3>1, LinkedRange DEF LinkInv
    <3>3. m - W < Cur.capacity /\ W - m < Cur.capacity
      BY <1>8, <1>15, <3>2
    <3>4. m = W
      <4>1. W \in Int /\ CurAt(off, m) = CurAt(off, W)
        BY <1>13, <3>1
      <4> QED
        BY <1>2, <1>3, <1>5, <3>3, <4>1, CurInj
    <3> QED
      BY <1>0, <1>8, <3>1, <3>4 DEF Linked, InUse, InCall
  <2> QED
    BY <1>0, <1>2, <1>13, <2>1 DEF ShapeInv, TypeOK
<1>17. /\ header' \in Seq(Header) /\ Len(header') = Len(header) /\ header' # <<>>
       /\ Cur'.tail = t /\ Cur'.capacity = Cur.capacity
       /\ \A j \in 1 .. Len(header) : /\ header'[j].capacity = header[j].capacity
                                      /\ header'[j].index = header[j].index
  <2>1. t \in Nat
    BY <1>14, <1>15
  <2> QED
    BY <1>0, <1>2, <1>3, <2>1, SetTailFacts
<1>18. /\ \A j \in 1 .. Len(header) :
            \A m : Pos(off, j, m)' = Pos(off, j, m) /\ At(off, j, m)' = At(off, j, m)
       /\ \A m : CurAt(off, m)' = CurAt(off, m)
       /\ HeaderInv(off)'
  BY <1>0, <1>2, <1>3, <1>5, <1>14, SetTailIndex
<1>19. /\ \A m \in Int : InCall(m)' <=> InCall(m)
       /\ \A m \in Int : Linked(m)' <=> Linked(m)
       /\ \A b : InHand(b)' <=> InHand(b)
  <2>1. ASSUME NEW m \in Int PROVE InCall(m)' <=> InCall(m)
    BY <1>0, <1>10, <1>11 DEF InCall
  <2>2. \A b : ~InHand(b)
    BY <1>0 DEF InHand
  <2>3. \A b : ~InHand(b)'
    <3>1. 1 .. CallNo' - FirstNo' = {}
      BY <1>8, <1>10, <1>11
    <3> QED
      BY <1>11, <3>1 DEF InHand
  <2> QED
    BY <1>10, <2>1, <2>2, <2>3 DEF Linked
<1>20. Present' = Present
  BY <1>9, <1>10, <1>12 DEF Present
<1>21. ShapeInv'
  BY <1>0, <1>2, <1>9, <1>11, <1>16, <1>17 DEF ShapeInv, TypeOK, BaseTypeOK, baseVars
<1>22. CallInv'
  <2>1. ~(enq'.pc \in Step)
    BY <1>11 DEF Step
  <2>2. FirstNo <= FirstNo + Len(enq.chain)
    BY <1>7, <1>8
  <2> QED
    BY <1>8, <1>10, <1>11, <1>17, <2>1, <2>2 DEF CallInv
<1>23. OwnerInv'
  BY <1>0, <1>2, <1>10, <1>11, <1>16, <1>19 DEF OwnerInv
<1>24. WindowInv(off)'
  <2>1. Cur'.tail = Pos(off, Len(header), AtTail - 1)'
    <3>1. header'[Len(header)].capacity = header[Len(header)].capacity
      BY <1>2, <1>3, <1>17, CurFacts
    <3> QED
      BY <1>12, <1>14, <1>17, <3>1 DEF Pos
  <2>2. /\ \A m \in Int : W - Cur.capacity <= m /\ m < W =>
              key[CurAt(off, m)] \in {INVALID_BLOCK_BASE, BLOCK_SIZE * m,
                                      BLOCK_SIZE * (m + Cur.capacity)}
        /\ \A m, k \in Int : /\ W - Cur.capacity <= m /\ m <= k /\ k < W
                             /\ key[CurAt(off, m)] = BLOCK_SIZE * m
                             => key[CurAt(off, k)] = BLOCK_SIZE * k
        /\ W - Cur.capacity <= FirstNo
        /\ \A m \in Int : FirstNo <= m /\ m < W => key[CurAt(off, m)] = BLOCK_SIZE * m
    <3>1. W <= Keyed
      BY <1>8
    <3> QED
      BY <1>2, <1>3, <1>5, <1>8, <3>1, WindowShrinks
  <2> QED
    BY <1>0, <1>5, <1>10, <1>12, <1>17, <1>18, <2>1, <2>2 DEF WindowInv
<1>25. LinkInv(off)'
  <2>1. ASSUME NEW m \in Int, Linked(m)
        PROVE  W - Cur.capacity <= m
    <3>1. Keyed - Cur.capacity <= m
      BY <1>5, <2>1 DEF LinkInv
    <3> QED
      BY <1>8, <1>15, <3>1
  <2>2. LinkInv(off)
    BY <1>5
  <2>3. \A m \in Int : Linked(m)' =>
          /\ Keyed' - Cur'.capacity <= m
          /\ key'[CurAt(off, m)'] = BLOCK_SIZE * m
          /\ value'[CurAt(off, m)'] \in Block
          /\ dequeued'[value'[CurAt(off, m)']] = Cardinality(Counted' \cap Elems(m))
    BY <1>0, <1>10, <1>12, <1>16, <1>17, <1>18, <1>19, <2>1, <2>2 DEF LinkInv
  <2>4. /\ \A m \in Int : InCall(m)' => value'[CurAt(off, m)'] = enq'.chain[m - FirstNo' + 1]
        /\ \A e \in Entry : value'[e] # Null => \E m \in Int : Linked(m)' /\ e = CurAt(off, m)'
    BY <1>10, <1>11, <1>16, <1>18, <1>19, <2>2 DEF LinkInv
  <2>5. \A m \in Int : Constructed' > 0 /\ m = BlockNo(Constructed' - 1) /\ ~Gone(m)' =>
          tailBlock' = value'[CurAt(off, m)']
    BY <1>0, <1>10, <1>12, <1>16, <1>18, <2>2 DEF LinkInv
  <2> QED
    BY <2>3, <2>4, <2>5 DEF LinkInv, BlockNo, Elems
<1>26. ReaderInv(off)'
  BY <1>0, <1>5, <1>9, <1>10, <1>16, <1>17, <1>18 DEF ReaderInv, ReaderAt, BlockNo
<1>27. SlotInv(off)'
  BY <1>0, <1>5, <1>16, <1>18, <1>20 DEF SlotInv, BlockNo
<1> QED
  BY <1>17, <1>18, <1>21, <1>22, <1>23, <1>24, <1>25, <1>26, <1>27 DEF BlockInv, IndexInv

\* The block of every published element lies before the blocks of a call.
LEMMA TailElems ==
  ASSUME BaseInv, NEW i \in 0 .. tailIndex - 1
  PROVE  BlockNo(i) \in Nat /\ BlockNo(i) < FirstNo
<1>1. tailIndex \in Nat /\ FirstNo \in Nat /\ tailIndex <= BLOCK_SIZE * FirstNo
      /\ BLOCK_SIZE \in Nat
  BY Counters
<1>2. i \in Nat /\ i < BLOCK_SIZE * FirstNo
  <2>1. BLOCK_SIZE * FirstNo \in Nat
    BY <1>1
  <2> QED
    BY <1>1, <2>1
<1>3. BlockNo(i) \in Nat
  BY <1>2, NoBase
<1>4. BlockNo(i) < FirstNo
  BY <1>1, <1>2, NoBefore
<1> QED
  BY <1>3, <1>4

\* One block of the call is taken out of the index again.
LEMMA UndoEntryStep ==
  ASSUME BaseInv, BlockInv, UndoEntry
  PROVE  BlockInv'
<1> USE DEF ElementsStay
<1> DEFINE t == (Cur.tail - 1) % Cur.capacity
<1>0. /\ enq.pc = "undo" /\ SetTail(t)
      /\ (enq.base - FirstNew) \div BLOCK_SIZE < Len(enq.chain)
      /\ value' = [value EXCEPT ![EntryFor(enq.base)] = Null]
      /\ enq' = [enq EXCEPT !.base = @ + BLOCK_SIZE]
      /\ UNCHANGED <<baseVars, free, slot, dequeued, key, tailBlock, rd>>
  BY DEF UndoEntry
<1> HIDE DEF t
<1>2. ShapeInv /\ CallInv /\ OwnerInv
  BY DEF BlockInv
<1>6. PICK W \in Nat : W = CallNo
  BY <1>0, <1>2, CallFacts
<1>7. /\ enq.chain \in Seq(Block) /\ Len(enq.chain) \in Nat /\ enq.base \in Nat
      /\ enq \in [pc : {"undo"}, chain : Seq(Block), base : Nat]
  BY <1>0, <1>2, EnqFields DEF ShapeInv
<1>8. PICK F \in Nat : F = FirstNo
  BY Counters
<1>9. /\ F <= W /\ W < F + Len(enq.chain) /\ enq.base = BLOCK_SIZE * W
      /\ Keyed = F + Len(enq.chain) /\ AtTail = F + Len(enq.chain) - (W - F)
  <2>1. F <= W /\ enq.base = BLOCK_SIZE * W /\ FirstNew = BLOCK_SIZE * F
    BY <1>0, <1>2, <1>6, <1>8, Counters DEF CallInv
  <2>2. BLOCK_SIZE * W - BLOCK_SIZE * F = BLOCK_SIZE * (W - F) /\ W - F \in Int
    BY ImplicitAssumption
  <2>3. (enq.base - FirstNew) \div BLOCK_SIZE = W - F
    BY <2>1, <2>2, NoOfBase DEF BlockNo
  <2>4. W < F + Len(enq.chain)
    BY <1>0, <1>7, <2>3
  <2> QED
    BY <1>0, <1>6, <1>8, <2>1, <2>4 DEF Keyed, AtTail
<1>3. header # <<>>
  BY <1>0, <1>2, <1>9 DEF CallInv
<1>4. PICK off \in [1 .. Len(header) -> Int] : IndexInv(off)
  BY <1>3 DEF BlockInv
<1>5. HeaderInv(off) /\ WindowInv(off) /\ LinkInv(off) /\ ReaderInv(off) /\ SlotInv(off)
  BY <1>4 DEF IndexInv
<1>10. UNCHANGED <<tailIndex, headIndex, pc, loc, rd>>
  BY <1>0 DEF baseVars
<1>11. ElementsStay
  BY <1>10, ReadersStay
<1>12. /\ enq'.pc = "undo" /\ enq'.chain = enq.chain /\ enq'.base = enq.base + BLOCK_SIZE
       /\ enq' \in Enq /\ CallNo' = W + 1
  <2>1. PICK x \in Nat : x = enq.base + BLOCK_SIZE
    BY <1>7, ImplicitAssumption
  <2>2. enq' = [enq EXCEPT !.base = x]
    BY <1>0, <2>1
  <2>3. /\ enq'.pc = "undo" /\ enq'.chain = enq.chain /\ enq'.base = x
        /\ enq' \in [pc : {"undo"}, chain : Seq(Block), base : Nat]
    BY <1>7, <2>1, <2>2
  <2>4. BlockNo(enq.base + BLOCK_SIZE) = W + 1
    BY <1>6, <1>7, NoNext DEF CallNo
  <2> QED
    BY <2>1, <2>3, <2>4 DEF CallNo, BlockNo, Enq
<1>13. Keyed' = Keyed /\ AtTail' = AtTail - 1 /\ Constructed' = Constructed
       /\ Constructed = tailIndex
  <2>1. Keyed' = F + Len(enq.chain)
    BY <1>8, <1>11, <1>12 DEF Keyed
  <2>2. AtTail' = F + Len(enq.chain) - ((W + 1) - F)
    BY <1>8, <1>11, <1>12 DEF AtTail
  <2>3. Constructed' = Constructed /\ Constructed = tailIndex
    BY <1>0, <1>10, <1>12 DEF Constructed
  <2> QED
    BY <1>7, <1>9, <2>1, <2>2, <2>3
<1>14. PICK T \in Nat : T = AtTail - 1 /\ F <= T /\ T < Keyed
  <2>1. AtTail - 1 \in Nat /\ F <= AtTail - 1 /\ AtTail - 1 < Keyed
    BY <1>7, <1>9
  <2> QED
    BY <2>1, Zenon
<1>15. t = Pos(off, Len(header), T - 1) /\ t \in 0 .. Cur.capacity - 1
  <2>1. AtTail - 2 = T - 1
    BY <1>2, <1>14, CallFacts
  <2> QED
    BY <1>2, <1>3, <1>5, <2>1, TailEntry DEF t
<1>16. Cur.capacity \in Nat \ {0} /\ Len(header) \in 1 .. Len(header) /\ Cur = header[Len(header)]
  BY <1>2, <1>3, CurFacts
<1>17. PICK e0 \in Entry : e0 = CurAt(off, W) /\ EntryFor(enq.base) = e0
  <2>1. key[Cur.index[Cur.tail]] = BLOCK_SIZE * T
    <3>1. Cur.index[Cur.tail] = CurAt(off, T)
      BY <1>2, <1>3, <1>5, <1>14, TailEntry
    <3>2. T \in Int /\ FirstNo <= T /\ T < Keyed
      BY <1>8, <1>14
    <3> QED
      BY <1>5, <3>1, <3>2 DEF WindowInv
  <2>2. key[Cur.index[Cur.tail]] # INVALID_BLOCK_BASE
    BY <2>1, BaseOrder
  <2>3. Cur.tail \in 0 .. Cur.capacity - 1
    BY <1>5, <1>16 DEF HeaderInv
  <2>4. Keyed \in Int
    BY <1>2, CallFacts
  <2>5. PositionFor(Cur, Cur.tail, enq.base) = Pos(off, Len(header), BlockNo(enq.base))
    BY <1>2, <1>3, <1>5, <1>7, <1>16, <2>2, <2>3, <2>4, LookupFinds
  <2>6. EntryFor(enq.base) = CurAt(off, W)
    BY <1>6, <1>16, <2>5 DEF EntryFor, CurAt, At, CallNo
  <2>7. W \in Int
    OBVIOUS
  <2> QED
    BY <1>2, <1>3, <1>5, <2>6, <2>7, CurType
<1>18. /\ header' \in Seq(Header) /\ Len(header') = Len(header) /\ header' # <<>>
       /\ Cur'.tail = t /\ Cur'.capacity = Cur.capacity
       /\ \A j \in 1 .. Len(header) : /\ header'[j].capacity = header[j].capacity
                                      /\ header'[j].index = header[j].index
  <2>1. t \in Nat
    BY <1>15, <1>16
  <2> QED
    BY <1>0, <1>2, <1>3, <2>1, SetTailFacts
<1>19. /\ \A j \in 1 .. Len(header) :
            \A m : Pos(off, j, m)' = Pos(off, j, m) /\ At(off, j, m)' = At(off, j, m)
       /\ \A m : CurAt(off, m)' = CurAt(off, m)
       /\ HeaderInv(off)'
  BY <1>0, <1>2, <1>3, <1>5, <1>15, SetTailIndex
<1>20. /\ \A m \in Int : InCall(m) <=> W <= m /\ m < F + Len(enq.chain)
       /\ \A m \in Int : InCall(m)' <=> W + 1 <= m /\ m < F + Len(enq.chain)
  <2>1. ASSUME NEW m \in Int PROVE InCall(m) <=> W <= m /\ m < F + Len(enq.chain) - 0
    BY <1>0, <1>6, <1>8 DEF InCall
  <2>2. ASSUME NEW m \in Int PROVE InCall(m)' <=> W + 1 <= m /\ m < F + Len(enq.chain) - 0
    BY <1>8, <1>11, <1>12 DEF InCall
  <2> QED
    BY <1>7, <2>1, <2>2
<1>21. /\ Linked(W) /\ InCall(W) /\ \A m \in Int : InUse(m) => m # W
       /\ \A m \in Int : InCall(m)' <=> InCall(m) /\ m # W
       /\ \A m \in Int : Linked(m)' <=> Linked(m) /\ m # W
  <2>1. InCall(W) /\ \A m \in Int : InCall(m)' <=> InCall(m) /\ m # W
    BY <1>7, <1>9, <1>20
  <2>2. \A m \in Int : InUse(m) => m # W
    BY <1>8, <1>9 DEF InUse
  <2> QED
    BY <1>11, <2>1, <2>2 DEF Linked
<1>22. PICK b \in Block : b = value[e0] /\ b = enq.chain[W - F + 1]
  <2>1. W \in Int /\ Linked(W) /\ InCall(W)
    BY <1>21
  <2>2. value[e0] \in Block
    BY <1>5, <1>17, <2>1 DEF LinkInv
  <2>3. value[e0] = enq.chain[W - F + 1]
    BY <1>5, <1>8, <1>17, <2>1 DEF LinkInv
  <2> QED
    BY <2>2, <2>3, Zenon
<1>23. \A x : InHand(x)' <=> InHand(x) \/ x = b
  <2>1. \A x : InHand(x) <=> \E k \in 1 .. W - F : x = enq.chain[k]
    BY <1>0, <1>6, <1>8 DEF InHand
  <2>2. \A x : InHand(x)' <=> \E k \in 1 .. (W + 1) - F : x = enq.chain[k]
    BY <1>8, <1>11, <1>12 DEF InHand
  <2>3. 1 .. (W + 1) - F = (1 .. W - F) \cup {W - F + 1}
    BY <1>9
  <2> QED
    BY <1>22, <2>1, <2>2, <2>3
<1>24. Present' = Present
  BY <1>10, <1>11, <1>13 DEF Present
<1>25. /\ value \in [Entry -> Block \cup {Null}] /\ value'[e0] = Null
       /\ value' \in [Entry -> Block \cup {Null}]
       /\ \A e \in Entry : e # e0 => value'[e] = value[e]
  BY <1>0, <1>2, <1>17 DEF ShapeInv, TypeOK
<1>26. ASSUME NEW m \in Int, Linked(m), m # W
       PROVE  CurAt(off, m) \in Entry /\ value'[CurAt(off, m)] = value[CurAt(off, m)]
  <2>1. CurAt(off, m) \in Entry
    BY <1>2, <1>3, <1>5, CurType
  <2>2. CurAt(off, m) # e0
    BY <1>2, <1>3, <1>5, <1>17, <1>21, <1>26, LinkedInj
  <2> QED
    BY <1>25, <2>1, <2>2
<1>27. ShapeInv'
  BY <1>0, <1>2, <1>10, <1>12, <1>18, <1>25 DEF ShapeInv, TypeOK, BaseTypeOK, baseVars
<1>28. CallInv'
  <2>1. ~(enq'.pc \in Step)
    BY <1>12 DEF Step
  <2>2. W + 1 <= F + Len(enq.chain) /\ F <= W + 1
    BY <1>7, <1>9
  <2>3. enq.base + BLOCK_SIZE = BLOCK_SIZE * (W + 1)
    BY <1>9, ImplicitAssumption
  <2> QED
    BY <1>8, <1>11, <1>12, <1>18, <2>1, <2>2, <2>3 DEF CallInv
<1>29. OwnerInv'
  <2>1. b # Null
    BY <1>22, ImplicitAssumption
  <2>2. b \notin free /\ (\A e \in Entry : e # e0 => value[e] # b)
    <3>1. /\ \A e \in Entry : value[e] \notin free
          /\ \A e, f \in Entry : value[e] = value[f] /\ value[e] # Null => e = f
      BY <1>2 DEF OwnerInv
    <3> QED
      BY <1>22, <2>1, <3>1, Zenon
  <2>3. \A c \in Consumer : ~FreedBy(c, b)
    BY <1>2, <1>22 DEF OwnerInv
  <2>4. \A e \in Entry : value'[e] # b
    BY <1>25, <2>1, <2>2
  <2>5. \A e \in Entry : value'[e] \notin free'
    <3>1. Null \notin free
      BY <1>2, ImplicitAssumption DEF ShapeInv, TypeOK
    <3> QED
      BY <1>0, <1>2, <1>25, <3>1 DEF OwnerInv
  <2>6. \A e, f \in Entry : value'[e] = value'[f] /\ value'[e] # Null => e = f
    BY <1>2, <1>25 DEF OwnerInv
  <2>7. \A x \in Block : InHand(x)' => x \notin free /\ \A e \in Entry : value'[e] # x
    <3> SUFFICES ASSUME NEW x \in Block, InHand(x) \/ x = b
                 PROVE  x \notin free /\ \A e \in Entry : value'[e] # x
      BY <1>23
    <3>1. CASE x = b
      BY <2>2, <2>4, <3>1
    <3>2. CASE InHand(x)
      BY <1>2, <1>25, <3>2, ImplicitAssumption DEF OwnerInv
    <3> QED
      BY <3>1, <3>2
  <2>8. \A c \in Consumer : \A x \in Block : FreedBy(c, x) =>
          /\ x \notin free /\ ~InHand(x)' /\ \A e \in Entry : value'[e] # x
          /\ \A d \in Consumer \ {c} : ~FreedBy(d, x)
    BY <1>2, <1>23, <1>25, <2>3, ImplicitAssumption DEF OwnerInv
  <2>9. \A x \in Block : \/ x \in free \/ InHand(x)' \/ \E c \in Consumer : FreedBy(c, x)
                         \/ \E e \in Entry : value'[e] = x
    <3> SUFFICES ASSUME NEW x \in Block, x \notin free, x # b, ~InHand(x),
                        ~ \E c \in Consumer : FreedBy(c, x)
                 PROVE  \E e \in Entry : value'[e] = x
      BY <1>23
    <3>1. PICK e \in Entry : value[e] = x
      BY <1>2 DEF OwnerInv
    <3>2. e # e0
      BY <1>22, <3>1
    <3> QED
      BY <1>25, <3>1, <3>2
  <2> QED
    BY <1>0, <1>11, <1>12, <2>5, <2>6, <2>7, <2>8, <2>9 DEF OwnerInv
<1>30. WindowInv(off)'
  <2>1. Cur'.tail = Pos(off, Len(header), AtTail - 1)'
    <3>1. header'[Len(header)].capacity = header[Len(header)].capacity
      BY <1>16, <1>18
    <3>2. AtTail' - 1 = T - 1
      BY <1>13, <1>14
    <3> QED
      BY <1>15, <1>18, <3>1, <3>2 DEF Pos
  <2>2. WindowInv(off) /\ key' = key
    BY <1>0, <1>5
  <2>3. Keyed' = Keyed /\ FirstNo' = FirstNo /\ Cur'.capacity = Cur.capacity
    BY <1>11, <1>13, <1>18
  <2>4. \A e \in Entry : e > Cur'.capacity => key'[e] = INVALID_BLOCK_BASE
    BY <2>2, <2>3 DEF WindowInv
  <2>5. \A m \in Int : Keyed' - Cur'.capacity <= m /\ m < Keyed' =>
          key'[CurAt(off, m)'] \in {INVALID_BLOCK_BASE, BLOCK_SIZE * m,
                                   BLOCK_SIZE * (m + Cur'.capacity)}
    BY <1>19, <2>2, <2>3 DEF WindowInv
  <2>6. \A m, k \in Int : /\ Keyed' - Cur'.capacity <= m /\ m <= k /\ k < Keyed'
                         /\ key'[CurAt(off, m)'] = BLOCK_SIZE * m
                         => key'[CurAt(off, k)'] = BLOCK_SIZE * k
    BY <1>19, <2>2, <2>3 DEF WindowInv
  <2>7. /\ Keyed' - Cur'.capacity <= FirstNo'
        /\ \A m \in Int : FirstNo' <= m /\ m < Keyed' => key'[CurAt(off, m)'] = BLOCK_SIZE * m
    BY <1>19, <2>2, <2>3 DEF WindowInv
  <2> QED
    BY <2>1, <2>4, <2>5, <2>6, <2>7 DEF WindowInv
<1>31. LinkInv(off)'
  <2>2. LinkInv(off)
    BY <1>5
  <2>3. \A m \in Int : Linked(m)' =>
          /\ Keyed' - Cur'.capacity <= m
          /\ key'[CurAt(off, m)'] = BLOCK_SIZE * m
          /\ value'[CurAt(off, m)'] \in Block
          /\ dequeued'[value'[CurAt(off, m)']] = Cardinality(Counted' \cap Elems(m))
    BY <1>0, <1>11, <1>13, <1>18, <1>19, <1>21, <1>26, <2>2, ZenonT(40) DEF LinkInv
  <2>4. \A m \in Int : InCall(m)' => value'[CurAt(off, m)'] = enq'.chain[m - FirstNo' + 1]
    BY <1>11, <1>12, <1>19, <1>21, <1>26, <2>2 DEF LinkInv, Linked
  <2>5. ASSUME NEW e \in Entry, value'[e] # Null
        PROVE  \E m \in Int : Linked(m)' /\ e = CurAt(off, m)'
    <3>1. e # e0 /\ value[e] # Null
      BY <1>25, <2>5
    <3>2. PICK m \in Int : Linked(m) /\ e = CurAt(off, m)
      BY <2>2, <3>1 DEF LinkInv
    <3>3. m # W
      BY <1>17, <3>1, <3>2
    <3> QED
      BY <1>19, <1>21, <3>2, <3>3
  <2>6. ASSUME NEW m \in Int, Constructed > 0, m = BlockNo(Constructed - 1), ~Gone(m)
        PROVE  tailBlock = value'[CurAt(off, m)]
    <3>1. Linked(m)
      BY <1>2, <2>6, LastLinked
    <3>2. m # W
      <4>1. tailIndex - 1 \in 0 .. tailIndex - 1
        BY <1>13, <2>6, Counters
      <4>2. m < F
        BY <1>8, <1>13, <2>6, <4>1, TailElems
      <4> QED
        BY <1>9, <4>2
    <3> QED
      BY <1>26, <2>2, <2>6, <3>1, <3>2 DEF LinkInv
  <2>7. \A m \in Int : Constructed' > 0 /\ m = BlockNo(Constructed' - 1) /\ ~Gone(m)' =>
          tailBlock' = value'[CurAt(off, m)']
    BY <1>0, <1>11, <1>13, <1>19, <2>6
  <2> QED
    BY <2>3, <2>4, <2>5, <2>7 DEF LinkInv, BlockNo, Elems
<1>32. ReaderInv(off)'
  <2>1. ASSUME NEW c \in Consumer, rd[c].pc \in {"move", "count", "clear"}
        PROVE  rd[c].block = value'[CurAt(off, BlockNo(rd[c].i))]
    <3>1. /\ Linked(BlockNo(rd[c].i)) /\ BlockNo(rd[c].i) \in Int
          /\ BlockNo(rd[c].i) < FirstNo
      BY <1>2, <1>5, <2>1, ReaderLinked
    <3>2. BlockNo(rd[c].i) # W
      BY <1>8, <1>9, <3>1
    <3> QED
      BY <1>5, <1>26, <2>1, <3>1, <3>2 DEF ReaderInv, ReaderAt
  <2>2. ReaderInv(off) /\ key' = key
    BY <1>0, <1>5
  <2> QED
    BY <1>10, <1>11, <1>18, <1>19, <2>1, <2>2 DEF ReaderInv, ReaderAt, BlockNo
<1>33. SlotInv(off)'
  <2>1. ASSUME NEW i \in Present
        PROVE  value'[CurAt(off, BlockNo(i))] = value[CurAt(off, BlockNo(i))]
    <3>1. Linked(BlockNo(i)) /\ BlockNo(i) \in Int
      BY <1>2, <1>5, PresentLinked
    <3>2. i \in 0 .. tailIndex - 1
      BY <1>13 DEF Present
    <3>3. BlockNo(i) # W
      BY <1>8, <1>9, <3>2, TailElems
    <3> QED
      BY <1>26, <3>1, <3>3
  <2> QED
    BY <1>0, <1>5, <1>19, <1>24, <2>1 DEF SlotInv, BlockNo
<1> QED
  BY <1>18, <1>19, <1>27, <1>28, <1>29, <1>30, <1>31, <1>32, <1>33 DEF BlockInv, IndexInv

\* The blocks taken out of the index go back to the pool: the call has failed.
LEMMA UndoDoneStep ==
  ASSUME BaseInv, BlockInv, UndoDone
  PROVE  BlockInv'
<1> USE DEF ElementsStay, IndexStays
<1>0. /\ enq.pc = "undo" /\ enq.base = FirstNew + Len(enq.chain) * BLOCK_SIZE
      /\ free' = free \cup ToSet(enq.chain) /\ enq' = Idle
      /\ UNCHANGED <<baseVars, slot, dequeued, key, value, header, tailBlock, rd>>
  BY DEF UndoDone
<1>2. ShapeInv /\ CallInv /\ OwnerInv
  BY DEF BlockInv
<1>7. /\ enq.chain \in Seq(Block) /\ Len(enq.chain) \in Nat /\ enq.base \in Nat
  BY <1>0, <1>2, EnqFields DEF ShapeInv
<1>8. PICK F \in Nat : F = FirstNo
  BY Counters
<1>9. CallNo = F + Len(enq.chain) /\ Keyed = F + Len(enq.chain) /\ AtTail = F
  <2>1. FirstNew = BLOCK_SIZE * F /\ BLOCK_SIZE \in Nat
    BY <1>8, Counters
  <2>2. enq.base = BLOCK_SIZE * (F + Len(enq.chain)) /\ F + Len(enq.chain) \in Int
    <3>1. PICK L \in Nat : L = Len(enq.chain)
      BY <1>7
    <3>2. BLOCK_SIZE * F + L * BLOCK_SIZE = BLOCK_SIZE * (F + L)
      BY <2>1
    <3> QED
      <4>1. enq.base = BLOCK_SIZE * F + L * BLOCK_SIZE
        BY <1>0, <2>1, <3>1
      <4>2. F + L \in Int
        OBVIOUS
      <4> QED
        BY <3>1, <3>2, <4>1, <4>2
  <2>3. CallNo = F + Len(enq.chain)
    BY <2>2, NoOfBase DEF CallNo
  <2>4. Keyed = F + Len(enq.chain)
    BY <1>0, <1>8 DEF Keyed
  <2>5. AtTail = F + Len(enq.chain) - (CallNo - F)
    BY <1>0, <1>8 DEF AtTail
  <2> QED
    BY <1>7, <2>3, <2>4, <2>5
<1>10. UNCHANGED <<tailIndex, headIndex, pc, loc, rd>>
  BY <1>0 DEF baseVars
<1>11. ElementsStay
  BY <1>10, ReadersStay
<1>12. enq'.pc = "idle" /\ enq' \in Enq
  BY <1>0 DEF Idle, Enq
<1>13. Keyed' = F /\ AtTail' = F /\ Constructed' = Constructed
  BY <1>0, <1>8, <1>10, <1>11, <1>12 DEF Keyed, AtTail, Constructed
<1>14. /\ \A m \in Int : ~InCall(m) /\ ~InCall(m)'
       /\ \A m \in Int : Linked(m)' <=> Linked(m)
  <2>1. ASSUME NEW m \in Int PROVE ~InCall(m)
    <3>1. InCall(m) => CallNo <= m /\ m < F + Len(enq.chain) - 0
      BY <1>0, <1>8 DEF InCall
    <3> QED
      BY <1>7, <1>9, <3>1
  <2>2. ASSUME NEW m \in Int PROVE ~InCall(m)'
    BY <1>12 DEF InCall
  <2> QED
    BY <1>11, <2>1, <2>2 DEF Linked
<1>15. \A b : InHand(b) <=> b \in ToSet(enq.chain)
  <2>1. \A b : InHand(b) <=> \E k \in 1 .. CallNo - F : b = enq.chain[k]
    BY <1>0, <1>8 DEF InHand
  <2>2. CallNo - F = Len(enq.chain)
    BY <1>7, <1>9
  <2> QED
    BY <2>1, <2>2 DEF ToSet
<1>16. \A b : ~InHand(b)'
  BY <1>12 DEF InHand
<1>17. ToSet(enq.chain) \subseteq Block
  BY <1>7 DEF ToSet
<1>18. Present' = Present
  BY <1>10, <1>11, <1>13 DEF Present
<1>19. ShapeInv'
  BY <1>0, <1>2, <1>10, <1>12, <1>17 DEF ShapeInv, TypeOK, BaseTypeOK, baseVars
<1>20. CallInv'
  <2>1. ~(enq'.pc \in Step)
    BY <1>12 DEF Step
  <2>2. header' = <<>> => /\ tailIndex' = 0 /\ \A e \in Entry : value'[e] = Null
    BY <1>0, <1>2, <1>10 DEF CallInv
  <2> QED
    BY <1>12, <2>1, <2>2 DEF CallInv
<1>21. OwnerInv'
  <2>1. \A e \in Entry : value'[e] \notin free'
    <3> SUFFICES ASSUME NEW e \in Entry, value[e] \in ToSet(enq.chain) PROVE FALSE
      BY <1>0, <1>2 DEF OwnerInv
    <3> QED
      BY <1>2, <1>15, <1>17 DEF OwnerInv
  <2>2. \A c \in Consumer : \A b \in Block : FreedBy(c, b) =>
          /\ b \notin free' /\ \A e \in Entry : value'[e] # b
          /\ \A d \in Consumer \ {c} : ~FreedBy(d, b)
    BY <1>0, <1>2, <1>15 DEF OwnerInv
  <2>3. \A b \in Block : \/ b \in free' \/ \E c \in Consumer : FreedBy(c, b)
                         \/ \E e \in Entry : value'[e] = b
    BY <1>0, <1>2, <1>15 DEF OwnerInv
  <2> QED
    BY <1>0, <1>2, <1>11, <1>16, <2>1, <2>2, <2>3 DEF OwnerInv
<1>22. ASSUME header # <<>> PROVE \E off \in [1 .. Len(header') -> Int] : IndexInv(off)'
  <2>1. PICK off \in [1 .. Len(header) -> Int] : IndexInv(off)
    BY <1>22 DEF BlockInv
  <2>2. HeaderInv(off) /\ WindowInv(off) /\ LinkInv(off) /\ ReaderInv(off) /\ SlotInv(off)
    BY <2>1 DEF IndexInv
  <2>3. IndexStays(off)
    BY <1>0, SameIndex
  <2>4. HeaderInv(off)'
    BY <1>0, <2>2, <2>3 DEF HeaderInv
  <2>5. Cur.capacity \in Nat \ {0}
    BY <1>2, <1>22, CurFacts
  <2>6. WindowInv(off)'
    <3>1. /\ \A m \in Int : F - Cur.capacity <= m /\ m < F =>
                key[CurAt(off, m)] \in {INVALID_BLOCK_BASE, BLOCK_SIZE * m,
                                        BLOCK_SIZE * (m + Cur.capacity)}
          /\ \A m, k \in Int : /\ F - Cur.capacity <= m /\ m <= k /\ k < F
                               /\ key[CurAt(off, m)] = BLOCK_SIZE * m
                               => key[CurAt(off, k)] = BLOCK_SIZE * k
          /\ F - Cur.capacity <= FirstNo
          /\ \A m \in Int : FirstNo <= m /\ m < F => key[CurAt(off, m)] = BLOCK_SIZE * m
      <4>1. FirstNo <= F /\ F <= Keyed
        BY <1>7, <1>8, <1>9
      <4> QED
        BY <1>2, <1>22, <2>2, <4>1, WindowShrinks
    <3>2. Cur'.tail = Pos(off, Len(header), AtTail - 1)'
      BY <1>0, <1>9, <1>13, <2>2, <2>3 DEF WindowInv, Pos
    <3>3. \A e \in Entry : e > Cur'.capacity => key'[e] = INVALID_BLOCK_BASE
      BY <1>0, <2>2, <2>3 DEF WindowInv
    <3> QED
      BY <1>0, <1>11, <1>13, <2>3, <3>1, <3>2, <3>3 DEF WindowInv
  <2>7. LinkInv(off)'
    <3>1. ASSUME NEW m \in Int, Linked(m) PROVE F - Cur.capacity <= m
      <4>1. Keyed - Cur.capacity <= m
        BY <2>2, <3>1 DEF LinkInv
      <4> QED
        BY <1>7, <1>9, <2>5, <4>1
    <3>3. \A m \in Int : Linked(m)' =>
            /\ Keyed' - Cur'.capacity <= m
            /\ key'[CurAt(off, m)'] = BLOCK_SIZE * m
            /\ value'[CurAt(off, m)'] \in Block
            /\ dequeued'[value'[CurAt(off, m)']] = Cardinality(Counted' \cap Elems(m))
      BY <1>0, <1>11, <1>13, <1>14, <2>2, <2>3, <3>1 DEF LinkInv
    <3>4. \A e \in Entry : value'[e] # Null => \E m \in Int : Linked(m)' /\ e = CurAt(off, m)'
      BY <1>0, <1>14, <2>2, <2>3 DEF LinkInv
    <3>5. \A m \in Int : Constructed' > 0 /\ m = BlockNo(Constructed' - 1) /\ ~Gone(m)' =>
            tailBlock' = value'[CurAt(off, m)']
      BY <1>0, <1>11, <1>13, <2>2, <2>3 DEF LinkInv
    <3> QED
      BY <1>14, <3>3, <3>4, <3>5 DEF LinkInv, BlockNo, Elems
  <2>8. ReaderInv(off)'
    BY <1>0, <1>10, <1>11, <2>2, <2>3 DEF ReaderInv, ReaderAt, BlockNo
  <2>9. SlotInv(off)'
    BY <1>0, <1>18, <2>2, <2>3 DEF SlotInv, BlockNo
  <2> QED
    BY <1>0, <2>1, <2>4, <2>6, <2>7, <2>8, <2>9 DEF IndexInv
<1>23. header = <<>> => /\ \A x \in Block \X Place : slot'[x] = Null
                        /\ \A c \in Consumer : pc'[c] # "take" /\ rd'[c].pc = "idle"
  BY <1>0 DEF BlockInv, baseVars
<1> QED
  BY <1>0, <1>19, <1>20, <1>21, <1>22, <1>23 DEF BlockInv

\* What a step that leaves the consumers alone does not touch.
LEMMA ConsumersStay ==
  ASSUME UNCHANGED <<headIndex, pc, loc, rd>>
  PROVE  /\ Counted' = Counted /\ \A m : Gone(m)' <=> Gone(m)
         /\ \A c \in Consumer : /\ Uncounted(c)' = Uncounted(c) /\ Unmoved(c)' = Unmoved(c)
                                /\ Mine(c)' = Mine(c) /\ Run(c)' = Run(c)
                                /\ \A m : Clearing(c, m)' <=> Clearing(c, m)
                                /\ \A b : FreedBy(c, b)' <=> FreedBy(c, b)
<1>1. \A c \in Consumer : /\ Uncounted(c)' = Uncounted(c) /\ Unmoved(c)' = Unmoved(c)
                          /\ Mine(c)' = Mine(c) /\ Run(c)' = Run(c)
                          /\ \A m : Clearing(c, m)' <=> Clearing(c, m)
                          /\ \A b : FreedBy(c, b)' <=> FreedBy(c, b)
  BY DEF Uncounted, Unmoved, FirstUncounted, FirstUnmoved, RunEnd, Mine, Run, Clearing,
         FreedBy
<1>2. Counted' = Counted
  BY <1>1 DEF Counted
<1>3. \A m : Gone(m)' <=> Gone(m)
  BY <1>2 DEF Gone, Elems
<1> QED
  BY <1>1, <1>2, <1>3

\* The elements of the call are published: its blocks are now in use.
LEMMA EnqueuePublishStep ==
  ASSUME BaseInv, BlockInv, EnqueuePublish
  PROVE  BlockInv'
<1> USE DEF IndexStays
<1>0. /\ enq.pc = "publish" /\ Publish(enq.n) /\ enq' = Idle
      /\ UNCHANGED <<free, slot, dequeued, key, value, header, tailBlock, rd>>
  BY DEF EnqueuePublish
<1>1. /\ tailIndex' = tailIndex + enq.n /\ tailIndex + enq.n <= MaxTail
      /\ UNCHANGED <<headIndex, dequeueOptimisticCount, dequeueOvercommit, pc, loc, void, won>>
  BY <1>0 DEF Publish
<1>2. ShapeInv /\ CallInv /\ OwnerInv
  BY DEF BlockInv
<1>3. header # <<>>
  BY <1>0, <1>2 DEF CallInv
<1>4. PICK off \in [1 .. Len(header) -> Int] : IndexInv(off)
  BY <1>3 DEF BlockInv
<1>5. HeaderInv(off) /\ WindowInv(off) /\ LinkInv(off) /\ ReaderInv(off) /\ SlotInv(off)
  BY <1>4 DEF IndexInv
<1>6. PICK W \in Nat : W = CallNo
  BY <1>0, <1>2, CallFacts
<1>7. PICK F \in Nat : F = FirstNo
  BY Counters
<1>8. /\ enq.pc \in Step /\ enq.n \in Nat \ {0} /\ Len(enq.chain) \in Nat
  BY <1>0, <1>2, EnqFields DEF ShapeInv, Step
<1>9. F <= W /\ Len(enq.chain) = W - F /\ Keyed = W /\ AtTail = W
  <2>1. F <= W
    BY <1>0, <1>2, <1>6, <1>7, CallFacts
  <2>2. Len(enq.chain) = W - F + (IF enq.pc = "value" THEN 1 ELSE 0)
    BY <1>2, <1>6, <1>7, <1>8 DEF CallInv
  <2>3. Keyed = W /\ AtTail = W
    BY <1>0, <1>6 DEF Keyed, AtTail
  <2> QED
    BY <1>0, <2>1, <2>2, <2>3
<1>10. FirstNo' = W
  <2>1. CallNo = BlockNo(tailIndex + enq.n + BLOCK_SIZE - 1)
    BY <1>0, <1>2 DEF CallInv
  <2> QED
    BY <1>1, <1>6, <2>1 DEF FirstNo, BlockNo
<1>11. /\ Counted' = Counted /\ \A m : Gone(m)' <=> Gone(m)
       /\ \A c \in Consumer : /\ Uncounted(c)' = Uncounted(c) /\ Unmoved(c)' = Unmoved(c)
                              /\ Mine(c)' = Mine(c) /\ Run(c)' = Run(c)
                              /\ \A m : Clearing(c, m)' <=> Clearing(c, m)
                              /\ \A b : FreedBy(c, b)' <=> FreedBy(c, b)
  BY <1>0, <1>1, ConsumersStay
<1>12. enq'.pc = "idle" /\ enq' \in Enq
  BY <1>0 DEF Idle, Enq
<1>13. Keyed' = W /\ AtTail' = W /\ Constructed' = Constructed
  BY <1>0, <1>1, <1>10, <1>12 DEF Keyed, AtTail, Constructed
<1>14. /\ \A m \in Int : ~InCall(m)' /\ \A b : ~InHand(b)' /\ ~InHand(b)
  BY <1>0, <1>12 DEF InCall, InHand
<1>15. \A m \in Int : Linked(m)' <=> Linked(m)
  <2> SUFFICES ASSUME NEW m \in Int PROVE Linked(m)' <=> Linked(m)
    OBVIOUS
  <2>1. Linked(m)' <=> m \in 0 .. W - 1 /\ (~Gone(m) \/ \E c \in Consumer : Clearing(c, m))
    BY <1>10, <1>11, <1>14 DEF Linked, InUse
  <2>2. InCall(m) <=> F <= m /\ m < W
    <3>1. InCall(m) <=> F <= m /\ m < F + Len(enq.chain) - 0
      BY <1>0, <1>7 DEF InCall
    <3> QED
      BY <1>8, <1>9, <3>1
  <2>3. InUse(m) <=> m \in 0 .. F - 1 /\ (~Gone(m) \/ \E c \in Consumer : Clearing(c, m))
    BY <1>7 DEF InUse
  <2>4. CASE m < F
    BY <1>9, <2>1, <2>2, <2>3, <2>4 DEF Linked
  <2>5. CASE F <= m
    <3>1. Counted \cap Elems(m) = {}
      BY <1>7, <2>5, NoneCounted
    <3>2. BLOCK_SIZE * m \in Elems(m)
      BY ImplicitAssumption DEF Elems
    <3>3. ~Gone(m)
      BY <3>1, <3>2 DEF Gone
    <3> QED
      BY <1>9, <2>1, <2>2, <2>3, <2>5, <3>3 DEF Linked
  <2> QED
    BY <2>4, <2>5
<1>16. Present' = Present
  BY <1>1, <1>11, <1>13 DEF Present
<1>17. ShapeInv'
  <2>1. BaseTypeOK'
    <3>1. tailIndex + enq.n \in 0 .. MaxTail
      BY <1>1, <1>8, Counters
    <3>2. BaseTypeOK
      BY DEF BaseInv
    <3> QED
      BY <1>1, <3>1, <3>2 DEF BaseTypeOK
  <2> QED
    BY <1>0, <1>2, <1>12, <2>1 DEF ShapeInv, TypeOK
<1>18. CallInv'
  BY <1>0, <1>3, <1>12 DEF CallInv, Step
<1>19. OwnerInv'
  BY <1>0, <1>2, <1>11, <1>12, <1>14 DEF OwnerInv
<1>20. IndexStays(off)
  BY <1>0, SameIndex
<1>21. HeaderInv(off)'
  BY <1>0, <1>5, <1>20 DEF HeaderInv
<1>22. WindowInv(off)'
  <2>1. WindowInv(off) /\ key' = key
    BY <1>0, <1>5
  <2>2. Cur'.tail = Pos(off, Len(header), AtTail - 1)'
    BY <1>9, <1>13, <1>20, <2>1 DEF WindowInv, Pos
  <2>3. W - Cur.capacity <= W
    BY <1>2, <1>3, CurFacts
  <2>4. ASSUME NEW m \in Int, W <= m, m < W PROVE FALSE
    BY <2>4
  <2> QED
    BY <1>9, <1>10, <1>13, <1>20, <2>1, <2>2, <2>3, <2>4 DEF WindowInv
<1>23. LinkInv(off)'
  <2>1. \A m \in Int : Linked(m)' =>
          /\ Keyed' - Cur'.capacity <= m
          /\ key'[CurAt(off, m)'] = BLOCK_SIZE * m
          /\ value'[CurAt(off, m)'] \in Block
          /\ dequeued'[value'[CurAt(off, m)']] = Cardinality(Counted' \cap Elems(m))
    BY <1>0, <1>5, <1>9, <1>11, <1>13, <1>15, <1>20 DEF LinkInv
  <2>2. \A e \in Entry : value'[e] # Null => \E m \in Int : Linked(m)' /\ e = CurAt(off, m)'
    BY <1>0, <1>5, <1>15, <1>20 DEF LinkInv
  <2>3. \A m \in Int : Constructed' > 0 /\ m = BlockNo(Constructed' - 1) /\ ~Gone(m)' =>
          tailBlock' = value'[CurAt(off, m)']
    BY <1>0, <1>5, <1>11, <1>13, <1>20 DEF LinkInv
  <2> QED
    BY <1>14, <2>1, <2>2, <2>3 DEF LinkInv, BlockNo, Elems
<1>24. ReaderInv(off)'
  BY <1>0, <1>1, <1>5, <1>11, <1>20 DEF ReaderInv, ReaderAt, BlockNo
<1>25. SlotInv(off)'
  BY <1>0, <1>5, <1>16, <1>20 DEF SlotInv, BlockNo
<1> QED
  BY <1>0, <1>3, <1>4, <1>17, <1>18, <1>19, <1>21, <1>22, <1>23, <1>24, <1>25
  DEF BlockInv, IndexInv

\* An element is known by its block and its place in it.
LEMMA ElemEq ==
  ASSUME NEW i \in Nat, NEW j \in Nat, BlockNo(i) = BlockNo(j),
         i % BLOCK_SIZE = j % BLOCK_SIZE
  PROVE  i = j
<1>1. i = BLOCK_SIZE * BlockNo(i) + (i % BLOCK_SIZE)
  BY NoBase
<1>2. j = BLOCK_SIZE * BlockNo(j) + (j % BLOCK_SIZE)
  BY NoBase
<1> QED
  BY <1>1, <1>2

\* The block enqueue_bulk constructs an element in is the one the index has.
LEMMA BlockForIs ==
  ASSUME BaseInv, ShapeInv, CallInv, enq.pc = "construct", NEW off, LinkInv(off),
         NEW i \in tailIndex .. tailIndex + enq.n - 1
  PROVE  /\ i \in Nat /\ BlockNo(i) \in Nat /\ Linked(BlockNo(i)) /\ ~Gone(BlockNo(i))
         /\ BlockFor(i) = value[CurAt(off, BlockNo(i))] /\ BlockFor(i) \in Block
<1>1. enq.n \in Nat \ {0} /\ Len(enq.chain) \in Nat /\ enq.pc \in Step
  BY EnqFields DEF ShapeInv, Step
<1>2. PICK F \in Nat : F = FirstNo
  BY Counters
<1>3. /\ tailIndex \in Nat /\ headIndex \in Nat /\ headIndex <= tailIndex
      /\ tailIndex <= BLOCK_SIZE * F /\ BLOCK_SIZE * F < tailIndex + BLOCK_SIZE
      /\ FirstNew = BLOCK_SIZE * F /\ BLOCK_SIZE \in Nat \ {0, 1}
  BY <1>2, Counters
<1>4. i \in Nat /\ tailIndex <= i /\ i < tailIndex + enq.n
  BY <1>1, <1>3
<1>5. PICK q \in Nat : q = BlockNo(i)
  BY <1>4, NoBase
<1>6. i \in Elems(q)
  BY <1>4, <1>5, NoElems
<1>7. ~Gone(q)
  BY <1>3, <1>4, <1>6 DEF Gone, Counted
<1>8. CASE i < FirstNew
  <2>1. q < F
    BY <1>2, <1>3, <1>4, <1>5, <1>8, NoBefore
  <2>2. Linked(q)
    BY <1>2, <1>7, <2>1 DEF Linked, InUse
  <2>3. Constructed = tailIndex
    BY DEF Constructed
  <2>4. tailIndex >= 1 /\ BlockNo(tailIndex - 1) = q
    <3>1. PICK z \in Int : z = BLOCK_SIZE * (F - 1)
      BY <1>3
    <3>2. z + BLOCK_SIZE = BLOCK_SIZE * F
      BY <1>3, <3>1
    <3>3. z >= 0
      <4>1. F - 1 \in Nat
        BY <1>5, <2>1
      <4> QED
        BY <1>3, <3>1, <4>1
    <3>4. z <= tailIndex - 1 /\ tailIndex - 1 < z + BLOCK_SIZE /\ tailIndex - 1 \in Nat
      BY <1>3, <3>2, <3>3
    <3>5. z <= i /\ i < z + BLOCK_SIZE
      BY <1>3, <1>4, <1>8, <3>2, <3>4
    <3>6. F - 1 \in Int
      OBVIOUS
    <3>7. i \in Elems(F - 1) /\ tailIndex - 1 \in Elems(F - 1)
      BY <1>3, <1>4, <3>1, <3>4, <3>5 DEF Elems
    <3>8. BlockNo(i) = F - 1 /\ BlockNo(tailIndex - 1) = F - 1
      BY <1>4, <3>4, <3>6, <3>7, NoElems
    <3> QED
      BY <1>3, <1>5, <3>4, <3>8
  <2>5. tailBlock = value[CurAt(off, q)]
    BY <1>3, <1>7, <2>3, <2>4 DEF LinkInv
  <2>6. value[CurAt(off, q)] \in Block
    <3>1. q \in Int
      OBVIOUS
    <3> QED
      BY <2>2, <3>1 DEF LinkInv
  <2>7. BlockFor(i) = tailBlock
    BY <1>8 DEF BlockFor
  <2> QED
    BY <1>4, <1>5, <1>7, <2>2, <2>5, <2>6, <2>7
<1>9. CASE ~(i < FirstNew)
  <2>1. F <= q
    BY <1>2, <1>3, <1>4, <1>5, <1>9, NoBefore
  <2>2. PICK W \in Nat : W = CallNo /\ Len(enq.chain) = W - F
    <3>1. CallNo \in Nat /\ F <= CallNo
      BY <1>2, CallFacts
    <3>2. Len(enq.chain) = CallNo - F + (IF enq.pc = "value" THEN 1 ELSE 0)
      BY <1>1, <1>2 DEF CallInv
    <3>3. Len(enq.chain) = CallNo - F
      BY <3>1, <3>2
    <3> QED
      BY <3>1, <3>3, Zenon
  <2>3. q < W
    <3>1. CallNo = BlockNo(tailIndex + enq.n + BLOCK_SIZE - 1)
      BY DEF CallInv
    <3>2. tailIndex + enq.n + BLOCK_SIZE - 1 \in Nat
      BY <1>1, <1>3
    <3>3. tailIndex + enq.n + BLOCK_SIZE - 1 < BLOCK_SIZE * W + BLOCK_SIZE
      BY <2>2, <3>1, <3>2, NoBase
    <3>4. PICK z \in Int : z = BLOCK_SIZE * W
      BY <1>3
    <3>5. i < z
      BY <1>1, <1>3, <1>4, <3>3, <3>4
    <3> QED
      BY <1>4, <1>5, <3>4, <3>5, NoBefore
  <2>4. InCall(q)
    <3>1. q < F + Len(enq.chain) - 0
      BY <2>2, <2>3
    <3> QED
      BY <1>2, <2>1, <3>1 DEF InCall
  <2>5. (i - FirstNew) \div BLOCK_SIZE = q - F
    <3>1. i = BLOCK_SIZE * q + (i % BLOCK_SIZE) /\ i % BLOCK_SIZE \in 0 .. BLOCK_SIZE - 1
      BY <1>4, <1>5, NoBase DEF Place
    <3>2. PICK r \in 0 .. BLOCK_SIZE - 1 : r = i % BLOCK_SIZE
      BY <3>1
    <3>3. i - FirstNew = BLOCK_SIZE * (q - F) + r /\ q - F \in Int
      BY <1>3, <3>1, <3>2
    <3> QED
      BY <1>3, <3>2, <3>3, DivUnique
  <2>6. BlockFor(i) = enq.chain[q - F + 1]
    BY <1>9, <2>5 DEF BlockFor
  <2>7. value[CurAt(off, q)] = enq.chain[q - F + 1] /\ value[CurAt(off, q)] \in Block
    <3>1. q \in Int /\ Linked(q)
      BY <2>4 DEF Linked
    <3>2. value[CurAt(off, q)] \in Block
      BY <3>1 DEF LinkInv
    <3>3. value[CurAt(off, q)] = enq.chain[q - FirstNo + 1]
      BY <2>4, <3>1 DEF LinkInv
    <3> QED
      BY <1>2, <3>2, <3>3
  <2> QED
    BY <1>4, <1>5, <1>7, <2>4, <2>6, <2>7 DEF Linked
<1> QED
  BY <1>8, <1>9

\* The elements of the call are constructed in their blocks.
LEMMA ConstructStep ==
  ASSUME BaseInv, BlockInv, Construct
  PROVE  BlockInv'
<1> USE DEF ElementsStay, IndexStays
<1> DEFINE new == tailIndex .. tailIndex + enq.n - 1
           cell(i) == <<BlockFor(i), i % BLOCK_SIZE>>
<1>0. /\ enq.pc = "construct"
      /\ slot' = [x \in Block \X Place |-> IF \E i \in new : x = cell(i)
                                           THEN CHOOSE i \in new : x = cell(i) ELSE slot[x]]
      /\ tailBlock' = BlockFor(tailIndex + enq.n - 1)
      /\ enq' = [enq EXCEPT !.pc = "publish"]
      /\ UNCHANGED <<baseVars, free, dequeued, key, value, header, rd>>
  BY DEF Construct
<1>2. ShapeInv /\ CallInv /\ OwnerInv
  BY DEF BlockInv
<1>3. header # <<>>
  BY <1>0, <1>2 DEF CallInv
<1>4. PICK off \in [1 .. Len(header) -> Int] : IndexInv(off)
  BY <1>3 DEF BlockInv
<1>5. HeaderInv(off) /\ WindowInv(off) /\ LinkInv(off) /\ ReaderInv(off) /\ SlotInv(off)
  BY <1>4 DEF IndexInv
<1>6. /\ enq \in [pc : Step, n : 1 .. MaxBulk, base : Nat, chain : Seq(Block)]
      /\ enq.n \in Nat \ {0}
  BY <1>0, <1>2, EnqFields DEF ShapeInv, Step
<1>7. /\ enq'.pc = "publish" /\ enq'.n = enq.n /\ enq'.base = enq.base
      /\ enq'.chain = enq.chain /\ enq' \in Enq
  <2>1. enq' \in [pc : Step, n : 1 .. MaxBulk, base : Nat, chain : Seq(Block)]
    BY <1>0, <1>6 DEF Step
  <2> QED
    BY <1>0, <1>6, <2>1 DEF Enq
<1>8. UNCHANGED <<tailIndex, headIndex, pc, loc, rd>>
  BY <1>0 DEF baseVars
<1>9. ElementsStay
  BY <1>8, ReadersStay
<1>10. /\ tailIndex \in Nat /\ headIndex \in Nat /\ headIndex <= tailIndex /\ MaxTail \in Nat
       /\ tailIndex + enq.n <= MaxTail
  BY <1>0, <1>2, Counters DEF CallInv, Step
<1>11. /\ CallNo' = CallNo /\ Keyed' = Keyed /\ AtTail' = AtTail
       /\ Constructed = tailIndex /\ Constructed' = tailIndex + enq.n
  BY <1>0, <1>7, <1>8 DEF CallNo, BlockNo, Keyed, AtTail, Constructed
<1>12. /\ \A m \in Int : InCall(m)' <=> InCall(m)
       /\ \A m \in Int : Linked(m)' <=> Linked(m)
       /\ \A b : ~InHand(b) /\ ~InHand(b)'
  BY <1>0, <1>7, <1>9, <1>11 DEF InCall, Linked, InHand
<1>13. \A i : i \in Present' <=> i \in Present \/ i \in new
  <2>1. Present' = {i \in 0 .. (tailIndex + enq.n) - 1 :
                      i >= headIndex \/ \E c \in Consumer : i \in Unmoved(c)}
    <3>1. Present' = {i \in 0 .. Constructed' - 1 :
                        i >= headIndex' \/ \E c \in Consumer : i \in Unmoved(c)'}
      BY DEF Present
    <3>2. \A c \in Consumer : Unmoved(c)' = Unmoved(c)
      BY <1>9
    <3>3. headIndex' = headIndex /\ Constructed' = tailIndex + enq.n
      BY <1>8, <1>11
    <3> QED
      BY <3>1, <3>2, <3>3
  <2>2. Present = {i \in 0 .. tailIndex - 1 :
                     i >= headIndex \/ \E c \in Consumer : i \in Unmoved(c)}
    BY <1>11 DEF Present
  <2>3. \A c \in Consumer : \A i \in Unmoved(c) : i \in 0 .. tailIndex - 1
    BY <1>2, <1>5, HeldElems, HeldInUse DEF Unmoved
  <2>4. \A i \in Present' : i \in Present \/ i \in new
    BY <1>6, <1>10, <2>1, <2>2, <2>3
  <2>5. \A i \in Present : i \in Present'
    BY <1>6, <1>10, <2>1, <2>2
  <2>6. \A i \in new : i \in Present'
    BY <1>6, <1>10, <2>1
  <2> QED
    BY <2>4, <2>5, <2>6, Zenon
<1>14. ASSUME NEW i \in new
       PROVE  /\ i \in Nat /\ BlockNo(i) \in Nat /\ Linked(BlockNo(i)) /\ ~Gone(BlockNo(i))
              /\ BlockFor(i) = value[CurAt(off, BlockNo(i))] /\ BlockFor(i) \in Block
              /\ i % BLOCK_SIZE \in Place /\ cell(i) \in Block \X Place
  <2>1. /\ i \in Nat /\ BlockNo(i) \in Nat /\ Linked(BlockNo(i)) /\ ~Gone(BlockNo(i))
        /\ BlockFor(i) = value[CurAt(off, BlockNo(i))] /\ BlockFor(i) \in Block
    BY <1>0, <1>2, <1>5, <1>14, BlockForIs
  <2>2. i % BLOCK_SIZE \in Place
    BY <2>1, NoBase
  <2> QED
    BY <2>1, <2>2
<1>15. ASSUME NEW i \in new, NEW j \in Nat, Linked(BlockNo(j)), BlockNo(j) \in Nat,
              BlockFor(i) = value[CurAt(off, BlockNo(j))], i % BLOCK_SIZE = j % BLOCK_SIZE
       PROVE  i = j
  <2>1. BlockNo(i) = BlockNo(j)
    <3>1. BlockNo(i) \in Int /\ BlockNo(j) \in Int /\ Linked(BlockNo(i))
          /\ value[CurAt(off, BlockNo(i))] = value[CurAt(off, BlockNo(j))]
      <4>1. /\ BlockNo(i) \in Nat /\ Linked(BlockNo(i))
            /\ BlockFor(i) = value[CurAt(off, BlockNo(i))]
        BY <1>14
      <4> HIDE DEF new, cell
      <4> QED
        BY <1>15, <4>1
    <3> QED
      BY <1>2, <1>3, <1>5, <1>15, <3>1, LinkedBlocks
  <2> QED
    BY <1>14, <1>15, <2>1, ElemEq
<1>16. \A i \in new : slot'[cell(i)] = i
  <2> SUFFICES ASSUME NEW i \in new PROVE slot'[cell(i)] = i
    OBVIOUS
  <2>1. \A j \in new : cell(j) = cell(i) => j = i
    <3> SUFFICES ASSUME NEW j \in new, BlockFor(j) = BlockFor(i),
                        j % BLOCK_SIZE = i % BLOCK_SIZE
                 PROVE  j = i
      OBVIOUS
    <3>1. /\ i \in Nat /\ Linked(BlockNo(i)) /\ BlockNo(i) \in Nat
          /\ BlockFor(j) = value[CurAt(off, BlockNo(i))]
      BY <1>14
    <3> QED
      BY <1>15, <3>1
  <2>2. cell(i) \in Block \X Place
    BY <1>14
  <2>3. slot'[cell(i)] = CHOOSE j \in new : cell(i) = cell(j)
    <3> HIDE DEF cell
    <3> QED
      BY <1>0, <2>2
  <2> HIDE DEF cell
  <2>4. (CHOOSE j \in new : cell(i) = cell(j)) = i
    BY <2>1
  <2> QED
    BY <2>3, <2>4
<1>17. ASSUME NEW b \in Block, NEW s \in Place, \A i \in new : <<b, s>> # cell(i)
       PROVE  slot'[<<b, s>>] = slot[<<b, s>>]
  <2>1. <<b, s>> \in Block \X Place
    OBVIOUS
  <2> HIDE DEF cell
  <2> QED
    BY <1>0, <1>17, <2>1
<1>18. PICK last \in new : last = tailIndex + enq.n - 1
  BY <1>6, <1>10
<1>19. slot' \in [Block \X Place -> 0 .. MaxTail - 1 \cup {Null}]
  <2>1. slot \in [Block \X Place -> 0 .. MaxTail - 1 \cup {Null}]
    BY <1>2 DEF ShapeInv, TypeOK
  <2>2. ASSUME NEW x \in Block \X Place PROVE slot'[x] \in 0 .. MaxTail - 1 \cup {Null}
    <3>1. CASE \E i \in new : x = cell(i)
      <4>1. PICK i \in new : x = cell(i)
        BY <3>1
      <4>2. slot'[x] = i
        BY <1>16, <4>1
      <4> QED
        BY <1>6, <1>10, <4>2
    <3>2. CASE ~ \E i \in new : x = cell(i)
      <4> HIDE DEF cell
      <4> QED
        BY <1>0, <2>1, <3>2
    <3> QED
      BY <3>1, <3>2
  <2>3. slot' = [x \in Block \X Place |-> slot'[x]]
    <3> HIDE DEF cell
    <3> QED
      BY <1>0
  <2> QED
    BY <2>2, <2>3
<1>20. ShapeInv'
  BY <1>0, <1>2, <1>7, <1>8, <1>14, <1>18, <1>19 DEF ShapeInv, TypeOK, BaseTypeOK, baseVars
<1>21. CallInv'
  BY <1>0, <1>2, <1>3, <1>7, <1>8, <1>9, <1>11 DEF CallInv, Step, BlockNo
<1>22. OwnerInv'
  BY <1>0, <1>2, <1>9, <1>12 DEF OwnerInv
<1>23. IndexStays(off)
  BY <1>0, SameIndex
<1>24. HeaderInv(off)'
  BY <1>0, <1>5, <1>23 DEF HeaderInv
<1>25. WindowInv(off)'
  BY <1>0, <1>5, <1>9, <1>11, <1>23 DEF WindowInv
<1>26. LinkInv(off)'
  <2>1. \A m \in Int : Linked(m)' =>
          /\ Keyed' - Cur'.capacity <= m
          /\ key'[CurAt(off, m)'] = BLOCK_SIZE * m
          /\ value'[CurAt(off, m)'] \in Block
          /\ dequeued'[value'[CurAt(off, m)']] = Cardinality(Counted' \cap Elems(m))
    BY <1>0, <1>5, <1>9, <1>11, <1>12, <1>23 DEF LinkInv
  <2>2. \A m \in Int : InCall(m)' => value'[CurAt(off, m)'] = enq'.chain[m - FirstNo' + 1]
    BY <1>0, <1>5, <1>7, <1>9, <1>12, <1>23 DEF LinkInv
  <2>3. \A e \in Entry : value'[e] # Null => \E m \in Int : Linked(m)' /\ e = CurAt(off, m)'
    BY <1>0, <1>5, <1>12, <1>23 DEF LinkInv
  <2>4. tailBlock' = value[CurAt(off, BlockNo(Constructed' - 1))]
    <3>1. BlockFor(last) = value[CurAt(off, BlockNo(last))]
      BY <1>14
    <3>2. Constructed' - 1 = last
      BY <1>6, <1>10, <1>11, <1>18
    <3> HIDE DEF new, cell
    <3> QED
      BY <1>0, <1>18, <3>1, <3>2
  <2>5. \A m \in Int : Constructed' > 0 /\ m = BlockNo(Constructed' - 1) /\ ~Gone(m)' =>
          tailBlock' = value'[CurAt(off, m)']
    BY <1>0, <1>23, <2>4
  <2> QED
    BY <2>1, <2>2, <2>3, <2>5 DEF LinkInv, BlockNo, Elems
<1>27. ReaderInv(off)'
  BY <1>0, <1>5, <1>8, <1>9, <1>23 DEF ReaderInv, ReaderAt, BlockNo
<1>28. SlotInv(off)'
  <2>1. ASSUME NEW i \in Present'
        PROVE  slot'[<<value[CurAt(off, BlockNo(i))], i % BLOCK_SIZE>>] = i
    <3>1. CASE i \in new
      BY <1>14, <1>16, <3>1
    <3>2. CASE i \in Present
      <4>1. /\ i \in Nat /\ Linked(BlockNo(i)) /\ BlockNo(i) \in Nat /\ i % BLOCK_SIZE \in Place
        BY <1>2, <1>5, <3>2, PresentLinked
      <4>2. PICK b \in Block : b = value[CurAt(off, BlockNo(i))]
        <5>1. BlockNo(i) \in Int
          BY <4>1
        <5>2. value[CurAt(off, BlockNo(i))] \in Block
          BY <1>5, <4>1, <5>1 DEF LinkInv
        <5> QED
          BY <5>2
      <4>3. \A j \in new : j # i
        <5>1. i \in 0 .. tailIndex - 1
          BY <1>11, <3>2 DEF Present
        <5> QED
          BY <1>6, <1>10, <5>1
      <4>4. \A j \in new : <<b, i % BLOCK_SIZE>> # cell(j)
        BY <1>15, <4>1, <4>2, <4>3
      <4>5. slot'[<<b, i % BLOCK_SIZE>>] = slot[<<b, i % BLOCK_SIZE>>]
        BY <1>17, <4>1, <4>4
      <4> QED
        BY <1>5, <3>2, <4>2, <4>5 DEF SlotInv
    <3> QED
      BY <1>13, <3>1, <3>2
  <2>2. ASSUME NEW b \in Block, NEW s \in Place, slot'[<<b, s>>] # Null
        PROVE  /\ slot'[<<b, s>>] \in Present' /\ slot'[<<b, s>>] % BLOCK_SIZE = s
               /\ value[CurAt(off, BlockNo(slot'[<<b, s>>]))] = b
    <3>1. CASE \E i \in new : <<b, s>> = cell(i)
      <4>1. PICK i \in new : <<b, s>> = cell(i)
        BY <3>1
      <4>2. slot'[<<b, s>>] = i
        BY <1>16, <4>1
      <4>3. b = BlockFor(i) /\ s = i % BLOCK_SIZE
        BY <4>1
      <4> QED
        BY <1>13, <1>14, <4>2, <4>3
    <3>2. CASE \A i \in new : <<b, s>> # cell(i)
      <4>1. slot'[<<b, s>>] = slot[<<b, s>>]
        BY <1>17, <3>2
      <4> QED
        BY <1>5, <1>13, <2>2, <4>1 DEF SlotInv
    <3> QED
      BY <3>1, <3>2
  <2>3. value' = value /\ \A m : CurAt(off, m)' = CurAt(off, m)
    BY <1>0, <1>23
  <2> HIDE DEF new, cell
  <2>4. \A i \in Present' : slot'[<<value'[CurAt(off, BlockNo(i))'], i % BLOCK_SIZE>>] = i
    BY <2>1, <2>3 DEF BlockNo
  <2>5. \A b \in Block, s \in Place : slot'[<<b, s>>] # Null =>
          /\ slot'[<<b, s>>] \in Present' /\ slot'[<<b, s>>] % BLOCK_SIZE = s
          /\ value'[CurAt(off, BlockNo(slot[<<b, s>>]))'] = b
    BY <2>2, <2>3 DEF BlockNo
  <2> QED
    BY <2>4, <2>5 DEF SlotInv
<1> QED
  BY <1>0, <1>3, <1>4, <1>20, <1>21, <1>22, <1>24, <1>25, <1>26, <1>27, <1>28
  DEF BlockInv, IndexInv

\* The doubled index: the entries of the present one from the oldest on, then new
\* ones.  C is the present capacity and W the next block.
LEMMA NewHeaderIs ==
  ASSUME BaseInv, ShapeInv, CallInv, header # <<>>, NEW off, HeaderInv(off), WindowInv(off),
         NEW C, C = Cur.capacity, NEW W \in Nat, W = AtTail, NEW x, x = NextHeader(Cur),
         2 * C <= MaxEntries
  PROVE  /\ C \in Nat \ {0} /\ x \in Header /\ x.capacity = 2 * C /\ x.tail = C - 1
         /\ \A r \in 0 .. C - 1 : x.index[r] = CurAt(off, W + r) /\ x.index[r] \in 1 .. C
         /\ \A r \in C .. 2 * C - 1 : x.index[r] = r + 1
         /\ x.index \in [0 .. 2 * C - 1 -> 1 .. 2 * C]
<1>1. /\ C \in Nat \ {0} /\ Len(header) \in 1 .. Len(header) /\ Cur = header[Len(header)]
  BY CurFacts
<1>2. /\ x.capacity = 2 * C /\ x.tail = C - 1
      /\ x.index = [p \in 0 .. 2 * C - 1 |->
                      IF p < C THEN Cur.index[(Cur.tail + 1 + p) % C] ELSE p + 1]
  BY DEF NextHeader
<1>3. ASSUME NEW r \in 0 .. C - 1
      PROVE  x.index[r] = CurAt(off, W + r) /\ x.index[r] \in 1 .. C
  <2>1. Cur.tail = Pos(off, Len(header), W - 1) /\ W - 1 \in Int /\ 1 + r \in Int
    BY <1>1 DEF WindowInv
  <2>2. (W - 1) + (1 + r) = W + r /\ W + r \in Int
    BY <1>1
  <2>3. (Cur.tail + (1 + r)) % C = Pos(off, Len(header), W + r)
    <3>1. PICK a \in Int : a = W - 1
      OBVIOUS
    <3>2. PICK d \in Int : d = 1 + r
      BY <1>1
    <3>3. (Pos(off, Len(header), a) + d) % header[Len(header)].capacity
            = Pos(off, Len(header), a + d)
      BY <1>1, NextPos
    <3> QED
      BY <1>1, <2>1, <2>2, <3>1, <3>2, <3>3
  <2>4. Cur.tail \in Int
    <3>1. Pos(off, Len(header), W - 1) \in 0 .. Cur.capacity - 1
      BY <2>1, CurType
    <3> QED
      BY <1>1, <2>1, <3>1
  <2>5. Cur.tail + (1 + r) = Cur.tail + 1 + r
    BY <1>1, <2>4
  <2>6. x.index[r] = Cur.index[(Cur.tail + 1 + r) % C]
    <3>1. r \in 0 .. 2 * C - 1 /\ r < C
      BY <1>1
    <3> QED
      BY <1>2, <3>1
  <2>7. x.index[r] = CurAt(off, W + r)
    BY <1>1, <2>3, <2>5, <2>6 DEF CurAt, At
  <2> QED
    BY <2>2, <2>7, CurType
<1>4. ASSUME NEW r \in C .. 2 * C - 1 PROVE x.index[r] = r + 1 /\ r + 1 \in 1 .. 2 * C
  <2>1. r \in 0 .. 2 * C - 1 /\ ~(r < C) /\ r + 1 \in 1 .. 2 * C
    BY <1>1
  <2> QED
    BY <1>2, <2>1
<1>5. x.index \in [0 .. 2 * C - 1 -> 1 .. 2 * C]
  <2>1. ASSUME NEW r \in 0 .. 2 * C - 1 PROVE x.index[r] \in 1 .. 2 * C
    <3>1. CASE r \in 0 .. C - 1
      <4>1. x.index[r] \in 1 .. C
        BY <1>3, <3>1
      <4> QED
        BY <1>1, <4>1
    <3>2. CASE r \in C .. 2 * C - 1
      BY <1>4, <3>2
    <3> QED
      BY <1>1, <3>1, <3>2
  <2>2. x.index = [p \in 0 .. 2 * C - 1 |-> x.index[p]]
    BY <1>2
  <2> QED
    BY <2>1, <2>2
<1>6. x \in Header
  <2>1. x = [capacity |-> 2 * C, tail |-> C - 1, index |-> x.index]
    BY <1>2 DEF NextHeader
  <2>2. 2 * C \in Nat \ {0} /\ C - 1 \in Nat
    BY <1>1
  <2>3. x.index \in UNION {[0 .. n - 1 -> Entry] : n \in Nat}
    <3>1. 1 .. 2 * C \subseteq Entry
      BY <1>1, ImplicitAssumption DEF Entry
    <3>2. x.index \in [0 .. 2 * C - 1 -> Entry]
      BY <1>5, <3>1
    <3>3. PICK n \in Nat : n = 2 * C
      BY <2>2
    <3> QED
      BY <3>2, <3>3
  <2> QED
    BY <2>1, <2>2, <2>3 DEF Header
<1> QED
  BY <1>1, <1>2, <1>3, <1>4, <1>5, <1>6

\* The index is full and is replaced by one of twice the size.
LEMMA NewBlockIndexStep ==
  ASSUME BaseInv, BlockInv, NewBlockIndex
  PROVE  BlockInv'
<1> USE DEF ElementsStay
<1>0. /\ enq.pc = "insert" /\ header # <<>> /\ value[NewEntry] # Null
      /\ 2 * Cur.capacity <= MaxEntries /\ header' = Append(header, NextHeader(Cur))
      /\ UNCHANGED <<baseVars, free, slot, dequeued, key, value, tailBlock, enq, rd>>
  BY DEF NewBlockIndex
<1>1. ShapeInv /\ CallInv /\ OwnerInv
  BY DEF BlockInv
<1>2. PICK off \in [1 .. Len(header) -> Int] : IndexInv(off)
  BY <1>0 DEF BlockInv
<1>3. HeaderInv(off) /\ WindowInv(off) /\ LinkInv(off) /\ ReaderInv(off) /\ SlotInv(off)
  BY <1>2 DEF IndexInv
<1>4. PICK W \in Nat : W = CallNo /\ W = Keyed /\ W = AtTail
  BY <1>0, <1>1, CallFacts DEF Keyed, AtTail
<1>5. PICK C \in Nat \ {0} : C = Cur.capacity
  BY <1>0, <1>1, CurFacts
<1>6. PICK L \in Nat \ {0} : L = Len(header) /\ L \in 1 .. L
  BY <1>0, <1>1, CurFacts
<1>7. PICK x : x = NextHeader(Cur)
  OBVIOUS
<1>8. /\ x \in Header /\ x.capacity = 2 * C /\ x.tail = C - 1
      /\ \A r \in 0 .. C - 1 : x.index[r] = CurAt(off, W + r) /\ x.index[r] \in 1 .. C
      /\ \A r \in C .. 2 * C - 1 : x.index[r] = r + 1
      /\ x.index \in [0 .. 2 * C - 1 -> 1 .. 2 * C]
  BY <1>0, <1>1, <1>3, <1>4, <1>5, <1>7, NewHeaderIs, SMTT(40)
<1>9. /\ header' \in Seq(Header) /\ Len(header') = L + 1 /\ header' # <<>>
      /\ header'[L + 1] = x /\ Cur' = x /\ \A j \in 1 .. L : header'[j] = header[j]
  <2>1. header \in Seq(Header) /\ header' = Append(header, x)
    BY <1>0, <1>1, <1>7 DEF ShapeInv
  <2> HIDE DEF Header
  <2>2. header' \in Seq(Header)
    BY <1>8, <2>1
  <2>3. /\ Len(header') = L + 1 /\ header'[L + 1] = x
        /\ \A j \in 1 .. L : header'[j] = header[j]
    BY <1>6, <2>1
  <2>4. header' # <<>>
    BY <1>6, <2>2, <2>3
  <2> QED
    BY <2>2, <2>3, <2>4 DEF Cur, Last
<1>10. PICK new : new = [j \in 1 .. L + 1 |-> IF j = L + 1 THEN C - W ELSE off[j]]
  OBVIOUS
<1>11. /\ new \in [1 .. L + 1 -> Int] /\ new[L + 1] = C - W
       /\ \A j \in 1 .. L : new[j] = off[j]
  <2>1. C - W \in Int /\ L + 1 \in 1 .. L + 1 /\ \A j \in 1 .. L : j # L + 1 /\ j \in 1 .. L + 1
    OBVIOUS
  <2>2. \A j \in 1 .. L + 1 : j # L + 1 => j \in 1 .. L
    OBVIOUS
  <2> QED
    BY <1>6, <1>10, <2>1, <2>2
<1>12. /\ \A j \in 1 .. L : \A m : Pos(new, j, m)' = Pos(off, j, m) /\ At(new, j, m)' = At(off, j, m)
       /\ \A m : Pos(new, L + 1, m)' = (m + (C - W)) % (2 * C)
       /\ \A m : CurAt(new, m)' = x.index[(m + (C - W)) % (2 * C)]
  BY <1>8, <1>9, <1>11 DEF Pos, At, CurAt
\* The oldest entry is still in use, so all of them are.
<1>13. \A m \in Int : W - C <= m /\ m < W => key[CurAt(off, m)] = BLOCK_SIZE * m
  <2>1. NewEntry = CurAt(off, W) /\ CurAt(off, W) \in Entry
    BY <1>0, <1>1, <1>3, <1>4, NewEntryIs, CurType
  <2>2. PICK k \in Int : Linked(k) /\ CurAt(off, W) = CurAt(off, k)
    BY <1>0, <1>3, <2>1 DEF LinkInv
  <2>3. W - C <= k /\ k < W /\ key[CurAt(off, k)] = BLOCK_SIZE * k
    BY <1>1, <1>3, <1>4, <1>5, <2>2, LinkedRange DEF LinkInv
  <2>4. PICK z \in Int : z = W - C
    OBVIOUS
  <2>5. CurAt(off, z) = CurAt(off, W)
    <3>1. z + C = W
      BY <2>4
    <3>2. CurAt(off, z + C) = CurAt(off, z)
      BY <1>0, <1>1, <1>3, <1>5, CurPeriod
    <3> QED
      BY <3>1, <3>2
  <2>6. k = z
    <3>1. k - z < C /\ z - k < C
      BY <2>3, <2>4
    <3> QED
      BY <1>0, <1>1, <1>3, <1>5, <2>2, <2>5, <3>1, CurInj
  <2>7. key[CurAt(off, z)] = BLOCK_SIZE * z
    BY <2>3, <2>6
  <2> QED
    BY <1>3, <1>4, <1>5, <2>4, <2>7 DEF WindowInv
\* Blocks of the last round keep their entry; those of the round before have new ones.
<1>14. ASSUME NEW m \in Int, W - C <= m, m < W
       PROVE  Pos(new, L + 1, m)' = m + (C - W) /\ CurAt(new, m)' = CurAt(off, m)
  <2>1. PICK r \in 0 .. C - 1 : r = m + (C - W)
    BY <1>14
  <2>2. 2 * C \in Nat \ {0} /\ r \in 0 .. 2 * C - 1
    OBVIOUS
  <2>3. r % (2 * C) = r
    BY <2>2, ModSmall
  <2>4. x.index[r] = CurAt(off, W + r)
    BY <1>8
  <2>5. W + r = m + C
    BY <2>1
  <2>6. CurAt(off, m + C) = CurAt(off, m)
    BY <1>0, <1>1, <1>3, <1>5, CurPeriod
  <2> QED
    BY <1>12, <2>1, <2>3, <2>4, <2>5, <2>6
<1>15. ASSUME NEW m \in Int, W - 2 * C <= m, m < W - C
       PROVE  /\ CurAt(new, m)' \in C + 1 .. 2 * C
              /\ key[CurAt(new, m)'] = INVALID_BLOCK_BASE
  <2>1. PICK r \in C .. 2 * C - 1 : r = (m + (C - W)) + 2 * C
    BY <1>15
  <2>2. 2 * C \in Nat \ {0} /\ r \in 0 .. 2 * C - 1 /\ m + (C - W) \in Int
    OBVIOUS
  <2>3. (m + (C - W)) % (2 * C) = r
    <3>1. PICK a \in Int : a = m + (C - W)
      OBVIOUS
    <3>2. PICK d \in Nat \ {0} : d = 2 * C
      OBVIOUS
    <3>3. (a + d) % d = a % d
      BY ModRound
    <3>4. r % d = r
      BY <2>2, <3>2, ModSmall
    <3>5. r = a + d
      BY <2>1, <3>1, <3>2
    <3> QED
      BY <3>1, <3>2, <3>3, <3>4, <3>5
  <2>4. CurAt(new, m)' = r + 1
    BY <1>8, <1>12, <2>3
  <2>5. r + 1 \in Entry /\ r + 1 > C /\ r + 1 \in C + 1 .. 2 * C
    BY <1>0, <1>5, ImplicitAssumption DEF Entry
  <2> QED
    BY <1>3, <1>5, <2>4, <2>5 DEF WindowInv
\* An entry the present index has is found there for the same blocks.
<1>16. ASSUME NEW m \in Int, CurAt(new, m)' \in 1 .. C
       PROVE  CurAt(new, m)' = CurAt(off, m)
  <2>1. PICK d \in Nat \ {0} : d = 2 * C
    OBVIOUS
  <2>2. PICK a \in Int : a = m + (C - W)
    OBVIOUS
  <2>3. PICK r \in 0 .. 2 * C - 1 : r = a % d
    BY <2>1, DivMod
  <2>4. CurAt(new, m)' = x.index[r]
    BY <1>12, <2>1, <2>2, <2>3
  <2>5. r \in 0 .. C - 1
    <3>1. ASSUME r \in C .. 2 * C - 1 PROVE FALSE
      <4>1. x.index[r] = r + 1
        BY <1>8, <3>1
      <4> QED
        BY <1>16, <2>4, <3>1, <4>1
    <3> QED
      BY <3>1
  <2>6. x.index[r] = CurAt(off, W + r)
    BY <1>8, <2>5
  <2>7. PICK k \in Int : a = d * k + r
    BY <2>3, DivMod
  <2>8. PICK o \in Int : o = off[Len(header)]
    BY <1>0, <1>1, <1>3, CurType
  <2>9. PICK q \in Int : q = 2 * k - 1
    OBVIOUS
  <2>10. m + o = (W + r + o) + C * q
    <3>1. d * k = C * (q + 1)
      BY <2>1, <2>9
    <3>2. C * (q + 1) = C * q + C /\ C * q \in Int
      OBVIOUS
    <3> QED
      BY <2>2, <2>5, <2>7, <3>1, <3>2
  <2>11. W + r + o \in Int
    BY <2>5
  <2>12. (m + o) % C = (W + r + o) % C
    <3>1. \A z \in Int : (z + C * q) % C = z % C
      BY ModShift
    <3> QED
      BY <2>10, <2>11, <3>1
  <2>13. Pos(off, Len(header), m) = Pos(off, Len(header), W + r)
    BY <1>5, <1>0, <1>1, <2>8, <2>12, CurFacts DEF Pos
  <2> QED
    BY <2>4, <2>6, <2>13 DEF CurAt, At
<1>17. UNCHANGED <<tailIndex, headIndex, pc, loc, rd>>
  BY <1>0 DEF baseVars
<1>18. ElementsStay
  BY <1>17, ReadersStay
<1>19. CallNo' = CallNo /\ Keyed' = W /\ AtTail' = W /\ Constructed' = Constructed
  BY <1>0, <1>4, <1>17, <1>18 DEF CallNo, BlockNo, Keyed, AtTail, Constructed
<1>20. /\ \A m \in Int : InCall(m)' <=> InCall(m)
       /\ \A m \in Int : Linked(m)' <=> Linked(m)
       /\ \A b : InHand(b)' <=> InHand(b)
  BY <1>0, <1>18, <1>19 DEF InCall, Linked, InHand
<1>21. Present' = Present
  BY <1>17, <1>18, <1>19 DEF Present
<1>22. ASSUME NEW m \in Int, Linked(m)
       PROVE  W - C <= m /\ m < W /\ CurAt(new, m)' = CurAt(off, m)
  <2>1. W - C <= m /\ m < W
    BY <1>1, <1>3, <1>4, <1>5, <1>22, LinkedRange DEF LinkInv
  <2> QED
    BY <1>14, <2>1
<1>23. ShapeInv'
  BY <1>0, <1>1, <1>9, <1>17 DEF ShapeInv, TypeOK, BaseTypeOK, baseVars
<1>24. CallInv'
  BY <1>0, <1>1, <1>9, <1>17, <1>18, <1>19 DEF CallInv, BlockNo
<1>25. OwnerInv'
  BY <1>0, <1>1, <1>18, <1>20 DEF OwnerInv
<1>26. HeaderInv(new)'
  <2>1. \A j \in 1 .. L + 1 :
          /\ header'[j].capacity <= 2 * C
          /\ header'[j].index \in [0 .. header'[j].capacity - 1 -> 1 .. header'[j].capacity]
          /\ header'[j].tail \in 0 .. header'[j].capacity - 1
    <3> SUFFICES ASSUME NEW j \in 1 .. L + 1
                 PROVE /\ header'[j].capacity <= 2 * C
                       /\ header'[j].index \in [0 .. header'[j].capacity - 1 -> 1 .. header'[j].capacity]
                       /\ header'[j].tail \in 0 .. header'[j].capacity - 1
      OBVIOUS
    <3>1. CASE j = L + 1
      <4>1. C - 1 \in 0 .. 2 * C - 1
        OBVIOUS
      <4> QED
        BY <1>8, <1>9, <3>1, <4>1, SMTT(40)
    <3>2. CASE j \in 1 .. L
      <4>1. header'[j] = header[j] /\ header[j].capacity \in Nat
        BY <1>0, <1>1, <1>6, <1>9, <3>2, CurFacts
      <4>2. /\ header[j].capacity <= C
            /\ header[j].index \in [0 .. header[j].capacity - 1 -> 1 .. header[j].capacity]
            /\ header[j].tail \in 0 .. header[j].capacity - 1
        BY <1>3, <1>5, <1>6, <3>2 DEF HeaderInv
      <4>3. header[j].capacity <= 2 * C
        BY <4>1, <4>2
      <4> QED
        BY <4>1, <4>2, <4>3
    <3> QED
      BY <3>1, <3>2
  <2>2. ASSUME NEW e \in 1 .. 2 * C PROVE \E p \in 0 .. 2 * C - 1 : x.index[p] = e
    <3>1. CASE e <= C
      <4>1. e \in 1 .. C
        BY <3>1
      <4>2. PICK p \in 0 .. C - 1 : Cur.index[p] = e
        BY <1>3, <1>5, <4>1 DEF HeaderInv
      <4>3. PICK o \in Int : o = off[Len(header)]
        <5>1. W \in Int
          OBVIOUS
        <5>2. off[Len(header)] \in Int
          BY <1>0, <1>1, <1>3, <5>1, CurType
        <5> QED
          BY <5>2
      <4>4. PICK m \in W .. W + C - 1 : (m + o) % C = p
        <5>1. W \in Int
          OBVIOUS
        <5> QED
          BY <5>1, WindowRep
      <4>5. PICK r \in 0 .. C - 1 : r = m - W
        OBVIOUS
      <4>6. m = W + r /\ r \in 0 .. 2 * C - 1
        BY <4>5
      <4>7. CurAt(off, m) = e
        BY <1>0, <1>1, <1>5, <4>2, <4>3, <4>4, CurFacts DEF CurAt, At, Pos
      <4>8. x.index[r] = CurAt(off, W + r)
        BY <1>8
      <4> QED
        BY <4>6, <4>7, <4>8
    <3>2. CASE e > C
      <4>1. PICK r \in C .. 2 * C - 1 : r = e - 1
        BY <3>2
      <4>2. x.index[r] = r + 1
        BY <1>8
      <4> QED
        BY <4>1, <4>2
    <3> QED
      BY <3>1, <3>2
  <2>3. ASSUME NEW j \in 1 .. L, NEW q \in 0 .. header[j].capacity - 1, NEW m \in Int,
               CurAt(new, m)' = header[j].index[q]
        PROVE  q = Pos(off, j, m)
    <3>1. header[j].index[q] \in 1 .. C
      <4>1. header[j].capacity \in Nat /\ header[j].capacity <= C
        BY <1>0, <1>1, <1>3, <1>5, <1>6, CurFacts DEF HeaderInv
      <4>2. header[j].index[q] \in 1 .. header[j].capacity
        BY <1>3, <1>6 DEF HeaderInv
      <4> QED
        BY <4>1, <4>2
    <3>2. CurAt(off, m) = header[j].index[q]
      BY <1>16, <2>3, <3>1
    <3> QED
      BY <1>3, <1>6, <3>2 DEF HeaderInv
  <2>4. ASSUME NEW q \in 0 .. 2 * C - 1, NEW m \in Int, CurAt(new, m)' = x.index[q]
        PROVE  q = Pos(new, L + 1, m)'
    <3>1. PICK r \in 0 .. 2 * C - 1 : r = (m + (C - W)) % (2 * C)
      <4>1. 2 * C \in Nat \ {0} /\ m + (C - W) \in Int
        OBVIOUS
      <4> QED
        BY <4>1, DivMod
    <3>2. x.index[r] = x.index[q] /\ Pos(new, L + 1, m)' = r
      BY <1>12, <2>4, <3>1
    <3>3. CASE q < C /\ r < C
      <4>1. q \in 0 .. C - 1 /\ r \in 0 .. C - 1
        BY <3>3
      <4>2. CurAt(off, W + q) = CurAt(off, W + r)
        BY <1>8, <3>2, <4>1
      <4>3. PICK a \in Int : a = W + q
        OBVIOUS
      <4>4. PICK b \in Int : b = W + r
        OBVIOUS
      <4>5. CurAt(off, a) = CurAt(off, b) /\ a - b < C /\ b - a < C
        BY <4>1, <4>2, <4>3, <4>4
      <4>6. a = b
        BY <1>0, <1>1, <1>3, <1>5, <4>5, CurInj
      <4> QED
        BY <3>2, <4>3, <4>4, <4>6
    <3>4. CASE ~(q < C) /\ ~(r < C)
      <4>1. q \in C .. 2 * C - 1 /\ r \in C .. 2 * C - 1
        BY <3>4
      <4>2. x.index[q] = q + 1 /\ x.index[r] = r + 1
        BY <1>8, <4>1
      <4> QED
        BY <3>2, <4>2
    <3>5. CASE q < C /\ ~(r < C)
      <4>1. q \in 0 .. C - 1 /\ r \in C .. 2 * C - 1
        BY <3>5
      <4>2. x.index[q] \in 1 .. C /\ x.index[r] = r + 1
        BY <1>8, <4>1
      <4> QED
        BY <3>2, <4>1, <4>2
    <3>6. CASE ~(q < C) /\ r < C
      <4>1. r \in 0 .. C - 1 /\ q \in C .. 2 * C - 1
        BY <3>6
      <4>2. x.index[r] \in 1 .. C /\ x.index[q] = q + 1
        BY <1>8, <4>1
      <4> QED
        BY <3>2, <4>1, <4>2
    <3> QED
      BY <3>3, <3>4, <3>5, <3>6
  <2>5. \A j \in 1 .. L + 1 : \A q \in 0 .. header'[j].capacity - 1 : \A m \in Int :
          CurAt(new, m)' = header'[j].index[q] => q = Pos(new, j, m)'
    <3> SUFFICES ASSUME NEW j \in 1 .. L + 1, NEW q \in 0 .. header'[j].capacity - 1,
                        NEW m \in Int, CurAt(new, m)' = header'[j].index[q]
                 PROVE  q = Pos(new, j, m)'
      OBVIOUS
    <3>1. CASE j = L + 1
      <4>1. header'[j] = x /\ x.capacity = 2 * C
        BY <1>8, <1>9, <3>1
      <4>2. q \in 0 .. 2 * C - 1 /\ CurAt(new, m)' = x.index[q]
        BY <4>1
      <4> QED
        BY <2>4, <3>1, <4>2
    <3>2. CASE j \in 1 .. L
      <4>1. header'[j] = header[j] /\ Pos(new, j, m)' = Pos(off, j, m)
        BY <1>9, <1>12, <3>2
      <4> QED
        BY <2>3, <3>2, <4>1
    <3> QED
      BY <3>1, <3>2
  <2>6. ASSUME NEW j \in 1 .. L PROVE key[header[j].index[header[j].tail]] # INVALID_BLOCK_BASE
    <3>1. CASE j \in 1 .. L - 1
      BY <1>3, <1>6, <3>1 DEF HeaderInv
    <3>2. CASE j = L
      <4>1. PICK z \in Int : z = W - 1
        OBVIOUS
      <4>2. key[CurAt(off, z)] = BLOCK_SIZE * z
        BY <1>13, <4>1
      <4>3. Cur.index[Cur.tail] = CurAt(off, z)
        BY <1>0, <1>1, <1>3, <1>4, <4>1, TailEntry
      <4>4. Cur = header[j]
        BY <1>0, <1>1, <1>6, <3>2, CurFacts
      <4> QED
        BY <4>2, <4>3, <4>4, BaseOrder
    <3> QED
      BY <3>1, <3>2
  <2>7. \A j \in 1 .. Len(header') - 1 :
          key'[header'[j].index[header'[j].tail]] # INVALID_BLOCK_BASE
    <3>1. (L + 1) - 1 = L /\ key' = key
      BY <1>0
    <3> QED
      BY <1>9, <2>6, <3>1
  <2>8. /\ new \in [1 .. Len(header') -> Int] /\ Cur'.capacity = 2 * C /\ Cur'.index = x.index
        /\ 2 * C <= MaxEntries
    BY <1>0, <1>5, <1>8, <1>9, <1>11
  <2>9. \A e \in 1 .. 2 * C : \E p \in 0 .. 2 * C - 1 : x.index[p] = e
    BY <2>2
  <2> QED
    BY <1>9, <2>1, <2>5, <2>7, <2>8, <2>9 DEF HeaderInv
<1>27. WindowInv(new)'
  <2>1. ASSUME NEW e \in Entry, e > 2 * C PROVE key[e] = INVALID_BLOCK_BASE
    <3>1. e > C
      BY <2>1, ImplicitAssumption DEF Entry
    <3> QED
      BY <1>3, <1>5, <3>1 DEF WindowInv
  <2>2. ASSUME NEW m \in Int, W - 2 * C <= m, m < W
        PROVE  key[CurAt(new, m)'] \in {INVALID_BLOCK_BASE, BLOCK_SIZE * m}
    <3>1. CASE m < W - C
      BY <1>15, <2>2, <3>1
    <3>2. CASE W - C <= m
      BY <1>13, <1>14, <2>2, <3>2
    <3> QED
      BY <3>1, <3>2
  <2>3. ASSUME NEW m \in Int, NEW k \in Int, W - 2 * C <= m, m <= k, k < W,
               key[CurAt(new, m)'] = BLOCK_SIZE * m
        PROVE  key[CurAt(new, k)'] = BLOCK_SIZE * k
    <3>1. W - C <= m
      <4>1. ASSUME m < W - C PROVE FALSE
        BY <1>15, <2>3, <4>1, BaseOrder
      <4> QED
        BY <4>1
    <3>2. W - C <= k
      BY <2>3, <3>1
    <3> QED
      BY <1>13, <1>14, <2>3, <3>2
  <2>4. W - C <= FirstNo /\ FirstNo \in Nat /\ W - 2 * C <= FirstNo
    <3>1. W - C <= FirstNo /\ FirstNo \in Nat
      BY <1>3, <1>4, <1>5, Counters DEF WindowInv
    <3> QED
      BY <3>1
  <2>5. ASSUME NEW m \in Int, FirstNo <= m, m < W PROVE key[CurAt(new, m)'] = BLOCK_SIZE * m
    <3>1. W - C <= m
      BY <2>4, <2>5
    <3> QED
      BY <1>13, <1>14, <2>5, <3>1
  <2>6. Cur'.tail = Pos(new, Len(header), AtTail - 1)'
    <3>1. PICK z \in Int : z = W - 1
      OBVIOUS
    <3>2. Pos(new, L + 1, z)' = z + (C - W)
      BY <1>14, <3>1
    <3>3. z + (C - W) = C - 1
      BY <3>1
    <3>4. Pos(new, Len(header), AtTail - 1)' = (z + new[L + 1]) % header'[L + 1].capacity
      BY <1>9, <1>19, <3>1 DEF Pos
    <3>5. Pos(new, L + 1, z)' = (z + new[L + 1]) % header'[L + 1].capacity
      BY DEF Pos
    <3> QED
      BY <1>8, <1>9, <3>2, <3>3, <3>4, <3>5
  <2>7. key' = key /\ Cur'.capacity = 2 * C /\ Keyed' = W /\ FirstNo' = FirstNo
    BY <1>0, <1>8, <1>9, <1>18, <1>19
  <2>8. \A e \in Entry : e > Cur'.capacity => key'[e] = INVALID_BLOCK_BASE
    BY <2>1, <2>7
  <2>9. \A m \in Int : Keyed' - Cur'.capacity <= m /\ m < Keyed' =>
          key'[CurAt(new, m)'] \in {INVALID_BLOCK_BASE, BLOCK_SIZE * m,
                                   BLOCK_SIZE * (m + Cur'.capacity)}
    BY <2>2, <2>7
  <2>10. \A m, k \in Int : /\ Keyed' - Cur'.capacity <= m /\ m <= k /\ k < Keyed'
                           /\ key'[CurAt(new, m)'] = BLOCK_SIZE * m
                           => key'[CurAt(new, k)'] = BLOCK_SIZE * k
    BY <2>3, <2>7
  <2>11. /\ Keyed' - Cur'.capacity <= FirstNo'
         /\ \A m \in Int : FirstNo' <= m /\ m < Keyed' => key'[CurAt(new, m)'] = BLOCK_SIZE * m
    BY <2>4, <2>5, <2>7
  <2> QED
    BY <2>6, <2>8, <2>9, <2>10, <2>11 DEF WindowInv
<1>28. LinkInv(new)'
  <2>1. LinkInv(off) /\ key' = key /\ value' = value /\ dequeued' = dequeued
        /\ tailBlock' = tailBlock /\ enq' = enq /\ Cur'.capacity = 2 * C
    BY <1>0, <1>3, <1>8, <1>9
  <2>2. ASSUME NEW m \in Int, Linked(m)'
        PROVE  /\ Keyed' - Cur'.capacity <= m
               /\ key'[CurAt(new, m)'] = BLOCK_SIZE * m
               /\ value'[CurAt(new, m)'] \in Block
               /\ dequeued'[value'[CurAt(new, m)']] = Cardinality(Counted' \cap Elems(m))
    <3>1. Linked(m) /\ W - C <= m /\ CurAt(new, m)' = CurAt(off, m)
      BY <1>20, <1>22, <2>2
    <3>2. W - 2 * C <= m
      BY <3>1
    <3> QED
      BY <1>18, <1>19, <2>1, <3>1, <3>2 DEF LinkInv
  <2>3. ASSUME NEW m \in Int, InCall(m)'
        PROVE  value'[CurAt(new, m)'] = enq'.chain[m - FirstNo' + 1]
    <3>1. InCall(m) /\ Linked(m) /\ CurAt(new, m)' = CurAt(off, m)
      BY <1>20, <1>22, <2>3 DEF Linked
    <3> QED
      BY <1>18, <2>1, <3>1 DEF LinkInv
  <2>4. ASSUME NEW e \in Entry, value'[e] # Null
        PROVE  \E m \in Int : Linked(m)' /\ e = CurAt(new, m)'
    <3>1. PICK m \in Int : Linked(m) /\ e = CurAt(off, m)
      BY <2>1, <2>4 DEF LinkInv
    <3> QED
      BY <1>20, <1>22, <3>1
  <2>5. ASSUME NEW m \in Int, Constructed' > 0, m = BlockNo(Constructed' - 1), ~Gone(m)'
        PROVE  tailBlock' = value'[CurAt(new, m)']
    <3>1. Constructed > 0 /\ m = BlockNo(Constructed - 1) /\ ~Gone(m)
      BY <1>18, <1>19, <2>5
    <3>2. Linked(m)
      BY <1>1, <3>1, LastLinked
    <3> QED
      BY <1>22, <2>1, <3>1, <3>2 DEF LinkInv
  <2> QED
    BY <2>2, <2>3, <2>4, <2>5 DEF LinkInv, BlockNo, Elems
<1>29. ReaderInv(new)'
  <2>1. ReaderInv(off) /\ key' = key /\ value' = value /\ UNCHANGED <<pc, loc, rd>>
    BY <1>0, <1>3, <1>17
  <2> SUFFICES ASSUME NEW c \in Consumer
               PROVE /\ pc[c] = "take" => loc[c].got >= 1
                     /\ rd[c].pc # "idle" =>
                          /\ pc[c] = "take" /\ rd[c].h \in 1 .. Len(header')
                          /\ \A i \in Uncounted(c) :
                               At(new, rd[c].h, BlockNo(i))' = CurAt(new, BlockNo(i))'
                     /\ rd[c].pc = "key" =>
                          /\ rd[c].t \in 0 .. header'[rd[c].h].capacity - 1
                          /\ key[header'[rd[c].h].index[rd[c].t]] # INVALID_BLOCK_BASE
                     /\ rd[c].pc \in {"value", "move", "count", "clear", "free", "next"} =>
                          /\ rd[c].i \in Mine(c)
                          /\ rd[c].pos = Pos(new, rd[c].h, BlockNo(rd[c].i))'
                     /\ rd[c].pc \in {"move", "count", "clear"} =>
                          rd[c].block = value[CurAt(new, BlockNo(rd[c].i))']
                     /\ rd[c].pc = "clear" =>
                          /\ Gone(BlockNo(rd[c].i))
                          /\ At(new, rd[c].h, BlockNo(rd[c].i))' = CurAt(new, BlockNo(rd[c].i))'
                          /\ \A d \in Consumer \ {c} : ~Clearing(d, BlockNo(rd[c].i))
    BY <1>18, <2>1 DEF ReaderInv, ReaderAt, BlockNo
  <2>2. rd[c].pc # "idle" => /\ pc[c] = "take" /\ rd[c].h \in 1 .. L
                             /\ header'[rd[c].h] = header[rd[c].h] /\ rd[c].h \in 1 .. Len(header')
    BY <1>6, <1>9, <2>1 DEF ReaderInv, ReaderAt
  <2>3. ASSUME rd[c].pc # "idle", NEW i \in Uncounted(c)
        PROVE  At(new, rd[c].h, BlockNo(i))' = CurAt(new, BlockNo(i))'
    <3>1. BlockNo(i) \in Int /\ Linked(BlockNo(i))
      BY <1>1, <1>3, HeldLinked
    <3>2. CurAt(new, BlockNo(i))' = CurAt(off, BlockNo(i))
      BY <1>22, <3>1 DEF BlockNo
    <3>3. At(new, rd[c].h, BlockNo(i))' = At(off, rd[c].h, BlockNo(i))
      BY <1>12, <2>2, <2>3, <2>1 DEF BlockNo, At, Pos
    <3> QED
      BY <2>1, <2>3, <3>2, <3>3 DEF ReaderInv, ReaderAt
  <2>4. ASSUME rd[c].pc \in {"value", "move", "count", "clear", "free", "next"}
        PROVE  rd[c].i \in Mine(c) /\ rd[c].pos = Pos(new, rd[c].h, BlockNo(rd[c].i))'
    <3>1. rd[c].i \in Mine(c) /\ rd[c].pos = Pos(off, rd[c].h, BlockNo(rd[c].i))
      BY <2>1, <2>4 DEF ReaderInv, ReaderAt
    <3>2. new[rd[c].h] = off[rd[c].h]
      BY <1>11, <2>2, <2>4
    <3>3. Pos(new, rd[c].h, BlockNo(rd[c].i))' = Pos(off, rd[c].h, BlockNo(rd[c].i))
      BY <2>1, <2>2, <2>4, <3>2 DEF Pos, BlockNo
    <3> QED
      BY <3>1, <3>3
  <2>5. ASSUME rd[c].pc \in {"move", "count", "clear"}
        PROVE  /\ rd[c].block = value[CurAt(new, BlockNo(rd[c].i))']
               /\ CurAt(new, BlockNo(rd[c].i))' = CurAt(off, BlockNo(rd[c].i))
    <3>1. Linked(BlockNo(rd[c].i)) /\ BlockNo(rd[c].i) \in Int
      BY <1>1, <1>3, <2>5, ReaderLinked
    <3>2. PICK m \in Int : m = BlockNo(rd[c].i)
      BY <3>1
    <3>3. CurAt(new, m)' = CurAt(off, m)
      BY <1>22, <3>1, <3>2
    <3>4. CurAt(new, BlockNo(rd[c].i))' = CurAt(new, m)'
      BY <2>1, <3>2 DEF CurAt, At, Pos, BlockNo
    <3> QED
      BY <2>1, <2>5, <3>2, <3>3, <3>4 DEF ReaderInv, ReaderAt
  <2>6. ASSUME rd[c].pc = "clear"
        PROVE  At(new, rd[c].h, BlockNo(rd[c].i))' = CurAt(new, BlockNo(rd[c].i))'
    <3>1. new[rd[c].h] = off[rd[c].h]
      BY <1>11, <2>2, <2>6
    <3>2. At(new, rd[c].h, BlockNo(rd[c].i))' = At(off, rd[c].h, BlockNo(rd[c].i))
      BY <2>1, <2>2, <2>6, <3>1 DEF At, Pos, BlockNo
    <3> QED
      BY <2>1, <2>5, <2>6, <3>2 DEF ReaderInv, ReaderAt
  <2> QED
    BY <2>1, <2>2, <2>3, <2>4, <2>5, <2>6 DEF ReaderInv, ReaderAt
<1>30. SlotInv(new)'
  <2>1. \A i \in Present : CurAt(new, BlockNo(i))' = CurAt(off, BlockNo(i))
    <3> SUFFICES ASSUME NEW i \in Present PROVE CurAt(new, BlockNo(i))' = CurAt(off, BlockNo(i))
      OBVIOUS
    <3>1. BlockNo(i) \in Int /\ Linked(BlockNo(i))
      BY <1>1, <1>3, PresentLinked
    <3> QED
      BY <1>22, <3>1 DEF BlockNo
  <2>2. \A b \in Block, s \in Place : slot[<<b, s>>] # Null =>
          CurAt(new, BlockNo(slot[<<b, s>>]))' = CurAt(off, BlockNo(slot[<<b, s>>]))
    <3> SUFFICES ASSUME NEW b \in Block, NEW s \in Place, slot[<<b, s>>] # Null
                 PROVE  CurAt(new, BlockNo(slot[<<b, s>>]))' = CurAt(off, BlockNo(slot[<<b, s>>]))
      OBVIOUS
    <3>1. PICK i \in Present : i = slot[<<b, s>>]
      BY <1>3 DEF SlotInv
    <3>2. CurAt(new, BlockNo(i))' = CurAt(off, BlockNo(i))
      BY <2>1
    <3>3. slot' = slot
      BY <1>0
    <3> QED
      BY <3>1, <3>2, <3>3 DEF CurAt, At, Pos, BlockNo
  <2>3. slot' = slot /\ value' = value
    BY <1>0
  <2> QED
    BY <1>3, <1>21, <2>1, <2>2, <2>3 DEF SlotInv
<1>31. new \in [1 .. Len(header') -> Int]
  BY <1>9, <1>11
<1> QED
  BY <1>9, <1>23, <1>24, <1>25, <1>26, <1>27, <1>28, <1>29, <1>30, <1>31 DEF BlockInv, IndexInv

(***************************************************************************)
(* The steps of dequeue and dequeue_bulk                                   *)
(***************************************************************************)

\* A consumer the step leaves alone still has the entry it looked for.
LEMMA OtherReader ==
  ASSUME NEW off, NEW d \in Consumer, ReaderAt(off, d), UNCHANGED <<key, value, header>>,
         pc'[d] = pc[d], loc'[d] = loc[d], rd'[d] = rd[d], Counted' = Counted,
         \A x \in Consumer : \A m : Clearing(x, m)' <=> Clearing(x, m)
  PROVE  ReaderAt(off, d)'
<1>1. IndexStays(off)
  BY SameIndex
<1>2. Uncounted(d)' = Uncounted(d) /\ Mine(d)' = Mine(d)
  BY DEF Uncounted, FirstUncounted, RunEnd, Mine
<1>3. \A m : Gone(m)' <=> Gone(m)
  BY DEF Gone, Elems
<1> QED
  BY <1>1, <1>2, <1>3 DEF ReaderAt, BlockNo, IndexStays

\* A step of a consumer that only looks something up, or claims elements: if the
\* consumers still have their entries, everything else is as it was.
LEMMA ReadStep ==
  ASSUME BaseInv, BlockInv, BaseTypeOK', tailIndex' = tailIndex,
         UNCHANGED <<slot, dequeued, key, value, header, tailBlock, enq>>,
         free' \subseteq Block, OwnerInv', rd' \in [Consumer -> Rd], Counted' = Counted,
         Present' = Present,
         \A d \in Consumer : \A m : Clearing(d, m)' <=> Clearing(d, m),
         header = <<>> => \A d \in Consumer : pc'[d] # "take" /\ rd'[d].pc = "idle",
         \A off : header # <<>> /\ IndexInv(off) => ReaderInv(off)'
  PROVE  BlockInv'
<1> USE DEF IndexStays
<1>1. ShapeInv /\ CallInv
  BY DEF BlockInv
<1>2. \A m : Gone(m)' <=> Gone(m)
  BY DEF Gone, Elems
<1>3. /\ FirstNo' = FirstNo /\ FirstNew' = FirstNew /\ CallNo' = CallNo /\ Keyed' = Keyed
      /\ AtTail' = AtTail /\ Constructed' = Constructed
  BY DEF FirstNo, FirstNew, CallNo, Keyed, AtTail, Constructed
<1>4. \A m : (Linked(m)' <=> Linked(m)) /\ (InCall(m)' <=> InCall(m))
  BY <1>2, <1>3 DEF Linked, InUse, InCall
<1>5. ShapeInv'
  BY <1>1 DEF ShapeInv, TypeOK
<1>6. CallInv'
  BY <1>1, <1>3 DEF CallInv, BlockNo
<1>7. ASSUME header # <<>> PROVE \E off \in [1 .. Len(header') -> Int] : IndexInv(off)'
  <2>1. PICK off \in [1 .. Len(header) -> Int] : IndexInv(off)
    BY <1>7 DEF BlockInv
  <2>2. IndexStays(off)
    BY SameIndex
  <2>3. HeaderInv(off)'
    BY <2>1, <2>2 DEF IndexInv, HeaderInv
  <2>4. WindowInv(off)'
    BY <1>3, <2>1, <2>2 DEF IndexInv, WindowInv
  <2>5. LinkInv(off)'
    BY <1>2, <1>3, <1>4, <2>1, <2>2 DEF IndexInv, LinkInv, BlockNo, Elems
  <2>6. ReaderInv(off)'
    BY <1>7, <2>1
  <2>7. SlotInv(off)'
    BY <2>1, <2>2 DEF IndexInv, SlotInv, BlockNo
  <2> QED
    BY <2>1, <2>2, <2>3, <2>4, <2>5, <2>6, <2>7 DEF IndexInv
<1> QED
  BY <1>5, <1>6, <1>7 DEF BlockInv

\* What the rest of the state sees of a consumer's step that leaves the blocks alone.
LEMMA OwnerStays ==
  ASSUME BlockInv, UNCHANGED <<free, dequeued, value, enq>>, tailIndex' = tailIndex,
         \A d \in Consumer : \A b : FreedBy(d, b)' <=> FreedBy(d, b)
  PROVE  OwnerInv'
<1>1. \A b : InHand(b)' <=> InHand(b)
  BY DEF InHand, CallNo, FirstNo, BlockNo
<1>2. OwnerInv
  BY DEF BlockInv
<1> QED
  BY <1>1, <1>2 DEF OwnerInv

\* A consumer that holds no elements looks nothing up.
LEMMA NotTaking ==
  ASSUME BlockInv, NEW c \in Consumer, pc[c] # "take"
  PROVE  rd[c].pc = "idle"
<1>1. CASE header = <<>>
  BY <1>1 DEF BlockInv
<1>2. CASE header # <<>>
  <2>1. PICK off \in [1 .. Len(header) -> Int] : IndexInv(off)
    BY <1>2 DEF BlockInv
  <2> QED
    BY <2>1 DEF IndexInv, ReaderInv, ReaderAt
<1> QED
  BY <1>1, <1>2

\* With the pc of a consumer that is not taking elements, and its rd, idle.
LEMMA IdleReader ==
  ASSUME NEW off, NEW c \in Consumer, pc'[c] # "take", rd'[c].pc = "idle"
  PROVE  ReaderAt(off, c)'
  BY DEF ReaderAt

\* The steps of a claim before headIndex is advanced do not touch the elements.
LEMMA ClaimMoves ==
  ASSUME BaseInv, BlockInv, BaseTypeOK', UNCHANGED implVars, UNCHANGED <<tailIndex, headIndex>>,
         NEW c \in Consumer, NEW p, NEW l, To(c, p, l), pc[c] # "take", p # "take"
  PROVE  BlockInv'
<1>0. UNCHANGED <<free, slot, dequeued, key, value, header, tailBlock, enq, rd>>
  BY DEF implVars
<1>1. /\ pc'[c] # "take" /\ rd[c].pc = "idle"
      /\ \A d \in Consumer \ {c} : pc'[d] = pc[d] /\ loc'[d] = loc[d]
  BY OthersStay, NotTaking DEF BaseInv
<1>2. ASSUME NEW d \in Consumer
      PROVE  /\ Uncounted(d)' = Uncounted(d) /\ Unmoved(d)' = Unmoved(d)
             /\ \A m : Clearing(d, m)' <=> Clearing(d, m)
             /\ \A b : FreedBy(d, b)' <=> FreedBy(d, b)
  BY <1>0, <1>1 DEF Uncounted, Unmoved, FirstUncounted, FirstUnmoved, RunEnd, Clearing, FreedBy
<1>3. Counted' = Counted
  BY <1>2 DEF Counted
<1>4. Constructed' = Constructed
  BY <1>0 DEF Constructed
<1>5. Present' = Present
  BY <1>2, <1>4 DEF Present
<1>6. OwnerInv'
  BY <1>0, <1>2, OwnerStays
<1>7. \A off : header # <<>> /\ IndexInv(off) => ReaderInv(off)'
  <2> SUFFICES ASSUME NEW off, IndexInv(off), NEW d \in Consumer PROVE ReaderAt(off, d)'
    BY DEF ReaderInv
  <2>1. CASE d = c
    BY <1>0, <1>1, <2>1, IdleReader
  <2>2. CASE d # c
    <3>1. ReaderAt(off, d)
      BY DEF IndexInv, ReaderInv
    <3> QED
      BY <1>0, <1>1, <1>2, <1>3, <2>2, <3>1, OtherReader
  <2> QED
    BY <2>1, <2>2
<1>8. header = <<>> => \A d \in Consumer : pc'[d] # "take" /\ rd'[d].pc = "idle"
  BY <1>0, <1>1 DEF BlockInv
<1>9. free' \subseteq Block /\ rd' \in [Consumer -> Rd]
  BY <1>0 DEF BlockInv, ShapeInv, TypeOK
<1> QED
  BY <1>0, <1>2, <1>3, <1>5, <1>6, <1>7, <1>8, <1>9, ReadStep

\* headIndex.fetch_add: the elements passed are those the consumer now holds.
LEMMA FetchHeadBlocks ==
  ASSUME BaseInv, BlockInv, BaseTypeOK', OnlyPublished', UNCHANGED implVars,
         NEW c \in Consumer, FetchHead(c)
  PROVE  BlockInv'
<1>0. UNCHANGED <<free, slot, dequeued, key, value, header, tailBlock, enq, rd>>
  BY DEF implVars
<1>1. PICK g \in Nat \ {0} : g = loc[c].got
  BY DEF FetchHead, BaseInv, LocalInv, BaseTypeOK, Local
<1>2. PICK h \in Nat : h = headIndex
  BY DEF BaseInv, BaseTypeOK
<1>3. /\ pc[c] = "head" /\ headIndex' = h + g /\ tailIndex' = tailIndex
      /\ To(c, "take", [Zero EXCEPT !.index = h, !.got = g])
  BY <1>1, <1>2 DEF FetchHead
<1>4. /\ pc'[c] = "take" /\ loc'[c].index = h /\ loc'[c].got = g /\ rd[c].pc = "idle"
      /\ \A d \in Consumer \ {c} : pc'[d] = pc[d] /\ loc'[d] = loc[d]
  <2>1. loc'[c] = [Zero EXCEPT !.index = h, !.got = g] /\ pc'[c] = "take"
    BY <1>3, OthersStay DEF BaseInv
  <2>2. \A d \in Consumer \ {c} : pc'[d] = pc[d] /\ loc'[d] = loc[d]
    BY <1>3, OthersStay DEF BaseInv
  <2>3. rd[c].pc = "idle"
    BY <1>3, NotTaking
  <2>4. loc'[c].index = h /\ loc'[c].got = g
    BY <2>1 DEF Zero
  <2> QED
    BY <2>1, <2>2, <2>3, <2>4
<1>5. /\ Uncounted(c) = {} /\ Unmoved(c) = {}
      /\ Uncounted(c)' = h .. h + g - 1 /\ Unmoved(c)' = h .. h + g - 1
  BY <1>0, <1>3, <1>4 DEF Uncounted, Unmoved, FirstUncounted, FirstUnmoved
<1>6. \A d \in Consumer \ {c} : Uncounted(d)' = Uncounted(d) /\ Unmoved(d)' = Unmoved(d)
  BY <1>0, <1>4 DEF Uncounted, Unmoved, FirstUncounted, FirstUnmoved, RunEnd
<1>7. /\ \A d \in Consumer : \A m : Clearing(d, m)' <=> Clearing(d, m)
      /\ \A d \in Consumer : \A b : FreedBy(d, b)' <=> FreedBy(d, b)
  BY <1>0 DEF Clearing, FreedBy
<1>8. Counted' = Counted
  <2>1. ASSUME NEW i \in Counted PROVE i \in Counted'
    <3>1. i \in 0 .. h - 1 /\ \A d \in Consumer : i \notin Uncounted(d)
      BY <1>2 DEF Counted
    <3>2. i \in 0 .. h + g - 1 /\ \A d \in Consumer : i \notin Uncounted(d)'
      BY <1>5, <1>6, <3>1
    <3> QED
      BY <1>3, <3>2 DEF Counted
  <2>2. ASSUME NEW i \in Counted' PROVE i \in Counted
    <3>1. i \in 0 .. h + g - 1 /\ \A d \in Consumer : i \notin Uncounted(d)'
      BY <1>3 DEF Counted
    <3>2. i \in 0 .. h - 1 /\ \A d \in Consumer : i \notin Uncounted(d)
      BY <1>5, <1>6, <3>1
    <3> QED
      BY <1>2, <3>2 DEF Counted
  <2> QED
    BY <2>1, <2>2
<1>9. Constructed' = Constructed
  BY <1>0, <1>3 DEF Constructed
<1>10. Present' = Present
  <2>1. Constructed \in Nat
    BY Counters, EnqFields DEF Constructed, BlockInv, ShapeInv, Step
  <2>2. ASSUME NEW i \in 0 .. Constructed - 1
        PROVE  (i >= h + g \/ \E d \in Consumer : i \in Unmoved(d)')
                 <=> (i >= h \/ \E d \in Consumer : i \in Unmoved(d))
    <3>1. i \in Int
      BY <2>1
    <3>2. (\E d \in Consumer : i \in Unmoved(d)') <=>
            (i \in h .. h + g - 1 \/ \E d \in Consumer \ {c} : i \in Unmoved(d))
      BY <1>5, <1>6
    <3>3. (\E d \in Consumer : i \in Unmoved(d)) <=> \E d \in Consumer \ {c} : i \in Unmoved(d)
      BY <1>5
    <3>4. i >= h <=> i >= h + g \/ i \in h .. h + g - 1
      BY <3>1
    <3> QED
      BY <3>2, <3>3, <3>4
  <2> QED
    BY <1>2, <1>3, <1>9, <2>2 DEF Present
<1>11. OwnerInv'
  BY <1>0, <1>3, <1>7, OwnerStays
<1>12. \A off : header # <<>> /\ IndexInv(off) => ReaderInv(off)'
  <2> SUFFICES ASSUME NEW off, IndexInv(off), NEW d \in Consumer PROVE ReaderAt(off, d)'
    BY DEF ReaderInv
  <2>1. CASE d = c
    BY <1>0, <1>4, <2>1 DEF ReaderAt
  <2>2. CASE d # c
    <3>1. ReaderAt(off, d)
      BY DEF IndexInv, ReaderInv
    <3> QED
      BY <1>0, <1>4, <1>7, <1>8, <2>2, <3>1, OtherReader
  <2> QED
    BY <2>1, <2>2
<1>13. header # <<>>
  <2>1. headIndex' <= tailIndex'
    BY DEF OnlyPublished
  <2>2. header = <<>> => tailIndex = 0
    BY DEF BlockInv, CallInv
  <2> QED
    BY <1>1, <1>2, <1>3, <2>1, <2>2
<1>14. free' \subseteq Block /\ rd' \in [Consumer -> Rd] /\ BaseTypeOK'
  BY <1>0 DEF BlockInv, ShapeInv, TypeOK, BaseInv
<1> QED
  BY <1>0, <1>3, <1>7, <1>8, <1>10, <1>11, <1>12, <1>13, <1>14, ReadStep

\* The fields of where a consumer stands.
LEMMA RdFields ==
  ASSUME ShapeInv, NEW c \in Consumer
  PROVE  /\ rd[c] \in Rd /\ rd \in [Consumer -> Rd]
         /\ rd[c].pc \in {"idle", "tail", "key", "value", "move", "count", "clear", "free",
                          "next"}
         /\ rd[c].pc # "idle" => rd[c].h \in Nat
         /\ rd[c].pc = "key" => rd[c].t \in Nat
         /\ rd[c].pc \in {"value", "move", "count", "clear", "free", "next"} =>
              rd[c].i \in Nat /\ rd[c].pos \in Nat
         /\ rd[c].pc \in {"move", "count", "clear", "free", "next"} =>
              /\ rd[c].block \in Block
              /\ rd[c] \in [pc : {"move", "count", "clear", "free", "next"}, h : Nat, i : Nat,
                            pos : Nat, block : Block]
<1>1. rd[c] \in Rd /\ rd \in [Consumer -> Rd]
  BY DEF ShapeInv
<1>2. CASE rd[c] \in [pc : {"idle"}] \cup [pc : {"tail"}, h : Nat]
                       \cup [pc : {"key"}, h : Nat, t : Nat]
  BY <1>1, <1>2
<1>3. CASE rd[c] \in [pc : {"value"}, h : Nat, i : Nat, pos : Nat]
  BY <1>1, <1>3
<1>4. CASE rd[c] \in [pc : {"move", "count", "clear", "free", "next"}, h : Nat, i : Nat,
                      pos : Nat, block : Block]
  BY <1>1, <1>4
<1> QED
  BY <1>1, <1>2, <1>3, <1>4 DEF Rd

\* A consumer that is looking something up holds elements, and there is an index.
LEMMA Taking ==
  ASSUME BlockInv, NEW c \in Consumer, pc[c] = "take" \/ rd[c].pc # "idle"
  PROVE  pc[c] = "take" /\ header # <<>>
  BY NotTaking DEF BlockInv

\* A step of consumer c in its lookup.
LEMMA LookMoves ==
  ASSUME BaseInv, BlockInv,
         UNCHANGED <<baseVars, slot, dequeued, key, value, header, tailBlock, enq>>,
         free' \subseteq Block, OwnerInv', NEW c \in Consumer, NEW s \in Rd, ReadTo(c, s),
         header # <<>>, Uncounted(c)' = Uncounted(c), Unmoved(c)' = Unmoved(c),
         rd[c].pc # "clear", s.pc # "clear",
         \A off : IndexInv(off) => ReaderAt(off, c)'
  PROVE  BlockInv'
<1>0. UNCHANGED <<tailIndex, headIndex, pc, loc>>
  BY DEF baseVars
<1>1. rd \in [Consumer -> Rd] /\ rd' = [rd EXCEPT ![c] = s]
  BY DEF BlockInv, ShapeInv, ReadTo
<1>2. rd' \in [Consumer -> Rd] /\ rd'[c] = s /\ \A d \in Consumer \ {c} : rd'[d] = rd[d]
  BY <1>1
<1>3. ASSUME NEW d \in Consumer
      PROVE  /\ Uncounted(d)' = Uncounted(d) /\ Unmoved(d)' = Unmoved(d)
             /\ \A m : Clearing(d, m)' <=> Clearing(d, m)
  <2>1. CASE d = c
    BY <1>2, <2>1 DEF Clearing
  <2>2. CASE d # c
    BY <1>0, <1>2, <2>2 DEF Uncounted, Unmoved, FirstUncounted, FirstUnmoved, RunEnd, Clearing
  <2> QED
    BY <2>1, <2>2
<1>4. Counted' = Counted
  BY <1>0, <1>3 DEF Counted
<1>5. Constructed' = Constructed
  BY <1>0 DEF Constructed
<1>6. Present' = Present
  BY <1>0, <1>3, <1>5 DEF Present
<1>7. \A off : header # <<>> /\ IndexInv(off) => ReaderInv(off)'
  <2> SUFFICES ASSUME NEW off, IndexInv(off), NEW d \in Consumer PROVE ReaderAt(off, d)'
    BY DEF ReaderInv
  <2>1. CASE d = c
    BY <2>1
  <2>2. CASE d # c
    <3>1. ReaderAt(off, d)
      BY DEF IndexInv, ReaderInv
    <3> QED
      BY <1>0, <1>2, <1>3, <1>4, <2>2, <3>1, OtherReader
  <2> QED
    BY <2>1, <2>2
<1>8. BaseTypeOK'
  BY <1>0 DEF baseVars, BaseInv, BaseTypeOK
<1> QED
  BY <1>0, <1>2, <1>3, <1>4, <1>6, <1>7, <1>8, ReadStep

\* The blocks stay with their owners while c neither frees one nor is about to.
LEMMA LookOwner ==
  ASSUME BlockInv, UNCHANGED <<baseVars, free, dequeued, value, enq>>, NEW c \in Consumer,
         NEW s \in Rd, ReadTo(c, s), rd[c].pc # "free", s.pc # "free"
  PROVE  OwnerInv' /\ free' \subseteq Block
<1>1. rd \in [Consumer -> Rd] /\ rd' = [rd EXCEPT ![c] = s]
  BY DEF BlockInv, ShapeInv, ReadTo
<1>2. rd'[c] = s /\ \A d \in Consumer \ {c} : rd'[d] = rd[d]
  BY <1>1
<1>3. \A d \in Consumer : \A b : FreedBy(d, b)' <=> FreedBy(d, b)
  BY <1>2 DEF FreedBy
<1>4. OwnerInv'
  BY <1>3, OwnerStays DEF baseVars
<1> QED
  BY <1>4 DEF BlockInv, ShapeInv, TypeOK

\* The consumer loads blockIndex.
LEMMA LoadIndexStep ==
  ASSUME BaseInv, BlockInv, NEW c \in Consumer, LoadIndex(c)
  PROVE  BlockInv'
<1>0. /\ pc[c] = "take" /\ rd[c].pc = "idle" /\ header # <<>>
      /\ UNCHANGED <<baseVars, free, slot, dequeued, key, value, header, tailBlock, enq>>
  BY Taking DEF LoadIndex
<1>1. ShapeInv /\ CallInv
  BY DEF BlockInv
<1>2. PICK h \in Nat \ {0} : h = Len(header)
  BY <1>0, <1>1, CurFacts
<1>3. PICK s \in Rd : s = [pc |-> "tail", h |-> h]
  BY DEF Rd
<1>4. s.pc = "tail" /\ s.h = h /\ ReadTo(c, s)
  BY <1>2, <1>3 DEF LoadIndex
<1>5. rd'[c] = s
  BY <1>1, <1>4 DEF ShapeInv, ReadTo
<1>6. OwnerInv' /\ free' \subseteq Block
  BY <1>0, <1>4, LookOwner
<1>7. Uncounted(c)' = Uncounted(c) /\ Unmoved(c)' = Unmoved(c)
  BY <1>0, <1>4, <1>5 DEF Uncounted, Unmoved, FirstUncounted, FirstUnmoved, baseVars
<1>8. ASSUME NEW off, IndexInv(off) PROVE ReaderAt(off, c)'
  <2>1. IndexStays(off)
    BY <1>0, SameIndex
  <2>2. ReaderAt(off, c)
    BY <1>8 DEF IndexInv, ReaderInv
  <2>3. \A i \in Uncounted(c)' : At(off, h, BlockNo(i))' = CurAt(off, BlockNo(i))'
    BY <1>0, <1>2 DEF CurAt
  <2> QED
    BY <1>0, <1>2, <1>4, <1>5, <2>2, <2>3 DEF ReaderAt, baseVars, BlockNo
<1> QED
  BY <1>0, <1>4, <1>6, <1>7, <1>8, LookMoves

\* As long as a published block has an entry, the entry at the tail has a key.
LEMMA TailKeyed ==
  ASSUME BaseInv, ShapeInv, CallInv, header # <<>>, NEW off, IndexInv(off),
         NEW m \in Int, Linked(m), m < FirstNo
  PROVE  key[Cur.index[Cur.tail]] # INVALID_BLOCK_BASE
<1>1. HeaderInv(off) /\ WindowInv(off) /\ LinkInv(off)
  BY DEF IndexInv
<1>2. PICK W \in Nat : W = AtTail
  BY CallFacts
<1>3. PICK K \in Nat : K = Keyed
  BY CallFacts
<1>4. PICK C \in Nat \ {0} : C = Cur.capacity
  BY CurFacts
<1>5. FirstNo \in Nat /\ FirstNo <= W /\ W <= K
  BY <1>2, <1>3, CallFacts, Counters
<1>6. W - 1 \in Int /\ m <= W - 1 /\ W - 1 < K
  BY <1>5
<1>7. K - C <= m /\ key[CurAt(off, m)] = BLOCK_SIZE * m
  BY <1>1, <1>3, <1>4 DEF LinkInv
<1>8. key[CurAt(off, W - 1)] = BLOCK_SIZE * (W - 1)
  BY <1>1, <1>3, <1>4, <1>6, <1>7 DEF WindowInv
<1>9. Cur.index[Cur.tail] = CurAt(off, W - 1)
  BY <1>1, <1>2, TailEntry
<1> QED
  BY <1>6, <1>8, <1>9, BaseOrder

\* The consumer loads the tail of the index it found.
LEMMA LoadIndexTailStep ==
  ASSUME BaseInv, BlockInv, NEW c \in Consumer, LoadIndexTail(c)
  PROVE  BlockInv'
<1>0. /\ pc[c] = "take" /\ rd[c].pc = "tail" /\ header # <<>>
      /\ UNCHANGED <<baseVars, free, slot, dequeued, key, value, header, tailBlock, enq>>
  BY Taking DEF LoadIndexTail
<1>1. ShapeInv /\ CallInv
  BY DEF BlockInv
<1>2. PICK h \in Nat : h = rd[c].h
  BY <1>0, <1>1, RdFields
<1>3. PICK off \in [1 .. Len(header) -> Int] : IndexInv(off)
  BY <1>0 DEF BlockInv
<1>4. h \in 1 .. Len(header)
  BY <1>0, <1>2, <1>3 DEF IndexInv, ReaderInv, ReaderAt
<1>5. PICK t \in Nat : t = header[h].tail
  <2>1. header[h].tail \in 0 .. header[h].capacity - 1
    BY <1>3, <1>4 DEF IndexInv, HeaderInv
  <2>2. header[h].capacity \in Nat
    BY <1>0, <1>1, <1>4, CurFacts
  <2> QED
    BY <2>1, <2>2
<1>6. PICK s \in Rd : s = [pc |-> "key", h |-> h, t |-> t]
  BY DEF Rd
<1>7. s.pc = "key" /\ s.h = h /\ s.t = t /\ ReadTo(c, s)
  BY <1>2, <1>5, <1>6 DEF LoadIndexTail
<1>8. rd'[c] = s
  BY <1>1, <1>7 DEF ShapeInv, ReadTo
<1>9. OwnerInv' /\ free' \subseteq Block
  BY <1>0, <1>7, LookOwner
<1>10. Uncounted(c)' = Uncounted(c) /\ Unmoved(c)' = Unmoved(c)
  BY <1>0, <1>7, <1>8 DEF Uncounted, Unmoved, FirstUncounted, FirstUnmoved, baseVars
<1>11. ASSUME NEW o, IndexInv(o) PROVE ReaderAt(o, c)'
  <2>1. IndexStays(o)
    BY <1>0, SameIndex
  <2>2. ReaderAt(o, c) /\ HeaderInv(o) /\ ReaderInv(o)
    BY <1>11 DEF IndexInv, ReaderInv
  <2>3. \A i \in Uncounted(c) : At(o, h, BlockNo(i)) = CurAt(o, BlockNo(i))
    BY <1>0, <1>2, <2>2 DEF ReaderAt
  <2>4. \A i \in Uncounted(c)' : At(o, h, BlockNo(i))' = CurAt(o, BlockNo(i))'
    BY <1>10, <2>1, <2>3 DEF IndexStays, BlockNo
  <2>5. t \in 0 .. header[h].capacity - 1
    BY <1>4, <1>5, <2>2 DEF HeaderInv
  <2>6. key[header[h].index[t]] # INVALID_BLOCK_BASE
    <3>1. CASE h \in 1 .. Len(header) - 1
      BY <1>5, <2>2, <3>1 DEF HeaderInv
    <3>2. CASE h = Len(header)
      <4>1. loc[c].index \in Nat /\ loc[c].got \in Nat \ {0}
        BY <1>0, <1>1, <2>2, HeldElems
      <4>2. loc[c].index \in Uncounted(c)
        BY <1>0, <4>1 DEF Uncounted, FirstUncounted
      <4>3. loc[c].index \in 0 .. tailIndex - 1
        BY <1>1, <2>2, <4>2, HeldInUse
      <4>4. PICK m \in Int : m = BlockNo(loc[c].index)
        BY <4>1, NoBase
      <4>5. Linked(m) /\ m < FirstNo
        BY <1>1, <2>2, <4>2, <4>3, <4>4, HeldLinked, TailElems
      <4>6. key[Cur.index[Cur.tail]] # INVALID_BLOCK_BASE
        BY <1>0, <1>1, <1>11, <4>5, TailKeyed
      <4> QED
        BY <1>0, <1>1, <1>5, <3>2, <4>6, CurFacts
    <3> QED
      BY <1>0, <1>1, <1>4, <3>1, <3>2, CurFacts
  <2> QED
    BY <1>0, <1>4, <1>7, <1>8, <2>2, <2>4, <2>5, <2>6 DEF ReaderAt, baseVars, BlockNo
<1> QED
  BY <1>0, <1>7, <1>9, <1>10, <1>11, LookMoves

\* The consumer reads the key at the tail and counts back to its own entry.
LEMMA LoadKeyStep ==
  ASSUME BaseInv, BlockInv, NEW c \in Consumer, LoadKey(c)
  PROVE  BlockInv'
<1>0. /\ pc[c] = "take" /\ rd[c].pc = "key" /\ header # <<>>
      /\ UNCHANGED <<baseVars, free, slot, dequeued, key, value, header, tailBlock, enq>>
  BY Taking DEF LoadKey
<1>1. ShapeInv /\ CallInv
  BY DEF BlockInv
<1>2. PICK h \in Nat : h = rd[c].h
  BY <1>0, <1>1, RdFields
<1>3. PICK off \in [1 .. Len(header) -> Int] : IndexInv(off)
  BY <1>0 DEF BlockInv
<1>4. PICK i \in Nat : i = loc[c].index
  BY <1>0, <1>1, <1>3, HeldElems DEF IndexInv
<1>5. PICK p : p = PositionFor(header[h], rd[c].t, i)
  OBVIOUS
<1>6. ASSUME NEW o, IndexInv(o)
      PROVE  h \in 1 .. Len(header) /\ p = Pos(o, h, BlockNo(i)) /\ p \in Nat
  <2>1. HeaderInv(o) /\ WindowInv(o) /\ ReaderAt(o, c)
    BY <1>6 DEF IndexInv, ReaderInv
  <2>2. /\ h \in 1 .. Len(header) /\ rd[c].t \in 0 .. header[h].capacity - 1
        /\ key[header[h].index[rd[c].t]] # INVALID_BLOCK_BASE
    BY <1>0, <1>2, <2>1 DEF ReaderAt
  <2>3. Keyed \in Int
    BY <1>1, CallFacts
  <2>4. p = Pos(o, h, BlockNo(i))
    BY <1>0, <1>1, <1>5, <2>1, <2>2, <2>3, LookupFinds
  <2>5. BlockNo(i) \in Int
    BY NoBase
  <2>6. Pos(o, h, BlockNo(i)) \in 0 .. header[h].capacity - 1
    BY <1>0, <1>1, <2>1, <2>2, <2>5, AtType
  <2>7. header[h].capacity \in Nat
    BY <1>0, <1>1, <2>2, CurFacts
  <2> QED
    BY <2>2, <2>4, <2>6, <2>7
<1>7. p \in Nat
  BY <1>3, <1>6
<1>8. PICK s \in Rd : s = [pc |-> "value", h |-> h, i |-> i, pos |-> p]
  BY <1>7 DEF Rd
<1>9. s.pc = "value" /\ s.h = h /\ s.i = i /\ s.pos = p /\ ReadTo(c, s)
  BY <1>2, <1>4, <1>5, <1>8 DEF LoadKey
<1>10. rd'[c] = s
  BY <1>1, <1>9 DEF ShapeInv, ReadTo
<1>11. OwnerInv' /\ free' \subseteq Block
  BY <1>0, <1>9, LookOwner
<1>12. Uncounted(c)' = Uncounted(c) /\ Unmoved(c)' = Unmoved(c)
  BY <1>0, <1>4, <1>9, <1>10 DEF Uncounted, Unmoved, FirstUncounted, FirstUnmoved, baseVars
<1>13. ASSUME NEW o, IndexInv(o) PROVE ReaderAt(o, c)'
  <2>1. IndexStays(o)
    BY <1>0, SameIndex
  <2>2. ReaderAt(o, c) /\ ReaderInv(o)
    BY <1>13 DEF IndexInv, ReaderInv
  <2>3. \A x \in Uncounted(c) : At(o, h, BlockNo(x)) = CurAt(o, BlockNo(x))
    BY <1>0, <1>2, <2>2 DEF ReaderAt
  <2>4. \A x \in Uncounted(c)' : At(o, h, BlockNo(x))' = CurAt(o, BlockNo(x))'
    BY <1>12, <2>1, <2>3 DEF IndexStays, BlockNo
  <2>5. i \in Mine(c)'
    <3>1. loc[c].got \in Nat \ {0}
      BY <1>0, <1>1, <2>2, HeldElems
    <3> QED
      BY <1>0, <1>4, <3>1 DEF Mine, baseVars
  <2>6. h \in 1 .. Len(header) /\ p = Pos(o, h, BlockNo(i))'
    BY <1>6, <1>13, <2>1 DEF IndexStays, BlockNo
  <2> QED
    BY <1>0, <1>9, <1>10, <2>2, <2>4, <2>5, <2>6 DEF ReaderAt, baseVars, BlockNo
<1> QED
  BY <1>0, <1>9, <1>11, <1>12, <1>13, LookMoves

\* The entry a consumer has found is that of its element, and leads to its block.
LEMMA EntryFound ==
  ASSUME BaseInv, ShapeInv, CallInv, header # <<>>, NEW off, IndexInv(off),
         NEW c \in Consumer, rd[c].pc \in {"value", "move", "count", "clear"}
  PROVE  /\ EntryOf(c) = CurAt(off, BlockNo(rd[c].i)) /\ EntryOf(c) \in Entry
         /\ key[EntryOf(c)] = BLOCK_SIZE * BlockNo(rd[c].i) /\ value[EntryOf(c)] \in Block
<1>1. HeaderInv(off) /\ LinkInv(off) /\ ReaderInv(off) /\ ReaderAt(off, c)
  BY DEF IndexInv, ReaderInv
<1>2. /\ rd[c].i \in Nat /\ BlockNo(rd[c].i) \in Nat /\ Linked(BlockNo(rd[c].i))
      /\ rd[c].pc # "clear" => rd[c].i \in Uncounted(c)
  BY <1>1, ReaderLinked
<1>3. PICK m \in Int : m = BlockNo(rd[c].i)
  BY <1>2
<1>4. rd[c].pos = Pos(off, rd[c].h, m)
  BY <1>1, <1>3 DEF ReaderAt
<1>5. At(off, rd[c].h, m) = CurAt(off, m)
  BY <1>1, <1>2, <1>3 DEF ReaderAt
<1>6. EntryOf(c) = CurAt(off, m)
  BY <1>4, <1>5 DEF EntryOf, At
<1>7. CurAt(off, m) \in Entry
  BY <1>1, CurType
<1>8. key[CurAt(off, m)] = BLOCK_SIZE * m /\ value[CurAt(off, m)] \in Block
  BY <1>1, <1>2, <1>3 DEF LinkInv
<1> QED
  BY <1>3, <1>6, <1>7, <1>8

\* The consumer loads the block from the entry.
LEMMA LoadValueStep ==
  ASSUME BaseInv, BlockInv, NEW c \in Consumer, LoadValue(c)
  PROVE  BlockInv'
<1>0. /\ pc[c] = "take" /\ rd[c].pc = "value" /\ header # <<>>
      /\ UNCHANGED <<baseVars, free, slot, dequeued, key, value, header, tailBlock, enq>>
  BY Taking DEF LoadValue
<1>1. ShapeInv /\ CallInv
  BY DEF BlockInv
<1>2. PICK h \in Nat, i \in Nat, p \in Nat : h = rd[c].h /\ i = rd[c].i /\ p = rd[c].pos
  <2>1. rd[c].h \in Nat /\ rd[c].i \in Nat /\ rd[c].pos \in Nat
    BY <1>0, <1>1, RdFields
  <2> QED
    BY <2>1
<1>3. PICK off \in [1 .. Len(header) -> Int] : IndexInv(off)
  BY <1>0 DEF BlockInv
<1>4. PICK b \in Block : b = value[EntryOf(c)]
  BY <1>0, <1>1, <1>3, EntryFound
<1>5. PICK s \in Rd : s = [pc |-> "move", h |-> h, i |-> i, pos |-> p, block |-> b]
  BY DEF Rd
<1>6. s.pc = "move" /\ s.h = h /\ s.i = i /\ s.pos = p /\ s.block = b /\ ReadTo(c, s)
  BY <1>2, <1>4, <1>5 DEF LoadValue
<1>7. rd'[c] = s
  BY <1>1, <1>6 DEF ShapeInv, ReadTo
<1>8. OwnerInv' /\ free' \subseteq Block
  BY <1>0, <1>6, LookOwner
<1>9. Uncounted(c)' = Uncounted(c) /\ Unmoved(c)' = Unmoved(c)
  BY <1>0, <1>2, <1>6, <1>7 DEF Uncounted, Unmoved, FirstUncounted, FirstUnmoved, baseVars
<1>10. ASSUME NEW o, IndexInv(o) PROVE ReaderAt(o, c)'
  <2>1. IndexStays(o)
    BY <1>0, SameIndex
  <2>2. ReaderAt(o, c)
    BY <1>10 DEF IndexInv, ReaderInv
  <2>3. \A x \in Uncounted(c)' : At(o, h, BlockNo(x))' = CurAt(o, BlockNo(x))'
    BY <1>0, <1>2, <1>9, <2>1, <2>2 DEF IndexStays, BlockNo, ReaderAt
  <2>4. i \in Mine(c)' /\ h \in 1 .. Len(header)
    BY <1>0, <1>2, <2>2 DEF Mine, baseVars, ReaderAt
  <2>5. p = Pos(o, h, BlockNo(i))'
    BY <1>0, <1>2, <2>1, <2>2 DEF IndexStays, BlockNo, ReaderAt
  <2>6. b = value'[CurAt(o, BlockNo(i))']
    <3>1. b = value[CurAt(o, BlockNo(i))]
      BY <1>0, <1>1, <1>2, <1>4, <1>10, EntryFound
    <3> QED
      BY <1>0, <2>1, <3>1 DEF IndexStays, BlockNo
  <2> QED
    BY <1>0, <1>6, <1>7, <2>2, <2>3, <2>4, <2>5, <2>6 DEF ReaderAt, baseVars, BlockNo
<1> QED
  BY <1>0, <1>6, <1>8, <1>9, <1>10, LookMoves

\* The block goes back to the pool, which owns it from then on.
LEMMA FreeBlockStep ==
  ASSUME BaseInv, BlockInv, NEW c \in Consumer, FreeBlock(c)
  PROVE  BlockInv'
<1>0. /\ pc[c] = "take" /\ rd[c].pc = "free" /\ header # <<>>
      /\ free' = free \cup {rd[c].block}
      /\ UNCHANGED <<baseVars, slot, dequeued, key, value, header, tailBlock, enq>>
  BY Taking DEF FreeBlock
<1>1. ShapeInv /\ CallInv /\ OwnerInv
  BY DEF BlockInv
<1>2. PICK h \in Nat, i \in Nat, p \in Nat, b \in Block :
        h = rd[c].h /\ i = rd[c].i /\ p = rd[c].pos /\ b = rd[c].block
  <2>1. rd[c].h \in Nat /\ rd[c].i \in Nat /\ rd[c].pos \in Nat /\ rd[c].block \in Block
    BY <1>0, <1>1, RdFields
  <2> QED
    BY <2>1
<1>3. PICK s \in Rd : s = [rd[c] EXCEPT !.pc = "next"]
  <2>1. rd[c] \in [pc : {"move", "count", "clear", "free", "next"}, h : Nat, i : Nat,
                   pos : Nat, block : Block]
    BY <1>0, <1>1, RdFields
  <2>2. [rd[c] EXCEPT !.pc = "next"] \in
          [pc : {"move", "count", "clear", "free", "next"}, h : Nat, i : Nat,
           pos : Nat, block : Block]
    BY <2>1
  <2> QED
    BY <2>2 DEF Rd
<1>4. s.pc = "next" /\ s.h = h /\ s.i = i /\ s.pos = p /\ s.block = b /\ ReadTo(c, s)
  <2>1. rd[c] \in [pc : {"move", "count", "clear", "free", "next"}, h : Nat, i : Nat,
                   pos : Nat, block : Block]
    BY <1>0, <1>1, RdFields
  <2> QED
    BY <1>2, <1>3, <2>1 DEF FreeBlock
<1>5. rd'[c] = s /\ \A d \in Consumer \ {c} : rd'[d] = rd[d]
  BY <1>1, <1>4 DEF ShapeInv, ReadTo
<1>6. free' = free \cup {b} /\ free' \subseteq Block
  BY <1>0, <1>1, <1>2 DEF ShapeInv, TypeOK
<1>7. \A x : InHand(x)' <=> InHand(x)
  BY <1>0 DEF InHand, CallNo, FirstNo, BlockNo, baseVars
<1>8. /\ FreedBy(c, b) /\ \A x \in Block : FreedBy(c, x) => x = b
      /\ \A x \in Block : ~FreedBy(c, x)'
      /\ \A d \in Consumer \ {c} : \A x : FreedBy(d, x)' <=> FreedBy(d, x)
  BY <1>0, <1>2, <1>4, <1>5 DEF FreedBy
<1>9. /\ b \notin free /\ ~InHand(b) /\ \A e \in Entry : value[e] # b
      /\ \A d \in Consumer \ {c} : ~FreedBy(d, b)
  BY <1>1, <1>8 DEF OwnerInv
<1>10. OwnerInv'
  <2>1. \A e \in Entry : value'[e] \notin free'
    BY <1>0, <1>1, <1>6, <1>9 DEF OwnerInv
  <2>2. \A x \in Block : InHand(x)' => x \notin free' /\ \A e \in Entry : value'[e] # x
    BY <1>0, <1>1, <1>6, <1>7, <1>9 DEF OwnerInv
  <2>3. \A d \in Consumer : \A x \in Block : FreedBy(d, x)' =>
          /\ x \notin free' /\ ~InHand(x)' /\ \A e \in Entry : value'[e] # x
          /\ \A d2 \in Consumer \ {d} : ~FreedBy(d2, x)'
    <3> SUFFICES ASSUME NEW d \in Consumer, NEW x \in Block, FreedBy(d, x)'
                 PROVE  /\ x \notin free' /\ ~InHand(x)' /\ \A e \in Entry : value'[e] # x
                        /\ \A d2 \in Consumer \ {d} : ~FreedBy(d2, x)'
      OBVIOUS
    <3>1. d # c /\ FreedBy(d, x) /\ x # b
      BY <1>8, <1>9
    <3>2. /\ x \notin free /\ ~InHand(x) /\ \A e \in Entry : value[e] # x
          /\ \A d2 \in Consumer \ {d} : ~FreedBy(d2, x)
      BY <1>1, <3>1 DEF OwnerInv
    <3> QED
      BY <1>0, <1>6, <1>7, <1>8, <3>1, <3>2
  <2>4. \A x \in Block : \/ x \in free' \/ InHand(x)' \/ \E d \in Consumer : FreedBy(d, x)'
                         \/ \E e \in Entry : value'[e] = x
    <3> SUFFICES ASSUME NEW x \in Block
                 PROVE  \/ x \in free' \/ InHand(x)' \/ \E d \in Consumer : FreedBy(d, x)'
                        \/ \E e \in Entry : value'[e] = x
      OBVIOUS
    <3>1. \/ x \in free \/ InHand(x) \/ \E d \in Consumer : FreedBy(d, x)
          \/ \E e \in Entry : value[e] = x
      BY <1>1 DEF OwnerInv
    <3> QED
      BY <1>0, <1>6, <1>7, <1>8, <3>1
  <2> QED
    BY <1>0, <1>1, <1>7, <2>1, <2>2, <2>3, <2>4 DEF OwnerInv
<1>11. Uncounted(c)' = Uncounted(c) /\ Unmoved(c)' = Unmoved(c)
  <2>1. RunEnd(c)' = RunEnd(c)
    BY <1>0, <1>2, <1>4, <1>5 DEF RunEnd, baseVars
  <2> QED
    BY <1>0, <1>4, <1>5, <2>1 DEF Uncounted, Unmoved, FirstUncounted, FirstUnmoved, baseVars
<1>12. ASSUME NEW o, IndexInv(o) PROVE ReaderAt(o, c)'
  <2>1. IndexStays(o)
    BY <1>0, SameIndex
  <2>2. ReaderAt(o, c)
    BY <1>12 DEF IndexInv, ReaderInv
  <2>3. \A x \in Uncounted(c)' : At(o, h, BlockNo(x))' = CurAt(o, BlockNo(x))'
    BY <1>0, <1>2, <1>11, <2>1, <2>2 DEF IndexStays, BlockNo, ReaderAt
  <2>4. i \in Mine(c)' /\ h \in 1 .. Len(header)
    BY <1>0, <1>2, <2>2 DEF Mine, baseVars, ReaderAt
  <2>5. p = Pos(o, h, BlockNo(i))'
    BY <1>0, <1>2, <2>1, <2>2 DEF IndexStays, BlockNo, ReaderAt
  <2> QED
    BY <1>0, <1>4, <1>5, <2>2, <2>3, <2>4, <2>5 DEF ReaderAt, baseVars, BlockNo
<1> QED
  BY <1>0, <1>4, <1>6, <1>10, <1>11, <1>12, LookMoves

\* The elements of the run a consumer has just dealt with.
LEMMA RunLength ==
  ASSUME BaseInv, ShapeInv, NEW off, ReaderInv(off), NEW c \in Consumer,
         rd[c].pc \in {"value", "move", "count", "clear", "free", "next"}
  PROVE  /\ Cardinality(Run(c)) = RunEnd(c) - rd[c].i
         /\ rd[c].i + Cardinality(Run(c)) = RunEnd(c)
<1>1. pc[c] = "take"
  BY DEF ReaderInv, ReaderAt
<1>2. PICK i \in Nat : i = rd[c].i
  BY <1>1, HeldElems
<1>3. PICK e \in Nat : e = RunEnd(c)
  BY <1>1, HeldElems
<1>4. i < e /\ Run(c) = i .. e - 1
  BY <1>1, <1>2, <1>3, HeldElems
<1>5. Cardinality(i .. e - 1) = IF i > e - 1 THEN 0 ELSE (e - 1) - i + 1
  BY FS_Interval
<1> QED
  BY <1>2, <1>3, <1>4, <1>5

\* On to the entry after this one, which is that of the next block.
LEMMA NextEntryStep ==
  ASSUME BaseInv, BlockInv, NEW c \in Consumer, NextRun(c),
         rd[c].i + Cardinality(Run(c)) < loc[c].index + loc[c].got
  PROVE  BlockInv'
<1>0. /\ pc[c] = "take" /\ rd[c].pc = "next" /\ header # <<>>
      /\ UNCHANGED <<baseVars, free, slot, dequeued, key, value, header, tailBlock, enq>>
  BY Taking DEF NextRun
<1>1. ShapeInv /\ CallInv
  BY DEF BlockInv
<1>2. PICK h \in Nat, i \in Nat, p \in Nat : h = rd[c].h /\ i = rd[c].i /\ p = rd[c].pos
  <2>1. rd[c].h \in Nat /\ rd[c].i \in Nat /\ rd[c].pos \in Nat
    BY <1>0, <1>1, RdFields
  <2> QED
    BY <2>1
<1>3. PICK off \in [1 .. Len(header) -> Int] : IndexInv(off)
  BY <1>0 DEF BlockInv
<1>4. ReaderInv(off) /\ HeaderInv(off) /\ ReaderAt(off, c)
  BY <1>3 DEF IndexInv, ReaderInv
<1>5. PICK e \in Nat : e = RunEnd(c)
  BY <1>0, <1>1, <1>4, HeldElems
<1>6. PICK a \in Nat, g \in Nat : a = loc[c].index /\ g = loc[c].got
  BY <1>0, <1>1, <1>4, HeldElems
<1>7. /\ rd[c].i + Cardinality(Run(c)) = e /\ e < a + g /\ i < e /\ a <= i
      /\ e = BLOCK_SIZE * BlockNo(i) + BLOCK_SIZE
  <2>1. rd[c].i + Cardinality(Run(c)) = e
    BY <1>0, <1>1, <1>4, <1>5, RunLength
  <2>2. e < a + g
    BY <1>6, <2>1
  <2>3. i < e /\ i \in Mine(c) /\ e = BLOCK_SIZE * BlockNo(i) + BLOCK_SIZE
    BY <1>0, <1>1, <1>2, <1>4, <1>5, <1>6, <2>2, HeldElems
  <2> QED
    BY <1>6, <2>1, <2>2, <2>3 DEF Mine
<1>8. BlockNo(i) \in Nat /\ BlockNo(e) = BlockNo(i) + 1
  <2>1. PICK m \in Nat : m = BlockNo(i)
    BY NoBase
  <2>2. e = BLOCK_SIZE * (m + 1)
    BY <1>7, <2>1, ImplicitAssumption
  <2>3. m + 1 \in Int
    BY <2>1
  <2> QED
    BY <2>1, <2>2, <2>3, NoOfBase
<1>9. h \in 1 .. Len(header) /\ header[h].capacity \in Nat \ {0}
  <2>1. h \in 1 .. Len(header)
    BY <1>0, <1>2, <1>4 DEF ReaderAt
  <2> QED
    BY <1>0, <1>1, <2>1, CurFacts
<1>10. PICK q \in Nat : q = (p + 1) % header[h].capacity
  BY <1>9
<1>11. PICK s \in Rd : s = [pc |-> "value", h |-> h, i |-> e, pos |-> q]
  BY DEF Rd
<1>12. s.pc = "value" /\ s.h = h /\ s.i = e /\ s.pos = q /\ ReadTo(c, s)
  BY <1>2, <1>7, <1>10, <1>11 DEF NextRun
<1>13. rd'[c] = s
  BY <1>1, <1>12 DEF ShapeInv, ReadTo
<1>14. OwnerInv' /\ free' \subseteq Block
  BY <1>0, <1>12, LookOwner
<1>15. Uncounted(c)' = Uncounted(c) /\ Unmoved(c)' = Unmoved(c)
  BY <1>0, <1>5, <1>12, <1>13 DEF Uncounted, Unmoved, FirstUncounted, FirstUnmoved, baseVars
<1>16. ASSUME NEW o, IndexInv(o) PROVE ReaderAt(o, c)'
  <2>1. IndexStays(o)
    BY <1>0, SameIndex
  <2>2. ReaderAt(o, c) /\ HeaderInv(o)
    BY <1>16 DEF IndexInv, ReaderInv
  <2>3. \A x \in Uncounted(c)' : At(o, h, BlockNo(x))' = CurAt(o, BlockNo(x))'
    BY <1>0, <1>2, <1>15, <2>1, <2>2 DEF IndexStays, BlockNo, ReaderAt
  <2>4. e \in Mine(c)'
    BY <1>0, <1>6, <1>7 DEF Mine, baseVars
  <2>5. p = Pos(o, h, BlockNo(i))
    BY <1>0, <1>2, <2>2 DEF ReaderAt
  <2>6. q = Pos(o, h, BlockNo(i) + 1)
    <3>1. BlockNo(i) \in Int /\ 1 \in Int
      BY <1>8
    <3>2. (Pos(o, h, BlockNo(i)) + 1) % header[h].capacity = Pos(o, h, BlockNo(i) + 1)
      BY <1>0, <1>1, <1>9, <2>2, <3>1, NextPos
    <3> QED
      BY <1>10, <2>5, <3>2
  <2>7. q = Pos(o, h, BlockNo(e))'
    BY <1>8, <2>1, <2>6 DEF IndexStays, BlockNo
  <2> QED
    BY <1>0, <1>9, <1>12, <1>13, <2>2, <2>3, <2>4, <2>7 DEF ReaderAt, baseVars, BlockNo
<1> QED
  BY <1>0, <1>12, <1>14, <1>15, <1>16, LookMoves

\* The whole claim is dealt with, and the call returns.
LEMMA LastRunStep ==
  ASSUME BaseInv, BlockInv, BaseTypeOK', NEW c \in Consumer, NextRun(c),
         ~(rd[c].i + Cardinality(Run(c)) < loc[c].index + loc[c].got)
  PROVE  BlockInv'
<1>0. /\ pc[c] = "take" /\ rd[c].pc = "next" /\ header # <<>> /\ Taken(c) /\ ReadTo(c, Idle)
      /\ UNCHANGED <<free, slot, dequeued, key, value, header, tailBlock, enq>>
  BY Taking DEF NextRun
<1>1. ShapeInv /\ CallInv
  BY DEF BlockInv
<1>2. UNCHANGED <<tailIndex, headIndex>> /\ To(c, "idle", Zero)
  BY <1>0 DEF Taken
<1>3. pc'[c] = "idle" /\ \A d \in Consumer \ {c} : pc'[d] = pc[d] /\ loc'[d] = loc[d]
  BY <1>2, OthersStay DEF BaseInv
<1>4. /\ rd' \in [Consumer -> Rd] /\ rd'[c].pc = "idle"
      /\ \A d \in Consumer \ {c} : rd'[d] = rd[d]
  <2>1. Idle \in Rd /\ Idle.pc = "idle"
    BY DEF Idle, Rd
  <2> QED
    BY <1>0, <1>1, <2>1 DEF ShapeInv, ReadTo
<1>5. PICK off \in [1 .. Len(header) -> Int] : IndexInv(off)
  BY <1>0 DEF BlockInv
<1>6. ReaderInv(off)
  BY <1>5 DEF IndexInv
<1>7. Uncounted(c) = {} /\ Unmoved(c) = {}
  <2>1. PICK e \in Nat : e = RunEnd(c)
    BY <1>0, <1>1, <1>6, HeldElems
  <2>2. PICK a \in Nat, g \in Nat : a = loc[c].index /\ g = loc[c].got
    BY <1>0, <1>1, <1>6, HeldElems
  <2>3. ~(e < a + g)
    BY <1>0, <1>1, <1>6, <2>1, <2>2, RunLength
  <2>4. Uncounted(c) = e .. a + g - 1 /\ Unmoved(c) = e .. a + g - 1
    BY <1>0, <2>1, <2>2 DEF Uncounted, Unmoved, FirstUncounted, FirstUnmoved
  <2> QED
    BY <2>3, <2>4
<1>8. Uncounted(c)' = {} /\ Unmoved(c)' = {}
  BY <1>3 DEF Uncounted, Unmoved
<1>9. ASSUME NEW d \in Consumer
      PROVE  /\ Uncounted(d)' = Uncounted(d) /\ Unmoved(d)' = Unmoved(d)
             /\ \A m : Clearing(d, m)' <=> Clearing(d, m)
             /\ \A b : FreedBy(d, b)' <=> FreedBy(d, b)
  <2>1. CASE d = c
    BY <1>0, <1>4, <1>7, <1>8, <2>1 DEF Clearing, FreedBy
  <2>2. CASE d # c
    BY <1>3, <1>4, <2>2
    DEF Uncounted, Unmoved, FirstUncounted, FirstUnmoved, RunEnd, Clearing, FreedBy
  <2> QED
    BY <2>1, <2>2
<1>10. Counted' = Counted
  BY <1>2, <1>9 DEF Counted
<1>11. Constructed' = Constructed
  BY <1>0, <1>2 DEF Constructed
<1>12. Present' = Present
  BY <1>2, <1>9, <1>11 DEF Present
<1>13. OwnerInv'
  BY <1>0, <1>2, <1>9, OwnerStays
<1>14. \A o : header # <<>> /\ IndexInv(o) => ReaderInv(o)'
  <2> SUFFICES ASSUME NEW o, IndexInv(o), NEW d \in Consumer PROVE ReaderAt(o, d)'
    BY DEF ReaderInv
  <2>1. CASE d = c
    BY <1>3, <1>4, <2>1, IdleReader
  <2>2. CASE d # c
    <3>1. ReaderAt(o, d)
      BY DEF IndexInv, ReaderInv
    <3> QED
      BY <1>0, <1>3, <1>4, <1>9, <1>10, <2>2, <3>1, OtherReader
  <2> QED
    BY <2>1, <2>2
<1>15. free' \subseteq Block
  BY <1>0, <1>1 DEF ShapeInv, TypeOK
<1> QED
  BY <1>0, <1>2, <1>4, <1>9, <1>10, <1>12, <1>13, <1>14, <1>15, ReadStep

\* A run lies in one block, and none of its elements is counted or another's.
LEMMA RunBlock ==
  ASSUME BaseInv, ShapeInv, CallInv, NEW off, ReaderInv(off), NEW c \in Consumer,
         rd[c].pc \in {"value", "move", "count"}, NEW j \in Run(c)
  PROVE  /\ j \in Nat /\ BlockNo(j) = BlockNo(rd[c].i) /\ j \in Elems(BlockNo(rd[c].i))
         /\ j \in Uncounted(c) /\ j < headIndex /\ j \notin Counted
         /\ \A d \in Consumer \ {c} : j \notin Uncounted(d)
<1>1. pc[c] = "take"
  BY DEF ReaderInv, ReaderAt
<1>2. PICK i \in Nat, e \in Nat, a \in Nat, g \in Nat :
        i = rd[c].i /\ e = RunEnd(c) /\ a = loc[c].index /\ g = loc[c].got
  BY <1>1, HeldElems
<1>3. PICK m \in Nat : m = BlockNo(i)
  BY NoBase
<1>4. e <= a + g /\ e <= BLOCK_SIZE * m + BLOCK_SIZE /\ Run(c) = i .. e - 1
  BY <1>1, <1>2, <1>3, HeldElems
<1>5. j \in Nat /\ i <= j /\ j < e
  BY <1>2, <1>4
<1>6. BLOCK_SIZE * m <= i /\ BLOCK_SIZE * m \in Nat /\ BLOCK_SIZE \in Nat
  BY <1>3, NoBase, ImplicitAssumption
<1>7. j \in Elems(m)
  BY <1>4, <1>5, <1>6 DEF Elems
<1>8. BlockNo(j) = m
  BY <1>3, <1>5, <1>7, NoElems
<1>9. Uncounted(c) = i .. a + g - 1
  BY <1>1, <1>2 DEF Uncounted, FirstUncounted
<1>10. j \in Uncounted(c)
  BY <1>4, <1>5, <1>9
<1> QED
  BY <1>2, <1>3, <1>5, <1>7, <1>8, <1>10, HeldInUse

\* What a step of c's leaves of the other consumers' elements.
LEMMA OthersElems ==
  ASSUME UNCHANGED <<baseVars>>, NEW c \in Consumer, NEW s \in Rd, ReadTo(c, s),
         rd \in [Consumer -> Rd]
  PROVE  /\ rd' \in [Consumer -> Rd] /\ rd'[c] = s
         /\ \A d \in Consumer \ {c} :
              /\ rd'[d] = rd[d] /\ pc'[d] = pc[d] /\ loc'[d] = loc[d]
              /\ Uncounted(d)' = Uncounted(d) /\ Unmoved(d)' = Unmoved(d)
              /\ Mine(d)' = Mine(d)
              /\ \A m : Clearing(d, m)' <=> Clearing(d, m)
              /\ \A b : FreedBy(d, b)' <=> FreedBy(d, b)
<1>1. rd' = [rd EXCEPT ![c] = s]
  BY DEF ReadTo
<1>2. rd' \in [Consumer -> Rd] /\ rd'[c] = s
  BY <1>1
<1>3. UNCHANGED <<pc, loc>>
  BY DEF baseVars
<1>4. ASSUME NEW d \in Consumer \ {c} PROVE rd'[d] = rd[d]
  BY <1>1
<1> QED
  BY <1>2, <1>3, <1>4
  DEF Uncounted, Unmoved, FirstUncounted, FirstUnmoved, RunEnd, Mine, Clearing, FreedBy

\* What depends on neither rd nor the contents of blocks stays.
LEMMA CallStays ==
  ASSUME UNCHANGED <<baseVars, enq, header>>, NEW off
  PROVE  /\ FirstNo' = FirstNo /\ FirstNew' = FirstNew /\ CallNo' = CallNo /\ Keyed' = Keyed
         /\ AtTail' = AtTail /\ Constructed' = Constructed /\ IndexStays(off)
         /\ \A m : InCall(m)' <=> InCall(m)
         /\ \A b : InHand(b)' <=> InHand(b)
<1>1. UNCHANGED <<tailIndex, headIndex>>
  BY DEF baseVars
<1>2. /\ FirstNo' = FirstNo /\ FirstNew' = FirstNew /\ CallNo' = CallNo /\ Keyed' = Keyed
      /\ AtTail' = AtTail /\ Constructed' = Constructed /\ IndexStays(off)
  BY <1>1, SameIndex DEF FirstNo, FirstNew, CallNo, Keyed, AtTail, Constructed
<1> QED
  BY <1>2 DEF InCall, InHand

\* Moving on within the block: the fields stay.
LEMMA RdMoves ==
  ASSUME ShapeInv, NEW c \in Consumer, rd[c].pc \in {"move", "count", "clear", "free"},
         NEW p \in {"count", "clear", "free", "next"}
  PROVE  /\ [rd[c] EXCEPT !.pc = p] \in Rd /\ [rd[c] EXCEPT !.pc = p].pc = p
         /\ [rd[c] EXCEPT !.pc = p].h = rd[c].h /\ [rd[c] EXCEPT !.pc = p].i = rd[c].i
         /\ [rd[c] EXCEPT !.pc = p].pos = rd[c].pos
         /\ [rd[c] EXCEPT !.pc = p].block = rd[c].block
<1>1. rd[c] \in [pc : {"move", "count", "clear", "free", "next"}, h : Nat, i : Nat,
                 pos : Nat, block : Block]
  BY RdFields
<1>2. [rd[c] EXCEPT !.pc = p] \in
        [pc : {"move", "count", "clear", "free", "next"}, h : Nat, i : Nat,
         pos : Nat, block : Block]
  BY <1>1
<1> QED
  BY <1>1, <1>2 DEF Rd

\* The consumer moves the elements of its run out of the block.
LEMMA MoveStep ==
  ASSUME BaseInv, BlockInv, NEW c \in Consumer, Move(c)
  PROVE  BlockInv'
<1>0. /\ pc[c] = "take" /\ rd[c].pc = "move" /\ header # <<>>
      /\ UNCHANGED <<baseVars, free, dequeued, key, value, header, tailBlock, enq>>
      /\ UNCHANGED <<tailIndex, headIndex, pc, loc>>
  BY Taking DEF Move, baseVars
<1>1. ShapeInv /\ CallInv /\ OwnerInv
  BY DEF BlockInv
<1>2. PICK off \in [1 .. Len(header) -> Int] : IndexInv(off)
  BY <1>0 DEF BlockInv
<1>3. HeaderInv(off) /\ WindowInv(off) /\ LinkInv(off) /\ ReaderInv(off) /\ SlotInv(off)
  BY <1>2 DEF IndexInv
<1>4. PICK h \in Nat, i \in Nat, p \in Nat, b \in Block :
        h = rd[c].h /\ i = rd[c].i /\ p = rd[c].pos /\ b = rd[c].block
  <2>1. rd[c].h \in Nat /\ rd[c].i \in Nat /\ rd[c].pos \in Nat /\ rd[c].block \in Block
    BY <1>0, <1>1, RdFields
  <2> QED
    BY <2>1
<1>5. PICK s \in Rd : s = [rd[c] EXCEPT !.pc = "count"]
  BY <1>0, <1>1, RdMoves
<1>6. s.pc = "count" /\ s.h = h /\ s.i = i /\ s.pos = p /\ s.block = b /\ ReadTo(c, s)
  BY <1>0, <1>1, <1>4, <1>5, RdMoves DEF Move
<1>7. /\ rd' \in [Consumer -> Rd] /\ rd'[c] = s
      /\ \A d \in Consumer \ {c} :
           /\ rd'[d] = rd[d] /\ pc'[d] = pc[d] /\ loc'[d] = loc[d]
           /\ Uncounted(d)' = Uncounted(d) /\ Unmoved(d)' = Unmoved(d)
           /\ \A m : Clearing(d, m)' <=> Clearing(d, m)
           /\ \A x : FreedBy(d, x)' <=> FreedBy(d, x)
  BY <1>0, <1>1, <1>6, OthersElems DEF ShapeInv
<1>8. /\ FirstNo' = FirstNo /\ FirstNew' = FirstNew /\ CallNo' = CallNo /\ Keyed' = Keyed
      /\ AtTail' = AtTail /\ Constructed' = Constructed /\ IndexStays(off)
      /\ \A m : InCall(m)' <=> InCall(m)
      /\ \A x : InHand(x)' <=> InHand(x)
  BY <1>0, CallStays
<1>9. PICK m \in Nat : m = BlockNo(i)
  BY NoBase
<1>10. Linked(m) /\ b = value[CurAt(off, m)]
  <2>1. ReaderAt(off, c)
    BY <1>3 DEF ReaderInv
  <2> QED
    BY <1>0, <1>1, <1>3, <1>4, <1>9, <2>1, ReaderLinked DEF ReaderAt
<1>11. PICK e \in Nat, a \in Nat, g \in Nat :
         e = RunEnd(c) /\ a = loc[c].index /\ g = loc[c].got
  BY <1>0, <1>1, <1>3, HeldElems
<1>12. i < e /\ e <= a + g /\ Run(c) = i .. e - 1
  BY <1>0, <1>1, <1>3, <1>4, <1>11, HeldElems
<1>13. /\ Uncounted(c) = i .. a + g - 1 /\ Uncounted(c)' = Uncounted(c)
       /\ Unmoved(c) = i .. a + g - 1 /\ Unmoved(c)' = e .. a + g - 1
  <2>1. RunEnd(c)' = e
    BY <1>0, <1>4, <1>6, <1>7, <1>11 DEF RunEnd, BaseOf
  <2> QED
    BY <1>0, <1>4, <1>6, <1>7, <1>11, <2>1 DEF Uncounted, Unmoved, FirstUncounted, FirstUnmoved
<1>14. \A d \in Consumer : /\ Uncounted(d)' = Uncounted(d)
                           /\ \A k : Clearing(d, k)' <=> Clearing(d, k)
                           /\ \A x : FreedBy(d, x)' <=> FreedBy(d, x)
  BY <1>0, <1>6, <1>7, <1>13 DEF Clearing, FreedBy
<1>15. Counted' = Counted
  BY <1>0, <1>14 DEF Counted
<1>16. \A k : (Gone(k)' <=> Gone(k)) /\ (Linked(k)' <=> Linked(k))
  <2>1. \A k : Gone(k)' <=> Gone(k)
    BY <1>15 DEF Gone, Elems
  <2> QED
    BY <1>8, <1>14, <2>1 DEF Linked, InUse
<1>17. \A j \in Run(c) : /\ j \in Nat /\ BlockNo(j) = m /\ j < headIndex
                         /\ \A d \in Consumer \ {c} : j \notin Unmoved(d)
  <2> SUFFICES ASSUME NEW j \in Run(c)
               PROVE  /\ j \in Nat /\ BlockNo(j) = m /\ j < headIndex
                      /\ \A d \in Consumer \ {c} : j \notin Unmoved(d)
    OBVIOUS
  <2>1. /\ j \in Nat /\ BlockNo(j) = m /\ j < headIndex
        /\ \A d \in Consumer \ {c} : j \notin Uncounted(d)
    BY <1>0, <1>1, <1>3, <1>4, <1>9, RunBlock
  <2>2. \A d \in Consumer \ {c} : j \notin Unmoved(d)
    BY <1>1, <1>3, <2>1, HeldElems DEF Unmoved
  <2> QED
    BY <2>1, <2>2
<1>18. Present' = Present \ Run(c)
  <2>1. Present' \subseteq Present \ Run(c)
    <3> SUFFICES ASSUME NEW j \in Present' PROVE j \in Present /\ j \notin Run(c)
      OBVIOUS
    <3>1. /\ j \in 0 .. Constructed - 1
          /\ j >= headIndex \/ \E d \in Consumer : j \in Unmoved(d)'
      BY <1>0, <1>8 DEF Present
    <3>2. \A d \in Consumer : j \in Unmoved(d)' => j \in Unmoved(d) /\ j \notin Run(c)
      <4>1. j \in Unmoved(c)' => j \in Unmoved(c) /\ j \notin Run(c)
        BY <1>12, <1>13
      <4>2. \A d \in Consumer \ {c} : j \in Unmoved(d)' => j \in Unmoved(d) /\ j \notin Run(c)
        BY <1>7, <1>17
      <4> QED
        BY <4>1, <4>2
    <3>3. j >= headIndex => j \notin Run(c)
      BY <1>17, Counters
    <3> QED
      BY <3>1, <3>2, <3>3 DEF Present
  <2>2. Present \ Run(c) \subseteq Present'
    <3> SUFFICES ASSUME NEW j \in Present, j \notin Run(c) PROVE j \in Present'
      OBVIOUS
    <3>1. /\ j \in 0 .. Constructed - 1
          /\ j >= headIndex \/ \E d \in Consumer : j \in Unmoved(d)
      BY DEF Present
    <3>2. \A d \in Consumer : j \in Unmoved(d) => j \in Unmoved(d)'
      <4>1. j \in Unmoved(c) => j \in Unmoved(c)'
        BY <1>12, <1>13
      <4> QED
        BY <1>7, <4>1
    <3> QED
      BY <1>0, <1>8, <3>1, <3>2 DEF Present
  <2> QED
    BY <2>1, <2>2
<1>19. slot' = [x \in Block \X Place |->
                 IF x[1] = b /\ \E j \in Run(c) : j % BLOCK_SIZE = x[2] THEN Null ELSE slot[x]]
  BY <1>4 DEF Move
<1>20. \A y \in Block, z \in Place :
         slot'[<<y, z>>] = IF y = b /\ \E j \in Run(c) : j % BLOCK_SIZE = z
                           THEN Null ELSE slot[<<y, z>>]
  BY <1>19
<1>21. ShapeInv'
  <2>1. BaseTypeOK'
    BY <1>0 DEF BaseInv, BaseTypeOK, baseVars
  <2>2. slot' \in [Block \X Place -> 0 .. MaxTail - 1 \cup {Null}]
    <3>1. slot \in [Block \X Place -> 0 .. MaxTail - 1 \cup {Null}]
      BY <1>1 DEF ShapeInv, TypeOK
    <3> QED
      BY <1>19, <3>1
  <2> QED
    BY <1>0, <1>1, <1>7, <2>1, <2>2 DEF ShapeInv, TypeOK
<1>22. CallInv'
  BY <1>0, <1>1, <1>8 DEF CallInv, BlockNo
<1>23. OwnerInv'
  BY <1>0, <1>14, OwnerStays
<1>24. HeaderInv(off)' /\ WindowInv(off)'
  <2>1. HeaderInv(off)'
    BY <1>0, <1>3, <1>8 DEF HeaderInv, IndexStays
  <2> QED
    BY <1>0, <1>3, <1>8, <2>1 DEF WindowInv, IndexStays
<1>25. LinkInv(off)'
  BY <1>0, <1>3, <1>8, <1>15, <1>16 DEF LinkInv, BlockNo, Elems, IndexStays
<1>26. ReaderInv(off)'
  <2> SUFFICES ASSUME NEW d \in Consumer PROVE ReaderAt(off, d)'
    BY DEF ReaderInv
  <2>1. ReaderAt(off, d)
    BY <1>3 DEF ReaderInv
  <2>2. CASE d # c
    BY <1>0, <1>7, <1>14, <1>15, <2>1, <2>2, OtherReader
  <2>3. CASE d = c
    <3>1. ReaderAt(off, c)
      BY <2>1, <2>3
    <3>2. \A x \in Uncounted(c)' : At(off, h, BlockNo(x))' = CurAt(off, BlockNo(x))'
      BY <1>0, <1>4, <1>8, <1>13, <3>1 DEF IndexStays, BlockNo, ReaderAt
    <3>3. i \in Mine(c)' /\ h \in 1 .. Len(header)
      BY <1>0, <1>4, <3>1 DEF Mine, ReaderAt
    <3>4. p = Pos(off, h, BlockNo(i))'
      BY <1>0, <1>4, <1>8, <3>1 DEF IndexStays, BlockNo, ReaderAt
    <3>5. b = value'[CurAt(off, BlockNo(i))']
      BY <1>0, <1>8, <1>9, <1>10 DEF IndexStays, BlockNo
    <3> QED
      BY <1>0, <1>6, <1>7, <2>3, <3>1, <3>2, <3>3, <3>4, <3>5 DEF ReaderAt, BlockNo
  <2> QED
    BY <2>2, <2>3
<1>27. SlotInv(off)'
  <2>1. ASSUME NEW j \in Present, j \notin Run(c)
        PROVE  slot'[<<value[CurAt(off, BlockNo(j))], j % BLOCK_SIZE>>] = j
    <3>1. /\ j \in Nat /\ BlockNo(j) \in Nat /\ Linked(BlockNo(j)) /\ j % BLOCK_SIZE \in Place
      BY <1>1, <1>3, PresentLinked
    <3>2. PICK k \in Int : k = BlockNo(j)
      BY <3>1
    <3>3. PICK y \in Block : y = value[CurAt(off, k)]
      BY <1>3, <3>1, <3>2 DEF LinkInv
    <3>4. slot[<<y, j % BLOCK_SIZE>>] = j
      BY <1>3, <3>2, <3>3 DEF SlotInv
    <3>5. ~(y = b /\ \E n \in Run(c) : n % BLOCK_SIZE = j % BLOCK_SIZE)
      <4> SUFFICES ASSUME y = b, NEW n \in Run(c), n % BLOCK_SIZE = j % BLOCK_SIZE PROVE FALSE
        OBVIOUS
      <4>1. m \in Int
        OBVIOUS
      <4>2. k = m
        BY <1>0, <1>1, <1>3, <1>10, <3>1, <3>2, <3>3, <4>1, LinkedBlocks
      <4>3. n \in Nat /\ BlockNo(n) = m
        BY <1>17
      <4>4. n = j
        BY <3>1, <3>2, <4>2, <4>3, ElemEq
      <4> QED
        BY <2>1, <4>4
    <3> QED
      BY <1>20, <3>1, <3>2, <3>3, <3>4, <3>5
  <2>2. ASSUME NEW y \in Block, NEW z \in Place, slot'[<<y, z>>] # Null
        PROVE  /\ slot'[<<y, z>>] \in Present' /\ slot'[<<y, z>>] % BLOCK_SIZE = z
               /\ value[CurAt(off, BlockNo(slot'[<<y, z>>]))] = y
    <3>1. /\ slot'[<<y, z>>] = slot[<<y, z>>]
          /\ ~(y = b /\ \E j \in Run(c) : j % BLOCK_SIZE = z)
      BY <1>20, <2>2
    <3>2. PICK j : j = slot[<<y, z>>]
      OBVIOUS
    <3>3. j \in Present /\ j % BLOCK_SIZE = z /\ value[CurAt(off, BlockNo(j))] = y
      BY <1>3, <2>2, <3>1, <3>2 DEF SlotInv
    <3>4. j \notin Run(c)
      BY <1>10, <1>17, <3>1, <3>3
    <3> QED
      BY <1>18, <3>1, <3>2, <3>3, <3>4
  <2>3. \A j \in Present' : slot'[<<value'[CurAt(off, BlockNo(j))'], j % BLOCK_SIZE>>] = j
    BY <1>0, <1>8, <1>18, <2>1 DEF IndexStays, BlockNo
  <2>4. \A y \in Block, z \in Place : slot'[<<y, z>>] # Null =>
          /\ slot'[<<y, z>>] \in Present' /\ slot'[<<y, z>>] % BLOCK_SIZE = z
          /\ value'[CurAt(off, BlockNo(slot[<<y, z>>]))'] = y
    <3> SUFFICES ASSUME NEW y \in Block, NEW z \in Place, slot'[<<y, z>>] # Null
                 PROVE  /\ slot'[<<y, z>>] \in Present' /\ slot'[<<y, z>>] % BLOCK_SIZE = z
                        /\ value'[CurAt(off, BlockNo(slot[<<y, z>>]))'] = y
      OBVIOUS
    <3>1. PICK j : j = slot'[<<y, z>>]
      OBVIOUS
    <3>2. j \in Present' /\ j % BLOCK_SIZE = z /\ value[CurAt(off, BlockNo(j))] = y
      BY <2>2, <3>1
    <3>3. CurAt(off, BlockNo(j))' = CurAt(off, BlockNo(j))
      BY <1>8 DEF IndexStays, BlockNo
    <3> QED
      BY <1>0, <3>1, <3>2, <3>3 DEF BlockNo
  <2> QED
    BY <2>3, <2>4 DEF SlotInv, BlockNo
<1> QED
  BY <1>0, <1>2, <1>21, <1>22, <1>23, <1>24, <1>25, <1>26, <1>27 DEF BlockInv, IndexInv

\* A block's count of elements is at most BLOCK_SIZE, and that if it has them all.
LEMMA BlockCount ==
  ASSUME NEW m \in Nat, NEW X \in SUBSET Elems(m)
  PROVE  /\ Cardinality(X) \in 0 .. BLOCK_SIZE
         /\ Cardinality(X) = BLOCK_SIZE <=> X = Elems(m)
<1>1. PICK a \in Nat, S \in Nat \ {0} : a = BLOCK_SIZE * m /\ S = BLOCK_SIZE
  BY ImplicitAssumption
<1>2. Elems(m) = a .. a + S - 1
  BY <1>1 DEF Elems
<1>3. IsFiniteSet(a .. a + S - 1) /\ Cardinality(a .. a + S - 1) = S
  <2>1. /\ IsFiniteSet(a .. a + S - 1)
        /\ Cardinality(a .. a + S - 1) = IF a > a + S - 1 THEN 0 ELSE (a + S - 1) - a + 1
    BY FS_Interval
  <2> QED
    BY <2>1
<1>4. IsFiniteSet(Elems(m)) /\ Cardinality(Elems(m)) = S
  BY <1>2, <1>3
<1>5. /\ IsFiniteSet(X) /\ Cardinality(X) <= Cardinality(Elems(m))
      /\ Cardinality(Elems(m)) = Cardinality(X) => Elems(m) = X
  BY <1>4, FS_Subset, Zenon
<1>6. Cardinality(X) \in Nat
  BY <1>5, FS_CardinalityType, Zenon
<1> QED
  BY <1>1, <1>4, <1>5, <1>6

\* A consumer that the step leaves alone, when the counts of other elements grow.
LEMMA OtherCounts ==
  ASSUME NEW off, NEW d \in Consumer, ReaderAt(off, d), UNCHANGED <<key, value, header>>,
         pc'[d] = pc[d], loc'[d] = loc[d], rd'[d] = rd[d], Counted \subseteq Counted',
         \A x \in Consumer \ {d} :
           Gone(BlockNo(rd[d].i)) /\ Clearing(x, BlockNo(rd[d].i))'
             => Clearing(x, BlockNo(rd[d].i))
  PROVE  ReaderAt(off, d)'
<1>1. IndexStays(off)
  BY SameIndex
<1>2. Uncounted(d)' = Uncounted(d) /\ Mine(d)' = Mine(d)
  BY DEF Uncounted, FirstUncounted, RunEnd, Mine
<1>3. \A m : Gone(m) => Gone(m)'
  BY DEF Gone, Elems
<1>4. rd'[d].pc = "clear" =>
        /\ Gone(BlockNo(rd[d].i))'
        /\ At(off, rd[d].h, BlockNo(rd[d].i))' = CurAt(off, BlockNo(rd[d].i))'
        /\ \A x \in Consumer \ {d} : ~Clearing(x, BlockNo(rd[d].i))'
  <2> SUFFICES ASSUME rd[d].pc = "clear"
               PROVE  /\ Gone(BlockNo(rd[d].i))'
                      /\ At(off, rd[d].h, BlockNo(rd[d].i))' = CurAt(off, BlockNo(rd[d].i))'
                      /\ \A x \in Consumer \ {d} : ~Clearing(x, BlockNo(rd[d].i))'
    OBVIOUS
  <2>1. PICK m, h : m = BlockNo(rd[d].i) /\ h = rd[d].h
    OBVIOUS
  <2>2. m = BlockNo(rd[d].i)' /\ h = rd'[d].h
    BY <2>1 DEF BlockNo
  <2>3. /\ Gone(m) /\ At(off, h, m) = CurAt(off, m)
        /\ \A x \in Consumer \ {d} : ~Clearing(x, m)
    BY <2>1 DEF ReaderAt
  <2>4. \A x \in Consumer \ {d} : ~Clearing(x, BlockNo(rd[d].i))'
    BY <2>1, <2>3
  <2> QED
    BY <1>1, <1>3, <2>2, <2>3, <2>4 DEF IndexStays
<1> QED
  BY <1>1, <1>2, <1>4 DEF ReaderAt, BlockNo, IndexStays

\* Without a new header or key, the headers are as they were.
LEMMA HeaderStays ==
  ASSUME UNCHANGED <<header, key>>, NEW off, HeaderInv(off)
  PROVE  HeaderInv(off)'
<1>1. IndexStays(off)
  BY SameIndex
<1> QED
  BY <1>1, SMTT(40) DEF HeaderInv, IndexStays

\* Counting a run adds its length to the count of its block.
LEMMA RunCounted ==
  ASSUME BaseInv, ShapeInv, CallInv, NEW off, ReaderInv(off), NEW c \in Consumer,
         rd[c].pc = "count", NEW m \in Nat, m = BlockNo(rd[c].i)
  PROVE  /\ Cardinality((Counted \cup Run(c)) \cap Elems(m)) =
              Cardinality(Counted \cap Elems(m)) + Cardinality(Run(c))
         /\ \A k \in Int : k # m =>
              (Counted \cup Run(c)) \cap Elems(k) = Counted \cap Elems(k)
         /\ Cardinality((Counted \cup Run(c)) \cap Elems(m)) \in 0 .. BLOCK_SIZE
         /\ Cardinality((Counted \cup Run(c)) \cap Elems(m)) = BLOCK_SIZE
              <=> Elems(m) \subseteq Counted \cup Run(c)
         /\ ~Gone(m)
<1>1. pc[c] = "take"
  BY DEF ReaderInv, ReaderAt
<1> DEFINE D == Counted \cup Run(c)
<1>2. PICK i \in Nat, e \in Nat : i = rd[c].i /\ e = RunEnd(c)
  BY <1>1, HeldElems
<1>3. i < e /\ Run(c) = i .. e - 1 /\ Cardinality(Run(c)) = e - i
  BY <1>1, <1>2, HeldElems, RunLength
<1>4. \A j \in Run(c) : j \in Nat /\ BlockNo(j) = m /\ j \in Elems(m) /\ j \notin Counted
  BY RunBlock
<1>5. D \cap Elems(m) = (Counted \cap Elems(m)) \cup Run(c)
  BY <1>4
<1>6. PICK n \in Nat : n = headIndex
  BY Counters
<1>7. PICK l \in Nat : l = e - i
  BY <1>3
<1>8. Run(c) = i .. i + l - 1
  BY <1>3, <1>7
<1>9. PICK X \in SUBSET (0 .. n - 1) : X = Counted \cap Elems(m)
  BY <1>6 DEF Counted
<1>10. X \cap (i .. i + l - 1) = {}
  BY <1>4, <1>8, <1>9
<1>11. Cardinality(X \cup (i .. i + l - 1)) = Cardinality(X) + l
  BY <1>10, AddInterval
<1>12. Cardinality(D \cap Elems(m)) = Cardinality(Counted \cap Elems(m)) + Cardinality(Run(c))
  BY <1>3, <1>5, <1>7, <1>8, <1>9, <1>11
<1>13. ASSUME NEW k \in Int, k # m PROVE D \cap Elems(k) = Counted \cap Elems(k)
  <2>1. \A j \in Run(c) : j \notin Elems(k)
    BY <1>4, <1>13, NoElems
  <2> QED
    BY <2>1
<1>14. PICK Y \in SUBSET Elems(m) : Y = D \cap Elems(m)
  OBVIOUS
<1>15. Cardinality(Y) \in 0 .. BLOCK_SIZE /\ (Cardinality(Y) = BLOCK_SIZE <=> Y = Elems(m))
  BY BlockCount
<1>16. Y = Elems(m) <=> Elems(m) \subseteq D
  BY <1>14
<1>17. ~Gone(m)
  <2>1. i \in Run(c)
    BY <1>3
  <2> QED
    BY <1>4, <2>1 DEF Gone
<1> QED
  BY <1>12, <1>13, <1>14, <1>15, <1>16, <1>17

\* set_many_empty: the elements are counted, and whoever completes the block is
\* the one to clear its entry.
LEMMA SetManyEmptyStep ==
  ASSUME BaseInv, BlockInv, NEW c \in Consumer, SetManyEmpty(c)
  PROVE  BlockInv'
<1>0. /\ pc[c] = "take" /\ rd[c].pc = "count" /\ header # <<>>
      /\ UNCHANGED <<baseVars, free, slot, key, value, header, tailBlock, enq>>
      /\ UNCHANGED <<tailIndex, headIndex, pc, loc>>
  BY Taking DEF SetManyEmpty, baseVars
<1>1. ShapeInv /\ CallInv /\ OwnerInv
  BY DEF BlockInv
<1>2. PICK off \in [1 .. Len(header) -> Int] : IndexInv(off)
  BY <1>0 DEF BlockInv
<1>3. HeaderInv(off) /\ WindowInv(off) /\ LinkInv(off) /\ ReaderInv(off) /\ SlotInv(off)
  BY <1>2 DEF IndexInv
<1>4. PICK h \in Nat, i \in Nat, p \in Nat, b \in Block :
        h = rd[c].h /\ i = rd[c].i /\ p = rd[c].pos /\ b = rd[c].block
  <2>1. rd[c].h \in Nat /\ rd[c].i \in Nat /\ rd[c].pos \in Nat /\ rd[c].block \in Block
    BY <1>0, <1>1, RdFields
  <2> QED
    BY <2>1
<1>5. PICK q \in {"clear", "next"} : q = IF dequeued'[b] = BLOCK_SIZE THEN "clear" ELSE "next"
  OBVIOUS
<1>6. PICK s \in Rd : s = [rd[c] EXCEPT !.pc = q]
  BY <1>0, <1>1, RdMoves
<1>7. s.pc = q /\ s.h = h /\ s.i = i /\ s.pos = p /\ s.block = b /\ ReadTo(c, s)
  BY <1>0, <1>1, <1>4, <1>5, <1>6, RdMoves DEF SetManyEmpty
<1>8. /\ rd' \in [Consumer -> Rd] /\ rd'[c] = s
      /\ \A d \in Consumer \ {c} :
           /\ rd'[d] = rd[d] /\ pc'[d] = pc[d] /\ loc'[d] = loc[d]
           /\ Uncounted(d)' = Uncounted(d) /\ Unmoved(d)' = Unmoved(d)
           /\ \A m : Clearing(d, m)' <=> Clearing(d, m)
           /\ \A x : FreedBy(d, x)' <=> FreedBy(d, x)
  BY <1>0, <1>1, <1>7, OthersElems DEF ShapeInv
<1>9. /\ FirstNo' = FirstNo /\ FirstNew' = FirstNew /\ CallNo' = CallNo /\ Keyed' = Keyed
      /\ AtTail' = AtTail /\ Constructed' = Constructed /\ IndexStays(off)
      /\ \A m : InCall(m)' <=> InCall(m)
      /\ \A x : InHand(x)' <=> InHand(x)
  BY <1>0, CallStays
<1>10. PICK m \in Nat : m = BlockNo(i)
  BY NoBase
<1>11. ReaderAt(off, c) /\ \A d \in Consumer : ReaderAt(off, d)
  BY <1>3 DEF ReaderInv
<1>12. /\ Linked(m) /\ m < FirstNo /\ b = value[CurAt(off, m)] /\ i \in Uncounted(c)
       /\ CurAt(off, m) \in Entry
  <2>1. Linked(m) /\ m < FirstNo /\ i \in Uncounted(c)
    BY <1>0, <1>1, <1>3, <1>4, <1>10, ReaderLinked
  <2>2. b = value[CurAt(off, m)]
    BY <1>0, <1>4, <1>10, <1>11 DEF ReaderAt
  <2>3. m \in Int
    OBVIOUS
  <2>4. CurAt(off, m) \in Entry
    BY <1>0, <1>1, <1>3, <2>3, CurType
  <2> QED
    BY <2>1, <2>2, <2>4
<1>13. PICK e \in Nat, a \in Nat, g \in Nat :
         e = RunEnd(c) /\ a = loc[c].index /\ g = loc[c].got
  BY <1>0, <1>1, <1>3, HeldElems
<1>14. i < e /\ e <= a + g /\ Run(c) = i .. e - 1
  BY <1>0, <1>1, <1>3, <1>4, <1>13, HeldElems
<1>15. /\ Uncounted(c) = i .. a + g - 1 /\ Uncounted(c)' = e .. a + g - 1
       /\ Unmoved(c)' = Unmoved(c)
  <2>1. RunEnd(c)' = e
    BY <1>0, <1>4, <1>7, <1>8, <1>13 DEF RunEnd, BaseOf
  <2>2. Uncounted(c) = i .. a + g - 1
    BY <1>0, <1>4, <1>13 DEF Uncounted, FirstUncounted
  <2>3. Uncounted(c)' = e .. a + g - 1
    BY <1>0, <1>5, <1>7, <1>8, <1>13, <2>1 DEF Uncounted, FirstUncounted
  <2>4. Unmoved(c)' = Unmoved(c)
    BY <1>0, <1>5, <1>7, <1>8, <1>13, <2>1 DEF Unmoved, FirstUnmoved
  <2> QED
    BY <2>2, <2>3, <2>4
<1>16. Counted' = Counted \cup Run(c)
  <2>1. \A j \in Run(c) : /\ j \in Nat /\ j < headIndex
                          /\ \A d \in Consumer \ {c} : j \notin Uncounted(d)
    BY <1>0, <1>1, <1>3, RunBlock
  <2>2. Counted' \subseteq Counted \cup Run(c)
    <3> SUFFICES ASSUME NEW j \in Counted', j \notin Run(c) PROVE j \in Counted
      OBVIOUS
    <3>1. j \in 0 .. headIndex - 1 /\ \A d \in Consumer : j \notin Uncounted(d)'
      BY <1>0 DEF Counted
    <3>2. j \notin Uncounted(c)
      BY <1>14, <1>15, <3>1
    <3>3. \A d \in Consumer : j \notin Uncounted(d)
      BY <1>8, <3>1, <3>2
    <3> QED
      BY <3>1, <3>3 DEF Counted
  <2>3. ASSUME NEW j \in Counted PROVE j \in Counted'
    <3>1. j \in 0 .. headIndex - 1 /\ \A d \in Consumer : j \notin Uncounted(d)
      BY DEF Counted
    <3>2. j \notin Uncounted(c)'
      BY <1>14, <1>15, <3>1
    <3>3. \A d \in Consumer : j \notin Uncounted(d)'
      BY <1>8, <3>1, <3>2
    <3> QED
      BY <1>0, <3>1, <3>3 DEF Counted
  <2>4. ASSUME NEW j \in Run(c) PROVE j \in Counted'
    <3>1. j \in 0 .. headIndex - 1
      BY <2>1, Counters
    <3>2. j \notin Uncounted(c)'
      BY <1>14, <1>15
    <3>3. \A d \in Consumer : j \notin Uncounted(d)'
      BY <1>8, <2>1, <3>2
    <3> QED
      BY <1>0, <3>1, <3>3 DEF Counted
  <2> QED
    BY <2>2, <2>3, <2>4
<1>17. /\ Cardinality(Counted' \cap Elems(m)) =
            Cardinality(Counted \cap Elems(m)) + Cardinality(Run(c))
       /\ \A k \in Int : k # m => Counted' \cap Elems(k) = Counted \cap Elems(k)
       /\ Cardinality(Counted' \cap Elems(m)) \in 0 .. BLOCK_SIZE
       /\ Cardinality(Counted' \cap Elems(m)) = BLOCK_SIZE <=> Elems(m) \subseteq Counted'
       /\ ~Gone(m)
  <2>1. m = BlockNo(rd[c].i)
    BY <1>4, <1>10
  <2>2. /\ Cardinality((Counted \cup Run(c)) \cap Elems(m)) =
              Cardinality(Counted \cap Elems(m)) + Cardinality(Run(c))
        /\ \A k \in Int : k # m =>
             (Counted \cup Run(c)) \cap Elems(k) = Counted \cap Elems(k)
        /\ Cardinality((Counted \cup Run(c)) \cap Elems(m)) \in 0 .. BLOCK_SIZE
        /\ Cardinality((Counted \cup Run(c)) \cap Elems(m)) = BLOCK_SIZE
             <=> Elems(m) \subseteq Counted \cup Run(c)
        /\ ~Gone(m)
    BY <1>0, <1>1, <1>3, <2>1, RunCounted, Zenon
  <2> QED
    BY <1>16, <2>2, Zenon
<1>18. /\ dequeued'[b] = Cardinality(Counted' \cap Elems(m))
       /\ \A x \in Block \ {b} : dequeued'[x] = dequeued[x]
       /\ dequeued' \in [Block -> 0 .. BLOCK_SIZE]
  <2>1. dequeued[b] = Cardinality(Counted \cap Elems(m))
    BY <1>3, <1>12 DEF LinkInv
  <2>2. /\ dequeued' = [dequeued EXCEPT ![b] = dequeued[b] + Cardinality(Run(c))]
        /\ dequeued \in [Block -> 0 .. BLOCK_SIZE]
    BY <1>1, <1>4 DEF SetManyEmpty, ShapeInv, TypeOK
  <2>3. dequeued'[b] = Cardinality(Counted' \cap Elems(m))
    BY <1>17, <2>1, <2>2
  <2> QED
    BY <1>17, <2>2, <2>3
<1>19. \A k \in Int : k # m => (Gone(k)' <=> Gone(k))
  <2> SUFFICES ASSUME NEW k \in Int, k # m PROVE Gone(k)' <=> Gone(k)
    OBVIOUS
  <2>1. Counted' \cap Elems(k) = Counted \cap Elems(k)
    BY <1>17
  <2>2. Gone(k)' <=> Elems(k) \subseteq Counted'
    BY DEF Gone, Elems
  <2> QED
    BY <2>1, <2>2 DEF Gone
<1>20. (Gone(m)' <=> q = "clear") /\ \A k \in Int : ~Gone(k)' => ~Gone(k)
  <2>1. Gone(m)' <=> Elems(m) \subseteq Counted'
    BY DEF Gone, Elems
  <2> QED
    BY <1>5, <1>17, <1>18, <1>19, <2>1
<1>21. /\ \A k : Clearing(c, k)' <=> q = "clear" /\ k = m
       /\ \A k : ~Clearing(c, k)
       /\ \A x : ~FreedBy(c, x) /\ ~FreedBy(c, x)'
  BY <1>0, <1>5, <1>7, <1>8, <1>10 DEF Clearing, FreedBy, BlockNo
<1>22. \A k \in Int : Linked(k)' <=> Linked(k)
  <2> SUFFICES ASSUME NEW k \in Int PROVE Linked(k)' <=> Linked(k)
    OBVIOUS
  <2>1. CASE k # m
    <3>1. InUse(k)' <=> InUse(k)
      BY <1>8, <1>9, <1>19, <1>21, <2>1 DEF InUse
    <3> QED
      BY <1>9, <3>1 DEF Linked
  <2>2. CASE k = m
    <3>1. m \in 0 .. FirstNo' - 1
      BY <1>9, <1>12, Counters
    <3>2. InUse(m)'
      BY <1>20, <1>21, <3>1 DEF InUse
    <3> QED
      BY <1>12, <2>2, <3>2 DEF Linked
  <2> QED
    BY <2>1, <2>2
<1>23. Present' = Present
  <2>1. \A d \in Consumer : Unmoved(d)' = Unmoved(d)
    BY <1>8, <1>15
  <2> QED
    BY <1>0, <1>9, <2>1 DEF Present
<1>24. ShapeInv'
  <2>1. BaseTypeOK'
    BY <1>0 DEF BaseInv, BaseTypeOK, baseVars
  <2> QED
    BY <1>0, <1>1, <1>8, <1>18, <2>1 DEF ShapeInv, TypeOK
<1>25. CallInv'
  BY <1>0, <1>1, <1>9 DEF CallInv, BlockNo
<1>26. OwnerInv'
  <2>1. \A d \in Consumer : \A x : FreedBy(d, x)' <=> FreedBy(d, x)
    BY <1>8, <1>21
  <2>2. \A x \in Block : InHand(x)' =>
          /\ x \notin free' /\ \A f \in Entry : value'[f] # x
          /\ enq'.pc = "value" => dequeued'[x] = 0
    <3> SUFFICES ASSUME NEW x \in Block, InHand(x)
                 PROVE  /\ x \notin free /\ \A f \in Entry : value[f] # x
                        /\ enq.pc = "value" => dequeued'[x] = 0
      BY <1>0, <1>9
    <3>1. /\ x \notin free /\ \A f \in Entry : value[f] # x
          /\ enq.pc = "value" => dequeued[x] = 0
      BY <1>1 DEF OwnerInv
    <3> QED
      BY <1>12, <1>18, <3>1
  <2> QED
    BY <1>0, <1>1, <1>9, <2>1, <2>2 DEF OwnerInv
<1>27. HeaderInv(off)' /\ WindowInv(off)'
  <2>1. HeaderInv(off)'
    BY <1>0, <1>3, HeaderStays
  <2> QED
    BY <1>0, <1>3, <1>9, <2>1 DEF WindowInv, IndexStays
<1>28. LinkInv(off)'
  <2>1. \A k \in Int : Linked(k) =>
          /\ Keyed - Cur.capacity <= k
          /\ key[CurAt(off, k)] = BLOCK_SIZE * k
          /\ value[CurAt(off, k)] \in Block
          /\ dequeued'[value[CurAt(off, k)]] = Cardinality(Counted' \cap Elems(k))
    <3> SUFFICES ASSUME NEW k \in Int, Linked(k)
                 PROVE  /\ Keyed - Cur.capacity <= k
                        /\ key[CurAt(off, k)] = BLOCK_SIZE * k
                        /\ value[CurAt(off, k)] \in Block
                        /\ dequeued'[value[CurAt(off, k)]] = Cardinality(Counted' \cap Elems(k))
      OBVIOUS
    <3>1. /\ Keyed - Cur.capacity <= k
          /\ key[CurAt(off, k)] = BLOCK_SIZE * k
          /\ value[CurAt(off, k)] \in Block
          /\ dequeued[value[CurAt(off, k)]] = Cardinality(Counted \cap Elems(k))
      BY <1>3 DEF LinkInv
    <3>2. CASE k = m
      BY <1>12, <1>18, <3>1, <3>2
    <3>3. CASE k # m
      <4>1. m \in Int
        OBVIOUS
      <4>2. value[CurAt(off, k)] # b
        BY <1>0, <1>1, <1>3, <1>12, <3>3, <4>1, LinkedBlocks
      <4> QED
        BY <1>17, <1>18, <3>1, <3>3, <4>2
    <3> QED
      BY <3>2, <3>3
  <2>2. \A k \in Int : Linked(k)' =>
          /\ Keyed' - Cur'.capacity <= k
          /\ key'[CurAt(off, k)'] = BLOCK_SIZE * k
          /\ value'[CurAt(off, k)'] \in Block
          /\ dequeued'[value'[CurAt(off, k)']] = Cardinality(Counted' \cap Elems(k))
    BY <1>0, <1>9, <1>22, <2>1 DEF IndexStays
  <2>3. \A k \in Int : InCall(k)' => value'[CurAt(off, k)'] = enq'.chain[k - FirstNo' + 1]
    BY <1>0, <1>3, <1>9 DEF LinkInv, IndexStays
  <2>4. \A f \in Entry : value'[f] # Null => \E k \in Int : Linked(k)' /\ f = CurAt(off, k)'
    BY <1>0, <1>3, <1>9, <1>22 DEF LinkInv, IndexStays
  <2>5. \A k \in Int : Constructed' > 0 /\ k = BlockNo(Constructed' - 1) /\ ~Gone(k)' =>
          tailBlock' = value'[CurAt(off, k)']
    BY <1>0, <1>3, <1>9, <1>20 DEF LinkInv, IndexStays
  <2> QED
    BY <2>2, <2>3, <2>4, <2>5 DEF LinkInv, BlockNo, Elems
<1>29. ReaderInv(off)'
  <2> SUFFICES ASSUME NEW d \in Consumer PROVE ReaderAt(off, d)'
    BY DEF ReaderInv
  <2>1. CASE d # c
    <3>1. \A x \in Consumer \ {d} :
            Gone(BlockNo(rd[d].i)) /\ Clearing(x, BlockNo(rd[d].i))'
              => Clearing(x, BlockNo(rd[d].i))
      <4> SUFFICES ASSUME NEW x \in Consumer \ {d}, Gone(BlockNo(rd[d].i)),
                          Clearing(x, BlockNo(rd[d].i))'
                   PROVE  Clearing(x, BlockNo(rd[d].i))
        OBVIOUS
      <4>1. PICK k : k = BlockNo(rd[d].i)
        OBVIOUS
      <4>2. k = BlockNo(rd[d].i)'
        BY <1>8, <2>1, <4>1 DEF BlockNo
      <4>3. Clearing(x, k)' /\ Gone(k)
        BY <4>1, <4>2
      <4>4. x # c
        BY <1>17, <1>21, <4>3
      <4> QED
        BY <1>8, <4>1, <4>3, <4>4
    <3> QED
      BY <1>0, <1>8, <1>11, <1>16, <2>1, <3>1, OtherCounts
  <2>2. CASE d = c
    <3>1. \A x \in Uncounted(c)' : At(off, h, BlockNo(x))' = CurAt(off, BlockNo(x))'
      <4>1. Uncounted(c)' \subseteq Uncounted(c)
        BY <1>14, <1>15
      <4> QED
        BY <1>0, <1>4, <1>9, <1>11, <4>1 DEF IndexStays, BlockNo, ReaderAt
    <3>2. i \in Mine(c)' /\ h \in 1 .. Len(header) /\ loc[c].got >= 1
      BY <1>0, <1>4, <1>11 DEF Mine, ReaderAt
    <3>3. p = Pos(off, h, m)'
      BY <1>0, <1>4, <1>9, <1>10, <1>11 DEF IndexStays, ReaderAt
    <3>4. b = value'[CurAt(off, m)']
      BY <1>0, <1>9, <1>12 DEF IndexStays
    <3>5. At(off, h, m)' = CurAt(off, m)'
      BY <1>0, <1>4, <1>9, <1>10, <1>11, <1>12 DEF IndexStays, ReaderAt
    <3>6. \A x \in Consumer \ {c} : ~Clearing(x, m)'
      <4>1. \A x \in Consumer : ~Clearing(x, m)
        BY <1>11, <1>17 DEF ReaderAt, Clearing
      <4> QED
        BY <1>8, <4>1
    <3>7. m = BlockNo(s.i)
      BY <1>7, <1>10
    <3> QED
      BY <1>0, <1>5, <1>7, <1>8, <1>20, <2>2, <3>1, <3>2, <3>3, <3>4, <3>5, <3>6, <3>7
      DEF ReaderAt, BlockNo
  <2> QED
    BY <2>1, <2>2
<1>30. SlotInv(off)'
  BY <1>0, <1>3, <1>9, <1>23 DEF SlotInv, BlockNo, IndexStays
<1> QED
  BY <1>0, <1>2, <1>24, <1>25, <1>26, <1>27, <1>28, <1>29, <1>30 DEF BlockInv, IndexInv

\* The last consumer of a block takes it out of the index: it alone has it now.
LEMMA ClearEntryStep ==
  ASSUME BaseInv, BlockInv, NEW c \in Consumer, ClearEntry(c)
  PROVE  BlockInv'
<1>0. /\ pc[c] = "take" /\ rd[c].pc = "clear" /\ header # <<>>
      /\ UNCHANGED <<baseVars, free, slot, dequeued, key, header, tailBlock, enq>>
      /\ UNCHANGED <<tailIndex, headIndex, pc, loc>>
  BY Taking DEF ClearEntry, baseVars
<1>1. ShapeInv /\ CallInv /\ OwnerInv
  BY DEF BlockInv
<1>2. PICK off \in [1 .. Len(header) -> Int] : IndexInv(off)
  BY <1>0 DEF BlockInv
<1>3. HeaderInv(off) /\ WindowInv(off) /\ LinkInv(off) /\ ReaderInv(off) /\ SlotInv(off)
  BY <1>2 DEF IndexInv
<1>4. PICK h \in Nat, i \in Nat, p \in Nat, b \in Block :
        h = rd[c].h /\ i = rd[c].i /\ p = rd[c].pos /\ b = rd[c].block
  <2>1. rd[c].h \in Nat /\ rd[c].i \in Nat /\ rd[c].pos \in Nat /\ rd[c].block \in Block
    BY <1>0, <1>1, RdFields
  <2> QED
    BY <2>1
<1>5. PICK s \in Rd : s = [rd[c] EXCEPT !.pc = "free"]
  BY <1>0, <1>1, RdMoves
<1>6. s.pc = "free" /\ s.h = h /\ s.i = i /\ s.pos = p /\ s.block = b /\ ReadTo(c, s)
  BY <1>0, <1>1, <1>4, <1>5, RdMoves DEF ClearEntry
<1>7. /\ rd' \in [Consumer -> Rd] /\ rd'[c] = s
      /\ \A d \in Consumer \ {c} :
           /\ rd'[d] = rd[d] /\ pc'[d] = pc[d] /\ loc'[d] = loc[d]
           /\ Uncounted(d)' = Uncounted(d) /\ Unmoved(d)' = Unmoved(d)
           /\ Mine(d)' = Mine(d)
           /\ \A m : Clearing(d, m)' <=> Clearing(d, m)
           /\ \A x : FreedBy(d, x)' <=> FreedBy(d, x)
  BY <1>0, <1>1, <1>6, OthersElems DEF ShapeInv
<1>8. /\ FirstNo' = FirstNo /\ FirstNew' = FirstNew /\ CallNo' = CallNo /\ Keyed' = Keyed
      /\ AtTail' = AtTail /\ Constructed' = Constructed /\ IndexStays(off)
      /\ \A m : InCall(m)' <=> InCall(m)
      /\ \A x : InHand(x)' <=> InHand(x)
  BY <1>0, CallStays
<1>9. PICK m \in Int : m = BlockNo(i)
  BY NoBase
<1>10. ReaderAt(off, c) /\ \A d \in Consumer : ReaderAt(off, d)
  BY <1>3 DEF ReaderInv
<1>11. /\ Linked(m) /\ m < FirstNo /\ Gone(m) /\ \A d \in Consumer \ {c} : ~Clearing(d, m)
       /\ b = value[CurAt(off, m)]
  BY <1>0, <1>1, <1>3, <1>4, <1>9, <1>10, ReaderLinked DEF ReaderAt
<1>12. PICK z \in Entry : z = CurAt(off, m) /\ z = EntryOf(c)
  BY <1>0, <1>1, <1>2, <1>4, <1>9, EntryFound
<1>13. /\ value \in [Entry -> Block \cup {Null}] /\ value' = [value EXCEPT ![z] = Null]
       /\ value[z] = b /\ free \subseteq Block
  BY <1>1, <1>11, <1>12 DEF ClearEntry, ShapeInv, TypeOK
<1>14. /\ value' \in [Entry -> Block \cup {Null}] /\ value'[z] = Null
       /\ \A f \in Entry \ {z} : value'[f] = value[f]
  BY <1>13
<1>15. Uncounted(c)' = Uncounted(c) /\ Unmoved(c)' = Unmoved(c)
  <2>1. RunEnd(c)' = RunEnd(c)
    BY <1>0, <1>4, <1>6, <1>7 DEF RunEnd, BaseOf
  <2> QED
    BY <1>0, <1>6, <1>7, <2>1 DEF Uncounted, Unmoved, FirstUncounted, FirstUnmoved
<1>16. \A d \in Consumer : Uncounted(d)' = Uncounted(d) /\ Unmoved(d)' = Unmoved(d)
  BY <1>7, <1>15
<1>17. Counted' = Counted /\ Present' = Present
  <2>1. Counted' = Counted
    BY <1>0, <1>16 DEF Counted
  <2>2. Present' = Present
    BY <1>0, <1>8, <1>16 DEF Present
  <2> QED
    BY <2>1, <2>2
<1>18. \A k : Gone(k)' <=> Gone(k)
  BY <1>17 DEF Gone, Elems
<1>19. /\ \A k : Clearing(c, k) <=> k = m
       /\ \A k : ~Clearing(c, k)'
       /\ \A x : ~FreedBy(c, x) /\ (FreedBy(c, x)' <=> x = b)
  BY <1>0, <1>4, <1>6, <1>7, <1>9 DEF Clearing, FreedBy, BlockNo
<1>20. \A k \in Int : Linked(k)' <=> Linked(k) /\ k # m
  <2> SUFFICES ASSUME NEW k \in Int PROVE Linked(k)' <=> Linked(k) /\ k # m
    OBVIOUS
  <2>1. CASE k # m
    <3>1. InUse(k)' <=> InUse(k)
      BY <1>7, <1>8, <1>18, <1>19, <2>1 DEF InUse
    <3> QED
      BY <1>8, <2>1, <3>1 DEF Linked
  <2>2. CASE k = m
    <3>1. ~InUse(m)'
      BY <1>7, <1>11, <1>18, <1>19 DEF InUse
    <3>2. ~InCall(m)
      <4>1. enq.pc # "idle" => CallNo \in Nat /\ FirstNo <= CallNo
        BY <1>1, CallFacts
      <4>2. FirstNo \in Nat
        BY Counters
      <4>3. InCall(m) => enq.pc # "idle" /\ (CallNo <= m \/ FirstNo <= m)
        BY DEF InCall
      <4> QED
        BY <1>11, <4>1, <4>2, <4>3
    <3> QED
      BY <1>8, <2>2, <3>1, <3>2 DEF Linked
  <2> QED
    BY <2>1, <2>2
<1>21. ASSUME NEW k \in Int, Linked(k), k # m
       PROVE  CurAt(off, k) \in Entry \ {z} /\ value'[CurAt(off, k)] = value[CurAt(off, k)]
  <2>1. CurAt(off, k) # CurAt(off, m)
    BY <1>0, <1>1, <1>3, <1>11, <1>21, LinkedInj
  <2>2. CurAt(off, k) \in Entry
    BY <1>0, <1>1, <1>3, CurType
  <2> QED
    BY <1>12, <1>14, <2>1, <2>2
<1>22. ShapeInv'
  <2>1. BaseTypeOK'
    BY <1>0 DEF BaseInv, BaseTypeOK, baseVars
  <2> QED
    BY <1>0, <1>1, <1>7, <1>14, <2>1 DEF ShapeInv, TypeOK
<1>23. CallInv'
  BY <1>0, <1>1, <1>8 DEF CallInv, BlockNo
<1>24. OwnerInv'
  <2>0. Null \notin Block
    BY ImplicitAssumption
  <2>1. \A f \in Entry : value'[f] \notin free'
    BY <1>0, <1>1, <1>13, <1>14, <2>0 DEF OwnerInv
  <2>2. \A f, f2 \in Entry : value'[f] = value'[f2] /\ value'[f] # Null => f = f2
    BY <1>1, <1>14 DEF OwnerInv
  <2>3. \A x \in Block : InHand(x)' =>
          /\ x \notin free' /\ \A f \in Entry : value'[f] # x
          /\ enq'.pc = "value" => dequeued'[x] = 0
    BY <1>0, <1>1, <1>8, <1>14, <2>0 DEF OwnerInv
  <2>4. /\ b \notin free /\ ~InHand(b) /\ \A f \in Entry \ {z} : value[f] # b
        /\ \A d \in Consumer : ~FreedBy(d, b)
    BY <1>1, <1>13, <2>0 DEF OwnerInv
  <2>5. \A d \in Consumer : \A x \in Block : FreedBy(d, x)' =>
          /\ x \notin free' /\ ~InHand(x)' /\ \A f \in Entry : value'[f] # x
          /\ \A d2 \in Consumer \ {d} : ~FreedBy(d2, x)'
    <3> SUFFICES ASSUME NEW d \in Consumer, NEW x \in Block, FreedBy(d, x)'
                 PROVE  /\ x \notin free' /\ ~InHand(x)' /\ \A f \in Entry : value'[f] # x
                        /\ \A d2 \in Consumer \ {d} : ~FreedBy(d2, x)'
      OBVIOUS
    <3>1. CASE d = c
      <4>1. x = b
        BY <1>19, <3>1
      <4> QED
        BY <1>0, <1>7, <1>8, <1>14, <2>0, <2>4, <3>1, <4>1
    <3>2. CASE d # c
      <4>1. FreedBy(d, x) /\ x # b
        BY <1>7, <2>4, <3>2
      <4>2. /\ x \notin free /\ ~InHand(x) /\ \A f \in Entry : value[f] # x
            /\ \A d2 \in Consumer \ {d} : ~FreedBy(d2, x)
        BY <1>1, <4>1 DEF OwnerInv
      <4> QED
        BY <1>0, <1>7, <1>8, <1>14, <1>19, <2>0, <4>1, <4>2
    <3> QED
      BY <3>1, <3>2
  <2>6. \A x \in Block : \/ x \in free' \/ InHand(x)' \/ \E d \in Consumer : FreedBy(d, x)'
                         \/ \E f \in Entry : value'[f] = x
    <3> SUFFICES ASSUME NEW x \in Block
                 PROVE  \/ x \in free' \/ InHand(x)' \/ \E d \in Consumer : FreedBy(d, x)'
                        \/ \E f \in Entry : value'[f] = x
      OBVIOUS
    <3>1. \/ x \in free \/ InHand(x) \/ \E d \in Consumer : FreedBy(d, x)
          \/ \E f \in Entry : value[f] = x
      BY <1>1 DEF OwnerInv
    <3>2. \A d \in Consumer : FreedBy(d, x) => FreedBy(d, x)'
      BY <1>7, <1>19
    <3>3. \A f \in Entry : value[f] = x => value'[f] = x \/ FreedBy(c, x)'
      BY <1>13, <1>14, <1>19
    <3> QED
      BY <1>0, <1>8, <3>1, <3>2, <3>3
  <2> QED
    BY <2>1, <2>2, <2>3, <2>5, <2>6 DEF OwnerInv
<1>25. HeaderInv(off)' /\ WindowInv(off)'
  <2>1. HeaderInv(off)'
    BY <1>0, <1>3, HeaderStays
  <2> QED
    BY <1>0, <1>3, <1>8, <2>1 DEF WindowInv, IndexStays
<1>26. LinkInv(off)'
  <2>1. \A k \in Int : Linked(k)' =>
          /\ Keyed' - Cur'.capacity <= k
          /\ key'[CurAt(off, k)'] = BLOCK_SIZE * k
          /\ value'[CurAt(off, k)'] \in Block
          /\ dequeued'[value'[CurAt(off, k)']] = Cardinality(Counted' \cap Elems(k))
    BY <1>0, <1>3, <1>8, <1>17, <1>20, <1>21 DEF LinkInv, IndexStays
  <2>2. \A k \in Int : InCall(k)' => value'[CurAt(off, k)'] = enq'.chain[k - FirstNo' + 1]
    <3> SUFFICES ASSUME NEW k \in Int, InCall(k)'
                 PROVE  value'[CurAt(off, k)'] = enq'.chain[k - FirstNo' + 1]
      OBVIOUS
    <3>1. Linked(k)' /\ InCall(k)
      BY <1>8 DEF Linked
    <3>2. Linked(k) /\ k # m
      BY <1>20, <3>1
    <3>3. value[CurAt(off, k)] = enq.chain[k - FirstNo + 1]
      BY <1>3, <3>1 DEF LinkInv
    <3> QED
      BY <1>0, <1>8, <1>21, <3>2, <3>3 DEF IndexStays
  <2>3. \A f \in Entry : value'[f] # Null => \E k \in Int : Linked(k)' /\ f = CurAt(off, k)'
    <3> SUFFICES ASSUME NEW f \in Entry, value'[f] # Null
                 PROVE  \E k \in Int : Linked(k)' /\ f = CurAt(off, k)'
      OBVIOUS
    <3>1. f # z /\ value[f] # Null
      BY <1>14
    <3>2. PICK k \in Int : Linked(k) /\ f = CurAt(off, k)
      BY <1>3, <3>1 DEF LinkInv
    <3>3. k # m
      BY <1>12, <3>1, <3>2
    <3> QED
      BY <1>8, <1>20, <3>2, <3>3 DEF IndexStays
  <2>4. \A k \in Int : Constructed' > 0 /\ k = BlockNo(Constructed' - 1) /\ ~Gone(k)' =>
          tailBlock' = value'[CurAt(off, k)']
    <3> SUFFICES ASSUME NEW k \in Int, Constructed > 0, k = BlockNo(Constructed - 1), ~Gone(k)
                 PROVE  tailBlock = value'[CurAt(off, k)']
      BY <1>0, <1>8, <1>18
    <3>1. tailBlock = value[CurAt(off, k)]
      BY <1>3 DEF LinkInv
    <3>2. Linked(k) /\ k # m
      BY <1>1, <1>11, LastLinked
    <3> QED
      BY <1>8, <1>21, <3>1, <3>2 DEF IndexStays
  <2> QED
    BY <2>1, <2>2, <2>3, <2>4 DEF LinkInv, BlockNo, Elems
<1>27. ReaderInv(off)'
  <2> SUFFICES ASSUME NEW d \in Consumer PROVE ReaderAt(off, d)'
    BY DEF ReaderInv
  <2>1. CASE d # c
    <3>1. ReaderAt(off, d) /\ IndexStays(off)
      BY <1>8, <1>10
    <3>2. rd[d].pc \in {"move", "count", "clear"} =>
            value'[CurAt(off, BlockNo(rd[d].i))] = value[CurAt(off, BlockNo(rd[d].i))]
      <4> SUFFICES ASSUME rd[d].pc \in {"move", "count", "clear"}
                   PROVE  value'[CurAt(off, BlockNo(rd[d].i))]
                            = value[CurAt(off, BlockNo(rd[d].i))]
        OBVIOUS
      <4>1. /\ BlockNo(rd[d].i) \in Int /\ Linked(BlockNo(rd[d].i)) /\ rd[d].i \in Nat
            /\ rd[d].pc # "clear" => rd[d].i \in Uncounted(d)
        BY <1>1, <1>3, ReaderLinked
      <4>2. BlockNo(rd[d].i) # m
        <5>1. CASE rd[d].pc = "clear"
          BY <1>11, <2>1, <5>1 DEF Clearing
        <5>2. CASE rd[d].pc # "clear"
          <6>1. rd[d].i \notin Counted /\ rd[d].i \in 0 .. tailIndex - 1
            BY <1>1, <1>3, <4>1, <5>2, HeldInUse
          <6> QED
            BY <1>11, <6>1, UncountedInUse
        <5> QED
          BY <5>1, <5>2
      <4> QED
        BY <1>21, <4>1, <4>2
    <3>3. \A x \in Consumer : \A k : Clearing(x, k)' => Clearing(x, k)
      BY <1>7, <1>19
    <3>4. rd'[d] = rd[d] /\ pc'[d] = pc[d] /\ loc'[d] = loc[d]
      BY <1>7, <2>1
    <3>5. Uncounted(d)' = Uncounted(d) /\ Mine(d)' = Mine(d)
      BY <1>7, <2>1
    <3> QED
      BY <1>0, <1>18, <3>1, <3>2, <3>3, <3>4, <3>5 DEF ReaderAt, BlockNo, IndexStays
  <2>2. CASE d = c
    <3>1. \A x \in Uncounted(c)' : At(off, h, BlockNo(x))' = CurAt(off, BlockNo(x))'
      BY <1>0, <1>4, <1>8, <1>10, <1>15 DEF IndexStays, BlockNo, ReaderAt
    <3>2. i \in Mine(c)' /\ h \in 1 .. Len(header) /\ loc[c].got >= 1
      BY <1>0, <1>4, <1>10 DEF Mine, ReaderAt
    <3>3. p = Pos(off, h, BlockNo(i))'
      BY <1>0, <1>4, <1>8, <1>10 DEF IndexStays, ReaderAt, BlockNo
    <3> QED
      BY <1>0, <1>6, <1>7, <2>2, <3>1, <3>2, <3>3 DEF ReaderAt, BlockNo
  <2> QED
    BY <2>1, <2>2
<1>28. SlotInv(off)'
  <2>1. ASSUME NEW j \in Present
        PROVE  value'[CurAt(off, BlockNo(j))'] = value[CurAt(off, BlockNo(j))]
    <3>1. BlockNo(j) \in Int /\ Linked(BlockNo(j)) /\ ~Gone(BlockNo(j))
      BY <1>1, <1>3, PresentLinked
    <3>2. BlockNo(j) # m
      BY <1>11, <3>1
    <3> QED
      BY <1>8, <1>21, <3>1, <3>2 DEF IndexStays, BlockNo
  <2>2. SlotInv(off) /\ slot' = slot
    BY <1>0, <1>3
  <2>3. \A j \in Present' : slot'[<<value'[CurAt(off, BlockNo(j))'], j % BLOCK_SIZE>>] = j
    BY <1>17, <2>1, <2>2 DEF SlotInv
  <2>4. ASSUME NEW y \in Block, NEW x \in Place, slot[<<y, x>>] # Null
        PROVE  /\ slot[<<y, x>>] \in Present' /\ slot[<<y, x>>] % BLOCK_SIZE = x
               /\ value'[CurAt(off, BlockNo(slot[<<y, x>>]))'] = y
    <3>1. PICK j : j = slot[<<y, x>>]
      OBVIOUS
    <3>2. j \in Present /\ j % BLOCK_SIZE = x /\ value[CurAt(off, BlockNo(j))] = y
      BY <2>2, <2>4, <3>1 DEF SlotInv
    <3>3. value'[CurAt(off, BlockNo(j))'] = y
      BY <2>1, <3>2
    <3>4. BlockNo(slot[<<y, x>>])' = BlockNo(j)
      BY <2>2, <3>1 DEF BlockNo
    <3> QED
      BY <1>17, <2>2, <3>1, <3>2, <3>3, <3>4
  <2> QED
    BY <2>2, <2>3, <2>4 DEF SlotInv, BlockNo
<1> QED
  BY <1>0, <1>2, <1>22, <1>23, <1>24, <1>25, <1>26, <1>27, <1>28 DEF BlockInv, IndexInv

(***************************************************************************)
(* The constructor and the destructor                                      *)
(***************************************************************************)

\* Initially there are no blocks in use and nothing has a key.
LEMMA InitBlocks ==
  ASSUME Init, BaseInv
  PROVE  BlockInv
<1>0. /\ tailIndex = 0 /\ headIndex = 0 /\ enq = Idle
      /\ rd = [c \in Consumer |-> Idle] /\ pc = [c \in Consumer |-> "idle"]
      /\ free = Block /\ tailBlock = Null
      /\ slot = [x \in Block \X Place |-> Null]
      /\ dequeued = [b \in Block |-> 0]
      /\ key = [e \in Entry |-> INVALID_BLOCK_BASE]
      /\ value = [e \in Entry |-> Null]
      /\ header \in {<<>>, <<FirstHeader>>}
  BY DEF Init, BaseInit
<1>1. PICK I \in Nat \ {0} : I = INDEX_SIZE /\ I <= MaxEntries /\ MaxEntries \in Nat
  BY ImplicitAssumption
<1>2. /\ FirstHeader.capacity = I /\ FirstHeader.tail = I - 1
      /\ FirstHeader.index = [p \in 0 .. I - 1 |-> p + 1]
  BY <1>1 DEF FirstHeader
<1>3. \A p \in 0 .. I - 1 : FirstHeader.index[p] = p + 1
  BY <1>2
<1>4. FirstHeader.index \in [0 .. I - 1 -> 1 .. I]
  BY <1>2
<1>5. FirstHeader \in Header
  <2>1. FirstHeader.index \in [0 .. I - 1 -> Entry]
    BY <1>1, <1>2 DEF Entry
  <2> QED
    BY <1>1, <1>2, <2>1 DEF FirstHeader, Header
<1>6. enq.pc = "idle" /\ enq \in Enq
  BY <1>0 DEF Idle, Enq
<1>7. \A c \in Consumer : rd[c].pc = "idle" /\ pc[c] # "take"
  BY <1>0 DEF Idle
<1>8. FirstNo = 0 /\ Keyed = 0 /\ AtTail = 0 /\ Constructed = 0
  <2>1. FirstNo = 0
    <3>1. PICK S \in Nat \ {0} : S = BLOCK_SIZE
      BY ImplicitAssumption
    <3>2. (S * 0 + (S - 1)) \div S = 0
      BY DivUnique
    <3> QED
      BY <1>0, <3>1, <3>2 DEF FirstNo, BlockNo
  <2> QED
    BY <1>0, <1>6, <2>1 DEF Keyed, AtTail, Constructed
<1>9. ShapeInv
  <2>1. TypeOK
    <3>1. INVALID_BLOCK_BASE \in Nat /\ 0 \in 0 .. BLOCK_SIZE
      BY ImplicitAssumption DEF INVALID_BLOCK_BASE
    <3> QED
      BY <1>0, <3>1 DEF TypeOK, BaseInv
  <2>2. rd \in [Consumer -> Rd]
    BY <1>0 DEF Idle, Rd
  <2>3. header \in Seq(Header)
    <3>1. ASSUME NEW x \in Header PROVE <<x>> \in Seq(Header)
      OBVIOUS
    <3>2. <<>> \in Seq(Header)
      OBVIOUS
    <3> QED
      BY <1>0, <1>5, <3>1, <3>2
  <2> QED
    BY <1>6, <2>1, <2>2, <2>3 DEF ShapeInv
<1>10. CallInv
  BY <1>0, <1>6 DEF CallInv, Step
<1>11. (\A m \in Int : ~Linked(m) /\ ~InCall(m)) /\ \A b : ~InHand(b)
  BY <1>6, <1>8 DEF Linked, InUse, InCall, InHand
<1>12. OwnerInv
  <2>1. \A c \in Consumer : \A b : ~FreedBy(c, b)
    BY <1>7 DEF FreedBy
  <2> QED
    BY <1>0, <1>11, <2>1, ImplicitAssumption DEF OwnerInv
<1>13. ASSUME header # <<>> PROVE \E off \in [1 .. Len(header) -> Int] : IndexInv(off)
  <2> DEFINE off == [j \in 1 .. 1 |-> 0]
  <2>1. header = <<FirstHeader>> /\ Len(header) = 1 /\ header[1] = FirstHeader
    BY <1>0, <1>13
  <2>2. Cur = FirstHeader
    BY <1>9, <1>13, <2>1, CurFacts
  <2>3. off \in [1 .. Len(header) -> Int]
    BY <2>1
  <2>4. off[1] = 0
    OBVIOUS
  <2> HIDE DEF off
  <2>5. ASSUME NEW m \in Int
        PROVE  /\ Pos(off, 1, m) = m % I /\ Pos(off, 1, m) \in 0 .. I - 1
               /\ CurAt(off, m) = Pos(off, 1, m) + 1 /\ CurAt(off, m) \in Entry
    <3>1. m % I \in 0 .. I - 1
      BY DivMod
    <3>2. Pos(off, 1, m) = m % I
      BY <1>2, <2>1, <2>4 DEF Pos
    <3>3. CurAt(off, m) = Pos(off, 1, m) + 1
      BY <1>3, <2>1, <3>1, <3>2 DEF CurAt, At
    <3> QED
      BY <1>1, <3>1, <3>2, <3>3 DEF Entry
  <2>6. HeaderInv(off)
    <3>1. \A j \in 1 .. Len(header) : j = 1
      BY <2>1
    <3>2. \A e \in 1 .. I : \E p \in 0 .. I - 1 : FirstHeader.index[p] = e
      <4> SUFFICES ASSUME NEW e \in 1 .. I PROVE \E p \in 0 .. I - 1 : FirstHeader.index[p] = e
        OBVIOUS
      <4>1. e - 1 \in 0 .. I - 1 /\ (e - 1) + 1 = e
        OBVIOUS
      <4> QED
        BY <1>3, <4>1
    <3>3. \A q \in 0 .. I - 1 : \A m \in Int :
            CurAt(off, m) = FirstHeader.index[q] => q = Pos(off, 1, m)
      <4> SUFFICES ASSUME NEW q \in 0 .. I - 1, NEW m \in Int,
                          CurAt(off, m) = FirstHeader.index[q]
                   PROVE  q = Pos(off, 1, m)
        OBVIOUS
      <4>1. PICK r \in 0 .. I - 1 : r = Pos(off, 1, m)
        BY <2>5
      <4>2. r + 1 = q + 1
        BY <1>3, <2>5, <4>1
      <4> QED
        BY <4>1, <4>2
    <3>4. I - 1 \in 0 .. I - 1
      OBVIOUS
    <3> QED
      <4>1. \A j \in 1 .. Len(header) :
              /\ header[j].capacity <= Cur.capacity
              /\ header[j].index \in [0 .. header[j].capacity - 1 -> 1 .. header[j].capacity]
              /\ header[j].tail \in 0 .. header[j].capacity - 1
        BY <1>2, <1>4, <2>1, <2>2, <3>1, <3>4
      <4>2. Cur.capacity <= MaxEntries
        BY <1>1, <1>2, <2>2
      <4>3. \A e \in 1 .. Cur.capacity : \E p \in 0 .. Cur.capacity - 1 : Cur.index[p] = e
        BY <1>2, <2>2, <3>2
      <4>4. \A j \in 1 .. Len(header) : \A q \in 0 .. header[j].capacity - 1 : \A m \in Int :
              CurAt(off, m) = header[j].index[q] => q = Pos(off, j, m)
        BY <1>2, <2>1, <3>1, <3>3
      <4>5. \A j \in 1 .. Len(header) - 1 : FALSE
        BY <2>1
      <4> QED
        BY <2>3, <4>1, <4>2, <4>3, <4>4, <4>5 DEF HeaderInv
  <2>7. WindowInv(off)
    <3>1. \A e \in Entry : key[e] = INVALID_BLOCK_BASE
      BY <1>0
    <3>2. \A m \in Int : key[CurAt(off, m)] = INVALID_BLOCK_BASE
      BY <2>5, <3>1
    <3>3. \A m \in Int : key[CurAt(off, m)] # BLOCK_SIZE * m
      BY <3>2, BaseOrder
    <3>4. Cur.tail = Pos(off, Len(header), 0 - 1)
      <4>1. (0 - 1 + I) % I = (0 - 1) % I
        <5>1. 0 - 1 \in Int
          OBVIOUS
        <5> QED
          BY <5>1, ModRound
      <4>2. (I - 1) % I = I - 1
        <5>1. I - 1 \in 0 .. I - 1
          OBVIOUS
        <5> QED
          BY <5>1, ModSmall
      <4>3. 0 - 1 + I = I - 1 /\ 0 - 1 \in Int
        OBVIOUS
      <4>4. Pos(off, 1, 0 - 1) = (0 - 1) % I
        BY <2>5, <4>3
      <4> QED
        BY <1>2, <2>1, <2>2, <4>1, <4>2, <4>3, <4>4
    <3>5. 0 - Cur.capacity <= 0
      BY <1>2, <2>2
    <3> QED
      BY <1>8, <3>1, <3>2, <3>3, <3>4, <3>5 DEF WindowInv
  <2>8. LinkInv(off)
    <3>1. \A e \in Entry : value[e] = Null
      BY <1>0
    <3> QED
      BY <1>8, <1>11, <3>1 DEF LinkInv
  <2>9. ReaderInv(off)
    BY <1>7 DEF ReaderInv, ReaderAt
  <2>10. SlotInv(off)
    <3>1. Present = {}
      BY <1>8 DEF Present
    <3>2. \A b \in Block, s \in Place : slot[<<b, s>>] = Null
      BY <1>0
    <3> QED
      BY <3>1, <3>2 DEF SlotInv
  <2> QED
    BY <2>3, <2>6, <2>7, <2>8, <2>9, <2>10 DEF IndexInv
<1>14. \A x \in Block \X Place : slot[x] = Null
  BY <1>0
<1> QED
  BY <1>7, <1>9, <1>10, <1>12, <1>13, <1>14 DEF BlockInv

\* With no operation under way, what is not dequeued is what is not counted.
LEMMA AtRest ==
  ASSUME BaseInv, BlockInv, enq.pc = "idle", \A c \in Consumer : pc[c] = "idle"
  PROVE  /\ \A c \in Consumer : rd[c].pc = "idle"
         /\ Counted = 0 .. headIndex - 1 /\ Present = headIndex .. tailIndex - 1
         /\ Constructed = tailIndex
         /\ \A b : ~InHand(b) /\ \A c \in Consumer : ~FreedBy(c, b)
         /\ \A m \in Int : Linked(m) =>
              m \in 0 .. FirstNo - 1 /\ headIndex <= BLOCK_SIZE * m + BLOCK_SIZE - 1
<1>1. \A c \in Consumer : rd[c].pc = "idle" /\ pc[c] # "take"
  BY NotTaking
<1>2. \A c \in Consumer : Uncounted(c) = {} /\ Unmoved(c) = {}
  BY <1>1 DEF Uncounted, Unmoved
<1>3. Counted = 0 .. headIndex - 1
  BY <1>2 DEF Counted
<1>4. Constructed = tailIndex
  BY DEF Constructed
<1>5. headIndex \in Nat /\ tailIndex \in Nat /\ FirstNo \in Nat /\ BLOCK_SIZE \in Nat \ {0}
  BY Counters
<1>6. Present = headIndex .. tailIndex - 1
  BY <1>2, <1>4, <1>5 DEF Present
<1>7. \A b : ~InHand(b) /\ \A c \in Consumer : ~FreedBy(c, b)
  BY <1>1 DEF InHand, FreedBy
<1>8. ASSUME NEW m \in Int, Linked(m)
      PROVE  m \in 0 .. FirstNo - 1 /\ headIndex <= BLOCK_SIZE * m + BLOCK_SIZE - 1
  <2>1. m \in 0 .. FirstNo - 1 /\ ~Gone(m)
    BY <1>1, <1>8 DEF Linked, InUse, InCall, Clearing
  <2>2. PICK a \in Nat : a = BLOCK_SIZE * m
    BY <1>5, <2>1
  <2>3. PICK j \in Elems(m) : j \notin Counted
    BY <2>1 DEF Gone
  <2>4. j \in Nat /\ j <= a + BLOCK_SIZE - 1 /\ ~(j < headIndex)
    BY <1>3, <1>5, <2>2, <2>3 DEF Elems
  <2> QED
    BY <1>5, <2>1, <2>2, <2>4
<1> QED
  BY <1>1, <1>3, <1>4, <1>6, <1>7, <1>8

\* The lookup of the destructor finds the block of an element that is left.
LEMMA EntryForFinds ==
  ASSUME BaseInv, BlockInv, header # <<>>, NEW off, IndexInv(off),
         NEW i \in Nat, NEW m \in Int, m = BlockNo(i), Linked(m), m < FirstNo
  PROVE  EntryFor(i) = CurAt(off, m) /\ value[EntryFor(i)] \in Block
<1>1. ShapeInv /\ CallInv /\ HeaderInv(off) /\ WindowInv(off) /\ LinkInv(off)
  BY DEF BlockInv, IndexInv
<1>2. PICK j \in 1 .. Len(header) : j = Len(header) /\ Cur = header[j]
  BY <1>1, CurFacts
<1>3. Cur.tail \in 0 .. header[j].capacity - 1
  BY <1>1, <1>2 DEF HeaderInv
<1>4. key[header[j].index[Cur.tail]] # INVALID_BLOCK_BASE
  <2>1. key[Cur.index[Cur.tail]] # INVALID_BLOCK_BASE
    BY <1>1, TailKeyed
  <2> QED
    BY <1>2, <2>1
<1>5. Keyed \in Int
  BY <1>1, CallFacts
<1>6. PositionFor(header[j], Cur.tail, i) = Pos(off, j, m)
  BY <1>1, <1>3, <1>4, <1>5, LookupFinds
<1>7. EntryFor(i) = CurAt(off, m)
  BY <1>2, <1>6 DEF EntryFor, CurAt, At
<1> QED
  BY <1>1, <1>7 DEF LinkInv

\* The destructor finds every block that is in use, and destroys what it holds.
LEMMA DestroyStep ==
  ASSUME BaseInv, BlockInv, Destroy
  PROVE  DestroyedInv'
<1>0. /\ enq.pc = "idle" /\ \A c \in Consumer : pc[c] = "idle"
      /\ enq' = [pc |-> "destroyed"]
      /\ UNCHANGED <<baseVars, dequeued, key, value, header, tailBlock, rd>>
      /\ UNCHANGED <<tailIndex, headIndex, pc, loc>>
  BY DEF Destroy, baseVars
<1> DEFINE left == {value[EntryFor(i)] : i \in headIndex .. BaseOf(tailIndex - 1) - 1}
           last == IF tailBlock # Null /\ (headIndex # tailIndex \/ tailIndex % BLOCK_SIZE # 0)
                   THEN {tailBlock} ELSE {}
<1>1. slot' = [x \in Block \X Place |->
                IF slot[x] \in headIndex .. tailIndex - 1 THEN Null ELSE slot[x]]
  BY DEF Destroy
<1>2. free' = free \cup left \cup last
  BY DEF Destroy
<1>3. ShapeInv /\ CallInv /\ OwnerInv
  BY DEF BlockInv
<1>4. /\ \A c \in Consumer : rd[c].pc = "idle"
      /\ Counted = 0 .. headIndex - 1 /\ Present = headIndex .. tailIndex - 1
      /\ Constructed = tailIndex
      /\ \A b : ~InHand(b) /\ \A c \in Consumer : ~FreedBy(c, b)
      /\ \A m \in Int : Linked(m) =>
           m \in 0 .. FirstNo - 1 /\ headIndex <= BLOCK_SIZE * m + BLOCK_SIZE - 1
  BY <1>0, AtRest
<1>5. \A b \in Block : b \in free \/ \E e \in Entry : value[e] = b
  BY <1>3, <1>4 DEF OwnerInv
<1>6. /\ tailIndex \in Nat /\ headIndex \in Nat /\ headIndex <= tailIndex
      /\ BLOCK_SIZE \in Nat \ {0, 1} /\ FirstNo \in Nat
      /\ tailIndex <= BLOCK_SIZE * FirstNo /\ BLOCK_SIZE * FirstNo < tailIndex + BLOCK_SIZE
  BY Counters
<1>7. /\ free \subseteq Block /\ tailBlock \in Block \cup {Null}
      /\ slot \in [Block \X Place -> 0 .. MaxTail - 1 \cup {Null}]
  BY <1>3 DEF ShapeInv, TypeOK
<1>8. last \subseteq Block
  BY <1>7
<1>9. BaseOf(tailIndex - 1) \in Int /\ BaseOf(tailIndex - 1) <= tailIndex - 1
      /\ BaseOf(tailIndex - 1) = BLOCK_SIZE * BlockNo(tailIndex - 1)
      /\ BlockNo(tailIndex - 1) \in Int
      /\ tailIndex - 1 < BLOCK_SIZE * BlockNo(tailIndex - 1) + BLOCK_SIZE
  <2>1. PICK S \in Nat \ {0} : S = BLOCK_SIZE
    BY <1>6
  <2>2. PICK t \in Int : t = tailIndex - 1
    BY <1>6
  <2>3. PICK q \in Int, r \in 0 .. S - 1 : q = t \div S /\ r = t % S /\ t = S * q + r
    BY DivMod
  <2>4. PICK z \in Int : z = S * q
    OBVIOUS
  <2>5. q * S = z
    BY <2>4
  <2>6. BlockNo(tailIndex - 1) = q /\ BaseOf(tailIndex - 1) = z
    BY <2>1, <2>2, <2>3, <2>5 DEF BaseOf, BlockNo
  <2>7. t = z + r /\ z <= t /\ t < z + S
    BY <2>3, <2>4
  <2> QED
    BY <2>1, <2>2, <2>4, <2>6, <2>7
<1>10. ASSUME header = <<>>
       PROVE  free' = Block /\ \A x \in Block \X Place : slot'[x] = Null
  <2>1. tailIndex = 0 /\ \A e \in Entry : value[e] = Null
    BY <1>3, <1>10 DEF CallInv
  <2>2. free = Block
    BY <1>5, <1>7, <2>1, ImplicitAssumption
  <2>3. headIndex .. BaseOf(tailIndex - 1) - 1 = {}
    BY <1>6, <1>9, <2>1
  <2>4. left = {}
    BY <2>3
  <2>5. \A x \in Block \X Place : slot[x] = Null
    BY <1>10 DEF BlockInv
  <2> QED
    BY <1>1, <1>2, <1>8, <2>2, <2>4, <2>5
<1>11. ASSUME header # <<>>
       PROVE  free' = Block /\ \A x \in Block \X Place : slot'[x] = Null
  <2>1. PICK off \in [1 .. Len(header) -> Int] : IndexInv(off)
    BY <1>11 DEF BlockInv
  <2>2. HeaderInv(off) /\ LinkInv(off) /\ SlotInv(off)
    BY <2>1 DEF IndexInv
  <2>3. \A x \in Block \X Place : slot'[x] = Null
    <3> SUFFICES ASSUME NEW x \in Block \X Place, slot[x] # Null
                 PROVE  slot[x] \in headIndex .. tailIndex - 1
      BY <1>1
    <3>1. PICK y \in Block, z \in Place : x = <<y, z>>
      OBVIOUS
    <3>2. slot[<<y, z>>] \in Present
      BY <2>2, <3>1 DEF SlotInv
    <3> QED
      BY <1>4, <3>1, <3>2
  <2>4. left \subseteq Block
    <3> SUFFICES ASSUME NEW i \in headIndex .. BaseOf(tailIndex - 1) - 1
                 PROVE  value[EntryFor(i)] \in Block
      OBVIOUS
    <3>1. i \in Nat /\ i \in 0 .. tailIndex - 1 /\ i \notin Counted
      BY <1>4, <1>6, <1>9
    <3>2. PICK m \in Int : m = BlockNo(i)
      BY <3>1, NoBase
    <3>3. Linked(m) /\ m < FirstNo
      BY <3>1, <3>2, UncountedInUse, TailElems
    <3> QED
      BY <1>11, <2>1, <3>1, <3>2, <3>3, EntryForFinds
  <2>5. ASSUME NEW b \in Block, b \notin free PROVE b \in left \cup last
    <3>1. PICK e \in Entry : value[e] = b
      BY <1>5, <2>5
    <3>2. PICK m \in Int : Linked(m) /\ e = CurAt(off, m)
      BY <2>2, <3>1, ImplicitAssumption DEF LinkInv
    <3>3. m \in 0 .. FirstNo - 1 /\ headIndex <= BLOCK_SIZE * m + BLOCK_SIZE - 1
      BY <1>4, <3>2
    <3>4. PICK a \in Nat : a = BLOCK_SIZE * m
      BY <1>6, <3>3
    <3>5. PICK t \in Int : t = BlockNo(tailIndex - 1)
      BY <1>9
    <3>6. CASE m < t
      <4>1. PICK i \in Nat : i = a + BLOCK_SIZE - 1
        BY <1>6
      <4>2. i \in Elems(m)
        BY <1>6, <3>4, <4>1 DEF Elems
      <4>3. BlockNo(i) = m
        BY <4>1, <4>2, NoElems
      <4>4. i < BLOCK_SIZE * t
        BY <3>5, <3>6, <4>1, <4>3, NoBefore
      <4>5. i \in headIndex .. BaseOf(tailIndex - 1) - 1
        BY <1>6, <1>9, <3>3, <3>4, <3>5, <4>1, <4>4
      <4>6. m < FirstNo
        BY <1>6, <3>3
      <4>7. EntryFor(i) = e
        BY <1>11, <2>1, <3>2, <4>1, <4>3, <4>6, EntryForFinds
      <4>8. value[EntryFor(i)] \in left
        BY <4>5
      <4> QED
        BY <3>1, <4>7, <4>8
    <3>7. CASE ~(m < t)
      <4>1. m = t
        <5>1. m + 1 <= FirstNo
          BY <1>6, <3>3
        <5>2. PICK T \in Nat, S \in Nat \ {0} : T = tailIndex /\ S = BLOCK_SIZE
          BY <1>6
        <5>3. PICK f \in Nat : f = FirstNo
          BY <1>6
        <5>4. S * f < T + S /\ T - 1 < S * t + S
          BY <1>6, <1>9, <3>5, <5>2, <5>3
        <5>5. S * f < S * (t + 2)
          <6>1. S * (t + 2) = S * t + S + S /\ S * t \in Int
            BY <5>2, <3>5
          <6>2. S * f \in Int
            BY <5>2
          <6> QED
            BY <5>2, <5>4, <6>1, <6>2
        <5>6. f < t + 2
          <6>1. t + 2 \in Int /\ f \in Int
            OBVIOUS
          <6>2. BLOCK_SIZE * f < BLOCK_SIZE * (t + 2) <=> f < t + 2
            BY <6>1, BaseOrder
          <6> QED
            BY <5>2, <5>5, <6>2
        <5> QED
          BY <3>7, <5>1, <5>3, <5>6
      <4>2. tailIndex > 0
        <5>1. m \in Nat /\ m + 1 <= FirstNo
          BY <1>6, <3>3
        <5>2. BLOCK_SIZE * 1 <= BLOCK_SIZE * FirstNo
          BY <1>6, <5>1, BaseOrder
        <5> QED
          BY <1>6, <5>2
      <4>3. ~Gone(m)
        <5>1. a + BLOCK_SIZE - 1 \in Elems(m)
          BY <1>6, <3>4 DEF Elems
        <5>2. a + BLOCK_SIZE - 1 \notin Counted
          BY <1>4, <1>6, <3>3, <3>4
        <5> QED
          BY <5>1, <5>2 DEF Gone
      <4>4. tailBlock = b
        BY <1>4, <2>2, <3>1, <3>2, <3>5, <4>1, <4>2, <4>3 DEF LinkInv
      <4>5. headIndex # tailIndex \/ tailIndex % BLOCK_SIZE # 0
        <5> SUFFICES ASSUME headIndex = tailIndex, tailIndex % BLOCK_SIZE = 0 PROVE FALSE
          OBVIOUS
        <5>1. PICK T \in Nat, S \in Nat \ {0} : T = tailIndex /\ S = BLOCK_SIZE
          BY <1>6
        <5>2. PICK q \in Int : T = S * q + 0
          <6>1. T \div S \in Int /\ T = S * (T \div S) + (T % S)
            BY DivMod
          <6> QED
            BY <5>1, <6>1
        <5>3. a <= T - 1 /\ T <= a + S - 1 /\ a = S * m
          BY <1>9, <3>3, <3>4, <3>5, <4>1, <5>1
        <5>4. S * m < S * q /\ S * q < S * (m + 1)
          <6>1. S * (m + 1) = a + S
            BY <3>4, <5>1, <5>3
          <6> QED
            BY <5>1, <5>2, <5>3, <6>1
        <5>5. m < q /\ q < m + 1
          <6>1. m + 1 \in Int
            OBVIOUS
          <6> QED
            BY <5>1, <5>4, <6>1, BaseOrder
        <5> QED
          BY <5>5
      <4> QED
        BY <4>4, <4>5, ImplicitAssumption
    <3> QED
      BY <3>6, <3>7
  <2> HIDE DEF left, last
  <2>6. free' = Block
    BY <1>2, <1>7, <1>8, <2>4, <2>5
  <2> QED
    BY <2>3, <2>6
<1>12. free' = Block /\ \A x \in Block \X Place : slot'[x] = Null
  BY <1>10, <1>11
<1>13. TypeOK'
  <2>1. BaseTypeOK'
    BY <1>0 DEF BaseInv, BaseTypeOK, baseVars
  <2>2. slot' \in [Block \X Place -> 0 .. MaxTail - 1 \cup {Null}]
    BY <1>1, <1>7
  <2> QED
    BY <1>0, <1>3, <1>12, <2>1, <2>2 DEF ShapeInv, TypeOK
<1> QED
  BY <1>0, <1>4, <1>12, <1>13 DEF DestroyedInv

(***************************************************************************)
(* The elements are in place, and the destructor returns every block       *)
(***************************************************************************)

\* Every step of enqueue_bulk keeps the blocks in place.
LEMMA EnqueueBlocks ==
  ASSUME BaseInv, BlockInv, EnqueueBulk
  PROVE  BlockInv'
<1>1. ASSUME NEW n \in 1 .. MaxBulk, Enqueue(n) PROVE BlockInv'
  BY <1>1, EnqueueStep
<1>2. CASE Room \/ InsertFails \/ ConstructThrows
  BY <1>2, RoomStep, GiveUpStep
<1>3. CASE InsertKey \/ InsertTail \/ NewBlockIndex
  BY <1>3, InsertKeyStep, InsertTailStep, NewBlockIndexStep
<1>4. CASE Requisition \/ RequisitionFails \/ SetValue
  BY <1>4, RequisitionStep, RequisitionFailsStep, SetValueStep
<1>5. CASE Construct \/ EnqueuePublish
  BY <1>5, ConstructStep, EnqueuePublishStep
<1>6. CASE UndoEntry \/ UndoDone
  BY <1>6, UndoEntryStep, UndoDoneStep
<1> QED
  BY <1>1, <1>2, <1>3, <1>4, <1>5, <1>6 DEF EnqueueBulk

\* So does every step of a claim.
LEMMA ClaimBlocks ==
  ASSUME BaseInv, BlockInv, BaseTypeOK', OnlyPublished', UNCHANGED implVars,
         NEW c \in Consumer, (\E max \in 1 .. MaxBulk : LoadTail(c, max)) \/ Claiming(c)
  PROVE  BlockInv'
<1>1. CASE FetchHead(c)
  BY <1>1, FetchHeadBlocks
<1>2. CASE ~FetchHead(c)
  <2>1. /\ UNCHANGED <<tailIndex, headIndex>> /\ pc[c] # "take"
        /\ \E p, l : To(c, p, l) /\ p # "take"
    <3>1. CASE \E max \in 1 .. MaxBulk : LoadTail(c, max)
      <4>1. PICK max \in 1 .. MaxBulk : LoadTail(c, max)
        BY <3>1
      <4>2. UNCHANGED <<tailIndex, headIndex>> /\ pc[c] = "idle"
        BY <4>1 DEF LoadTail
      <4>3. To(c, "overcommit", [Zero EXCEPT !.max = max, !.tail = tailIndex])
        BY <4>1 DEF LoadTail
      <4> QED
        BY <4>2, <4>3
    <3>2. CASE LoadOvercommit(c) \/ SeemsEmpty(c)
      BY <3>2 DEF LoadOvercommit, SeemsEmpty
    <3>3. CASE LoadOptimistic(c)
      BY <3>3 DEF LoadOptimistic
    <3>4. CASE Claim(c)
      BY <3>4 DEF Claim
    <3>5. CASE Reload(c)
      <4>1. /\ UNCHANGED <<tailIndex, headIndex>> /\ pc[c] = "reload"
            /\ \E l : To(c, "give", l) \/ To(c, "head", l)
        BY <3>5 DEF Reload
      <4> QED
        BY <4>1
    <3>6. CASE GiveBack(c)
      <4>1. /\ UNCHANGED <<tailIndex, headIndex>> /\ pc[c] = "give"
            /\ To(c, "idle", Zero) \/ To(c, "head", loc[c])
        BY <3>6 DEF GiveBack
      <4> QED
        BY <4>1
    <3> QED
      BY <1>2, <3>1, <3>2, <3>3, <3>4, <3>5, <3>6 DEF Claiming
  <2> QED
    BY <2>1, ClaimMoves
<1> QED
  BY <1>1, <1>2

\* And every step of dequeue_bulk.
LEMMA DequeueBlocks ==
  ASSUME BaseInv, BlockInv, BaseTypeOK', OnlyPublished', NEW c \in Consumer, DequeueBulk(c)
  PROVE  BlockInv'
<1>1. CASE (\E max \in 1 .. MaxBulk : LoadTail(c, max)) /\ UNCHANGED implVars
  BY <1>1, ClaimBlocks
<1>2. CASE Claiming(c) /\ UNCHANGED implVars
  BY <1>2, ClaimBlocks
<1>3. CASE LoadIndex(c) \/ LoadIndexTail(c) \/ LoadKey(c) \/ LoadValue(c)
  BY <1>3, LoadIndexStep, LoadIndexTailStep, LoadKeyStep, LoadValueStep
<1>4. CASE Move(c) \/ SetManyEmpty(c)
  BY <1>4, MoveStep, SetManyEmptyStep
<1>5. CASE ClearEntry(c) \/ FreeBlock(c)
  BY <1>5, ClearEntryStep, FreeBlockStep
<1>6. CASE NextRun(c)
  BY <1>6, NextEntryStep, LastRunStep
<1> QED
  BY <1>1, <1>2, <1>3, <1>4, <1>5, <1>6 DEF DequeueBulk

\* While the sub-queue is used its blocks are in place; afterwards all are back.
LifeInv == BlockInv \/ DestroyedInv

\* The call in progress is not past the destructor.
LEMMA NotDestroyed ==
  ASSUME BlockInv
  PROVE  enq.pc # "destroyed"
  BY EnqFields DEF BlockInv, ShapeInv, Step

\* Every step of the sub-queue keeps the invariant.
LEMMA LifeStep ==
  ASSUME BaseInv, LifeInv, BaseTypeOK', OnlyPublished', [Next]_vars
  PROVE  LifeInv'
<1>1. CASE BlockInv /\ Next
  <2>1. CASE EnqueueBulk
    BY <1>1, <2>1, EnqueueBlocks DEF LifeInv
  <2>2. CASE \E c \in Consumer : DequeueBulk(c)
    BY <1>1, <2>2, DequeueBlocks DEF LifeInv
  <2>3. CASE Destroy
    BY <1>1, <2>3, DestroyStep DEF LifeInv
  <2> QED
    BY <1>1, <2>1, <2>2, <2>3 DEF Next
<1>2. CASE DestroyedInv /\ Next
  <2>1. enq.pc = "destroyed"
    BY <1>2 DEF DestroyedInv
  <2>2. ~Destroy
    BY <2>1 DEF Destroy
  <2>3. ~EnqueueBulk
    BY <2>1 DEF EnqueueBulk, Enqueue, Room, InsertKey, InsertTail, NewBlockIndex, InsertFails,
                Requisition, RequisitionFails, SetValue, Construct, ConstructThrows, UndoEntry,
                UndoDone, EnqueuePublish
  <2> QED
    BY <1>2, <2>1, <2>2, <2>3 DEF Next
<1>3. CASE DestroyedInv /\ UNCHANGED vars
  BY <1>3 DEF vars, baseVars, implVars, LifeInv, DestroyedInv, TypeOK, BaseTypeOK
<1>4. CASE BlockInv /\ UNCHANGED vars
  <2>0. UNCHANGED <<baseVars, free, slot, dequeued, key, value, header, tailBlock, enq, rd>>
    BY <1>4 DEF vars, implVars
  <2>1. UNCHANGED <<tailIndex, headIndex, pc, loc>> /\ BlockInv
    BY <1>4, <2>0 DEF baseVars
  <2>2. ASSUME NEW c \in Consumer
        PROVE  /\ Uncounted(c)' = Uncounted(c) /\ Unmoved(c)' = Unmoved(c)
               /\ \A m : Clearing(c, m)' <=> Clearing(c, m)
               /\ \A b : FreedBy(c, b)' <=> FreedBy(c, b)
    BY <2>0, <2>1, ConsumersStay
  <2>3. Counted' = Counted
    BY <2>1, <2>2 DEF Counted
  <2>4. Present' = Present
    BY <2>0, <2>1, <2>2 DEF Present, Constructed
  <2>5. OwnerInv'
    BY <2>0, <2>1, <2>2, OwnerStays
  <2>6. \A off : header # <<>> /\ IndexInv(off) => ReaderInv(off)'
    <3> SUFFICES ASSUME NEW off, IndexInv(off), NEW d \in Consumer PROVE ReaderAt(off, d)'
      BY DEF ReaderInv
    <3>1. ReaderAt(off, d)
      BY DEF IndexInv, ReaderInv
    <3> QED
      BY <2>0, <2>1, <2>2, <2>3, <3>1, OtherReader
  <2>7. header = <<>> => \A d \in Consumer : pc'[d] # "take" /\ rd'[d].pc = "idle"
    BY <2>0, <2>1 DEF BlockInv
  <2>8. free' \subseteq Block /\ rd' \in [Consumer -> Rd]
    BY <2>0, <2>1 DEF BlockInv, ShapeInv, TypeOK
  <2> QED
    BY <2>0, <2>1, <2>2, <2>3, <2>4, <2>5, <2>6, <2>7, <2>8, ReadStep DEF LifeInv
<1> QED
  BY <1>1, <1>2, <1>3, <1>4 DEF LifeInv

\* The invariant puts the blocks in place.
LEMMA LifeInPlace ==
  ASSUME BaseInv, LifeInv
  PROVE  BlocksInPlace
<1>1. CASE DestroyedInv
  <2>1. TypeOK /\ enq.pc = "destroyed" /\ \A c \in Consumer : rd[c].pc = "idle"
    BY <1>1 DEF DestroyedInv
  <2>2. \A b \in free : \A s \in Place : slot[<<b, s>>] = Null
    BY <1>1 DEF DestroyedInv
  <2> QED
    BY <2>1, <2>2 DEF BlocksInPlace, LookupHits, ReadsOwnElements, PoolBlocksUnused
<1>2. CASE BlockInv
  <2>1. ShapeInv /\ CallInv /\ OwnerInv /\ TypeOK /\ free \subseteq Block
    BY <1>2 DEF BlockInv, ShapeInv, TypeOK
  <2>2. Null \notin Block
    BY ImplicitAssumption
  <2>3. ASSUME NEW c \in Consumer, rd[c].pc \in {"value", "move", "count", "clear"}
        PROVE  \E off : /\ IndexInv(off) /\ header # <<>>
                        /\ EntryOf(c) = CurAt(off, BlockNo(rd[c].i)) /\ EntryOf(c) \in Entry
                        /\ key[EntryOf(c)] = BLOCK_SIZE * BlockNo(rd[c].i)
                        /\ value[EntryOf(c)] \in Block /\ value[EntryOf(c)] \notin free
                        /\ rd[c].pc # "value" => rd[c].block = value[EntryOf(c)]
    <3>1. header # <<>>
      BY <1>2, <2>3, Taking
    <3>2. PICK off \in [1 .. Len(header) -> Int] : IndexInv(off)
      BY <1>2, <3>1 DEF BlockInv
    <3>3. /\ EntryOf(c) = CurAt(off, BlockNo(rd[c].i)) /\ EntryOf(c) \in Entry
          /\ key[EntryOf(c)] = BLOCK_SIZE * BlockNo(rd[c].i) /\ value[EntryOf(c)] \in Block
      BY <2>1, <2>3, <3>1, <3>2, EntryFound
    <3>4. value[EntryOf(c)] \notin free
      BY <2>1, <3>3 DEF OwnerInv
    <3>5. rd[c].pc # "value" => rd[c].block = value[EntryOf(c)]
      BY <2>3, <3>2, <3>3 DEF IndexInv, ReaderInv, ReaderAt
    <3> QED
      BY <3>1, <3>2, <3>3, <3>4, <3>5
  <2>4. LookupHits
    <3> SUFFICES ASSUME NEW c \in Consumer, rd[c].pc = "value"
                 PROVE  key[EntryOf(c)] = BaseOf(rd[c].i) /\ value[EntryOf(c)] # Null
      BY DEF LookupHits
    <3>1. key[EntryOf(c)] = BLOCK_SIZE * BlockNo(rd[c].i) /\ value[EntryOf(c)] \in Block
      BY <2>3
    <3>2. rd[c].i \in Nat
      BY <2>1, RdFields
    <3> QED
      BY <2>2, <3>1, <3>2, NoBase
  <2>5. ReadsOwnElements
    <3> SUFFICES ASSUME NEW c \in Consumer, rd[c].pc = "move"
                 PROVE  /\ rd[c].block \in Block \ free
                        /\ \A i \in Run(c) : slot[<<rd[c].block, i % BLOCK_SIZE>>] = i
      BY DEF ReadsOwnElements
    <3>1. PICK off : /\ IndexInv(off) /\ EntryOf(c) = CurAt(off, BlockNo(rd[c].i))
                     /\ value[EntryOf(c)] \in Block /\ value[EntryOf(c)] \notin free
                     /\ rd[c].block = value[EntryOf(c)]
      BY <2>3
    <3>2. ReaderInv(off) /\ SlotInv(off) /\ pc[c] = "take"
      BY <3>1 DEF IndexInv, ReaderInv, ReaderAt
    <3>3. ASSUME NEW i \in Run(c) PROVE slot[<<rd[c].block, i % BLOCK_SIZE>>] = i
      <4>1. i \in Nat /\ BlockNo(i) = BlockNo(rd[c].i) /\ i \in Uncounted(c) /\ i < headIndex
        BY <2>1, <3>2, <3>3, RunBlock
      <4>2. i \in Unmoved(c)
        BY <3>2, <4>1 DEF Uncounted, Unmoved, FirstUncounted, FirstUnmoved
      <4>3. i \in 0 .. Constructed - 1
        <5>1. tailIndex \in Nat /\ headIndex \in Nat /\ headIndex <= tailIndex
          BY Counters
        <5>2. enq.pc = "publish" => enq.n \in Nat
          BY <2>1, EnqFields DEF ShapeInv, Step
        <5>3. Constructed \in Nat /\ tailIndex <= Constructed
          BY <5>1, <5>2 DEF Constructed
        <5> QED
          BY <4>1, <5>1, <5>3
      <4>4. i \in Present
        BY <4>2, <4>3 DEF Present
      <4> QED
        BY <3>1, <3>2, <4>1, <4>4 DEF SlotInv
    <3> QED
      BY <3>1, <3>3
  <2>6. PoolBlocksUnused
    <3> SUFFICES ASSUME NEW b \in free
                 PROVE  /\ \A e \in Entry : value[e] # b
                        /\ \A s \in Place : slot[<<b, s>>] = Null
                        /\ \A c \in Consumer : rd[c].pc \in {"move", "count", "clear", "free"}
                             => rd[c].block # b
      BY DEF PoolBlocksUnused
    <3>1. \A e \in Entry : value[e] # b
      BY <2>1 DEF OwnerInv
    <3>2. ASSUME NEW s \in Place PROVE slot[<<b, s>>] = Null
      <4>1. CASE header = <<>>
        BY <1>2, <2>1, <4>1 DEF BlockInv
      <4>2. CASE header # <<>>
        <5>1. PICK off \in [1 .. Len(header) -> Int] : IndexInv(off)
          BY <1>2, <4>2 DEF BlockInv
        <5>2. HeaderInv(off) /\ ReaderInv(off) /\ SlotInv(off)
          BY <5>1 DEF IndexInv
        <5>3. b \in Block
          BY <2>1
        <5> SUFFICES ASSUME slot[<<b, s>>] # Null PROVE FALSE
          OBVIOUS
        <5>4. PICK j \in Present : value[CurAt(off, BlockNo(j))] = b
          BY <3>2, <5>2, <5>3 DEF SlotInv
        <5>5. BlockNo(j) \in Int
          BY <2>1, <5>2, PresentLinked
        <5>6. CurAt(off, BlockNo(j)) \in Entry
          BY <2>1, <4>2, <5>2, <5>5, CurType
        <5> QED
          BY <3>1, <5>4, <5>6
      <4> QED
        BY <4>1, <4>2
    <3>3. ASSUME NEW c \in Consumer, rd[c].pc \in {"move", "count", "clear", "free"}
          PROVE  rd[c].block # b
      <4>1. CASE rd[c].pc = "free"
        <5>1. rd[c].block \in Block /\ FreedBy(c, rd[c].block)
          BY <2>1, <4>1, RdFields DEF FreedBy
        <5> QED
          BY <2>1, <5>1 DEF OwnerInv
      <4>2. CASE rd[c].pc # "free"
        BY <2>3, <3>3, <4>2
      <4> QED
        BY <4>1, <4>2
    <3> QED
      BY <3>1, <3>2, <3>3
  <2> QED
    BY <2>1, <2>4, <2>5, <2>6 DEF BlocksInPlace
<1> QED
  BY <1>1, <1>2 DEF LifeInv

\* The invariant holds in every reachable state of the implicit producer.
LEMMA LifeAlways == Spec => [](BaseInv /\ LifeInv)
<1>1. Init => BaseInv /\ CountKept /\ LifeInv
  BY ImplicitInit, BaseInvInit, InitBlocks DEF LifeInv
<1>2. BaseInv /\ CountKept /\ [Next]_vars => BaseInv' /\ CountKept'
  BY ImplicitStep, BaseInvNext
<1>3. BaseInv /\ LifeInv /\ BaseInv' /\ OnlyPublished' /\ [Next]_vars => LifeInv'
  BY LifeStep DEF BaseInv
<1>4. BaseInv => OnlyPublished
  BY HeadBehindTail
<1> QED
  BY <1>1, <1>2, <1>3, <1>4, PTL DEF Spec

\* Consumers find their elements where they look, for every value of the
\* constants: whatever the producer inserts, grows, rewinds or undoes, and in
\* whatever order consumers count, clear and return blocks, no lookup misses, no
\* consumer reads a place that is not its element's, and no block goes back to
\* the pool while an element, an entry or a consumer still refers to it.
THEOREM ImplicitBlocksInPlace == Spec => []BlocksInPlace
<1>1. BaseInv /\ LifeInv => BlocksInPlace
  BY LifeInPlace
<1> QED
  BY <1>1, LifeAlways, PTL

\* The destructor of the implicit producer loses no block and leaves no element,
\* whatever failed, threw or was undone before.
THEOREM ImplicitDestroyReturnsAll == Spec => []DestroyReturnsAll
<1>1. LifeInv => DestroyReturnsAll
  BY NotDestroyed DEF LifeInv, DestroyedInv, DestroyReturnsAll
<1> QED
  BY <1>1, LifeAlways, PTL

(***************************************************************************)
(* ExplicitProducer implements the counter protocol too.  It is another    *)
(* class: what it has beside the fields it shares with ImplicitProducer is *)
(* declared here, and of the two only one has a behaviour at a time.       *)
(***************************************************************************)
CONSTANTS MayFail, MayThrow
VARIABLES empty, nxt, slotsUsed, indexSize, indexFront

Explicit == INSTANCE ExplicitProducer

\* The inductive invariant: a call in progress remembers its count.
CallKept ==
  \/ "n" \in DOMAIN enq /\ enq.n \in 1..MaxBulk
  \/ enq = [pc |-> "idle"]
  \/ enq = [pc |-> "destroyed"]

\* Every step of enqueue_bulk keeps the count, and is a publication of 1 to
\* MaxBulk elements or leaves the counters alone.
LEMMA ExplicitEnqueueStep ==
  ASSUME CallKept, Explicit!EnqueueBulk
  PROVE  CallKept' /\ [Explicit!BaseNext]_(Explicit!baseVars)
<1> USE DEF Explicit!Idle
<1>1. ASSUME NEW n \in 1..MaxBulk, Explicit!Enqueue(n)
      PROVE  CallKept' /\ UNCHANGED Explicit!baseVars
  <2>1. "n" \in DOMAIN enq' /\ enq'.n = n
    BY <1>1 DEF Explicit!Enqueue
  <2>2. UNCHANGED Explicit!baseVars
    BY <1>1 DEF Explicit!Enqueue
  <2> QED
    BY <2>1, <2>2, <1>1 DEF CallKept
<1>2. ASSUME Explicit!Reuse \/ Explicit!NoReuse \/ Explicit!Room
               \/ Explicit!NewBlockIndex \/ Explicit!Requisition
               \/ Explicit!AllocationFails \/ Explicit!ResetEmpty
               \/ Explicit!Construct \/ Explicit!SetFront
      PROVE  CallKept' /\ UNCHANGED Explicit!baseVars
  <2>0. enq.pc \in {"ahead", "room", "index", "block", "reset", "construct", "front"}
    BY <1>2 DEF Explicit!Reuse, Explicit!NoReuse, Explicit!Room,
       Explicit!NewBlockIndex, Explicit!Requisition, Explicit!AllocationFails,
       Explicit!ResetEmpty, Explicit!Construct, Explicit!SetFront
  <2>1. "n" \in DOMAIN enq /\ enq.n \in 1..MaxBulk
    BY <2>0 DEF CallKept
  <2>2. "n" \in DOMAIN enq' /\ enq'.n = enq.n
    BY <1>2, <2>1 DEF Explicit!Reuse, Explicit!NoReuse, Explicit!Room,
       Explicit!NewBlockIndex, Explicit!Requisition, Explicit!AllocationFails,
       Explicit!ResetEmpty, Explicit!Construct, Explicit!SetFront, Explicit!Have
  <2>3. UNCHANGED Explicit!baseVars
    BY <1>2 DEF Explicit!Reuse, Explicit!NoReuse, Explicit!Room,
       Explicit!NewBlockIndex, Explicit!Requisition, Explicit!AllocationFails,
       Explicit!ResetEmpty, Explicit!Construct, Explicit!SetFront
  <2> QED
    BY <2>1, <2>2, <2>3 DEF CallKept
<1>3. ASSUME Explicit!EnqueueFails \/ Explicit!ConstructThrows
      PROVE  CallKept' /\ UNCHANGED Explicit!baseVars
  BY <1>3 DEF Explicit!EnqueueFails, Explicit!ConstructThrows, Explicit!Revert, CallKept
<1>4. ASSUME Explicit!EnqueuePublish
      PROVE  CallKept' /\ \E n \in 1..MaxBulk : Explicit!Publish(n)
  <2>1. enq.n \in 1..MaxBulk
    BY <1>4 DEF Explicit!EnqueuePublish, CallKept
  <2> QED
    BY <1>4, <2>1 DEF Explicit!EnqueuePublish, CallKept
<1> QED
  BY <1>1, <1>2, <1>3, <1>4 DEF Explicit!EnqueueBulk, Explicit!BaseNext

\* Every step of dequeue_bulk is one of the protocol's steps of that consumer,
\* or looks at blocks and leaves the counters alone.
LEMMA ExplicitDequeueStep ==
  ASSUME CallKept, NEW c \in Consumer, Explicit!DequeueBulk(c)
  PROVE  CallKept' /\ [Explicit!BaseNext]_(Explicit!baseVars)
<1>1. ASSUME NEW max \in 1..MaxBulk, Explicit!LoadTail(c, max), UNCHANGED Explicit!explVars
      PROVE  enq' = enq /\ Explicit!BaseNext
  BY <1>1 DEF Explicit!BaseNext, Explicit!explVars
<1>2. ASSUME Explicit!Claiming(c), UNCHANGED Explicit!explVars
      PROVE  enq' = enq /\ Explicit!BaseNext
  BY <1>2 DEF Explicit!BaseNext, Explicit!explVars
<1>3. ASSUME Explicit!LoadIndex(c) \/ Explicit!LoadFront(c) \/ Explicit!LoadBase(c)
               \/ Explicit!LoadBlock(c) \/ Explicit!Move(c)
      PROVE  enq' = enq /\ UNCHANGED Explicit!baseVars
  BY <1>3 DEF Explicit!LoadIndex, Explicit!LoadFront, Explicit!LoadBase,
     Explicit!LoadBlock, Explicit!Move, Explicit!Unread
<1>4. ASSUME Explicit!SetManyEmpty(c)
      PROVE  enq' = enq /\ (UNCHANGED Explicit!baseVars \/ Explicit!Taken(c))
  BY <1>4 DEF Explicit!SetManyEmpty
<1>5. enq' = enq /\ [Explicit!BaseNext]_(Explicit!baseVars)
  BY <1>1, <1>2, <1>3, <1>4 DEF Explicit!DequeueBulk, Explicit!BaseNext
<1> QED
  BY <1>5 DEF CallKept

\* A step of the detailed sub-queue is a step of the protocol or a stutter.
LEMMA ExplicitStep ==
  ASSUME CallKept, [Explicit!Next]_(Explicit!vars)
  PROVE  CallKept' /\ [Explicit!BaseNext]_(Explicit!baseVars)
<1>1. CASE Explicit!EnqueueBulk
  BY <1>1, ExplicitEnqueueStep
<1>2. CASE \E c \in Consumer : Explicit!DequeueBulk(c)
  BY <1>2, ExplicitDequeueStep
<1>3. CASE Explicit!Destroy
  BY <1>3 DEF Explicit!Destroy, CallKept
<1>4. CASE UNCHANGED Explicit!vars
  BY <1>4 DEF Explicit!vars, Explicit!explVars, CallKept
<1> QED
  BY <1>1, <1>2, <1>3, <1>4 DEF Explicit!Next

\* The protocol is the same in both classes.
LEMMA SameProtocol ==
  /\ Explicit!BaseInit => BaseInit
  /\ [Explicit!BaseNext]_(Explicit!baseVars) => [BaseNext]_baseVars
<1>1. Explicit!BaseInit => BaseInit
  BY DEF Explicit!BaseInit, BaseInit, Explicit!Zero, Zero
<1>2. UNCHANGED Explicit!baseVars => UNCHANGED baseVars
  BY DEF Explicit!baseVars, baseVars
<1>3. ASSUME NEW n \in 1..MaxBulk, Explicit!Publish(n) PROVE BaseNext
  BY <1>3 DEF Explicit!Publish, Publish, BaseNext
<1>4. ASSUME NEW c \in Consumer, NEW max \in 1..MaxBulk, Explicit!LoadTail(c, max)
      PROVE  BaseNext
  <2>1. LoadTail(c, max)
    BY <1>4 DEF Explicit!LoadTail, LoadTail, Explicit!To, To, Explicit!Zero, Zero
  <2> QED
    BY <2>1 DEF BaseNext
<1>5. ASSUME NEW c \in Consumer, Explicit!Claiming(c) PROVE BaseNext
  <2>1. Claiming(c)
    BY <1>5 DEF Explicit!Claiming, Claiming, Explicit!To, To, Explicit!Zero, Zero,
       Explicit!Least, Least, Explicit!LoadOvercommit, LoadOvercommit,
       Explicit!SeemsEmpty, SeemsEmpty, Explicit!LoadOptimistic, LoadOptimistic,
       Explicit!Claim, Claim, Explicit!Reload, Reload, Explicit!GiveBack, GiveBack,
       Explicit!Failed, Failed, Explicit!FetchHead, FetchHead, Explicit!Succeeded,
       Succeeded
  <2> QED
    BY <2>1 DEF BaseNext
<1>6. ASSUME NEW c \in Consumer, Explicit!Taken(c) PROVE BaseNext
  <2>1. Taken(c)
    BY <1>6 DEF Explicit!Taken, Taken, Explicit!To, To, Explicit!Zero, Zero
  <2> QED
    BY <2>1 DEF BaseNext
<1> QED
  BY <1>1, <1>2, <1>3, <1>4, <1>5, <1>6 DEF Explicit!BaseNext

\* The sub-queue behind a ProducerToken, with its ring of blocks and its index,
\* implements the counter protocol, for every value of the constants.
THEOREM ExplicitImplementsBase == Explicit!Spec => ImplementsBase
<1>1. Explicit!Init => BaseInit /\ CallKept
  BY SameProtocol DEF Explicit!Init, Explicit!Idle, CallKept
<1>2. CallKept /\ [Explicit!Next]_(Explicit!vars) => CallKept' /\ [BaseNext]_baseVars
  BY ExplicitStep, SameProtocol
<1> QED
  BY <1>1, <1>2, PTL DEF Explicit!Spec, ImplementsBase, BaseSpec

\* With a ProducerToken too, no consumer gets an element that is not published,
\* no two get the same one, and none is hidden from all of them once the open
\* claims are settled.
THEOREM ExplicitTakesExactlyOnce == Explicit!Spec => []ClaimsSound
<1>1. Explicit!Spec => BaseSpec
  BY ExplicitImplementsBase DEF ImplementsBase
<1> QED
  BY <1>1, ClaimsAreSound, PTL
===============================================================================
