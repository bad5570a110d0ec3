----------------------- MODULE Recommendations_proofs -----------------------
(* Proofs about what is recommended (module Recommendations): the list of  *)
(* the recent foods, the restaurants and the counters.                     *)
EXTENDS Recommendations, FiniteSetTheorems, TLAPS

-----------------------------------------------------------------------------
(* Sums over finite sets, as the folds of the libraries define them.  An   *)
(* induction is stated with a set of numbers, since the provers cannot     *)
(* instantiate a theorem about P(_).                                       *)

LEMMA NatSetInduction ==
  ASSUME NEW W, 0 \in W, \A n \in Nat : n \in W => n + 1 \in W
  PROVE  Nat \subseteq W
<1> DEFINE Missing == Nat \ W
<1> SUFFICES ASSUME Missing # {} PROVE FALSE
  OBVIOUS
<1>1. PICK n \in Missing : \A m \in Missing : <<m, n>> \notin OpToRel(<, Nat)
  <2>1. Missing \subseteq Nat
    OBVIOUS
  <2> HIDE DEF Missing
  <2>2. QED
    BY <2>1, WFMin, NatLessThanWellFounded
<1>2. \A m \in Missing : ~(m < n)
  BY <1>1 DEF OpToRel
<1>3. n # 0 /\ n - 1 \in Nat /\ n - 1 < n /\ n = (n - 1) + 1
  OBVIOUS
<1>4. n - 1 \in W
  BY <1>2, <1>3
<1>5. QED
  BY <1>3, <1>4

First(W) == CHOOSE x \in W : TRUE
Summand(H, g, s) == IF s = {} THEN 0 ELSE g[First(s)] + H[s \ {First(s)}]

(* H sums g over the subsets of W.                                         *)
IsSum(H, g, W) == H = [s \in SUBSET W |-> Summand(H, g, s)]
SetSum(g, W) == (CHOOSE K : IsSum(K, g, W))[W]

LEMMA FirstIn == \A W : W # {} => First(W) \in W
BY DEF First

LEMMA Smaller ==
  ASSUME NEW W, IsFiniteSet(W), NEW x \in W
  PROVE  /\ IsFiniteSet(W \ {x}) /\ Cardinality(W) \in Nat \ {0}
         /\ Cardinality(W \ {x}) = Cardinality(W) - 1
<1>1. Cardinality(W) \in Nat /\ Cardinality(W) # 0
  BY FS_CardinalityType, FS_EmptySet
<1>2. QED
  BY <1>1, FS_RemoveElement

LEMMA SetSumExists ==
  ASSUME NEW W, IsFiniteSet(W), NEW g
  PROVE  IsSum(CHOOSE K : IsSum(K, g, W), g, W)
<1> DEFINE Up(n) == {s \in SUBSET W : Cardinality(s) <= n}
           Sums == {n \in Nat : \E H : H = [s \in Up(n) |-> Summand(H, g, s)]}
<1>0. \A s \in SUBSET W : IsFiniteSet(s) /\ Cardinality(s) \in Nat
  BY FS_Subset, FS_CardinalityType
<1>1. 0 \in Sums
  <2>1. Up(0) = {{}}
    BY <1>0, FS_EmptySet
  <2>2. [s \in Up(0) |-> 0] = [s \in Up(0) |-> Summand([t \in Up(0) |-> 0], g, s)]
    BY <2>1 DEF Summand
  <2>3. QED
    BY <2>2
<1>2. ASSUME NEW n \in Nat, n \in Sums PROVE n + 1 \in Sums
  <2>1. PICK H : H = [s \in Up(n) |-> Summand(H, g, s)]
    BY <1>2
  <2> DEFINE G == [s \in Up(n + 1) |-> IF Cardinality(s) = n + 1 THEN Summand(H, g, s) ELSE H[s]]
  <2>2. ASSUME NEW s \in Up(n + 1), s # {} PROVE s \ {First(s)} \in Up(n)
    <3>1. First(s) \in s /\ IsFiniteSet(s) /\ Cardinality(s) \in Nat /\ Cardinality(s) <= n + 1
      BY <1>0, <2>2, FirstIn
    <3>2. Cardinality(s \ {First(s)}) = Cardinality(s) - 1
      BY <3>1, Smaller
    <3>3. QED
      BY <2>2, <3>1, <3>2
  <2>3. \A s \in Up(n) : s \in Up(n + 1) /\ G[s] = H[s]
    BY <1>0
  <2>4. ASSUME NEW s \in Up(n + 1) PROVE G[s] = Summand(G, g, s)
    <3>1. Summand(G, g, s) = Summand(H, g, s)
      BY <2>2, <2>3 DEF Summand
    <3>2. CASE Cardinality(s) = n + 1
      BY <3>1, <3>2
    <3>3. CASE Cardinality(s) # n + 1
      <4>1. s \in Up(n)
        BY <1>0, <3>3
      <4> HIDE DEF G
      <4>2. H[s] = Summand(H, g, s)
        BY <2>1, <4>1
      <4>3. QED
        BY <2>3, <3>1, <4>1, <4>2
    <3>4. QED
      BY <3>2, <3>3
  <2>5. G = [s \in Up(n + 1) |-> Summand(G, g, s)]
    BY <2>4
  <2> HIDE DEF G, Up
  <2>6. \E K : K = [s \in Up(n + 1) |-> Summand(K, g, s)]
    BY <2>5
  <2>7. QED
    BY <2>6
<1>3. Nat \subseteq Sums
  <2> HIDE DEF Sums
  <2>1. QED
    BY <1>1, <1>2, NatSetInduction
<1>4. PICK n \in Nat : n = Cardinality(W)
  BY FS_CardinalityType
<1>5. Up(n) = SUBSET W
  BY <1>0, <1>4, FS_Subset
<1>6. \E K : IsSum(K, g, W)
  BY <1>3, <1>5 DEF IsSum
<1>7. QED
  BY <1>6

LEMMA SetSumEmpty == ASSUME NEW g PROVE SetSum(g, {}) = 0
<1>1. PICK H : H = CHOOSE K : IsSum(K, g, {})
  OBVIOUS
<1>2. IsSum(H, g, {})
  BY <1>1, SetSumExists, FS_EmptySet
<1>3. H[{}] = 0
  BY <1>2 DEF IsSum, Summand
<1>4. QED
  BY <1>1, <1>3 DEF SetSum

(* Whatever sums g over a larger set sums it over W.                       *)
LEMMA SumsAgree ==
  ASSUME NEW T, NEW g, NEW H, IsSum(H, g, T), NEW U, NEW h, NEW G, IsSum(G, h, U),
         NEW W, IsFiniteSet(W), W \subseteq T, W \subseteq U, \A x \in W : g[x] = h[x]
  PROVE  H[W] = G[W]
<1> DEFINE Same == {n \in Nat : \A s \in SUBSET W : Cardinality(s) = n => H[s] = G[s]}
<1>0. /\ \A s \in SUBSET W : IsFiniteSet(s) /\ Cardinality(s) \in Nat /\ (Cardinality(s) = 0 => s = {})
      /\ \A s \in SUBSET W : H[s] = Summand(H, g, s) /\ G[s] = Summand(G, h, s)
  BY FS_Subset, FS_CardinalityType, FS_EmptySet DEF IsSum
<1>1. 0 \in Same
  BY <1>0 DEF Summand
<1>2. ASSUME NEW n \in Nat, n \in Same PROVE n + 1 \in Same
  <2> SUFFICES ASSUME NEW s \in SUBSET W, Cardinality(s) = n + 1 PROVE H[s] = G[s]
    OBVIOUS
  <2>1. s # {}
    BY <1>0, FS_EmptySet
  <2>2. PICK x \in s : x = First(s)
    BY <2>1, FirstIn
  <2>3. Cardinality(s \ {x}) = n /\ s \ {x} \in SUBSET W
    <3>1. IsFiniteSet(s)
      BY <1>0
    <3>2. Cardinality(s \ {x}) = n + 1 - 1
      BY <3>1, Smaller
    <3>3. QED
      BY <3>2
  <2>4. H[s \ {x}] = G[s \ {x}] /\ g[x] = h[x]
    BY <1>2, <2>3
  <2>5. H[s] = g[x] + H[s \ {x}] /\ G[s] = h[x] + G[s \ {x}]
    BY <1>0, <2>1, <2>2 DEF Summand
  <2>6. QED
    BY <2>4, <2>5
<1>3. Nat \subseteq Same
  <2> HIDE DEF Same
  <2>1. QED
    BY <1>1, <1>2, NatSetInduction
<1>4. QED
  BY <1>0, <1>3

LEMMA SetSumFirst ==
  ASSUME NEW W, IsFiniteSet(W), W # {}, NEW g
  PROVE  SetSum(g, W) = g[First(W)] + SetSum(g, W \ {First(W)})
<1> DEFINE T == W \ {First(W)}
<1>1. PICK H, G : H = (CHOOSE K : IsSum(K, g, W)) /\ G = (CHOOSE K : IsSum(K, g, T))
  OBVIOUS
<1>2. First(W) \in W /\ IsFiniteSet(T)
  BY FirstIn, Smaller
<1>3. IsSum(H, g, W) /\ IsSum(G, g, T)
  BY <1>1, <1>2, SetSumExists
<1>4. H[T] = G[T]
  BY <1>2, <1>3, SumsAgree
<1>5. H[W] = g[First(W)] + H[T]
  BY <1>3 DEF IsSum, Summand
<1>6. QED
  BY <1>1, <1>4, <1>5 DEF SetSum

LEMMA SetSumIs ==
  ASSUME NEW W, IsFiniteSet(W), NEW g, NEW H, IsSum(H, g, W)
  PROVE  H[W] = SetSum(g, W)
<1>1. PICK G : G = (CHOOSE K : IsSum(K, g, W))
  OBVIOUS
<1>2. IsSum(G, g, W)
  BY <1>1, SetSumExists
<1>3. QED
  BY <1>1, <1>2, SumsAgree DEF SetSum

LEMMA SetSumSame ==
  ASSUME NEW W, IsFiniteSet(W), NEW g, NEW h, \A x \in W : g[x] = h[x]
  PROVE  SetSum(g, W) = SetSum(h, W)
<1>1. PICK H, G : H = (CHOOSE K : IsSum(K, g, W)) /\ G = (CHOOSE K : IsSum(K, h, W))
  OBVIOUS
<1>2. IsSum(H, g, W) /\ IsSum(G, h, W)
  BY <1>1, SetSumExists
<1>3. QED
  BY <1>1, <1>2, SumsAgree DEF SetSum

LEMMA SetSumNat ==
  ASSUME NEW W, IsFiniteSet(W), NEW g, \A x \in W : g[x] \in Nat
  PROVE  SetSum(g, W) \in Nat
<1> DEFINE Good == {n \in Nat : \A s \in SUBSET W : Cardinality(s) = n => SetSum(g, s) \in Nat}
<1>0. \A s \in SUBSET W : IsFiniteSet(s) /\ Cardinality(s) \in Nat /\ (Cardinality(s) = 0 => s = {})
  BY FS_Subset, FS_CardinalityType, FS_EmptySet
<1>1. 0 \in Good
  BY <1>0, SetSumEmpty
<1>2. ASSUME NEW n \in Nat, n \in Good PROVE n + 1 \in Good
  <2> SUFFICES ASSUME NEW s \in SUBSET W, Cardinality(s) = n + 1 PROVE SetSum(g, s) \in Nat
    OBVIOUS
  <2>1. s # {}
    BY <1>0, FS_EmptySet
  <2>2. PICK x \in s : x = First(s)
    BY <2>1, FirstIn
  <2>3. Cardinality(s \ {x}) = n /\ s \ {x} \in SUBSET W
    <3>1. IsFiniteSet(s)
      BY <1>0
    <3>2. Cardinality(s \ {x}) = n + 1 - 1
      BY <3>1, Smaller
    <3>3. QED
      BY <3>2
  <2>4. SetSum(g, s \ {x}) \in Nat /\ g[x] \in Nat
    BY <1>2, <2>3
  <2>5. SetSum(g, s) = g[x] + SetSum(g, s \ {x})
    BY <1>0, <2>1, <2>2, SetSumFirst
  <2>6. QED
    BY <2>4, <2>5
<1>3. Nat \subseteq Good
  <2> HIDE DEF Good
  <2>1. QED
    BY <1>1, <1>2, NatSetInduction
<1>4. QED
  BY <1>0, <1>3

(* A sum may begin with any element.                                       *)
LEMMA SetSumRemove ==
  ASSUME NEW W, IsFiniteSet(W), NEW g, \A y \in W : g[y] \in Nat, NEW x \in W
  PROVE  SetSum(g, W) = g[x] + SetSum(g, W \ {x})
<1> DEFINE Good == {n \in Nat : \A s \in SUBSET W : Cardinality(s) = n =>
                                  \A y \in s : SetSum(g, s) = g[y] + SetSum(g, s \ {y})}
<1>0. \A s \in SUBSET W : /\ IsFiniteSet(s) /\ Cardinality(s) \in Nat /\ (Cardinality(s) = 0 => s = {})
                          /\ SetSum(g, s) \in Nat
  BY FS_Subset, FS_CardinalityType, FS_EmptySet, SetSumNat
<1>1. 0 \in Good
  BY <1>0
<1>2. ASSUME NEW n \in Nat, n \in Good PROVE n + 1 \in Good
  <2> SUFFICES ASSUME NEW s \in SUBSET W, Cardinality(s) = n + 1, NEW y \in s
               PROVE  SetSum(g, s) = g[y] + SetSum(g, s \ {y})
    OBVIOUS
  <2>1. PICK c \in s : c = First(s)
    BY FirstIn
  <2>2. SetSum(g, s) = g[c] + SetSum(g, s \ {c})
    BY <1>0, <2>1, SetSumFirst
  <2>3. CASE y = c
    BY <2>2, <2>3
  <2>4. CASE y # c
    <3>1. Cardinality(s \ {c}) = n /\ Cardinality(s \ {y}) = n /\ {s \ {c}, s \ {y}} \subseteq SUBSET W
      <4>1. IsFiniteSet(s)
        BY <1>0
      <4>2. Cardinality(s \ {c}) = n + 1 - 1 /\ Cardinality(s \ {y}) = n + 1 - 1
        BY <4>1, Smaller
      <4>3. QED
        BY <4>2
    <3>2. /\ SetSum(g, s \ {c}) = g[y] + SetSum(g, (s \ {c}) \ {y})
          /\ SetSum(g, s \ {y}) = g[c] + SetSum(g, (s \ {y}) \ {c})
      BY <1>2, <2>4, <3>1
    <3>3. (s \ {c}) \ {y} = (s \ {y}) \ {c} /\ (s \ {c}) \ {y} \in SUBSET W
      OBVIOUS
    <3>4. SetSum(g, (s \ {c}) \ {y}) \in Nat /\ g[c] \in Nat /\ g[y] \in Nat
      BY <1>0, <3>3
    <3>5. QED
      BY <2>2, <3>2, <3>3, <3>4
  <2>5. QED
    BY <2>3, <2>4
<1>3. Nat \subseteq Good
  <2> HIDE DEF Good
  <2>1. QED
    BY <1>1, <1>2, NatSetInduction
<1>4. QED
  BY <1>0, <1>3

LEMMA SetSumAdd ==
  ASSUME NEW W, IsFiniteSet(W), NEW x, x \notin W, NEW g, \A y \in W \cup {x} : g[y] \in Nat
  PROVE  SetSum(g, W \cup {x}) = g[x] + SetSum(g, W)
<1>1. IsFiniteSet(W \cup {x}) /\ (W \cup {x}) \ {x} = W
  BY FS_AddElement
<1>2. QED
  BY <1>1, SetSumRemove

-----------------------------------------------------------------------------
(* The recent foods (RecentFoods)                                          *)

LEMMA SameFinite == \A W : F!IsFiniteSet(W) <=> IsFiniteSet(W)
BY DEF F!IsFiniteSet, IsFiniteSet

LEMMA SameCardinality == \A W : F!Cardinality(W) = Cardinality(W)
BY DEF F!Cardinality, Cardinality

LEMMA FoodsFinite == IsFiniteSet(Foods) /\ Shown \in Nat /\ MaxTime \in Nat \ {0} /\ MaxAborts \in Nat
BY RecommendationsAssumption, SameFinite DEF F!RecentFoodsAssumption

FoodSteps == {"get", "set", "expire"}
FoodFrames == [pc: FoodSteps \cup {"idle"}, food: Foods \cup {"none"}, at: F!Times,
               list: F!Lists, alone: BOOLEAN]

FoodsTyped ==
  /\ list \in F!Lists /\ expires \in BOOLEAN /\ fnow \in F!Times
  /\ freq \in [Requests -> FoodFrames]
  /\ \A r \in Requests : freq[r] = F!Idle \/ (freq[r].pc \in FoodSteps /\ freq[r].food \in uncertain)
  /\ answered \in F!Lists /\ uncertain \subseteq Foods
  /\ aborts \in 0..MaxAborts

(* A request that has been alone still is.                                 *)
AloneOK == \A r, s \in Requests : freq[r].alone /\ freq[s].pc # "idle" => s = r

(* What the list and the requests that will write it know of a food that   *)
(* is certain is what its last answer said.                                *)
CertainOK ==
  \A f \in Foods \ uncertain :
    /\ list[f] = answered[f]
    /\ \A r \in Requests : freq[r].pc = "set" => freq[r].list[f] = answered[f]

(* A request that has been alone has the record of its food.               *)
OwnOK ==
  \A r \in Requests : freq[r].alone =>
    /\ freq[r].pc = "set" => freq[r].list[freq[r].food] = freq[r].at
    /\ freq[r].pc = "expire" => list[freq[r].food] = freq[r].at

FoodsInv == FoodsTyped /\ AloneOK /\ CertainOK /\ OwnOK /\ F!ListExpires

LEMMA IdleFood ==
  /\ F!Idle.pc = "idle" /\ F!Idle.alone = FALSE /\ F!Idle \in FoodFrames
  /\ [F!Idle EXCEPT !.alone = FALSE] = F!Idle
  /\ F!Empty \in F!Lists /\ \A f \in Foods : F!Empty[f] = 0
<1>1. F!Empty \in F!Lists /\ \A f \in Foods : F!Empty[f] = 0
  BY FoodsFinite DEF F!Empty, F!Lists, F!Times
<1>2. F!Idle.pc = "idle" /\ F!Idle.alone = FALSE
  BY DEF F!Idle
<1>3. F!Idle \in FoodFrames
  BY <1>1, FoodsFinite DEF F!Idle, F!Times, FoodFrames
<1>4. ASSUME NEW q \in FoodFrames, q.alone = FALSE PROVE [q EXCEPT !.alone = FALSE] = q
  BY <1>4 DEF FoodFrames
<1>5. QED
  BY <1>1, <1>2, <1>3, <1>4

LEMMA FoodsInit == F!Init => FoodsInv
<1> SUFFICES ASSUME F!Init PROVE FoodsInv
  OBVIOUS
<1>1. FoodsTyped
  <2>1. answered = F!Empty /\ list = F!Empty /\ fnow \in F!Times /\ aborts \in 0..MaxAborts
    BY FoodsFinite DEF F!Init, F!Times, F!Empty
  <2>2. QED
    BY <2>1, IdleFood DEF F!Init, FoodsTyped
<1>2. AloneOK /\ CertainOK /\ OwnOK
  BY IdleFood DEF F!Init, AloneOK, CertainOK, OwnOK, F!Empty
<1>3. F!ListExpires
  BY DEF F!Init, F!ListExpires
<1>4. QED
  BY <1>1, <1>2, <1>3 DEF FoodsInv

LEMMA FoodRequests ==
  ASSUME FoodsInv, NEW r \in Requests
  PROVE  /\ freq[r] \in FoodFrames
         /\ freq[r].pc = "idle" <=> freq[r] = F!Idle
         /\ freq[r].pc # "idle" => freq[r].pc \in FoodSteps /\ freq[r].food \in uncertain
                                   /\ freq[r].food \in Foods
<1>1. freq[r] \in FoodFrames /\ (freq[r] = F!Idle \/ (freq[r].pc \in FoodSteps /\ freq[r].food \in uncertain))
      /\ uncertain \subseteq Foods
  BY DEF FoodsInv, FoodsTyped
<1>2. QED
  BY <1>1, IdleFood DEF FoodSteps

LEMMA Recommended == ASSUME FoodsInv, NEW r \in Requests, NEW f \in Foods, F!Recommend(r, f) PROVE FoodsInv'
<1> DEFINE g == [[[F!Idle EXCEPT !.pc = "get"] EXCEPT !.food = f] EXCEPT !.alone = (F!InFlight = {})]
<1>0. FoodsTyped /\ AloneOK /\ CertainOK /\ OwnOK /\ F!ListExpires
  BY DEF FoodsInv
<1>1. g \in FoodFrames /\ g.pc = "get" /\ g.food = f /\ g.alone = (F!InFlight = {})
  BY IdleFood DEF FoodFrames, FoodSteps
<1>2. /\ freq[r] = F!Idle
      /\ freq' = [s \in Requests |-> IF s = r THEN g ELSE [freq[s] EXCEPT !.alone = FALSE]]
      /\ uncertain' = uncertain \cup {f} /\ UNCHANGED <<list, expires, fnow, answered, aborts>>
  BY DEF F!Recommend
<1> HIDE DEF g
<1>3. freq'[r] = g
  BY <1>2
<1>4. ASSUME NEW s \in Requests \ {r}
      PROVE  /\ freq'[s] \in FoodFrames /\ freq'[s].pc = freq[s].pc /\ freq'[s].food = freq[s].food
             /\ freq'[s].at = freq[s].at /\ freq'[s].list = freq[s].list /\ freq'[s].alone = FALSE
             /\ freq[s] = F!Idle => freq'[s] = F!Idle
  <2>1. freq'[s] = [freq[s] EXCEPT !.alone = FALSE] /\ freq[s] \in FoodFrames
    BY <1>2, FoodRequests
  <2>2. freq[s] = F!Idle => freq'[s] = F!Idle
    BY <2>1, IdleFood
  <2>3. QED
    BY <2>1, <2>2 DEF FoodFrames
<1>5. FoodsTyped'
  <2>1. freq' \in [Requests -> FoodFrames]
    BY <1>1, <1>2, <1>3, <1>4
  <2>2. ASSUME NEW s \in Requests
        PROVE  freq'[s] = F!Idle \/ (freq'[s].pc \in FoodSteps /\ freq'[s].food \in uncertain')
    <3>1. CASE s = r
      BY <1>1, <1>2, <1>3, <3>1 DEF FoodSteps
    <3>2. CASE s # r
      <4>1. freq[s] = F!Idle \/ (freq[s].pc \in FoodSteps /\ freq[s].food \in uncertain)
        BY <1>0 DEF FoodsTyped
      <4>2. freq'[s].pc = freq[s].pc /\ freq'[s].food = freq[s].food
            /\ (freq[s] = F!Idle => freq'[s] = F!Idle) /\ uncertain \subseteq uncertain'
        BY <1>2, <1>4, <3>2
      <4>3. QED
        BY <4>1, <4>2
    <3>3. QED
      BY <3>1, <3>2
  <2>3. QED
    BY <1>0, <1>2, <2>1, <2>2 DEF FoodsTyped
<1>6. AloneOK'
  <2> SUFFICES ASSUME NEW a \in Requests, NEW s \in Requests, freq'[a].alone, freq'[s].pc # "idle", s # r
               PROVE  FALSE
    BY <1>3, <1>4 DEF AloneOK
  <2>1. F!InFlight = {}
    BY <1>1, <1>3, <1>4
  <2>2. freq[s] = F!Idle
    BY <2>1 DEF F!InFlight
  <2>3. QED
    BY <1>4, <2>2, IdleFood
<1>7. CertainOK'
  BY <1>0, <1>1, <1>2, <1>3, <1>4 DEF CertainOK
<1>8. OwnOK'
  BY <1>1, <1>3, <1>4 DEF OwnOK
<1>9. F!ListExpires'
  <2>1. \A s \in Requests : freq[s].pc = "expire" => freq'[s].pc = "expire"
    BY <1>2, <1>4, IdleFood
  <2>2. QED
    BY <1>0, <1>2, <2>1 DEF F!ListExpires
<1>10. QED
  BY <1>5, <1>6, <1>7, <1>8, <1>9 DEF FoodsInv

(* A request moves from one of its calls to the next.                      *)
LEMMA FoodGoesOn ==
  ASSUME FoodsInv, NEW r \in Requests,
         freq[r].pc # "idle", freq'[r].pc \in FoodSteps, freq'[r].food = freq[r].food,
         freq'[r].alone = freq[r].alone,
         freq' \in [Requests -> FoodFrames], \A s \in Requests \ {r} : freq'[s] = freq[s],
         UNCHANGED <<fnow, answered, uncertain, aborts>>,
         list' \in F!Lists, expires' \in BOOLEAN
  PROVE  FoodsTyped' /\ AloneOK'
<1>0. FoodsTyped /\ AloneOK /\ freq[r].food \in uncertain
  BY FoodRequests DEF FoodsInv
<1>1. AloneOK'
  BY <1>0 DEF AloneOK
<1>2. FoodsTyped'
  BY <1>0 DEF FoodsTyped
<1>3. QED
  BY <1>1, <1>2

LEMMA ListRead == ASSUME FoodsInv, NEW r \in Requests, F!Read(r) PROVE FoodsInv'
<1>0. FoodsTyped /\ AloneOK /\ CertainOK /\ OwnOK /\ F!ListExpires
  BY DEF FoodsInv
<1> DEFINE new == [list EXCEPT ![freq[r].food] = fnow]
<1>1. /\ freq[r] \in FoodFrames /\ freq[r].pc = "get" /\ freq[r].food \in uncertain /\ freq[r].food \in Foods
      /\ freq' = [freq EXCEPT ![r].pc = "set", ![r].at = fnow, ![r].list = new]
      /\ UNCHANGED <<list, expires, fnow, answered, uncertain, aborts>>
  BY FoodRequests DEF F!Read, FoodSteps
<1>2. /\ new \in F!Lists /\ new[freq[r].food] = fnow
      /\ \A f \in Foods \ uncertain : new[f] = list[f]
  BY <1>0, <1>1 DEF FoodsTyped, F!Lists
<1> HIDE DEF new
<1>3. /\ freq' \in [Requests -> FoodFrames] /\ \A s \in Requests \ {r} : freq'[s] = freq[s]
      /\ freq'[r].pc = "set" /\ freq'[r].food = freq[r].food /\ freq'[r].at = fnow
      /\ freq'[r].list = new /\ freq'[r].alone = freq[r].alone
  BY <1>0, <1>1, <1>2 DEF FoodsTyped, FoodFrames, FoodSteps
<1>4. FoodsTyped' /\ AloneOK'
  <2>1. list' \in F!Lists /\ expires' \in BOOLEAN /\ freq'[r].pc \in FoodSteps /\ freq[r].pc # "idle"
    BY <1>0, <1>1, <1>3 DEF FoodsTyped, FoodSteps
  <2>2. QED
    BY <1>1, <1>3, <2>1, FoodGoesOn
<1>5. CertainOK'
  BY <1>0, <1>1, <1>2, <1>3 DEF CertainOK
<1>6. OwnOK'
  BY <1>0, <1>1, <1>2, <1>3 DEF OwnOK
<1>7. F!ListExpires'
  <2>1. \A s \in Requests : freq[s].pc = "expire" => freq'[s].pc = "expire"
    BY <1>1, <1>3
  <2>2. QED
    BY <1>0, <1>1, <2>1 DEF F!ListExpires
<1>8. QED
  BY <1>4, <1>5, <1>6, <1>7 DEF FoodsInv

LEMMA ListWritten == ASSUME FoodsInv, NEW r \in Requests, F!Write(r) PROVE FoodsInv'
<1>0. FoodsTyped /\ AloneOK /\ CertainOK /\ OwnOK /\ F!ListExpires
  BY DEF FoodsInv
<1>1. /\ freq[r] \in FoodFrames /\ freq[r].pc = "set" /\ freq[r].food \in uncertain
      /\ freq' = [freq EXCEPT ![r].pc = "expire"] /\ list' = freq[r].list /\ expires' = FALSE
      /\ UNCHANGED <<fnow, answered, uncertain, aborts>>
  BY FoodRequests DEF F!Write, FoodSteps
<1>2. /\ freq' \in [Requests -> FoodFrames] /\ \A s \in Requests \ {r} : freq'[s] = freq[s]
      /\ freq'[r].pc = "expire" /\ freq'[r].food = freq[r].food /\ freq'[r].at = freq[r].at
      /\ freq'[r].alone = freq[r].alone /\ freq[r].list \in F!Lists
  BY <1>0, <1>1 DEF FoodsTyped, FoodFrames, FoodSteps
<1>3. FoodsTyped' /\ AloneOK'
  <2>1. list' \in F!Lists /\ expires' \in BOOLEAN /\ freq'[r].pc \in FoodSteps /\ freq[r].pc # "idle"
    BY <1>1, <1>2 DEF FoodSteps
  <2>2. QED
    BY <1>1, <1>2, <2>1, FoodGoesOn
<1>4. CertainOK'
  BY <1>0, <1>1, <1>2 DEF CertainOK
<1>5. OwnOK'
  BY <1>0, <1>1, <1>2 DEF OwnOK, AloneOK
<1>6. F!ListExpires'
  BY <1>2 DEF F!ListExpires
<1>7. QED
  BY <1>3, <1>4, <1>5, <1>6 DEF FoodsInv

LEMMA FoodAnswered == ASSUME FoodsInv, NEW r \in Requests, F!Renew(r) PROVE FoodsInv'
<1>0. FoodsTyped /\ AloneOK /\ CertainOK /\ OwnOK /\ F!ListExpires
  BY DEF FoodsInv
<1>1. /\ freq[r] \in FoodFrames /\ freq[r].pc = "expire" /\ freq[r].food \in uncertain /\ freq[r].food \in Foods
      /\ freq' = [freq EXCEPT ![r] = F!Idle] /\ expires' = (list # F!Empty)
      /\ answered' = [answered EXCEPT ![freq[r].food] = freq[r].at]
      /\ uncertain' = IF freq[r].alone THEN uncertain \ {freq[r].food} ELSE uncertain
      /\ UNCHANGED <<list, fnow, aborts>>
  BY FoodRequests DEF F!Renew, F!AnswerFood, FoodSteps
<1>2. /\ freq' \in [Requests -> FoodFrames] /\ \A s \in Requests \ {r} : freq'[s] = freq[s]
      /\ freq'[r] = F!Idle /\ freq[r].at \in F!Times /\ freq[r].alone \in BOOLEAN
  BY <1>0, <1>1, IdleFood DEF FoodsTyped, FoodFrames
<1>3. ASSUME freq[r].alone, NEW s \in Requests PROVE freq'[s] = F!Idle
  <2>1. s # r => freq[s].pc = "idle"
    BY <1>0, <1>3 DEF AloneOK
  <2>2. QED
    BY <1>2, <2>1, FoodRequests
<1>4. FoodsTyped'
  <2>1. answered' \in F!Lists /\ expires' \in BOOLEAN /\ uncertain' \subseteq Foods
    BY <1>0, <1>1, <1>2 DEF FoodsTyped, F!Lists
  <2>2. ASSUME NEW s \in Requests
        PROVE  freq'[s] = F!Idle \/ (freq'[s].pc \in FoodSteps /\ freq'[s].food \in uncertain')
    BY <1>0, <1>1, <1>2, <1>3 DEF FoodsTyped
  <2>3. QED
    BY <1>0, <1>1, <1>2, <2>1, <2>2 DEF FoodsTyped
<1>5. AloneOK'
  BY <1>0, <1>2, IdleFood DEF AloneOK
<1>6. CertainOK'
  <2> SUFFICES ASSUME NEW f \in Foods \ uncertain'
               PROVE  /\ list[f] = answered'[f]
                      /\ \A s \in Requests : freq'[s].pc = "set" => freq'[s].list[f] = answered'[f]
    BY <1>1 DEF CertainOK
  <2>1. CASE freq[r].alone /\ f = freq[r].food
    <3>1. list[f] = freq[r].at
      BY <1>0, <1>1, <2>1 DEF OwnOK
    <3>2. answered'[f] = freq[r].at
      BY <1>0, <1>1, <2>1 DEF FoodsTyped, F!Lists
    <3>3. QED
      BY <1>3, <2>1, <3>1, <3>2, IdleFood
  <2>2. CASE ~(freq[r].alone /\ f = freq[r].food)
    <3>1. f \notin uncertain /\ answered'[f] = answered[f]
      BY <1>0, <1>1, <2>2 DEF FoodsTyped, F!Lists
    <3>2. QED
      BY <1>0, <1>2, <3>1, IdleFood DEF CertainOK
  <2>3. QED
    BY <2>1, <2>2
<1>7. OwnOK'
  BY <1>0, <1>1, <1>2, IdleFood DEF OwnOK
<1>8. F!ListExpires'
  BY <1>1 DEF F!ListExpires
<1>9. QED
  BY <1>4, <1>5, <1>6, <1>7, <1>8 DEF FoodsInv

LEMMA FoodGivenUp == ASSUME FoodsInv, NEW r \in Requests, F!Abort(r) PROVE FoodsInv'
<1>0. FoodsTyped /\ AloneOK /\ CertainOK /\ OwnOK /\ F!ListExpires
  BY DEF FoodsInv
<1>1. /\ freq' = [freq EXCEPT ![r] = F!Idle] /\ aborts < MaxAborts /\ aborts' = aborts + 1
      /\ UNCHANGED <<list, expires, fnow, answered, uncertain>>
  BY DEF F!Abort
<1>2. /\ freq' \in [Requests -> FoodFrames] /\ \A s \in Requests \ {r} : freq'[s] = freq[s]
      /\ freq'[r] = F!Idle
  BY <1>0, <1>1, IdleFood DEF FoodsTyped
<1>3. aborts' \in 0..MaxAborts /\ aborts' # 0
  BY <1>0, <1>1, FoodsFinite DEF FoodsTyped
<1>4. FoodsTyped'
  BY <1>0, <1>1, <1>2, <1>3 DEF FoodsTyped
<1>5. AloneOK' /\ CertainOK' /\ OwnOK'
  BY <1>0, <1>1, <1>2, IdleFood DEF AloneOK, CertainOK, OwnOK
<1>6. F!ListExpires'
  BY <1>3 DEF F!ListExpires
<1>7. QED
  BY <1>4, <1>5, <1>6 DEF FoodsInv

LEMMA ListForgotten == ASSUME FoodsInv, F!Forget PROVE FoodsInv'
<1>0. FoodsTyped /\ AloneOK /\ CertainOK /\ OwnOK /\ F!ListExpires
  BY DEF FoodsInv
<1>1. /\ list' = F!Empty /\ expires' = FALSE /\ answered' = F!Empty
      /\ uncertain' = {freq[r].food : r \in F!InFlight} /\ UNCHANGED <<fnow, freq, aborts>>
      /\ \A r \in F!InFlight : freq[r].pc = "get"
  BY DEF F!Forget, F!Empty
<1>2. \A r \in Requests : r \in F!InFlight <=> freq[r].pc # "idle"
  BY FoodRequests DEF F!InFlight
<1>3. \A r \in Requests : freq[r].pc \in {"idle", "get"}
  BY <1>1, <1>2
<1>4. FoodsTyped'
  <2>1. uncertain' \subseteq Foods
    BY <1>1, <1>2, FoodRequests DEF F!InFlight
  <2>2. ASSUME NEW r \in Requests
        PROVE  freq[r] = F!Idle \/ (freq[r].pc \in FoodSteps /\ freq[r].food \in uncertain')
    BY <1>1, <1>2, FoodRequests
  <2>3. QED
    BY <1>0, <1>1, <2>1, <2>2, IdleFood DEF FoodsTyped
<1>5. AloneOK' /\ CertainOK' /\ OwnOK'
  <2>1. AloneOK'
    BY <1>0, <1>1 DEF AloneOK
  <2>2. CertainOK' /\ OwnOK'
    BY <1>1, <1>3 DEF CertainOK, OwnOK
  <2>3. QED
    BY <2>1, <2>2
<1>6. F!ListExpires'
  BY <1>1 DEF F!ListExpires, F!Empty
<1>7. QED
  BY <1>4, <1>5, <1>6 DEF FoodsInv

LEMMA FoodsNext == FoodsInv /\ [F!Next]_F!vars => FoodsInv'
<1> SUFFICES ASSUME FoodsInv, [F!Next]_F!vars PROVE FoodsInv'
  OBVIOUS
<1>1. CASE F!Tick
  <2>1. fnow' \in F!Times /\ UNCHANGED <<list, expires, freq, answered, uncertain, aborts>>
    BY <1>1, FoodsFinite DEF F!Tick, F!Times, FoodsInv, FoodsTyped
  <2>2. QED
    BY <2>1 DEF FoodsInv, FoodsTyped, AloneOK, CertainOK, OwnOK, F!ListExpires
<1>2. CASE UNCHANGED F!vars
  BY <1>2 DEF FoodsInv, FoodsTyped, AloneOK, CertainOK, OwnOK, F!ListExpires, F!vars
<1>3. QED
  BY <1>1, <1>2, Recommended, ListRead, ListWritten, FoodAnswered, FoodGivenUp, ListForgotten DEF F!Next

(* The foods that come before a certain one in the list are answered since *)
(* or uncertain.                                                           *)
LEMMA RecentAreShown == FoodsInv => F!LastAreRecent
<1> SUFFICES ASSUME FoodsInv, NEW f \in Foods \ uncertain, answered[f] > 0,
                    F!Cardinality({g \in Foods : answered[g] >= answered[f]} \cup uncertain) <= Shown
             PROVE  f \in F!Recent
  BY DEF F!LastAreRecent
<1> DEFINE Before == {g \in Foods : list[g] >= list[f]}
           Since == {g \in Foods : answered[g] >= answered[f]} \cup uncertain
<1>1. FoodsTyped /\ CertainOK
  BY DEF FoodsInv
<1>2. list[f] = answered[f] /\ Before \subseteq Since /\ Since \subseteq Foods
  BY <1>1 DEF CertainOK, FoodsTyped
<1>3. IsFiniteSet(Since) /\ Cardinality(Since) <= Shown
  BY <1>2, FoodsFinite, SameCardinality, FS_Subset
<1>4. Cardinality(Before) <= Cardinality(Since) /\ IsFiniteSet(Before)
  BY <1>2, <1>3, FS_Subset
<1>5. Cardinality(Before) \in Nat /\ Cardinality(Since) \in Nat
  BY <1>3, <1>4, FS_CardinalityType
<1>6. F!Cardinality(Before) <= Shown
  BY <1>3, <1>4, <1>5, FoodsFinite, SameCardinality
<1>7. QED
  BY <1>2, <1>6 DEF F!Recent

-----------------------------------------------------------------------------
(* The recommended restaurants (Search)                                    *)

SearchSteps == {"area", "near", "match", "draw", "list", "summaries", "reads", "answered"}
ReqFields == {"pc", "ask", "near", "left", "count", "read", "aggregate"}
SeenFields == {"since", "steady", "open", "steadyOpen", "last"}
Rows == [id: 1..MaxReviews, author: Members, place: Places, text: {d.text : d \in Drafts},
         deleted: BOOLEAN]

(* Ids are the numbers of the rows: an insert takes the next one.          *)
TablesOK ==
  /\ reviews \subseteq Rows /\ IsFiniteSet(reviews) /\ Cardinality(reviews) <= MaxReviews
  /\ \A v \in reviews : v.id <= Cardinality(reviews)
  /\ \A v, w \in reviews : v.id = w.id => v = w
  /\ members \subseteq Members /\ open \subseteq Shops /\ changes \in 0..MaxChanges

(* What was observed brackets what the tables hold, while a request lasts. *)
SeenOK ==
  /\ DOMAIN seen = SeenFields
  /\ req # Idle =>
       /\ seen.steady \subseteq Live /\ Live \subseteq seen.since
       /\ seen.steadyOpen \subseteq open /\ open \subseteq seen.open

AskOK ==
  req # Idle =>
    /\ req.pc \in SearchSteps /\ req.ask \in Asks
    /\ req.pc # "answered" => DOMAIN req = ReqFields

(* Rows that may be told of a recommended restaurant.                      *)
Fits(rows, filter) ==
  /\ rows # {} /\ rows \subseteq seen.since
  /\ \A v, w \in rows : WantedReview(v, filter) /\ v.place = w.place
  /\ \A v \in rows, w \in seen.steady : WantedReview(w, filter) /\ w.place = v.place => w \in rows
NoneFits(filter) == \A v \in seen.steady : ~WantedReview(v, filter)

AnswerFits(answer, filter) ==
  /\ answer.kind = "restaurant" => Fits(answer.aggregate.rows, filter)
  /\ answer.kind \in {"shop", "empty"} => NoneFits(filter)
  /\ answer.kind = "shop" => answer.shop \in seen.open /\ Wanted(answer.shop.category, filter)
  /\ answer.kind = "empty" => \A s \in seen.steadyOpen : ~Wanted(s.category, filter)

(* What a recommendation knows at each of its steps.                       *)
RecommendOK ==
  req # Idle /\ req.ask.kind = "recommend" =>
    LET f == req.ask.filter IN
    /\ req.pc \in {"near", "match", "draw", "list", "summaries", "answered"}
    /\ req.pc = "match" =>
         /\ req.near # {} /\ req.near \subseteq Near
         /\ \A v \in seen.steady : v.place \in Near => v.place \in req.near
    /\ req.pc = "draw" => NoneFits(f)
    /\ req.pc \in {"list", "summaries"} => Fits(req.aggregate.rows, f)
    /\ req.pc = "answered" => AnswerFits(req.answer, f)

DrawsForSome == req # Idle /\ req.pc \in {"draw"} => req.ask.kind = "recommend"

SearchInv == TablesOK /\ SeenOK /\ AskOK /\ RecommendOK /\ DrawsForSome

LEMMA SearchNumbers ==
  /\ MaxReviews \in Nat /\ MaxChanges \in Nat /\ Places \subseteq Nat \ {0} /\ Near \subseteq Places
  /\ \A d \in Drafts : d.author \in Members /\ d.place \in Places
BY SearchAssumption

LEMMA SearchInit == Init => SearchInv
<1> SUFFICES ASSUME Init PROVE SearchInv
  OBVIOUS
<1>1. TablesOK
  BY FS_EmptySet, SearchNumbers DEF Init, TablesOK
<1>2. SeenOK /\ AskOK /\ RecommendOK /\ DrawsForSome
  BY DEF Init, SeenOK, SeenFields, AskOK, RecommendOK, DrawsForSome
<1>3. QED
  BY <1>1, <1>2 DEF SearchInv

LEMMA SearchImplies == SearchInv => TypeOK /\ RecommendationFits
<1> SUFFICES ASSUME SearchInv PROVE TypeOK /\ RecommendationFits
  OBVIOUS
<1>0. TablesOK /\ SeenOK /\ AskOK /\ RecommendOK
  BY DEF SearchInv
<1>1. TypeOK
  BY <1>0 DEF TypeOK, TablesOK, SeenOK, AskOK, Rows, SearchSteps
<1>2. RecommendationFits
  BY <1>0 DEF RecommendationFits, At, RecommendOK, AnswerFits, Fits, NoneFits
<1>3. QED
  BY <1>1, <1>2

(* A write of others, which the request in flight observes.                *)
LEMMA OthersWrite ==
  ASSUME SearchInv, Unanswered, req' = req, TablesOK',
         (reviews' = reviews /\ open' = open /\ seen' = seen) \/ Observe(reviews', open')
  PROVE  SearchInv'
<1>0. TablesOK /\ SeenOK /\ AskOK /\ RecommendOK /\ DrawsForSome
  BY DEF SearchInv
<1>1. CASE req = Idle
  <2>1. seen' = seen
    BY <1>1 DEF Observe
  <2>2. SeenOK' /\ AskOK' /\ RecommendOK' /\ DrawsForSome'
    BY <1>0, <1>1, <2>1 DEF SeenOK, AskOK, RecommendOK, DrawsForSome, Idle
  <2>3. QED
    BY <2>2 DEF SearchInv
<1>2. CASE req # Idle
  <2>1. /\ DOMAIN seen' = SeenFields
        /\ seen'.steady \subseteq seen.steady /\ seen'.steady \subseteq Live' /\ Live' \subseteq seen'.since
        /\ seen.since \subseteq seen'.since
        /\ seen'.steadyOpen \subseteq seen.steadyOpen /\ seen'.steadyOpen \subseteq open'
        /\ open' \subseteq seen'.open /\ seen.open \subseteq seen'.open
    <3>1. CASE reviews' = reviews /\ open' = open /\ seen' = seen
      BY <1>0, <1>2, <3>1 DEF SeenOK, Live
    <3>2. CASE Observe(reviews', open')
      <4>1. seen' = [seen EXCEPT !.since = @ \cup Live', !.steady = @ \cap Live',
                                 !.open = @ \cup open', !.steadyOpen = @ \cap open']
        BY <1>2, <3>2 DEF Observe, Live
      <4>2. QED
        BY <1>0, <4>1 DEF SeenOK, SeenFields
    <3>3. QED
      BY <3>1, <3>2
  <2>2. SeenOK' /\ AskOK' /\ DrawsForSome'
    BY <1>0, <2>1 DEF SeenOK, AskOK, DrawsForSome, Idle
  <2>3. RecommendOK'
    <3> SUFFICES ASSUME req.ask.kind = "recommend" PROVE RecommendOK'
      BY DEF RecommendOK
    <3>1. req.pc # "answered"
      BY <1>2 DEF Unanswered
    <3> DEFINE f == req.ask.filter
    <3>2. UNCHANGED req
      OBVIOUS
    <3>3. NoneFits(f) => NoneFits(f)'
      BY <2>1, <3>2 DEF NoneFits
    <3>4. Fits(req.aggregate.rows, f) => Fits(req.aggregate.rows, f)'
      BY <2>1, <3>2 DEF Fits
    <3>5. QED
      BY <1>0, <1>2, <3>1, <2>1, <3>2, <3>3, <3>4 DEF RecommendOK
  <2>4. QED
    BY <2>2, <2>3 DEF SearchInv
<1>3. QED
  BY <1>1, <1>2

(* One row is replaced by one of the same id.                              *)
LEMMA RowReplaced ==
  ASSUME TablesOK, NEW v \in reviews, NEW w \in Rows, w.id = v.id,
         reviews' = (reviews \ {v}) \cup {w},
         members' = members, open' = open, changes' \in 0..MaxChanges
  PROVE  TablesOK'
<1>1. IsFiniteSet(reviews \ {v}) /\ Cardinality(reviews \ {v}) = Cardinality(reviews) - 1
  BY FS_RemoveElement DEF TablesOK
<1>2. w \notin reviews \ {v}
  BY DEF TablesOK
<1>3. /\ IsFiniteSet(reviews') /\ Cardinality(reviews) \in Nat
      /\ Cardinality(reviews') = Cardinality(reviews) - 1 + 1
  BY <1>1, <1>2, FS_AddElement, FS_CardinalityType DEF TablesOK
<1>4. Cardinality(reviews') = Cardinality(reviews)
  BY <1>3
<1>5. QED
  BY <1>3, <1>4 DEF TablesOK

LEMMA RowAdded ==
  ASSUME TablesOK, NEW w \in Rows, w.id = Cardinality(reviews) + 1, Cardinality(reviews) < MaxReviews,
         reviews' = reviews \cup {w}, UNCHANGED <<members, open, changes>>
  PROVE  TablesOK'
<1>0. PICK n : n = Cardinality(reviews)
  OBVIOUS
<1>1. n \in Nat /\ MaxReviews \in Nat /\ n < MaxReviews /\ w.id = n + 1
  BY <1>0, FS_CardinalityType, SearchNumbers DEF TablesOK
<1>2. \A v \in reviews : v.id # w.id /\ v.id \in Nat /\ v.id <= n
  BY <1>0, <1>1 DEF TablesOK, Rows
<1>3. IsFiniteSet(reviews') /\ Cardinality(reviews') = n + 1
  BY <1>0, <1>2, FS_AddElement DEF TablesOK
<1>4. \A v \in reviews' : v.id <= n + 1
  BY <1>1, <1>2
<1>5. \A v, u \in reviews' : v.id = u.id => v = u
  BY <1>2 DEF TablesOK
<1>6. QED
  BY <1>1, <1>3, <1>4, <1>5 DEF TablesOK

LEMMA OthersNext ==
  ASSUME SearchInv,
         \/ \E d \in Drafts : WriteReview(d) \/ \E v \in Live : EditReview(v, d)
         \/ \E v \in Live : RemoveReview(v)
         \/ \E u \in Members : Withdraw(u)
         \/ \E s \in Shops : OpenOrClose(s)
  PROVE  SearchInv'
<1>0. TablesOK /\ (Change => changes' \in 0..MaxChanges)
  BY SearchNumbers DEF SearchInv, TablesOK, Change
<1>1. ASSUME NEW d \in Drafts, WriteReview(d) PROVE SearchInv'
  <2>1. PICK w : w = [id |-> Cardinality(reviews) + 1, author |-> d.author,
                      place |-> d.place, text |-> d.text, deleted |-> FALSE]
    OBVIOUS
  <2>2. /\ Unanswered /\ Cardinality(reviews) < MaxReviews /\ reviews' = reviews \cup {w}
        /\ UNCHANGED <<members, open, changes, req>>
    BY <1>1, <2>1 DEF WriteReview
  <2>3. Cardinality(reviews) + 1 \in 1..MaxReviews
    BY <1>0, <2>2, SearchNumbers, FS_CardinalityType DEF TablesOK
  <2>4. w \in Rows /\ w.id = Cardinality(reviews) + 1
    BY <2>1, <2>3, SearchNumbers DEF Rows
  <2>5. TablesOK'
    BY <1>0, <2>2, <2>4, RowAdded
  <2>6. Observe(reviews', open')
    BY <1>1, <2>2 DEF WriteReview, Observe
  <2>7. QED
    BY <2>2, <2>5, <2>6, OthersWrite
<1>2. ASSUME NEW d \in Drafts, NEW v \in Live, EditReview(v, d) PROVE SearchInv'
  <2>1. PICK w : w = [v EXCEPT !.text = d.text]
    OBVIOUS
  <2>2. v \in reviews /\ v \in Rows
    BY <1>0 DEF Live, TablesOK
  <2>3. w \in Rows /\ w.id = v.id
    BY <2>1, <2>2 DEF Rows
  <2>4. /\ Unanswered /\ reviews' = (reviews \ {v}) \cup {w} /\ changes' \in 0..MaxChanges
        /\ UNCHANGED <<members, open, req>>
    BY <1>0, <1>2, <2>1 DEF EditReview, Change
  <2>5. TablesOK'
    BY <1>0, <2>2, <2>3, <2>4, RowReplaced
  <2>6. Observe(reviews', open')
    BY <1>2, <2>4 DEF EditReview, Observe
  <2>7. QED
    BY <2>4, <2>5, <2>6, OthersWrite
<1>3. ASSUME NEW v \in Live, RemoveReview(v) PROVE SearchInv'
  <2>1. PICK w : w = [v EXCEPT !.deleted = TRUE]
    OBVIOUS
  <2>2. v \in reviews /\ v \in Rows
    BY <1>0 DEF Live, TablesOK
  <2>3. w \in Rows /\ w.id = v.id
    BY <2>1, <2>2 DEF Rows
  <2>4. /\ Unanswered /\ reviews' = (reviews \ {v}) \cup {w} /\ changes' \in 0..MaxChanges
        /\ UNCHANGED <<members, open, req>>
    BY <1>0, <1>3, <2>1 DEF RemoveReview, Change
  <2>5. TablesOK'
    BY <1>0, <2>2, <2>3, <2>4, RowReplaced
  <2>6. Observe(reviews', open')
    BY <1>3, <2>4 DEF RemoveReview, Observe
  <2>7. QED
    BY <2>4, <2>5, <2>6, OthersWrite
<1>4. ASSUME NEW u \in Members, Withdraw(u) PROVE SearchInv'
  <2>1. /\ Unanswered /\ members' = members \ {u} /\ changes' \in 0..MaxChanges
        /\ UNCHANGED <<reviews, open, seen, req>>
    BY <1>0, <1>4 DEF Withdraw, Change
  <2>2. TablesOK'
    BY <1>0, <2>1 DEF TablesOK
  <2>3. QED
    BY <2>1, <2>2, OthersWrite
<1>5. ASSUME NEW s \in Shops, OpenOrClose(s) PROVE SearchInv'
  <2>1. /\ Unanswered /\ open' \subseteq Shops /\ changes' \in 0..MaxChanges
        /\ UNCHANGED <<reviews, members, req>>
    BY <1>0, <1>5 DEF OpenOrClose, Change, TablesOK
  <2>2. TablesOK'
    BY <1>0, <2>1 DEF TablesOK
  <2>3. Observe(reviews', open')
    BY <1>5, <2>1 DEF OpenOrClose, Observe
  <2>4. QED
    BY <2>1, <2>2, <2>3, OthersWrite
<1>6. QED
  BY <1>1, <1>2, <1>3, <1>4, <1>5

(* The request in flight goes on, and reads.                               *)
LEMMA SearchGoesOn ==
  ASSUME SearchInv, req # Idle, UNCHANGED <<tables, seen>>, req' # Idle,
         AskOK', RecommendOK', req'.pc = "draw" => req'.ask.kind = "recommend"
  PROVE  SearchInv'
<1>1. TablesOK' /\ SeenOK'
  BY DEF SearchInv, TablesOK, SeenOK, tables, Live
<1>2. DrawsForSome'
  BY DEF DrawsForSome
<1>3. QED
  BY <1>1, <1>2 DEF SearchInv

LEMMA SearchMoves ==
  ASSUME SearchInv, req # Idle, UNCHANGED <<tables, seen>>,
         DOMAIN req' = ReqFields, req'.ask = req.ask, req'.pc \in SearchSteps \ {"answered"},
         req'.pc = "draw" => req.ask.kind = "recommend",
         req.ask.kind = "recommend" => RecommendOK'
  PROVE  SearchInv'
<1>1. req' # Idle
  BY DEF ReqFields, Idle
<1>2. AskOK'
  BY DEF AskOK, SearchInv
<1>3. RecommendOK'
  BY DEF RecommendOK
<1>4. QED
  BY <1>1, <1>2, <1>3, SearchGoesOn

LEMMA SearchAnswers ==
  ASSUME SearchInv, req # Idle, NEW answer, Answer(answer),
         req.ask.kind = "recommend" => AnswerFits(answer, req.ask.filter)
  PROVE  SearchInv'
<1>1. /\ req' = [pc |-> "answered", ask |-> req.ask, answer |-> answer] /\ UNCHANGED <<tables, seen>>
      /\ req'.pc = "answered" /\ req'.ask = req.ask /\ req'.answer = answer
  BY DEF Answer
<1>2. req' # Idle
  BY <1>1 DEF Idle
<1>3. AskOK'
  BY <1>1 DEF AskOK, SearchInv, SearchSteps
<1>4. RecommendOK'
  <2>1. PICK f : f = req.ask.filter
    OBVIOUS
  <2>2. seen' = seen
    BY <1>1
  <2>3. Fits(answer.aggregate.rows, f)' <=> Fits(answer.aggregate.rows, f)
    BY <2>2 DEF Fits
  <2>4. NoneFits(f)' <=> NoneFits(f)
    BY <2>2 DEF NoneFits
  <2>5. AnswerFits(answer, f) => AnswerFits(answer, f)'
    BY <2>2, <2>3, <2>4 DEF AnswerFits
  <2>6. QED
    BY <1>1, <2>1, <2>5 DEF RecommendOK
<1>5. QED
  BY <1>1, <1>2, <1>3, <1>4, SearchGoesOn

LEMMA SearchReceives == ASSUME SearchInv, NEW ask \in Asks, Receive(ask) PROVE SearchInv'
<1>1. /\ req'.pc = (CASE ask.kind = "recommend" -> "near" [] ask.kind = "nearby" -> "area"
                       [] ask.kind = "list" -> "list" [] OTHER -> "reads")
      /\ req'.ask = ask /\ DOMAIN req' = ReqFields
  BY DEF Receive, ReqFields
<1>2. /\ DOMAIN seen' = SeenFields /\ seen'.since = Live /\ seen'.steady = Live
      /\ seen'.open = open /\ seen'.steadyOpen = open
      /\ UNCHANGED <<reviews, members, open, changes>>
  BY DEF Receive, SeenFields, tables
<1>3. req' # Idle /\ req'.pc \in SearchSteps \ {"answered", "draw"}
  BY <1>1 DEF ReqFields, Idle, SearchSteps
<1>4. TablesOK'
  BY <1>2 DEF SearchInv, TablesOK
<1>5. SeenOK' /\ AskOK' /\ DrawsForSome'
  BY <1>1, <1>2, <1>3 DEF SeenOK, AskOK, DrawsForSome, Live
<1>6. RecommendOK'
  BY <1>1 DEF RecommendOK
<1>7. QED
  BY <1>4, <1>5, <1>6 DEF SearchInv

LEMMA SearchEnds == ASSUME SearchInv, Return \/ Abort PROVE SearchInv'
<1>1. req' = Idle /\ UNCHANGED <<tables, seen>>
  BY DEF Return, Abort
<1>2. TablesOK'
  BY <1>1 DEF SearchInv, TablesOK, tables, Live
<1>3. SeenOK' /\ AskOK' /\ RecommendOK' /\ DrawsForSome'
  BY <1>1 DEF SearchInv, SeenOK, AskOK, RecommendOK, DrawsForSome, Idle
<1>4. QED
  BY <1>2, <1>3 DEF SearchInv

(* A row that was there all the time and fits is found by the search.      *)
LEMMA WantedIsFound ==
  ASSUME NEW f, NEW near, near # {}, near \subseteq Near, NEW v \in Live
  PROVE  v \in ByConditions(near, WithoutAllOption(f.categories), WithoutAllOption(f.keywords), f.prices)
         <=> WantedReview(v, f) /\ v.place \in near
<1>1. WithoutAllOption(f.categories) = {} \/ v.text.category \in WithoutAllOption(f.categories)
      <=> Wanted(v.text.category, f)
  BY DEF WithoutAllOption, Wanted
<1>2. WithoutAllOption(f.keywords) = {} \/ v.text.keywords \cap WithoutAllOption(f.keywords) # {}
      <=> f.keywords = {} \/ All \in f.keywords \/ \E k \in v.text.keywords : k \in f.keywords
  BY DEF WithoutAllOption
<1>3. f.prices = {} \/ v.text.prices \cap f.prices # {}
      <=> f.prices = {} \/ \E p \in v.text.prices : p \in f.prices
  OBVIOUS
<1>4. QED
  BY <1>1, <1>2, <1>3 DEF ByConditions, WantedReview

LEMMA NearRead == ASSUME SearchInv, ReadNear PROVE SearchInv'
<1>0. SeenOK /\ AskOK /\ RecommendOK /\ req # Idle /\ req.pc = "near" /\ DOMAIN req = ReqFields
  BY DEF SearchInv, ReadNear, At, AskOK
<1> DEFINE near == {v.place : v \in Live} \cap Near
<1>1. CASE near # {}
  <2>1. req' = [req EXCEPT !.pc = "match", !.near = near] /\ UNCHANGED <<tables, seen>>
    BY <1>1 DEF ReadNear
  <2>2. DOMAIN req' = ReqFields /\ req'.pc = "match" /\ req'.near = near /\ req'.ask = req.ask
    BY <1>0, <2>1 DEF ReqFields
  <2>3. \A v \in seen.steady : v.place \in Near => v.place \in near
    BY <1>0 DEF SeenOK
  <2>4. RecommendOK'
    BY <1>1, <2>1, <2>2, <2>3 DEF RecommendOK
  <2>5. QED
    BY <1>0, <2>1, <2>2, <2>4, SearchMoves DEF SearchSteps
<1>2. CASE near = {} /\ req.ask.kind = "recommend"
  <2>1. req' = [req EXCEPT !.pc = "draw"] /\ UNCHANGED <<tables, seen>>
    BY <1>2 DEF ReadNear, Goto
  <2>2. DOMAIN req' = ReqFields /\ req'.pc = "draw" /\ req'.ask = req.ask
    BY <1>0, <2>1 DEF ReqFields
  <2>3. \A v \in seen.steady : v.place \notin Near
    BY <1>0, <1>2 DEF SeenOK
  <2>4. RecommendOK'
    BY <2>1, <2>2, <2>3 DEF RecommendOK, NoneFits, WantedReview
  <2>5. QED
    BY <1>0, <1>2, <2>1, <2>2, <2>4, SearchMoves DEF SearchSteps
<1>3. CASE near = {} /\ req.ask.kind # "recommend"
  <2>1. Answer([kind |-> "nearby", groups |-> {}, read |-> {}])
    BY <1>3 DEF ReadNear
  <2>2. QED
    BY <1>0, <1>3, <2>1, SearchAnswers
<1>4. QED
  BY <1>1, <1>2, <1>3

LEMMA Matched == ASSUME SearchInv, Match PROVE SearchInv'
<1> DEFINE f == req.ask.filter
           rows == ByConditions(req.near, WithoutAllOption(f.categories), WithoutAllOption(f.keywords), f.prices)
<1>0. /\ SeenOK /\ AskOK /\ RecommendOK /\ req # Idle /\ req.pc = "match" /\ DOMAIN req = ReqFields
      /\ req.ask.kind = "recommend"
  BY DEF SearchInv, Match, At, AskOK
<1>1. /\ req.near # {} /\ req.near \subseteq Near
      /\ \A v \in seen.steady : v.place \in Near => v.place \in req.near
  BY <1>0 DEF RecommendOK
<1>2. rows \subseteq Live /\ \A v \in Live : v \in rows <=> WantedReview(v, f) /\ v.place \in req.near
  <2>1. rows \subseteq Live
    BY DEF ByConditions
  <2>2. QED
    BY <1>1, <2>1, WantedIsFound
<1>3. \A w \in seen.steady : WantedReview(w, f) => w \in rows
  BY <1>0, <1>1, <1>2 DEF SeenOK, WantedReview
<1>4. CASE rows = {}
  <2>1. req' = [req EXCEPT !.pc = "draw"] /\ UNCHANGED <<tables, seen>>
    BY <1>4 DEF Match, Goto
  <2>2. DOMAIN req' = ReqFields /\ req'.pc = "draw" /\ req'.ask = req.ask
    BY <1>0, <2>1 DEF ReqFields
  <2>3. RecommendOK'
    BY <1>3, <1>4, <2>1, <2>2 DEF RecommendOK, NoneFits
  <2>4. QED
    BY <1>0, <2>1, <2>2, <2>3, SearchMoves DEF SearchSteps
<1>5. CASE rows # {}
  <2>1. PICK x \in {v.place : v \in rows} :
          /\ req' = [req EXCEPT !.pc = "list", !.aggregate = Aggregate({v \in rows : v.place = x})]
          /\ UNCHANGED <<tables, seen>>
    BY <1>5 DEF Match
  <2>2. PICK its : its = {v \in rows : v.place = x}
    OBVIOUS
  <2>3. /\ DOMAIN req' = ReqFields /\ req'.pc = "list" /\ req'.ask = req.ask
        /\ req'.aggregate = Aggregate(its)
    BY <1>0, <2>1, <2>2 DEF ReqFields
  <2>4. Aggregate(its).rows = its
    BY DEF Aggregate
  <2>5. Fits(its, f)
    <3>1. its # {} /\ its \subseteq seen.since
      BY <1>0, <1>2, <2>1, <2>2 DEF SeenOK
    <3>2. \A v, w \in its : WantedReview(v, f) /\ v.place = w.place
      BY <1>2, <2>2
    <3>3. \A v \in its, w \in seen.steady : WantedReview(w, f) /\ w.place = v.place => w \in its
      BY <1>3, <2>2
    <3>4. QED
      BY <3>1, <3>2, <3>3 DEF Fits
  <2>6. RecommendOK'
    BY <2>1, <2>3, <2>4, <2>5 DEF RecommendOK, Fits
  <2>7. QED
    BY <1>0, <2>1, <2>3, <2>6, SearchMoves DEF SearchSteps
<1>6. QED
  BY <1>4, <1>5

LEMMA ShopDrawn == ASSUME SearchInv, DrawShop PROVE SearchInv'
<1> DEFINE f == req.ask.filter
           categories == WithoutAllOption(f.categories)
           shops == {s \in open : categories = {} \/ s.category \in categories}
<1>0. /\ SeenOK /\ AskOK /\ RecommendOK /\ req # Idle /\ req.pc = "draw"
      /\ req.ask.kind = "recommend" /\ NoneFits(f)
  BY DEF SearchInv, DrawShop, At, RecommendOK, DrawsForSome
<1>1. \A s : categories = {} \/ s.category \in categories <=> Wanted(s.category, f)
  BY DEF WithoutAllOption, Wanted
<1>2. CASE shops = {}
  <2>1. Answer([kind |-> "empty"])
    BY <1>2 DEF DrawShop, Empty
  <2>2. \A s \in seen.steadyOpen : ~Wanted(s.category, f)
    BY <1>0, <1>1, <1>2 DEF SeenOK
  <2>3. AnswerFits([kind |-> "empty"], f)
    BY <1>0, <2>2 DEF AnswerFits
  <2>4. QED
    BY <1>0, <2>1, <2>3, SearchAnswers
<1>3. CASE shops # {}
  <2>1. PICK s \in shops : Answer([kind |-> "shop", shop |-> s])
    BY <1>3 DEF DrawShop
  <2>2. s \in seen.open /\ Wanted(s.category, f)
    BY <1>0, <1>1 DEF SeenOK
  <2>3. AnswerFits([kind |-> "shop", shop |-> s], f)
    BY <1>0, <2>2 DEF AnswerFits
  <2>4. QED
    BY <1>0, <2>1, <2>3, SearchAnswers
<1>4. QED
  BY <1>2, <1>3

(* A step from one read of a listing to the next one.                      *)
LEMMA ListGoesOn ==
  ASSUME SearchInv, req # Idle, req.pc \in {"list", "summaries"}, UNCHANGED <<tables, seen>>,
         DOMAIN req' = ReqFields, req'.ask = req.ask, req'.pc \in {"list", "summaries"},
         req'.aggregate = req.aggregate
  PROVE  SearchInv'
<1>1. PICK f, rows : f = req.ask.filter /\ rows = req.aggregate.rows
  OBVIOUS
<1>2. seen' = seen
  OBVIOUS
<1>3. Fits(rows, f)' <=> Fits(rows, f)
  BY <1>2 DEF Fits
<1>4. req.ask.kind = "recommend" => Fits(rows, f)
  BY <1>1 DEF SearchInv, RecommendOK
<1>5. req.ask.kind = "recommend" => RecommendOK'
  BY <1>1, <1>3, <1>4 DEF RecommendOK
<1>6. QED
  BY <1>5, SearchMoves DEF SearchSteps

LEMMA ListCompletes ==
  ASSUME SearchInv, req # Idle, req.pc \in {"list", "summaries"}, NEW listing, Complete(listing)
  PROVE  SearchInv'
<1>1. CASE req.ask.kind = "list"
  BY <1>1, SearchAnswers DEF Complete
<1>2. CASE req.ask.kind # "list"
  <2>1. PICK answer : answer = [kind |-> "restaurant", aggregate |-> req.aggregate, listing |-> listing]
    OBVIOUS
  <2>2. Answer(answer) /\ answer.kind = "restaurant" /\ answer.aggregate = req.aggregate
    BY <1>2, <2>1 DEF Complete
  <2>3. req.ask.kind = "recommend" => AnswerFits(answer, req.ask.filter)
    BY <2>2 DEF AnswerFits, SearchInv, RecommendOK
  <2>4. QED
    BY <2>2, <2>3, SearchAnswers
<1>3. QED
  BY <1>1, <1>2

LEMMA Refused == ASSUME SearchInv, req # Idle, Refuse PROVE SearchInv'
<1>1. PICK answer : answer = [kind |-> "refused"]
  OBVIOUS
<1>2. Answer(answer) /\ answer.kind = "refused"
  BY <1>1 DEF Refuse
<1>3. AnswerFits(answer, req.ask.filter)
  BY <1>2 DEF AnswerFits
<1>4. QED
  BY <1>2, <1>3, SearchAnswers

LEMMA ListReads == ASSUME SearchInv, ReadList \/ Summarize PROVE SearchInv'
<1>0. req # Idle /\ req.pc \in {"list", "summaries"} /\ DOMAIN req = ReqFields
  BY DEF ReadList, Summarize, At, SearchInv, AskOK
<1>1. CASE ReadList
  <2>1. PICK listing :
          \/ Complete(listing)
          \/ /\ req' = [req EXCEPT !.pc = "summaries", !.read = listing, !.left = DOMAIN listing.shown]
             /\ UNCHANGED <<tables, seen>>
    BY <1>1 DEF ReadList
  <2>2. CASE Complete(listing)
    BY <1>0, <2>2, ListCompletes
  <2>3. CASE /\ req' = [req EXCEPT !.pc = "summaries", !.read = listing, !.left = DOMAIN listing.shown]
             /\ UNCHANGED <<tables, seen>>
    <3>1. /\ DOMAIN req' = ReqFields /\ req'.pc = "summaries" /\ req'.ask = req.ask
          /\ req'.aggregate = req.aggregate
      BY <1>0, <2>3 DEF ReqFields
    <3>2. QED
      BY <1>0, <2>3, <3>1, ListGoesOn
  <2>4. QED
    BY <2>1, <2>2, <2>3
<1>2. CASE Summarize
  <2>1. PICK i, listing :
          \/ Refuse
          \/ Complete(listing)
          \/ req' = [req EXCEPT !.left = @ \ {i}, !.read = listing] /\ UNCHANGED <<tables, seen>>
    BY <1>2 DEF Summarize
  <2>2. CASE req' = [req EXCEPT !.left = @ \ {i}, !.read = listing] /\ UNCHANGED <<tables, seen>>
    <3>1. /\ DOMAIN req' = ReqFields /\ req'.pc = req.pc /\ req'.ask = req.ask
          /\ req'.aggregate = req.aggregate
      BY <1>0, <2>2 DEF ReqFields
    <3>2. QED
      BY <1>0, <2>2, <3>1, ListGoesOn
  <2>3. QED
    BY <1>0, <2>1, <2>2, ListCompletes, Refused
<1>3. QED
  BY <1>1, <1>2

(* The other requests recommend nothing.                                   *)
LEMMA OthersRead == ASSUME SearchInv, CheckArea \/ GroupNear \/ ReadOfReviewer \/ ReadRecent PROVE SearchInv'
<1>0. req # Idle /\ DOMAIN req = ReqFields /\ req.ask.kind # "recommend"
  BY DEF CheckArea, GroupNear, ReadOfReviewer, ReadRecent, At, SearchInv, AskOK, RecommendOK
<1>1. ASSUME NEW answer, Answer(answer) PROVE SearchInv'
  BY <1>0, <1>1, SearchAnswers
<1>2. CASE CheckArea
  <2>1. CASE Goto("near")
    <3>1. /\ UNCHANGED <<tables, seen>>
          /\ DOMAIN req' = ReqFields /\ req'.pc = "near" /\ req'.ask = req.ask
      BY <1>0, <2>1 DEF Goto, ReqFields
    <3>2. QED
      BY <1>0, <3>1, SearchMoves DEF SearchSteps
  <2>2. QED
    BY <1>0, <1>2, <2>1, Refused DEF CheckArea
<1>3. CASE GroupNear
  <2>1. \E answer : Answer(answer)
    BY <1>3 DEF GroupNear, Empty
  <2>2. QED
    BY <1>1, <2>1
<1>4. CASE ReadOfReviewer
  <2>1. PICK read, its, count :
          \/ Refuse
          \/ \E answer : Answer(answer)
          \/ /\ req' = [req EXCEPT !.left = @ \ {read}, !.read = its, !.count = count]
             /\ UNCHANGED <<tables, seen>>
    BY <1>4 DEF ReadOfReviewer
  <2>2. CASE /\ req' = [req EXCEPT !.left = @ \ {read}, !.read = its, !.count = count]
             /\ UNCHANGED <<tables, seen>>
    <3>1. DOMAIN req' = ReqFields /\ req'.pc = "reads" /\ req'.ask = req.ask
      BY <1>0, <1>4, <2>2 DEF ReqFields, ReadOfReviewer, At
    <3>2. QED
      BY <1>0, <2>2, <3>1, SearchMoves DEF SearchSteps
  <2>3. QED
    BY <1>0, <1>1, <2>1, <2>2, Refused
<1>5. CASE ReadRecent
  BY <1>1, <1>5 DEF ReadRecent
<1>6. QED
  BY <1>2, <1>3, <1>4, <1>5

LEMMA SearchNext == SearchInv /\ [Next]_vars => SearchInv'
<1> SUFFICES ASSUME SearchInv, [Next]_vars PROVE SearchInv'
  OBVIOUS
<1>1. CASE UNCHANGED vars
  <2>1. UNCHANGED <<reviews, members, open, changes, req, seen>>
    BY <1>1 DEF vars, tables
  <2>2. TablesOK' /\ SeenOK' /\ AskOK' /\ DrawsForSome'
    BY <2>1 DEF SearchInv, TablesOK, SeenOK, AskOK, DrawsForSome, Live, Idle
  <2>3. RecommendOK'
    BY <2>1 DEF SearchInv, RecommendOK, AnswerFits, Fits, NoneFits, Idle
  <2>4. QED
    BY <2>2, <2>3 DEF SearchInv
<1>2. CASE Next
  <2>1. CASE Work
    BY <2>1, NearRead, Matched, ShopDrawn, ListReads, OthersRead DEF Work
  <2>2. CASE (\E ask \in Asks : Receive(ask)) \/ Return \/ Abort
    BY <2>2, SearchReceives, SearchEnds
  <2>3. QED
    BY <1>2, <2>1, <2>2, OthersNext DEF Next
<1>3. QED
  BY <1>1, <1>2

-----------------------------------------------------------------------------
(* The counters of recommendations (Metrics)                               *)

LEMMA MetricsNumbers ==
  /\ Types \in Seq(M!TypeSet) /\ 1 \in DOMAIN Types /\ RetentionDays \in Nat \ {0} /\ DefaultDays \in 1..RetentionDays
  /\ AskedDays \subseteq Int /\ DayTicks \in Nat \ {0} /\ MaxTicks \in Nat /\ MaxTotal \in Nat
BY RecommendationsAssumption DEF M!MetricsAssumption

CounterFrames ==
  [pc: {"idle", "exec", "mget"}, type: M!TypeSet, day: 0..MaxTicks, days: 0..RetentionDays]

CountersTyped ==
  /\ mnow \in 0..MaxTicks
  /\ total \in [M!TypeSet -> 0..MaxTotal]
  /\ daily \in [M!TypeSet -> [M!Days -> Nat]] /\ dies \in [M!TypeSet -> [M!Days -> Nat]]
  /\ made \in [M!TypeSet -> [M!Days -> Nat]]
  /\ mreq \in [Requests -> CounterFrames]
  /\ \A r \in Requests : mreq[r] = M!Idle \/ mreq[r].pc # "idle"

CountersOK ==
  /\ \A r \in Requests : mreq[r].day <= M!Today
  /\ \A r \in Requests : mreq[r].pc = "mget" => mreq[r].days \in 1..RetentionDays
  /\ \A t \in M!TypeSet : total[t] = SetSum(made[t], M!Days)
  /\ \A t \in M!TypeSet, d \in M!Days :
       /\ daily[t][d] <= total[t]
       /\ daily[t][d] > 0 <=> dies[t][d] > mnow
       /\ daily[t][d] > 0 => dies[t][d] >= (d + RetentionDays) * DayTicks
       /\ (d + RetentionDays) * DayTicks > mnow => daily[t][d] = made[t][d]

CountersInv == CountersTyped /\ CountersOK

LEMMA DaysOf ==
  ASSUME NEW n \in Nat
  PROVE  LET d == n \div DayTicks IN
           d \in 0..n /\ d * DayTicks <= n /\ n < (d + 1) * DayTicks
BY MetricsNumbers

LEMMA SameDay ==
  ASSUME NEW n \in Nat, NEW m \in Nat, n <= m
  PROVE  n \div DayTicks <= m \div DayTicks
BY MetricsNumbers

LEMMA IdleCounter ==
  /\ M!Idle \in CounterFrames /\ M!Idle.pc = "idle" /\ M!Idle.day = 0
  /\ Types[1] \in M!TypeSet
<1>1. Types[1] \in M!TypeSet
  BY MetricsNumbers DEF M!TypeSet, M!Range
<1>2. QED
  BY <1>1, MetricsNumbers DEF M!Idle, CounterFrames

LEMMA DaysFinite == IsFiniteSet(M!Days) /\ \A a, b \in Int : IsFiniteSet(a..b)
BY FS_Interval, MetricsNumbers DEF M!Days

LEMMA NothingMade == ASSUME NEW g, \A d \in M!Days : g[d] = 0 PROVE SetSum(g, M!Days) = 0
<1>1. PICK H : H = [s \in SUBSET M!Days |-> 0]
  OBVIOUS
<1>2. \A s \in SUBSET M!Days : s # {} => First(s) \in M!Days
  BY FirstIn
<1>3. \A s \in SUBSET M!Days : Summand(H, g, s) = 0
  BY <1>1, <1>2 DEF Summand
<1>4. IsSum(H, g, M!Days)
  BY <1>1, <1>3 DEF IsSum
<1>5. QED
  BY <1>1, <1>4, DaysFinite, SetSumIs

LEMMA CountersInit == M!Init => CountersInv
<1> SUFFICES ASSUME M!Init PROVE CountersInv
  OBVIOUS
<1>1. CountersTyped
  BY MetricsNumbers, IdleCounter DEF M!Init, CountersTyped
<1>2. /\ \A t \in M!TypeSet : total[t] = 0
      /\ \A t \in M!TypeSet, d \in M!Days : daily[t][d] = 0 /\ dies[t][d] = 0 /\ made[t][d] = 0
      /\ mnow = 0 /\ \A r \in Requests : mreq[r].pc = "idle" /\ mreq[r].day = 0
  BY IdleCounter DEF M!Init
<1>3. 0 <= M!Today
  BY <1>2, MetricsNumbers, DaysOf DEF M!Today
<1>4. \A t \in M!TypeSet : SetSum(made[t], M!Days) = 0
  BY <1>2, NothingMade DEF M!Init
<1>6. CountersOK
  BY <1>2, <1>3, <1>4 DEF CountersOK
<1>5. QED
  BY <1>1, <1>6 DEF CountersInv

LEMMA CounterTypes ==
  ASSUME CountersInv
  PROVE  /\ mnow \in Nat /\ M!Today \in 0..MaxTicks /\ M!Today * DayTicks <= mnow
         /\ mnow < (M!Today + 1) * DayTicks
         /\ \A r \in Requests : mreq[r] \in CounterFrames
         /\ \A r \in Requests : mreq[r].pc = "idle" <=> mreq[r] = M!Idle
<1>1. mnow \in 0..MaxTicks
  BY DEF CountersInv, CountersTyped
<1>2. mnow \in Nat /\ M!Today \in 0..MaxTicks /\ M!Today * DayTicks <= mnow
      /\ mnow < (M!Today + 1) * DayTicks
  BY <1>1, DaysOf, MetricsNumbers DEF M!Today
<1>3. QED
  BY <1>2, IdleCounter DEF CountersInv, CountersTyped

(* A slot takes a request, or gives it back; the counters stay.            *)
LEMMA SlotMoves ==
  ASSUME CountersInv, NEW r \in Requests, NEW q \in CounterFrames, mreq' = [mreq EXCEPT ![r] = q],
         q = M!Idle \/ q.pc # "idle", q.day <= M!Today, q.pc = "mget" => q.days \in 1..RetentionDays,
         UNCHANGED <<mnow, total, daily, dies, made>>
  PROVE  CountersInv'
<1>1. /\ mreq' \in [Requests -> CounterFrames] /\ mreq'[r] = q
      /\ \A s \in Requests \ {r} : mreq'[s] = mreq[s]
  BY DEF CountersInv, CountersTyped
<1>2. CountersTyped'
  BY <1>1 DEF CountersInv, CountersTyped
<1>3. M!Today' = M!Today
  BY DEF M!Today
<1>4. CountersOK'
  BY <1>1, <1>3 DEF CountersInv, CountersOK
<1>5. QED
  BY <1>2, <1>4 DEF CountersInv

LEMMA Incremented ==
  ASSUME CountersInv, NEW r \in Requests, NEW t \in M!TypeSet, M!Increment(r, t) PROVE CountersInv'
<1> DEFINE q == [[[M!Idle EXCEPT !.pc = "exec"] EXCEPT !.type = t] EXCEPT !.day = M!Today]
<1>1. q \in CounterFrames /\ q.pc = "exec" /\ q.day = M!Today
  BY IdleCounter, CounterTypes DEF CounterFrames
<1>2. mreq' = [mreq EXCEPT ![r] = q] /\ UNCHANGED <<mnow, total, daily, dies, made>>
  BY DEF M!Increment
<1> HIDE DEF q
<1>3. M!Today <= M!Today
  BY CounterTypes
<1>4. QED
  BY <1>1, <1>2, <1>3, SlotMoves

LEMMA ParsedDays == ASSUME NEW n \in Int PROVE M!ParseDays(n) \in 1..RetentionDays
BY MetricsNumbers DEF M!ParseDays

LEMMA Queried ==
  ASSUME CountersInv, NEW r \in Requests, NEW n \in AskedDays, M!Query(r, n) PROVE CountersInv'
<1>0. PICK days \in 1..RetentionDays : days = M!ParseDays(n)
  BY ParsedDays, MetricsNumbers
<1> DEFINE q == [[[M!Idle EXCEPT !.pc = "mget"] EXCEPT !.day = M!Today] EXCEPT !.days = days]
<1>1. q \in CounterFrames /\ q.pc = "mget" /\ q.day = M!Today /\ q.days = days
  <2>1. M!Today \in 0..MaxTicks /\ days \in 0..RetentionDays /\ M!Idle \in CounterFrames
    BY IdleCounter, CounterTypes
  <2>2. QED
    BY <2>1 DEF CounterFrames
<1>2. mreq' = [mreq EXCEPT ![r] = q] /\ UNCHANGED <<mnow, total, daily, dies, made>>
  BY <1>0 DEF M!Query
<1> HIDE DEF q
<1>3. M!Today <= M!Today
  BY CounterTypes
<1>4. QED
  BY <1>1, <1>2, <1>3, SlotMoves

LEMMA SlotFreed ==
  ASSUME CountersInv, NEW r \in Requests, M!MGet(r) \/ M!Abort(r) PROVE CountersInv'
<1>1. mreq' = [mreq EXCEPT ![r] = M!Idle] /\ UNCHANGED <<mnow, total, daily, dies, made>>
  BY DEF M!MGet, M!Abort
<1>2. M!Idle.day <= M!Today /\ M!Idle.pc # "mget"
  BY IdleCounter, CounterTypes
<1>3. QED
  BY <1>1, <1>2, IdleCounter, SlotMoves

LEMMA SumOfIs == ASSUME NEW s PROVE M!SumOf(s) = SetSum(s, DOMAIN s)
BY DEF SetSum, IsSum, Summand, First, M!SumOf, M!FoldSeq, M!FoldFunction, M!FoldFunctionOnSet, M!MapThenFoldSet

LEMMA MadeInIs == ASSUME NEW t, NEW days, NEW g, g = made[t] PROVE M!MadeIn(t, days) = SetSum(g, days)
BY Zenon DEF SetSum, IsSum, Summand, First, M!MadeIn, M!FoldFunctionOnSet, M!MapThenFoldSet

LEMMA OneMoreMade ==
  ASSUME NEW g \in [M!Days -> Nat], NEW d \in M!Days
  PROVE  SetSum([g EXCEPT ![d] = @ + 1], M!Days) = SetSum(g, M!Days) + 1
<1>1. PICK h : h = [g EXCEPT ![d] = @ + 1]
  OBVIOUS
<1>2. h \in [M!Days -> Nat] /\ h[d] = g[d] + 1 /\ \A x \in M!Days \ {d} : g[x] = h[x]
  BY <1>1
<1>3. IsFiniteSet(M!Days \ {d})
  BY DaysFinite, FS_Subset
<1>4. SetSum(g, M!Days \ {d}) = SetSum(h, M!Days \ {d}) /\ SetSum(g, M!Days \ {d}) \in Nat
  BY <1>2, <1>3, SetSumSame, SetSumNat
<1>5. /\ SetSum(g, M!Days) = g[d] + SetSum(g, M!Days \ {d})
      /\ SetSum(h, M!Days) = h[d] + SetSum(h, M!Days \ {d})
  BY <1>2, DaysFinite, SetSumRemove
<1>6. g[d] \in Nat
  OBVIOUS
<1>7. SetSum(h, M!Days) = SetSum(g, M!Days) + 1
  BY <1>2, <1>4, <1>5, <1>6
<1>8. QED
  BY <1>1, <1>7

(* Days in ticks.                                                          *)
LEMMA TimesGrows == ASSUME NEW a \in Nat, NEW b \in Nat, NEW c \in Nat, a <= b PROVE a * c <= b * c
<1>1. PICK k \in Nat : b = a + k
  <2>1. b - a \in Nat /\ b = a + (b - a)
    OBVIOUS
  <2>2. QED
    BY <2>1
<1>2. b * c = a * c + k * c /\ k * c \in Nat /\ a * c \in Nat
  BY <1>1
<1>3. QED
  BY <1>2

LEMMA DaysAhead ==
  ASSUME NEW d \in Int, NEW n \in Nat, d * DayTicks <= n
  PROVE  \E lives \in Nat : /\ lives = n + RetentionDays * DayTicks /\ lives > n
                            /\ lives >= (d + RetentionDays) * DayTicks
<1>1. PICK R \in Nat \ {0}, D \in Nat \ {0} : R = RetentionDays /\ D = DayTicks
  BY MetricsNumbers
<1>2. PICK p \in Int, q \in Int : p = R * D /\ q = d * D
  BY <1>1
<1>3. (d + R) * D = q + p
  BY <1>2
<1>4. p >= 1
  BY <1>2
<1>5. n + p \in Nat /\ n + p > n /\ n + p >= q + p
  BY <1>1, <1>2, <1>4
<1>6. QED
  BY <1>1, <1>2, <1>3, <1>5

LEMMA Counted == ASSUME CountersInv, NEW r \in Requests, M!Exec(r) PROVE CountersInv'
<1>0. CountersTyped /\ CountersOK /\ mreq[r] \in CounterFrames
  BY CounterTypes DEF CountersInv
<1>1. PICK t \in M!TypeSet, d \in 0..MaxTicks : t = mreq[r].type /\ d = mreq[r].day
  BY <1>0 DEF CounterFrames
<1>2. /\ total[t] < MaxTotal
      /\ total' = [total EXCEPT ![t] = @ + 1] /\ daily' = [daily EXCEPT ![t][d] = @ + 1]
      /\ dies' = [dies EXCEPT ![t][d] = mnow + RetentionDays * DayTicks]
      /\ made' = [made EXCEPT ![t][d] = @ + 1]
      /\ mreq' = [mreq EXCEPT ![r] = M!Idle] /\ mnow' = mnow
  BY <1>1 DEF M!Exec
<1>3. d \in M!Days /\ d <= M!Today /\ d * DayTicks <= mnow
  <2>1. d <= M!Today /\ d \in M!Days
    BY <1>0, <1>1, MetricsNumbers DEF CountersOK, M!Days
  <2>2. PICK today \in Nat : today = M!Today /\ today * DayTicks <= mnow /\ d <= today
    BY <2>1, CounterTypes
  <2>3. d \in Nat /\ mnow \in Nat /\ DayTicks \in Nat
    BY CounterTypes, MetricsNumbers
  <2>4. d * DayTicks <= today * DayTicks /\ d * DayTicks \in Nat /\ today * DayTicks \in Nat
    BY <2>2, <2>3, TimesGrows
  <2>5. QED
    BY <2>1, <2>2, <2>3, <2>4
<1>4. PICK lives \in Nat : /\ lives = mnow + RetentionDays * DayTicks /\ lives > mnow
                           /\ lives >= (d + RetentionDays) * DayTicks
  <2>1. d \in Int /\ mnow \in Nat
    BY CounterTypes
  <2>2. QED
    BY <1>3, <2>1, DaysAhead
<1>5. /\ total \in [M!TypeSet -> 0..MaxTotal] /\ daily \in [M!TypeSet -> [M!Days -> Nat]]
      /\ dies \in [M!TypeSet -> [M!Days -> Nat]] /\ made \in [M!TypeSet -> [M!Days -> Nat]]
      /\ mreq \in [Requests -> CounterFrames]
  BY <1>0 DEF CountersTyped
<1>6. /\ total'[t] = total[t] + 1 /\ total'[t] \in 0..MaxTotal
      /\ \A u \in M!TypeSet \ {t} : total'[u] = total[u]
      /\ total' \in [M!TypeSet -> 0..MaxTotal]
  BY <1>2, <1>5, MetricsNumbers
<1>7. /\ daily'[t][d] = daily[t][d] + 1 /\ \A e \in M!Days \ {d} : daily'[t][e] = daily[t][e]
      /\ \A u \in M!TypeSet \ {t} : daily'[u] = daily[u]
      /\ daily' \in [M!TypeSet -> [M!Days -> Nat]]
  BY <1>2, <1>3, <1>5
<1>8. /\ dies'[t][d] = lives /\ \A e \in M!Days \ {d} : dies'[t][e] = dies[t][e]
      /\ \A u \in M!TypeSet \ {t} : dies'[u] = dies[u]
      /\ dies' \in [M!TypeSet -> [M!Days -> Nat]]
  BY <1>2, <1>3, <1>4, <1>5
<1>9. /\ made'[t] = [made[t] EXCEPT ![d] = @ + 1]
      /\ made'[t][d] = made[t][d] + 1 /\ \A e \in M!Days \ {d} : made'[t][e] = made[t][e]
      /\ \A u \in M!TypeSet \ {t} : made'[u] = made[u]
      /\ made' \in [M!TypeSet -> [M!Days -> Nat]]
  BY <1>2, <1>3, <1>5
<1>10. /\ mreq' \in [Requests -> CounterFrames] /\ mreq'[r] = M!Idle
       /\ \A s \in Requests \ {r} : mreq'[s] = mreq[s]
  BY <1>2, <1>5, IdleCounter
<1>11. CountersTyped'
  BY <1>0, <1>2, <1>6, <1>7, <1>8, <1>9, <1>10 DEF CountersTyped
<1>12. ASSUME NEW u \in M!TypeSet, NEW e \in M!Days
       PROVE  /\ daily'[u][e] <= total'[u]
              /\ daily'[u][e] > 0 <=> dies'[u][e] > mnow'
              /\ daily'[u][e] > 0 => dies'[u][e] >= (e + RetentionDays) * DayTicks
              /\ (e + RetentionDays) * DayTicks > mnow' => daily'[u][e] = made'[u][e]
  <2>1. /\ daily[u][e] <= total[u]
        /\ daily[u][e] > 0 <=> dies[u][e] > mnow
        /\ daily[u][e] > 0 => dies[u][e] >= (e + RetentionDays) * DayTicks
        /\ (e + RetentionDays) * DayTicks > mnow => daily[u][e] = made[u][e]
    BY <1>0 DEF CountersOK
  <2>2. daily[u][e] \in Nat /\ total[u] \in Nat
    BY <1>5, MetricsNumbers
  <2>3. CASE u = t /\ e = d
    BY <1>2, <1>4, <1>6, <1>7, <1>8, <1>9, <2>1, <2>2, <2>3
  <2>4. CASE u # t
    BY <1>2, <1>6, <1>7, <1>8, <1>9, <2>1, <2>4
  <2>5. CASE u = t /\ e # d
    BY <1>2, <1>6, <1>7, <1>8, <1>9, <2>1, <2>2, <2>5
  <2>6. QED
    BY <2>3, <2>4, <2>5
<1>13. ASSUME NEW u \in M!TypeSet PROVE total'[u] = SetSum(made'[u], M!Days)
  <2>1. total[u] = SetSum(made[u], M!Days)
    BY <1>0 DEF CountersOK
  <2>2. CASE u = t
    <3>1. made[t] \in [M!Days -> Nat]
      BY <1>5
    <3>2. SetSum(made'[t], M!Days) = SetSum(made[t], M!Days) + 1
      BY <1>3, <1>9, <3>1, OneMoreMade
    <3>3. QED
      BY <1>6, <2>1, <2>2, <3>2
  <2>3. CASE u # t
    BY <1>6, <1>9, <2>1, <2>3
  <2>4. QED
    BY <2>2, <2>3
<1>14. CountersOK'
  <2>1. M!Today' = M!Today /\ 0 <= M!Today
    BY <1>2, CounterTypes DEF M!Today
  <2>2. \A s \in Requests : mreq'[s].day <= M!Today'
    BY <1>0, <1>10, <2>1, IdleCounter DEF CountersOK
  <2>3. \A s \in Requests : mreq'[s].pc = "mget" => mreq'[s].days \in 1..RetentionDays
    BY <1>0, <1>10, IdleCounter DEF CountersOK
  <2>4. QED
    BY <1>12, <1>13, <2>2, <2>3 DEF CountersOK
<1>15. QED
  BY <1>11, <1>14 DEF CountersInv

LEMMA TimePasses == ASSUME CountersInv, M!Tick PROVE CountersInv'
<1>0. CountersTyped /\ CountersOK
  BY DEF CountersInv
<1>1. /\ mnow < MaxTicks /\ mnow' = mnow + 1 /\ UNCHANGED <<total, dies, made, mreq>>
      /\ daily' = [t \in M!TypeSet |-> [d \in M!Days |-> IF dies[t][d] > mnow + 1 THEN daily[t][d] ELSE 0]]
  BY DEF M!Tick
<1>2. mnow' \in 0..MaxTicks /\ mnow \in Nat
  BY <1>0, <1>1, MetricsNumbers DEF CountersTyped
<1>3. /\ daily \in [M!TypeSet -> [M!Days -> Nat]] /\ dies \in [M!TypeSet -> [M!Days -> Nat]]
      /\ total \in [M!TypeSet -> 0..MaxTotal] /\ made \in [M!TypeSet -> [M!Days -> Nat]]
  BY <1>0 DEF CountersTyped
<1>4. daily' \in [M!TypeSet -> [M!Days -> Nat]]
  BY <1>1, <1>3
<1>5. CountersTyped'
  BY <1>0, <1>1, <1>2, <1>4 DEF CountersTyped
<1>6. ASSUME NEW t \in M!TypeSet, NEW d \in M!Days
      PROVE  /\ daily'[t][d] <= total[t]
             /\ daily'[t][d] > 0 <=> dies[t][d] > mnow'
             /\ daily'[t][d] > 0 => dies[t][d] >= (d + RetentionDays) * DayTicks
             /\ (d + RetentionDays) * DayTicks > mnow' => daily'[t][d] = made[t][d]
  <2>1. PICK due \in Int : due = (d + RetentionDays) * DayTicks
    BY MetricsNumbers DEF M!Days
  <2>2. /\ daily[t][d] <= total[t]
        /\ daily[t][d] > 0 <=> dies[t][d] > mnow
        /\ daily[t][d] > 0 => dies[t][d] >= due
        /\ due > mnow => daily[t][d] = made[t][d]
    BY <1>0, <2>1 DEF CountersOK
  <2>3. /\ daily[t][d] \in Nat /\ dies[t][d] \in Nat /\ total[t] \in Nat /\ made[t][d] \in Nat
        /\ daily'[t][d] = IF dies[t][d] > mnow + 1 THEN daily[t][d] ELSE 0
    BY <1>1, <1>3, MetricsNumbers
  <2>4. QED
    BY <1>1, <1>2, <2>1, <2>2, <2>3
<1>7. M!Today <= M!Today' /\ M!Today \in Nat /\ M!Today' \in Nat
  BY <1>1, <1>2, SameDay, DaysOf DEF M!Today
<1>8. \A r \in Requests : mreq[r].day <= M!Today'
  BY <1>0, <1>7, CounterTypes DEF CountersOK, CounterFrames
<1>9. CountersOK'
  BY <1>0, <1>1, <1>6, <1>8 DEF CountersOK
<1>10. QED
  BY <1>5, <1>9 DEF CountersInv

LEMMA CountersNext == CountersInv /\ [M!Next]_M!vars => CountersInv'
<1> SUFFICES ASSUME CountersInv, [M!Next]_M!vars PROVE CountersInv'
  OBVIOUS
<1>1. CASE UNCHANGED M!vars
  BY <1>1 DEF CountersInv, CountersTyped, CountersOK, M!vars, M!Today
<1>2. QED
  BY <1>1, Incremented, Counted, Queried, SlotFreed, TimePasses DEF M!Next

(* The flat answer of MGET: rows of equal length, one after the other.     *)
IsFlat(f, rows, n) == f = [i \in 1..n |-> IF i = 1 THEN rows[i] ELSE f[i - 1] \o rows[i]]
Flat(rows) == (CHOOSE f : IsFlat(f, rows, Len(rows)))[Len(rows)]

LEMMA FlattenIsFlat == ASSUME NEW rows, Len(rows) # 0 PROVE M!FlattenSeq(rows) = Flat(rows)
BY DEF M!FlattenSeq, Flat, IsFlat

LEMMA FlatExists ==
  ASSUME NEW rows, NEW n \in Nat
  PROVE  IsFlat(CHOOSE f : IsFlat(f, rows, n), rows, n)
<1> DEFINE Good == {m \in Nat : \E f : IsFlat(f, rows, m)}
<1>1. 0 \in Good
  <2>1. PICK f : f = [i \in 1..0 |-> rows[i]]
    OBVIOUS
  <2>2. IsFlat(f, rows, 0)
    BY <2>1 DEF IsFlat
  <2>3. QED
    BY <2>2
<1>2. ASSUME NEW m \in Nat, m \in Good PROVE m + 1 \in Good
  <2>1. PICK f : IsFlat(f, rows, m)
    BY <1>2
  <2>2. PICK g : g = [i \in 1..(m + 1) |-> IF i = m + 1
                                          THEN IF i = 1 THEN rows[i] ELSE f[m] \o rows[i]
                                          ELSE f[i]]
    OBVIOUS
  <2>3. \A i \in 1..m : g[i] = f[i]
    BY <2>2
  <2>4. ASSUME NEW i \in 1..(m + 1) PROVE g[i] = IF i = 1 THEN rows[i] ELSE g[i - 1] \o rows[i]
    <3>1. CASE i = m + 1
      <4>1. CASE i = 1
        BY <2>2, <3>1, <4>1
      <4>2. CASE i # 1
        <5>1. m \in 1..m /\ i - 1 = m
          BY <3>1, <4>2
        <5>2. g[i] = f[m] \o rows[i]
          BY <2>2, <3>1, <4>2
        <5>3. QED
          BY <2>3, <4>2, <5>1, <5>2
      <4>3. QED
        BY <4>1, <4>2
    <3>2. CASE i # m + 1
      <4>1. i \in 1..m
        BY <3>2
      <4>2. f[i] = IF i = 1 THEN rows[i] ELSE f[i - 1] \o rows[i]
        BY <2>1, <4>1 DEF IsFlat
      <4>3. i # 1 => i - 1 \in 1..m
        BY <4>1
      <4>4. QED
        BY <2>3, <4>1, <4>2, <4>3
    <3>3. QED
      BY <3>1, <3>2
  <2>5. g = [i \in 1..(m + 1) |-> IF i = 1 THEN rows[i] ELSE g[i - 1] \o rows[i]]
    BY <2>2, <2>4
  <2>6. IsFlat(g, rows, m + 1)
    BY <2>5 DEF IsFlat
  <2>7. QED
    BY <2>6
<1>3. Nat \subseteq Good
  <2> HIDE DEF Good
  <2>1. QED
    BY <1>1, <1>2, NatSetInduction
<1>4. QED
  BY <1>3

LEMMA Concatenated ==
  ASSUME NEW a \in Seq(Nat), NEW b \in Seq(Nat)
  PROVE  /\ a \o b \in Seq(Nat) /\ Len(a \o b) = Len(a) + Len(b)
         /\ \A k \in 1..Len(a) : (a \o b)[k] = a[k]
         /\ \A k \in 1..Len(b) : (a \o b)[Len(a) + k] = b[k]
OBVIOUS

LEMMA FlatCell ==
  ASSUME NEW L \in Nat, NEW n \in Nat \ {0}, NEW rows \in Seq(Seq(Nat)), Len(rows) = n,
         \A i \in 1..n : Len(rows[i]) = L
  PROVE  /\ M!FlattenSeq(rows) \in Seq(Nat) /\ Len(M!FlattenSeq(rows)) = n * L
         /\ \A i \in 1..n, k \in 1..L : M!FlattenSeq(rows)[(i - 1) * L + k] = rows[i][k]
<1>1. PICK f : f = CHOOSE g : IsFlat(g, rows, n)
  OBVIOUS
<1>2. IsFlat(f, rows, n)
  BY <1>1, FlatExists
<1>3. /\ f[1] = rows[1]
      /\ \A i \in 1..n : i + 1 \in 1..n => f[i + 1] = f[i] \o rows[i + 1]
  <2>1. \A i \in 1..n : f[i] = IF i = 1 THEN rows[i] ELSE f[i - 1] \o rows[i]
    BY <1>2 DEF IsFlat
  <2>2. 1 \in 1..n /\ \A i \in 1..n : i + 1 # 1 /\ (i + 1) - 1 = i
    OBVIOUS
  <2>3. QED
    BY <2>1, <2>2
<1> DEFINE Cells(i) == /\ f[i] \in Seq(Nat) /\ Len(f[i]) = i * L
                       /\ \A j \in 1..i, k \in 1..L : f[i][(j - 1) * L + k] = rows[j][k]
           Good == {i \in Nat : i + 1 \in 1..n => Cells(i + 1)}
<1>4. 0 \in Good
  <2>1. rows[1] \in Seq(Nat) /\ Len(rows[1]) = L
    OBVIOUS
  <2>2. \A j \in 1..1, k \in 1..L : j = 1 /\ (j - 1) * L + k = k
    OBVIOUS
  <2>3. Cells(1)
    BY <1>3, <2>1, <2>2
  <2>4. QED
    BY <2>3
<1>5. ASSUME NEW m \in Nat, m \in Good PROVE m + 1 \in Good
  <2> SUFFICES ASSUME (m + 1) + 1 \in 1..n PROVE Cells((m + 1) + 1)
    OBVIOUS
  <2>1. PICK i \in 1..n : i = m + 1 /\ i + 1 = (m + 1) + 1 /\ i + 1 \in 1..n
    OBVIOUS
  <2>2. Cells(i)
    BY <1>5, <2>1
  <2>3. PICK a, b : a = f[i] /\ b = rows[i + 1]
    OBVIOUS
  <2>4. a \in Seq(Nat) /\ Len(a) = i * L /\ b \in Seq(Nat) /\ Len(b) = L
    BY <2>1, <2>2, <2>3
  <2>5. f[i + 1] = a \o b
    BY <1>3, <2>1, <2>3
  <2>6. PICK p \in Nat : p = i * L
    BY <2>1
  <2>7. (i + 1) * L = p + L /\ Len(a) = p
    BY <2>4, <2>6
  <2>12. PICK c : c = a \o b
    OBVIOUS
  <2>13. /\ c \in Seq(Nat) /\ Len(c) = p + L
         /\ \A k \in 1..p : c[k] = a[k]
         /\ \A k \in 1..L : c[p + k] = b[k]
    <3>1. a \in Seq(Nat) /\ b \in Seq(Nat) /\ Len(b) = L /\ Len(a) = p /\ p \in Nat
      BY <2>4, <2>7
    <3>2. /\ a \o b \in Seq(Nat) /\ Len(a \o b) = Len(a) + Len(b)
          /\ \A k \in 1..Len(a) : (a \o b)[k] = a[k]
          /\ \A k \in 1..Len(b) : (a \o b)[Len(a) + k] = b[k]
      <4>1. a \in Seq(Nat) /\ b \in Seq(Nat)
        BY <3>1
      <4>2. QED
        BY <4>1, Concatenated, Zenon
    <3>3. QED
      BY <2>12, <3>1, <3>2
  <2>8. ASSUME NEW j \in 1..(i + 1), NEW k \in 1..L PROVE f[i + 1][(j - 1) * L + k] = rows[j][k]
    <3>1. PICK q \in Nat : q = (j - 1) * L /\ j * L = q + L
      <4>1. (j - 1) * L \in Nat /\ j * L = (j - 1) * L + L
        OBVIOUS
      <4>2. QED
        BY <4>1
    <3>2. CASE j = i + 1
      <4>1. q = p
        BY <2>6, <3>1, <3>2
      <4>2. QED
        BY <2>3, <2>5, <2>12, <2>13, <3>1, <3>2, <4>1
    <3>3. CASE j # i + 1
      <4>1. j \in 1..i
        BY <3>3
      <4>2. j * L <= i * L
        BY <4>1, TimesGrows
      <4>3. q + k \in 1..p
        <5>1. q + L <= p
          BY <2>6, <3>1, <4>2
        <5>2. q \in Nat /\ p \in Nat /\ k \in Nat /\ 1 <= k /\ k <= L
          OBVIOUS
        <5>3. QED
          BY <5>1, <5>2
      <4>4. c[q + k] = a[q + k]
        BY <2>13, <4>3
      <4>5. a[q + k] = rows[j][k]
        BY <2>2, <2>3, <3>1, <4>1
      <4>6. QED
        BY <2>5, <2>12, <3>1, <4>4, <4>5
    <3>4. QED
      BY <3>2, <3>3
  <2>9. f[i + 1] \in Seq(Nat) /\ Len(f[i + 1]) = (i + 1) * L
    BY <2>5, <2>7, <2>12, <2>13
  <2>10. Cells(i + 1)
    BY <2>8, <2>9
  <2>11. QED
    BY <2>1, <2>10
<1>6. Nat \subseteq Good
  <2> HIDE DEF Good
  <2>1. QED
    BY <1>4, <1>5, NatSetInduction
<1>7. Cells(n)
  <2>1. n - 1 \in Nat /\ (n - 1) + 1 = n /\ n \in 1..n
    OBVIOUS
  <2>2. n - 1 \in Good
    BY <1>6, <2>1
  <2>3. QED
    BY <2>1, <2>2
<1>8. M!FlattenSeq(rows) = f[n]
  <2>1. M!FlattenSeq(rows) = Flat(rows)
    BY FlattenIsFlat
  <2>2. QED
    BY <1>1, <2>1 DEF Flat
<1>9. QED
  BY <1>7, <1>8

(* A sum read backwards.                                                   *)
LEMMA SetSumBackwards ==
  ASSUME NEW p, NEW g, NEW D \in Int, NEW n \in Nat,
         \A k \in 1..n : p[k] \in Nat /\ g[D - k + 1] = p[k]
  PROVE  SetSum(p, 1..n) = SetSum(g, (D - n + 1)..D)
<1> DEFINE Good == {m \in Nat : m <= n => SetSum(p, 1..m) = SetSum(g, (D - m + 1)..D)}
<1>1. 0 \in Good
  <2>1. 1..0 = {} /\ (D - 0 + 1)..D = {}
    OBVIOUS
  <2>2. QED
    BY <2>1, SetSumEmpty
<1>2. ASSUME NEW m \in Nat, m \in Good PROVE m + 1 \in Good
  <2> SUFFICES ASSUME m + 1 <= n
               PROVE  SetSum(p, 1..(m + 1)) = SetSum(g, (D - (m + 1) + 1)..D)
    OBVIOUS
  <2>1. SetSum(p, 1..m) = SetSum(g, (D - m + 1)..D)
    BY <1>2
  <2>2. PICK A, B, y : A = 1..m /\ B = (D - m + 1)..D /\ y = D - m
    OBVIOUS
  <2>3. /\ 1..(m + 1) = A \cup {m + 1} /\ m + 1 \notin A
        /\ (D - (m + 1) + 1)..D = B \cup {y} /\ y \notin B
    BY <2>2
  <2>4. IsFiniteSet(A) /\ IsFiniteSet(B)
    BY <2>2, FS_Interval
  <2>5. \A x \in A \cup {m + 1} : p[x] \in Nat
    BY <2>2
  <2>6. \A x \in B \cup {y} : g[x] \in Nat
    <3>1. ASSUME NEW x \in B \cup {y} PROVE g[x] \in Nat
      <4>1. D - x + 1 \in 1..n /\ x = D - (D - x + 1) + 1
        BY <2>2
      <4>2. QED
        BY <4>1
    <3>2. QED
      BY <3>1
  <2>7. g[y] = p[m + 1]
    <3>1. m + 1 \in 1..n /\ y = D - (m + 1) + 1
      BY <2>2
    <3>2. QED
      BY <3>1
  <2>8. /\ SetSum(p, A \cup {m + 1}) = p[m + 1] + SetSum(p, A)
        /\ SetSum(g, B \cup {y}) = g[y] + SetSum(g, B)
    BY <2>3, <2>4, <2>5, <2>6, SetSumAdd
  <2>9. QED
    BY <2>1, <2>2, <2>3, <2>7, <2>8
<1>3. Nat \subseteq Good
  <2> HIDE DEF Good
  <2>1. QED
    BY <1>1, <1>2, NatSetInduction
<1>4. QED
  BY <1>3

(* A row: the total of a type, then its days.                              *)
LEMMA Prefixed ==
  ASSUME NEW a \in Seq(Nat), NEW b \in Seq(Nat), Len(a) = 1
  PROVE  /\ a \o b \in Seq(Nat) /\ Len(a \o b) = Len(b) + 1 /\ (a \o b)[1] = a[1]
         /\ \A k \in 1..Len(b) : (a \o b)[k + 1] = b[k]
<1>1. /\ a \o b \in Seq(Nat) /\ Len(a \o b) = Len(a) + Len(b)
      /\ \A k \in 1..Len(a) : (a \o b)[k] = a[k]
      /\ \A k \in 1..Len(b) : (a \o b)[Len(a) + k] = b[k]
  BY Concatenated, Zenon
<1>2. PICK c : c = a \o b
  OBVIOUS
<1>6. PICK n \in Nat : n = Len(b)
  OBVIOUS
<1>3. c \in Seq(Nat) /\ Len(c) = n + 1 /\ c[1] = a[1]
  BY <1>1, <1>2, <1>6
<1>4. \A k \in 1..n : c[k + 1] = b[k]
  <2>1. \A k \in 1..n : 1 + k = k + 1 /\ c[1 + k] = b[k]
    BY <1>1, <1>2, <1>6
  <2>2. QED
    BY <2>1
<1>5. QED
  BY <1>2, <1>3, <1>4, <1>6

IsRow(cells, x, row, n) ==
  /\ cells \in Seq(Nat) /\ Len(cells) = n + 1 /\ cells[1] = x
  /\ \A k \in 1..n : cells[k + 1] = row[k]

LEMMA RowCells ==
  ASSUME NEW x \in Nat, NEW n \in Nat, NEW row \in [1..n -> Nat]
  PROVE  IsRow(<<x>> \o row, x, row, n)
<1>1. row \in Seq(Nat) /\ Len(row) = n
  OBVIOUS
<1>2. <<x>> \in Seq(Nat) /\ Len(<<x>>) = 1 /\ <<x>>[1] = x
  OBVIOUS
<1>3. QED
  BY <1>1, <1>2, Prefixed, Zenon DEF IsRow

LEMMA RowBegins ==
  ASSUME NEW m \in Nat, NEW i \in 1..m, NEW L \in Nat
  PROVE  (i - 1) * L \in Nat /\ (i - 1) * L + L <= m * L
<1>1. PICK a \in Nat : a = i - 1 /\ a + 1 <= m
  OBVIOUS
<1>2. (a + 1) * L <= m * L
  BY <1>1, TimesGrows
<1>3. a * L \in Nat /\ (a + 1) * L = a * L + L
  BY <1>1
<1>4. QED
  BY <1>1, <1>2, <1>3

LEMMA SliceCells ==
  ASSUME NEW counts \in Seq(Nat), NEW offset \in Nat, NEW n \in Nat, offset + (n + 1) <= Len(counts)
  PROVE  LET period == SubSeq(counts, offset + 2, offset + 1 + n) IN
           DOMAIN period = 1..n /\ \A k \in 1..n : period[k] = counts[offset + (k + 1)]
<1>1. PICK a \in Nat, b \in Nat : a = offset + 2 /\ b = offset + 1 + n /\ b <= Len(counts)
  OBVIOUS
<1>2. PICK period : period = SubSeq(counts, a, b)
  OBVIOUS
<1>3. b - a + 1 = n
  BY <1>1
<1>4. Len(period) = n /\ DOMAIN period = 1..n
  BY <1>1, <1>2, <1>3
<1>5. \A k \in 1..n : period[k] = counts[a + k - 1] /\ a + k - 1 = offset + (k + 1)
  BY <1>1, <1>2, <1>3
<1>6. QED
  BY <1>1, <1>2, <1>4, <1>5

(* The slices of the flat answer are the rows it was made of.              *)
IsSlice(counts, row, n, offset) ==
  LET period == SubSeq(counts, offset + 2, offset + 1 + n) IN
    /\ counts[offset + 1] = row[1] /\ DOMAIN period = 1..n
    /\ \A k \in 1..n : period[k] = row[k + 1]

LEMMA Sliced ==
  ASSUME NEW m \in Nat \ {0}, NEW n \in Nat, NEW rows \in Seq(Seq(Nat)), Len(rows) = m,
         \A j \in 1..m : Len(rows[j]) = n + 1, NEW i \in 1..m
  PROVE  IsSlice(M!FlattenSeq(rows), rows[i], n, (i - 1) * (n + 1))
<1>1. PICK L \in Nat : L = n + 1
  OBVIOUS
<1>2. PICK counts : counts = M!FlattenSeq(rows)
  OBVIOUS
<1>3. /\ counts \in Seq(Nat) /\ Len(counts) = m * L
      /\ \A j \in 1..m, k \in 1..L : counts[(j - 1) * L + k] = rows[j][k]
  <2>1. \A j \in 1..m : Len(rows[j]) = L
    BY <1>1
  <2>2. /\ M!FlattenSeq(rows) \in Seq(Nat) /\ Len(M!FlattenSeq(rows)) = m * L
        /\ \A j \in 1..m, k \in 1..L : M!FlattenSeq(rows)[(j - 1) * L + k] = rows[j][k]
    BY <2>1, FlatCell, Zenon
  <2>3. QED
    BY <1>2, <2>2, Zenon
<1>4. PICK offset \in Nat, length \in Nat :
        offset = (i - 1) * L /\ length = m * L /\ offset + L <= length
  <2>1. m * L \in Nat
    OBVIOUS
  <2>2. QED
    BY <2>1, RowBegins
<1>5. Len(counts) = length /\ \A k \in 1..L : counts[offset + k] = rows[i][k]
  BY <1>3, <1>4
<1>6. PICK period : period = SubSeq(counts, offset + 2, offset + 1 + n)
  OBVIOUS
<1>7. DOMAIN period = 1..n /\ \A k \in 1..n : period[k] = counts[offset + (k + 1)]
  <2>1. counts \in Seq(Nat) /\ offset + (n + 1) <= Len(counts)
    BY <1>1, <1>3, <1>4, <1>5
  <2>2. QED
    BY <1>6, <2>1, SliceCells
<1>8. 1 \in 1..L /\ \A k \in 1..n : k + 1 \in 1..L
  BY <1>1
<1>9. counts[offset + 1] = rows[i][1] /\ \A k \in 1..n : period[k] = rows[i][k + 1]
  <2>1. counts[offset + 1] = rows[i][1]
    BY <1>5, <1>8, Zenon
  <2>2. \A k \in 1..n : period[k] = counts[offset + (k + 1)] /\ counts[offset + (k + 1)] = rows[i][k + 1]
    BY <1>5, <1>7, <1>8, Zenon
  <2>3. QED
    BY <2>1, <2>2, Zenon
<1>10. QED
  BY <1>1, <1>2, <1>4, <1>6, <1>7, <1>9 DEF IsSlice

(* What a query is answered: the slices are those of their type.           *)
LEMMA AnswerCells ==
  ASSUME CountersInv, NEW r \in Requests, NEW i \in DOMAIN Types,
         NEW n \in 1..RetentionDays, n = mreq[r].days, NEW day \in 0..MaxTicks, day = mreq[r].day
  PROVE  LET s == M!Answer(r)[i] IN
           /\ s.total = total[Types[i]]
           /\ \A k \in 1..n : s.daily[k] = daily[Types[i]][day - k + 1]
           /\ s.periodTotal = SetSum(s.daily, 1..n)
<1>1. PICK m \in Nat \ {0} : DOMAIN Types = 1..m /\ Len(Types) = m
  <2>1. Len(Types) \in Nat /\ DOMAIN Types = 1..Len(Types) /\ 1 \in DOMAIN Types
    BY MetricsNumbers
  <2>2. Len(Types) # 0
    BY <2>1
  <2>3. QED
    BY <2>1, <2>2, Zenon
<1>2. n \in Nat /\ \A j \in 1..m : Types[j] \in M!TypeSet
  BY <1>1, MetricsNumbers DEF M!TypeSet, M!Range
<1>3. ASSUME NEW t \in M!TypeSet
      PROVE  total[t] \in Nat /\ [k \in 1..n |-> daily[t][day - k + 1]] \in [1..n -> Nat]
  <2>0. RetentionDays \in Nat \ {0} /\ MaxTicks \in Nat
    BY MetricsNumbers
  <2>1. \A k \in 1..n : day - k + 1 \in M!Days
    BY <2>0 DEF M!Days
  <2>2. total[t] \in Nat /\ daily[t] \in [M!Days -> Nat]
    BY MetricsNumbers DEF CountersInv, CountersTyped
  <2>3. QED
    BY <2>1, <2>2
<1>4. PICK rows : rows = [j \in DOMAIN Types |->
                            <<total[Types[j]]>> \o [k \in 1..n |-> daily[Types[j]][day - k + 1]]]
  OBVIOUS
<1>5. ASSUME NEW j \in 1..m
      PROVE  /\ rows[j] \in Seq(Nat) /\ Len(rows[j]) = n + 1 /\ rows[j][1] = total[Types[j]]
             /\ \A k \in 1..n : rows[j][k + 1] = daily[Types[j]][day - k + 1]
  <2>1. PICK x, row : x = total[Types[j]] /\ row = [k \in 1..n |-> daily[Types[j]][day - k + 1]]
    OBVIOUS
  <2>2. x \in Nat /\ row \in [1..n -> Nat]
    BY <1>2, <1>3, <2>1, Zenon
  <2>3. rows[j] = <<x>> \o row
    BY <1>1, <1>4, <2>1, Zenon
  <2>4. IsRow(<<x>> \o row, x, row, n)
    BY <1>2, <2>2, RowCells
  <2>5. \A k \in 1..n : row[k] = daily[Types[j]][day - k + 1]
    BY <2>1
  <2>6. QED
    <3>1. /\ rows[j] \in Seq(Nat) /\ Len(rows[j]) = n + 1 /\ rows[j][1] = x
          /\ \A k \in 1..n : rows[j][k + 1] = row[k]
      BY <2>3, <2>4, Zenon DEF IsRow
    <3>2. \A k \in 1..n : rows[j][k + 1] = daily[Types[j]][day - k + 1]
      BY <2>5, <3>1, Zenon
    <3>3. QED
      BY <2>1, <3>1, <3>2, Zenon
<1>6. rows \in Seq(Seq(Nat)) /\ Len(rows) = m
  <2>1. DOMAIN rows = 1..m /\ rows = [j \in 1..m |-> rows[j]]
    BY <1>1, <1>4, Zenon
  <2>2. PICK cells : cells = Seq(Nat)
    OBVIOUS
  <2>3. \A j \in 1..m : rows[j] \in cells
    BY <1>5, <2>2, Zenon
  <2>4. rows \in [1..m -> cells]
    BY <2>1, <2>3, Zenon
  <2>5. rows \in Seq(cells) /\ Len(rows) = m
    BY <1>1, <2>4
  <2>6. QED
    BY <2>2, <2>5
<1>7. PICK counts, period : counts = M!Values(day, n)
                            /\ period = SubSeq(counts, (i - 1) * (n + 1) + 2, (i - 1) * (n + 1) + 1 + n)
  OBVIOUS
<1>8. counts = M!FlattenSeq(rows)
  BY <1>4, <1>7, Zenon DEF M!Values
<1>9. /\ counts[(i - 1) * (n + 1) + 1] = rows[i][1] /\ DOMAIN period = 1..n
      /\ \A k \in 1..n : period[k] = rows[i][k + 1]
  <2>1. i \in 1..m /\ \A j \in 1..m : Len(rows[j]) = n + 1
    BY <1>1, <1>5
  <2>2. IsSlice(M!FlattenSeq(rows), rows[i], n, (i - 1) * (n + 1))
    BY <1>2, <1>6, <2>1, Sliced, Zenon
  <2>3. QED
    BY <1>7, <1>8, <2>2, Zenon DEF IsSlice
<1>10. M!Answer(r)[i] = [total |-> counts[(i - 1) * (n + 1) + 1], periodTotal |-> M!SumOf(period), daily |-> period]
  BY <1>7, Zenon DEF M!Answer, M!Summary
<1>11. M!SumOf(period) = SetSum(period, 1..n)
  BY <1>9, SumOfIs
<1>12. QED
  <2>1. i \in 1..m
    BY <1>1
  <2>2. PICK s : s = M!Answer(r)[i]
    OBVIOUS
  <2>3. s.total = counts[(i - 1) * (n + 1) + 1] /\ s.periodTotal = M!SumOf(period) /\ s.daily = period
    BY <1>10, <2>2
  <2>4. rows[i][1] = total[Types[i]] /\ \A k \in 1..n : rows[i][k + 1] = daily[Types[i]][day - k + 1]
    BY <1>5, <2>1, Zenon
  <2>5. QED
    BY <1>9, <1>11, <2>2, <2>3, <2>4, Zenon

LEMMA AnswersTrue == CountersInv => M!AnswersAreTrue
<1> SUFFICES ASSUME CountersInv, NEW r \in Requests, mreq[r].pc = "mget", mreq[r].day = M!Today,
                    NEW i \in DOMAIN Types
             PROVE  LET t == Types[i]
                        s == M!Answer(r)[i]
                        first == M!Today - mreq[r].days + 1
                    IN  /\ \A d \in first..M!Today : s.daily[M!Today - d + 1] = made[t][d]
                        /\ s.periodTotal = M!MadeIn(t, first..M!Today)
                        /\ s.total = M!MadeIn(t, M!Days)
  BY DEF M!AnswersAreTrue
<1>1. PICK n \in 1..RetentionDays, day \in 0..MaxTicks :
        n = mreq[r].days /\ day = M!Today /\ day = mreq[r].day /\ mnow < (day + 1) * DayTicks
  BY CounterTypes DEF CountersInv, CountersOK
<1>2. PICK t \in M!TypeSet : t = Types[i]
  BY MetricsNumbers DEF M!TypeSet, M!Range
<1>3. PICK s : s = M!Answer(r)[i]
  OBVIOUS
<1>4. /\ s.total = total[t] /\ \A k \in 1..n : s.daily[k] = daily[t][day - k + 1]
      /\ s.periodTotal = SetSum(s.daily, 1..n)
  BY <1>1, <1>2, <1>3, AnswerCells
<1>5. PICK g \in [M!Days -> Nat] : g = made[t] /\ total[t] = SetSum(g, M!Days)
  BY <1>2 DEF CountersInv, CountersTyped, CountersOK
<1>6. ASSUME NEW d \in (day - n + 1)..day PROVE d \in M!Days /\ daily[t][d] = g[d]
  <2>1. d \in M!Days /\ d + RetentionDays \in Nat /\ day + 1 <= d + RetentionDays
    BY MetricsNumbers DEF M!Days
  <2>2. (day + 1) * DayTicks <= (d + RetentionDays) * DayTicks
    <3>1. PICK a \in Nat, b \in Nat, c \in Nat : a = day + 1 /\ b = d + RetentionDays /\ c = DayTicks /\ a <= b
      BY <2>1, MetricsNumbers
    <3>2. a * c <= b * c
      BY <3>1, TimesGrows
    <3>3. QED
      BY <3>1, <3>2, Zenon
  <2>3. (d + RetentionDays) * DayTicks > mnow
    <3>1. PICK a \in Int, b \in Int : a = (day + 1) * DayTicks /\ b = (d + RetentionDays) * DayTicks
      BY <2>1, MetricsNumbers
    <3>2. mnow \in Nat /\ mnow < a /\ a <= b
      BY <1>1, <2>2, <3>1, CounterTypes
    <3>3. QED
      BY <3>1, <3>2
  <2>4. QED
    BY <1>5, <2>1, <2>3 DEF CountersInv, CountersOK
<1>7. \A k \in 1..n : s.daily[k] = g[day - k + 1] /\ g[day - k + 1] \in Nat
  <2>1. ASSUME NEW k \in 1..n PROVE s.daily[k] = g[day - k + 1] /\ g[day - k + 1] \in Nat
    <3>1. day - k + 1 \in (day - n + 1)..day
      BY MetricsNumbers
    <3>2. QED
      BY <1>4, <1>6, <3>1
  <2>2. QED
    BY <2>1
<1>8. \A d \in (day - n + 1)..day : s.daily[day - d + 1] = g[d]
  <2>1. ASSUME NEW d \in (day - n + 1)..day PROVE s.daily[day - d + 1] = g[d]
    <3>1. day - d + 1 \in 1..n /\ day - (day - d + 1) + 1 = d
      BY MetricsNumbers
    <3>2. QED
      BY <1>7, <3>1
  <2>2. QED
    BY <2>1
<1>9. SetSum(s.daily, 1..n) = SetSum(g, (day - n + 1)..day)
  <2>1. PICK p : p = s.daily
    OBVIOUS
  <2>2. n \in Nat /\ day \in Int
    BY MetricsNumbers
  <2>3. \A k \in 1..n : p[k] \in Nat /\ g[day - k + 1] = p[k]
    BY <1>7, <2>1
  <2>4. SetSum(p, 1..n) = SetSum(g, (day - n + 1)..day)
    BY <2>2, <2>3, SetSumBackwards, SMTT(30)
  <2>5. QED
    BY <2>1, <2>4
<1>10. \A days : M!MadeIn(t, days) = SetSum(g, days)
  BY <1>5, MadeInIs
<1>11. QED
  BY <1>1, <1>2, <1>3, <1>4, <1>5, <1>8, <1>9, <1>10

-----------------------------------------------------------------------------
(* What is told of reviews (Search): pages, rounded numbers and counts.    *)
(* The operators come first, then what a listing knows at each step.       *)

(* Induction over the subsets of a finite set: G holds the good ones.      *)
LEMMA SubsetInduction ==
  ASSUME NEW W, IsFiniteSet(W), NEW G, {} \in G,
         \A s \in SUBSET W : s \in G => \A x \in W \ s : s \cup {x} \in G
  PROVE  W \in G
<1> DEFINE Good == {n \in Nat : \A s \in SUBSET W : Cardinality(s) = n => s \in G}
<1>0. \A s \in SUBSET W : IsFiniteSet(s) /\ Cardinality(s) \in Nat /\ (Cardinality(s) = 0 => s = {})
  BY FS_Subset, FS_CardinalityType, FS_EmptySet
<1>1. 0 \in Good
  BY <1>0
<1>2. ASSUME NEW n \in Nat, n \in Good PROVE n + 1 \in Good
  <2> SUFFICES ASSUME NEW s \in SUBSET W, Cardinality(s) = n + 1 PROVE s \in G
    OBVIOUS
  <2>1. PICK x \in s : TRUE
    BY <1>0, FS_EmptySet
  <2>2. Cardinality(s \ {x}) = n /\ s \ {x} \in SUBSET W /\ x \in W \ (s \ {x})
    BY <1>0, Smaller
  <2>3. s \ {x} \in G
    BY <1>2, <2>2
  <2>4. (s \ {x}) \cup {x} = s
    OBVIOUS
  <2>5. QED
    BY <2>2, <2>3, <2>4
<1>3. Nat \subseteq Good
  <2> HIDE DEF Good
  <2>1. QED
    BY <1>1, <1>2, NatSetInduction
<1>4. QED
  BY <1>0, <1>3

(* The sum over two sets that share nothing.                               *)
LEMMA SetSumUnion ==
  ASSUME NEW A, IsFiniteSet(A), NEW B, IsFiniteSet(B), A \cap B = {}, NEW g, \A y \in A \cup B : g[y] \in Nat
  PROVE  SetSum(g, A \cup B) = SetSum(g, A) + SetSum(g, B)
<1> DEFINE Good == {s \in SUBSET B : SetSum(g, A \cup s) = SetSum(g, A) + SetSum(g, s)}
<1>0. SetSum(g, A) \in Nat
  BY SetSumNat
<1>1. {} \in Good
  <2>1. A \cup {} = A
    OBVIOUS
  <2>2. QED
    BY <1>0, <2>1, SetSumEmpty
<1>2. ASSUME NEW s \in SUBSET B, s \in Good, NEW x \in B \ s PROVE s \cup {x} \in Good
  <2>1. IsFiniteSet(s) /\ IsFiniteSet(A \cup s)
    BY FS_Subset, FS_Union
  <2>2. SetSum(g, s \cup {x}) = g[x] + SetSum(g, s)
    BY <2>1, SetSumAdd
  <2>3. (A \cup s) \cup {x} = A \cup (s \cup {x}) /\ x \notin A \cup s
    OBVIOUS
  <2>4. SetSum(g, (A \cup s) \cup {x}) = g[x] + SetSum(g, A \cup s)
    BY <2>1, <2>3, SetSumAdd
  <2>5. SetSum(g, s) \in Nat /\ g[x] \in Nat
    BY <2>1, SetSumNat
  <2>6. PICK a, c, e, u, v : /\ a = SetSum(g, A) /\ c = SetSum(g, s) /\ e = g[x]
                             /\ u = SetSum(g, A \cup (s \cup {x})) /\ v = SetSum(g, s \cup {x})
    OBVIOUS
  <2>7. {a, c, e} \subseteq Nat /\ u = e + (a + c) /\ v = e + c
    BY <1>0, <1>2, <2>2, <2>3, <2>4, <2>5, <2>6
  <2>8. u = a + v
    BY <2>7
  <2>9. QED
    BY <2>6, <2>8
<1>3. B \in Good
  <2> HIDE DEF Good
  <2>1. QED
    BY <1>1, <1>2, SubsetInduction
<1>4. QED
  BY <1>3

(* The elements of a finite set are as many as their images, when these    *)
(* differ.                                                                 *)
LEMMA ImageSize ==
  ASSUME NEW W, IsFiniteSet(W), NEW f, \A x, y \in W : f[x] = f[y] => x = y
  PROVE  IsFiniteSet({f[x] : x \in W}) /\ Cardinality({f[x] : x \in W}) = Cardinality(W)
<1> DEFINE T == {f[x] : x \in W}
           b == [x \in W |-> f[x]]
<1>1. b \in Bijection(W, T)
  BY DEF Bijection, Injection, Surjection, IsInjective
<1>2. ExistsBijection(W, T)
  BY <1>1 DEF ExistsBijection
<1>3. QED
  BY <1>2, FS_Bijection

(* Rounding halves up stays within a half.                                 *)
LEMMA Rounded ==
  ASSUME NEW d \in Nat \ {0}, NEW x \in Nat
  PROVE  LET q == (x + d) \div (2 * d) IN q \in Nat /\ 2 * d * q - x \in -d..d
<1>1. PICK q : q = (x + d) \div (2 * d)
  OBVIOUS
<1>2. q \in Nat /\ (2 * d) * q <= x + d /\ x + d < (2 * d) * q + 2 * d
  BY <1>1
<1>3. PICK m \in Nat : m = (2 * d) * q
  BY <1>2
<1>4. m - x \in -d..d
  BY <1>2, <1>3
<1>5. QED
  BY <1>1, <1>2, <1>3, <1>4

(* The folds of a listing are sums.                                        *)
LEMMA HowManyIs ==
  ASSUME NEW W, IsFiniteSet(W), NEW g, \A v \in W : g[v] = Cardinality(v.text.prices)
  PROVE  MapThenSumSet(LAMBDA v : Cardinality(v.text.prices), W) = SetSum(g, W)
<1> DEFINE Step(H) == [s \in SUBSET W |->
                         IF s = {} THEN 0 ELSE Cardinality(First(s).text.prices) + H[s \ {First(s)}]]
<1>1. PICK H : H = (CHOOSE K : K = Step(K))
  OBVIOUS
<1>2. MapThenSumSet(LAMBDA v : Cardinality(v.text.prices), W) = H[W]
  BY <1>1, Zenon DEF MapThenSumSet, MapThenFoldSet, First
<1>3. \A K : K = Step(K) <=> IsSum(K, g, W)
  BY FirstIn DEF IsSum, Summand
<1>4. IsSum(H, g, W)
  <2> HIDE DEF Step
  <2>1. PICK G : IsSum(G, g, W)
    BY SetSumExists
  <2>2. QED
    BY <1>1, <1>3, <2>1
<1>5. QED
  BY <1>2, <1>4, SetSumIs

LEMMA PricesSummed ==
  ASSUME NEW W, IsFiniteSet(W), NEW g, \A v \in W : g[v] = MapThenSumSet(LAMBDA p : p, v.text.prices)
  PROVE  MapThenSumSet(LAMBDA v : MapThenSumSet(LAMBDA p : p, v.text.prices), W) = SetSum(g, W)
<1> DEFINE Step(H) == [s \in SUBSET W |->
                         IF s = {} THEN 0
                         ELSE MapThenSumSet(LAMBDA p : p, First(s).text.prices) + H[s \ {First(s)}]]
<1>1. PICK H : H = (CHOOSE K : K = Step(K))
  OBVIOUS
<1>2. MapThenSumSet(LAMBDA v : MapThenSumSet(LAMBDA p : p, v.text.prices), W) = H[W]
  BY <1>1, Zenon DEF MapThenSumSet, MapThenFoldSet, First
<1>3. \A K : K = Step(K) <=> IsSum(K, g, W)
  BY FirstIn DEF IsSum, Summand
<1>4. IsSum(H, g, W)
  <2> HIDE DEF Step
  <2>1. PICK G : IsSum(G, g, W)
    BY SetSumExists
  <2>2. QED
    BY <1>1, <1>3, <2>1
<1>5. QED
  BY <1>2, <1>4, SetSumIs

LEMMA NumbersSummed ==
  ASSUME NEW W, IsFiniteSet(W), NEW g, \A p \in W : g[p] = p
  PROVE  MapThenSumSet(LAMBDA p : p, W) = SetSum(g, W)
<1> DEFINE Step(H) == [s \in SUBSET W |-> IF s = {} THEN 0 ELSE First(s) + H[s \ {First(s)}]]
<1>1. PICK H : H = (CHOOSE K : K = Step(K))
  OBVIOUS
<1>2. MapThenSumSet(LAMBDA p : p, W) = H[W]
  BY <1>1, Zenon DEF MapThenSumSet, MapThenFoldSet, First
<1>3. \A K : K = Step(K) <=> IsSum(K, g, W)
  BY FirstIn DEF IsSum, Summand
<1>4. IsSum(H, g, W)
  <2> HIDE DEF Step
  <2>1. PICK G : IsSum(G, g, W)
    BY SetSumExists
  <2>2. QED
    BY <1>1, <1>3, <2>1
<1>5. QED
  BY <1>2, <1>4, SetSumIs

LEMMA SecondsSummed ==
  ASSUME NEW W, IsFiniteSet(W), NEW g, \A q \in W : g[q] = q[2]
  PROVE  MapThenSumSet(LAMBDA q : q[2], W) = SetSum(g, W)
<1> DEFINE Step(H) == [s \in SUBSET W |-> IF s = {} THEN 0 ELSE First(s)[2] + H[s \ {First(s)}]]
<1>1. PICK H : H = (CHOOSE K : K = Step(K))
  OBVIOUS
<1>2. MapThenSumSet(LAMBDA q : q[2], W) = H[W]
  BY <1>1, Zenon DEF MapThenSumSet, MapThenFoldSet, First
<1>3. \A K : K = Step(K) <=> IsSum(K, g, W)
  BY FirstIn DEF IsSum, Summand
<1>4. IsSum(H, g, W)
  <2> HIDE DEF Step
  <2>1. PICK G : IsSum(G, g, W)
    BY SetSumExists
  <2>2. QED
    BY <1>1, <1>3, <2>1
<1>5. QED
  BY <1>2, <1>4, SetSumIs

Second == [q \in Nat \X Nat |-> q[2]]
Itself == [p \in Nat |-> p]

(* The prices of one review, named by its id.                              *)
LEMMA PricesOfOne ==
  ASSUME NEW id \in Nat, NEW P, IsFiniteSet(P), P \subseteq Nat
  PROVE  /\ IsFiniteSet({id} \X P) /\ Cardinality({id} \X P) = Cardinality(P)
         /\ SetSum(Second, {id} \X P) = SetSum(Itself, P)
<1> DEFINE Good == {s \in SUBSET P : /\ IsFiniteSet({id} \X s) /\ Cardinality({id} \X s) = Cardinality(s)
                                     /\ SetSum(Second, {id} \X s) = SetSum(Itself, s)}
<1>1. {} \in Good
  <2>1. {id} \X {} = {}
    OBVIOUS
  <2>2. QED
    BY <2>1, FS_EmptySet, SetSumEmpty
<1>2. ASSUME NEW s \in SUBSET P, s \in Good, NEW x \in P \ s PROVE s \cup {x} \in Good
  <2>1. PICK W : W = {id} \X s
    OBVIOUS
  <2>2. /\ {id} \X (s \cup {x}) = W \cup {<<id, x>>} /\ <<id, x>> \notin W /\ W \subseteq Nat \X Nat
        /\ <<id, x>> \in Nat \X Nat
    <3>1. \A q : q \in {id} \X (s \cup {x}) <=> q \in {id} \X s \/ q = <<id, x>>
      OBVIOUS
    <3>2. {id} \X (s \cup {x}) = W \cup {<<id, x>>}
      BY <2>1, <3>1
    <3>3. <<id, x>> \notin W /\ <<id, x>> \in Nat \X Nat /\ W \subseteq Nat \X Nat
      BY <2>1
    <3>4. QED
      BY <3>2, <3>3
  <2>3. IsFiniteSet(s) /\ IsFiniteSet(W)
    BY <1>2, <2>1, FS_Subset
  <2>4. /\ IsFiniteSet(W \cup {<<id, x>>})
        /\ Cardinality(W \cup {<<id, x>>}) = Cardinality(W) + 1 /\ Cardinality(s \cup {x}) = Cardinality(s) + 1
    BY <2>2, <2>3, FS_AddElement
  <2>5. \A y \in W \cup {<<id, x>>} : Second[y] \in Nat
    BY <2>2 DEF Second
  <2>6. SetSum(Second, W \cup {<<id, x>>}) = Second[<<id, x>>] + SetSum(Second, W)
    BY <2>2, <2>3, <2>5, SetSumAdd
  <2>7. \A y \in s \cup {x} : Itself[y] \in Nat
    BY DEF Itself
  <2>8. SetSum(Itself, s \cup {x}) = Itself[x] + SetSum(Itself, s)
    BY <2>3, <2>7, SetSumAdd
  <2>9. Second[<<id, x>>] = x /\ Itself[x] = x
    BY <2>2 DEF Second, Itself
  <2>10. QED
    BY <1>2, <2>1, <2>2, <2>4, <2>6, <2>8, <2>9
<1>3. P \in Good
  <2> HIDE DEF Good
  <2>1. QED
    BY <1>1, <1>2, SubsetInduction
<1>4. QED
  BY <1>3

Priced(W) ==
  /\ IsFiniteSet(W) /\ \A v, w \in W : v.id = w.id => v = w
  /\ \A v \in W : v.id \in Nat /\ IsFiniteSet(v.text.prices) /\ v.text.prices \subseteq Nat

(* The prices of several are those of each.                                *)
LEMMA PricesCounted ==
  ASSUME NEW W, Priced(W),
         NEW n, \A v \in W : n[v] = Cardinality(v.text.prices),
         NEW m, \A v \in W : m[v] = SetSum(Itself, v.text.prices)
  PROVE  /\ IsFiniteSet(PricesOf(W)) /\ PricesOf(W) \subseteq Nat \X Nat
         /\ Cardinality(PricesOf(W)) = SetSum(n, W) /\ SetSum(Second, PricesOf(W)) = SetSum(m, W)
<1> DEFINE Good == {s \in SUBSET W : /\ IsFiniteSet(PricesOf(s)) /\ PricesOf(s) \subseteq Nat \X Nat
                                     /\ Cardinality(PricesOf(s)) = SetSum(n, s)
                                     /\ SetSum(Second, PricesOf(s)) = SetSum(m, s)}
<1>0. \A v \in W : n[v] \in Nat /\ m[v] \in Nat
  <2>1. \A p \in Nat : Itself[p] \in Nat
    BY DEF Itself
  <2>2. QED
    BY <2>1, FS_CardinalityType, SetSumNat DEF Priced
<1>1. {} \in Good
  <2>1. PricesOf({}) = {}
    BY DEF PricesOf
  <2>2. QED
    BY <2>1, FS_EmptySet, SetSumEmpty
<1>2. ASSUME NEW s \in SUBSET W, s \in Good, NEW x \in W \ s PROVE s \cup {x} \in Good
  <2>1. PICK A, B : A = PricesOf(s) /\ B = {x.id} \X x.text.prices
    OBVIOUS
  <2>2. PricesOf(s \cup {x}) = A \cup B
    <3>1. \A q : q \in PricesOf(s \cup {x}) <=> \E v \in s \cup {x} : q \in {v.id} \X v.text.prices
      BY DEF PricesOf
    <3>2. \A q : q \in A <=> \E v \in s : q \in {v.id} \X v.text.prices
      BY <2>1 DEF PricesOf
    <3>3. \A q : q \in PricesOf(s \cup {x}) <=> q \in A \cup B
      BY <2>1, <3>1, <3>2, Zenon
    <3>4. QED
      BY <3>3
  <2>3. /\ IsFiniteSet(B) /\ Cardinality(B) = n[x] /\ SetSum(Second, B) = m[x] /\ B \subseteq Nat \X Nat
    <3>1. x.id \in Nat /\ IsFiniteSet(x.text.prices) /\ x.text.prices \subseteq Nat
      BY DEF Priced
    <3>2. /\ IsFiniteSet(B) /\ Cardinality(B) = Cardinality(x.text.prices)
          /\ SetSum(Second, B) = SetSum(Itself, x.text.prices)
      BY <2>1, <3>1, PricesOfOne
    <3>3. B \subseteq Nat \X Nat
      BY <2>1, <3>1
    <3>4. QED
      BY <3>2, <3>3
  <2>4. A \cap B = {}
    <3>1. ASSUME NEW q \in A \cap B PROVE FALSE
      <4>1. PICK v \in s : q \in {v.id} \X v.text.prices
        BY <2>1, <3>1 DEF PricesOf
      <4>2. q[1] = v.id /\ q[1] = x.id
        BY <2>1, <3>1, <4>1
      <4>3. QED
        BY <1>2, <4>1, <4>2 DEF Priced
    <3>2. QED
      BY <3>1
  <2>5. IsFiniteSet(s) /\ IsFiniteSet(A) /\ A \subseteq Nat \X Nat
    BY <1>2, <2>1, FS_Subset DEF Priced
  <2>6. /\ SetSum(n, s \cup {x}) = n[x] + SetSum(n, s) /\ SetSum(m, s \cup {x}) = m[x] + SetSum(m, s)
        /\ SetSum(n, s) \in Nat /\ SetSum(m, s) \in Nat
    BY <1>0, <2>5, SetSumAdd, SetSumNat
  <2>7. /\ IsFiniteSet(A \cup B)
        /\ Cardinality(A \cup B) = Cardinality(A) + Cardinality(B) - Cardinality({})
    BY <2>3, <2>4, <2>5, FS_Union
  <2>8. \A y \in A \cup B : Second[y] \in Nat
    BY <2>3, <2>5 DEF Second
  <2>9. SetSum(Second, A \cup B) = SetSum(Second, A) + SetSum(Second, B)
    BY <2>3, <2>4, <2>5, <2>8, SetSumUnion
  <2>10. Cardinality(A) = SetSum(n, s) /\ SetSum(Second, A) = SetSum(m, s) /\ Cardinality({}) = 0
    BY <1>2, <2>1, FS_EmptySet
  <2>11. n[x] \in Nat /\ m[x] \in Nat
    BY <1>0
  <2>12. Cardinality(A \cup B) = SetSum(n, s \cup {x})
    BY <2>3, <2>6, <2>7, <2>10, <2>11
  <2>13. SetSum(Second, A \cup B) = SetSum(m, s \cup {x})
    BY <2>3, <2>6, <2>9, <2>10, <2>11
  <2>14. QED
    BY <2>2, <2>3, <2>5, <2>7, <2>12, <2>13
<1>3. W \in Good
  <2> HIDE DEF Good
  <2>1. IsFiniteSet(W)
    BY DEF Priced
  <2>2. QED
    BY <1>1, <1>2, <2>1, SubsetInduction
<1>4. QED
  BY <1>3

(* The average that is told is the mean, rounded to thousands.             *)
LEMMA AverageIs ==
  ASSUME NEW W, Priced(W)
  PROVE  PriceIs(AveragePrice(W), PricesOf(W))
<1>0. IsFiniteSet(W) /\ \A v \in W : IsFiniteSet(v.text.prices) /\ v.text.prices \subseteq Nat
  BY DEF Priced
<1>1. PICK n, m : n = [v \in W |-> Cardinality(v.text.prices)] /\ m = [v \in W |-> SetSum(Itself, v.text.prices)]
  OBVIOUS
<1>2. \A v \in W : MapThenSumSet(LAMBDA p : p, v.text.prices) = SetSum(Itself, v.text.prices)
  <2> TAKE v \in W
  <2>1. \A p \in v.text.prices : Itself[p] = p
    BY <1>0 DEF Itself
  <2>2. QED
    BY <1>0, <2>1, NumbersSummed
<1>3. PICK all, sum : all = SetSum(n, W) /\ sum = SetSum(m, W)
  OBVIOUS
<1>4. /\ MapThenSumSet(LAMBDA v : Cardinality(v.text.prices), W) = all
      /\ MapThenSumSet(LAMBDA v : MapThenSumSet(LAMBDA p : p, v.text.prices), W) = sum
  BY <1>0, <1>1, <1>2, <1>3, HowManyIs, PricesSummed
<1>5. /\ IsFiniteSet(PricesOf(W)) /\ PricesOf(W) \subseteq Nat \X Nat
      /\ Cardinality(PricesOf(W)) = all /\ SetSum(Second, PricesOf(W)) = sum
  BY <1>1, <1>3, PricesCounted
<1>6. MapThenSumSet(LAMBDA q : q[2], PricesOf(W)) = sum
  <2>1. \A q \in PricesOf(W) : Second[q] = q[2] /\ Second[q] \in Nat
    BY <1>5 DEF Second
  <2>2. QED
    BY <1>5, <2>1, SecondsSummed
<1>7. all \in Nat /\ sum \in Nat
  <2>1. \A q \in PricesOf(W) : Second[q] \in Nat
    BY <1>5 DEF Second
  <2>2. QED
    BY <1>5, <2>1, FS_CardinalityType, SetSumNat
<1>8. CASE all = 0
  <2>1. PricesOf(W) = {}
    BY <1>5, <1>8, FS_EmptySet
  <2>2. sum = 0
    BY <1>5, <2>1, SetSumEmpty
  <2>3. AveragePrice(W) = 0
    BY <1>4, <1>8 DEF AveragePrice
  <2>4. QED
    BY <1>5, <1>6, <1>8, <2>2, <2>3 DEF PriceIs
<1>9. CASE all # 0
  <2>1. PICK q : q = (sum + 500 * all) \div (1000 * all)
    OBVIOUS
  <2>2. AveragePrice(W) = q * 1000
    BY <1>4, <1>9, <2>1 DEF AveragePrice
  <2>3. PICK d : d = 500 * all
    OBVIOUS
  <2>4. d \in Nat \ {0} /\ 1000 * all = 2 * d
    BY <1>7, <1>9, <2>3
  <2>5. q \in Nat /\ 2 * d * q - sum \in -d..d
    BY <1>7, <2>1, <2>3, <2>4, Rounded
  <2>6. all * (q * 1000) = 2 * d * q
    BY <1>7, <2>3, <2>5
  <2>7. 2 * (all * (q * 1000) - sum) \in -(1000 * all)..(1000 * all)
    <3>1. PICK e : e = 2 * d * q
      OBVIOUS
    <3>2. e \in Int
      BY <2>4, <2>5, <3>1
    <3>3. 2 * (e - sum) \in -(2 * d)..(2 * d)
      BY <1>7, <2>4, <2>5, <3>1, <3>2
    <3>4. QED
      BY <2>4, <2>6, <3>1, <3>3
  <2>8. QED
    BY <1>5, <1>6, <2>2, <2>7 DEF PriceIs
<1>10. QED
  BY <1>8, <1>9

(* The revisit ratio is rounded to tenths of a percent.                    *)
LEMMA RatioRounded ==
  ASSUME NEW W, IsFiniteSet(W)
  PROVE  RatioIs(RevisitRatio(W), Cardinality(Yes(W)), Cardinality(Opinions(W)))
<1>1. PICK yes, all : yes = Cardinality(Yes(W)) /\ all = Cardinality(Opinions(W))
  OBVIOUS
<1>2. IsFiniteSet(Yes(W)) /\ IsFiniteSet(Opinions(W))
  BY FS_Subset DEF Yes, Opinions
<1>3. yes \in Nat /\ all \in Nat
  BY <1>1, <1>2, FS_CardinalityType
<1>4. CASE all = 0
  BY <1>1, <1>4 DEF RatioIs, RevisitRatio, CalcRevisitRatio
<1>5. CASE all # 0
  <2>1. PICK q : q = (2000 * yes + all) \div (2 * all)
    OBVIOUS
  <2>2. RevisitRatio(W) = q
    BY <1>1, <1>5, <2>1 DEF RevisitRatio, CalcRevisitRatio
  <2>3. q \in Nat /\ 2 * all * q - 2000 * yes \in -all..all
    BY <1>3, <1>5, <2>1, Rounded
  <2>4. 2 * all * q = 2 * (all * q) /\ all * q \in Nat
    BY <1>3, <2>3
  <2>5. PICK e : e = all * q
    OBVIOUS
  <2>6. 2 * (e - 1000 * yes) \in -all..all
    BY <1>3, <2>3, <2>4, <2>5
  <2>7. QED
    BY <1>1, <2>2, <2>5, <2>6 DEF RatioIs
<1>6. QED
  BY <1>4, <1>5

(* Where a page begins and ends: n rows in pages of the limit.             *)
PageLength(n, p, limit) ==
  LET pages == (n + limit - 1) \div limit IN
  IF p < pages THEN limit ELSE IF p = pages THEN n - (p - 1) * limit ELSE 0

IsPage(first, last, n, p, limit) ==
  first = (p - 1) * limit + 1 /\ last = IF p * limit < n THEN p * limit ELSE n

LEMMA PageBounds ==
  ASSUME NEW n \in Nat, NEW p \in Nat \ {0}, NEW limit \in Nat \ {0},
         NEW first, NEW last, IsPage(first, last, n, p, limit)
  PROVE  /\ first \in Nat \ {0} /\ last \in Nat /\ last <= n
         /\ first <= last => last - first + 1 = PageLength(n, p, limit)
         /\ first > last => PageLength(n, p, limit) = 0
<1>1. PICK pages : pages = (n + limit - 1) \div limit
  OBVIOUS
<1>2. pages \in Nat /\ limit * pages <= n + limit - 1 /\ n + limit - 1 < limit * pages + limit
  BY <1>1
<1>3. PICK a, b, c : a = (p - 1) * limit /\ b = p * limit /\ c = limit * pages
  OBVIOUS
<1>4. a \in Nat /\ b = a + limit /\ c \in Nat
  BY <1>2, <1>3
<1>5. c <= n + limit - 1 /\ n <= c
  BY <1>2, <1>3, <1>4
<1>6. first = a + 1 /\ last = IF b < n THEN b ELSE n
  BY <1>3 DEF IsPage
<1>7. CASE p < pages
  <2>1. (p + 1) * limit <= limit * pages
    BY <1>2, <1>7, TimesGrows
  <2>2. (p + 1) * limit = b + limit
    BY <1>3
  <2>3. b < n
    BY <1>3, <1>4, <1>5, <2>1, <2>2
  <2>4. PageLength(n, p, limit) = limit
    BY <1>1, <1>7 DEF PageLength
  <2>5. QED
    BY <1>4, <1>6, <2>3, <2>4
<1>8. CASE p = pages
  <2>1. b = c
    BY <1>2, <1>3, <1>8
  <2>2. PageLength(n, p, limit) = n - a
    BY <1>1, <1>3, <1>8 DEF PageLength
  <2>3. n <= b /\ a < n
    BY <1>4, <1>5, <2>1
  <2>4. QED
    BY <1>4, <1>6, <2>2, <2>3
<1>9. CASE p > pages
  <2>1. pages * limit <= (p - 1) * limit
    BY <1>2, <1>9, TimesGrows
  <2>2. c <= a
    BY <1>2, <1>3, <2>1
  <2>3. PageLength(n, p, limit) = 0
    BY <1>1, <1>2, <1>9 DEF PageLength
  <2>4. QED
    BY <1>4, <1>5, <1>6, <2>2, <2>3
<1>10. QED
  BY <1>2, <1>7, <1>8, <1>9

(* A page of rows that come in any order.                                  *)
LEMMA PageOf ==
  ASSUME NEW W, IsFiniteSet(W), NEW order \in SetToSeqs(W),
         NEW p, p.page \in Nat \ {0}, p.limit \in Nat \ {0}, NEW shown, shown = Slice(order, p)
  PROVE  /\ Len(shown) = PageLength(Cardinality(W), p.page, p.limit)
         /\ ToSet(shown) \subseteq W /\ Cardinality(ToSet(shown)) = Len(shown)
<1>1. PICK n \in Nat : n = Cardinality(W)
  BY FS_CardinalityType
<1>2. order \in [1..n -> W] /\ \A i, j \in 1..n : i # j => order[i] # order[j]
  BY <1>1 DEF SetToSeqs
<1>3. Len(order) = n
  BY <1>2
<1>4. PICK first, last : /\ first = (p.page - 1) * p.limit + 1
                         /\ last = IF p.page * p.limit < n THEN p.page * p.limit ELSE n
  OBVIOUS
<1>5. PICK len : len = PageLength(n, p.page, p.limit)
  OBVIOUS
<1>6. /\ first \in Nat \ {0} /\ last \in Nat /\ last <= n
      /\ first <= last => last - first + 1 = len
      /\ first > last => len = 0
  <2>1. PICK page, limit : page = p.page /\ limit = p.limit
    OBVIOUS
  <2>2. /\ page \in Nat \ {0} /\ limit \in Nat \ {0} /\ IsPage(first, last, n, page, limit)
        /\ len = PageLength(n, page, limit)
    BY <1>4, <1>5, <2>1 DEF IsPage
  <2>3. QED
    BY <2>2, PageBounds
<1>7. shown = SubSeq(order, first, last)
  BY <1>3, <1>4 DEF Slice
<1>8. shown = [i \in 1..len |-> order[i + first - 1]] /\ len \in Nat /\ Len(shown) = len
      /\ \A i \in 1..len : i + first - 1 \in 1..n
  <2>1. order \in Seq(W)
    BY <1>2
  <2>2. CASE first > last
    <3>1. shown = << >>
      BY <1>6, <1>7, <2>2
    <3>2. QED
      BY <1>6, <2>2, <3>1
  <2>3. CASE first <= last
    <3>1. len = last - first + 1
      BY <1>6, <2>3
    <3>2. QED
      BY <1>3, <1>6, <1>7, <2>1, <2>3, <3>1
  <2>4. QED
    BY <1>6, <2>2, <2>3
<1>9. /\ \A i \in 1..len : shown[i] \in W
      /\ \A i, j \in 1..len : shown[i] = shown[j] => i = j
  BY <1>2, <1>6, <1>8
<1>10. ToSet(shown) = {shown[i] : i \in 1..len}
  BY <1>8 DEF ToSet
<1>11. IsFiniteSet(1..len) /\ Cardinality(1..len) = len
  BY <1>8, FS_Interval
<1>12. Cardinality(ToSet(shown)) = len
  <2>1. PICK D : D = 1..len
    OBVIOUS
  <2>2. IsFiniteSet(D) /\ \A i, j \in D : shown[i] = shown[j] => i = j
    BY <1>9, <1>11, <2>1
  <2>3. Cardinality({shown[i] : i \in D}) = Cardinality(D)
    BY <2>2, ImageSize
  <2>4. QED
    BY <1>10, <1>11, <2>1, <2>3
<1>13. QED
  BY <1>1, <1>5, <1>8, <1>9, <1>10, <1>12

(* The newest rows are as many as they should be, and newer than others.   *)
LEMMA NewestAre ==
  ASSUME NEW W, IsFiniteSet(W), \A v \in W : v.id \in Nat, \A v, w \in W : v.id = w.id => v = w,
         NEW v \in W, v \notin Newest(W)
  PROVE  Cardinality(Newest(W)) = RecentCount /\ \A w \in Newest(W) : w.id > v.id
<1>0. PICK above, a : /\ above = [x \in W |-> {w \in W : w.id > x.id}]
                      /\ a = [x \in W |-> Cardinality(above[x])]
  OBVIOUS
<1>1. RecentCount \in Nat /\ Newest(W) = {x \in W : a[x] < RecentCount}
  BY <1>0, SearchAssumption DEF Newest
<1>2. PICK n \in Nat : n = Cardinality(W)
  BY FS_CardinalityType
<1>3. \A x \in W : IsFiniteSet(above[x]) /\ a[x] \in Nat
  BY <1>0, FS_Subset, FS_CardinalityType
<1>4. ASSUME NEW x \in W, NEW y \in W, x.id < y.id PROVE a[y] < a[x]
  <2>1. above[y] \subseteq above[x] /\ y \in above[x] /\ y \notin above[y]
    BY <1>0, <1>4
  <2>2. a[y] <= a[x] /\ a[y] # a[x]
    BY <1>0, <1>3, <2>1, FS_Subset
  <2>3. QED
    BY <1>3, <2>2
<1>5. \A x, y \in W : a[x] = a[y] => x = y
  <2> SUFFICES ASSUME NEW x \in W, NEW y \in W, a[x] = a[y], x # y PROVE FALSE
    OBVIOUS
  <2>1. x.id < y.id \/ y.id < x.id
    OBVIOUS
  <2>2. a[x] < a[y] \/ a[y] < a[x]
    BY <1>4, <2>1
  <2>3. QED
    BY <1>3, <2>2
<1>6. \A x \in W : a[x] \in 0..(n - 1)
  <2> TAKE x \in W
  <2>1. x \notin above[x] /\ above[x] \subseteq W
    BY <1>0
  <2>2. a[x] <= n /\ a[x] # n
    BY <1>0, <1>2, <2>1, FS_Subset
  <2>3. QED
    BY <1>2, <1>3, <2>2
<1>7. {a[x] : x \in W} = 0..(n - 1)
  <2>0. PICK T, D : T = {a[x] : x \in W} /\ D = 0..(n - 1)
    OBVIOUS
  <2>1. Cardinality({a[x] : x \in W}) = n
    BY <1>2, <1>5, ImageSize
  <2>2. IsFiniteSet(0..(n - 1)) /\ Cardinality(0..(n - 1)) = n
    <3>1. Cardinality(0..(n - 1)) = IF 0 > n - 1 THEN 0 ELSE n - 1 - 0 + 1
      BY FS_Interval
    <3>2. QED
      BY <3>1, FS_Interval
  <2>3. T \subseteq D
    BY <1>6, <2>0
  <2>4. IsFiniteSet(D) /\ Cardinality(D) = Cardinality(T)
    BY <2>0, <2>1, <2>2
  <2>5. D = T
    BY <2>3, <2>4, FS_Subset
  <2>6. QED
    BY <2>0, <2>5
<1>8. a[v] >= RecentCount
  BY <1>1, <1>3
<1>9. {a[x] : x \in Newest(W)} = 0..(RecentCount - 1)
  <2>1. \A k \in 0..(RecentCount - 1) : k \in 0..(n - 1)
    BY <1>1, <1>2, <1>6, <1>8
  <2>2. \A k \in 0..(RecentCount - 1) : \E x \in Newest(W) : a[x] = k
    <3> TAKE k \in 0..(RecentCount - 1)
    <3>1. k \in {a[x] : x \in W}
      BY <1>7, <2>1, Zenon
    <3>2. PICK x \in W : a[x] = k
      BY <3>1, Zenon
    <3>3. a[x] < RecentCount
      BY <1>1, <3>2
    <3>4. QED
      BY <1>1, <3>2, <3>3
  <2>3. \A x \in Newest(W) : a[x] \in 0..(RecentCount - 1)
    BY <1>1, <1>3
  <2>4. \A k : k \in {a[x] : x \in Newest(W)} <=> k \in 0..(RecentCount - 1)
    <3> TAKE k
    <3>1. k \in {a[x] : x \in Newest(W)} <=> \E x \in Newest(W) : a[x] = k
      BY Zenon
    <3>2. QED
      BY <2>2, <2>3, <3>1, Zenon
  <2>5. QED
    BY <2>4
<1>10. Cardinality(0..(RecentCount - 1)) = RecentCount
  <2>1. Cardinality(0..(RecentCount - 1)) = IF 0 > RecentCount - 1 THEN 0 ELSE RecentCount - 1 - 0 + 1
    BY <1>1, FS_Interval
  <2>2. QED
    BY <1>1, <2>1
<1>11. Cardinality(Newest(W)) = RecentCount
  <2>1. IsFiniteSet(Newest(W)) /\ \A x, y \in Newest(W) : a[x] = a[y] => x = y
    BY <1>1, <1>5, FS_Subset
  <2>2. PICK N : N = Newest(W)
    OBVIOUS
  <2>3. Cardinality({a[x] : x \in N}) = Cardinality(N)
    BY <2>1, <2>2, ImageSize
  <2>4. QED
    BY <1>9, <1>10, <2>2, <2>3
<1>12. ASSUME NEW w \in Newest(W) PROVE w.id > v.id
  <2>1. w \in W /\ a[w] < a[v]
    BY <1>1, <1>3, <1>8
  <2>2. ~(w.id < v.id) /\ w # v
    BY <1>3, <1>4, <2>1
  <2>3. QED
    BY <2>1, <2>2
<1>13. QED
  BY <1>11, <1>12

(* Rows are counted by their ids, which an edit or a deletion leaves       *)
(* alone, so that counts at different times can be compared.               *)
IdsIn(R, u) == {v.id : v \in {w \in R : w.author = u}}

GoodRows(R) ==
  /\ R \subseteq Rows /\ IsFiniteSet(R)
  /\ \A v \in R : v.id <= Cardinality(R)
  /\ \A v, w \in R : v.id = w.id => v = w

(* A write leaves every row with its author, and new rows have new ids.    *)
Grows(R, T) ==
  /\ Cardinality(R) <= Cardinality(T)
  /\ \A u : /\ IdsIn(R, u) \subseteq IdsIn(T, u)
            /\ \A i \in IdsIn(T, u) : i \in IdsIn(R, u) \/ i > Cardinality(R)

(* A count is one between the rows until last and the rows of now.         *)
CountOK(count, R, last, u) ==
  count \in Cardinality({i \in IdsIn(R, u) : i <= last})..Cardinality(IdsIn(R, u))

Kept(read, R) == \A v \in read : v.id \in IdsIn(R, v.author)

LEMMA IdsFinite ==
  ASSUME NEW R, GoodRows(R), NEW u
  PROVE  /\ IsFiniteSet(IdsIn(R, u)) /\ IdsIn(R, u) \subseteq Nat
         /\ Cardinality(IdsIn(R, u)) = Cardinality({v \in R : v.author = u})
<1>1. PICK its, f : its = {v \in R : v.author = u} /\ f = [v \in its |-> v.id]
  OBVIOUS
<1>2. IsFiniteSet(its) /\ \A v, w \in its : f[v] = f[w] => v = w
  BY <1>1, FS_Subset DEF GoodRows
<1>3. IdsIn(R, u) = {f[v] : v \in its}
  BY <1>1 DEF IdsIn
<1>4. IdsIn(R, u) \subseteq Nat
  BY <1>1 DEF IdsIn, GoodRows, Rows
<1>5. IsFiniteSet({f[v] : v \in its}) /\ Cardinality({f[v] : v \in its}) = Cardinality(its)
  BY <1>2, ImageSize
<1>6. QED
  BY <1>1, <1>3, <1>4, <1>5

LEMMA IdsUntil ==
  ASSUME NEW R, GoodRows(R), NEW u, NEW last \in Nat
  PROVE  Cardinality({i \in IdsIn(R, u) : i <= last})
           = Cardinality({v \in R : v.author = u /\ v.id <= last})
<1>1. PICK its, f : its = {v \in R : v.author = u /\ v.id <= last} /\ f = [v \in its |-> v.id]
  OBVIOUS
<1>2. IsFiniteSet(its) /\ \A v, w \in its : f[v] = f[w] => v = w
  BY <1>1, FS_Subset DEF GoodRows
<1>3. {i \in IdsIn(R, u) : i <= last} = {f[v] : v \in its}
  BY <1>1 DEF IdsIn
<1>4. Cardinality({f[v] : v \in its}) = Cardinality(its)
  BY <1>2, ImageSize
<1>5. QED
  BY <1>1, <1>3, <1>4

LEMMA CountKept ==
  ASSUME NEW R, GoodRows(R), NEW T, GoodRows(T), Grows(R, T),
         NEW last \in Nat, last <= Cardinality(R), NEW u, NEW count, CountOK(count, R, last, u)
  PROVE  CountOK(count, T, last, u)
<1>1. PICK a, b : a = IdsIn(R, u) /\ b = IdsIn(T, u)
  OBVIOUS
<1>2. IsFiniteSet(a) /\ IsFiniteSet(b) /\ a \subseteq b /\ b \subseteq Nat /\ \A i \in b : i \in a \/ i > Cardinality(R)
  BY <1>1, IdsFinite DEF Grows
<1>3. Cardinality(R) \in Nat
  BY FS_CardinalityType DEF GoodRows
<1>4. {i \in a : i <= last} = {i \in b : i <= last}
  <2>1. \A i \in b : i <= last => i \in a
    BY <1>2, <1>3
  <2>2. QED
    BY <1>2, <2>1
<1>5. Cardinality(a) <= Cardinality(b) /\ Cardinality(a) \in Nat /\ Cardinality(b) \in Nat
  BY <1>2, FS_Subset, FS_CardinalityType
<1>6. Cardinality({i \in a : i <= last}) \in Nat
  BY <1>2, FS_Subset, FS_CardinalityType
<1>7. count \in Cardinality({i \in a : i <= last})..Cardinality(a)
  BY <1>1 DEF CountOK
<1>8. count \in Cardinality({i \in b : i <= last})..Cardinality(b)
  <2>1. PICK n, m, k : /\ n = Cardinality({i \in a : i <= last})
                       /\ m = Cardinality(a) /\ k = Cardinality(b)
    OBVIOUS
  <2>2. count \in n..m /\ n \in Nat /\ m \in Nat /\ k \in Nat /\ m <= k
    BY <1>5, <1>6, <1>7, <2>1
  <2>3. count \in n..k
    BY <2>2
  <2>4. QED
    BY <1>4, <2>1, <2>3
<1>9. QED
  BY <1>1, <1>8 DEF CountOK

(* A count that is read is one of those, and counts the rows of a list.    *)
LEMMA CountRead ==
  ASSUME NEW R, GoodRows(R), NEW last \in Nat, NEW u,
         NEW read, IsFiniteSet(read), \A v, w \in read : v.id = w.id => v = w, Kept(read, R),
         NEW count, count = Cardinality({v \in R : v.author = u})
  PROVE  /\ CountOK(count, R, last, u) /\ count \in Nat
         /\ count >= Cardinality({v \in read : v.author = u})
<1>1. PICK a : a = IdsIn(R, u)
  OBVIOUS
<1>2. IsFiniteSet(a) /\ a \subseteq Nat /\ count = Cardinality(a)
  BY <1>1, IdsFinite
<1>3. /\ Cardinality({i \in a : i <= last}) <= Cardinality(a)
      /\ Cardinality({i \in a : i <= last}) \in Nat /\ Cardinality(a) \in Nat
  BY <1>2, FS_Subset, FS_CardinalityType
<1>4. CountOK(count, R, last, u)
  BY <1>1, <1>2, <1>3 DEF CountOK
<1>5. PICK its, f : its = {v \in read : v.author = u} /\ f = [v \in its |-> v.id]
  OBVIOUS
<1>6. IsFiniteSet(its) /\ \A v, w \in its : f[v] = f[w] => v = w
  BY <1>5, FS_Subset
<1>7. Cardinality({f[v] : v \in its}) = Cardinality(its)
  BY <1>6, ImageSize
<1>8. {f[v] : v \in its} \subseteq a
  BY <1>1, <1>5 DEF Kept
<1>9. Cardinality(its) <= count
  BY <1>2, <1>7, <1>8, FS_Subset
<1>10. QED
  BY <1>2, <1>3, <1>4, <1>5, <1>6, <1>9, FS_CardinalityType

LEMMA RowsKept ==
  ASSUME NEW R, NEW T, Grows(R, T), NEW read, Kept(read, R)
  PROVE  Kept(read, T)
BY DEF Grows, Kept

ListFields == {"read", "shown", "total", "pages", "ratio", "counts", "keywords"}
Distinct(read) == IsFiniteSet(read) /\ \A v, w \in read : v.id = w.id => v = w

(* What a listing says does not depend on what is written later, or is     *)
(* bracketed by what was observed.                                         *)
ListSays(l, p) ==
  /\ DOMAIN l = ListFields /\ Distinct(l.read) /\ l.total = Cardinality(l.read)
  /\ l.pages = (l.total + p.limit - 1) \div p.limit
  /\ ToSet(l.shown) \subseteq l.read /\ Cardinality(ToSet(l.shown)) = Len(l.shown)
  /\ Len(l.shown) = PageLength(l.total, p.page, p.limit)
  /\ l.ratio = RevisitRatio(l.read)
ListHas(l, place, since, steady) ==
  /\ l.read \subseteq since /\ \A v \in l.read : place \in {0, v.place}
  /\ \A v \in steady : place \in {0, v.place} => v \in l.read
ListCounts(l, R, last) ==
  /\ Kept(l.read, R) /\ l.counts \in Seq([of: Members, count: Nat])
  /\ \A i \in DOMAIN l.counts :
       /\ CountOK(l.counts[i].count, R, last, l.counts[i].of)
       /\ l.counts[i].count >= Cardinality({v \in l.read : v.author = l.counts[i].of})
Listed(l, p, places, since, steady, R, last) ==
  ListSays(l, p) /\ ListCounts(l, R, last) /\ \A place \in places : ListHas(l, place, since, steady)
HasReviewsOf(read, u, since, steady) ==
  /\ read \subseteq since /\ \A v \in read : v.author = u
  /\ \A v \in steady : v.author = u => v \in read

(* The pages of a restaurant that is recommended, and the places whose     *)
(* reviews are listed: 0 for those of all.                                 *)
FirstPage == [page |-> 1, limit |-> ListLimit]
PlacesOf(aggregate) == {v.place : v \in aggregate.rows}
AskedPlaces == IF req.ask.kind = "list" THEN {req.ask.place} ELSE PlacesOf(req.aggregate)

(* What a request knows at each of its steps, beside what RecommendOK says.*)
ToldOK ==
  req # Idle =>
    /\ seen.last \in Nat /\ seen.last <= Cardinality(reviews)
    /\ req.pc = "match" =>
         /\ req.near # {} /\ req.near \subseteq Near
         /\ \A v \in seen.steady : v.place \in Near => v.place \in req.near
    /\ req.pc = "area" => req.ask.kind = "nearby"
    /\ req.pc \in {"list", "summaries"} => req.ask.kind \in {"list", "recommend"}
    /\ req.pc = "summaries" =>
         /\ Listed(req.read, AskedPage, AskedPlaces, seen.since, seen.steady, reviews, seen.last)
         /\ req.left \subseteq DOMAIN req.read.shown
    /\ req.pc = "reads" /\ req.ask.kind = "reviewer" =>
         /\ "reviews" \notin req.left => HasReviewsOf(req.read, req.ask.user, seen.since, seen.steady)
         /\ "count" \notin req.left => CountOK(req.count, reviews, seen.last, req.ask.user)

(* A listing that was answered is one of what was asked for, and the       *)
(* listing that comes with a recommended restaurant is one of it.          *)
ListingTold ==
  Answered("list") =>
    Listed(req.answer.listing, req.ask.page, {req.ask.place}, seen.since, seen.steady, reviews, seen.last)
RestaurantTold ==
  Answered("restaurant") =>
    /\ req.ask.kind = "recommend"
    /\ Listed(req.answer.listing, FirstPage, PlacesOf(req.answer.aggregate),
              seen.since, seen.steady, reviews, seen.last)

(* Only a withdrawal breaks an answer: of an author whose review was there *)
(* to be listed, or of the member whose reviews were asked for.            *)
RefusalDue ==
  /\ req.ask.kind = "list" =>
       \E v \in seen.since : v.author \notin members /\ req.ask.place \in {0, v.place}
  /\ req.ask.kind = "recommend" =>
       \E v \in seen.since : v.author \notin members /\ v.place \in Near
  /\ req.ask.kind = "reviewer" => req.ask.user \notin members
  /\ req.ask.kind # "recent"
RefusedForWithdrawal == Answered("refused") => RefusalDue

AnswersTold == ListingsAreTrue /\ ListingTold /\ RestaurantTold /\ RefusedForWithdrawal
ToldInv == ToldOK /\ AnswersTold

LEMMA NothingTold == ~At("answered") => AnswersTold
BY DEF AnswersTold, ListingsAreTrue, ListingTold, RestaurantTold, RefusedForWithdrawal, Answered

LEMMA NothingToldNext == (~At("answered"))' => AnswersTold'
BY NothingTold, PTL

LEMMA ToldInit == Init => ToldInv
BY NothingTold DEF Init, ToldInv, ToldOK, At

(* A write of others changes nothing of what was told.                     *)
LEMMA OthersTell ==
  ASSUME SearchInv, TablesOK', ToldInv, Unanswered, req' = req, Grows(reviews, reviews'),
         (reviews' = reviews /\ seen' = seen) \/ Observe(reviews', open')
  PROVE  ToldInv'
<1>1. CASE req = Idle
  <2>1. (~At("answered"))'
    BY <1>1 DEF At
  <2>2. QED
    BY <1>1, <2>1, NothingToldNext DEF ToldInv, ToldOK
<1>2. CASE req # Idle
  <2>1. /\ seen'.since = seen.since \/ seen'.since = seen.since \cup {v \in reviews' : ~v.deleted}
        /\ seen'.steady \subseteq seen.steady /\ seen'.last = seen.last
    <3>1. CASE Observe(reviews', open')
      <4>1. seen' = [seen EXCEPT !.since = @ \cup {v \in reviews' : ~v.deleted},
                                 !.steady = @ \cap {v \in reviews' : ~v.deleted},
                                 !.open = @ \cup open', !.steadyOpen = @ \cap open']
        BY <1>2, <3>1 DEF Observe
      <4>2. QED
        BY <4>1 DEF SearchInv, SeenOK, SeenFields
    <3>2. QED
      BY <3>1
  <2>2. PICK R, T : R = reviews /\ T = reviews'
    OBVIOUS
  <2>3. GoodRows(R) /\ GoodRows(T) /\ Grows(R, T) /\ Cardinality(R) \in Nat /\ Cardinality(T) \in Nat
        /\ Cardinality(R) <= Cardinality(T)
    BY <2>2, FS_CardinalityType DEF SearchInv, TablesOK, GoodRows, Grows
  <2>4. PICK last \in Nat : last = seen.last /\ last <= Cardinality(R)
    BY <1>2, <2>2 DEF ToldInv, ToldOK
  <2>5. ASSUME NEW l, ListCounts(l, R, last) PROVE ListCounts(l, T, last)
    BY <2>3, <2>4, <2>5, CountKept, RowsKept DEF ListCounts
  <2>6. PICK since, steady, near : since = seen.since /\ steady = seen.steady /\ near = req.near
    OBVIOUS
  <2>7. PICK afterwards, still : /\ afterwards = seen'.since /\ still = seen'.steady
                                 /\ since \subseteq afterwards /\ still \subseteq steady
    BY <2>1, <2>6
  <2>8. ASSUME NEW l, NEW place, ListHas(l, place, since, steady) PROVE ListHas(l, place, afterwards, still)
    BY <2>7, <2>8 DEF ListHas
  <2>9. ASSUME NEW read, NEW u, HasReviewsOf(read, u, since, steady) PROVE HasReviewsOf(read, u, afterwards, still)
    BY <2>7, <2>9 DEF HasReviewsOf
  <2>10. ASSUME NEW count, NEW u, CountOK(count, R, last, u) PROVE CountOK(count, T, last, u)
    BY <2>3, <2>4, <2>10, CountKept
  <2>11. ToldOK'
    <3>1. seen'.last \in Nat /\ seen'.last <= Cardinality(reviews')
      BY <2>1, <2>2, <2>3, <2>4
    <3>2. req.pc = "match" => /\ req.near # {} /\ req.near \subseteq Near
                              /\ \A v \in still : v.place \in Near => v.place \in req.near
      BY <1>2, <2>6, <2>7 DEF ToldInv, ToldOK
    <3>3. req.pc = "summaries" =>
            /\ Listed(req.read, AskedPage, AskedPlaces, afterwards, still, T, last)
            /\ req.left \subseteq DOMAIN req.read.shown
      BY <1>2, <2>2, <2>4, <2>5, <2>6, <2>8 DEF ToldInv, ToldOK, Listed
    <3>4. req.pc = "reads" /\ req.ask.kind = "reviewer" =>
            /\ "reviews" \notin req.left => HasReviewsOf(req.read, req.ask.user, afterwards, still)
            /\ "count" \notin req.left => CountOK(req.count, T, last, req.ask.user)
      BY <1>2, <2>2, <2>4, <2>6, <2>9, <2>10 DEF ToldInv, ToldOK
    <3>5. seen'.last = last
      BY <2>1, <2>4
    <3>6. /\ req.pc = "area" => req.ask.kind = "nearby"
          /\ req.pc \in {"list", "summaries"} => req.ask.kind \in {"list", "recommend"}
      BY <1>2 DEF ToldInv, ToldOK
    <3>7. AskedPage' = AskedPage /\ AskedPlaces' = AskedPlaces
      BY DEF AskedPage, AskedPlaces
    <3>8. QED
      BY <2>2, <2>7, <3>1, <3>2, <3>3, <3>4, <3>5, <3>6, <3>7 DEF ToldOK
  <2>12. AnswersTold'
    BY <1>2, NothingToldNext DEF Unanswered, At
  <2>13. QED
    BY <2>11, <2>12 DEF ToldInv
<1>3. QED
  BY <1>1, <1>2

LEMMA RowReplacedGrows ==
  ASSUME NEW R, GoodRows(R), NEW v \in R, NEW w \in Rows, w.id = v.id, w.author = v.author,
         NEW T, GoodRows(T), T = (R \ {v}) \cup {w}
  PROVE  Grows(R, T)
<1>1. \A u : IdsIn(T, u) = IdsIn(R, u)
  BY DEF IdsIn
<1>2. Cardinality(T) = Cardinality(R)
  <2>1. IsFiniteSet(R \ {v}) /\ Cardinality(R \ {v}) = Cardinality(R) - 1
    BY FS_RemoveElement DEF GoodRows
  <2>2. w \notin R \ {v}
    BY DEF GoodRows
  <2>3. Cardinality(R) \in Nat /\ Cardinality(T) = Cardinality(R) - 1 + 1
    <3>1. PICK others : others = R \ {v}
      OBVIOUS
    <3>2. IsFiniteSet(others) /\ w \notin others /\ T = others \cup {w}
      BY <2>1, <2>2, <3>1
    <3>3. Cardinality(T) = Cardinality(others) + 1
      BY <3>2, FS_AddElement
    <3>4. Cardinality(R) \in Nat
      BY FS_CardinalityType DEF GoodRows
    <3>5. QED
      BY <2>1, <3>1, <3>3, <3>4
  <2>4. QED
    BY <2>3
<1>3. Cardinality(R) \in Nat
  BY FS_CardinalityType DEF GoodRows
<1>4. QED
  BY <1>1, <1>2, <1>3 DEF Grows

LEMMA RowAddedGrows ==
  ASSUME NEW R, GoodRows(R), NEW w, w.id = Cardinality(R) + 1,
         NEW T, T = R \cup {w}, GoodRows(T)
  PROVE  Grows(R, T)
<1>1. Cardinality(R) \in Nat /\ Cardinality(R) <= Cardinality(T)
  BY FS_CardinalityType, FS_Subset DEF GoodRows
<1>2. \A u : IdsIn(R, u) \subseteq IdsIn(T, u)
  BY DEF IdsIn
<1>3. \A u : \A i \in IdsIn(T, u) : i \in IdsIn(R, u) \/ i > Cardinality(R)
  BY <1>1 DEF IdsIn
<1>4. QED
  BY <1>1, <1>2, <1>3 DEF Grows

LEMMA SameGrows == ASSUME NEW R, GoodRows(R) PROVE Grows(R, R)
BY FS_CardinalityType DEF Grows, GoodRows

LEMMA OthersNextTell ==
  ASSUME SearchInv, SearchInv', ToldInv,
         \/ \E d \in Drafts : WriteReview(d) \/ \E v \in Live : EditReview(v, d)
         \/ \E v \in Live : RemoveReview(v)
         \/ \E u \in Members : Withdraw(u)
         \/ \E s \in Shops : OpenOrClose(s)
  PROVE  ToldInv'
<1>0. TablesOK /\ TablesOK' /\ GoodRows(reviews) /\ GoodRows(reviews')
  BY DEF SearchInv, TablesOK, GoodRows
<1>1. ASSUME NEW d \in Drafts, WriteReview(d) PROVE ToldInv'
  <2>1. PICK w : w = [id |-> Cardinality(reviews) + 1, author |-> d.author,
                      place |-> d.place, text |-> d.text, deleted |-> FALSE]
    OBVIOUS
  <2>2. Unanswered /\ reviews' = reviews \cup {w} /\ req' = req /\ Observe(reviews', open')
    BY <1>1, <2>1 DEF WriteReview, Observe
  <2>3. Grows(reviews, reviews')
    <3>1. PICK R, T : R = reviews /\ T = reviews'
      OBVIOUS
    <3>2. GoodRows(R) /\ GoodRows(T) /\ w.id = Cardinality(R) + 1 /\ T = R \cup {w}
      BY <1>0, <2>1, <2>2, <3>1
    <3>3. QED
      BY <3>1, <3>2, RowAddedGrows
  <2>4. QED
    BY <1>0, <2>2, <2>3, OthersTell
<1>2. ASSUME NEW v \in Live, NEW w, w.id = v.id, w.author = v.author, Unanswered, req' = req,
             reviews' = (reviews \ {v}) \cup {w}, Observe(reviews', open')
      PROVE  ToldInv'
  <2>1. PICK R, T : R = reviews /\ T = reviews'
    OBVIOUS
  <2>2. GoodRows(R) /\ GoodRows(T) /\ v \in R /\ w \in Rows /\ T = (R \ {v}) \cup {w}
    <3>1. w \in reviews'
      BY <1>2
    <3>2. QED
      BY <1>0, <1>2, <2>1, <3>1 DEF GoodRows, Live
  <2>3. Grows(reviews, reviews')
    BY <1>2, <2>1, <2>2, RowReplacedGrows
  <2>4. QED
    BY <1>0, <1>2, <2>3, OthersTell
<1>3. ASSUME NEW d \in Drafts, NEW v \in Live, EditReview(v, d) PROVE ToldInv'
  <2>1. PICK w : w = [v EXCEPT !.text = d.text]
    OBVIOUS
  <2>2. w.id = v.id /\ w.author = v.author
    BY <1>0, <2>1 DEF Live, GoodRows, Rows
  <2>3. /\ Unanswered /\ req' = req /\ reviews' = (reviews \ {v}) \cup {w} /\ Observe(reviews', open')
    BY <1>3, <2>1 DEF EditReview, Change, Observe
  <2>4. QED
    BY <1>2, <2>2, <2>3
<1>4. ASSUME NEW v \in Live, RemoveReview(v) PROVE ToldInv'
  <2>1. PICK w : w = [v EXCEPT !.deleted = TRUE]
    OBVIOUS
  <2>2. w.id = v.id /\ w.author = v.author
    BY <1>0, <2>1 DEF Live, GoodRows, Rows
  <2>3. /\ Unanswered /\ req' = req /\ reviews' = (reviews \ {v}) \cup {w} /\ Observe(reviews', open')
    BY <1>4, <2>1 DEF RemoveReview, Change, Observe
  <2>4. QED
    BY <1>2, <2>2, <2>3
<1>5. ASSUME \/ \E u \in Members : Withdraw(u)
             \/ \E s \in Shops : OpenOrClose(s)
      PROVE  ToldInv'
  <2>1. /\ Unanswered /\ req' = req /\ reviews' = reviews
        /\ (open' = open /\ seen' = seen) \/ Observe(reviews', open')
    BY <1>5 DEF Withdraw, OpenOrClose, Change, Observe
  <2>2. PICK R : R = reviews
    OBVIOUS
  <2>3. Grows(reviews, reviews')
    BY <1>0, <2>1, <2>2, SameGrows
  <2>4. QED
    BY <1>0, <2>1, <2>3, OthersTell
<1>6. QED
  BY <1>1, <1>3, <1>4, <1>5

LEMMA ToldMoves ==
  ASSUME ToldInv, req # Idle, UNCHANGED <<tables, seen>>, req'.ask = req.ask,
         req'.pc \in SearchSteps \ {"answered", "match", "area"},
         req'.pc \in {"list", "summaries"} => req.ask.kind \in {"list", "recommend"},
         req'.pc = "summaries" =>
           /\ req'.aggregate = req.aggregate /\ req'.left \subseteq DOMAIN req'.read.shown
           /\ Listed(req'.read, AskedPage, AskedPlaces, seen.since, seen.steady, reviews, seen.last),
         req'.pc = "reads" /\ req'.ask.kind = "reviewer" =>
           /\ "reviews" \notin req'.left => HasReviewsOf(req'.read, req'.ask.user, seen.since, seen.steady)
           /\ "count" \notin req'.left => CountOK(req'.count, reviews, seen.last, req'.ask.user)
  PROVE  ToldInv'
<1>1. seen' = seen /\ reviews' = reviews /\ req'.pc \notin {"answered", "match", "area"}
  BY DEF tables
<1>2. seen.last \in Nat /\ seen.last <= Cardinality(reviews)
  BY DEF ToldInv, ToldOK
<1>3. req'.pc = "summaries" => AskedPage' = AskedPage /\ AskedPlaces' = AskedPlaces
  BY DEF AskedPage, AskedPlaces
<1>4. ToldOK'
  BY <1>1, <1>2, <1>3 DEF ToldOK
<1>5. AnswersTold'
  BY <1>1, NothingToldNext DEF At
<1>6. QED
  BY <1>4, <1>5 DEF ToldInv

(* An answer is true when what was read is.                                *)
NearSays(answer) ==
  /\ \A v \in seen.steady : v.place \in Near => v \in answer.read
  /\ \A v \in answer.read : \E g \in answer.groups : g.place = v.place
  /\ \A g \in answer.groups :
       LET rows == {v \in answer.read : v.place = g.place} IN
       /\ g.place \in Near /\ rows # {} /\ rows \subseteq seen.since /\ g.total = Cardinality(rows)
       /\ PriceIs(g.avg, PricesOf(rows))
RecentSays(read) ==
  \A v \in seen.steady \ read : Cardinality(read) = RecentCount /\ \A w \in read : w.id > v.id

LEMMA CountsAre ==
  ASSUME TablesOK, NEW last \in Nat, last = seen.last, NEW count, NEW u, CountOK(count, reviews, last, u)
  PROVE  CountIs(count, u)
<1>1. PICK R : R = reviews
  OBVIOUS
<1>2. GoodRows(R) /\ CountOK(count, R, last, u)
  BY <1>1 DEF TablesOK, GoodRows
<1>3. /\ Cardinality(IdsIn(R, u)) = Cardinality({v \in R : v.author = u})
      /\ Cardinality({i \in IdsIn(R, u) : i <= last}) = Cardinality({v \in R : v.author = u /\ v.id <= last})
  BY <1>2, IdsFinite, IdsUntil
<1>4. QED
  BY <1>1, <1>2, <1>3 DEF CountOK, CountIs, UserReviewCount

LEMMA ToldAnswers ==
  ASSUME SearchInv, ToldInv, req # Idle, NEW answer, Answer(answer),
         answer.kind = "list" =>
           Listed(answer.listing, req.ask.page, {req.ask.place}, seen.since, seen.steady, reviews, seen.last),
         answer.kind = "restaurant" =>
           /\ req.ask.kind = "recommend"
           /\ Listed(answer.listing, FirstPage, PlacesOf(answer.aggregate),
                     seen.since, seen.steady, reviews, seen.last),
         answer.kind = "refused" => RefusalDue,
         answer.kind = "nearby" => NearSays(answer),
         answer.kind = "reviewer" =>
           /\ HasReviewsOf(answer.read, req.ask.user, seen.since, seen.steady)
           /\ CountOK(answer.count, reviews, seen.last, req.ask.user),
         answer.kind = "recent" => RecentSays(answer.read)
  PROVE  ToldInv'
<1>1. /\ req' = [pc |-> "answered", ask |-> req.ask, answer |-> answer]
      /\ seen' = seen /\ reviews' = reviews /\ members' = members
  BY DEF Answer, tables
<1>2. req'.pc = "answered" /\ req'.ask = req.ask /\ req'.answer = answer /\ req' # Idle
  BY <1>1 DEF Idle
<1>3. PICK last \in Nat : last = seen.last /\ last <= Cardinality(reviews)
  BY DEF ToldInv, ToldOK
<1>4. ToldOK'
  BY <1>1, <1>2, <1>3 DEF ToldOK
<1>5. ASSUME NEW count, NEW u, CountOK(count, reviews, last, u) PROVE CountIs(count, u)
  BY <1>3, <1>5, CountsAre DEF SearchInv
<1>6. \A count, u : CountIs(count, u)' <=> CountIs(count, u)
  BY <1>1 DEF CountIs, UserReviewCount
<1>7. ASSUME answer.kind = "list" PROVE ListingsAreTrue'
  <2>1. PICK l, p, place : l = answer.listing /\ p = req.ask.page /\ place = req.ask.place
    OBVIOUS
  <2>2. /\ ListSays(l, p) /\ ListHas(l, place, seen.since, seen.steady) /\ ListCounts(l, reviews, last)
    BY <1>3, <1>7, <2>1 DEF Listed
  <2>3. /\ l.read \subseteq {v \in seen.since : place \in {0, v.place}}
        /\ {v \in seen.steady : place \in {0, v.place}} \subseteq l.read
    BY <2>2 DEF ListHas
  <2>4. Len(l.shown) = IF p.page < l.pages THEN p.limit
                       ELSE IF p.page = l.pages THEN l.total - (p.page - 1) * p.limit ELSE 0
    BY <2>2 DEF ListSays, PageLength
  <2>5. \A i \in DOMAIN l.counts :
          /\ CountIs(l.counts[i].count, l.counts[i].of)
          /\ l.counts[i].count >= Cardinality({v \in l.read : v.author = l.counts[i].of})
    BY <1>5, <2>2 DEF ListCounts
  <2>6. RatioIs(l.ratio, Cardinality(Yes(l.read)), Cardinality(Opinions(l.read)))
    BY <2>2, RatioRounded DEF ListSays, Distinct
  <2>7. QED
    BY <1>1, <1>2, <1>6, <1>7, <2>1, <2>2, <2>3, <2>4, <2>5, <2>6
       DEF ListingsAreTrue, Answered, At, TrueOf, ListSays
<1>8. ASSUME answer.kind = "nearby" PROVE ListingsAreTrue'
  <2>1. NearSays(answer)'
    BY <1>1, <1>8 DEF NearSays
  <2>2. QED
    BY <1>2, <1>8, <2>1 DEF ListingsAreTrue, Answered, At, NearSays
<1>9. ASSUME answer.kind = "reviewer" PROVE ListingsAreTrue'
  <2>1. PICK count, u : count = answer.count /\ u = req.ask.user
    OBVIOUS
  <2>2. CountIs(count, u)'
    BY <1>3, <1>5, <1>6, <1>9, <2>1
  <2>3. HasReviewsOf(answer.read, u, seen'.since, seen'.steady)
    BY <1>1, <1>9, <2>1
  <2>4. QED
    BY <1>2, <1>9, <2>1, <2>2, <2>3 DEF ListingsAreTrue, Answered, At, TrueOf, HasReviewsOf
<1>10. ASSUME answer.kind = "recent" PROVE ListingsAreTrue'
  BY <1>1, <1>2, <1>10 DEF ListingsAreTrue, Answered, At, RecentSays
<1>11. ASSUME answer.kind \notin {"list", "nearby", "reviewer", "recent"} PROVE ListingsAreTrue'
  BY <1>2, <1>11 DEF ListingsAreTrue, Answered, At
<1>12. ListingTold' /\ RestaurantTold'
  <2>1. FirstPage' = FirstPage /\ \A a : PlacesOf(a)' = PlacesOf(a)
    BY DEF FirstPage, PlacesOf
  <2>2. QED
    BY <1>1, <1>2, <2>1 DEF ListingTold, RestaurantTold, Answered, At
<1>13. RefusedForWithdrawal'
  <2>1. RefusalDue => RefusalDue'
    BY <1>1, <1>2 DEF RefusalDue
  <2>2. QED
    BY <1>2, <2>1 DEF RefusedForWithdrawal, Answered, At
<1>14. QED
  BY <1>4, <1>7, <1>8, <1>9, <1>10, <1>11, <1>12, <1>13 DEF ToldInv, AnswersTold

LEMMA OtherAnswers ==
  ASSUME SearchInv, ToldInv, req # Idle, NEW answer, Answer(answer),
         answer.kind \in {"empty", "shop"}
  PROVE  ToldInv'
BY ToldAnswers

LEMMA RefusedTold == ASSUME SearchInv, ToldInv, req # Idle, Refuse, RefusalDue PROVE ToldInv'
<1>1. PICK answer : answer = [kind |-> "refused"]
  OBVIOUS
<1>2. Answer(answer) /\ answer.kind = "refused"
  BY <1>1 DEF Refuse
<1>3. QED
  BY <1>2, ToldAnswers

LEMMA ToldReceives == ASSUME SearchInv, NEW ask \in Asks, Receive(ask) PROVE ToldInv'
<1>1. /\ req'.pc = (CASE ask.kind = "recommend" -> "near" [] ask.kind = "nearby" -> "area"
                       [] ask.kind = "list" -> "list" [] OTHER -> "reads")
      /\ req'.left = {"profile", "count", "reviews"} /\ seen'.last = Cardinality(reviews)
      /\ reviews' = reviews
  BY DEF Receive, tables
<1>2. /\ req'.pc \notin {"match", "summaries", "answered"} /\ Cardinality(reviews) \in Nat
      /\ req'.ask = ask
  BY <1>1, FS_CardinalityType DEF SearchInv, TablesOK, Receive
<1>3. ToldOK'
  BY <1>1, <1>2 DEF ToldOK
<1>4. AnswersTold'
  <2>1. (~At("answered"))'
    BY <1>2 DEF At
  <2>2. QED
    BY <2>1, NothingToldNext
<1>5. QED
  BY <1>3, <1>4 DEF ToldInv

LEMMA ToldEnds == ASSUME Return \/ Abort PROVE ToldInv'
<1>1. (~At("answered"))' /\ ToldOK'
  BY DEF Return, Abort, ToldOK, At
<1>2. QED
  BY <1>1, NothingToldNext DEF ToldInv

LEMMA NearTold == ASSUME SearchInv, ToldInv, ReadNear PROVE ToldInv'
<1>0. SeenOK /\ AskOK /\ req # Idle /\ req.pc = "near" /\ DOMAIN req = ReqFields
  BY DEF SearchInv, ReadNear, At, AskOK
<1> DEFINE near == {v.place : v \in Live} \cap Near
<1>1. CASE near # {}
  <2>1. req' = [req EXCEPT !.pc = "match", !.near = near] /\ UNCHANGED <<tables, seen>>
    BY <1>1 DEF ReadNear
  <2>2. req'.pc = "match" /\ req'.near = near /\ seen' = seen /\ reviews' = reviews
    BY <1>0, <2>1 DEF ReqFields, tables
  <2>3. \A v \in seen.steady : v.place \in Near => v.place \in near
    BY <1>0 DEF SeenOK
  <2>4. ToldOK'
    BY <1>0, <1>1, <2>2, <2>3 DEF ToldOK, ToldInv
  <2>5. (~At("answered"))'
    BY <2>2 DEF At
  <2>6. QED
    BY <2>4, <2>5, NothingToldNext DEF ToldInv
<1>2. CASE near = {} /\ req.ask.kind = "recommend"
  <2>1. req' = [req EXCEPT !.pc = "draw"] /\ UNCHANGED <<tables, seen>>
    BY <1>2 DEF ReadNear, Goto
  <2>2. req'.pc = "draw"
    BY <1>0, <2>1 DEF ReqFields
  <2>3. QED
    BY <1>0, <2>1, <2>2, ToldMoves DEF SearchSteps
<1>3. CASE near = {} /\ req.ask.kind # "recommend"
  <2>1. PICK answer : answer = [kind |-> "nearby", groups |-> {}, read |-> {}]
    OBVIOUS
  <2>2. Answer(answer)
    BY <1>3, <2>1 DEF ReadNear
  <2>3. NearSays(answer)
    BY <1>0, <1>3, <2>1 DEF NearSays, SeenOK
  <2>4. QED
    BY <1>0, <2>1, <2>2, <2>3, ToldAnswers
<1>4. QED
  BY <1>1, <1>2, <1>3

LEMMA MatchTold == ASSUME SearchInv, ToldInv, Match \/ DrawShop PROVE ToldInv'
<1>0. req # Idle /\ DOMAIN req = ReqFields /\ req.ask.kind = "recommend"
  BY DEF SearchInv, Match, DrawShop, At, AskOK, DrawsForSome
<1>1. PICK kept :
        \/ UNCHANGED <<tables, seen>> /\ req' = [req EXCEPT !.pc = "draw"]
        \/ UNCHANGED <<tables, seen>> /\ req' = [req EXCEPT !.pc = "list", !.aggregate = kept]
        \/ Answer([kind |-> "empty"])
        \/ \E s \in open : Answer([kind |-> "shop", shop |-> s])
  BY DEF Match, DrawShop, Goto, Empty
<1>2. CASE UNCHANGED <<tables, seen>> /\ req' = [req EXCEPT !.pc = "draw"]
  <2>1. req'.pc = "draw"
    BY <1>0, <1>2 DEF ReqFields
  <2>2. QED
    BY <1>0, <1>2, <2>1, ToldMoves DEF SearchSteps
<1>3. CASE UNCHANGED <<tables, seen>> /\ req' = [req EXCEPT !.pc = "list", !.aggregate = kept]
  <2>1. req'.pc = "list"
    BY <1>0, <1>3 DEF ReqFields
  <2>2. QED
    BY <1>0, <1>3, <2>1, ToldMoves DEF SearchSteps
<1>4. CASE Answer([kind |-> "empty"])
  BY <1>0, <1>4, OtherAnswers
<1>5. CASE \E s \in open : Answer([kind |-> "shop", shop |-> s])
  BY <1>0, <1>5, OtherAnswers
<1>6. QED
  BY <1>1, <1>2, <1>3, <1>4, <1>5

LEMMA AreaTold == ASSUME SearchInv, ToldInv, CheckArea PROVE ToldInv'
<1>0. req # Idle /\ DOMAIN req = ReqFields
  BY DEF SearchInv, CheckArea, At, AskOK
<1>1. CASE Goto("near")
  <2>1. req'.pc = "near" /\ req'.ask = req.ask /\ UNCHANGED <<tables, seen>>
    BY <1>0, <1>1 DEF Goto, ReqFields
  <2>2. QED
    BY <1>0, <2>1, ToldMoves DEF SearchSteps
<1>2. CASE Refuse
  <2>1. RefusalDue
    BY <1>0 DEF ToldInv, ToldOK, RefusalDue, CheckArea, At
  <2>2. QED
    BY <1>0, <1>2, <2>1, RefusedTold
<1>3. QED
  BY <1>1, <1>2 DEF CheckArea

(* Rows of the table, and some of them, are such that they can be priced.  *)
LEMMA RowsPriced == ASSUME TablesOK, NEW W, W \subseteq reviews PROVE Priced(W)
<1>1. IsFiniteSet(W) /\ \A v, w \in W : v.id = w.id => v = w
  BY FS_Subset DEF TablesOK
<1>2. \A v \in W : v.id \in Nat /\ \E d \in Drafts : v.text = d.text
  BY DEF TablesOK, Rows
<1>3. QED
  BY <1>1, <1>2, SearchAssumption DEF Priced

LEMMA GroupTold == ASSUME SearchInv, ToldInv, GroupNear PROVE ToldInv'
<1>0. TablesOK /\ SeenOK /\ req # Idle /\ req.pc = "match"
  BY DEF SearchInv, GroupNear, At
<1>1. /\ req.near # {} /\ req.near \subseteq Near
      /\ \A v \in seen.steady : v.place \in Near => v.place \in req.near
  BY <1>0 DEF ToldInv, ToldOK
<1>2. PICK rows : rows = AtPlaces(req.near)
  OBVIOUS
<1>3. rows = {v \in Live : v.place \in req.near}
  BY <1>1, <1>2 DEF AtPlaces, ByConditions
<1>4. CASE rows = {}
  BY <1>0, <1>2, <1>4, OtherAnswers DEF GroupNear, Empty
<1>5. CASE rows # {}
  <2>1. PICK groups : groups = {Group(x, {v \in rows : v.place = x}) : x \in {v.place : v \in rows}}
    OBVIOUS
  <2>2. PICK answer : answer = [kind |-> "nearby", read |-> rows, groups |-> groups]
    OBVIOUS
  <2>3. Answer(answer)
    BY <1>2, <1>5, <2>1, <2>2 DEF GroupNear
  <2>4. \A v \in seen.steady : v.place \in Near => v \in rows
    BY <1>0, <1>1, <1>3 DEF SeenOK
  <2>5. \A v \in rows : \E g \in groups : g.place = v.place
    <3> TAKE v \in rows
    <3>1. Group(v.place, {w \in rows : w.place = v.place}) \in groups
      BY <2>1
    <3>2. QED
      BY <3>1 DEF Group
  <2>6. ASSUME NEW g \in groups, NEW its, its = {v \in rows : v.place = g.place}
        PROVE  /\ g.place \in Near /\ its # {} /\ its \subseteq seen.since /\ g.total = Cardinality(its)
               /\ PriceIs(g.avg, PricesOf(its))
    <3>1. PICK x \in {v.place : v \in rows} : g = Group(x, {v \in rows : v.place = x})
      BY <2>1
    <3>2. g.place = x /\ g.total = Cardinality(its) /\ g.avg = AveragePrice(its)
      BY <2>6, <3>1 DEF Group
    <3>3. its # {} /\ its \subseteq Live /\ x \in Near
      BY <1>1, <1>3, <2>6, <3>1, <3>2
    <3>4. PriceIs(AveragePrice(its), PricesOf(its))
      BY <1>0, <3>3, RowsPriced, AverageIs DEF Live
    <3>5. QED
      BY <1>0, <3>2, <3>3, <3>4 DEF SeenOK
  <2>7. NearSays(answer)
    BY <2>2, <2>4, <2>5, <2>6 DEF NearSays
  <2>8. QED
    BY <1>0, <2>2, <2>3, <2>7, ToldAnswers
<1>6. QED
  BY <1>4, <1>5

LEMMA RecentTold == ASSUME SearchInv, ToldInv, ReadRecent PROVE ToldInv'
<1>0. TablesOK /\ SeenOK /\ req # Idle
  BY DEF SearchInv, ReadRecent, At
<1>1. PICK live, answer : live = Live /\ answer = [kind |-> "recent", read |-> Newest(live)]
  OBVIOUS
<1>2. Answer(answer)
  BY <1>1 DEF ReadRecent
<1>3. /\ IsFiniteSet(live) /\ \A v \in live : v.id \in Nat
      /\ \A v, w \in live : v.id = w.id => v = w
  BY <1>0, <1>1, FS_Subset DEF TablesOK, Live, Rows
<1>4. \A v \in live \ Newest(live) :
        Cardinality(Newest(live)) = RecentCount /\ \A w \in Newest(live) : w.id > v.id
  BY <1>3, NewestAre
<1>5. RecentSays(answer.read)
  BY <1>0, <1>1, <1>4 DEF RecentSays, SeenOK
<1>6. QED
  BY <1>0, <1>1, <1>2, <1>5, ToldAnswers

LEMMA ReviewerTold == ASSUME SearchInv, ToldInv, ReadOfReviewer PROVE ToldInv'
<1>0. /\ TablesOK /\ SeenOK /\ req # Idle /\ req.pc = "reads" /\ DOMAIN req = ReqFields
      /\ req.ask.kind = "reviewer"
  BY DEF SearchInv, ReadOfReviewer, At, AskOK
<1>1. PICK u : u = req.ask.user
  OBVIOUS
<1>2. /\ seen.last \in Nat
      /\ "reviews" \notin req.left => HasReviewsOf(req.read, u, seen.since, seen.steady)
      /\ "count" \notin req.left => CountOK(req.count, reviews, seen.last, u)
  BY <1>0, <1>1 DEF ToldInv, ToldOK
<1>3. PICK read, got :
        /\ read \in req.left
        /\ got = [req EXCEPT !.left = @ \ {read},
                    !.read = IF read = "reviews" THEN {v \in Live : v.author = u} ELSE @,
                    !.count = IF read = "count" THEN UserReviewCount(u) ELSE @]
        /\ \/ Refuse /\ u \notin members
           \/ got.left = {} /\ Answer([kind |-> "reviewer", read |-> got.read, count |-> got.count])
           \/ req' = got /\ UNCHANGED <<tables, seen>>
  BY <1>1 DEF ReadOfReviewer
<1>4. /\ got.left = req.left \ {read} /\ got.pc = "reads" /\ got.ask = req.ask
      /\ got.read = IF read = "reviews" THEN {v \in Live : v.author = u} ELSE req.read
      /\ got.count = IF read = "count" THEN UserReviewCount(u) ELSE req.count
  BY <1>0, <1>3 DEF ReqFields
<1>5. HasReviewsOf({v \in Live : v.author = u}, u, seen.since, seen.steady)
  BY <1>0 DEF HasReviewsOf, SeenOK
<1>6. CountOK(UserReviewCount(u), reviews, seen.last, u)
  <2>1. PICK R, count, last : R = reviews /\ count = UserReviewCount(u) /\ last = seen.last
    OBVIOUS
  <2>2. GoodRows(R) /\ last \in Nat /\ count = Cardinality({v \in R : v.author = u})
    BY <1>0, <1>2, <2>1 DEF TablesOK, GoodRows, UserReviewCount
  <2>3. IsFiniteSet({}) /\ Kept({}, R)
    BY FS_EmptySet DEF Kept
  <2>4. CountOK(count, R, last, u)
    BY <2>2, <2>3, CountRead
  <2>5. QED
    BY <2>1, <2>4
<1>7. /\ "reviews" \notin got.left => HasReviewsOf(got.read, u, seen.since, seen.steady)
      /\ "count" \notin got.left => CountOK(got.count, reviews, seen.last, u)
  BY <1>2, <1>4, <1>5, <1>6
<1>8. CASE Refuse /\ u \notin members
  BY <1>0, <1>1, <1>8, RefusedTold DEF RefusalDue
<1>9. CASE got.left = {} /\ Answer([kind |-> "reviewer", read |-> got.read, count |-> got.count])
  <2>1. PICK answer : answer = [kind |-> "reviewer", read |-> got.read, count |-> got.count]
    OBVIOUS
  <2>2. /\ HasReviewsOf(answer.read, u, seen.since, seen.steady)
        /\ CountOK(answer.count, reviews, seen.last, u)
    BY <1>7, <1>9, <2>1
  <2>3. Answer(answer) /\ answer.kind = "reviewer"
    BY <1>9, <2>1
  <2>4. QED
    BY <1>0, <1>1, <2>2, <2>3, ToldAnswers
<1>10. CASE req' = got /\ UNCHANGED <<tables, seen>>
  <2>1. req'.pc = "reads" /\ req'.ask = req.ask /\ req'.ask.user = u
    BY <1>1, <1>4, <1>10
  <2>2. QED
    BY <1>0, <1>7, <1>10, <2>1, ToldMoves DEF SearchSteps
<1>11. QED
  BY <1>3, <1>8, <1>9, <1>10

(* A listing that is complete, of what was asked.                          *)
LEMMA CompleteTold ==
  ASSUME SearchInv, ToldInv, req # Idle, req.ask.kind \in {"list", "recommend"},
         NEW listing, Complete(listing),
         Listed(listing, AskedPage, AskedPlaces, seen.since, seen.steady, reviews, seen.last)
  PROVE  ToldInv'
<1>1. CASE req.ask.kind = "list"
  <2>1. PICK answer : answer = [kind |-> "list", listing |-> listing]
    OBVIOUS
  <2>2. Answer(answer) /\ answer.kind = "list" /\ answer.listing = listing
    BY <1>1, <2>1 DEF Complete
  <2>3. AskedPage = req.ask.page /\ AskedPlaces = {req.ask.place}
    BY <1>1 DEF AskedPage, AskedPlaces
  <2>4. QED
    BY <2>2, <2>3, ToldAnswers
<1>2. CASE req.ask.kind # "list"
  <2>1. PICK answer : answer = [kind |-> "restaurant", aggregate |-> req.aggregate, listing |-> listing]
    OBVIOUS
  <2>2. /\ Answer(answer) /\ answer.kind = "restaurant" /\ answer.listing = listing
        /\ answer.aggregate = req.aggregate
    BY <1>2, <2>1 DEF Complete
  <2>3. AskedPage = FirstPage /\ AskedPlaces = PlacesOf(answer.aggregate)
    BY <1>2, <2>2 DEF AskedPage, AskedPlaces, FirstPage
  <2>4. QED
    BY <1>2, <2>2, <2>3, ToldAnswers
<1>3. QED
  BY <1>1, <1>2

(* What a read of the table lists.                                         *)
LEMMA ListIsRead ==
  ASSUME SearchInv, ToldInv, req # Idle, req.pc = "list",
         NEW order \in SetToSeqs(AtPlaces(Asked)), NEW l,
         l = Listing(AtPlaces(Asked), Slice(order, AskedPage))
  PROVE  Listed(l, AskedPage, AskedPlaces, seen.since, seen.steady, reviews, seen.last)
<1>0. TablesOK /\ SeenOK /\ req.ask \in Asks /\ req.ask.kind \in {"list", "recommend"}
  BY DEF SearchInv, AskOK, ToldInv, ToldOK
<1>1. PICK p, places : p = AskedPage /\ places = AskedPlaces
  OBVIOUS
<1>2. p.page \in Nat \ {0} /\ p.limit \in Nat \ {0} /\ AskedPage = p
  BY <1>0, <1>1, SearchAssumption DEF Asks, AskedPage
<1>3. PICK rows, shown : rows = AtPlaces(Asked) /\ shown = Slice(order, p)
  OBVIOUS
<1>4. ASSUME NEW place \in places PROVE rows = {v \in Live : place \in {0, v.place}}
  <2>1. \A v \in Live : v.place # 0
    BY <1>0, SearchNumbers DEF TablesOK, Rows, Live
  <2>2. CASE req.ask.kind = "list"
    <3>1. Asked = IF place = 0 THEN {} ELSE {place}
      BY <1>1, <1>4, <2>2 DEF Asked, AskedPlaces
    <3>2. QED
      BY <1>3, <2>1, <3>1 DEF AtPlaces, ByConditions
  <2>3. CASE req.ask.kind = "recommend"
    <3>1. Asked = {place} /\ place # 0
      <4>1. PICK its, f : its = req.aggregate.rows /\ f = req.ask.filter
        OBVIOUS
      <4>2. \A v, w \in its : WantedReview(v, f) /\ v.place = w.place
        BY <2>3, <4>1 DEF SearchInv, RecommendOK, Fits
      <4>3. places = {v.place : v \in its} /\ Asked = {v.place : v \in its}
        BY <1>1, <2>3, <4>1 DEF Asked, AskedPlaces, PlacesOf
      <4>4. QED
        BY <1>4, <4>2, <4>3, SearchNumbers DEF WantedReview
    <3>2. QED
      BY <1>3, <2>1, <3>1 DEF AtPlaces, ByConditions
  <2>4. QED
    BY <1>0, <2>2, <2>3
<1>5. Distinct(rows) /\ rows \subseteq Live /\ rows \subseteq reviews
  <2>1. rows \subseteq Live
    BY <1>3 DEF AtPlaces, ByConditions
  <2>2. QED
    BY <1>0, <2>1, FS_Subset DEF Distinct, TablesOK, Live
<1>6. l = Listing(rows, shown)
  BY <1>2, <1>3
<1>7. /\ l.read = rows /\ l.shown = shown /\ l.total = Cardinality(rows) /\ DOMAIN l = ListFields
      /\ l.pages = (Cardinality(rows) + p.limit - 1) \div p.limit
      /\ l.ratio = RevisitRatio(rows) /\ l.counts = << >>
  BY <1>2, <1>6 DEF Listing, ListFields
<1>8. ListSays(l, p)
  <2>1. /\ Len(shown) = PageLength(Cardinality(rows), p.page, p.limit)
        /\ ToSet(shown) \subseteq rows /\ Cardinality(ToSet(shown)) = Len(shown)
    BY <1>2, <1>3, <1>5, PageOf DEF Distinct
  <2>2. QED
    BY <1>5, <1>7, <2>1 DEF ListSays
<1>9. ASSUME NEW place \in places PROVE ListHas(l, place, seen.since, seen.steady)
  BY <1>0, <1>4, <1>5, <1>7 DEF ListHas, SeenOK
<1>10. ListCounts(l, reviews, seen.last)
  <2>1. Kept(rows, reviews)
    BY <1>5 DEF Kept, IdsIn
  <2>2. << >> \in Seq([of: Members, count: Nat]) /\ DOMAIN << >> = {}
    OBVIOUS
  <2>3. QED
    BY <1>7, <2>1, <2>2 DEF ListCounts
<1>11. QED
  BY <1>1, <1>8, <1>9, <1>10 DEF Listed

LEMMA ListTold == ASSUME SearchInv, ToldInv, ReadList PROVE ToldInv'
<1>0. req # Idle /\ req.pc = "list" /\ DOMAIN req = ReqFields
  BY DEF SearchInv, ReadList, At, AskOK
<1>1. PICK order, listing :
        /\ order \in SetToSeqs(AtPlaces(Asked))
        /\ listing = Listing(AtPlaces(Asked), Slice(order, AskedPage))
        /\ \/ Complete(listing)
           \/ /\ req' = [req EXCEPT !.pc = "summaries", !.read = listing, !.left = DOMAIN listing.shown]
              /\ UNCHANGED <<tables, seen>>
  BY DEF ReadList
<1>2. /\ Listed(listing, AskedPage, AskedPlaces, seen.since, seen.steady, reviews, seen.last)
      /\ req.ask.kind \in {"list", "recommend"}
  BY <1>0, <1>1, ListIsRead DEF ToldInv, ToldOK
<1>3. CASE Complete(listing)
  BY <1>0, <1>2, <1>3, CompleteTold
<1>4. CASE /\ req' = [req EXCEPT !.pc = "summaries", !.read = listing, !.left = DOMAIN listing.shown]
           /\ UNCHANGED <<tables, seen>>
  <2>1. /\ req'.pc = "summaries" /\ req'.ask = req.ask /\ req'.read = listing
        /\ req'.aggregate = req.aggregate /\ req'.left = DOMAIN listing.shown
    BY <1>0, <1>4 DEF ReqFields
  <2>2. QED
    BY <1>0, <1>2, <1>4, <2>1, ToldMoves DEF SearchSteps
<1>5. QED
  BY <1>1, <1>3, <1>4

(* One more count of a listing.                                            *)
LEMMA CountAppended ==
  ASSUME TablesOK, NEW u \in members, NEW last \in Nat, NEW l, Distinct(l.read), DOMAIN l = ListFields,
         ListCounts(l, reviews, last),
         NEW m, m = [l EXCEPT !.counts = Append(@, [of |-> u, count |-> UserReviewCount(u)])]
  PROVE  ListCounts(m, reviews, last)
<1>1. PICK R, count, one : R = reviews /\ count = UserReviewCount(u) /\ one = [of |-> u, count |-> count]
  OBVIOUS
<1>2. GoodRows(R) /\ count = Cardinality({v \in R : v.author = u}) /\ u \in Members
  BY <1>1 DEF TablesOK, GoodRows, UserReviewCount
<1>3. PICK read, counts : read = l.read /\ counts = l.counts
  OBVIOUS
<1>4. /\ Kept(read, R) /\ counts \in Seq([of: Members, count: Nat])
      /\ \A i \in DOMAIN counts :
           /\ CountOK(counts[i].count, R, last, counts[i].of)
           /\ counts[i].count >= Cardinality({v \in read : v.author = counts[i].of})
  BY <1>1, <1>3 DEF ListCounts
<1>5. /\ CountOK(count, R, last, u) /\ count \in Nat
      /\ count >= Cardinality({v \in read : v.author = u})
  BY <1>2, <1>3, <1>4, CountRead DEF Distinct
<1>6. m.read = read /\ m.counts = Append(counts, one)
  BY <1>1, <1>3 DEF ListFields
<1>7. one \in [of: Members, count: Nat] /\ one.of = u /\ one.count = count
  BY <1>1, <1>2, <1>5
<1>8. PICK all : all = Append(counts, one)
  OBVIOUS
<1>9. /\ all \in Seq([of: Members, count: Nat])
      /\ \A i \in DOMAIN all : (i \in DOMAIN counts /\ all[i] = counts[i]) \/ all[i] = one
  BY <1>4, <1>7, <1>8
<1>10. \A i \in DOMAIN all :
         /\ CountOK(all[i].count, R, last, all[i].of)
         /\ all[i].count >= Cardinality({v \in read : v.author = all[i].of})
  <2> TAKE i \in DOMAIN all
  <2>1. CASE i \in DOMAIN counts /\ all[i] = counts[i]
    BY <1>4, <2>1
  <2>2. CASE all[i] = one
    BY <1>5, <1>7, <2>2
  <2>3. QED
    BY <1>9, <2>1, <2>2
<1>11. ListCounts(m, R, last)
  <2>1. m.read = read /\ m.counts = all
    BY <1>6, <1>8
  <2>2. QED
    BY <1>4, <1>9, <1>10, <2>1, Zenon DEF ListCounts
<1>12. QED
  BY <1>1, <1>11

LEMMA SummaryTold == ASSUME SearchInv, ToldInv, Summarize PROVE ToldInv'
<1>0. /\ TablesOK /\ req # Idle /\ req.pc = "summaries" /\ DOMAIN req = ReqFields
      /\ req.ask.kind \in {"list", "recommend"} /\ req.left \subseteq DOMAIN req.read.shown
      /\ Listed(req.read, AskedPage, AskedPlaces, seen.since, seen.steady, reviews, seen.last)
      /\ seen.last \in Nat
  BY DEF SearchInv, Summarize, At, AskOK, ToldInv, ToldOK
<1>1. PICK i, u, listing :
        /\ i \in req.left
        /\ u = req.read.shown[i].author
        /\ listing = [req.read EXCEPT !.counts = Append(@, [of |-> u, count |-> UserReviewCount(u)])]
        /\ \/ Refuse /\ u \notin members
           \/ u \in members /\ Complete(listing)
           \/ u \in members /\ req' = [req EXCEPT !.left = @ \ {i}, !.read = listing] /\ UNCHANGED <<tables, seen>>
  BY DEF Summarize
<1>2. ASSUME u \in members
      PROVE  /\ Listed(listing, AskedPage, AskedPlaces, seen.since, seen.steady, reviews, seen.last)
             /\ listing.shown = req.read.shown
  <2>1. PICK l, p, places : l = req.read /\ p = AskedPage /\ places = AskedPlaces
    OBVIOUS
  <2>2. /\ ListSays(l, p) /\ ListCounts(l, reviews, seen.last)
        /\ \A place \in places : ListHas(l, place, seen.since, seen.steady)
    BY <1>0, <2>1 DEF Listed
  <2>3. DOMAIN l = ListFields /\ Distinct(l.read)
    BY <2>2 DEF ListSays
  <2>4. /\ listing.read = l.read /\ listing.shown = l.shown /\ listing.total = l.total
        /\ listing.pages = l.pages /\ listing.ratio = l.ratio /\ DOMAIN listing = ListFields
    BY <1>1, <2>1, <2>3 DEF ListFields
  <2>5. ListSays(listing, p) /\ \A place \in places : ListHas(listing, place, seen.since, seen.steady)
    BY <2>2, <2>4 DEF ListSays, ListHas
  <2>6. ListCounts(listing, reviews, seen.last)
    BY <1>0, <1>1, <1>2, <2>1, <2>2, <2>3, CountAppended
  <2>7. QED
    BY <2>1, <2>4, <2>5, <2>6 DEF Listed
<1>3. CASE Refuse /\ u \notin members
  <2>1. PICK v : v = req.read.shown[i]
    OBVIOUS
  <2>2. v \in req.read.read /\ v.author = u
    <3>1. v \in ToSet(req.read.shown)
      BY <1>0, <1>1, <2>1 DEF ToSet
    <3>2. QED
      BY <1>0, <1>1, <2>1, <3>1 DEF Listed, ListSays
  <2>3. \A place \in AskedPlaces : v \in seen.since /\ place \in {0, v.place}
    BY <1>0, <2>2 DEF Listed, ListHas
  <2>4. ASSUME req.ask.kind = "list" PROVE RefusalDue
    BY <1>3, <2>2, <2>3, <2>4 DEF RefusalDue, AskedPlaces
  <2>5. ASSUME req.ask.kind = "recommend" PROVE RefusalDue
    <3>1. PICK its, f : its = req.aggregate.rows /\ f = req.ask.filter
      OBVIOUS
    <3>2. its # {} /\ \A w \in its : WantedReview(w, f)
      BY <1>0, <2>5, <3>1 DEF SearchInv, RecommendOK, Fits
    <3>3. PICK w \in its : w.place \in Near /\ w.place # 0
      BY <3>2, SearchNumbers DEF WantedReview
    <3>4. w.place \in AskedPlaces
      BY <2>5, <3>1 DEF AskedPlaces, PlacesOf
    <3>5. v \in seen.since /\ v.place \in Near
      BY <2>3, <3>3, <3>4
    <3>6. QED
      BY <1>3, <2>2, <2>5, <3>5 DEF RefusalDue
  <2>6. QED
    BY <1>0, <1>3, <2>4, <2>5, RefusedTold
<1>4. CASE u \in members /\ Complete(listing)
  BY <1>0, <1>2, <1>4, CompleteTold
<1>5. CASE u \in members /\ req' = [req EXCEPT !.left = @ \ {i}, !.read = listing] /\ UNCHANGED <<tables, seen>>
  <2>1. /\ req'.pc = "summaries" /\ req'.ask = req.ask /\ req'.read = listing
        /\ req'.aggregate = req.aggregate /\ req'.left = req.left \ {i}
    BY <1>0, <1>5 DEF ReqFields
  <2>2. QED
    BY <1>0, <1>2, <1>5, <2>1, ToldMoves DEF SearchSteps
<1>6. QED
  BY <1>1, <1>3, <1>4, <1>5

LEMMA ToldNext == SearchInv /\ ToldInv /\ SearchInv' /\ [Next]_vars => ToldInv'
<1> SUFFICES ASSUME SearchInv, ToldInv, SearchInv', [Next]_vars PROVE ToldInv'
  OBVIOUS
<1>1. CASE UNCHANGED vars
  <2>1. UNCHANGED <<reviews, members, open, changes, req, seen>>
    BY <1>1 DEF vars, tables
  <2>2. AskedPage' = AskedPage /\ AskedPlaces' = AskedPlaces
    BY <2>1 DEF AskedPage, AskedPlaces, PlacesOf
  <2>3. ToldOK'
    BY <2>1, <2>2 DEF ToldInv, ToldOK
  <2>4. ListingsAreTrue'
    BY <2>1 DEF ToldInv, AnswersTold, ListingsAreTrue, Answered, At, TrueOf, CountIs, UserReviewCount
  <2>5. ListingTold' /\ RestaurantTold'
    BY <2>1 DEF ToldInv, AnswersTold, ListingTold, RestaurantTold, Answered, At, FirstPage, PlacesOf
  <2>6. RefusedForWithdrawal'
    BY <2>1 DEF ToldInv, AnswersTold, RefusedForWithdrawal, RefusalDue, Answered, At
  <2>7. QED
    BY <2>3, <2>4, <2>5, <2>6 DEF ToldInv, AnswersTold
<1>2. CASE Next
  <2>1. CASE Work
    BY <2>1, NearTold, MatchTold, AreaTold, GroupTold, ListTold, SummaryTold, ReviewerTold, RecentTold DEF Work
  <2>2. CASE (\E ask \in Asks : Receive(ask)) \/ Return \/ Abort
    BY <2>2, ToldReceives, ToldEnds
  <2>3. QED
    BY <1>2, <2>1, <2>2, OthersNextTell DEF Next
<1>3. QED
  BY <1>1, <1>2

-----------------------------------------------------------------------------
(* The three together (Recommendations)                                    *)

LEMMA FoodsTypes == FoodsInv => F!TypeOK
<1> SUFFICES ASSUME FoodsInv PROVE F!TypeOK
  OBVIOUS
<1>1. FoodsTyped
  BY DEF FoodsInv
<1>2. \A r \in Requests : freq[r] \in FoodFrames
  BY <1>1 DEF FoodsTyped
<1>3. DOMAIN freq = Requests
  BY <1>1 DEF FoodsTyped
<1>4. \A r \in Requests : freq[r].at \in F!Times /\ freq[r].list \in F!Lists /\ freq[r].alone \in BOOLEAN
  BY <1>2 DEF FoodFrames
<1>5. QED
  BY <1>1, <1>3, <1>4 DEF FoodsTyped, F!TypeOK, FoodSteps, F!Lists

LEMMA CountersTypes == CountersInv => M!TypeOK
<1> SUFFICES ASSUME CountersInv PROVE M!TypeOK
  OBVIOUS
<1>1. CountersTyped /\ CountersOK
  BY DEF CountersInv
<1>2. daily \in [M!TypeSet -> [M!Days -> 0..MaxTotal]]
  <2>1. ASSUME NEW t \in M!TypeSet PROVE daily[t] \in [M!Days -> 0..MaxTotal]
    <3>1. daily[t] \in [M!Days -> Nat] /\ total[t] \in 0..MaxTotal
      BY <1>1 DEF CountersTyped
    <3>2. \A d \in M!Days : daily[t][d] <= total[t]
      BY <1>1 DEF CountersOK
    <3>3. \A d \in M!Days : daily[t][d] \in 0..MaxTotal
      BY <3>1, <3>2, MetricsNumbers
    <3>4. QED
      BY <3>1, <3>3
  <2>2. QED
    BY <1>1, <2>1 DEF CountersTyped
<1>3. ASSUME NEW r \in Requests, mreq[r] # M!Idle
      PROVE  /\ mreq[r].pc \in {"exec", "mget"} /\ mreq[r].type \in M!TypeSet
             /\ mreq[r].day \in 0..MaxTicks /\ mreq[r].days \in 0..RetentionDays
  BY <1>1, <1>3 DEF CountersTyped, CounterFrames
<1>4. \A t \in M!TypeSet, d \in M!Days : daily[t][d] > 0 <=> dies[t][d] > mnow
  BY <1>1 DEF CountersOK
<1>5. QED
  BY <1>1, <1>2, <1>3, <1>4 DEF CountersTyped, M!TypeOK

(* A behaviour is one of its parts and leaves the others alone, so that    *)
(* each part keeps its own invariant.                                      *)
LEMMA EachPart == RecommendationsSpec => []SearchInv /\ []FoodsInv /\ []CountersInv
<1>1. RecommendationsInit => SearchInv /\ FoodsInv /\ CountersInv
  BY SearchInit, FoodsInit, CountersInit DEF RecommendationsInit
<1>2. ASSUME [RecommendationsNext]_<<part, vars, fvars, mvars>>
      PROVE  [Next]_vars /\ [F!Next]_F!vars /\ [M!Next]_M!vars
  <2>1. [Next]_vars
    BY <1>2 DEF RecommendationsNext
  <2>2. [F!Next]_F!vars
    BY <1>2 DEF RecommendationsNext, fvars, F!vars
  <2>3. [M!Next]_M!vars
    BY <1>2 DEF RecommendationsNext, mvars, M!vars
  <2>4. QED
    BY <2>1, <2>2, <2>3
<1>3. SearchInv /\ FoodsInv /\ CountersInv /\ [RecommendationsNext]_<<part, vars, fvars, mvars>>
        => (SearchInv /\ FoodsInv /\ CountersInv)'
  BY <1>2, SearchNext, FoodsNext, CountersNext
<1>4. QED
  BY <1>1, <1>3, PTL DEF RecommendationsSpec

LEMMA WhatIsTold == RecommendationsSpec => []ToldInv
<1>1. RecommendationsInit => ToldInv
  BY ToldInit DEF RecommendationsInit
<1>2. ToldInv /\ SearchInv /\ SearchInv' /\ [RecommendationsNext]_<<part, vars, fvars, mvars>> => ToldInv'
  <2> SUFFICES ASSUME ToldInv, SearchInv, SearchInv', [RecommendationsNext]_<<part, vars, fvars, mvars>>
               PROVE  ToldInv'
    OBVIOUS
  <2>1. [Next]_vars
    BY DEF RecommendationsNext
  <2>2. QED
    BY <2>1, ToldNext
<1>3. QED
  BY <1>1, <1>2, EachPart, PTL DEF RecommendationsSpec

(* For any foods, restaurants and numbers of requests, days and ticks: the *)
(* search, the list of foods and the counters keep the types of their      *)
(* state, and a counter of a day is there exactly until its time is over.  *)
THEOREM TypesOKHolds == RecommendationsSpec => []TypesOK
<1>1. SearchInv /\ FoodsInv /\ CountersInv => TypesOK
  BY SearchImplies, FoodsTypes, CountersTypes DEF TypesOK
<1>2. QED
  BY <1>1, EachPart, PTL

(* For any tables, filters and interleaved writes of others: what          *)
(* recommend answers fits the filter, is not older than the request, and   *)
(* is empty only if nothing that was there all the time fits               *)
(* (RestaurantService.getRecommendedRestaurant).                           *)
THEOREM RecommendationFitsHolds == RecommendationsSpec => []RecommendationFits
<1>1. SearchInv => RecommendationFits
  BY SearchImplies
<1>2. QED
  BY <1>1, EachPart, PTL

(* For any tables, pages, limits and interleaved writes of others: the     *)
(* pages of a listing have their length and its numbers are those of the   *)
(* rows that were read, nobody is shown with fewer reviews than are listed *)
(* of him, and the places nearby, the reviews and counts of a member and   *)
(* the newest reviews were true during the request (RestaurantService).    *)
THEOREM ListingsAreTrueHolds == RecommendationsSpec => []ListingsAreTrue
<1>1. ToldInv => ListingsAreTrue
  BY DEF ToldInv, AnswersTold
<1>2. QED
  BY <1>1, WhatIsTold, PTL

(* The first page of a listing is all of it, or as much as fits.           *)
LEMMA FirstPageLength ==
  ASSUME NEW n \in Nat
  PROVE  PageLength(n, 1, ListLimit) = IF n < ListLimit THEN n ELSE ListLimit
<1>1. PICK last : last = IF ListLimit < n THEN ListLimit ELSE n
  OBVIOUS
<1>2. ListLimit \in Nat \ {0} /\ IsPage(1, last, n, 1, ListLimit)
  BY <1>1, SearchAssumption DEF IsPage
<1>3. /\ 1 <= last => last - 1 + 1 = PageLength(n, 1, ListLimit)
      /\ 1 > last => PageLength(n, 1, ListLimit) = 0
  BY <1>2, PageBounds
<1>4. QED
  BY <1>1, <1>2, <1>3

(* With a recommended restaurant comes a listing of it and of no other,    *)
(* with every review that was there all the time, as many of them shown as *)
(* the limit allows, and true counts of their authors.                     *)
OwnReviews ==
  Answered("restaurant") =>
    LET l == req.answer.listing
        its == PlacesOf(req.answer.aggregate)
    IN /\ \E x \in Near : its = {x}
       /\ l.read \subseteq {v \in seen.since : v.place \in its}
       /\ {v \in seen.steady : v.place \in its} \subseteq l.read
       /\ l.total = Cardinality(l.read) /\ ToSet(l.shown) \subseteq l.read
       /\ Cardinality(ToSet(l.shown)) = IF l.total < ListLimit THEN l.total ELSE ListLimit
       /\ \A i \in DOMAIN l.counts :
            /\ CountIs(l.counts[i].count, l.counts[i].of)
            /\ l.counts[i].count >= Cardinality({v \in l.read : v.author = l.counts[i].of})

LEMMA OwnReviewsTold == SearchInv /\ ToldInv => OwnReviews
<1> SUFFICES ASSUME SearchInv, ToldInv, Answered("restaurant") PROVE OwnReviews
  BY DEF OwnReviews
<1>1. PICK l, rows, its, f :
        /\ l = req.answer.listing /\ rows = req.answer.aggregate.rows
        /\ its = PlacesOf(req.answer.aggregate) /\ f = req.ask.filter
  OBVIOUS
<1>2. /\ req # Idle /\ req.pc = "answered" /\ req.answer.kind = "restaurant" /\ req.ask.kind = "recommend"
      /\ ListSays(l, FirstPage) /\ ListCounts(l, reviews, seen.last)
      /\ \A place \in its : ListHas(l, place, seen.since, seen.steady)
  BY <1>1 DEF ToldInv, AnswersTold, RestaurantTold, Listed, Answered, At
<1>3. PICK last \in Nat : last = seen.last
  BY <1>2 DEF ToldInv, ToldOK
<1>4. Fits(rows, f)
  BY <1>1, <1>2 DEF SearchInv, RecommendOK, AnswerFits
<1>5. PICK x \in Near : its = {x}
  <2>1. its = {v.place : v \in rows}
    BY <1>1 DEF PlacesOf
  <2>2. QED
    BY <1>4, <2>1 DEF Fits, WantedReview
<1>6. /\ l.read \subseteq {v \in seen.since : v.place \in its}
      /\ {v \in seen.steady : v.place \in its} \subseteq l.read
  BY <1>2, <1>5, SearchNumbers DEF ListHas
<1>7. /\ l.total = Cardinality(l.read) /\ ToSet(l.shown) \subseteq l.read
      /\ Cardinality(ToSet(l.shown)) = IF l.total < ListLimit THEN l.total ELSE ListLimit
  <2>1. /\ IsFiniteSet(l.read) /\ l.total = Cardinality(l.read) /\ ToSet(l.shown) \subseteq l.read
        /\ Cardinality(ToSet(l.shown)) = PageLength(l.total, 1, ListLimit)
    BY <1>2 DEF ListSays, Distinct, FirstPage
  <2>2. l.total \in Nat
    BY <2>1, FS_CardinalityType
  <2>3. QED
    BY <2>1, <2>2, FirstPageLength
<1>8. ASSUME NEW i \in DOMAIN l.counts
      PROVE  /\ CountIs(l.counts[i].count, l.counts[i].of)
             /\ l.counts[i].count >= Cardinality({v \in l.read : v.author = l.counts[i].of})
  <2>1. PICK count, u : count = l.counts[i].count /\ u = l.counts[i].of
    OBVIOUS
  <2>2. CountOK(count, reviews, last, u) /\ count >= Cardinality({v \in l.read : v.author = u})
    BY <1>2, <1>3, <2>1 DEF ListCounts
  <2>3. CountIs(count, u)
    BY <1>3, <2>2, CountsAre DEF SearchInv
  <2>4. QED
    BY <2>1, <2>2, <2>3
<1>9. QED
  BY <1>1, <1>5, <1>6, <1>7, <1>8 DEF OwnReviews

(* For any tables, limits and interleaved writes of others: the listing    *)
(* that comes with a recommended restaurant is a true one of this          *)
(* restaurant (RestaurantService.getRecommendations).                      *)
THEOREM OwnReviewsHolds == RecommendationsSpec => []OwnReviews
BY OwnReviewsTold, EachPart, WhatIsTold, PTL

(* The reviews shown with a recommended restaurant are its latest as long  *)
(* as all of them fit the page: the order the rows come in, which nothing  *)
(* promises, is the only thing that can make it otherwise                  *)
(* (RestaurantRepository.findReviewsByConditions).                         *)
THEOREM LatestIfAllFit ==
  RecommendationsSpec =>
    [](Answered("restaurant") /\ req.answer.listing.total <= ListLimit => LatestFirst)
<1>1. ASSUME SearchInv, ToldInv, Answered("restaurant"), req.answer.listing.total <= ListLimit
      PROVE  LatestFirst
  <2>1. PICK l : l = req.answer.listing
    OBVIOUS
  <2>2. /\ l.total = Cardinality(l.read) /\ ToSet(l.shown) \subseteq l.read
        /\ Cardinality(ToSet(l.shown)) = IF l.total < ListLimit THEN l.total ELSE ListLimit
    BY <1>1, <2>1, OwnReviewsTold DEF OwnReviews
  <2>3. IsFiniteSet(l.read)
    BY <1>1, <2>1 DEF ToldInv, AnswersTold, RestaurantTold, Listed, ListSays, Distinct
  <2>4. Cardinality(ToSet(l.shown)) = Cardinality(l.read)
    BY <1>1, <2>1, <2>2, <2>3, FS_CardinalityType, SearchAssumption
  <2>5. ToSet(l.shown) = l.read
    BY <2>2, <2>3, <2>4, FS_Subset
  <2>6. QED
    BY <2>1, <2>5 DEF LatestFirst
<1>2. QED
  BY <1>1, EachPart, WhatIsTold, PTL

(* The revisit ratio of a listing is no number exactly when none of the    *)
(* reviews that were listed has an opinion (calcRevisitRatio).             *)
THEOREM NoRatioWithoutOpinions ==
  RecommendationsSpec =>
    [](Answered("list") =>
         (req.answer.listing.ratio = NaN <=> Opinions(req.answer.listing.read) = {}))
<1>1. ASSUME ToldInv, Answered("list")
      PROVE  req.answer.listing.ratio = NaN <=> Opinions(req.answer.listing.read) = {}
  <2>1. PICK rows, ratio : rows = req.answer.listing.read /\ ratio = req.answer.listing.ratio
    OBVIOUS
  <2>2. IsFiniteSet(rows) /\ ratio = RevisitRatio(rows)
    BY <1>1, <2>1 DEF ToldInv, AnswersTold, ListingTold, Listed, ListSays, Distinct
  <2>3. PICK yes, all : yes = Cardinality(Yes(rows)) /\ all = Cardinality(Opinions(rows))
    OBVIOUS
  <2>4. IsFiniteSet(Yes(rows)) /\ IsFiniteSet(Opinions(rows))
    BY <2>2, FS_Subset DEF Yes, Opinions
  <2>5. yes \in Nat /\ all \in Nat /\ (all = 0 <=> Opinions(rows) = {})
    BY <2>3, <2>4, FS_CardinalityType, FS_EmptySet
  <2>6. ratio = IF all = 0 THEN NaN ELSE (2000 * yes + all) \div (2 * all)
    BY <2>2, <2>3 DEF RevisitRatio, CalcRevisitRatio
  <2>7. ASSUME all # 0 PROVE (2000 * yes + all) \div (2 * all) \in Nat
    BY <2>5, <2>7, Rounded
  <2>8. QED
    BY <2>1, <2>5, <2>6, <2>7 DEF NaN
<1>2. QED
  BY <1>1, WhatIsTold, PTL

(* A request is refused only because of a withdrawal (or, nearby, for want *)
(* of an area): a listing because the author of a review that was there to *)
(* be listed has no account any more, a recommendation because the author  *)
(* of one nearby has none, the reviews of a member because he has none     *)
(* himself; the newest reviews are never refused                           *)
(* (RestaurantService.getReviewerSummary).                                 *)
THEOREM RefusedOnlyForWithdrawal == RecommendationsSpec => []RefusedForWithdrawal
<1>1. ToldInv => RefusedForWithdrawal
  BY DEF ToldInv, AnswersTold
<1>2. QED
  BY <1>1, WhatIsTold, PTL

(* For any foods and interleaved requests: the list of foods that is left  *)
(* without a lifetime is being given one (FoodRepository).                 *)
THEOREM ListExpiresHolds == RecommendationsSpec => []ListExpires
<1>1. FoodsInv => ListExpires
  BY DEF FoodsInv, ListExpires
<1>2. QED
  BY <1>1, EachPart, PTL

(* For any foods, size of the list and interleaved requests: a food whose  *)
(* record no request raced for is among the recent ones until enough       *)
(* others follow it.                                                       *)
THEOREM LastAreRecentHolds == RecommendationsSpec => []LastAreRecent
<1>1. FoodsInv => LastAreRecent
  BY RecentAreShown DEF LastAreRecent
<1>2. QED
  BY <1>1, EachPart, PTL

(* For any types, retention and interleaved increments: a query that       *)
(* midnight does not interrupt is answered every increment of each of its  *)
(* days, each one once, under its own type                                 *)
(* (MetricsService.getRecommendationMetrics).                              *)
THEOREM AnswersAreTrueHolds == RecommendationsSpec => []AnswersAreTrue
<1>1. CountersInv => AnswersAreTrue
  BY AnswersTrue DEF AnswersAreTrue
<1>2. QED
  BY <1>1, EachPart, PTL
=============================================================================
