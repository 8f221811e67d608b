--------------------------- MODULE RbClientProofs ---------------------------
(***************************************************************************)
(* What the callers of the red-black tree rely on, for every finite set of *)
(* nodes and all keys.  First the search and the traversal: rbwrap_search, *)
(* rb_first, rb_last, rb_next and rb_prev return what the sorted set       *)
(* promises.  Then the augmentation: AugInv, the invariant that is         *)
(* inductive together with RbInv, says which values may be wrong between   *)
(* two passes of a loop; they lie on one path to the root, and the climb   *)
(* that follows the call passes there.                                     *)
(***************************************************************************)
EXTENDS RbAugment, RbTreeProofs

-----------------------------------------------------------------------------
(* The search and the traversal *)

\* It has the least key, or the greatest one.
LEMMA NearestKeys ==
  ASSUME NEW A, A \subseteq Nodes, NEW x
  PROVE  /\ Nearest(A, "right", x) => Set!Least(KeysOf(A)) = IF x = Null THEN 0 ELSE Key[x]
         /\ Nearest(A, "left", x) => Set!Greatest(KeysOf(A)) = IF x = Null THEN 0 ELSE Key[x]
<1>1. CASE A = {} /\ x = Null
  <2>1. KeysOf(A) = {}
    BY <1>1 DEF KeysOf
  <2> QED BY <1>1, <2>1 DEF Set!Least, Set!Greatest, Set!None
<1>2. CASE x \in A
  <2>1. x # Null /\ Key[x] \in KeysOf(A) /\ KeysOf(A) \subseteq Int
    BY <1>2, KeyFacts DEF KeysOf
  <2>2. ASSUME Nearest(A, "right", x)
        PROVE  \A l \in KeysOf(A) : Key[x] <= l
    BY <1>2, <2>2, KeyFacts DEF Nearest, KeysOf, Beyond
  <2>3. ASSUME Nearest(A, "left", x)
        PROVE  \A l \in KeysOf(A) : Key[x] >= l
    BY <1>2, <2>3, KeyFacts DEF Nearest, KeysOf, Beyond
  <2>4. Nearest(A, "right", x) => Set!Least(KeysOf(A)) = Key[x]
    BY <2>1, <2>2 DEF Set!Least
  <2>5. Nearest(A, "left", x) => Set!Greatest(KeysOf(A)) = Key[x]
    BY <2>1, <2>3 DEF Set!Greatest
  <2> QED BY <2>1, <2>4, <2>5
<1> QED BY <1>1, <1>2 DEF Nearest

\* No two nodes below one node have the same key.
LEMMA KeysBelow ==
  ASSUME NEW t, NEW b, Grown(t, b), NEW n \in OrNull, NEW x \in b[n], NEW y \in b[n], Key[x] = Key[y]
  PROVE  x = y
<1>1. b[Null] = {} /\ (\A m, k \in Placed(t) : Key[m] = Key[k] => m = k)
  BY DEF Grown, Spanned
<1>2. n \in Nodes
  BY <1>1 DEF OrNull
<1>3. n \in Placed(t) => b[n] \subseteq Placed(t)
  BY <1>2, GrownMembers
<1>4. n \notin Placed(t) => b[n] = {n}
  BY <1>2, GrownMembers
<1> QED BY <1>1, <1>3, <1>4

\* The search ends at the node with the key, where there is one below.
LEMMA SearchIs ==
  ASSUME NEW t, NEW b, Grown(t, b), NEW k \in Int
  PROVE  /\ \A x \in b[t.root] : Key[x] = k => rbwrap_search(t, k) = x
         /\ (\A x \in b[t.root] : Key[x] # k) => rbwrap_search(t, k) = Null
<1> DEFINE stop == {n \in OrNull : n = Null \/ Key[n] = k}
           d == [n \in Nodes |-> IF k < Key[n] THEN "left" ELSE "right"]
           hits(n) == {x \in b[n] : Key[x] = k}
           one(S) == IF S = {} THEN Null ELSE CHOOSE x \in S : TRUE
           g == [n \in OrNull |-> one(hits(n))]
           F(f) == f = [n \in OrNull |-> IF n = Null \/ Key[n] = k THEN n
                          ELSE f[t.kid[n][IF k < Key[n] THEN "left" ELSE "right"]]]
<1>1. /\ Null \notin Nodes /\ b[Null] = {} /\ t.root \in OrNull
      /\ \A n \in Nodes : Key[n] \in Int
      /\ \A n \in Nodes, s \in Side : t.kid[n][s] \in OrNull
  BY KeyFacts DEF Grown, Spanned, Trees
<1>2. \A n \in Nodes : d[n] \in Side /\ d[n] = IF k < Key[n] THEN "left" ELSE "right"
  BY DEF Side
<1>3. ASSUME NEW n \in Nodes, Key[n] = k
      PROVE  hits(n) = {n}
  <2>1. n \in b[n]
    BY GrownSides, SideFacts
  <2>2. \A x \in hits(n) : x = n
    BY <1>3, <2>1, KeysBelow DEF OrNull
  <2> QED BY <1>3, <2>1, <2>2
<1>4. ASSUME NEW n \in Nodes, Key[n] # k
      PROVE  hits(n) = hits(t.kid[n][d[n]])
  <2> DEFINE s == d[n]
  <2>1. s \in Side /\ Opp(s) \in Side /\ Beyond(s, k, Key[n])
    BY <1>1, <1>2, <1>4, SideFacts DEF Beyond
  <2>2. b[n] = {n} \cup b[t.kid[n][s]] \cup b[t.kid[n][Opp(s)]] /\ b[n] \subseteq Nodes
    BY <2>1, GrownSides
  <2>3. \A x \in b[t.kid[n][Opp(s)]] : Beyond(Opp(s), Key[x], Key[n])
    BY <2>1 DEF Grown, Spanned
  <2>4. \A x \in b[t.kid[n][Opp(s)]] : Key[x] # k
    <3> SUFFICES ASSUME NEW x \in b[t.kid[n][Opp(s)]], Key[x] = k PROVE FALSE
      OBVIOUS
    <3>1. Beyond(Opp(s), k, Key[n]) /\ Key[n] \in Int
      BY <1>1, <2>3
    <3> QED BY <2>1, <3>1, BeyondFacts
  <2> QED BY <1>4, <2>2, <2>4
<1>5. Follows(t, OrNull, stop, d, g)
  <2>1. ASSUME NEW n \in OrNull
        PROVE  g[n] = IF n \in stop THEN n ELSE g[t.kid[n][d[n]]]
    <3>1. CASE n = Null
      <4>1. hits(n) = {}
        BY <1>1, <3>1
      <4> QED BY <3>1, <4>1
    <3>2. CASE n \in Nodes /\ Key[n] = k
      <4>1. hits(n) = {n}
        BY <1>3, <3>2
      <4> QED BY <3>2, <4>1
    <3>3. CASE n \in Nodes /\ Key[n] # k
      <4>1. n \notin stop /\ t.kid[n][d[n]] \in OrNull
        <5> HIDE DEF hits, one, g
        <5> QED BY ZenonT(60), <1>1, <1>2, <3>3
      <4>2. hits(n) = hits(t.kid[n][d[n]])
        BY <1>4, <3>3
      <4>3. g[n] = g[t.kid[n][d[n]]]
        <5>1. g[n] = one(hits(n)) /\ g[t.kid[n][d[n]]] = one(hits(t.kid[n][d[n]]))
          <6> HIDE DEF d, one, hits
          <6> QED BY <4>1
        <5> HIDE DEF d, stop, g, one, hits
        <5> QED BY <4>2, <5>1
      <4> QED BY <4>1, <4>3
    <3> QED BY <3>1, <3>2, <3>3 DEF OrNull
  <2>2. g = [n \in OrNull |-> g[n]]
    OBVIOUS
  <2> HIDE DEF g, stop, d
  <2> QED BY <2>1, <2>2 DEF Follows
<1>6. \A f : F(f) <=> Follows(t, OrNull, stop, d, f)
  <2> SUFFICES ASSUME NEW f
      PROVE  [n \in OrNull |-> IF n = Null \/ Key[n] = k THEN n
                          ELSE f[t.kid[n][IF k < Key[n] THEN "left" ELSE "right"]]]
             = [n \in OrNull |-> IF n \in stop THEN n ELSE f[t.kid[n][d[n]]]]
    BY DEF Follows
  <2> QED BY <1>1, <1>2 DEF OrNull
<1>7. \A f : F(f) => f = g
  <2>1. \A n \in OrNull \ stop : n \in Nodes /\ d[n] \in Side /\ t.kid[n][d[n]] \in OrNull
    BY <1>1, <1>2 DEF OrNull
  <2> HIDE DEF g, stop, d, F
  <2> QED BY <1>5, <1>6, <2>1, FollowsOnce
<1>8. rbwrap_search(t, k) = g[t.root]
  <2>1. rbwrap_search(t, k) = (CHOOSE f : F(f))[t.root]
    BY DEF rbwrap_search
  <2>2. F(g)
    <3> HIDE DEF g, stop, d, F
    <3> QED BY <1>5, <1>6
  <2> HIDE DEF g, F
  <2>3. (CHOOSE f : F(f)) = g
    BY <1>7, <2>2
  <2> QED BY <2>1, <2>3
<1>9. g[t.root] = one(hits(t.root))
  BY <1>1
<1>10. ASSUME NEW x \in b[t.root], Key[x] = k
       PROVE  hits(t.root) = {x}
  BY <1>1, <1>10, KeysBelow
<1>11. ASSUME \A x \in b[t.root] : Key[x] # k
       PROVE  hits(t.root) = {}
  BY <1>11
<1>12. \A x \in b[t.root] : Key[x] = k => rbwrap_search(t, k) = x
  <2> SUFFICES ASSUME NEW x \in b[t.root], Key[x] = k PROVE rbwrap_search(t, k) = x
    OBVIOUS
  <2>1. hits(t.root) = {x}
    BY <1>10
  <2> HIDE DEF g, hits
  <2> QED BY <1>8, <1>9, <2>1
<1>13. (\A x \in b[t.root] : Key[x] # k) => rbwrap_search(t, k) = Null
  <2> HIDE DEF g, hits
  <2> QED BY <1>8, <1>9, <1>11
<1> QED BY <1>12, <1>13

\* The invariant implies QueriesRight, of a tree between two calls.
LEMMA RbQueries ==
  ASSUME RbInv
  PROVE  QueriesRight
<1> DEFINE S == {Key[n] : n \in Members}
           P == Placed(tree)
<1>1. PICK b : Grown(tree, b)
  BY HeldGrown
<1>2. /\ Members = P /\ S = KeysOf(P) /\ P \subseteq Nodes /\ b[tree.root] = P
      /\ \A n \in P : Key[n] \in Int /\ Key[n] # 0
      /\ \A m, n \in P : Key[m] = Key[n] => m = n
      /\ tree.root \in OrNull /\ "left" \in Side /\ "right" \in Side
      /\ Opp("left") = "right" /\ Opp("right") = "left"
  BY <1>1, RbTreeAssumption, MembersPlaced DEF Placed, KeysOf, Grown, Spanned, Trees, Side, Opp
<1>3. /\ WithKey(0) = Null
      /\ \A n \in P : WithKey(Key[n]) = n
  <2>1. WithKey(0) = Null
    BY DEF WithKey, Set!None
  <2>2. ASSUME NEW n \in P
        PROVE  WithKey(Key[n]) = n
    <3>1. Key[n] # Set!None
      BY <1>2 DEF Set!None
    <3>2. WithKey(Key[n]) = CHOOSE m \in P : Key[m] = Key[n]
      BY <1>2, <3>1 DEF WithKey
    <3> HIDE DEF P
    <3>3. \A m \in P : Key[m] = Key[n] <=> m = n
      BY <1>2
    <3> QED BY <3>2, <3>3
  <2> QED BY <2>1, <2>2
<1>4. ASSUME NEW A, A \subseteq P, NEW x
      PROVE  /\ Nearest(A, "right", x) => x = WithKey(Set!Least(KeysOf(A)))
             /\ Nearest(A, "left", x) => x = WithKey(Set!Greatest(KeysOf(A)))
  <2>1. A \subseteq Nodes /\ Null \notin Nodes
    BY <1>2, <1>4, KeyFacts
  <2>2. (\E s : Nearest(A, s, x)) => x = Null \/ x \in P
    BY <1>4 DEF Nearest
  <2>3. x = Null \/ x \in P => WithKey(IF x = Null THEN 0 ELSE Key[x]) = x
    <3>1. x = Null => WithKey(0) = x
      BY <1>3
    <3>2. x \in P => x # Null /\ WithKey(Key[x]) = x
      BY <1>2, <1>3, <2>1
    <3> QED BY <3>1, <3>2
  <2> HIDE DEF P
  <2> QED BY <2>1, <2>2, <2>3, NearestKeys
<1>5. ASSUME NEW k \in Keys
      PROVE  rbwrap_search(tree, k) = WithKey(Set!Find(S, k))
  <2>1. k \in Int
    BY KeyFacts DEF Keys
  <2>2. CASE \E x \in P : Key[x] = k
    <3>1. PICK x \in P : Key[x] = k
      BY <2>2
    <3>2. k \in S
      BY <1>2, <3>1
    <3>3. Set!Find(S, k) = k
      BY <3>2 DEF Set!Find
    <3>4. rbwrap_search(tree, k) = x
      BY <1>1, <1>2, <2>1, <3>1, SearchIs
    <3> QED BY <1>3, <3>1, <3>3, <3>4
  <2>3. CASE ~\E x \in P : Key[x] = k
    <3>1. k \notin S
      BY <1>2, <2>3
    <3>2. Set!Find(S, k) = 0
      BY <3>1 DEF Set!Find, Set!None
    <3>3. rbwrap_search(tree, k) = Null
      BY <1>1, <1>2, <2>1, <2>3, SearchIs
    <3> QED BY <1>3, <3>2, <3>3
  <2> QED BY <2>2, <2>3
<1>6. ASSUME NEW s \in Side
      PROVE  Nearest(P, Opp(s), Outermost(tree, tree.root, s))
  <2>1. CASE tree.root = Null
    <3>1. P = {}
      BY <1>1, <1>2, <2>1 DEF Grown, Spanned
    <3>2. Outermost(tree, tree.root, s) = Null
      BY <2>1 DEF Outermost
    <3> QED BY <3>1, <3>2 DEF Nearest
  <2>2. CASE tree.root # Null
    <3>1. tree.root \in Nodes
      BY <1>2, <2>2 DEF OrNull
    <3> QED BY <1>1, <1>2, <3>1, OutermostIs
  <2> QED BY <2>1, <2>2
<1>7. /\ rb_first(tree) = WithKey(Set!Least(S))
      /\ rb_last(tree) = WithKey(Set!Greatest(S))
  <2>1. Nearest(P, "right", Outermost(tree, tree.root, "left"))
    BY <1>2, <1>6
  <2>2. Nearest(P, "left", Outermost(tree, tree.root, "right"))
    BY <1>2, <1>6
  <2> HIDE DEF P, S
  <2> QED BY <1>2, <1>4, <2>1, <2>2 DEF rb_first, rb_last
<1>8. ASSUME NEW n \in P
      PROVE  /\ rb_next(tree, n) = WithKey(Set!Above(S, Key[n]))
             /\ rb_prev(tree, n) = WithKey(Set!Below(S, Key[n]))
  <2> DEFINE U == {y \in P : Beyond("right", Key[y], Key[n])}
             L == {y \in P : Beyond("left", Key[y], Key[n])}
  <2>1. Nearest(U, "right", Beside(tree, n, "right")) /\ Nearest(L, "left", Beside(tree, n, "left"))
    BY <1>1, <1>2, BesideIs
  <2>2. KeysOf(U) = {x \in S : x > Key[n]} /\ KeysOf(L) = {x \in S : x < Key[n]}
    BY <1>2 DEF KeysOf, Beyond
  <2>3. U \subseteq P /\ L \subseteq P
    OBVIOUS
  <2> HIDE DEF P, S, U, L
  <2>4. /\ Beside(tree, n, "right") = WithKey(Set!Least(KeysOf(U)))
        /\ Beside(tree, n, "left") = WithKey(Set!Greatest(KeysOf(L)))
    BY <1>4, <2>1, <2>3
  <2>5. /\ Set!Above(S, Key[n]) = Set!Least(KeysOf(U))
        /\ Set!Below(S, Key[n]) = Set!Greatest(KeysOf(L))
    BY <2>2 DEF Set!Above, Set!Below
  <2> QED BY <2>4, <2>5 DEF rb_next, rb_prev
<1> HIDE DEF P
<1> QED BY <1>2, <1>5, <1>7, <1>8 DEF QueriesRight

\* QueriesRight: the search and the traversal return what the set promises.
THEOREM RbQueriesRight == Spec => []QueriesRight
<1>1. RbInv => QueriesRight
  BY RbQueries
<1> QED BY <1>1, RbInvariant, PTL

-----------------------------------------------------------------------------
(* The augmentation adds nothing to what the tree does *)

\* Every action of the augmented tree is one of the tree, or leaves it alone.
LEMMA AugmentedSteps ==
  /\ AugmentedInit => Init
  /\ AugmentedNext => Next \/ UNCHANGED vars
<1>1. AugmentedInit => Init
  BY DEF AugmentedInit
<1>2. AugmentedCall => Next
  BY DEF AugmentedCall, InsertAugmented, EraseAugmented, ReplaceAugmented, Next, Call
<1>3. AugmentedStep => Next \/ UNCHANGED vars
  BY DEF AugmentedStep, PresentAugmented, InsertDoneAugmented, SpliceAugmented, EraseDoneAugmented,
         Pass, AugmentPath, Next, Step, vars
<1> QED BY <1>1, <1>2, <1>3 DEF AugmentedNext

\* Whatever holds of Spec holds of a tree whose client augments it.
THEOREM AugmentedRefines == AugmentedSpec => Spec
<1>1. [AugmentedNext]_augmentVars => [Next]_vars
  BY AugmentedSteps DEF augmentVars, vars
<1> QED BY <1>1, AugmentedSteps, PTL DEF AugmentedSpec, Spec

-----------------------------------------------------------------------------
(* Which values may be wrong *)

\* The nodes above a, a included.
Line(t, b, a) == {m \in Placed(t) : a \in b[m]}

\* Those whose value rb_augment_path computes if it begins with a.
Path(t, b, a) == {m \in Placed(t) : a \in b[m] \/ (t.parent[m] # a /\ a \in b[t.parent[m]])}

\* The value of m is what the client's callback would compute.
Accurate(t, v, m) == v[m] = 1 + SizeOf(v, t.kid[m]["left"]) + SizeOf(v, t.kid[m]["right"])

\* All but those of X.
Sized(t, v, X) == \A m \in Placed(t) \ X : Accurate(t, v, m)

\* But for the nodes of Y, those of g were not among X and have the values that
\* they and their children had in t.
Spared(t, v, X, g, w, Y) ==
  \A m \in Placed(g) \ Y :
    /\ m \in Placed(t) \ X /\ w[m] = v[m]
    /\ \A r \in Side : SizeOf(w, g.kid[m][r]) = SizeOf(v, t.kid[m][r])

\* Their values are accurate still.
LEMMA SizedKept ==
  ASSUME NEW t, NEW v, NEW X, Sized(t, v, X), NEW g, NEW w, NEW Y, Spared(t, v, X, g, w, Y)
  PROVE  Sized(g, w, Y)
<1> SUFFICES ASSUME NEW m \in Placed(g) \ Y PROVE Accurate(g, w, m)
  BY DEF Sized
<1>0. /\ m \in Placed(t) \ X /\ w[m] = v[m]
      /\ \A r \in Side : SizeOf(w, g.kid[m][r]) = SizeOf(v, t.kid[m][r])
  BY DEF Spared
<1>1. Accurate(t, v, m)
  BY <1>0 DEF Sized
<1>2. /\ SizeOf(w, g.kid[m]["left"]) = SizeOf(v, t.kid[m]["left"])
      /\ SizeOf(w, g.kid[m]["right"]) = SizeOf(v, t.kid[m]["right"])
  BY <1>0, SideFacts
<1>3. w[m] = v[m]
  BY <1>0
<1> QED BY <1>1, <1>2, <1>3 DEF Accurate

\* The same with one and the same function of values.
LEMMA SizedSame ==
  ASSUME NEW t, NEW v, NEW X, Sized(t, v, X), NEW g, NEW Y,
         \A m \in Placed(g) \ Y :
           m \in Placed(t) \ X /\ \A r \in Side : g.kid[m][r] = t.kid[m][r]
  PROVE  Sized(g, v, Y)
<1>1. Spared(t, v, X, g, v, Y)
  BY DEF Spared
<1> QED BY <1>1, SizedKept

\* Above a child is its parent, and above a node all that is above the parent.
LEMMA LineFacts ==
  ASSUME NEW t, NEW b, Grown(t, b), NEW a
  PROVE  /\ a \in Nodes => a \in b[a]
         /\ \A m \in Nodes : a \in b[m] => a \in Nodes
         /\ \A m \in Nodes, r \in Side : a \in b[t.kid[m][r]] => a \in b[m]
         /\ \A m \in Nodes : a \in b[m] /\ a # m => t.parent[a] \in b[m]
         /\ \A m \in Nodes : \A x \in b[m] : a \in b[x] => a \in b[m]
<1>1. \A m \in Nodes, r \in Side : b[t.kid[m][r]] \subseteq b[m] /\ b[m] \subseteq Nodes /\ m \in b[m]
  BY GrownSides
<1>2. /\ \A m \in Nodes : \A x \in b[m] : b[x] \subseteq b[m]
      /\ \A m \in Nodes : \A x \in b[m] \ {m} : t.parent[x] \in b[m]
  BY DEF Grown, Spanned
<1> QED BY <1>1, <1>2, SideFacts

\* A new leaf makes the values above it wrong.
LEMMA LeafedSized ==
  ASSUME NEW t, NEW b, Grown(t, b), NEW n, NEW p, Descended(t, b, n, p),
         NEW g, Leafed(t, g, n, p), NEW d, Grown(g, d), NEW v, Sized(t, v, {})
  PROVE  Sized(g, v, Line(g, d, n))
<1>1. /\ n \in Nodes /\ n \in d[n] /\ KeySide(n, p) \in Side
      /\ \A m \in Nodes : g.parent[m] = IF m = n THEN p ELSE t.parent[m]
      /\ \A m \in Nodes, r \in Side :
           g.kid[m][r] = IF m = n THEN Null
                         ELSE IF m = p /\ r = KeySide(n, p) THEN n ELSE t.kid[m][r]
  BY LineFacts DEF Descended, Leafed, KeySide, Side
<1>2. p \in Nodes => n \in d[p]
  <2> SUFFICES ASSUME p \in Nodes PROVE n \in d[p]
    OBVIOUS
  <2>1. p # n
    BY KeyFacts DEF Descended, Placed
  <2>2. g.kid[p][KeySide(n, p)] = n
    BY <1>1, <2>1
  <2> QED BY <1>1, <2>2, LineFacts
<1>3. ASSUME NEW m \in Placed(g), m \notin Line(g, d, n)
      PROVE  m \in Placed(t) /\ \A r \in Side : g.kid[m][r] = t.kid[m][r]
  <2>1. m \in Nodes /\ g.parent[m] # m /\ m # n /\ m # p
    BY <1>1, <1>2, <1>3 DEF Placed, Line
  <2> QED BY <1>1, <2>1 DEF Placed
<1> QED BY <1>3, SizedSame

\* An unlinked node makes the values above its child, or its place, wrong.
LEMMA UnlinkedSized ==
  ASSUME NEW t, NEW b, Grown(t, b), NEW n, NEW s, NEW child, NEW p, Loose(t, n, s, child, p),
         NEW g, Unlinked(t, g, n, child, p), NEW d, Grown(g, d),
         NEW v \in [Nodes -> Int], Sized(t, v, {}), NEW w, \A m \in Nodes : m # n => w[m] = v[m],
         NEW a, a = IF child = Null THEN p ELSE child
  PROVE  /\ Sized(g, w, Line(g, d, a)) /\ a \in Placed(g) \cup {Null}
         /\ p # Null => a = p \/ a \in d[child]
<1>1. /\ n \in Nodes /\ child \in OrNull /\ p \in OrNull /\ child # n /\ p # n /\ Null \notin Nodes
      /\ child \in Nodes => child \in Placed(t) /\ t.parent[child] = n
      /\ p # Null => p \in Placed(t)
  BY LooseFacts, KeyFacts
<1>2. /\ \A m \in Nodes : g.parent[m] = IF m = n THEN n ELSE IF m = child THEN p ELSE t.parent[m]
      /\ \A m \in Nodes, r \in Side :
           g.kid[m][r] = IF m = n THEN Null ELSE IF t.kid[m][r] = n THEN child ELSE t.kid[m][r]
  BY DEF Unlinked
<1>3. /\ \A m \in Nodes, r \in Side : t.kid[m][r] = n <=> p # Null /\ m = p /\ SideOf(t, n, p) = r
      /\ SideOf(t, n, p) \in Side
  BY OnlyLink DEF Loose, SideOf, Side
<1>4. child \in Nodes => child # p
  BY LooseFacts
<1>5. Placed(g) = Placed(t) \ {n}
  <2>1. n \in Placed(t)
    BY DEF Loose
  <2> QED BY <1>1, <1>2, <1>4, <2>1 DEF Placed
<1>6. a \in Placed(g) \cup {Null}
  BY <1>1, <1>5 DEF OrNull
<1>7. child # Null => child \in d[child]
  BY <1>1, LineFacts DEF OrNull
<1>8. p # Null => a \in d[p]
  <2> SUFFICES ASSUME p # Null PROVE a \in d[p]
    OBVIOUS
  <2>1. p \in Nodes /\ p \in d[p]
    BY <1>1, LineFacts DEF OrNull
  <2>2. g.kid[p][SideOf(t, n, p)] = child
    BY <1>1, <1>2, <1>3, <2>1
  <2>3. child # Null => child \in d[p]
    BY <1>3, <1>7, <2>1, <2>2, LineFacts
  <2> QED BY <2>1, <2>3
<1>9. ASSUME NEW m \in Placed(g), m \notin Line(g, d, a)
      PROVE  /\ m \in Placed(t) /\ w[m] = v[m]
             /\ \A r \in Side : SizeOf(w, g.kid[m][r]) = SizeOf(v, t.kid[m][r])
  <2>1. m \in Nodes /\ m # n /\ m \in Placed(t) /\ (p # Null => m # p)
    BY <1>5, <1>8, <1>9 DEF Placed, Line
  <2>2. \A r \in Side : g.kid[m][r] = t.kid[m][r] /\ t.kid[m][r] # n
    BY <1>2, <1>3, <2>1
  <2>3. \A x \in OrNull : x # n => SizeOf(w, x) = SizeOf(v, x)
    BY DEF SizeOf, OrNull
  <2>4. \A r \in Side : t.kid[m][r] \in OrNull
    BY <2>1, GrownSides
  <2> QED BY <2>1, <2>2, <2>3, <2>4
<1>10. Sized(g, w, Line(g, d, a))
  <2>1. Spared(t, v, {}, g, w, Line(g, d, a))
    BY <1>9 DEF Spared
  <2> QED BY <2>1, SizedKept
<1> QED BY <1>6, <1>7, <1>10

\* A node whose successor took its place: the values above the place that the
\* successor has left are wrong.
LEMMA SplicedSized ==
  ASSUME NEW t, NEW b, Grown(t, b), NEW o, NEW n, Succeeds(t, b, o, n), t.kid[n]["left"] = Null,
         NEW child, t.kid[n]["right"] = child, NEW p, t.parent[n] = p,
         NEW f, Unlinked(t, f, n, child, p), NEW g, Placing(f, g, o, n),
         Placed(g) = Placed(t) \ {o}, NEW d, Grown(g, d), b[o] \ {o, n} \subseteq d[n],
         NEW v \in [Nodes -> Int], Sized(t, v, {}), NEW w, \A m \in Nodes : m # o => w[m] = v[m],
         NEW a, a = IF child # Null THEN child ELSE IF p # o THEN p ELSE n
  PROVE  /\ Sized(g, w, Line(g, d, a)) /\ a \in Placed(g)
         /\ a = (IF p = o THEN n ELSE p) \/ a \in d[child]
<1> DEFINE q == t.parent[o]
<1>1. /\ o \in Nodes /\ n \in Placed(t) /\ n \in Nodes /\ n # o /\ child \in OrNull /\ p \in Nodes
      /\ q \in OrNull /\ child # o /\ p # n /\ q # n /\ q # o /\ o \in b[o] /\ n \in b[o]
      /\ p # o => t.kid[p]["left"] = n
      /\ \A m \in Nodes, r \in Side : t.kid[m][r] = n => m = p
      /\ Loose(t, n, "right", child, p) /\ Null \notin Nodes
  <2>1. \A low, high : t.kid[o]["left"] = low /\ high = t.kid[o]["right"] =>
      /\ o \in Nodes /\ n \in Placed(t) /\ n \in Nodes /\ n # o /\ child \in OrNull /\ p \in Nodes
      /\ q \in OrNull /\ child # o /\ p # n /\ q # n /\ q # o /\ o \in b[o] /\ n \in b[o]
      /\ p # o => t.kid[p]["left"] = n
      /\ \A m \in Nodes, r \in Side : t.kid[m][r] = n => m = p
      /\ Loose(t, n, "right", child, p)
    BY SucceedsFacts
  <2> QED BY <2>1, KeyFacts
<1>2. /\ \A m \in Nodes, r \in Side :
           f.kid[m][r] = IF m = n THEN Null ELSE IF t.kid[m][r] = n THEN child ELSE t.kid[m][r]
      /\ \A m \in Nodes, r \in Side :
           g.kid[m][r] = IF m = o THEN Null ELSE IF m = n THEN f.kid[o][r]
                         ELSE IF f.kid[m][r] = o THEN n ELSE f.kid[m][r]
  BY DEF Unlinked, Placing
<1>3. /\ \A m \in Nodes, r \in Side : t.kid[m][r] = o => m = q
      /\ q # Null => SideOf(t, o, q) \in Side /\ t.kid[q][SideOf(t, o, q)] = o
  <2>1. o \in Placed(t)
    BY DEF Succeeds
  <2>2. \A m \in Nodes, r \in Side : t.kid[m][r] = o <=> q # Null /\ m = q /\ SideOf(t, o, q) = r
    BY <2>1, OnlyLink
  <2>3. SideOf(t, o, q) \in Side
    BY DEF SideOf, Side
  <2>4. q # Null => q \in Nodes
    BY <1>1 DEF OrNull
  <2> QED BY <2>2, <2>3, <2>4
<1>4. child # Null => /\ child \in Nodes /\ t.parent[child] = n /\ child \in Placed(t) /\ child # n
                      /\ child \in b[o] /\ child \in d[child]
  <2> SUFFICES ASSUME child # Null
               PROVE  /\ child \in Nodes /\ t.parent[child] = n /\ child \in Placed(t) /\ child # n
                      /\ child \in b[o] /\ child \in d[child]
    OBVIOUS
  <2>1. child \in Nodes /\ child # n
    BY <1>1, LooseFacts DEF OrNull
  <2>2. t.parent[child] = n /\ child \in Placed(t)
    BY <1>1, <2>1, LooseFacts
  <2>3. child \in b[n] /\ child \in d[child]
    BY <1>1, <2>1, LineFacts, SideFacts
  <2>4. child \in b[o]
    BY <1>1, <2>3, LineFacts
  <2> QED BY <2>1, <2>2, <2>3, <2>4
<1>5. p \in b[o] /\ p \in Placed(t)
  <2>1. p \in b[o]
    BY <1>1, LineFacts
  <2>2. b[o] \subseteq Placed(t)
    BY <1>1, GrownMembers DEF Succeeds
  <2> QED BY <2>1, <2>2
<1>6. a \in d[n] /\ a \in Placed(g) /\ n \in d[n]
  <2>1. n \in d[n]
    BY <1>1, LineFacts
  <2> QED BY <1>1, <1>4, <1>5, <2>1
<1>7. q # Null => a \in d[q]
  <2> SUFFICES ASSUME q # Null PROVE a \in d[q]
    OBVIOUS
  <2>1. q \in Nodes
    BY <1>1 DEF OrNull
  <2> HIDE DEF q
  <2>2. f.kid[q][SideOf(t, o, q)] = o
    BY <1>1, <1>2, <1>3, <2>1
  <2>3. g.kid[q][SideOf(t, o, q)] = n
    BY <1>1, <1>2, <1>3, <2>1, <2>2
  <2> QED BY <1>3, <1>6, <2>1, <2>3, LineFacts
<1>8. p # o => a \in d[p]
  <2> SUFFICES ASSUME p # o PROVE a \in d[p]
    OBVIOUS
  <2>1. "left" \in Side /\ f.kid[p]["left"] = child
    BY <1>1, <1>2, SideFacts
  <2>2. g.kid[p]["left"] = child
    BY <1>1, <1>2, <2>1
  <2>3. child # Null => child \in d[p]
    BY <1>1, <1>4, <2>1, <2>2, LineFacts
  <2>4. p \in d[p]
    BY <1>1, LineFacts
  <2> QED BY <2>3, <2>4
<1>9. Spared(t, v, {}, g, w, Line(g, d, a))
  <2> SUFFICES ASSUME NEW m \in Placed(g), m \notin Line(g, d, a)
               PROVE  /\ m \in Placed(t) /\ w[m] = v[m]
                      /\ \A r \in Side : SizeOf(w, g.kid[m][r]) = SizeOf(v, t.kid[m][r])
    BY DEF Spared
  <2>1. /\ m \in Nodes /\ m \in Placed(t) /\ m # o /\ m # n
        /\ (q # Null => m # q) /\ (p # o => m # p)
    BY <1>6, <1>7, <1>8 DEF Placed, Line
  <2> HIDE DEF q
  <2>2. \A r \in Side : t.kid[m][r] # n /\ t.kid[m][r] # o
    BY <1>1, <1>3, <2>1
  <2>3. \A r \in Side : g.kid[m][r] = t.kid[m][r]
    BY <1>2, <2>1, <2>2
  <2>4. \A x \in OrNull : x # o => SizeOf(w, x) = SizeOf(v, x)
    BY DEF SizeOf, OrNull
  <2>5. \A r \in Side : t.kid[m][r] \in OrNull
    BY <2>1, GrownSides
  <2> QED BY <2>1, <2>2, <2>3, <2>4, <2>5
<1>10. Sized(g, w, Line(g, d, a))
  BY <1>9, SizedKept
<1>11. a = (IF p = o THEN n ELSE p) \/ a \in d[child]
  BY <1>4
<1> QED BY <1>6, <1>10, <1>11

\* A replacement that has the value of its victim makes no value wrong.
LEMMA ReplacedSized ==
  ASSUME NEW t, NEW b, Grown(t, b), NEW o \in Placed(t), NEW n \in Nodes \ Placed(t),
         NEW g, Placing(t, g, o, n), Placed(g) = (Placed(t) \ {o}) \cup {n},
         NEW v \in [Nodes -> Int], Sized(t, v, {}),
         NEW w, w[n] = v[o], \A m \in Nodes : m # n /\ m # o => w[m] = v[m]
  PROVE  Sized(g, w, {})
<1>1. /\ o \in Nodes /\ n \in Nodes /\ o # n /\ Null \notin Nodes
      /\ \A m \in Nodes, r \in Side :
           g.kid[m][r] = IF m = o THEN Null ELSE IF m = n THEN t.kid[o][r]
                         ELSE IF t.kid[m][r] = o THEN n ELSE t.kid[m][r]
      /\ w[n] = v[o] /\ \A m \in Nodes : m # n /\ m # o => w[m] = v[m]
  BY KeyFacts DEF Placing, Placed
<1>2. \A m \in Nodes, r \in Side : t.kid[m][r] \in OrNull /\ t.kid[m][r] # n
  <2>1. \A m \in Nodes, r \in Side : t.kid[m][r] \in OrNull
    BY GrownSides
  <2>2. \A m \in Nodes, r \in Side : t.kid[m][r] \in Nodes => t.kid[m][r] \in Placed(t)
    BY GrownKid
  <2> QED BY <1>1, <2>1, <2>2
<1>3. \A x \in OrNull : x # n /\ x # o => SizeOf(w, x) = SizeOf(v, x)
  BY <1>1 DEF SizeOf, OrNull
<1>4. SizeOf(w, n) = SizeOf(v, o)
  BY <1>1 DEF SizeOf
<1>5. ASSUME NEW m \in Placed(t), m # o
      PROVE  Accurate(g, w, m)
  <2>1. m \in Nodes /\ m # n
    BY DEF Placed
  <2>2. \A r \in Side : SizeOf(w, g.kid[m][r]) = SizeOf(v, t.kid[m][r])
    BY <1>1, <1>2, <1>3, <1>4, <1>5, <2>1
  <2>3. Accurate(t, v, m)
    BY DEF Sized
  <2>4. w[m] = v[m]
    BY <1>1, <1>5, <2>1
  <2>5. /\ SizeOf(w, g.kid[m]["left"]) = SizeOf(v, t.kid[m]["left"])
        /\ SizeOf(w, g.kid[m]["right"]) = SizeOf(v, t.kid[m]["right"])
    BY <2>2, SideFacts
  <2> QED BY <2>3, <2>4, <2>5 DEF Accurate
<1>6. Accurate(g, w, n)
  <2>1. \A r \in Side : t.kid[o][r] # o
    BY <1>1, GrownKid
  <2>2. \A r \in Side : SizeOf(w, g.kid[n][r]) = SizeOf(v, t.kid[o][r])
    BY <1>1, <1>2, <1>3, <2>1
  <2>3. Accurate(t, v, o)
    BY DEF Sized
  <2>4. /\ SizeOf(w, g.kid[n]["left"]) = SizeOf(v, t.kid[o]["left"])
        /\ SizeOf(w, g.kid[n]["right"]) = SizeOf(v, t.kid[o]["right"])
    BY <2>2, SideFacts
  <2> QED BY <1>1, <2>3, <2>4 DEF Accurate
<1> QED BY <1>5, <1>6 DEF Sized

\* Whatever the colours, the subtrees after a rotation are those of TurnedSpan.
LEMMA TurnSpan ==
  ASSUME NEW t, NEW b, Grown(t, b),
         NEW n, NEW s, NEW c, NEW low, NEW inner, NEW outer, NEW p,
         Turn(t, n, s, c, low, inner, outer, p),
         NEW g, Wired(t, g, n, s, c, low, inner, outer, p), NEW d, Grown(g, d)
  PROVE  /\ d[c] = b[n] /\ d[n] = {n} \cup b[low] \cup b[inner]
         /\ \A m \in Nodes : m # n /\ m # c => d[m] = b[m]
<1> DEFINE f == Colour(g, Nodes, t.red)
           e == TurnedSpan(b, n, c, low, inner)
<1>1. g \in Trees /\ t \in Trees /\ t.red \subseteq Nodes /\ g.red \subseteq Nodes
  BY DEF Grown, Trees
<1>2. /\ f \in Trees /\ f.root = g.root /\ f.parent = g.parent /\ f.kid = g.kid
      /\ f.red = (g.red \ Nodes) \cup t.red
  BY <1>1, ColourFields
<1>3. Grown(f, d)
  BY <1>1, ColourGrown
<1> HIDE DEF f
<1>4. f.red = t.red
  BY <1>1, <1>2
<1>5. Turned(t, f, n, s, c, low, inner, outer, p)
  BY <1>2, <1>4 DEF Wired, Turned
<1>6. Grown(f, e)
  BY <1>5, TurnedGrown
<1>7. d = e
  BY <1>3, <1>6, BelowIs
<1>8. b \in [OrNull -> SUBSET Nodes] /\ n \in OrNull /\ c \in OrNull /\ c # n
  <2>1. b \in [OrNull -> SUBSET Nodes]
    BY DEF Grown, Spanned
  <2>2. n \in Nodes /\ c \in Nodes
    BY DEF Turn
  <2> QED BY <2>1, <2>2, TurnFacts DEF OrNull
<1>9. \A m \in OrNull : e[m] = IF m = n THEN {n} \cup b[low] \cup b[inner]
                               ELSE IF m = c THEN b[n] ELSE b[m]
  BY <1>8 DEF TurnedSpan
<1> HIDE DEF e
<1> QED BY <1>7, <1>8, <1>9 DEF OrNull

\* A climb computes the values above its first node, and those of the nodes
\* beside them.
LEMMA LinePath ==
  ASSUME NEW t, NEW b, NEW v, NEW a, Sized(t, v, Line(t, b, a))
  PROVE  Sized(t, v, Path(t, b, a))
BY DEF Sized, Line, Path

\* All values are right but for those above a, and those of x and y.
SizedBut(t, b, v, a, x, y) == \A m \in Placed(t) : m = x \/ m = y \/ a \in b[m] \/ Accurate(t, v, m)

\* No x and y are excepted where they are Null.
LEMMA LineBut ==
  ASSUME NEW t, NEW b, NEW v, NEW a
  PROVE  Sized(t, v, Line(t, b, a)) <=> SizedBut(t, b, v, a, Null, Null)
<1>1. Null \notin Placed(t)
  BY KeyFacts DEF Placed
<1> QED BY <1>1 DEF Sized, SizedBut, Line

\* A node that keeps its children keeps a right value.
LEMMA ButSame ==
  ASSUME NEW t, NEW b, NEW v, NEW a, NEW x, NEW y, SizedBut(t, b, v, a, x, y),
         NEW g, NEW d, NEW z, NEW w,
         \A m \in Placed(g) : m = z \/ m = w \/ a \in d[m] \/
           /\ m \in Placed(t) /\ m # x /\ m # y /\ a \notin b[m]
           /\ \A r \in Side : g.kid[m][r] = t.kid[m][r]
  PROVE  SizedBut(g, d, v, a, z, w)
<1> SUFFICES ASSUME NEW m \in Placed(g), m # z, m # w, a \notin d[m]
             PROVE  Accurate(g, v, m)
  BY DEF SizedBut
<1>1. Accurate(t, v, m)
  BY DEF SizedBut
<1>2. g.kid[m]["left"] = t.kid[m]["left"] /\ g.kid[m]["right"] = t.kid[m]["right"]
  BY SideFacts
<1> QED BY <1>1, <1>2 DEF Accurate

\* A rotation above the place of an erased node makes no other values wrong.
LEMMA RotatedSized ==
  ASSUME NEW t, NEW b, Grown(t, b),
         NEW n, NEW s, NEW c, NEW low, NEW inner, NEW outer, NEW p,
         Turn(t, n, s, c, low, inner, outer, p),
         NEW g, Wired(t, g, n, s, c, low, inner, outer, p), Placed(g) = Placed(t),
         NEW d, Grown(g, d), NEW a, a = n \/ a \in b[low],
         NEW v, NEW x, NEW y, SizedBut(t, b, v, a, x, y)
  PROVE  /\ SizedBut(g, d, v, a, x, y)
         /\ a = n \/ a \in d[low]
         /\ (x = Null \/ x = c) /\ (y = Null \/ y = outer) => Sized(g, v, Path(g, d, a))
<1>1. /\ d[c] = b[n] /\ d[n] = {n} \cup b[low] \cup b[inner]
      /\ \A m \in Nodes : m # n /\ m # c => d[m] = b[m]
  BY TurnSpan
<1>2. /\ n \in Nodes /\ c \in Nodes /\ c # n /\ low # n /\ low # c /\ low \in OrNull
      /\ b[n] = {n} \cup b[low] \cup b[c] /\ c \notin b[low]
  BY SMTT(30), TurnFacts DEF Turn
<1>3. a \in b[n] /\ a \in d[n] /\ a \in d[c] /\ a # c
  BY <1>1, <1>2
<1>4. a = n \/ a \in d[low]
  <2>1. b[Null] = {}
    BY DEF Grown, Spanned
  <2> QED BY <1>1, <1>2, <2>1 DEF OrNull
<1>5. ASSUME NEW m \in Placed(g), a \notin d[m]
      PROVE  /\ m \in Placed(t) /\ a \notin b[m]
             /\ \A r \in Side : g.kid[m][r] = t.kid[m][r]
  <2>1. m \in Nodes /\ m \in Placed(t) /\ a \notin d[m]
    BY <1>5 DEF Placed
  <2>2. m # n /\ m # c /\ a \notin b[m]
    BY <1>1, <1>3, <2>1
  <2>3. \A r \in Side : t.kid[m][r] # n
    BY <1>2, <1>3, <2>1, <2>2, LineFacts
  <2>4. \A r \in Side : g.kid[m][r] = t.kid[m][r]
    BY <2>1, <2>2, <2>3 DEF Wired
  <2> QED BY <2>1, <2>2, <2>4
<1>6. SizedBut(g, d, v, a, x, y)
  BY <1>5, ButSame
<1>7. ASSUME x = Null \/ x = c, y = Null \/ y = outer
      PROVE  Sized(g, v, Path(g, d, a))
  <2>1. ASSUME NEW m \in Placed(g), m = x \/ m = y \/ a \in d[m]
        PROVE  m \in Path(g, d, a)
    <3>1. CASE a \in d[m]
      BY <3>1 DEF Path
    <3>2. CASE m = c
      BY <1>3, <3>2 DEF Path
    <3>3. CASE m = outer
      <4>1. m \in Nodes /\ s \in Side /\ Opp(s) \in Side /\ g.kid[c][Opp(s)] = m
        BY <3>3, SideFacts DEF Wired, Turn, Placed
      <4>2. g.parent[m] = c
        BY <1>2, <4>1, GrownKid
      <4> QED BY <1>3, <4>2 DEF Path
    <3>4. m # Null
      BY KeyFacts DEF Placed
    <3> QED BY <1>7, <2>1, <3>1, <3>2, <3>3, <3>4
  <2> QED BY <1>6, <2>1 DEF Sized, SizedBut
<1> QED BY <1>4, <1>6, <1>7

\* The rotation of the sibling makes its value wrong, and that of the nephew
\* that comes up.
LEMMA NephewSized ==
  ASSUME NEW t, NEW b, Grown(t, b),
         NEW n, NEW s, NEW c, NEW low, NEW inner, NEW outer, NEW p,
         Turn(t, n, s, c, low, inner, outer, p),
         NEW g, Wired(t, g, n, s, c, low, inner, outer, p), Placed(g) = Placed(t),
         NEW d, Grown(g, d), NEW a, p # Null, a \in b[p], NEW v, SizedBut(t, b, v, a, Null, Null)
  PROVE  SizedBut(g, d, v, a, c, n)
<1>1. \A m \in Nodes : m # n /\ m # c => d[m] = b[m]
  BY TurnSpan
<1>2. n \in Nodes /\ t.parent[n] = p
  BY DEF Turn
<1>3. ASSUME NEW m \in Placed(g), a \notin d[m], m # n, m # c
      PROVE  /\ m \in Placed(t) /\ a \notin b[m] /\ m # Null
             /\ \A r \in Side : g.kid[m][r] = t.kid[m][r]
  <2>1. m \in Nodes /\ m \in Placed(t) /\ m # Null
    BY KeyFacts DEF Placed
  <2>2. a \notin b[m]
    BY <1>1, <1>3, <2>1
  <2>3. \A r \in Side : t.kid[m][r] # n
    BY <1>2, <2>1, <2>2, GrownKid
  <2>4. \A r \in Side : g.kid[m][r] = t.kid[m][r]
    BY <1>3, <2>1, <2>3 DEF Wired
  <2> QED BY <2>1, <2>2, <2>4
<1> QED BY <1>3, ButSame

\* After the rotations of an insertion only the top c of the nodes that have
\* turned, its children and the nodes above it may have wrong values.
LEMMA InsertTurned ==
  ASSUME NEW t, NEW b, Grown(t, b), NEW f, NEW v, Sized(t, v, Line(t, b, f)),
         NEW g, NEW d, Grown(g, d), Placed(g) = Placed(t),
         NEW c \in Nodes, NEW a, a \in d[c], a # c,
         \A m \in Nodes : m # c /\ (\A r \in Side : g.kid[c][r] # m) =>
           /\ f \in b[m] => a \in d[m]
           /\ f \notin b[m] => \A r \in Side : g.kid[m][r] = t.kid[m][r]
  PROVE  Sized(g, v, Path(g, d, a))
<1>1. ASSUME NEW m \in Placed(g), m \notin Path(g, d, a)
      PROVE  /\ m \in Placed(t) /\ m \notin Line(t, b, f)
             /\ \A r \in Side : g.kid[m][r] = t.kid[m][r]
  <2>1. m \in Nodes /\ m \in Placed(t) /\ a \notin d[m]
    BY <1>1 DEF Path, Placed
  <2>2. m # c
    BY <2>1
  <2>3. \A r \in Side : g.kid[c][r] # m
    <3>1. g.parent[m] = c => m \in Path(g, d, a)
      BY <2>1 DEF Path
    <3> QED BY <1>1, <2>1, <3>1, GrownKid
  <2>4. f \notin b[m] /\ \A r \in Side : g.kid[m][r] = t.kid[m][r]
    BY <2>1, <2>2, <2>3
  <2> QED BY <2>1, <2>4 DEF Line
<1> QED BY <1>1, SizedSame

\* The new node, f, or the subtree that it is in, has been an outer grandchild.
LEMMA OuterSized ==
  ASSUME NEW t, NEW b, Grown(t, b),
         NEW n, NEW s, NEW c, NEW low, NEW inner, NEW outer, NEW p,
         Turn(t, n, s, c, low, inner, outer, p),
         NEW g, Wired(t, g, n, s, c, low, inner, outer, p), Placed(g) = Placed(t),
         NEW d, Grown(g, d), NEW f, f \in b[outer], \A r \in Side : t.kid[f][r] = Null,
         NEW v, Sized(t, v, Line(t, b, f))
  PROVE  rb_augment_insert(g, f) = f /\ Sized(g, v, Path(g, d, f))
<1>1. /\ d[c] = b[n] /\ \A m \in Nodes : m # n /\ m # c => d[m] = b[m]
  BY TurnSpan
<1>2. /\ n \in Nodes /\ c \in Nodes /\ c # n /\ Null \notin Nodes /\ s \in Side /\ Opp(s) \in Side
      /\ b[n] = {n} \cup b[low] \cup b[c] /\ b[c] = {c} \cup b[inner] \cup b[outer]
      /\ n \notin b[c] /\ c \notin b[outer] /\ b[n] \subseteq Nodes
  <2>1. n \in Nodes /\ c \in Nodes /\ s \in Side
    BY DEF Turn
  <2>2. /\ c # n /\ b[n] = {n} \cup b[low] \cup b[c] /\ b[c] = {c} \cup b[inner] \cup b[outer]
        /\ n \notin b[c] /\ c \notin b[outer] /\ b[n] \subseteq Nodes
    BY TurnFacts
  <2> QED BY <2>1, <2>2, KeyFacts, SideFacts
<1>3. f \in b[n] /\ f \in Nodes /\ f # n /\ f # c /\ f \in d[c]
  BY <1>1, <1>2
<1>4. \A r \in Side : g.kid[f][r] = Null
  <2>1. \A r \in Side : t.kid[f][r] # n
    BY <1>2
  <2> QED BY <1>3, <2>1 DEF Wired
<1>5. rb_augment_insert(g, f) = f
  BY <1>4, SideFacts DEF rb_augment_insert
<1>6. g.kid[c][s] = n
  BY DEF Wired
<1>7. ASSUME NEW m \in Nodes, m # c, \A r \in Side : g.kid[c][r] # m
      PROVE  /\ f \in b[m] => f \in d[m]
             /\ f \notin b[m] => \A r \in Side : g.kid[m][r] = t.kid[m][r]
  <2>1. m # n
    BY <1>2, <1>6, <1>7
  <2>2. d[m] = b[m]
    BY <1>1, <1>7, <2>1
  <2>3. f \notin b[m] => \A r \in Side : t.kid[m][r] # n
    BY <1>3, LineFacts
  <2>4. \A r \in Side : t.kid[m][r] # n => g.kid[m][r] = t.kid[m][r]
    BY <1>7, <2>1 DEF Wired
  <2> QED BY <2>2, <2>3, <2>4
<1>8. Sized(g, v, Path(g, d, f))
  BY <1>2, <1>3, <1>7, InsertTurned
<1> QED BY <1>5, <1>8

\* It has been an inner grandchild: the parent p and the grandparent q of c are
\* its children after the two rotations.
LEMMA InnerSized ==
  ASSUME NEW t, NEW b, Grown(t, b), NEW p, NEW s, NEW c, NEW low, NEW inner, NEW outer, NEW q,
         Turn(t, p, s, c, low, inner, outer, q), t.kid[q][s] = p, q \in Nodes,
         NEW e, Wired(t, e, p, s, c, low, inner, outer, q), NEW x, Grown(e, x),
         NEW uncle, NEW o, Turn(e, q, Opp(s), c, uncle, outer, p, o),
         NEW g, Wired(e, g, q, Opp(s), c, uncle, outer, p, o), NEW d, Grown(g, d),
         Placed(g) = Placed(t),
         NEW f, f \in b[c], \A r \in Side : t.kid[f][r] = Null,
         NEW v, Sized(t, v, Line(t, b, f)), NEW a, a = rb_augment_insert(g, f)
  PROVE  Sized(g, v, Path(g, d, a)) /\ a \in Placed(g)
<1>1. /\ x[c] = b[p] /\ \A m \in Nodes : m # p /\ m # c => x[m] = b[m]
      /\ d[c] = x[q] /\ \A m \in Nodes : m # q /\ m # c => d[m] = x[m]
  BY TurnSpan
<1>2. /\ p \in Nodes /\ c \in Nodes /\ c # p /\ Null \notin Nodes /\ s \in Side /\ Opp(s) \in Side
      /\ p \in b[p] /\ b[c] \subseteq b[p] /\ p \notin b[c] /\ t.parent[c] = p /\ t.parent[p] = q
      /\ c \in b[c] /\ t.kid[p][Opp(s)] = c /\ Opp(Opp(s)) = s
  <2>1. p \in Nodes /\ c \in Nodes /\ s \in Side /\ t.kid[p][Opp(s)] = c /\ t.parent[p] = q
    BY DEF Turn
  <2> QED BY <2>1, TurnFacts, KeyFacts, SideFacts, LineFacts
<1>3. q # p /\ q # c /\ p \in b[q] /\ b[p] \subseteq b[q] /\ q \notin b[p] /\ q \in b[q]
  <2>1. q # p /\ p \in b[q] /\ b[p] \subseteq b[q] /\ q \notin b[p] /\ q \in b[q]
    BY <1>2, GrownKid, LineFacts
  <2> QED BY <1>2, <2>1
<1>4. /\ d[c] = b[q] /\ \A m \in Nodes : m # p /\ m # c /\ m # q => d[m] = b[m]
  BY <1>1, <1>3
<1>5. g.kid[c][Opp(s)] = q /\ g.kid[c][s] = p
  BY <1>2 DEF Wired
<1>6. f \in Nodes /\ f \in b[q] /\ f # p /\ f # q
  <2>1. b[q] \subseteq Nodes
    BY <1>2, GrownSides
  <2> QED BY <1>2, <1>3, <2>1
<1>7. IF f = c THEN a \in {p, q} ELSE a = f
  <2>1. CASE f = c
    BY <1>2, <1>5, <2>1, SideFacts DEF rb_augment_insert
  <2>2. CASE f # c
    <3>1. \A r \in Side : t.kid[f][r] # p /\ t.kid[f][r] # q
      BY <1>2
    <3>2. \A r \in Side : e.kid[f][r] = Null
      BY <1>6, <2>2, <3>1 DEF Wired
    <3>3. \A r \in Side : g.kid[f][r] = Null
      <4>1. \A r \in Side : e.kid[f][r] # q
        BY <1>2, <3>2
      <4> QED BY <1>6, <2>2, <3>2, <4>1 DEF Wired
    <3> QED BY <2>2, <3>3, SideFacts DEF rb_augment_insert
  <2> QED BY <2>1, <2>2
<1>8. a \in d[c] /\ a # c
  BY <1>2, <1>3, <1>4, <1>6, <1>7
<1>9. ASSUME NEW m \in Nodes, m # c, \A r \in Side : g.kid[c][r] # m
      PROVE  /\ f \in b[m] => a \in d[m]
             /\ f \notin b[m] => \A r \in Side : g.kid[m][r] = t.kid[m][r]
  <2>1. m # p /\ m # q /\ d[m] = b[m]
    BY <1>2, <1>4, <1>5, <1>9
  <2>2. f \in b[m] => a \in d[m]
    <3>1. c \in b[m] => p \in b[m]
      BY <1>2, <1>9, LineFacts
    <3>2. p \in b[m] => q \in b[m]
      BY <1>2, <2>1, LineFacts
    <3> QED BY <1>7, <2>1, <3>1, <3>2
  <2>3. ASSUME f \notin b[m], NEW r \in Side
        PROVE  g.kid[m][r] = t.kid[m][r]
    <3>1. t.kid[m][r] # p
      BY <1>2, <2>1, GrownKid
    <3>2. t.kid[m][r] # q
      BY <1>6, <2>3, LineFacts
    <3>3. e.kid[m][r] = t.kid[m][r]
      BY <1>9, <2>1, <3>1 DEF Wired
    <3> QED BY <1>9, <2>1, <3>2, <3>3 DEF Wired
  <2> QED BY <2>2, <2>3
<1>10. Sized(g, v, Path(g, d, a))
  BY <1>2, <1>8, <1>9, InsertTurned
<1>11. a \in Placed(g)
  <2>1. c \in Placed(g)
    BY <1>2, TurnFacts
  <2>2. d[c] \subseteq Placed(g)
    BY <1>2, <2>1, GrownMembers
  <2> QED BY <1>8, <2>2
<1> QED BY <1>10, <1>11

\* A pass of rb_augment_path: the values of a and of the other child of its
\* parent have become right.
LEMMA ClimbedSized ==
  ASSUME NEW t, NEW b, Grown(t, b), NEW a \in Placed(t), NEW p, t.parent[a] = p,
         NEW z, \A m \in Placed(t) : p # Null /\ t.parent[m] = p => m = a \/ m = z,
         z = Null \/ (z \in Placed(t) /\ z # a /\ p # Null /\ t.parent[z] = p),
         NEW v \in [Nodes -> Int], Sized(t, v, Path(t, b, a)),
         NEW y \in [Nodes -> Int], \A m \in Nodes : m # a => y[m] = v[m], Accurate(t, y, a),
         NEW w \in [Nodes -> Int], \A m \in Nodes : m # z => w[m] = y[m],
         z # Null => Accurate(t, w, z)
  PROVE  Sized(t, w, Path(t, b, p)) /\ p \in Placed(t) \cup {Null}
<1>1. a \in Nodes /\ Null \notin Nodes /\ p \in OrNull
  BY KeyFacts, GrownSides, SideFacts DEF Placed
<1>2. p \in Placed(t) \cup {Null}
  BY <1>1, GrownParent
<1>3. p # Null => p \in Nodes /\ a \in b[p] /\ (z # Null => z \in b[p])
  <2> SUFFICES ASSUME p # Null PROVE p \in Nodes /\ a \in b[p] /\ (z # Null => z \in b[p])
    OBVIOUS
  <2>1. p \in Nodes
    BY <1>1 DEF OrNull
  <2>2. ASSUME NEW m \in Placed(t), t.parent[m] = p
        PROVE  m \in b[p]
    <3>1. m # t.root
      BY <1>1, <2>1, <2>2, GrownParent
    <3>2. \E r \in Side : t.kid[p][r] = m
      BY <2>2, <3>1, GrownParent
    <3>3. m \in Nodes
      BY DEF Placed
    <3> QED BY <2>1, <3>2, <3>3, GrownKid
  <2> QED BY <2>1, <2>2
<1>4. ASSUME NEW m \in Placed(t), m \notin Path(t, b, p), m # a, m # z
      PROVE  /\ Accurate(t, v, m) /\ w[m] = v[m]
             /\ \A r \in Side : t.kid[m][r] # a /\ (z = Null \/ t.kid[m][r] # z)
  <2>1. m \in Nodes /\ w[m] = v[m]
    BY <1>4 DEF Placed
  <2>2. p # Null => m # p /\ p \notin b[m] /\ t.parent[m] # p
    <3>1. p \notin b[m]
      BY <1>4 DEF Path
    <3>2. m \in b[m]
      BY <2>1, LineFacts
    <3>3. p # Null => t.parent[m] # p
      BY <1>4
    <3> QED BY <3>1, <3>2, <3>3
  <2>3. \A r \in Side : t.kid[m][r] # a /\ (z = Null \/ t.kid[m][r] # z)
    <3>1. \A r \in Side, k \in Nodes : t.kid[m][r] = k => t.parent[k] = m
      BY <2>1, GrownKid
    <3>2. m # Null /\ (z # Null => z \in Nodes)
      BY <1>1, <2>1 DEF Placed
    <3> QED BY <1>1, <2>2, <3>1, <3>2
  <2>4. m \notin Path(t, b, a)
    <3>1. a \notin b[m]
      BY <1>1, <1>4, <2>1, <2>2, LineFacts
    <3>2. ASSUME t.parent[m] # a, a \in b[t.parent[m]]
          PROVE  FALSE
      <4>1. t.parent[m] \in Nodes
        <5>1. t.parent[m] \in OrNull
          BY <2>1, GrownSides, SideFacts
        <5>2. b[Null] = {}
          BY DEF Grown, Spanned
        <5> QED BY <3>2, <5>1, <5>2 DEF OrNull
      <4>2. p \in b[t.parent[m]]
        BY <3>2, <4>1, LineFacts
      <4>3. p # Null
        BY <1>1, <4>1, <4>2, LineFacts
      <4> QED BY <1>4, <2>2, <4>2, <4>3 DEF Path
    <3> QED BY <3>1, <3>2 DEF Path
  <2>5. Accurate(t, v, m)
    BY <2>4 DEF Sized
  <2> QED BY <2>1, <2>3, <2>5
<1>5. \A k \in OrNull : k # a /\ (z = Null \/ k # z) => SizeOf(w, k) = SizeOf(v, k)
  BY <1>1 DEF SizeOf, OrNull
<1>6. ASSUME NEW m \in Placed(t), m \notin Path(t, b, p), m # a, m # z
      PROVE  Accurate(t, w, m)
  <2>1. \A r \in Side : t.kid[m][r] \in OrNull
    BY GrownSides DEF Placed
  <2>2. \A r \in Side : SizeOf(w, t.kid[m][r]) = SizeOf(v, t.kid[m][r])
    BY <1>4, <1>5, <1>6, <2>1
  <2>3. /\ SizeOf(w, t.kid[m]["left"]) = SizeOf(v, t.kid[m]["left"])
        /\ SizeOf(w, t.kid[m]["right"]) = SizeOf(v, t.kid[m]["right"])
    BY <2>2, SideFacts
  <2> QED BY <1>4, <1>6, <2>3 DEF Accurate
<1>7. Accurate(t, w, a)
  <2>1. a # z
    BY <1>1
  <2>2. \A r \in Side : z = Null \/ t.kid[a][r] # z
    <3>1. z # Null => z \in Nodes /\ t.parent[z] # a
      BY <1>1 DEF Placed
    <3> QED BY <1>1, <3>1, GrownKid
  <2>3. \A k \in OrNull : z = Null \/ k # z => SizeOf(w, k) = SizeOf(y, k)
    BY <1>1 DEF SizeOf, OrNull
  <2>4. \A r \in Side : t.kid[a][r] \in OrNull
    BY <1>1, GrownSides
  <2>5. \A r \in Side : SizeOf(w, t.kid[a][r]) = SizeOf(y, t.kid[a][r])
    BY <2>2, <2>3, <2>4
  <2>6. /\ SizeOf(w, t.kid[a]["left"]) = SizeOf(y, t.kid[a]["left"])
        /\ SizeOf(w, t.kid[a]["right"]) = SizeOf(y, t.kid[a]["right"])
    BY <2>5, SideFacts
  <2>7. w[a] = y[a]
    BY <1>1, <2>1
  <2> QED BY <2>6, <2>7 DEF Accurate
<1>8. ASSUME NEW m \in Placed(t), m \notin Path(t, b, p)
      PROVE  Accurate(t, w, m)
  <2>1. m = z => z # Null
    BY <1>1 DEF Placed
  <2> QED BY <1>6, <1>7, <1>8, <2>1
<1> QED BY <1>2, <1>8 DEF Sized

\* Colours do not matter to the values.
LEMMA SameLinks ==
  ASSUME NEW t, NEW g, g.kid = t.kid, g.parent = t.parent
  PROVE  /\ Placed(g) = Placed(t)
         /\ \A b, a : Line(g, b, a) = Line(t, b, a) /\ Path(g, b, a) = Path(t, b, a)
         /\ \A v, X : Sized(t, v, X) => Sized(g, v, X)
         /\ \A a : rb_augment_insert(g, a) = rb_augment_insert(t, a)
<1>1. Placed(g) = Placed(t)
  BY DEF Placed
<1>2. \A v, m : Accurate(g, v, m) <=> Accurate(t, v, m)
  BY DEF Accurate, SizeOf
<1> QED BY <1>1, <1>2 DEF Line, Path, Sized, rb_augment_insert

-----------------------------------------------------------------------------
(* The values in the loop of rb_insert_color *)

\* An outer grandchild n, with the new node f below it.
LEMMA InsertOuterSized ==
  ASSUME NEW t, NEW b, Grown(t, b),
         NEW n, NEW s, NEW c, NEW low, NEW inner, NEW outer, NEW p,
         Turn(t, n, s, c, low, inner, outer, p), outer \in Nodes,
         NEW B, NEW R, R \subseteq Nodes, c \in B, c \notin R,
         NEW g, g = Rotate(Colour(t, B, R), n, s),
         NEW f, f \in b[outer], \A r \in Side : t.kid[f][r] = Null,
         NEW v, Sized(t, v, Line(t, b, f))
  PROVE  /\ g.parent[outer] \notin g.red /\ Placed(g) = Placed(t)
         /\ \E d : Grown(g, d) /\ Sized(g, v, Path(g, d, rb_augment_insert(g, f)))
<1>1. /\ Wired(t, g, n, s, c, low, inner, outer, p)
      /\ g.red = (t.red \ B) \cup R /\ Placed(g) = Placed(t) /\ \E d : Grown(g, d)
  BY TurnWired
<1>2. PICK d : Grown(g, d)
  BY <1>1
<1>3. rb_augment_insert(g, f) = f /\ Sized(g, v, Path(g, d, f))
  BY <1>1, <1>2, OuterSized
<1>4. g.parent[outer] = c
  <2>1. c \in Nodes /\ Opp(s) \in Side /\ g.kid[c][Opp(s)] = outer
    BY <1>1, SideFacts DEF Wired, Turn
  <2> QED BY <1>2, <2>1, GrownKid
<1> QED BY <1>1, <1>2, <1>3, <1>4

\* What InsertInnerSized asks: c is the inner child of p, the child of q on side s,
\* e is the tree after the rotation of p, and v is wrong only from the leaf f, in
\* the subtree of c, up.
InnerTurn(t, b, p, s, c, low, inner, outer, q, e, f, v) ==
  /\ Grown(t, b) /\ Turn(t, p, s, c, low, inner, outer, q)
  /\ t.kid[q][s] = p /\ q \in Nodes /\ e = Rotate(t, p, s)
  /\ f \in b[c] /\ (\A r \in Side : t.kid[f][r] = Null)
  /\ Sized(t, v, Line(t, b, f))

\* An inner grandchild c, with the new node f in its subtree.
LEMMA InsertInnerSized ==
  ASSUME NEW t, NEW b, NEW p, NEW s, NEW c, NEW low, NEW inner, NEW outer, NEW q, NEW e, NEW f, NEW v,
         InnerTurn(t, b, p, s, c, low, inner, outer, q, e, f, v),
         NEW B, NEW R, R \subseteq Nodes, c \in B, c \notin R,
         NEW g, g = Rotate(Colour(e, B, R), q, Opp(s))
  PROVE  /\ g.parent[p] \notin g.red /\ Placed(g) = Placed(t)
         /\ \E d : Grown(g, d) /\ Sized(g, v, Path(g, d, rb_augment_insert(g, f)))
<1> USE DEF InnerTurn
<1>1. Turned(t, e, p, s, c, low, inner, outer, q)
  BY RotateTurns
<1>2. Wired(t, e, p, s, c, low, inner, outer, q)
  BY <1>1 DEF Turned, Wired
<1>3. Placed(e) = Placed(t) /\ \E x : Grown(e, x)
  BY <1>1, TurnedGrown
<1>4. PICK x : Grown(e, x)
  BY <1>3
<1> DEFINE v2 == Opp(s)
           uncle == e.kid[q][v2]
           o == e.parent[q]
<1>5. /\ p \in Nodes /\ c \in Nodes /\ s \in Side /\ v2 \in Side /\ Opp(v2) = s /\ q # p /\ q # c
  <2>1. p \in Nodes /\ c \in Nodes /\ s \in Side
    BY DEF Turn
  <2>2. q # p /\ q # c
    BY TurnFacts
  <2> QED BY <2>1, <2>2, SideFacts
<1>6. e.kid[q][s] = c /\ e.kid[c][s] = p /\ e.kid[c][v2] = outer
  BY <1>2, <1>5 DEF Wired
<1>7. Turn(e, q, v2, c, uncle, outer, p, o)
  BY <1>5, <1>6 DEF Turn
<1>8. v2 = Opp(s)
  OBVIOUS
<1> HIDE DEF v2, uncle, o
<1>9. /\ Wired(e, g, q, v2, c, uncle, outer, p, o)
      /\ g.red = (e.red \ B) \cup R /\ Placed(g) = Placed(e) /\ \E d : Grown(g, d)
  BY <1>4, <1>7, <1>8, TurnWired
<1>10. PICK d : Grown(g, d)
  BY <1>9
<1>11. Sized(g, v, Path(g, d, rb_augment_insert(g, f)))
  <2>1. Turn(e, q, Opp(s), c, uncle, outer, p, o) /\ Wired(e, g, q, Opp(s), c, uncle, outer, p, o)
    BY <1>7, <1>8, <1>9
  <2>2. Placed(g) = Placed(t)
    BY <1>3, <1>9
  <2> QED BY ZenonT(60), <1>2, <1>4, <1>10, <2>1, <2>2, InnerSized
<1>12. g.parent[p] = c
  <2>1. g.kid[c][s] = p
    BY <1>5, <1>9 DEF Wired
  <2> QED BY <1>5, <1>10, <2>1, GrownKid
<1> QED BY <1>3, <1>9, <1>10, <1>11, <1>12

-----------------------------------------------------------------------------
(* The values in the loop of __rb_erase_color *)

\* The values are wrong only from f up, which is u or in the subtree of its child n.
Climbing(t, b, n, u, v, f) == (f = u \/ f \in b[n]) /\ SizedBut(t, b, v, f, Null, Null)

\* A red sibling is turned above the parent, or it is not red.
LEMMA LevelledSized ==
  ASSUME NEW t, NEW b, Grown(t, b), NEW h, NEW n, NEW u, NEW s, NEW q, Sibling(t, h, n, u, s, q),
         NEW g, g = IF q \in t.red THEN Rotate(Colour(t, {q}, {u}), u, s) ELSE t,
         NEW v, NEW f, Climbing(t, b, n, u, v, f)
  PROVE  \E d : Grown(g, d) /\ Climbing(g, d, n, u, v, f)
<1> USE DEF Climbing
<1>1. CASE q \notin t.red
  BY <1>1
<1>2. CASE q \in t.red
  <2> DEFINE inner == t.kid[q][s]
             outer == t.kid[q][Opp(s)]
             p == t.parent[u]
  <2>1. Turn(t, u, s, q, n, inner, outer, p)
    BY DEF Sibling, Low, Turn
  <2> HIDE DEF inner, outer, p
  <2>2. \A B1, R1, g1 : R1 \subseteq Nodes /\ g1 = Rotate(Colour(t, B1, R1), u, s) =>
          /\ Wired(t, g1, u, s, q, n, inner, outer, p)
          /\ Placed(g1) = Placed(t) /\ \E d : Grown(g1, d)
    BY <2>1, TurnWired
  <2>3. {u} \subseteq Nodes /\ g = Rotate(Colour(t, {q}, {u}), u, s)
    BY <1>2 DEF Sibling
  <2>4. /\ Wired(t, g, u, s, q, n, inner, outer, p)
        /\ Placed(g) = Placed(t) /\ \E d : Grown(g, d)
    BY <2>2, <2>3
  <2>5. PICK d : Grown(g, d)
    BY <2>4
  <2>6. SizedBut(g, d, v, f, Null, Null) /\ (f = u \/ f \in d[n])
    BY <2>1, <2>4, <2>5, RotatedSized
  <2> QED BY <2>5, <2>6
<1> QED BY <1>1, <1>2

\* Before the last rotation: the values are right but for those on f's line, of
\* the sibling of n when it is x, and of the sibling's outer child when it is y.
NephewReady(g, d, n, u, s, f, v, x, y) ==
  /\ Grown(g, d) /\ (f = u \/ f \in d[n]) /\ SizedBut(g, d, v, f, x, y)
  /\ \A r : g.kid[u][Opp(s)] = r =>
       (x = Null \/ x = r) /\ (y = Null \/ g.kid[r][Opp(s)] = y)

\* The inner nephew comes up over the sibling, or it does not.
LEMMA OuterNephewSized ==
  ASSUME NEW t, NEW b, Grown(t, b), NEW h, NEW n, NEW u, NEW s, NEW q, Sibling(t, h, n, u, s, q),
         ~(\A r \in Side : t.kid[q][r] \notin t.red),
         NEW g, g = IF t.kid[q][Opp(s)] \in t.red THEN t
                    ELSE Rotate(Colour(t, {t.kid[q][s]}, {q}), q, Opp(s)),
         NEW f, f = u \/ f \in b[n], NEW v, SizedBut(t, b, v, f, Null, Null)
  PROVE  \E d, x, y : NephewReady(g, d, n, u, s, f, v, x, y)
<1>1. /\ s \in Side /\ t.kid[u][s] = n /\ u \in Nodes /\ t.kid[u][Opp(s)] = q /\ q \in Nodes
      /\ Opp(s) \in Side /\ Opp(s) # s /\ Opp(Opp(s)) = s
  BY SideFacts DEF Sibling, Low
<1>2. CASE t.kid[q][Opp(s)] \in t.red
  <2>1. g = t
    BY <1>2
  <2>2. NephewReady(g, b, n, u, s, f, v, Null, Null)
    BY <2>1 DEF NephewReady
  <2> QED BY <2>2
<1>3. CASE t.kid[q][Opp(s)] \notin t.red
  <2> DEFINE i == t.kid[q][s]
             w == Opp(s)
             low == t.kid[q][w]
             inner == t.kid[i][w]
             outer == t.kid[i][s]
  <2>1. i \in Nodes
    <3>1. i \in t.red /\ t.red \subseteq Nodes
      BY <1>1, <1>3, SideFacts DEF Grown, Trees
    <3> QED BY <3>1
  <2>2. t.parent[q] = u
    BY <1>1, GrownKid
  <2>3. Turn(t, q, w, i, low, inner, outer, u)
    BY <1>1, <2>1, <2>2 DEF Turn
  <2>4. w = Opp(s) /\ w \in Side /\ Opp(w) = s
    BY <1>1
  <2>5. {q} \subseteq Nodes /\ g = Rotate(Colour(t, {i}, {q}), q, w)
    BY <1>1, <1>3
  <2> HIDE DEF i, w, low, inner, outer
  <2>6. \A B1, R1, g1 : R1 \subseteq Nodes /\ g1 = Rotate(Colour(t, B1, R1), q, w) =>
          /\ Wired(t, g1, q, w, i, low, inner, outer, u)
          /\ Placed(g1) = Placed(t) /\ \E d : Grown(g1, d)
    BY <2>3, TurnWired
  <2>7. /\ Wired(t, g, q, w, i, low, inner, outer, u)
        /\ Placed(g) = Placed(t) /\ \E d : Grown(g, d)
    BY <2>5, <2>6
  <2>8. PICK d : Grown(g, d)
    BY <2>7
  <2>9. /\ u # Null /\ f \in b[u] /\ b[Null] = {} /\ n \in OrNull /\ n # q
    <3>1. n \in OrNull /\ b[n] \subseteq b[u] /\ u \in b[u]
      BY <1>1, GrownSides
    <3>2. n # q
      BY <1>1, GrownKid
    <3>3. b[Null] = {}
      BY DEF Grown, Spanned
    <3> QED BY <1>1, <3>1, <3>2, <3>3, KeyFacts
  <2>10. SizedBut(g, d, v, f, i, q)
    BY <2>3, <2>7, <2>8, <2>9, NephewSized
  <2>11. g.kid[u][w] = i /\ g.kid[i][w] = q
    <3>1. u # q /\ u # i
      BY <2>3, TurnFacts
    <3> QED BY <1>1, <2>4, <2>7, <3>1 DEF Wired
  <2>12. f = u \/ f \in d[n]
    <3>1. n # i
      <4>1. t.parent[i] = q /\ q # u
        BY <2>3, TurnFacts
      <4> QED BY <1>1, <2>1, <4>1, GrownKid
    <3>2. \A m \in Nodes : m # q /\ m # i => d[m] = b[m]
      BY <2>3, <2>7, <2>8, TurnSpan
    <3> QED BY <2>9, <3>1, <3>2 DEF OrNull
  <2>13. \A r : g.kid[u][Opp(s)] = r => i = r /\ g.kid[r][Opp(s)] = q
    BY <2>4, <2>11
  <2>14. \A r : g.kid[u][Opp(s)] = r =>
           (i = Null \/ i = r) /\ (q = Null \/ g.kid[r][Opp(s)] = q)
    BY <2>13
  <2>15. NephewReady(g, d, n, u, s, f, v, i, q)
    BY <2>8, <2>10, <2>12, <2>14 DEF NephewReady
  <2> QED BY <2>15
<1> QED BY <1>2, <1>3

\* The last rotation: the nodes with wrong values are on the way of the climb.
LEMMA EraseRotateSized ==
  ASSUME NEW t, NEW b, Grown(t, b), NEW h, NEW n, NEW u, NEW s, NEW q, Sibling(t, h, n, u, s, q),
         NEW B, NEW R, R \subseteq Nodes, NEW g, g = Rotate(Colour(t, B, R), u, s),
         NEW f, f = u \/ f \in b[n], NEW v, NEW x, NEW y, SizedBut(t, b, v, f, x, y),
         x = Null \/ x = q, y = Null \/ t.kid[q][Opp(s)] = y
  PROVE  \E d : Grown(g, d) /\ Sized(g, v, Path(g, d, f))
<1> DEFINE inner == t.kid[q][s]
           outer == t.kid[q][Opp(s)]
           p == t.parent[u]
<1>1. Turn(t, u, s, q, n, inner, outer, p)
  BY DEF Sibling, Low, Turn
<1>2. (x = Null \/ x = q) /\ (y = Null \/ y = outer)
  OBVIOUS
<1> HIDE DEF inner, outer, p
<1>3. /\ Wired(t, g, u, s, q, n, inner, outer, p)
      /\ Placed(g) = Placed(t) /\ \E d : Grown(g, d)
  BY <1>1, TurnWired
<1>4. PICK d : Grown(g, d)
  BY <1>3
<1>5. Sized(g, v, Path(g, d, f))
  BY <1>1, <1>2, <1>3, <1>4, RotatedSized
<1> QED BY <1>4, <1>5

-----------------------------------------------------------------------------
(* The successor that the client looks for is the one that rb_erase finds *)

\* rb_next returns it.
LEMMA NextIs ==
  ASSUME NEW t, NEW b, Grown(t, b), NEW o, NEW n, Succeeds(t, b, o, n), t.kid[n]["left"] = Null
  PROVE  rb_next(t, o) = n
<1> DEFINE top == t.kid[o]["right"]
           last == Outermost(t, top, "left")
<1>1. /\ o \in Nodes /\ top \in Nodes /\ top # Null /\ "left" \in Side /\ "right" \in Side
      /\ Opp("left") = "right" /\ Opp("right") = "left" /\ ~EmptyNode(t, o)
  <2>1. o \in Placed(t) /\ top # Null
    BY DEF Succeeds
  <2>2. o \in Nodes /\ ~EmptyNode(t, o)
    BY <2>1 DEF Placed, EmptyNode
  <2>3. "left" \in Side /\ "right" \in Side /\ Opp("left") = "right" /\ Opp("right") = "left"
    BY DEF Side, Opp
  <2>4. top \in OrNull
    BY <2>2, <2>3, GrownSides
  <2> QED BY <2>1, <2>2, <2>3, <2>4 DEF OrNull
<1>2. rb_next(t, o) = last
  BY <1>1 DEF rb_next, Beside
<1>3. Nearest(b[top], "right", last)
  <2> HIDE DEF top
  <2>1. Nearest(b[top], Opp("left"), Outermost(t, top, "left"))
    BY <1>1, OutermostIs
  <2> QED BY <1>1, <2>1
<1>4. b[top] \subseteq Nodes
  BY <1>1, GrownSides
<1>5. n \in b[top] /\ \A m \in b[top] : m \in b[n] \/ Key[n] < Key[m]
  BY DEF Succeeds
<1> HIDE DEF top, last
<1>6. ASSUME NEW m \in b[top], m # n
      PROVE  Beyond("right", Key[m], Key[n])
  <2>1. CASE Key[n] < Key[m]
    BY <2>1 DEF Beyond
  <2>2. CASE m \in b[n]
    <3>1. n \in Nodes
      BY <1>4, <1>5
    <3>2. m \in b[t.kid[n]["right"]]
      <4>1. b[n] = {n} \cup b[t.kid[n]["left"]] \cup b[t.kid[n]["right"]] /\ b[Null] = {}
        BY <3>1 DEF Grown, Spanned
      <4> QED BY <1>6, <2>2, <4>1
    <3> QED BY <1>1, <3>1, <3>2 DEF Grown, Spanned
  <2> QED BY <1>5, <2>1, <2>2
<1>7. Nearest(b[top], "right", n)
  BY <1>5, <1>6 DEF Nearest
<1> QED BY <1>1, <1>2, <1>3, <1>4, <1>7, NearestUnique

-----------------------------------------------------------------------------
(* The inductive invariant of the client *)

\* In rb_insert_color with n: the new node f is below n and has no children, and
\* the values above it are wrong; or the loop is at its end, and what is wrong
\* is on the path that rb_augment_insert will return.
Entered(t, b, v, f, n) ==
  /\ f \in Placed(t)
  /\ \/ f \in b[n] /\ (\A s \in Side : t.kid[f][s] = Null) /\ Sized(t, v, Line(t, b, f))
     \/ t.parent[n] \notin t.red /\ Sized(t, v, Path(t, b, rb_augment_insert(t, f)))

\* In __rb_erase_color with n below u: f, at or above what is too low, begins
\* the line of wrong values; or the loop is at its end, and f begins the path.
Removed(t, b, v, f, n, u) ==
  /\ f \in Placed(t) \cup {Null}
  /\ IF u = Null THEN Sized(t, v, Path(t, b, f))
     ELSE (f = u \/ f \in b[n]) /\ SizedBut(t, b, v, f, Null, Null)

\* What holds of the client's variables, with the subtrees b.
AugHeld(t, b, v, f, a, k, n, u, o) ==
  /\ v \in [Nodes -> Int]
  /\ \/ k = "idle" /\ f = Null /\ a \in Placed(t) \cup {Null} /\ Sized(t, v, Path(t, b, a))
     \/ k = "descend" /\ a = Null /\ f = n /\ Sized(t, v, {})
     \/ k = "insert_color" /\ a = Null /\ Entered(t, b, v, f, n)
     \/ k = "successor" /\ a = Null /\ f = rb_augment_erase_begin(t, o) /\ Sized(t, v, {})
     \/ k = "erase_color" /\ a = Null /\ Removed(t, b, v, f, n, u)

\* The inductive invariant, together with RbInv.
AugInv == \E b : Grown(tree, b) /\ AugHeld(tree, b, size, start, at, pc, node, up, old)

\* Null is in no subtree.
LEMMA NoPath ==
  ASSUME NEW t, NEW b, Grown(t, b)
  PROVE  Path(t, b, Null) = {} /\ Line(t, b, Null) = {}
<1>1. b[Null] = {} /\ \A m \in Nodes : b[m] \subseteq Nodes
  BY DEF Grown, Spanned, OrNull
<1>2. \A m \in Placed(t) : m \in Nodes /\ t.parent[m] \in OrNull
  BY GrownSides, SideFacts DEF Placed
<1> QED BY <1>1, <1>2, KeyFacts DEF Path, Line, OrNull

\* The program counter tells which of the cases it is.
LEMMA AugCases ==
  ASSUME AugInv
  PROVE  /\ size \in [Nodes -> Int]
         /\ pc # "idle" => at = Null
         /\ pc = "idle" => start = Null
         /\ pc = "idle" /\ at = Null => Sized(tree, size, {})
         /\ pc = "idle" => /\ at \in Placed(tree) \cup {Null}
                           /\ \E b : Grown(tree, b) /\ Sized(tree, size, Path(tree, b, at))
         /\ pc = "descend" => start = node /\ Sized(tree, size, {})
         /\ pc = "insert_color" => \E b : Grown(tree, b) /\ Entered(tree, b, size, start, node)
         /\ pc = "successor" => start = rb_augment_erase_begin(tree, old) /\ Sized(tree, size, {})
         /\ pc = "erase_color" => \E b : Grown(tree, b) /\ Removed(tree, b, size, start, node, up)
<1>1. PICK b : Grown(tree, b) /\ AugHeld(tree, b, size, start, at, pc, node, up, old)
  BY DEF AugInv
<1>2. at = Null => Path(tree, b, at) = {}
  BY <1>1, NoPath
<1> QED BY <1>1, <1>2 DEF AugHeld

\* The links are in order in the next state too, if the invariant holds there.
LEMMA GrownNext ==
  ASSUME RbInv'
  PROVE  \E b : Grown(tree', b)
<1>1. \A t, b, h, k, n, u, o : Held(t, b, h, k, n, u, o) => Grown(t, b)
  BY DEF Held, AtRest, Inserting, Erasing
<1> QED BY <1>1 DEF RbInv

\* No node is in the tree, and no value wrong.
LEMMA AugInitHeld ==
  ASSUME AugmentedInit
  PROVE  AugInv
<1>1. Init /\ size = [n \in Nodes |-> 0] /\ start = Null /\ at = Null
  BY DEF AugmentedInit
<1>2. PICK b : Grown(tree, b)
  BY <1>1, InitHeld, HeldGrown
<1>3. Placed(tree) = {} /\ pc = "idle"
  BY <1>1 DEF Init, Placed
<1>4. size \in [Nodes -> Int] /\ Sized(tree, size, Path(tree, b, at))
  BY <1>1, <1>3 DEF Sized
<1> QED BY <1>1, <1>2, <1>3, <1>4 DEF AugInv, AugHeld

\* InsertAugmented keeps it.
LEMMA InsertAugHeld ==
  ASSUME AugInv, NEW n \in Nodes, InsertAugmented(n)
  PROVE  AugInv'
<1>1. /\ at = Null /\ pc = "idle" /\ pc' = "descend" /\ node' = n /\ tree' = tree /\ old' = old
      /\ start' = n /\ size' = size /\ at' = at
  BY DEF InsertAugmented, Insert
<1>2. size \in [Nodes -> Int] /\ Sized(tree, size, {}) /\ \E b : Grown(tree, b)
  BY <1>1, AugCases
<1> QED BY <1>1, <1>2 DEF AugInv, AugHeld

\* PresentAugmented keeps it.
LEMMA PresentAugHeld ==
  ASSUME RbInv, AugInv, PresentAugmented
  PROVE  AugInv'
<1>1. /\ pc = "descend" /\ pc' = "idle" /\ tree' = tree
      /\ start' = Null /\ size' = size /\ at' = at
  BY DEF PresentAugmented, Present
<1>2. size \in [Nodes -> Int] /\ Sized(tree, size, {}) /\ at = Null
  BY <1>1, AugCases
<1>3. PICK b : Grown(tree, b)
  BY HeldGrown
<1>4. Sized(tree, size, Path(tree, b, Null))
  BY <1>2, <1>3, NoPath
<1> QED BY <1>1, <1>2, <1>3, <1>4 DEF AugInv, AugHeld

\* LinkNode keeps it: the values above the new node are wrong.
LEMMA LinkNodeAugHeld ==
  ASSUME RbInv, AugInv, LinkNode, UNCHANGED <<size, start, at>>
  PROVE  AugInv'
<1>1. /\ pc = "descend" /\ Link(tree, node, up) = Null /\ tree' = Linked(tree, node, up)
      /\ pc' = "insert_color" /\ up' = Null /\ node' = node /\ old' = old
      /\ size' = size /\ start' = start /\ at' = at
  BY DEF LinkNode
<1>2. PICK b, h : AtRest(tree, b, h) /\ Descended(tree, b, node, up)
  BY <1>1, HeldCases
<1>3. size \in [Nodes -> Int] /\ Sized(tree, size, {}) /\ at = Null /\ start = node
  BY <1>1, AugCases
<1>4. Grown(tree, b)
  BY <1>2 DEF AtRest
<1>5. PICK d : Grown(tree', d)
  BY LinkNodeHeld, GrownNext
<1>6. Leafed(tree, tree', node, up)
  <2>1. /\ tree \in Trees /\ node \in Nodes /\ up \in OrNull /\ up # node
        /\ node \notin Placed(tree) /\ Null \notin tree.red
    BY <1>2, <1>4, KeyFacts, OneFacts DEF Grown, Descended, OrNull, Placed
  <2> QED BY <1>1, <1>2, <1>4, <2>1, LinkFields
<1>7. Sized(tree', size, Line(tree', d, node))
  BY <1>2, <1>3, <1>4, <1>5, <1>6, LeafedSized
<1>8. node \in d[node] /\ node \in Placed(tree') /\ \A s \in Side : tree'.kid[node][s] = Null
  <2>1. node \in Nodes /\ node \in Placed(tree')
    BY LinkNodeHeld
  <2> QED BY <1>5, <1>6, <2>1, LineFacts DEF Leafed
<1>9. Entered(tree', d, size, node, node)
  BY <1>7, <1>8 DEF Entered
<1> QED BY <1>1, <1>3, <1>5, <1>9 DEF AugInv, AugHeld

\* Descend and EraseWalk keep it.
LEMMA WalkAugHeld ==
  ASSUME AugInv, Descend \/ EraseWalk, UNCHANGED <<size, start, at>>
  PROVE  AugInv'
<1>1. /\ pc \in {"descend", "successor"} /\ pc' = pc /\ tree' = tree /\ old' = old
      /\ size' = size /\ start' = start /\ at' = at
      /\ pc = "descend" => node' = node
  BY DEF Descend, EraseWalk
<1>2. size \in [Nodes -> Int] /\ Sized(tree, size, {}) /\ at = Null /\ \E b : Grown(tree, b)
  BY <1>1, AugCases DEF AugInv
<1>3. /\ pc = "descend" => start = node
      /\ pc = "successor" => start = rb_augment_erase_begin(tree, old)
  BY AugCases
<1> QED BY <1>1, <1>2, <1>3 DEF AugInv, AugHeld

\* With a red parent, the new node is below the one that is looked at.
LEMMA RedEntered ==
  ASSUME AugInv, pc = "insert_color", tree.parent[node] \in tree.red
  PROVE  /\ size \in [Nodes -> Int] /\ at = Null /\ start \in Placed(tree)
         /\ \A s \in Side : tree.kid[start][s] = Null
         /\ \E b : Grown(tree, b) /\ start \in b[node] /\ Sized(tree, size, Line(tree, b, start))
BY AugCases DEF Entered

\* InsertRecolour keeps it.
LEMMA InsertRecolourAugHeld ==
  ASSUME RbInv, AugInv, InsertRecolour, UNCHANGED <<size, start, at>>
  PROVE  AugInv'
<1> DEFINE p == tree.parent[node]
           q == tree.parent[p]
           s == SideOf(tree, p, q)
           z == tree.kid[q][Opp(s)]
<1>1. /\ pc = "insert_color" /\ p \in tree.red /\ tree' = Colour(tree, {z, p}, {q})
      /\ node' = q /\ pc' = pc /\ up' = up /\ old' = old
      /\ size' = size /\ start' = start /\ at' = at
  <2>1. Parent = p /\ Gparent = q /\ ParentSide = s /\ Uncle = z
    BY DEF Parent, Gparent, ParentSide, Uncle
  <2> HIDE DEF p, q, s, z
  <2> QED BY <2>1 DEF InsertRecolour, RedParent
<1>2. PICK b, h : Inserting(tree, b, h, node)
  BY <1>1, HeldCases
<1>3. /\ q \in Nodes /\ p \in Nodes /\ node \in Nodes /\ s \in Side /\ tree.kid[q][s] = p
      /\ \E r \in Side : tree.kid[p][r] = node
  BY SMTT(30), <1>1, <1>2, RedParents
<1> HIDE DEF p, q, s, z
<1>4. /\ size \in [Nodes -> Int] /\ at = Null /\ start \in Placed(tree)
      /\ \A r \in Side : tree.kid[start][r] = Null
  BY <1>1, RedEntered DEF p
<1>5. PICK d : Grown(tree, d) /\ start \in d[node] /\ Sized(tree, size, Line(tree, d, start))
  BY <1>1, RedEntered DEF p
<1>6. Grown(tree', d) /\ tree'.kid = tree.kid /\ tree'.parent = tree.parent
  <2>1. {q} \subseteq Nodes
    BY <1>3
  <2>2. tree \in Trees
    BY <1>5 DEF Grown
  <2>3. \A B1, R1, g1 : R1 \subseteq Nodes /\ g1 = Colour(tree, B1, R1) =>
          Grown(g1, d) /\ g1.kid = tree.kid /\ g1.parent = tree.parent
    BY <1>5, <2>2, ColourGrown, ColourFields
  <2> QED BY <1>1, <2>1, <2>3
<1>7. start \in d[q]
  <2>1. d[node] \subseteq d[p] /\ d[p] \subseteq d[q]
    BY <1>3, <1>5, GrownKid
  <2> QED BY <1>5, <2>1
<1>8. Entered(tree', d, size, start, q)
  <2>1. /\ Placed(tree') = Placed(tree) /\ Line(tree', d, start) = Line(tree, d, start)
        /\ Sized(tree', size, Line(tree, d, start))
    BY <1>5, <1>6, SameLinks
  <2> QED BY <1>4, <1>6, <1>7, <2>1 DEF Entered
<1> QED BY <1>1, <1>4, <1>6, <1>8 DEF AugInv, AugHeld

\* InsertRotate keeps it.
LEMMA InsertRotateAugHeld ==
  ASSUME RbInv, AugInv, InsertRotate, UNCHANGED <<size, start, at>>
  PROVE  AugInv'
<1> DEFINE p == tree.parent[node]
           q == tree.parent[p]
           s == SideOf(tree, p, q)
           e == Rotate(tree, p, s)
<1>1. /\ pc = "insert_color" /\ p \in tree.red /\ pc' = pc /\ up' = up /\ old' = old
      /\ size' = size /\ start' = start /\ at' = at
  <2>1. Parent = p /\ Gparent = q /\ ParentSide = s /\ Uncle = tree.kid[q][Opp(s)]
    BY DEF Parent, Gparent, ParentSide, Uncle
  <2> HIDE DEF p, q, s, e
  <2> QED BY <2>1 DEF InsertRotate, RedParent
<1>2. PICK b, h : Inserting(tree, b, h, node)
  BY <1>1, HeldCases
<1>3. /\ q \in Nodes /\ p \in Nodes /\ node \in Nodes /\ s \in Side /\ tree.kid[q][s] = p /\ q # p
      /\ q # node /\ Opp(s) \in Side /\ Opp(Opp(s)) = s
      /\ \E r \in Side : tree.kid[p][r] = node
  BY <1>1, <1>2, RedParents
<1>4. /\ size \in [Nodes -> Int] /\ at = Null /\ start \in Placed(tree)
      /\ \A r \in Side : tree.kid[start][r] = Null
  BY <1>1, RedEntered
<1>5. PICK d : Grown(tree, d) /\ start \in d[node] /\ Sized(tree, size, Line(tree, d, start))
  BY <1>1, RedEntered
<1>6. /\ tree.kid[p][Opp(s)] # node =>
           tree' = Rotate(Colour(tree, {p}, {q}), q, Opp(s)) /\ node' = node
      /\ tree.kid[p][Opp(s)] = node =>
           tree' = Rotate(Colour(e, {node}, {q}), q, Opp(s)) /\ node' = p
  <2>1. Parent = p /\ Gparent = q /\ ParentSide = s
    BY DEF Parent, Gparent, ParentSide
  <2>2. Rotate(tree, p, s) = e
    OBVIOUS
  <2> HIDE DEF p, q, s, e
  <2> QED BY <2>1, <2>2 DEF InsertRotate
<1>7. /\ p = tree.parent[node] /\ q = tree.parent[p] /\ e = Rotate(tree, p, s)
  OBVIOUS
<1>8. {q} \subseteq Nodes
  BY <1>3
<1> HIDE DEF p, q, s, e
<1>9. /\ tree'.parent[node'] \notin tree'.red /\ Placed(tree') = Placed(tree)
      /\ \E x : /\ Grown(tree', x)
                /\ Sized(tree', size, Path(tree', x, rb_augment_insert(tree', start)))
  <2>1. CASE tree.kid[p][Opp(s)] # node
    <3> DEFINE low == tree.kid[q][Opp(s)]
               inner == tree.kid[p][Opp(s)]
               o == tree.parent[q]
    <3>1. tree.kid[p][s] = node
      BY <1>3, <2>1, SideFacts
    <3>2. Turn(tree, q, Opp(s), p, low, inner, node, o)
      BY <1>3, <3>1 DEF Turn
    <3> HIDE DEF low, inner, o
    <3>3. \A B1, R1, g1 : R1 \subseteq Nodes /\ p \in B1 /\ p \notin R1
                             /\ g1 = Rotate(Colour(tree, B1, R1), q, Opp(s)) =>
            /\ g1.parent[node] \notin g1.red /\ Placed(g1) = Placed(tree)
            /\ \E x : Grown(g1, x) /\ Sized(g1, size, Path(g1, x, rb_augment_insert(g1, start)))
      BY <1>3, <1>4, <1>5, <3>2, InsertOuterSized
    <3>4. tree' = Rotate(Colour(tree, {p}, {q}), q, Opp(s)) /\ node' = node
      BY <1>6, <2>1
    <3>5. p \in {p} /\ p \notin {q}
      BY <1>3
    <3> QED BY <1>8, <3>3, <3>4, <3>5
  <2>2. CASE tree.kid[p][Opp(s)] = node
    <3> DEFINE low == tree.kid[p][s]
               inner == tree.kid[node][s]
               outer == tree.kid[node][Opp(s)]
    <3>1. Turn(tree, p, s, node, low, inner, outer, q)
      BY <1>3, <1>7, <2>2 DEF Turn
    <3> HIDE DEF low, inner, outer
    <3>2. \A B1, R1, g1 : R1 \subseteq Nodes /\ node \in B1 /\ node \notin R1
                             /\ g1 = Rotate(Colour(e, B1, R1), q, Opp(s)) =>
            /\ g1.parent[p] \notin g1.red /\ Placed(g1) = Placed(tree)
            /\ \E x : Grown(g1, x) /\ Sized(g1, size, Path(g1, x, rb_augment_insert(g1, start)))
      <4>1. InnerTurn(tree, d, p, s, node, low, inner, outer, q, e, start, size)
        BY <1>3, <1>4, <1>5, <1>7, <3>1 DEF InnerTurn
      <4> QED BY <4>1, InsertInnerSized
    <3>3. tree' = Rotate(Colour(e, {node}, {q}), q, Opp(s)) /\ node' = p
      BY <1>6, <2>2
    <3>4. node \in {node} /\ node \notin {q}
      BY <1>3
    <3> QED BY <1>8, <3>2, <3>3, <3>4
  <2> QED BY <2>1, <2>2
<1>10. PICK x : /\ Grown(tree', x)
                /\ Sized(tree', size, Path(tree', x, rb_augment_insert(tree', start)))
  BY <1>9
<1>11. Entered(tree', x, size, start, node')
  BY <1>4, <1>9, <1>10 DEF Entered
<1> QED BY <1>1, <1>4, <1>10, <1>11 DEF AugInv, AugHeld

\* InsertDoneAugmented keeps it: the climb begins where rb_augment_insert says.
LEMMA InsertDoneAugHeld ==
  ASSUME RbInv, AugInv, InsertDoneAugmented
  PROVE  AugInv'
<1> DEFINE a == rb_augment_insert(tree, start)
<1>1. /\ pc = "insert_color" /\ tree' = Colour(tree, {tree.root}, {}) /\ pc' = "idle"
      /\ at' = a /\ start' = Null /\ size' = size
  BY DEF InsertDoneAugmented, InsertDone
<1>2. size \in [Nodes -> Int]
  BY AugCases
<1>3. PICK d : Grown(tree, d) /\ Entered(tree, d, size, start, node)
  BY <1>1, AugCases
<1>4. /\ start \in Placed(tree)
      /\ \/ (\A s \in Side : tree.kid[start][s] = Null) /\ Sized(tree, size, Line(tree, d, start))
         \/ Sized(tree, size, Path(tree, d, a))
  BY <1>3 DEF Entered
<1>5. a \in Placed(tree)
  <2>1. start \in Nodes
    BY <1>4 DEF Placed
  <2>2. \A s \in Side : tree.kid[start][s] # Null => tree.kid[start][s] \in Placed(tree)
    <3>1. \A s \in Side : tree.kid[start][s] \in OrNull
      BY <1>3, <2>1, GrownSides
    <3> QED BY <1>3, <2>1, <3>1, GrownKid DEF OrNull
  <2> QED BY <1>4, <2>2, SideFacts DEF rb_augment_insert
<1>6. Sized(tree, size, Path(tree, d, a))
  <2>1. CASE (\A s \in Side : tree.kid[start][s] = Null) /\ Sized(tree, size, Line(tree, d, start))
    <3>1. a = start
      BY <2>1, SideFacts DEF rb_augment_insert
    <3>2. Sized(tree, size, Path(tree, d, start))
      BY <2>1, LinePath
    <3> QED BY <3>1, <3>2
  <2> QED BY <1>4, <2>1
<1> HIDE DEF a
<1>7. Grown(tree', d) /\ tree'.kid = tree.kid /\ tree'.parent = tree.parent
  <2>1. tree \in Trees /\ {} \subseteq Nodes
    BY <1>3 DEF Grown
  <2>2. \A B1, R1 : R1 \subseteq Nodes => Grown(Colour(tree, B1, R1), d)
    BY <1>3, ColourGrown
  <2>3. \A B1, R1 : R1 \subseteq Nodes =>
          Colour(tree, B1, R1).kid = tree.kid /\ Colour(tree, B1, R1).parent = tree.parent
    BY <2>1, ColourFields
  <2> QED BY <1>1, <2>1, <2>2, <2>3
<1>8. /\ Placed(tree') = Placed(tree) /\ Path(tree', d, a) = Path(tree, d, a)
      /\ Sized(tree', size, Path(tree, d, a))
  BY <1>6, <1>7, SameLinks
<1> QED BY <1>1, <1>2, <1>5, <1>7, <1>8 DEF AugInv, AugHeld

\* EraseAugmented keeps it, if the erased node has at most one child.
LEMMA EraseUnlinkAugHeld ==
  ASSUME RbInv, AugInv, NEW n \in Nodes, at = Null, EraseUnlink(n), size' = [size EXCEPT ![n] = 0],
         Begin(rb_augment_erase_begin(tree, n))
  PROVE  AugInv'
<1> DEFINE child == IF tree.kid[n]["left"] = Null THEN tree.kid[n]["right"]
                                                  ELSE tree.kid[n]["left"]
           p == tree.parent[n]
           a == rb_augment_erase_begin(tree, n)
<1>1. /\ pc = "idle" /\ n \in Placed(tree)
      /\ tree.kid[n]["left"] = Null \/ tree.kid[n]["right"] = Null
      /\ tree' = InitNode(Unlink(tree, n, child), n)
      /\ \/ pc' = "idle"
         \/ pc' = "erase_color" /\ node' = child /\ up' = p
      /\ IF pc' = "idle" THEN at' = a /\ start' = Null ELSE start' = a /\ at' = Null
  BY MembersPlaced DEF EraseUnlink, Begin
<1>2. a = IF child = Null THEN p ELSE child
  BY <1>1 DEF rb_augment_erase_begin
<1>3. \E s \in Side : Loose(tree, n, s, child, p)
  <2>1. CASE tree.kid[n]["left"] = Null
    <3>1. Loose(tree, n, "right", child, p)
      BY <1>1, <2>1 DEF Loose, Side, Opp
    <3> QED BY <3>1 DEF Side
  <2>2. CASE tree.kid[n]["left"] # Null
    <3>1. Loose(tree, n, "left", child, p)
      BY <1>1, <2>2 DEF Loose, Side, Opp
    <3> QED BY <3>1 DEF Side
  <2> QED BY <2>1, <2>2
<1> HIDE DEF child, p, a
<1>4. PICK s \in Side : Loose(tree, n, s, child, p)
  BY <1>3
<1>5. size \in [Nodes -> Int] /\ Sized(tree, size, {})
  BY <1>1, AugCases
<1>6. PICK b, h : AtRest(tree, b, h)
  BY <1>1, HeldCases
<1>7. Grown(tree, b)
  BY <1>6 DEF AtRest
<1>8. Unlinked(tree, tree', n, child, p)
  BY <1>1, <1>4, <1>7, UnlinkFields
<1>9. PICK d : Grown(tree', d)
  BY EraseUnlinkHeld, GrownNext
<1>10. /\ Sized(tree', size', Line(tree', d, a)) /\ a \in Placed(tree') \cup {Null}
       /\ p # Null => a = p \/ a \in d[child]
  <2>1. \A w1, a1 : (\A m \in Nodes : m # n => w1[m] = size[m]) /\ a1 = (IF child = Null THEN p ELSE child) =>
          /\ Sized(tree', w1, Line(tree', d, a1)) /\ a1 \in Placed(tree') \cup {Null}
          /\ p # Null => a1 = p \/ a1 \in d[child]
    BY <1>4, <1>5, <1>7, <1>8, <1>9, UnlinkedSized
  <2>2. \A m \in Nodes : m # n => size'[m] = size[m]
    BY <1>5
  <2> QED BY <1>2, <2>1, <2>2
<1>11. size' \in [Nodes -> Int]
  BY <1>5
<1>12. Sized(tree', size', Path(tree', d, a)) /\ SizedBut(tree', d, size', a, Null, Null)
  BY <1>10, LinePath, LineBut
<1>13. CASE pc' = "idle"
  BY <1>1, <1>9, <1>10, <1>11, <1>12, <1>13 DEF AugInv, AugHeld
<1>14. CASE pc' = "erase_color" /\ node' = child /\ up' = p
  <2>1. Removed(tree', d, size', a, child, p)
    BY <1>10, <1>12 DEF Removed
  <2> QED BY <1>1, <1>9, <1>11, <1>14, <2>1 DEF AugInv, AugHeld
<1> QED BY <1>1, <1>13, <1>14

\* EraseAugmented keeps it, if the erased node has two children.
LEMMA EraseInnerAugHeld ==
  ASSUME RbInv, AugInv, NEW n \in Nodes, at = Null, EraseInner(n), UNCHANGED size,
         Begin(rb_augment_erase_begin(tree, n))
  PROVE  AugInv'
<1>1. /\ pc = "idle" /\ pc' = "successor" /\ old' = n /\ tree' = tree
      /\ at' = Null /\ start' = rb_augment_erase_begin(tree, n) /\ size' = size
  BY DEF EraseInner, Begin
<1>2. size \in [Nodes -> Int] /\ Sized(tree, size, {})
  BY <1>1, AugCases
<1>3. PICK b : Grown(tree, b)
  BY DEF AugInv
<1> QED BY <1>1, <1>2, <1>3 DEF AugInv, AugHeld

\* SpliceAugmented keeps it: the climb begins at the deepest node that the
\* move of the successor has changed.
LEMMA SpliceAugHeld ==
  ASSUME RbInv, AugInv, SpliceAugmented
  PROVE  AugInv'
<1> DEFINE child == tree.kid[node]["right"]
           p == tree.parent[node]
           f == InitNode(Unlink(tree, node, child), node)
<1>1. /\ pc = "successor" /\ tree.kid[node]["left"] = Null
      /\ tree' = InitNode(Spliced(tree, old, node), old)
      /\ \/ pc' = "idle"
         \/ pc' = "erase_color" /\ node' = child /\ up' = IF p = old THEN node ELSE p
      /\ size' = [size EXCEPT ![old] = 0]
      /\ IF pc' = "idle" THEN at' = start /\ start' = Null ELSE start' = start /\ at' = at
  BY DEF SpliceAugmented, Splice, Begin
<1>2. at = Null /\ size \in [Nodes -> Int] /\ Sized(tree, size, {})
      /\ start = rb_augment_erase_begin(tree, old)
  BY <1>1, AugCases
<1>3. PICK b, h : AtRest(tree, b, h) /\ Succeeds(tree, b, old, node)
  BY <1>1, HeldCases
<1>4. Grown(tree, b)
  BY <1>3 DEF AtRest
<1>5. node = rb_next(tree, old) /\ old \in Nodes /\ old # node /\ node \in Placed(tree)
  <2>1. node = rb_next(tree, old)
    BY <1>1, <1>3, <1>4, NextIs
  <2> QED BY <1>1, <1>3, <1>4, <2>1, SucceedsFacts
<1>6. start = IF child # Null THEN child ELSE IF p # old THEN p ELSE node
  <2>1. tree.kid[old]["left"] # Null /\ tree.kid[old]["right"] # Null
    BY <1>3 DEF Succeeds
  <2> QED BY <1>2, <1>5, <2>1 DEF rb_augment_erase_begin
<1>7. Loose(tree, node, "right", child, p)
  BY <1>1, <1>5 DEF Loose, Side, Opp
<1>8. /\ Unlinked(tree, f, node, child, p)
  BY <1>4, <1>7, UnlinkFields
<1> DEFINE c == [m \in OrNull |-> IF m = node THEN {node} ELSE b[m] \ {node}]
<1>9. Grown(f, c)
  BY <1>4, <1>7, <1>8, UnlinkedGrown
<1>10. c[old] = b[old] \ {node}
  BY <1>5 DEF OrNull
<1>11. Fits(f, c, old, node)
  BY <1>1, <1>3, <1>4, <1>8, SuccessorFits
<1>12. Placing(f, tree', old, node)
  BY <1>1, <1>3, <1>4, <1>8, SpliceFields
<1> HIDE DEF child, p, f, c
<1>13. PICK d : Grown(tree', d) /\ c[old] \ {old} \subseteq d[node]
  BY <1>9, <1>11, <1>12, PlacedGrown
<1>14. b[old] \ {old, node} \subseteq d[node]
  BY <1>10, <1>13
<1>15. Placed(tree') = Placed(tree) \ {old}
  BY SpliceHeld DEF SpliceAugmented
<1>16. child = tree.kid[node]["right"] /\ p = tree.parent[node]
  BY DEF child, p
<1>17. /\ Sized(tree', size', Line(tree', d, start)) /\ start \in Placed(tree')
       /\ start = (IF p = old THEN node ELSE p) \/ start \in d[child]
  <2>1. \A w1, a1 : (\A m \in Nodes : m # old => w1[m] = size[m])
                    /\ a1 = (IF child # Null THEN child ELSE IF p # old THEN p ELSE node) =>
          /\ Sized(tree', w1, Line(tree', d, a1)) /\ a1 \in Placed(tree')
          /\ a1 = (IF p = old THEN node ELSE p) \/ a1 \in d[child]
    <3>1. tree.kid[node]["left"] = Null
      BY <1>1
    <3>2. size \in [Nodes -> Int] /\ Sized(tree, size, {})
      BY <1>2
    <3>3. Succeeds(tree, b, old, node) /\ Grown(tree', d)
      BY <1>3, <1>13
    <3> QED BY <1>4, <1>8, <1>12, <1>14, <1>15, <1>16, <3>1, <3>2, <3>3, SplicedSized
  <2>2. \A m \in Nodes : m # old => size'[m] = size[m]
    BY <1>1, <1>2
  <2> QED BY <1>6, <2>1, <2>2
<1>18. size' \in [Nodes -> Int]
  <2>1. size' = [size EXCEPT ![old] = 0] /\ size \in [Nodes -> Int]
    BY <1>1, <1>2
  <2> QED BY <1>5, <2>1
<1>19. Sized(tree', size', Path(tree', d, start)) /\ SizedBut(tree', d, size', start, Null, Null)
  BY <1>17, LinePath, LineBut
<1>20. CASE pc' = "idle"
  BY <1>1, <1>13, <1>17, <1>18, <1>19, <1>20 DEF AugInv, AugHeld
<1>21. CASE pc' = "erase_color" /\ node' = child /\ up' = IF p = old THEN node ELSE p
  <2>1. Removed(tree', d, size', start, child, up')
    BY <1>17, <1>19, <1>21 DEF Removed
  <2> QED BY <1>1, <1>2, <1>13, <1>18, <1>21, <2>1 DEF AugInv, AugHeld
<1> QED BY <1>1, <1>20, <1>21

\* What the two actions of the loop of __rb_erase_color begin with.
LEMMA LevelledAug ==
  ASSUME RbInv, AugInv, pc = "erase_color", Deficient, NEW s, s = LowSide
  PROVE  /\ up \in Nodes /\ size \in [Nodes -> Int] /\ at = Null /\ start \in Placed(Levelled) \cup {Null}
         /\ \E d, h : /\ Grown(Levelled, d) /\ Sibling(Levelled, h, node, up, s, Other)
                      /\ (start = up \/ start \in d[node])
                      /\ SizedBut(Levelled, d, size, start, Null, Null)
<1> DEFINE q == tree.kid[up][Opp(s)]
<1>1. PICK b, h : Erasing(tree, b, h, node, up)
  BY HeldCases
<1>2. node \notin tree.red /\ node # tree.root /\ s = SideOf(tree, node, up)
  BY DEF Deficient, LowSide
<1>3. /\ Low(tree, h, node, up, s) /\ Apart(tree, Null, Null)
      /\ up \in Nodes /\ q \in Nodes
  BY <1>1, <1>2, LowPlace
<1>4. /\ Levelled = IF q \in tree.red THEN Rotate(Colour(tree, {q}, {up}), up, s) ELSE tree
      /\ q = tree.kid[up][Opp(s)]
  BY DEF Levelled
<1> HIDE DEF q
<1>5. Sibling(tree, h, node, up, s, q)
  BY <1>2, <1>3, <1>4 DEF Sibling
<1>6. PICK c : Grown(tree, c) /\ Removed(tree, c, size, start, node, up)
  BY AugCases
<1>7. /\ start \in Placed(tree) \cup {Null} /\ (start = up \/ start \in c[node])
      /\ SizedBut(tree, c, size, start, Null, Null)
  BY <1>3, <1>6, KeyFacts DEF Removed
<1>8. \E d : /\ Grown(Levelled, d) /\ (start = up \/ start \in d[node])
             /\ SizedBut(Levelled, d, size, start, Null, Null)
  <2> DEFINE g == Levelled
  <2>1. g = IF q \in tree.red THEN Rotate(Colour(tree, {q}, {up}), up, s) ELSE tree
    BY <1>4
  <2> HIDE DEF g
  <2>2. Grown(tree, c) /\ Climbing(tree, c, node, up, size, start)
    BY <1>6, <1>7 DEF Climbing
  <2>3. \E d : Grown(g, d) /\ Climbing(g, d, node, up, size, start)
    BY <1>5, <2>1, <2>2, LevelledSized
  <2> QED BY <2>3 DEF g, Climbing
<1>9. /\ Placed(Levelled) = Placed(tree)
      /\ \E d, k : Grown(Levelled, d) /\ Sibling(Levelled, k, node, up, s, Other)
  BY EraseBegins
<1>10. size \in [Nodes -> Int] /\ at = Null
  BY AugCases
<1> QED BY <1>3, <1>7, <1>8, <1>9, <1>10

\* EraseRecolour keeps it: the wrong values stay on the way from what is too low
\* to the root.
LEMMA EraseRecolourAugHeld ==
  ASSUME RbInv, AugInv, EraseRecolour, UNCHANGED <<size, start, at>>
  PROVE  AugInv'
<1> DEFINE s == LowSide
           t == Levelled
           q == Other
<1>1. /\ pc = "erase_color" /\ Deficient
      /\ tree' = Colour(t, {}, {q}) /\ node' = up /\ up' = t.parent[up] /\ pc' = pc
      /\ size' = size /\ start' = start /\ at' = at
  BY DEF EraseRecolour
<1> HIDE DEF s, t, q
<1>2. /\ up \in Nodes /\ size \in [Nodes -> Int] /\ at = Null /\ start \in Placed(t) \cup {Null}
      /\ \E d, h : /\ Grown(t, d) /\ Sibling(t, h, node, up, s, q)
                   /\ (start = up \/ start \in d[node])
                   /\ SizedBut(t, d, size, start, Null, Null)
  BY <1>1, LevelledAug DEF s, t, q
<1>3. PICK d, h : /\ Grown(t, d) /\ Sibling(t, h, node, up, s, q)
                  /\ (start = up \/ start \in d[node])
                  /\ SizedBut(t, d, size, start, Null, Null)
  BY <1>2
<1>4. start \in d[up]
  <2>1. s \in Side /\ t.kid[up][s] = node
    BY <1>3 DEF Sibling, Low
  <2>2. up \in d[up] /\ d[node] \subseteq d[up]
    BY <1>2, <1>3, <2>1, GrownSides
  <2> QED BY <1>3, <2>2
<1>5. q \in Nodes /\ t \in Trees
  BY <1>3 DEF Sibling, Grown
<1>6. Grown(tree', d) /\ tree'.kid = t.kid /\ tree'.parent = t.parent
  <2>1. {q} \subseteq Nodes
    BY <1>5
  <2>2. \A B1, R1 : R1 \subseteq Nodes => Grown(Colour(t, B1, R1), d)
    BY <1>3, ColourGrown
  <2>3. \A B1, R1 : R1 \subseteq Nodes =>
          Colour(t, B1, R1).kid = t.kid /\ Colour(t, B1, R1).parent = t.parent
    BY <1>5, ColourFields
  <2> QED BY <1>1, <2>1, <2>2, <2>3
<1>7. Sized(t, size, Line(t, d, start))
  BY <1>3, LineBut
<1>8. Placed(tree') = Placed(t) /\ Line(tree', d, start) = Line(t, d, start)
      /\ Sized(tree', size, Line(t, d, start))
  BY <1>6, <1>7, SameLinks
<1>9. SizedBut(tree', d, size, start, Null, Null) /\ Sized(tree', size, Path(tree', d, start))
  BY <1>8, LineBut, LinePath
<1>10. Removed(tree', d, size, start, up, up')
  BY <1>2, <1>4, <1>8, <1>9 DEF Removed
<1> QED BY <1>1, <1>2, <1>6, <1>10 DEF AugInv, AugHeld

\* EraseRotate keeps it: the rotations change values only next to that way.
LEMMA EraseRotateAugHeld ==
  ASSUME RbInv, AugInv, EraseRotate, UNCHANGED <<size, start, at>>
  PROVE  AugInv'
<1> DEFINE s == LowSide
           t == Levelled
           q == Other
           f == OuterNephew(t, s)
           r == f.kid[up][Opp(s)]
           B == {r, up, f.kid[r][Opp(s)]}
           R == IF up \in f.red THEN {r} ELSE {}
<1>1. /\ pc = "erase_color" /\ Deficient /\ ~BlackNephews
      /\ tree' = Rotate(Colour(f, B, R), up, s)
      /\ node' = tree'.root /\ up' = Null /\ pc' = pc
      /\ size' = size /\ start' = start /\ at' = at
  BY DEF EraseRotate
<1>2. ~(\A x \in Side : t.kid[q][x] \notin t.red)
  BY <1>1 DEF BlackNephews
<1>3. /\ up \in Nodes /\ size \in [Nodes -> Int] /\ at = Null /\ start \in Placed(t) \cup {Null}
      /\ \E d, h : /\ Grown(t, d) /\ Sibling(t, h, node, up, s, q)
                   /\ (start = up \/ start \in d[node])
                   /\ SizedBut(t, d, size, start, Null, Null)
  BY <1>1, LevelledAug
<1>4. q \notin t.red /\ t.kid[up][Opp(s)] = q
  BY <1>1, EraseBegins
<1> HIDE DEF s, t, q
<1>5. f = IF t.kid[q][Opp(s)] \in t.red THEN t
          ELSE Rotate(Colour(t, {t.kid[q][s]}, {q}), q, Opp(s))
  BY <1>4 DEF OuterNephew
<1>6. f.kid[up][Opp(s)] = r
  OBVIOUS
<1> HIDE DEF f, r, B, R
<1>7. PICK d, h : /\ Grown(t, d) /\ Sibling(t, h, node, up, s, q)
                  /\ (start = up \/ start \in d[node])
                  /\ SizedBut(t, d, size, start, Null, Null)
  BY <1>3
<1>8. \E x : Sibling(f, h, node, up, s, x)
  BY <1>2, <1>4, <1>5, <1>7, OuterNephewStep
<1>9. Sibling(f, h, node, up, s, r)
  <2>1. \A x : Sibling(f, h, node, up, s, x) => x = r
    BY <1>6 DEF Sibling
  <2> QED BY <1>8, <2>1
<1>10. PICK e, x, y : NephewReady(f, e, node, up, s, start, size, x, y)
  <2>1. ~(\A z \in Side : t.kid[q][z] \notin t.red)
    BY <1>2
  <2> QED BY <1>5, <1>7, <2>1, OuterNephewSized
<1>11. /\ Grown(f, e) /\ (start = up \/ start \in e[node])
       /\ SizedBut(f, e, size, start, x, y)
       /\ (x = Null \/ x = r) /\ (y = Null \/ f.kid[r][Opp(s)] = y)
  BY <1>6, <1>10 DEF NephewReady
<1>12. R \subseteq Nodes
  BY <1>9 DEF R, Sibling
<1>13. \A g1 : g1 = Rotate(Colour(f, B, R), up, s) =>
         \E d1 : Grown(g1, d1) /\ Sized(g1, size, Path(g1, d1, start))
  BY <1>9, <1>11, <1>12, EraseRotateSized
<1>14. PICK d1 : Grown(tree', d1) /\ Sized(tree', size, Path(tree', d1, start))
  BY <1>1, <1>13
<1>15. start \in Placed(tree') \cup {Null}
  <2>1. Placed(tree') = Placed(tree) /\ Placed(t) = Placed(tree)
    BY <1>1, EraseRotateHeld, EraseBegins DEF t
  <2> QED BY <1>3, <2>1
<1>16. Removed(tree', d1, size, start, tree'.root, Null)
  BY <1>14, <1>15 DEF Removed
<1> QED BY <1>1, <1>3, <1>14, <1>16 DEF AugInv, AugHeld

\* EraseDoneAugmented keeps it.
LEMMA EraseDoneAugHeld ==
  ASSUME RbInv, AugInv, EraseDoneAugmented
  PROVE  AugInv'
<1>1. /\ pc = "erase_color" /\ tree' = Colour(tree, {node}, {}) /\ pc' = "idle"
      /\ at' = start /\ start' = Null /\ size' = size
  BY DEF EraseDoneAugmented, EraseDone, Begin
<1>2. size \in [Nodes -> Int]
  BY AugCases
<1>3. PICK d : Grown(tree, d) /\ Removed(tree, d, size, start, node, up)
  BY <1>1, AugCases
<1>4. start \in Placed(tree) \cup {Null} /\ Sized(tree, size, Path(tree, d, start))
  <2>1. CASE up = Null
    BY <1>3, <2>1 DEF Removed
  <2>2. CASE up # Null
    <3>1. SizedBut(tree, d, size, start, Null, Null) /\ start \in Placed(tree) \cup {Null}
      BY <1>3, <2>2 DEF Removed
    <3> QED BY <3>1, LineBut, LinePath
  <2> QED BY <2>1, <2>2
<1>5. Grown(tree', d) /\ tree'.kid = tree.kid /\ tree'.parent = tree.parent
  <2>1. tree \in Trees /\ {} \subseteq Nodes
    BY <1>3 DEF Grown
  <2>2. \A B1, R1 : R1 \subseteq Nodes => Grown(Colour(tree, B1, R1), d)
    BY <1>3, ColourGrown
  <2>3. \A B1, R1 : R1 \subseteq Nodes =>
          Colour(tree, B1, R1).kid = tree.kid /\ Colour(tree, B1, R1).parent = tree.parent
    BY <2>1, ColourFields
  <2> QED BY <1>1, <2>1, <2>2, <2>3
<1>6. /\ Placed(tree') = Placed(tree) /\ Path(tree', d, start) = Path(tree, d, start)
      /\ Sized(tree', size, Path(tree, d, start))
  BY <1>4, <1>5, SameLinks
<1> QED BY <1>1, <1>2, <1>4, <1>5, <1>6 DEF AugInv, AugHeld

-----------------------------------------------------------------------------
(* The other actions of the augmentation *)

\* ReplaceAugmented keeps it: the replacement has the value of the victim.
LEMMA ReplaceAugHeld ==
  ASSUME RbInv, AugInv, NEW o \in Nodes, NEW n \in Nodes, ReplaceAugmented(o, n)
  PROVE  AugInv'
<1>1. /\ pc = "idle" /\ at = Null /\ start' = start /\ at' = at /\ pc' = pc
      /\ Replace(o, n) /\ tree' = InitNode(Replaced(tree, o, n), o)
      /\ size' = [size EXCEPT ![n] = size[o], ![o] = 0]
  BY DEF ReplaceAugmented, Replace
<1>2. size \in [Nodes -> Int] /\ Sized(tree, size, {}) /\ start = Null
  BY <1>1, AugCases
<1>3. PICK b, h : AtRest(tree, b, h)
  BY <1>1, HeldCases
<1>4. Grown(tree, b)
  BY <1>3 DEF AtRest
<1>5. /\ Placed(tree') = (Placed(tree) \ {o}) \cup {n}
      /\ o \in Placed(tree) /\ n \in Nodes \ Placed(tree)
  BY <1>1, ReplaceHeld
<1>6. Placing(tree, tree', o, n)
  BY <1>1, <1>4, <1>5, ReplaceFields
<1>7. size' \in [Nodes -> Int] /\ size'[n] = size[o] /\ \A m \in Nodes : m # n /\ m # o => size'[m] = size[m]
  <2>1. o # n
    BY <1>5
  <2> QED BY <1>1, <1>2, <2>1
<1>8. Sized(tree', size', {})
  BY <1>2, <1>4, <1>5, <1>6, <1>7, ReplacedSized
<1>9. PICK d : Grown(tree', d)
  BY <1>1, ReplaceHeld, GrownNext
<1>10. Sized(tree', size', Path(tree', d, Null))
  BY <1>8, <1>9, NoPath
<1> QED BY <1>1, <1>2, <1>7, <1>9, <1>10 DEF AugInv, AugHeld

\* The client's callback makes the value of one node right.
LEMMA FuncAccurate ==
  ASSUME NEW b, Grown(tree, b), NEW n \in Nodes, NEW v \in [Nodes -> Int], NEW w, w = Func(v, n)
  PROVE  /\ w \in [Nodes -> Int] /\ \A m \in Nodes : m # n => w[m] = v[m]
         /\ Accurate(tree, w, n)
         /\ Accurate(tree, v, n) => w[n] = v[n]
<1>1. \A r \in Side : tree.kid[n][r] \in OrNull /\ tree.kid[n][r] # n
  <2>1. \A r \in Side : tree.kid[n][r] \in OrNull
    BY GrownSides
  <2> QED BY <2>1, GrownKid
<1>2. \A r \in Side : SizeOf(v, tree.kid[n][r]) \in Int
  BY <1>1 DEF SizeOf, OrNull
<1> DEFINE x == 1 + SizeOf(v, tree.kid[n]["left"]) + SizeOf(v, tree.kid[n]["right"])
<1>3. x \in Int
  BY <1>2, SideFacts
<1>4. w = [v EXCEPT ![n] = x]
  BY KeyFacts DEF Func
<1>5. x = 1 + SizeOf(v, tree.kid[n]["left"]) + SizeOf(v, tree.kid[n]["right"])
  OBVIOUS
<1> HIDE DEF x
<1>6. w \in [Nodes -> Int] /\ w[n] = x /\ \A m \in Nodes : m # n => w[m] = v[m]
  BY <1>3, <1>4
<1>7. \A r \in Side : SizeOf(w, tree.kid[n][r]) = SizeOf(v, tree.kid[n][r])
  BY <1>1, <1>6 DEF SizeOf, OrNull
<1>8. /\ SizeOf(w, tree.kid[n]["left"]) = SizeOf(v, tree.kid[n]["left"])
      /\ SizeOf(w, tree.kid[n]["right"]) = SizeOf(v, tree.kid[n]["right"])
  BY <1>7, SideFacts
<1> QED BY <1>5, <1>6, <1>8 DEF Accurate

\* AugmentPath keeps it: one node less on the path.
LEMMA AugmentPathHeld ==
  ASSUME RbInv, AugInv, AugmentPath
  PROVE  AugInv'
<1> DEFINE p == tree.parent[at]
           beside == IF p = Null THEN Null
                     ELSE IF tree.kid[p]["left"] = at /\ tree.kid[p]["right"] # Null
                     THEN tree.kid[p]["right"] ELSE tree.kid[p]["left"]
           y == Func(size, at)
<1>1. /\ at # Null /\ size' = Func(y, beside) /\ at' = p
      /\ tree' = tree /\ pc' = pc /\ start' = start
  BY DEF AugmentPath
<1>2. pc = "idle" /\ size \in [Nodes -> Int] /\ start = Null /\ at \in Placed(tree)
  BY <1>1, AugCases
<1>3. PICK b : Grown(tree, b) /\ Sized(tree, size, Path(tree, b, at))
  BY <1>2, AugCases
<1>4. at \in Nodes /\ p \in OrNull
  BY <1>2, <1>3, GrownSides, SideFacts DEF Placed
<1>5. beside = IF p = Null THEN Null
               ELSE IF tree.kid[p]["left"] = at /\ tree.kid[p]["right"] # Null
               THEN tree.kid[p]["right"] ELSE tree.kid[p]["left"]
  OBVIOUS
<1>6. p = tree.parent[at] /\ y = Func(size, at)
  OBVIOUS
<1> HIDE DEF p, beside, y
<1>7. /\ y \in [Nodes -> Int] /\ Accurate(tree, y, at)
      /\ \A m \in Nodes : m # at => y[m] = size[m]
  BY <1>2, <1>3, <1>4, <1>6, FuncAccurate
<1>8. p # Null => p \in Nodes /\ \E r \in Side : tree.kid[p][r] = at
  BY <1>2, <1>3, <1>4, <1>6, GrownParent DEF OrNull
<1>9. ASSUME NEW m \in Placed(tree), p # Null, tree.parent[m] = p
      PROVE  tree.kid[p]["left"] = m \/ tree.kid[p]["right"] = m
  <2>1. m # tree.root
    BY <1>3, <1>9, GrownParent
  <2>2. \E r \in Side : tree.kid[p][r] = m
    BY <1>3, <1>9, <2>1, GrownParent
  <2> QED BY <2>2, SideFacts
<1>10. \A r \in Side : p # Null /\ tree.kid[p][r] \in Nodes =>
         tree.kid[p][r] \in Placed(tree) /\ tree.parent[tree.kid[p][r]] = p
  BY <1>3, <1>8, GrownKid
<1>11. /\ p # Null => tree.kid[p]["left"] \in OrNull /\ tree.kid[p]["right"] \in OrNull
       /\ p # Null => tree.kid[p]["left"] = at \/ tree.kid[p]["right"] = at
  BY <1>3, <1>8, GrownSides, SideFacts
<1>12. ASSUME NEW z, \A m \in Placed(tree) : p # Null /\ tree.parent[m] = p => m = at \/ m = z,
              z = Null \/ (z \in Placed(tree) /\ z # at /\ p # Null /\ tree.parent[z] = p),
              NEW w \in [Nodes -> Int], \A m \in Nodes : m # z => w[m] = y[m],
              z # Null => Accurate(tree, w, z), size' = w
       PROVE  AugInv'
  <2>1. Sized(tree, w, Path(tree, b, p)) /\ p \in Placed(tree) \cup {Null}
    BY <1>2, <1>3, <1>6, <1>7, <1>12, ClimbedSized
  <2> QED BY <1>1, <1>2, <1>3, <1>12, <2>1 DEF AugInv, AugHeld
<1>13. CASE beside = Null
  <2>1. size' = y
    BY <1>1, <1>13 DEF Func
  <2>2. \A m \in Placed(tree) : p # Null /\ tree.parent[m] = p => m = at \/ m = Null
    BY <1>5, <1>9, <1>11, <1>13
  <2> QED BY <1>7, <1>12, <2>1, <2>2
<1>14. CASE beside = at
  <2>1. /\ size' \in [Nodes -> Int] /\ size'[at] = y[at]
        /\ \A m \in Nodes : m # at => size'[m] = y[m]
    BY <1>1, <1>3, <1>4, <1>7, <1>14, FuncAccurate
  <2>2. \A m \in Nodes : m # Null => size'[m] = y[m]
    BY <2>1
  <2>3. \A m \in Placed(tree) : p # Null /\ tree.parent[m] = p => m = at \/ m = Null
    <3>1. p # Null => tree.kid[p]["left"] = at /\ (tree.kid[p]["right"] = at \/ tree.kid[p]["right"] = Null)
      BY <1>5, <1>11, <1>14
    <3> QED BY <1>9, <3>1
  <2> QED BY <1>12, <2>1, <2>2, <2>3
<1>15. CASE beside # Null /\ beside # at
  <2>1. p # Null /\ beside \in Nodes /\ \E r \in Side : tree.kid[p][r] = beside
    BY <1>5, <1>11, <1>15, SideFacts DEF OrNull
  <2>2. beside \in Placed(tree) /\ tree.parent[beside] = p
    BY <1>10, <2>1
  <2>3. \A m \in Placed(tree) : p # Null /\ tree.parent[m] = p => m = at \/ m = beside
    BY <1>5, <1>9, <1>11, <1>15
  <2>4. /\ size' \in [Nodes -> Int] /\ Accurate(tree, size', beside)
        /\ \A m \in Nodes : m # beside => size'[m] = y[m]
    BY <1>1, <1>3, <1>7, <2>1, FuncAccurate
  <2> QED BY <1>12, <1>15, <2>1, <2>2, <2>3, <2>4
<1> QED BY <1>13, <1>14, <1>15

\* Every action keeps it.
LEMMA AugNextHeld ==
  ASSUME RbInv, AugInv, [AugmentedNext]_augmentVars
  PROVE  AugInv'
<1>1. CASE UNCHANGED augmentVars
  BY <1>1 DEF augmentVars, AugInv
<1>2. CASE AugmentedCall
  <2>1. ASSUME NEW n \in Nodes, InsertAugmented(n)
        PROVE  AugInv'
    BY <2>1, InsertAugHeld
  <2>2. ASSUME NEW n \in Nodes, EraseAugmented(n)
        PROVE  AugInv'
    BY <2>2, EraseUnlinkAugHeld, EraseInnerAugHeld DEF EraseAugmented
  <2>3. ASSUME NEW o \in Nodes, NEW n \in Nodes, ReplaceAugmented(o, n)
        PROVE  AugInv'
    BY <2>3, ReplaceAugHeld
  <2> QED BY <1>2, <2>1, <2>2, <2>3 DEF AugmentedCall
<1>3. CASE AugmentedStep
  <2>1. CASE Pass
    BY <2>1, WalkAugHeld, LinkNodeAugHeld, InsertRecolourAugHeld, InsertRotateAugHeld,
       EraseRecolourAugHeld, EraseRotateAugHeld DEF Pass
  <2> QED BY <1>3, <2>1, PresentAugHeld, InsertDoneAugHeld, SpliceAugHeld, EraseDoneAugHeld,
         AugmentPathHeld DEF AugmentedStep
<1> QED BY <1>1, <1>2, <1>3 DEF AugmentedNext

\* The values are wrong at most where the climb that is to come will pass.
THEOREM AugInvariant == AugmentedSpec => [](RbInv /\ AugInv)
<1>1. AugmentedInit => RbInv /\ AugInv
  BY InitHeld, AugInitHeld DEF AugmentedInit
<1>2. RbInv /\ AugInv /\ [AugmentedNext]_augmentVars => RbInv' /\ AugInv'
  <2> SUFFICES ASSUME RbInv, AugInv, [AugmentedNext]_augmentVars PROVE RbInv' /\ AugInv'
    OBVIOUS
  <2>1. UNCHANGED augmentVars => UNCHANGED vars
    BY DEF augmentVars, vars
  <2>2. [Next]_vars
    BY <2>1, AugmentedSteps
  <2>3. RbInv'
    BY <2>2, NextHeld
  <2> QED BY <2>3, AugNextHeld
<1> QED BY <1>1, <1>2, PTL DEF AugmentedSpec

\* What the comments of rb_augment_insert and rb_augment_erase_end promise: when
\* a call and the climb after it have returned, every value is right.
THEOREM RbAugmented == AugmentedSpec => []Augmented
<1>1. ASSUME RbInv, AugInv PROVE Augmented
  <2> SUFFICES ASSUME Resting, NEW n \in Members
               PROVE  size[n] = 1 + SizeOf(size, tree.kid[n]["left"]) + SizeOf(size, tree.kid[n]["right"])
    BY DEF Augmented
  <2>1. Sized(tree, size, {}) /\ n \in Placed(tree)
    BY <1>1, AugCases, MembersPlaced DEF Resting
  <2> QED BY <2>1 DEF Sized, Accurate
<1> QED BY <1>1, AugInvariant, PTL
=============================================================================
