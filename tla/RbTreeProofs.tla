---------------------------- MODULE RbTreeProofs ----------------------------
(***************************************************************************)
(* What rb_insert, rb_erase and rb_replace_node keep true, as theorems of  *)
(* Spec for every finite set of nodes and all keys: types, links,          *)
(* search order, colours, black heights, no null dereference, and the      *)
(* refinement of OrderedSet.  Lemmas on colours and heights come first;    *)
(* RbInv is the inductive invariant: it says of every loop what holds      *)
(* between two of its passes.                                              *)
(***************************************************************************)
EXTENDS RbLinksProofs

-----------------------------------------------------------------------------
(* Colours *)

\* What a node counts for in the number of black nodes on a path.
One(t, n) == IF n \in t.red THEN 0 ELSE 1

\* h gives the number of black nodes below every node, on every path down, if
\* one more is counted for the place on the side v of u.
Level(t, h, u, v) ==
  /\ h \in [OrNull -> Nat] /\ h[Null] = 0
  /\ \A n \in Nodes, r \in Side :
       h[n] = h[t.kid[n][r]] + One(t, t.kid[n][r]) + (IF n = u /\ r = v THEN 1 ELSE 0)

\* A red node has a red parent, or none, only if it is x or y or the parent is y.
Apart(t, x, y) ==
  /\ t.root \in t.red => t.root \in {x, y}
  /\ \A m \in Nodes, r \in Side :
       m \in t.red /\ t.kid[m][r] \in t.red => t.kid[m][r] \in {x, y} \/ m = y

\* A node counts for one if it is black, and null counts for one.
LEMMA OneFacts ==
  ASSUME NEW t \in Trees, NEW n
  PROVE  /\ One(t, n) \in {0, 1}
         /\ One(t, n) = 0 <=> n \in t.red
         /\ One(t, Null) = 1 /\ Null \notin t.red /\ t.red \subseteq Nodes
BY KeyFacts DEF One, Trees

\* The heights of nodes and children are numbers.
LEMMA LevelFacts ==
  ASSUME NEW t, NEW b, Grown(t, b), NEW h, NEW u, NEW v, Level(t, h, u, v)
  PROVE  /\ t \in Trees /\ h[Null] = 0 /\ \A n \in OrNull : h[n] \in Nat
         /\ \A n \in Nodes, r \in Side : t.kid[n][r] \in OrNull /\ h[t.kid[n][r]] \in Nat
         /\ \A n \in Nodes, r \in Side :
              h[n] = h[t.kid[n][r]] + One(t, t.kid[n][r]) + (IF n = u /\ r = v THEN 1 ELSE 0)
<1>1. t \in Trees /\ \A n \in Nodes, r \in Side : t.kid[n][r] \in OrNull
  BY DEF Grown, Trees
<1>2. h[Null] = 0 /\ \A n \in OrNull : h[n] \in Nat
  BY DEF Level
<1> QED BY <1>1, <1>2 DEF Level

\* Turned, with the colours left open.
Wired(t, g, n, s, c, low, inner, outer, p) ==
  /\ g \in Trees
  /\ g.root = IF p = Null THEN c ELSE t.root
  /\ \A m \in Nodes : g.parent[m] = IF m = n THEN c ELSE IF m = c THEN p
                                    ELSE IF m = inner THEN n ELSE t.parent[m]
  /\ g.kid[n][s] = low /\ g.kid[n][Opp(s)] = inner
  /\ g.kid[c][s] = n /\ g.kid[c][Opp(s)] = outer
  /\ \A m \in Nodes \ {n, c}, r \in Side :
       g.kid[m][r] = IF t.kid[m][r] = n THEN c ELSE t.kid[m][r]

\* A rotation after some nodes have been coloured.
LEMMA RotateWired ==
  ASSUME NEW t, NEW b, Grown(t, b), NEW B, NEW R, R \subseteq Nodes,
         NEW n \in Nodes, NEW s \in Side, NEW c, t.kid[n][Opp(s)] = c, c # Null,
         NEW low, t.kid[n][s] = low, NEW inner, t.kid[c][s] = inner,
         NEW outer, t.kid[c][Opp(s)] = outer, NEW p, t.parent[n] = p,
         NEW g, g = Rotate(Colour(t, B, R), n, s)
  PROVE  /\ Turn(t, n, s, c, low, inner, outer, p)
         /\ Wired(t, g, n, s, c, low, inner, outer, p)
         /\ g.red = (t.red \ B) \cup R
         /\ Placed(g) = Placed(t) /\ \E d : Grown(g, d)
<1> DEFINE f == Colour(t, B, R)
<1>1. /\ Placed(f) = Placed(t) /\ Grown(f, b) /\ f.red = (t.red \ B) \cup R
  BY ColourGrown
<1>2. f.root = t.root /\ f.parent = t.parent /\ f.kid = t.kid
  BY ColourFields DEF Grown
<1>3. c \in Nodes
  BY SideFacts DEF Grown, Trees, OrNull
<1> HIDE DEF f
<1>4. Turn(t, n, s, c, low, inner, outer, p) /\ Turn(f, n, s, c, low, inner, outer, p)
  BY <1>2, <1>3 DEF Turn
<1>5. g = Rotate(f, n, s)
  BY DEF f
<1>6. Turned(f, g, n, s, c, low, inner, outer, p)
  BY <1>1, <1>4, <1>5, RotateTurns
<1>7. Placed(g) = Placed(f) /\ Grown(g, TurnedSpan(b, n, c, low, inner))
  BY SMTT(30), <1>1, <1>4, <1>6, TurnedGrown
<1>8. Wired(t, g, n, s, c, low, inner, outer, p) /\ g.red = f.red
  BY SMTT(30), <1>2, <1>6 DEF Turned, Wired
<1> QED BY <1>1, <1>4, <1>7, <1>8

\* A rotation after a recolouring, for whoever turns.
LEMMA TurnWired ==
  ASSUME NEW t, NEW b, Grown(t, b), NEW n, NEW s, NEW c, NEW low, NEW inner, NEW outer, NEW p,
         Turn(t, n, s, c, low, inner, outer, p),
         NEW B, NEW R, R \subseteq Nodes, NEW g, g = Rotate(Colour(t, B, R), n, s)
  PROVE  /\ Wired(t, g, n, s, c, low, inner, outer, p)
         /\ g.red = (t.red \ B) \cup R /\ Placed(g) = Placed(t) /\ \E d : Grown(g, d)
<1>1. n \in Nodes /\ s \in Side /\ c # Null
  BY KeyFacts DEF Turn
<1>2. /\ t.kid[n][Opp(s)] = c /\ t.kid[n][s] = low /\ t.kid[c][s] = inner
      /\ t.kid[c][Opp(s)] = outer /\ t.parent[n] = p
  BY DEF Turn
<1> QED BY SMTT(30), <1>1, <1>2, RotateWired

\* Recolouring nothing changes nothing.
LEMMA NoColour ==
  ASSUME NEW t \in Trees
  PROVE  Colour(t, {}, {}) = t
BY DEF Colour, Trees

\* Who has which child after a rotation.
LEMMA WiredKids ==
  ASSUME NEW t, NEW b, Grown(t, b),
         NEW n, NEW s, NEW c, NEW low, NEW inner, NEW outer, NEW p,
         Turn(t, n, s, c, low, inner, outer, p),
         NEW g, Wired(t, g, n, s, c, low, inner, outer, p),
         NEW m \in Nodes, NEW r \in Side
  PROVE  \/ m = n /\ r = s /\ g.kid[m][r] = low /\ t.kid[n][s] = low
         \/ m = n /\ r = Opp(s) /\ g.kid[m][r] = inner /\ t.kid[c][s] = inner
         \/ m = c /\ r = s /\ g.kid[m][r] = n
         \/ m = c /\ r = Opp(s) /\ g.kid[m][r] = outer /\ t.kid[c][r] = outer
         \/ m # n /\ m # c /\ t.kid[m][r] = n /\ g.kid[m][r] = c /\ m = p
         \/ /\ m # n /\ m # c /\ t.kid[m][r] # n /\ t.kid[m][r] # c
            /\ g.kid[m][r] = t.kid[m][r] /\ (t.kid[m][r] = Null \/ t.kid[m][r] \in Nodes)
            /\ (t.kid[m][r] # Null => t.kid[m][r] \notin {low, inner, outer})
<1>1. /\ n \in Nodes /\ s \in Side /\ c \in Nodes /\ c # n /\ (r = s \/ r = Opp(s))
      /\ t.kid[n][Opp(s)] = c /\ t.kid[n][s] = low
      /\ t.kid[c][s] = inner /\ t.kid[c][Opp(s)] = outer /\ t.parent[n] = p
      /\ t.parent[c] = n
  BY SMTT(30), TurnFacts, SideFacts DEF Turn
<1>2. CASE m = n
  BY <1>1, <1>2 DEF Wired
<1>3. CASE m = c
  BY <1>1, <1>3 DEF Wired
<1>4. CASE m # n /\ m # c
  <2>1. g.kid[m][r] = IF t.kid[m][r] = n THEN c ELSE t.kid[m][r]
    BY <1>4 DEF Wired
  <2>2. CASE t.kid[m][r] = n
    <3>1. m = p
      BY SMTT(30), <1>1, <2>2, GrownKid
    <3> QED BY <1>4, <2>1, <2>2, <3>1
  <2>3. CASE t.kid[m][r] # n
    <3>1. t.kid[m][r] = Null \/ t.kid[m][r] \in Nodes
      BY DEF Grown, Trees, OrNull
    <3>2. \A k \in Nodes, q \in Side : t.kid[k][q] # Null => t.parent[t.kid[k][q]] = k
      BY DEF Grown, Joined
    <3>3. t.kid[m][r] # Null => t.kid[m][r] # low
      BY <1>1, <1>4, <3>2
    <3>4. t.kid[m][r] # Null => t.kid[m][r] # inner
      BY <1>1, <1>4, <3>2
    <3>5. t.kid[m][r] # Null => t.kid[m][r] # outer
      BY SMTT(30), <1>1, <1>4, <3>2, SideFacts
    <3>6. t.kid[m][r] # c
      BY <1>1, <1>4, <3>2, KeyFacts
    <3> QED BY <1>4, <2>1, <2>3, <3>1, <3>3, <3>4, <3>5, <3>6
  <2> QED BY <2>2, <2>3
<1> QED BY <1>2, <1>3, <1>4

\* A rotation over a red link after which the lower of the two nodes is red.
LEMMA TurnLevel ==
  ASSUME NEW t, NEW b, Grown(t, b), NEW h, NEW u, NEW v, Level(t, h, u, v),
         NEW n, NEW s, NEW c, NEW low, NEW inner, NEW outer, NEW p,
         Turn(t, n, s, c, low, inner, outer, p),
         NEW g, Wired(t, g, n, s, c, low, inner, outer, p),
         c \in t.red, n \in g.red, c \in g.red <=> n \in t.red,
         \A x \in Nodes \ {n, c} : x \in g.red <=> x \in t.red,
         ~(u = n /\ v = Opp(s)), u # c
  PROVE  Level(g, h, u, v)
<1>1. /\ n \in Nodes /\ s \in Side /\ Opp(s) \in Side /\ Opp(s) # s /\ c \in Nodes /\ c # n
      /\ t.kid[n][Opp(s)] = c /\ t.kid[n][s] = low
      /\ t.kid[c][s] = inner /\ t.kid[c][Opp(s)] = outer
      /\ inner # n /\ inner # c /\ outer # n /\ outer # c /\ low # n /\ low # c
      /\ inner \in OrNull /\ outer \in OrNull /\ low \in OrNull
  BY SMTT(30), TurnFacts, SideFacts DEF Turn
<1>2. g \in Trees
  BY DEF Wired
<1>3. /\ t \in Trees /\ h[Null] = 0 /\ \A m \in OrNull : h[m] \in Nat
      /\ \A m \in Nodes, r \in Side : t.kid[m][r] \in OrNull /\ h[t.kid[m][r]] \in Nat
      /\ \A m \in Nodes, r \in Side :
           h[m] = h[t.kid[m][r]] + One(t, t.kid[m][r]) + (IF m = u /\ r = v THEN 1 ELSE 0)
  BY LevelFacts
<1>4. \A x \in OrNull : x # n /\ x # c => One(g, x) = One(t, x)
  BY <1>2, <1>3, KeyFacts DEF One, Trees, OrNull
<1>5. One(g, n) = 0 /\ One(g, c) = One(t, n) /\ One(t, c) = 0
  BY DEF One
<1>6. \A x : One(g, x) \in {0, 1} /\ One(t, x) \in {0, 1}
  BY DEF One
<1>7. h[n] = h[c]
  <2>1. h[n] = h[c] + One(t, c) + (IF n = u /\ Opp(s) = v THEN 1 ELSE 0)
    BY <1>1, <1>3
  <2>2. h[c] \in Nat
    BY <1>1, <1>3
  <2> QED BY <1>5, <2>1, <2>2
<1>8. h[n] = h[low] + One(t, low) + (IF n = u /\ s = v THEN 1 ELSE 0)
  BY <1>1, <1>3
<1>9. h[c] = h[inner] + One(t, inner)
  <2>1. h[c] = h[inner] + One(t, inner) + (IF c = u /\ s = v THEN 1 ELSE 0)
    BY <1>1, <1>3
  <2>2. h[inner] \in Nat /\ One(t, inner) \in {0, 1}
    BY <1>1, <1>3, <1>6
  <2> QED BY <2>1, <2>2
<1>10. h[c] = h[outer] + One(t, outer)
  <2>1. h[c] = h[outer] + One(t, outer) + (IF c = u /\ Opp(s) = v THEN 1 ELSE 0)
    BY <1>1, <1>3
  <2>2. h[outer] \in Nat /\ One(t, outer) \in {0, 1}
    BY <1>1, <1>3, <1>6
  <2> QED BY <2>1, <2>2
<1>11. ASSUME NEW m \in Nodes, NEW r \in Side
       PROVE  h[m] = h[g.kid[m][r]] + One(g, g.kid[m][r]) + (IF m = u /\ r = v THEN 1 ELSE 0)
  <2> DEFINE def == IF m = u /\ r = v THEN 1 ELSE 0
  <2>0. /\ \A x \in OrNull : h[x] \in Nat
        /\ \A x : One(g, x) \in {0, 1} /\ One(t, x) \in {0, 1}
    BY <1>3, <1>6
  <2>1. CASE m = n /\ r = s /\ g.kid[m][r] = low
    BY <1>1, <1>4, <1>8, <2>1
  <2>2. CASE m = n /\ r = Opp(s) /\ g.kid[m][r] = inner
    <3>1. One(g, inner) = One(t, inner) /\ h[inner] \in Nat /\ One(t, inner) \in {0, 1}
      BY <1>1, <1>4, <2>0
    <3> QED BY <1>7, <1>9, <2>2, <3>1
  <2>3. CASE m = c /\ r = s /\ g.kid[m][r] = n
    <3>1. h[n] \in Nat
      BY <1>1, <1>3 DEF OrNull
    <3> QED BY <1>5, <1>7, <2>3, <3>1
  <2>4. CASE m = c /\ r = Opp(s) /\ g.kid[m][r] = outer
    <3>1. One(g, outer) = One(t, outer) /\ h[outer] \in Nat /\ One(t, outer) \in {0, 1}
      BY <1>1, <1>4, <2>0
    <3> QED BY <1>10, <2>4, <3>1
  <2>5. CASE m # n /\ m # c /\ t.kid[m][r] = n /\ g.kid[m][r] = c
    <3>1. h[m] = h[n] + One(t, n) + def
      BY <1>3, <2>5
    <3> QED BY <1>5, <1>7, <2>5, <3>1
  <2>6. CASE /\ m # n /\ m # c /\ t.kid[m][r] # n /\ t.kid[m][r] # c
             /\ g.kid[m][r] = t.kid[m][r]
    <3>1. One(g, t.kid[m][r]) = One(t, t.kid[m][r])
      BY <1>3, <1>4, <2>6
    <3>2. h[m] = h[t.kid[m][r]] + One(t, t.kid[m][r]) + def
      BY <1>3
    <3> QED BY <2>6, <3>1, <3>2
  <2> QED BY <2>1, <2>2, <2>3, <2>4, <2>5, <2>6, WiredKids
<1> QED BY <1>11 DEF Level

\* The last rotation of an erasure: the missing black node is found on the other side.
LEMMA TurnFills ==
  ASSUME NEW t, NEW b, Grown(t, b), NEW h,
         NEW n, NEW s, NEW c, NEW low, NEW inner, NEW outer, NEW p,
         Turn(t, n, s, c, low, inner, outer, p), Level(t, h, n, s),
         NEW g, Wired(t, g, n, s, c, low, inner, outer, p),
         c \notin t.red, outer \in t.red,
         n \notin g.red, outer \notin g.red, c \in g.red <=> n \in t.red,
         \A x \in Nodes \ {n, c, outer} : x \in g.red <=> x \in t.red
  PROVE  \E k : Level(g, k, Null, "left")
<1> DEFINE k == [h EXCEPT ![n] = h[c], ![c] = h[n]]
<1>1. /\ n \in Nodes /\ s \in Side /\ Opp(s) \in Side /\ Opp(s) # s /\ c \in Nodes /\ c # n
      /\ t.kid[n][Opp(s)] = c /\ t.kid[n][s] = low
      /\ t.kid[c][s] = inner /\ t.kid[c][Opp(s)] = outer
      /\ inner # n /\ inner # c /\ outer # n /\ outer # c /\ low # n /\ low # c
      /\ inner \in OrNull /\ outer \in OrNull /\ low \in OrNull /\ n \in OrNull /\ c \in OrNull
  BY SMTT(30), TurnFacts, SideFacts DEF Turn, OrNull
<1>2. g \in Trees /\ Null \notin Nodes
  BY KeyFacts DEF Wired
<1>3. /\ t \in Trees /\ h[Null] = 0 /\ \A m \in OrNull : h[m] \in Nat
      /\ \A m \in Nodes, r \in Side : t.kid[m][r] \in OrNull /\ h[t.kid[m][r]] \in Nat
      /\ \A m \in Nodes, r \in Side :
           h[m] = h[t.kid[m][r]] + One(t, t.kid[m][r]) + (IF m = n /\ r = s THEN 1 ELSE 0)
  BY LevelFacts
<1>4. outer \in Nodes
  BY <1>3 DEF Trees
<1>5. /\ t.parent[outer] = c
      /\ inner # outer
      /\ low # outer
  <2>1. t.parent[outer] = c /\ t.kid[c][Opp(Opp(s))] # outer
    <3>1. c \in Nodes /\ Opp(s) \in Side /\ t.kid[c][Opp(s)] = outer
      BY <1>1
    <3> QED BY <1>4, <3>1, GrownKid
  <2>2. low \in Nodes => t.parent[low] = n
    BY SMTT(30), <1>1, GrownKid
  <2> QED BY <1>1, <1>4, <2>1, <2>2, SideFacts
<1>6. \A x \in OrNull : x \notin {n, c, outer} => One(g, x) = One(t, x)
  BY <1>2, <1>3, KeyFacts DEF One, Trees, OrNull
<1>7. /\ One(g, n) = 1 /\ One(g, outer) = 1 /\ One(g, c) = One(t, n) /\ One(t, c) = 1
      /\ One(t, outer) = 0
  BY DEF One
<1>8. \A x : One(g, x) \in {0, 1} /\ One(t, x) \in {0, 1}
  BY DEF One
<1>9. h[n] = h[c] + 1
  <2>1. h[n] = h[c] + One(t, c) + 0
    BY <1>1, <1>3
  <2>2. h[c] \in Nat
    BY <1>1, <1>3
  <2>3. One(t, c) = 1
    BY <1>7
  <2> QED BY <2>1, <2>2, <2>3
<1>10. h[c] = h[low] + One(t, low)
  <2>1. h[n] = h[low] + One(t, low) + 1
    BY <1>1, <1>3
  <2>2. h[c] \in Nat /\ h[low] \in Nat /\ One(t, low) \in {0, 1}
    BY <1>1, <1>3, <1>8
  <2> QED BY <1>9, <2>1, <2>2
<1>11. h[c] = h[inner] + One(t, inner)
  <2>1. h[c] = h[inner] + One(t, inner) + 0
    BY <1>1, <1>3
  <2>2. h[inner] \in Nat /\ One(t, inner) \in {0, 1}
    BY <1>1, <1>3, <1>8
  <2> QED BY <2>1, <2>2
<1>12. h[c] = h[outer]
  <2>1. h[c] = h[outer] + One(t, outer) + 0
    BY <1>1, <1>3
  <2>2. h[outer] \in Nat
    BY <1>1, <1>3
  <2> QED BY <1>7, <2>1, <2>2
<1>13. /\ k \in [OrNull -> Nat] /\ k[n] = h[c] /\ k[c] = h[n]
       /\ \A x \in OrNull : x # n /\ x # c => k[x] = h[x]
  BY <1>1, <1>3 DEF Level
<1> HIDE DEF k
<1>14. ASSUME NEW m \in Nodes, NEW r \in Side
       PROVE  k[m] = k[g.kid[m][r]] + One(g, g.kid[m][r])
  <2>0. \A x \in OrNull : h[x] \in Nat
    BY <1>3
  <2>1. CASE m = n /\ r = s /\ g.kid[m][r] = low
    BY <1>1, <1>5, <1>6, <1>10, <1>13, <2>1
  <2>2. CASE m = n /\ r = Opp(s) /\ g.kid[m][r] = inner
    BY <1>1, <1>5, <1>6, <1>11, <1>13, <2>2
  <2>3. CASE m = c /\ r = s /\ g.kid[m][r] = n
    BY <1>7, <1>9, <1>13, <2>3
  <2>4. CASE m = c /\ r = Opp(s) /\ g.kid[m][r] = outer
    BY <1>1, <1>7, <1>9, <1>12, <1>13, <2>4
  <2>5. CASE m # n /\ m # c /\ t.kid[m][r] = n /\ g.kid[m][r] = c
    <3>1. h[m] = h[n] + One(t, n) + 0
      BY <1>3, <2>5
    <3>2. k[m] = h[m] /\ m \in OrNull
      BY <1>13, <2>5 DEF OrNull
    <3>3. h[n] \in Nat /\ One(t, n) \in {0, 1}
      BY <1>1, <1>3, <1>8
    <3> QED BY <1>7, <1>13, <2>5, <3>1, <3>2, <3>3
  <2>6. CASE /\ m # n /\ m # c /\ t.kid[m][r] # n /\ t.kid[m][r] # c
             /\ g.kid[m][r] = t.kid[m][r]
             /\ (t.kid[m][r] # Null => t.kid[m][r] \notin {low, inner, outer})
    <3> DEFINE x == t.kid[m][r]
    <3>1. x \in OrNull /\ x \notin {n, c, outer} /\ g.kid[m][r] = x
      BY <1>2, <1>3, <1>4, <2>6
    <3>2. h[m] = h[x] + One(t, x) + 0
      BY <1>3, <2>6
    <3> HIDE DEF x
    <3>3. k[m] = h[m] /\ k[x] = h[x] /\ One(g, x) = One(t, x)
      BY <1>6, <1>13, <2>6, <3>1 DEF OrNull
    <3>4. h[x] \in Nat /\ One(t, x) \in {0, 1}
      BY <1>3, <1>8, <3>1
    <3> QED BY <3>1, <3>2, <3>3, <3>4
  <2> QED BY <2>1, <2>2, <2>3, <2>4, <2>5, <2>6, WiredKids
<1>15. k[Null] = 0
  BY <1>1, <1>2, <1>3, <1>13 DEF OrNull
<1>16. \A m \in Nodes : m # Null
  BY <1>2
<1>17. ASSUME NEW m \in Nodes, NEW r \in Side
       PROVE  k[m] = k[g.kid[m][r]] + One(g, g.kid[m][r])
                       + (IF m = Null /\ r = "left" THEN 1 ELSE 0)
  <2>1. k[m] = k[g.kid[m][r]] + One(g, g.kid[m][r])
    BY <1>14
  <2>2. k[g.kid[m][r]] \in Nat /\ One(g, g.kid[m][r]) \in {0, 1}
    BY <1>2, <1>8, <1>13 DEF Trees
  <2> QED BY <1>16, <2>1, <2>2
<1> QED BY <1>13, <1>15, <1>17 DEF Level

\* The red links after a rotation that leaves the upper of the two nodes black.
LEMMA TurnApart ==
  ASSUME NEW t, NEW b, Grown(t, b), NEW x, NEW y, Apart(t, x, y),
         NEW n, NEW s, NEW c, NEW low, NEW inner, NEW outer, NEW p,
         Turn(t, n, s, c, low, inner, outer, p),
         NEW g, Wired(t, g, n, s, c, low, inner, outer, p),
         n \notin t.red, c \notin g.red, low \notin t.red, inner \notin t.red,
         \A z \in Nodes \ {n, c} : z \in g.red <=> z \in t.red
  PROVE  /\ Apart(g, x, y)
         /\ x = outer => Apart(g, Null, y)
<1>1. /\ n \in Nodes /\ c \in Nodes /\ c # n /\ inner # n /\ inner # c /\ outer # n /\ outer # c
      /\ low # n /\ low # c /\ low \in OrNull /\ inner \in OrNull
      /\ t \in Trees /\ g \in Trees
  BY SMTT(30), TurnFacts DEF Turn, Wired, Grown
<1>2. Null \notin g.red /\ Null \notin t.red /\ g.red \subseteq Nodes
  BY <1>1, OneFacts
<1>3. low \notin g.red /\ inner \notin g.red
  BY <1>1, <1>2 DEF OrNull
<1>4. ASSUME NEW m \in Nodes, NEW r \in Side, m \in g.red, g.kid[m][r] \in g.red
      PROVE  /\ m \in t.red /\ g.kid[m][r] = t.kid[m][r] /\ t.kid[m][r] \in t.red
             /\ t.kid[m][r] # outer
  <2>1. m # n
    BY <1>3, <1>4, WiredKids
  <2>2. m # c
    BY <1>4
  <2>3. /\ g.kid[m][r] = t.kid[m][r] /\ t.kid[m][r] \in Nodes
        /\ t.kid[m][r] \notin {n, c, low, inner, outer}
    BY <1>2, <1>4, <2>1, <2>2, WiredKids
  <2> QED BY <1>4, <2>1, <2>2, <2>3
<1>5. g.root = c \/ (g.root = t.root /\ t.root # n /\ t.root # c)
  <2>1. p # Null => n # t.root
    BY TurnFacts
  <2>2. c # t.root
    BY TurnFacts
  <2> QED BY <2>1, <2>2 DEF Wired
<1>6. g.root \in g.red => t.root \in t.red /\ g.root = t.root
  BY <1>2, <1>5
<1>7. Apart(g, x, y)
  BY <1>4, <1>6 DEF Apart
<1>8. outer \in Nodes => outer # t.root
  <2>1. c \in Nodes /\ Opp(s) \in Side /\ t.kid[c][Opp(s)] = outer
    BY <1>1, SideFacts DEF Turn
  <2> QED BY <2>1, GrownKid
<1>9. x = outer => Apart(g, Null, y)
  <2> SUFFICES ASSUME x = outer PROVE Apart(g, Null, y)
    OBVIOUS
  <2>1. g.root \in g.red => g.root \in {Null, y}
    <3> SUFFICES ASSUME g.root \in g.red, outer = t.root PROVE FALSE
      BY <1>6 DEF Apart
    <3> QED BY <1>2, <1>6, <1>8
  <2>2. ASSUME NEW m \in Nodes, NEW r \in Side, m \in g.red, g.kid[m][r] \in g.red
        PROVE  g.kid[m][r] \in {Null, y} \/ m = y
    BY <1>4, <2>2 DEF Apart
  <2> QED BY <2>1, <2>2 DEF Apart
<1> QED BY <1>7, <1>9

\* The red links after the last rotation of an erasure.
LEMMA TurnFillsApart ==
  ASSUME NEW t, NEW b, Grown(t, b), Apart(t, Null, Null),
         NEW n, NEW s, NEW c, NEW low, NEW inner, NEW outer, NEW p,
         Turn(t, n, s, c, low, inner, outer, p),
         NEW g, Wired(t, g, n, s, c, low, inner, outer, p),
         n \notin g.red, outer \notin g.red, c \in g.red <=> n \in t.red,
         \A z \in Nodes \ {n, c, outer} : z \in g.red <=> z \in t.red
  PROVE  Apart(g, Null, Null)
<1>1. /\ n \in Nodes /\ c \in Nodes /\ c # n
      /\ t \in Trees /\ g \in Trees
  BY SMTT(30), TurnFacts DEF Turn, Wired, Grown
<1>2. Null \notin g.red /\ Null \notin t.red /\ g.red \subseteq Nodes
  BY <1>1, OneFacts
<1>3. ASSUME NEW m \in Nodes, NEW r \in Side, m \in g.red, g.kid[m][r] \in g.red
      PROVE  FALSE
  <2>0. \A k \in Nodes, q \in Side : k \in t.red => t.kid[k][q] \notin t.red
    BY <1>2 DEF Apart
  <2>1. m # n
    BY <1>3
  <2>2. m # c
    BY <1>3, WiredKids
  <2>3. m \in t.red
    BY <1>3, <2>1, <2>2
  <2>4. CASE t.kid[m][r] = n /\ g.kid[m][r] = c
    BY <1>3, <2>0, <2>3, <2>4
  <2>5. CASE /\ t.kid[m][r] # n /\ t.kid[m][r] # c /\ g.kid[m][r] = t.kid[m][r]
             /\ (t.kid[m][r] # Null => t.kid[m][r] \notin {low, inner, outer})
    <3>1. t.kid[m][r] \in Nodes /\ t.kid[m][r] \notin {n, c, outer}
      BY <1>2, <1>3, <2>5
    <3>2. t.kid[m][r] \in t.red
      BY <1>3, <2>5, <3>1
    <3> QED BY <2>0, <2>3, <3>2
  <2> QED BY <2>1, <2>2, <2>4, <2>5, WiredKids
<1>4. g.root \notin g.red
  <2>0. t.root \notin t.red
    BY <1>2 DEF Apart
  <2>1. /\ p # Null => n # t.root
        /\ p = Null => n = t.root
        /\ c # t.root
    BY TurnFacts
  <2>2. t.root \in Nodes => t.root # outer \/ outer \notin g.red
    OBVIOUS
  <2> QED BY <1>2, <2>0, <2>1, <2>2 DEF Wired
<1> QED BY <1>3, <1>4 DEF Apart

-----------------------------------------------------------------------------
(* Colours alone *)

\* One pass of rb_insert_color: a red parent and a red uncle give their
\* blackness to the grandparent.
LEMMA InsertRecolours ==
  ASSUME NEW t, NEW b, Grown(t, b), NEW h, Level(t, h, Null, "left"), NEW x, Apart(t, x, Null),
         NEW n \in Nodes, n \notin t.red, NEW s \in Side,
         NEW p, t.kid[n][s] = p, p \in t.red, NEW q, t.kid[n][Opp(s)] = q, q \in t.red,
         x = Null \/ (x \in Nodes /\ t.parent[x] = p),
         NEW g, g = Colour(t, {q, p}, {n})
  PROVE  (\E k : Level(g, k, Null, "left")) /\ Apart(g, n, Null)
<1> DEFINE k == [h EXCEPT ![n] = h[n] + 1]
<1>1. /\ t \in Trees /\ h[Null] = 0 /\ \A m \in OrNull : h[m] \in Nat
      /\ \A m \in Nodes, r \in Side : t.kid[m][r] \in OrNull /\ h[t.kid[m][r]] \in Nat
      /\ \A m \in Nodes, r \in Side :
           h[m] = h[t.kid[m][r]] + One(t, t.kid[m][r]) + (IF m = Null /\ r = "left" THEN 1 ELSE 0)
  BY LevelFacts
<1>2. Null \notin t.red /\ t.red \subseteq Nodes /\ Null \notin Nodes
  BY <1>1, OneFacts, KeyFacts
<1>3. \A m \in Nodes, r \in Side : h[m] = h[t.kid[m][r]] + One(t, t.kid[m][r])
  <2> SUFFICES ASSUME NEW m \in Nodes, NEW r \in Side
               PROVE  h[m] = h[t.kid[m][r]] + One(t, t.kid[m][r])
    OBVIOUS
  <2>1. h[m] = h[t.kid[m][r]] + One(t, t.kid[m][r]) + 0
    BY <1>1, <1>2
  <2>2. h[t.kid[m][r]] \in Nat /\ One(t, t.kid[m][r]) \in {0, 1}
    BY <1>1 DEF One
  <2> QED BY <2>1, <2>2
<1>4. /\ g \in Trees /\ g.root = t.root /\ g.parent = t.parent /\ g.kid = t.kid
      /\ g.red = (t.red \ {q, p}) \cup {n}
  BY <1>1, ColourFields
<1>5. /\ p \in Nodes /\ q \in Nodes /\ p # n /\ q # n /\ p # q
      /\ \A m \in Nodes, r \in Side :
           /\ t.kid[m][r] = p => m = n
           /\ t.kid[m][r] = q => m = n
  <2>1. p \in Nodes /\ q \in Nodes /\ Opp(s) \in Side
    BY <1>2, SideFacts
  <2>2. p # n /\ p # q /\ t.parent[p] = n
    BY <2>1, GrownKid
  <2>3. q # n /\ t.parent[q] = n
    BY <2>1, GrownKid
  <2>4. \A m \in Nodes, r \in Side : t.kid[m][r] # Null => t.parent[t.kid[m][r]] = m
    BY DEF Grown, Joined
  <2> QED BY <1>2, <2>1, <2>2, <2>3, <2>4
<1>6. /\ k \in [OrNull -> Nat] /\ k[n] = h[n] + 1 /\ \A m \in OrNull : m # n => k[m] = h[m]
      /\ k[Null] = 0
  BY <1>1, <1>2 DEF Level, OrNull
<1> HIDE DEF k
<1>7. ASSUME NEW m \in Nodes, NEW r \in Side
      PROVE  k[m] = k[g.kid[m][r]] + One(g, g.kid[m][r])
  <2> DEFINE y == t.kid[m][r]
  <2>1. y \in OrNull /\ g.kid[m][r] = y /\ h[m] = h[y] + One(t, y)
    BY <1>1, <1>3, <1>4
  <2>2. /\ m = n => y = p \/ y = q
        /\ m # n => y # p /\ y # q
    BY <1>5, SideFacts
  <2>3. y = n => m # n
    BY <1>5, <2>2
  <2> HIDE DEF y
  <2>4. h[y] \in Nat /\ h[m] \in Nat
    BY <1>1, <2>1 DEF OrNull
  <2>5. CASE m = n
    <3>1. y # n /\ One(t, y) = 0 /\ One(g, y) = 1
      BY <1>4, <1>5, <2>2, <2>5 DEF One
    <3> QED BY <1>6, <2>1, <2>4, <2>5, <3>1
  <2>6. CASE y = n
    <3>1. m # n /\ One(t, y) = 1 /\ One(g, y) = 0
      BY <1>4, <2>3, <2>6 DEF One
    <3> QED BY SMTT(30), <1>6, <2>1, <2>4, <2>6, <3>1 DEF OrNull
  <2>7. CASE m # n /\ y # n
    <3>1. One(g, y) = One(t, y)
      BY <1>4, <2>2, <2>7 DEF One
    <3> QED BY <1>6, <2>1, <2>7, <3>1 DEF OrNull
  <2> QED BY <2>5, <2>6, <2>7
<1>8. Level(g, k, Null, "left")
  <2> SUFFICES ASSUME NEW m \in Nodes, NEW r \in Side
               PROVE  k[m] = k[g.kid[m][r]] + One(g, g.kid[m][r])
                               + (IF m = Null /\ r = "left" THEN 1 ELSE 0)
    BY <1>6 DEF Level
  <2>1. k[g.kid[m][r]] \in Nat /\ One(g, g.kid[m][r]) \in {0, 1}
    BY <1>1, <1>4, <1>6 DEF One
  <2>2. k[m] = k[g.kid[m][r]] + One(g, g.kid[m][r])
    BY <1>7
  <2> QED BY SMTT(30), <1>2, <2>1, <2>2
<1>9. Apart(g, n, Null)
  <2>1. g.root \in g.red => g.root = n \/ t.root = x
    BY <1>2, <1>4 DEF Apart
  <2>2. t.root = x => x = Null
    <3>1. t.root # Null => t.parent[t.root] = Null
      BY DEF Grown, Joined
    <3> QED BY <1>2, <1>5, <3>1
  <2>3. ASSUME NEW m \in Nodes, NEW r \in Side, m \in g.red, g.kid[m][r] \in g.red
        PROVE  g.kid[m][r] = n
    <3>1. m # p /\ m # q /\ t.kid[m][r] \notin {p, q}
      BY <1>4, <1>5, <2>3
    <3>2. m # n
      BY <3>1, SideFacts
    <3>3. t.kid[m][r] # n => m \in t.red /\ t.kid[m][r] \in t.red
      BY <1>4, <2>3, <3>2
    <3>4. t.kid[m][r] # n => t.kid[m][r] = x /\ t.kid[m][r] # Null
      BY <1>2, <3>3 DEF Apart
    <3>5. t.kid[m][r] # Null => t.parent[t.kid[m][r]] = m
      BY DEF Grown, Joined
    <3> QED BY <1>2, <1>4, <3>1, <3>4, <3>5
  <2> QED BY <1>2, <1>4, <2>1, <2>2, <2>3 DEF Apart
<1> QED BY <1>8, <1>9

\* One pass of __rb_erase_color: what is missing on one side is taken away on the other.
LEMMA EraseRecolours ==
  ASSUME NEW t, NEW b, Grown(t, b), NEW n \in Nodes, NEW s \in Side,
         NEW h, Level(t, h, n, s), Apart(t, Null, Null),
         NEW q, t.kid[n][Opp(s)] = q, q \in Nodes, q \notin t.red,
         \A r \in Side : t.kid[q][r] \notin t.red,
         NEW p, t.parent[n] = p, NEW g, g = Colour(t, {}, {q})
  PROVE  (\E k : Level(g, k, p, SideOf(t, n, p))) /\ Apart(g, Null, n)
<1> DEFINE k == [h EXCEPT ![n] = h[q]]
<1>1. /\ t \in Trees /\ h[Null] = 0 /\ \A m \in OrNull : h[m] \in Nat
      /\ \A m \in Nodes, r \in Side : t.kid[m][r] \in OrNull /\ h[t.kid[m][r]] \in Nat
      /\ \A m \in Nodes, r \in Side :
           h[m] = h[t.kid[m][r]] + One(t, t.kid[m][r]) + (IF m = n /\ r = s THEN 1 ELSE 0)
  BY LevelFacts
<1>2. Null \notin t.red /\ t.red \subseteq Nodes /\ Null \notin Nodes
  BY <1>1, OneFacts, KeyFacts
<1>3. /\ g \in Trees /\ g.root = t.root /\ g.parent = t.parent /\ g.kid = t.kid
      /\ g.red = t.red \cup {q}
  BY <1>1, ColourFields
<1>4. /\ Opp(s) \in Side /\ Opp(s) # s /\ q # n /\ n \in Placed(t) /\ q # t.root
      /\ t.kid[n][s] # q /\ t.parent[q] = n
  <2>1. Opp(s) \in Side /\ Opp(s) # s /\ Opp(Opp(s)) = s
    BY SideFacts
  <2> QED BY <2>1, GrownKid
<1>5. \A m \in Nodes, r \in Side :
        t.kid[m][r] = n <=> p # Null /\ m = p /\ SideOf(t, n, p) = r
  BY <1>4, OnlyLink
<1>6. \A m \in Nodes, r \in Side : t.kid[m][r] = q => m = n /\ r = Opp(s)
  <2>1. \A m \in Nodes, r \in Side : t.kid[m][r] # Null => t.parent[t.kid[m][r]] = m
    BY DEF Grown, Joined
  <2> QED BY <1>2, <1>4, <2>1, SideFacts
<1>7. /\ k \in [OrNull -> Nat] /\ k[n] = h[q] /\ \A m \in OrNull : m # n => k[m] = h[m]
      /\ k[Null] = 0
  BY <1>1, <1>2 DEF Level, OrNull
<1> HIDE DEF k
<1>8. h[n] = h[q] + 1
  <2>1. h[n] = h[q] + One(t, q) + 0
    BY <1>1, <1>4
  <2>2. One(t, q) = 1 /\ h[q] \in Nat
    BY <1>1 DEF One, OrNull
  <2> QED BY <2>1, <2>2
<1>9. ASSUME NEW m \in Nodes, NEW r \in Side
      PROVE  k[m] = k[g.kid[m][r]] + One(g, g.kid[m][r])
                      + (IF m = p /\ SideOf(t, n, p) = r THEN 1 ELSE 0)
  <2> DEFINE y == t.kid[m][r]
  <2>1. /\ y \in OrNull /\ g.kid[m][r] = y
        /\ h[m] = h[y] + One(t, y) + (IF m = n /\ r = s THEN 1 ELSE 0)
    BY <1>1, <1>3
  <2>2. y = n <=> m = p /\ SideOf(t, n, p) = r
    BY <1>2, <1>5
  <2>3. y = q <=> m = n /\ r = Opp(s)
    BY <1>6
  <2>4. p # n
    BY <1>4 DEF Placed
  <2> HIDE DEF y
  <2>5. h[y] \in Nat /\ h[q] \in Nat /\ One(t, y) \in {0, 1} /\ m \in OrNull
    BY <1>1, <2>1 DEF OrNull, One
  <2>6. CASE m = n /\ r = s
    <3>1. y # n /\ y # q /\ One(g, y) = One(t, y)
      BY <1>3, <1>4, <2>2, <2>3, <2>4, <2>6 DEF One
    <3> QED BY <1>7, <1>8, <2>1, <2>4, <2>5, <2>6, <3>1
  <2>7. CASE m = n /\ r = Opp(s)
    <3>1. y = q /\ One(g, y) = 0
      BY <1>3, <2>3, <2>7 DEF One
    <3>2. k[q] = h[q]
      BY <1>4, <1>7 DEF OrNull
    <3> QED BY <1>7, <2>1, <2>4, <2>5, <2>7, <3>1, <3>2
  <2>8. CASE m # n /\ y = n
    <3>1. One(g, y) = One(t, y)
      BY <1>3, <1>4, <2>8 DEF One
    <3>2. k[m] = h[m] /\ h[m] = h[n] + One(t, y) + 0
      BY <1>7, <2>1, <2>5, <2>8
    <3> QED BY <1>7, <1>8, <2>1, <2>2, <2>5, <2>8, <3>1, <3>2
  <2>9. CASE m # n /\ y # n
    <3>1. One(g, y) = One(t, y) /\ k[y] = h[y] /\ k[m] = h[m]
      BY <1>3, <1>7, <2>1, <2>3, <2>5, <2>9 DEF One
    <3> QED BY <2>1, <2>2, <2>5, <2>9, <3>1
  <2> QED BY SMTT(30), <2>6, <2>7, <2>8, <2>9, SideFacts
<1>10. Level(g, k, p, SideOf(t, n, p))
  BY ZenonT(60), <1>7, <1>9 DEF Level
<1>11. Apart(g, Null, n)
  <2>1. t.root \notin t.red /\ \A m \in Nodes, r \in Side : ~(m \in t.red /\ t.kid[m][r] \in t.red)
    BY <1>2 DEF Apart
  <2>2. \A m \in Nodes, r \in Side : m \in g.red /\ g.kid[m][r] \in g.red => m = n
    BY <1>3, <1>6, <2>1
  <2> QED BY <1>3, <1>4, <2>1, <2>2 DEF Apart
<1> QED BY <1>10, <1>11

\* The root, or the place that is too low, is made black.
LEMMA RootBlackened ==
  ASSUME NEW t, NEW b, Grown(t, b), NEW h, Level(t, h, Null, "left"), NEW x, NEW y, Apart(t, x, y),
         NEW g, g = Colour(t, {t.root}, {})
  PROVE  /\ Level(g, h, Null, "left")
         /\ ((x \in {Null, t.root} \/ t.parent[x] \notin t.red) /\ y \in {Null, t.root})
              => Apart(g, Null, Null)
<1>1. /\ t \in Trees /\ Null \notin Nodes /\ Null \notin t.red /\ t.red \subseteq Nodes
  BY OneFacts, KeyFacts DEF Grown
<1>2. /\ g \in Trees /\ g.root = t.root /\ g.parent = t.parent /\ g.kid = t.kid
      /\ g.red = t.red \ {t.root}
  BY <1>1, ColourFields
<1>3. \A m \in Nodes, r \in Side :
        t.kid[m][r] # Null => t.kid[m][r] # t.root /\ t.parent[t.kid[m][r]] = m
  BY <1>1 DEF Grown, Joined
<1>4. ASSUME NEW m \in Nodes, NEW r \in Side
      PROVE  One(g, g.kid[m][r]) = One(t, t.kid[m][r])
  <2>1. g.kid[m][r] = t.kid[m][r]
    BY <1>2
  <2>2. t.kid[m][r] # t.root \/ t.kid[m][r] = Null
    BY <1>3
  <2>3. t.kid[m][r] \in g.red <=> t.kid[m][r] \in t.red
    BY <1>1, <1>2, <2>2
  <2> QED BY <2>1, <2>3 DEF One
<1>5. Level(g, h, Null, "left")
  BY <1>2, <1>4 DEF Level
<1>6. ASSUME x \in {Null, t.root} \/ t.parent[x] \notin t.red, y \in {Null, t.root}
      PROVE  Apart(g, Null, Null)
  <2>1. ASSUME NEW m \in Nodes, NEW r \in Side, m \in g.red, g.kid[m][r] \in g.red
        PROVE  FALSE
    <3>1. m \in t.red /\ t.kid[m][r] \in t.red /\ m # t.root
      BY <1>2, <2>1
    <3>4. t.kid[m][r] # Null
      BY <1>1, <3>1
    <3>5. t.kid[m][r] # t.root /\ t.parent[t.kid[m][r]] = m
      BY <1>3, <3>4
    <3>2. t.kid[m][r] \in {x, y} \/ m = y
      BY <3>1 DEF Apart
    <3>3. m # Null
      BY <1>1
    <3>6. CASE t.kid[m][r] = x
      BY <1>6, <3>1, <3>4, <3>5, <3>6
    <3>7. CASE t.kid[m][r] = y \/ m = y
      BY <1>6, <3>1, <3>3, <3>4, <3>5, <3>7
    <3> QED BY <3>2, <3>6, <3>7
  <2> QED BY <1>2, <2>1 DEF Apart
<1> QED BY <1>5, <1>6

\* The end of __rb_erase_color: a red node on the path that is too low turns
\* black and makes up for it.
LEMMA PlaceBlackened ==
  ASSUME NEW t, NEW b, Grown(t, b), NEW u \in Nodes, NEW v \in Side, NEW n \in Nodes,
         t.kid[u][v] = n, n \in t.red,
         NEW h, Level(t, h, u, v), Apart(t, Null, n), NEW g, g = Colour(t, {n}, {})
  PROVE  Level(g, h, Null, "left") /\ Apart(g, Null, Null)
<1>1. /\ t \in Trees /\ Null \notin Nodes /\ Null \notin t.red /\ t.red \subseteq Nodes
  BY OneFacts, KeyFacts DEF Grown
<1>2. /\ g \in Trees /\ g.root = t.root /\ g.parent = t.parent /\ g.kid = t.kid
      /\ g.red = t.red \ {n}
  BY <1>1, ColourFields
<1>3. \A m \in Nodes, r \in Side : t.kid[m][r] = n <=> m = u /\ r = v
  <2> SUFFICES ASSUME NEW m \in Nodes, NEW r \in Side, t.kid[m][r] = n PROVE m = u /\ r = v
    OBVIOUS
  <2>1. t.parent[n] = u /\ SideOf(t, n, u) = v
    BY GrownKid
  <2>2. t.parent[n] = m /\ SideOf(t, n, m) = r
    BY GrownKid
  <2> QED BY <2>1, <2>2
<1>4. ASSUME NEW m \in Nodes, NEW r \in Side
      PROVE  h[m] = h[g.kid[m][r]] + One(g, g.kid[m][r]) + (IF m = Null /\ r = "left" THEN 1 ELSE 0)
  <2> DEFINE y == t.kid[m][r]
  <2>1. /\ y \in OrNull /\ h[y] \in Nat /\ g.kid[m][r] = y
        /\ h[m] = h[y] + One(t, y) + (IF m = u /\ r = v THEN 1 ELSE 0)
        /\ y = n <=> m = u /\ r = v
    BY <1>2, <1>3, LevelFacts
  <2> HIDE DEF y
  <2>2. y = n => One(t, y) = 0 /\ One(g, y) = 1
    BY <1>2 DEF One
  <2>3. y # n => One(t, y) = One(g, y) /\ One(g, y) \in {0, 1}
    BY <1>2 DEF One
  <2> QED BY <1>1, <2>1, <2>2, <2>3
<1>5. Level(g, h, Null, "left")
  BY <1>4 DEF Level
<1>6. n # t.root
  BY GrownKid
<1>7. Apart(g, Null, Null)
  BY ZenonT(60), <1>1, <1>2, <1>6 DEF Apart
<1> QED BY <1>5, <1>7

-----------------------------------------------------------------------------
(* Insertion, removal, replacement *)

\* A new red leaf keeps the heights, and is the only one that may have a red
\* parent.
LEMMA LeafedColours ==
  ASSUME NEW t, NEW b, Grown(t, b), NEW h, Level(t, h, Null, "left"), Apart(t, Null, Null),
         NEW n, NEW p, Descended(t, b, n, p), Link(t, n, p) = Null, NEW g, Leafed(t, g, n, p)
  PROVE  Level(g, h, Null, "left") /\ Apart(g, n, Null)
<1>1. /\ t \in Trees /\ Null \notin Nodes /\ Null \notin t.red /\ t.red \subseteq Nodes
      /\ n \in Nodes \ Placed(t) /\ p \in Placed(t) \cup {Null} /\ h[Null] = 0
  BY OneFacts, KeyFacts DEF Grown, Descended, Level
<1>2. \A r \in Side : t.kid[n][r] = Null
  BY <1>1, GrownMembers
<1>3. ASSUME NEW m \in Nodes, NEW r \in Side
      PROVE  h[m] = h[t.kid[m][r]] + One(t, t.kid[m][r]) /\ t.kid[m][r] \in OrNull
             /\ h[t.kid[m][r]] \in Nat
  <2>1. /\ h[m] = h[t.kid[m][r]] + One(t, t.kid[m][r])
                    + (IF m = Null /\ r = "left" THEN 1 ELSE 0)
        /\ t.kid[m][r] \in OrNull /\ h[t.kid[m][r]] \in Nat
    BY LevelFacts
  <2>2. One(t, t.kid[m][r]) \in {0, 1}
    BY DEF One
  <2> QED BY <1>1, <2>1, <2>2
<1>4. \A m \in Nodes, r \in Side : t.kid[m][r] # n
  <2>1. \A m \in Nodes, r \in Side : t.kid[m][r] \in Nodes => t.kid[m][r] \in Placed(t)
    BY GrownKid
  <2> QED BY <1>1, <2>1
<1>5. /\ g \in Trees /\ g.root = (IF p = Null THEN n ELSE t.root)
      /\ \A m \in Nodes, r \in Side :
           g.kid[m][r] = IF m = n THEN Null
                         ELSE IF m = p /\ r = KeySide(n, p) THEN n ELSE t.kid[m][r]
      /\ g.red = IF p = Null THEN t.red \ {n} ELSE t.red \cup {n}
  BY DEF Leafed
<1>6. p # Null => t.kid[p][KeySide(n, p)] = Null /\ KeySide(n, p) \in Side /\ p \in Nodes
  BY <1>1 DEF Link, KeySide, Side, Placed
<1>7. h[n] = 1
  <2>1. h[n] = h[Null] + One(t, Null)
    BY <1>1, <1>2, <1>3, SideFacts
  <2> QED BY <1>1, <2>1 DEF One
<1>8. ASSUME NEW m \in Nodes, NEW r \in Side
      PROVE  h[m] = h[g.kid[m][r]] + One(g, g.kid[m][r]) + (IF m = Null /\ r = "left" THEN 1 ELSE 0)
  <2>1. h[m] = h[t.kid[m][r]] + One(t, t.kid[m][r]) /\ h[t.kid[m][r]] \in Nat
    BY <1>3
  <2>2. CASE m = n
    <3>1. g.kid[m][r] = Null /\ One(g, Null) = 1
      BY <1>1, <1>5, <2>2 DEF One
    <3> QED BY <1>1, <1>7, <2>2, <3>1
  <2>3. CASE m # n /\ m = p /\ r = KeySide(n, p)
    <3>1. p # Null /\ g.kid[m][r] = n /\ One(g, n) = 0 /\ One(t, Null) = 1 /\ t.kid[m][r] = Null
      BY <1>1, <1>5, <1>6, <2>3 DEF One
    <3> QED BY <1>1, <1>7, <2>1, <3>1
  <2>4. CASE m # n /\ ~(m = p /\ r = KeySide(n, p))
    <3>1. g.kid[m][r] = t.kid[m][r] /\ t.kid[m][r] # n
      BY <1>4, <1>5, <2>4
    <3>2. One(g, t.kid[m][r]) = One(t, t.kid[m][r]) /\ One(t, t.kid[m][r]) \in {0, 1}
      BY <1>5, <3>1 DEF One
    <3> QED BY <1>1, <2>1, <3>1, <3>2
  <2> QED BY <2>2, <2>3, <2>4
<1>9. Level(g, h, Null, "left")
  BY <1>8 DEF Level
<1>10. Apart(g, n, Null)
  <2>1. t.root \notin t.red /\ \A m \in Nodes, r \in Side : ~(m \in t.red /\ t.kid[m][r] \in t.red)
    BY <1>1 DEF Apart
  <2>2. \A m \in Nodes, r \in Side : m \in g.red /\ g.kid[m][r] \in g.red => g.kid[m][r] = n
    <3> SUFFICES ASSUME NEW m \in Nodes, NEW r \in Side, m \in g.red, g.kid[m][r] \in g.red,
                        g.kid[m][r] # n
                 PROVE  FALSE
      OBVIOUS
    <3>1. m # n /\ g.kid[m][r] = t.kid[m][r]
      BY <1>1, <1>5
    <3> QED BY <1>5, <2>1, <3>1
  <2> QED BY <1>5, <2>1, <2>2 DEF Apart
<1> QED BY <1>9, <1>10

\* Unlinking a red node keeps the heights; unlinking a black one leaves its
\* place one too low.
LEMMA UnlinkedColours ==
  ASSUME NEW t, NEW b, Grown(t, b), NEW h, Level(t, h, Null, "left"), Apart(t, Null, Null),
         NEW n, NEW s, NEW child, NEW p, Loose(t, n, s, child, p),
         NEW g, Unlinked(t, g, n, child, p)
  PROVE  /\ n \in t.red => Level(g, h, Null, "left") /\ Apart(g, Null, Null)
         /\ n \notin t.red => /\ Level(g, h, p, SideOf(t, n, p)) /\ Apart(g, Null, child)
                              /\ p # Null => SideOf(t, n, p) \in Side /\ g.kid[p][SideOf(t, n, p)] = child
                              /\ p = Null => g.root = child
<1>1. /\ t \in Trees /\ Null \notin Nodes /\ Null \notin t.red /\ t.red \subseteq Nodes /\ h[Null] = 0
      /\ n \in Nodes /\ n \in Placed(t) /\ s \in Side /\ Opp(s) \in Side
      /\ t.kid[n][s] = child /\ t.kid[n][Opp(s)] = Null /\ t.parent[n] = p
      /\ child \in OrNull /\ p \in OrNull /\ child # n /\ p # n
      /\ child \in Nodes => t.parent[child] = n
      /\ p # Null => p \in Nodes /\ n # t.root
      /\ p = Null => n = t.root
  BY OneFacts, KeyFacts, LooseFacts, SideFacts DEF Grown, Level, Loose
<1>2. /\ g \in Trees /\ g.root = (IF p = Null THEN child ELSE t.root)
      /\ \A m \in Nodes, r \in Side :
           g.kid[m][r] = IF m = n THEN Null ELSE IF t.kid[m][r] = n THEN child ELSE t.kid[m][r]
      /\ g.red = t.red \cup {n}
  BY DEF Unlinked
<1>3. \A m \in Nodes, r \in Side :
        t.kid[m][r] = n <=> p # Null /\ m = p /\ SideOf(t, n, p) = r
  BY <1>1, OnlyLink
<1>4. p # Null => SideOf(t, n, p) \in Side /\ t.kid[p][SideOf(t, n, p)] = n
  BY <1>1, GrownParent
<1>5. ASSUME NEW m \in Nodes, NEW r \in Side
      PROVE  h[m] = h[t.kid[m][r]] + One(t, t.kid[m][r]) /\ t.kid[m][r] \in OrNull
             /\ h[t.kid[m][r]] \in Nat
  <2>1. /\ h[m] = h[t.kid[m][r]] + One(t, t.kid[m][r])
                    + (IF m = Null /\ r = "left" THEN 1 ELSE 0)
        /\ t.kid[m][r] \in OrNull /\ h[t.kid[m][r]] \in Nat
    BY LevelFacts
  <2>2. One(t, t.kid[m][r]) \in {0, 1}
    BY DEF One
  <2> QED BY <1>1, <2>1, <2>2
<1>6. h[n] = 1 /\ h[n] = h[child] + One(t, child) /\ h[child] \in Nat
  <2>1. h[n] = h[Null] + One(t, Null)
    BY <1>1, <1>5
  <2>2. h[n] = h[child] + One(t, child) /\ h[child] \in Nat
    BY <1>1, <1>5
  <2> QED BY <1>1, <2>1, <2>2 DEF One
<1>7. ASSUME NEW m \in Nodes, NEW r \in Side
      PROVE  /\ m = p /\ SideOf(t, n, p) = r => h[m] = h[g.kid[m][r]] + One(g, g.kid[m][r]) + One(t, n)
             /\ ~(m = p /\ SideOf(t, n, p) = r) => h[m] = h[g.kid[m][r]] + One(g, g.kid[m][r])
             /\ h[g.kid[m][r]] + One(g, g.kid[m][r]) \in Nat
  <2>0. h[m] = h[t.kid[m][r]] + One(t, t.kid[m][r]) /\ h[t.kid[m][r]] \in Nat /\ t.kid[m][r] \in OrNull
    BY <1>5
  <2>1. \A x : x # n => One(g, x) = One(t, x)
    BY <1>2 DEF One
  <2>2. \A x : One(t, x) \in {0, 1}
    BY DEF One
  <2>3. CASE m = n
    <3>1. g.kid[m][r] = Null /\ One(g, Null) = 1 /\ m # p
      BY <1>1, <1>2, <2>1, <2>3 DEF One
    <3> QED BY <1>1, <1>6, <2>3, <3>1
  <2>4. CASE m # n /\ t.kid[m][r] = n
    <3>1. g.kid[m][r] = child /\ One(g, child) = One(t, child) /\ m = p /\ SideOf(t, n, p) = r
      BY <1>1, <1>2, <1>3, <2>1, <2>4
    <3>2. h[m] = h[n] + One(t, n)
      BY <2>0, <2>4
    <3> QED BY <1>6, <2>2, <3>1, <3>2
  <2>5. CASE m # n /\ t.kid[m][r] # n
    <3>1. g.kid[m][r] = t.kid[m][r] /\ One(g, t.kid[m][r]) = One(t, t.kid[m][r])
      BY <1>2, <2>1, <2>5
    <3>2. ~(m = p /\ SideOf(t, n, p) = r)
      BY <1>1, <1>3, <2>5
    <3> QED BY <2>0, <2>2, <3>1, <3>2
  <2> QED BY <2>3, <2>4, <2>5
<1>8. t.root \notin t.red /\ \A m \in Nodes, r \in Side : ~(m \in t.red /\ t.kid[m][r] \in t.red)
  BY <1>1 DEF Apart
<1>9. ASSUME NEW m \in Nodes, NEW r \in Side, m \in g.red, g.kid[m][r] \in g.red
      PROVE  g.kid[m][r] = child /\ n \notin t.red
  <2>1. m # n
    BY <1>1, <1>2, <1>9
  <2>2. m \in t.red /\ t.kid[m][r] \notin t.red
    BY <1>2, <1>8, <1>9, <2>1
  <2>3. t.kid[m][r] = n
    BY <1>2, <1>9, <2>1, <2>2
  <2> QED BY <1>2, <2>1, <2>2, <2>3
<1>10. CASE n \in t.red
  <2>1. One(t, n) = 0
    BY <1>10 DEF One
  <2>2. Level(g, h, Null, "left")
    <3> SUFFICES ASSUME NEW m \in Nodes, NEW r \in Side
                 PROVE  h[m] = h[g.kid[m][r]] + One(g, g.kid[m][r])
                                 + (IF m = Null /\ r = "left" THEN 1 ELSE 0)
      BY DEF Level
    <3>1. h[m] = h[g.kid[m][r]] + One(g, g.kid[m][r]) + 0
      BY <1>7, <2>1
    <3> QED BY <1>1, <3>1
  <2>3. Apart(g, Null, Null)
    <3>1. p # Null
      BY <1>1, <1>8, <1>10
    <3> QED BY <1>1, <1>2, <1>8, <1>9, <1>10, <3>1 DEF Apart
  <2> QED BY <1>10, <2>2, <2>3
<1>11. CASE n \notin t.red
  <2>1. One(t, n) = 1
    BY <1>11 DEF One
  <2>2. Level(g, h, p, SideOf(t, n, p))
    <3> SUFFICES ASSUME NEW m \in Nodes, NEW r \in Side
                 PROVE  h[m] = h[g.kid[m][r]] + One(g, g.kid[m][r])
                                 + (IF m = p /\ SideOf(t, n, p) = r THEN 1 ELSE 0)
      BY DEF Level
    <3> QED BY <1>7, <2>1
  <2>3. Apart(g, Null, child)
    <3>1. g.root \in g.red => g.root = child
      <4>1. p # Null => g.root = t.root /\ t.root # n
        BY <1>1, <1>2
      <4>2. p = Null => g.root = child
        BY <1>2
      <4> QED BY <1>2, <1>8, <4>1, <4>2
    <3> QED BY <1>9, <3>1 DEF Apart
  <2>4. p # Null => g.kid[p][SideOf(t, n, p)] = child
    BY <1>1, <1>2, <1>4
  <2> QED BY <1>2, <1>4, <1>11, <2>2, <2>3, <2>4
<1> QED BY <1>10, <1>11

\* A node that takes the place and the colour of another changes nothing else.
LEMMA PlacedColours ==
  ASSUME NEW t, NEW b, Grown(t, b), NEW o, NEW n, Fits(t, b, o, n),
         NEW g, Placing(t, g, o, n), g.red = Recoloured(t.red, o, n),
         NEW h, NEW u, NEW v, Level(t, h, u, v), u # n,
         NEW y, Apart(t, Null, y), y # o, y # n, NEW w, w = IF u = o THEN n ELSE u
  PROVE  /\ \E k : Level(g, k, w, v)
         /\ Apart(g, Null, y)
         /\ u \in Nodes /\ v \in Side /\ t.kid[u][v] = y => w \in Nodes /\ w # o /\ g.kid[w][v] = y
<1>1. /\ t \in Trees /\ Null \notin Nodes /\ Null \notin t.red /\ t.red \subseteq Nodes
      /\ o \in Nodes /\ n \in Nodes /\ o # n /\ n \notin Placed(t) /\ o \in Placed(t)
  BY OneFacts, KeyFacts DEF Grown, Fits, Placed
<1>2. /\ g \in Trees /\ g.root = (IF t.parent[o] = Null THEN n ELSE t.root)
      /\ \A m \in Nodes, r \in Side :
           g.kid[m][r] = IF m = o THEN Null ELSE IF m = n THEN t.kid[o][r]
                         ELSE IF t.kid[m][r] = o THEN n ELSE t.kid[m][r]
  BY DEF Placing
<1>3. /\ \A m \in Nodes \ {o, n} : m \in g.red <=> m \in t.red
      /\ n \in g.red <=> o \in t.red
      /\ o \in g.red /\ Null \notin g.red
  BY <1>1 DEF Recoloured
<1>4. /\ h[Null] = 0 /\ \A m \in OrNull : h[m] \in Nat
      /\ \A m \in Nodes, r \in Side :
           h[m] = h[t.kid[m][r]] + One(t, t.kid[m][r]) + (IF m = u /\ r = v THEN 1 ELSE 0)
  BY LevelFacts
<1>5. \A m \in Nodes, r \in Side : t.kid[m][r] \in OrNull /\ t.kid[m][r] # n
  <2>1. \A m \in Nodes, r \in Side : t.kid[m][r] \in Nodes => t.kid[m][r] \in Placed(t)
    BY GrownKid
  <2> QED BY <1>1, <2>1, LevelFacts
<1>6. \A r \in Side : t.kid[o][r] # o
  BY <1>1, GrownKid
<1> DEFINE k == [[h EXCEPT ![n] = h[o]] EXCEPT ![o] = 1]
<1>7. /\ k \in [OrNull -> Nat] /\ k[n] = h[o] /\ k[o] = 1 /\ k[Null] = 0
      /\ \A m \in OrNull \ {n, o} : k[m] = h[m]
  BY <1>1, <1>4 DEF Level, OrNull
<1> HIDE DEF k
<1>8. ASSUME NEW m \in Nodes, NEW r \in Side
      PROVE  k[m] = k[g.kid[m][r]] + One(g, g.kid[m][r]) + (IF m = w /\ r = v THEN 1 ELSE 0)
  <2>1. CASE m = o
    <3>1. g.kid[m][r] = Null /\ One(g, Null) = 1 /\ m # w
      BY <1>1, <1>2, <1>3, <2>1 DEF One
    <3> QED BY <1>7, <2>1, <3>1
  <2>2. CASE m = n
    <3> DEFINE z == t.kid[o][r]
    <3>1. g.kid[m][r] = z /\ z \in OrNull /\ z # o /\ z # n
      BY <1>1, <1>2, <1>5, <1>6, <2>2
    <3>2. h[o] = h[z] + One(t, z) + (IF o = u /\ r = v THEN 1 ELSE 0)
      BY <1>1, <1>4
    <3>3. m = w <=> o = u
      BY <1>1, <2>2
    <3> HIDE DEF z
    <3>4. One(g, z) = One(t, z) /\ k[z] = h[z]
      BY <1>1, <1>3, <1>7, <3>1 DEF One, OrNull
    <3> QED BY <1>7, <2>2, <3>1, <3>2, <3>3, <3>4
  <2>3. CASE m # o /\ m # n
    <3> DEFINE z == t.kid[m][r]
    <3>1. /\ z \in OrNull /\ z # n /\ g.kid[m][r] = IF z = o THEN n ELSE z
          /\ h[m] = h[z] + One(t, z) + (IF m = u /\ r = v THEN 1 ELSE 0)
      BY <1>2, <1>4, <1>5, <2>3
    <3>2. m = w <=> m = u
      BY <2>3
    <3> HIDE DEF z
    <3>3. k[m] = h[m]
      BY <1>7, <2>3 DEF OrNull
    <3>4. CASE z = o
      <4>1. One(g, n) = One(t, o)
        BY <1>3 DEF One
      <4> QED BY <1>7, <3>1, <3>2, <3>3, <3>4, <4>1
    <3>5. CASE z # o
      <4>1. One(g, z) = One(t, z) /\ k[z] = h[z]
        BY <1>1, <1>3, <1>7, <3>1, <3>5 DEF One, OrNull
      <4> QED BY <3>1, <3>2, <3>3, <3>5, <4>1
    <3> QED BY <3>4, <3>5
  <2> QED BY <2>1, <2>2, <2>3
<1>9. Level(g, k, w, v)
  BY <1>7, <1>8 DEF Level
<1>10. Apart(g, Null, y)
  <2>1. /\ t.root \in t.red => t.root = y
        /\ \A m \in Nodes, r \in Side : m \in t.red /\ t.kid[m][r] \in t.red => t.kid[m][r] = y \/ m = y
    BY <1>1 DEF Apart
  <2>2. g.root \in g.red => g.root = y
    <3>1. t.parent[o] = Null <=> o = t.root
      BY <1>1, GrownParent
    <3>2. t.root # n
      BY <1>1, GrownMembers
    <3>3. t.root \in OrNull
      BY <1>1 DEF Trees
    <3>4. CASE o = t.root
      BY <1>2, <1>3, <2>1, <3>1, <3>4
    <3>5. CASE o # t.root
      BY <1>2, <1>3, <2>1, <3>1, <3>2, <3>3, <3>5 DEF OrNull
    <3> QED BY <3>4, <3>5
  <2>3. ASSUME NEW m \in Nodes, NEW r \in Side, m \in g.red, g.kid[m][r] \in g.red
        PROVE  g.kid[m][r] = y \/ m = y
    <3>1. m # o
      BY <1>2, <1>3, <2>3
    <3>2. CASE m = n
      <4>1. g.kid[m][r] = t.kid[o][r] /\ t.kid[o][r] # o /\ t.kid[o][r] # n /\ t.kid[o][r] \in OrNull
        BY <1>1, <1>2, <1>5, <1>6, <3>2
      <4>2. o \in t.red /\ t.kid[o][r] \in t.red
        BY <1>3, <2>3, <3>2, <4>1 DEF OrNull
      <4> QED BY <1>1, <2>1, <4>1, <4>2
    <3>3. CASE m # n /\ t.kid[m][r] = o
      <4>1. g.kid[m][r] = n /\ m \in t.red /\ o \in t.red
        BY <1>2, <1>3, <2>3, <3>1, <3>3
      <4> QED BY <2>1, <3>3, <4>1
    <3>4. CASE m # n /\ t.kid[m][r] # o
      <4>1. g.kid[m][r] = t.kid[m][r] /\ t.kid[m][r] \in OrNull /\ t.kid[m][r] # n
        BY <1>2, <1>5, <3>1, <3>4
      <4>2. m \in t.red /\ t.kid[m][r] \in t.red
        BY <1>3, <2>3, <3>1, <3>4, <4>1 DEF OrNull
      <4> QED BY <2>1, <4>1, <4>2
    <3> QED BY <3>2, <3>3, <3>4
  <2> QED BY <2>2, <2>3 DEF Apart
<1>11. ASSUME u \in Nodes, v \in Side, t.kid[u][v] = y
       PROVE  w \in Nodes /\ w # o /\ g.kid[w][v] = y
  <2>1. CASE u = o
    BY <1>1, <1>2, <1>11, <2>1
  <2>2. CASE u # o
    BY <1>1, <1>2, <1>11, <2>2
  <2> QED BY <2>1, <2>2
<1> QED BY <1>9, <1>10, <1>11

\* A place that is too low and is not held by a red node has a sibling.
LEMMA LowSibling ==
  ASSUME NEW t, NEW b, Grown(t, b), NEW u \in Nodes, NEW s \in Side,
         NEW h, Level(t, h, u, s), NEW x, t.kid[u][s] = x, x \notin t.red
  PROVE  /\ t.kid[u][Opp(s)] \in Nodes /\ t.kid[u][Opp(s)] # x
         /\ SideOf(t, x, u) = s /\ u \in Placed(t) /\ x # t.root
         /\ x \in Nodes => t.parent[x] = u
<1>1. /\ h[Null] = 0 /\ \A m \in OrNull : h[m] \in Nat
      /\ Opp(s) \in Side /\ Opp(s) # s /\ Opp(Opp(s)) = s
      /\ x \in OrNull /\ t.kid[u][Opp(s)] \in OrNull
  BY LevelFacts, SideFacts
<1>2. h[u] = h[x] + One(t, x) + 1
  BY LevelFacts
<1>3. h[u] = h[t.kid[u][Opp(s)]] + One(t, t.kid[u][Opp(s)]) + 0
  BY <1>1, LevelFacts
<1>4. One(t, x) = 1
  BY DEF One
<1>5. t.kid[u][Opp(s)] # Null
  <2> SUFFICES ASSUME t.kid[u][Opp(s)] = Null PROVE FALSE
    OBVIOUS
  <2>1. One(t, Null) \in {0, 1}
    BY DEF One
  <2> QED BY <1>1, <1>2, <1>3, <1>4, <2>1
<1>6. t.kid[u][Opp(s)] \in Nodes
  BY <1>1, <1>5 DEF OrNull
<1>7. /\ u \in Placed(t) /\ t.kid[u][Opp(Opp(s))] # t.kid[u][Opp(s)]
  BY <1>1, <1>6, GrownKid
<1>8. x # t.root
  <2>1. CASE x = Null
    BY <1>7, <2>1, GrownMembers, KeyFacts DEF Placed
  <2>2. CASE x \in Nodes
    BY <2>2, GrownKid
  <2> QED BY <1>1, <2>1, <2>2 DEF OrNull
<1>9. SideOf(t, x, u) = s
  BY <1>1, <1>7, SideFacts DEF SideOf
<1>10. x \in Nodes => t.parent[x] = u
  BY GrownKid
<1> QED BY <1>1, <1>6, <1>7, <1>8, <1>9, <1>10
-----------------------------------------------------------------------------
(* What holds between two passes *)

\* Between two calls.
AtRest(t, b, h) ==
  Grown(t, b) /\ Level(t, h, Null, "left") /\ Apart(t, Null, Null)

\* Between two passes of rb_insert_color.
Inserting(t, b, h, n) ==
  /\ Grown(t, b) /\ n \in Placed(t)
  /\ Level(t, h, Null, "left") /\ Apart(t, n, Null)
  /\ t.parent[n] \in t.red => n \in t.red

\* The place of n, on the side s of u, is one too low.
Low(t, h, n, u, s) == u \in Placed(t) /\ s \in Side /\ t.kid[u][s] = n /\ Level(t, h, u, s)

\* Between two passes of __rb_erase_color: the place of n is too low, or n is
\* the root.
Erasing(t, b, h, n, u) ==
  /\ Grown(t, b) /\ Apart(t, Null, n)
  /\ \/ u = Null /\ n = t.root /\ Level(t, h, Null, "left")
     \/ \E s \in Side : Low(t, h, n, u, s)

\* The level of a tree where no place is too low, whatever the side.
LEMMA LevelNowhere ==
  ASSUME NEW t, NEW h, NEW u, NEW v, Level(t, h, u, v), u \notin Nodes
  PROVE  Level(t, h, Null, "left")
<1>1. ASSUME NEW n \in Nodes, NEW r \in Side
      PROVE  h[n] = h[t.kid[n][r]] + One(t, t.kid[n][r]) + (IF n = Null /\ r = "left" THEN 1 ELSE 0)
  <2>1. h[n] = h[t.kid[n][r]] + One(t, t.kid[n][r]) + (IF n = u /\ r = v THEN 1 ELSE 0)
    BY DEF Level
  <2>2. n # u /\ n # Null
    BY KeyFacts
  <2> QED BY <2>1, <2>2
<1> QED BY <1>1 DEF Level

-----------------------------------------------------------------------------
(* rb_insert_color *)

\* A red parent is not the root, and has a black parent itself.
LEMMA RedParents ==
  ASSUME NEW t, NEW b, NEW h, NEW n, Inserting(t, b, h, n), NEW p, t.parent[n] = p, p \in t.red,
         NEW q, t.parent[p] = q, NEW s, SideOf(t, p, q) = s
  PROVE  /\ n \in Nodes /\ n \in t.red /\ n # t.root /\ p \in Nodes /\ p # n
         /\ q \in Nodes /\ q \notin t.red /\ q # p /\ q # n /\ q # Null
         /\ s \in Side /\ Opp(s) \in Side /\ Opp(s) # s /\ Opp(Opp(s)) = s
         /\ t.kid[q][s] = p /\ t.kid[q][Opp(s)] # p
         /\ \E r \in Side : t.kid[p][r] = n
         /\ q \in Placed(t) /\ p \in Placed(t)
<1>1. /\ Grown(t, b) /\ t \in Trees /\ n \in Placed(t) /\ n \in Nodes /\ n \in t.red
      /\ p \in Nodes /\ Null \notin Nodes /\ Null \notin t.red /\ p # Null
  BY KeyFacts, OneFacts DEF Inserting, Grown, Placed
<1>2. n # t.root /\ p \in Placed(t) /\ \E r \in Side : t.kid[p][r] = n
  BY <1>1, GrownParent
<1>3. p # n
  BY <1>1 DEF Placed
<1>4. p # t.root
  BY <1>1, <1>3 DEF Inserting, Apart
<1>5. q \in Placed(t) /\ s \in Side /\ t.kid[q][s] = p /\ t.kid[q][Opp(s)] # p
  BY <1>1, <1>2, <1>4, GrownParent
<1>6. q \in Nodes
  BY <1>5 DEF Placed
<1>7. q \notin t.red
  BY <1>1, <1>3, <1>5, <1>6 DEF Inserting, Apart
<1>8. PICK r \in Side : t.kid[p][r] = n
  BY <1>2
<1>9. n \in b[p] /\ q \notin b[p]
  <2>1. n \in b[p]
    BY <1>1, <1>8, GrownKid
  <2>2. q \notin b[p]
    BY <1>1, <1>5, <1>6, GrownKid
  <2> QED BY <2>1, <2>2
<1>10. q # n /\ q # p
  BY <1>9, <1>7, <1>1
<1> QED BY <1>1, <1>2, <1>3, <1>5, <1>6, <1>7, <1>10, SideFacts

\* The parent p, the grandparent q and the uncle z of n.
Related(t, n, p, q, s, z) ==
  t.parent[n] = p /\ t.parent[p] = q /\ SideOf(t, p, q) = s /\ t.kid[q][Opp(s)] = z

\* A red uncle: the pass moves the red node two levels up.
LEMMA InsertRecolourStep ==
  ASSUME NEW t, NEW b, NEW h, NEW n, Inserting(t, b, h, n),
         NEW p, NEW q, NEW s, NEW z, Related(t, n, p, q, s, z), p \in t.red, z \in t.red,
         NEW g, g = Colour(t, {z, p}, {q})
  PROVE  Placed(g) = Placed(t) /\ \E d, k : Inserting(g, d, k, q)
<1>1. /\ q \in Nodes /\ q \notin t.red /\ s \in Side /\ t.kid[q][s] = p /\ q \in Placed(t)
      /\ n \in Nodes
  <2>1. t.parent[n] = p /\ t.parent[p] = q /\ SideOf(t, p, q) = s
    BY DEF Related
  <2> QED BY <2>1, RedParents
<1>2. Grown(t, b) /\ Level(t, h, Null, "left") /\ Apart(t, n, Null)
  BY DEF Inserting
<1>3. PICK k : Level(g, k, Null, "left") /\ Apart(g, q, Null)
  <2>1. t.kid[q][Opp(s)] = z /\ t.parent[n] = p
    BY DEF Related
  <2> QED BY <1>1, <1>2, <2>1, InsertRecolours
<1>4. Placed(g) = Placed(t) /\ Grown(g, b) /\ g.red = (t.red \ {z, p}) \cup {q}
  <2>1. {q} \subseteq Nodes
    BY <1>1
  <2>2. \A B1, R1 : R1 \subseteq Nodes =>
          /\ Placed(Colour(t, B1, R1)) = Placed(t) /\ Grown(Colour(t, B1, R1), b)
          /\ Colour(t, B1, R1).red = (t.red \ B1) \cup R1
    BY <1>2, ColourGrown
  <2> QED BY <2>1, <2>2
<1>5. Inserting(g, b, k, q)
  BY <1>1, <1>3, <1>4 DEF Inserting
<1> QED BY <1>4, <1>5

\* The rotation of the grandparent, for an outer grandchild.
LEMMA InsertOuterStep ==
  ASSUME NEW t, NEW b, NEW h, NEW n, Inserting(t, b, h, n), NEW p, t.parent[n] = p, p \in t.red,
         NEW q, t.parent[p] = q, NEW s, SideOf(t, p, q) = s,
         t.kid[q][Opp(s)] \notin t.red, t.kid[p][Opp(s)] # n,
         NEW g, g = Rotate(Colour(t, {p}, {q}), q, Opp(s))
  PROVE  Placed(g) = Placed(t) /\ \E d : Inserting(g, d, h, n)
<1>1. /\ n \in Nodes /\ n \in t.red /\ p \in Nodes /\ p # n
      /\ q \in Nodes /\ q \notin t.red /\ q # p /\ q # n /\ q # Null
      /\ s \in Side /\ Opp(s) \in Side /\ Opp(s) # s /\ Opp(Opp(s)) = s
      /\ t.kid[q][s] = p
      /\ \E r \in Side : t.kid[p][r] = n
  BY SMTT(30), RedParents
<1>2. Grown(t, b) /\ Level(t, h, Null, "left") /\ Apart(t, n, Null) /\ n \in Placed(t)
  BY DEF Inserting
<1>3. t \in Trees /\ Null \notin Nodes /\ Null \notin t.red /\ p # Null
  BY <1>1, <1>2, OneFacts, KeyFacts DEF Grown
<1>4. t.kid[p][s] = n
  BY SMTT(30), <1>1, SideFacts
<1>5. t.kid[p][Opp(s)] \notin t.red
  BY <1>1, <1>2, <1>3 DEF Apart
<1> DEFINE low == t.kid[q][Opp(s)]
           inner == t.kid[p][Opp(s)]
           o == t.parent[q]
<1>13. /\ t.kid[q][Opp(Opp(s))] = p /\ t.kid[q][Opp(s)] = low /\ t.kid[p][Opp(s)] = inner
       /\ t.kid[p][Opp(Opp(s))] = n /\ t.parent[q] = o
  BY <1>1, <1>4
<1> HIDE DEF low, inner, o
<1>6. /\ Turn(t, q, Opp(s), p, low, inner, n, o)
      /\ Wired(t, g, q, Opp(s), p, low, inner, n, o)
      /\ g.red = (t.red \ {p}) \cup {q} /\ Placed(g) = Placed(t) /\ \E d : Grown(g, d)
  <2> DEFINE B == {p}
             R == {q}
             v == Opp(s)
  <2>1. q \in Nodes /\ v \in Side /\ p # Null /\ R \subseteq Nodes
    BY <1>1, <1>3
  <2>2. g = Rotate(Colour(t, B, R), q, v)
    OBVIOUS
  <2>3. /\ t.kid[q][Opp(v)] = p /\ t.kid[q][v] = low /\ t.kid[p][v] = inner
        /\ t.kid[p][Opp(v)] = n /\ t.parent[q] = o
    BY <1>13
  <2>4. B = {p} /\ R = {q} /\ v = Opp(s)
    OBVIOUS
  <2> HIDE DEF B, R, v
  <2>5. Grown(t, b)
    BY <1>2
  <2>6. Turn(t, q, v, p, low, inner, n, o)
    BY <1>1, <2>1, <2>3 DEF Turn
  <2>7. /\ Wired(t, g, q, v, p, low, inner, n, o)
        /\ g.red = (t.red \ B) \cup R /\ Placed(g) = Placed(t) /\ \E d : Grown(g, d)
    <3>1. R \subseteq Nodes
      BY <2>1
    <3>2. \A B1, R1, g1 : R1 \subseteq Nodes /\ g1 = Rotate(Colour(t, B1, R1), q, v) =>
            /\ Wired(t, g1, q, v, p, low, inner, n, o)
            /\ g1.red = (t.red \ B1) \cup R1 /\ Placed(g1) = Placed(t) /\ \E d : Grown(g1, d)
      BY SMTT(30), <2>5, <2>6, TurnWired
    <3> QED BY <2>2, <3>1, <3>2
  <2> QED BY <2>4, <2>6, <2>7
<1>7. /\ q \in g.red /\ p \notin g.red /\ n \in g.red
      /\ \A x \in Nodes \ {q, p} : x \in g.red <=> x \in t.red
  BY <1>1, <1>6
<1>8. low \notin t.red /\ inner \notin t.red
  BY <1>5, <1>13
<1>9. Level(g, h, Null, "left")
  BY ZenonT(60), <1>1, <1>2, <1>3, <1>6, <1>7, TurnLevel
<1>10. Apart(g, n, Null)
  BY <1>1, <1>2, <1>6, <1>7, <1>8, TurnApart
<1>11. PICK d : Grown(g, d)
  BY <1>6
<1>12. Inserting(g, d, h, n)
  BY <1>2, <1>6, <1>7, <1>9, <1>10, <1>11 DEF Inserting
<1> QED BY <1>6, <1>12

\* The rotation of the parent, for an inner grandchild.
LEMMA InsertInnerStep ==
  ASSUME NEW t, NEW b, NEW h, NEW n, Inserting(t, b, h, n), NEW p, t.parent[n] = p, p \in t.red,
         NEW q, t.parent[p] = q, NEW s, SideOf(t, p, q) = s,
         t.kid[q][Opp(s)] \notin t.red, t.kid[p][Opp(s)] = n, NEW g, g = Rotate(t, p, s)
  PROVE  /\ Placed(g) = Placed(t) /\ g.red = t.red
         /\ g.parent[p] = n /\ g.parent[n] = q /\ g.kid[q][s] = n /\ SideOf(g, n, q) = s
         /\ g.kid[q][Opp(s)] = t.kid[q][Opp(s)] /\ g.kid[n][Opp(s)] # p
         /\ \E d : Inserting(g, d, h, p)
<1>1. /\ n \in Nodes /\ n \in t.red /\ n # t.root /\ p \in Nodes /\ p # n
      /\ q \in Nodes /\ q \notin t.red /\ q # p /\ q # n /\ q # Null
      /\ s \in Side /\ Opp(s) \in Side /\ Opp(s) # s /\ Opp(Opp(s)) = s
      /\ t.kid[q][s] = p /\ t.kid[q][Opp(s)] # p /\ p \in Placed(t)
  BY SMTT(30), RedParents
<1>2. Grown(t, b) /\ Level(t, h, Null, "left") /\ Apart(t, n, Null)
  BY DEF Inserting
<1>3. t \in Trees /\ Null \notin Nodes /\ Null \notin t.red /\ n # Null
  BY <1>1, <1>2, OneFacts, KeyFacts DEF Grown
<1>4. g = Rotate(Colour(t, {}, {}), p, s)
  BY <1>3, NoColour
<1> DEFINE low == t.kid[p][s]
           inner == t.kid[n][s]
           outer == t.kid[n][Opp(s)]
<1>15. t.kid[p][s] = low /\ t.kid[n][s] = inner /\ t.kid[n][Opp(s)] = outer
  OBVIOUS
<1> HIDE DEF low, inner, outer
<1>5. /\ Turn(t, p, s, n, low, inner, outer, q)
      /\ Wired(t, g, p, s, n, low, inner, outer, q)
      /\ g.red = (t.red \ {}) \cup {} /\ Placed(g) = Placed(t) /\ \E d : Grown(g, d)
  <2> DEFINE B == {}
  <2>1. /\ p \in Nodes /\ s \in Side /\ n # Null /\ B \subseteq Nodes
        /\ g = Rotate(Colour(t, B, B), p, s) /\ t.kid[p][Opp(s)] = n /\ t.parent[p] = q
    BY <1>1, <1>3, <1>4
  <2>4. B = {}
    OBVIOUS
  <2> HIDE DEF B
  <2>2. Grown(t, b)
    BY <1>2
  <2>3. /\ Turn(t, p, s, n, low, inner, outer, q)
        /\ Wired(t, g, p, s, n, low, inner, outer, q)
        /\ g.red = (t.red \ B) \cup B /\ Placed(g) = Placed(t) /\ \E d : Grown(g, d)
    BY SMTT(30), <1>15, <2>1, <2>2, RotateWired
  <2> QED BY <2>3, <2>4
<1>6. g.red = t.red
  BY <1>5
<1>7. /\ low # n /\ inner # n /\ outer # n
      /\ low \notin t.red /\ inner \notin t.red /\ outer \notin t.red
  <2>1. low # n /\ inner # n /\ outer # n
    BY SMTT(30), <1>2, <1>5, TurnFacts
  <2>2. \A m \in Nodes, r \in Side : m \in t.red /\ t.kid[m][r] \in t.red => t.kid[m][r] = n
    BY <1>2, <1>3 DEF Apart
  <2> QED BY <1>1, <1>15, <2>1, <2>2
<1>8. Level(g, h, Null, "left")
  BY SMTT(30), <1>1, <1>2, <1>3, <1>5, <1>6, TurnLevel
<1>9. /\ g.root = t.root /\ g.parent[p] = n /\ g.parent[n] = q /\ g.kid[n][s] = p
      /\ \A r \in Side : g.kid[q][r] = IF t.kid[q][r] = p THEN n ELSE t.kid[q][r]
  <2>1. inner # n /\ inner # p /\ q \notin {p, n}
    BY SMTT(30), <1>1, <1>2, <1>5, TurnFacts
  <2>2. Wired(t, g, p, s, n, low, inner, outer, q) /\ n # p /\ q # Null
    BY <1>1, <1>5
  <2>3. g.root = t.root /\ g.kid[n][s] = p
    BY <2>2 DEF Wired
  <2>4. g.parent[p] = n /\ g.parent[n] = q
    BY <1>1, <2>1, <2>2 DEF Wired
  <2>5. q \in Nodes \ {p, n}
    BY <1>1
  <2>6. \A r \in Side : g.kid[q][r] = IF t.kid[q][r] = p THEN n ELSE t.kid[q][r]
    BY <2>2, <2>5 DEF Wired
  <2> QED BY <2>3, <2>4, <2>6
<1>10. g.kid[q][s] = n /\ g.kid[q][Opp(s)] = t.kid[q][Opp(s)]
  BY <1>1, <1>9
<1>11. PICK d : Grown(g, d)
  BY <1>5
<1>12. SideOf(g, n, q) = s /\ g.kid[n][Opp(s)] # p
  <2>1. SideOf(g, n, q) = s
    BY SMTT(30), <1>1, <1>10, <1>11, GrownKid
  <2>2. n \in Nodes /\ s \in Side /\ p \in Nodes /\ g.kid[n][s] = p /\ Grown(g, d)
    BY <1>1, <1>9, <1>11
  <2>3. g.kid[n][Opp(s)] # p
    BY SMTT(30), <2>2, GrownKid
  <2> QED BY <2>1, <2>3
<1>13. Apart(g, p, Null)
  <2>1. /\ t.root \notin t.red
        /\ \A m \in Nodes, r \in Side : m \in t.red /\ t.kid[m][r] \in t.red => t.kid[m][r] = n
    BY <1>1, <1>2, <1>3 DEF Apart
  <2>2. ASSUME NEW m \in Nodes, NEW r \in Side, m \in t.red, g.kid[m][r] \in t.red
        PROVE  g.kid[m][r] = p
    <3>1. \/ g.kid[m][r] \in {low, inner, outer, p}
          \/ m = q
          \/ g.kid[m][r] = t.kid[m][r] /\ t.kid[m][r] # n
      <4>1. Turn(t, p, s, n, low, inner, outer, q) /\ Wired(t, g, p, s, n, low, inner, outer, q)
        BY <1>5
      <4> QED BY SMTT(30), <1>2, <4>1, WiredKids
    <3> QED BY <1>1, <1>7, <2>1, <2>2, <3>1
  <2> QED BY <1>6, <1>9, <2>1, <2>2 DEF Apart
<1>14. Inserting(g, d, h, p)
  BY <1>1, <1>5, <1>6, <1>8, <1>11, <1>13 DEF Inserting
<1> QED BY <1>5, <1>6, <1>9, <1>10, <1>12, <1>14

\* rb_insert_color ends by making the root black.
LEMMA InsertDoneStep ==
  ASSUME NEW t, NEW b, NEW h, NEW n, Inserting(t, b, h, n), t.parent[n] \notin t.red,
         NEW g, g = Colour(t, {t.root}, {})
  PROVE  Placed(g) = Placed(t) /\ \E d, k : AtRest(g, d, k)
<1>1. Grown(t, b) /\ Level(t, h, Null, "left") /\ Apart(t, n, Null)
  BY DEF Inserting
<1>2. Placed(g) = Placed(t) /\ Grown(g, b)
  BY <1>1, ColourGrown
<1>3. Level(g, h, Null, "left") /\ Apart(g, Null, Null)
  BY <1>1, RootBlackened
<1> QED BY <1>2, <1>3 DEF AtRest

-----------------------------------------------------------------------------
(* __rb_erase_color *)

\* What is too low and black has a sibling, and no red node has a red parent.
LEMMA LowPlace ==
  ASSUME NEW t, NEW b, NEW h, NEW n, NEW u, Erasing(t, b, h, n, u),
         n \notin t.red, n # t.root, NEW s, SideOf(t, n, u) = s
  PROVE  /\ Low(t, h, n, u, s) /\ Apart(t, Null, Null)
         /\ u \in Nodes /\ t.kid[u][Opp(s)] \in Nodes
<1>1. Grown(t, b) /\ Apart(t, Null, n) /\ \E r \in Side : Low(t, h, n, u, r)
  BY DEF Erasing
<1>2. PICK r \in Side : Low(t, h, n, u, r)
  BY <1>1
<1>3. u \in Placed(t) /\ u \in Nodes /\ t.kid[u][r] = n /\ Level(t, h, u, r)
  BY <1>2 DEF Low, Placed
<1>4. SideOf(t, n, u) = r /\ t.kid[u][Opp(r)] \in Nodes
  BY <1>1, <1>3, LowSibling
<1>5. Apart(t, Null, Null)
  <2>1. Null \notin t.red
    BY <1>1, OneFacts DEF Grown
  <2> QED BY <1>1, <2>1 DEF Apart
<1> QED BY <1>2, <1>3, <1>4, <1>5

\* What is known of the place in the course of a pass: the sibling is q.
Sibling(t, h, n, u, s, q) ==
  /\ Low(t, h, n, u, s) /\ Apart(t, Null, Null) /\ n \notin t.red
  /\ u \in Nodes /\ t.kid[u][Opp(s)] = q /\ q \in Nodes

\* After the first rotation, or without it, the sibling is black.
LEMMA LevelledStep ==
  ASSUME NEW t, NEW b, Grown(t, b), NEW h, NEW n, NEW u, NEW s, NEW q, Sibling(t, h, n, u, s, q),
         NEW g, g = IF q \in t.red THEN Rotate(Colour(t, {q}, {u}), u, s) ELSE t
  PROVE  /\ Placed(g) = Placed(t) /\ \E d : Grown(g, d)
         /\ \E r : Sibling(g, h, n, u, s, r) /\ r \notin g.red
<1>1. /\ u \in Placed(t) /\ s \in Side /\ t.kid[u][s] = n /\ Level(t, h, u, s)
      /\ Apart(t, Null, Null) /\ n \notin t.red /\ u \in Nodes /\ t.kid[u][Opp(s)] = q /\ q \in Nodes
      /\ Opp(s) \in Side /\ Opp(s) # s
  BY SideFacts DEF Sibling, Low
<1>2. t \in Trees /\ Null \notin Nodes /\ Null \notin t.red /\ q # Null /\ u # Null
  BY <1>1, OneFacts, KeyFacts DEF Grown
<1>3. CASE q \notin t.red
  BY <1>3
<1>4. CASE q \in t.red
  <2>1. u \notin t.red /\ t.kid[q][s] \notin t.red
    BY <1>1, <1>2, <1>4 DEF Apart
  <2> DEFINE inner == t.kid[q][s]
             outer == t.kid[q][Opp(s)]
             p == t.parent[u]
  <2>2. Turn(t, u, s, q, n, inner, outer, p)
    BY <1>1 DEF Turn
  <2>3. inner \notin t.red
    BY <2>1
  <2> HIDE DEF inner, outer, p
  <2>4. \A B1, R1, g1 : R1 \subseteq Nodes /\ g1 = Rotate(Colour(t, B1, R1), u, s) =>
          /\ Wired(t, g1, u, s, q, n, inner, outer, p)
          /\ g1.red = (t.red \ B1) \cup R1 /\ Placed(g1) = Placed(t) /\ \E d : Grown(g1, d)
    BY <2>2, TurnWired
  <2>5. {u} \subseteq Nodes /\ g = Rotate(Colour(t, {q}, {u}), u, s)
    BY <1>1, <1>4
  <2>6. /\ Wired(t, g, u, s, q, n, inner, outer, p)
        /\ g.red = (t.red \ {q}) \cup {u} /\ Placed(g) = Placed(t) /\ \E d : Grown(g, d)
    BY <2>4, <2>5
  <2>7. q # u /\ n # u /\ n # q /\ inner # u
    BY <2>2, TurnFacts
  <2>8. /\ u \in g.red /\ q \notin g.red /\ n \notin g.red /\ inner \notin g.red
        /\ \A x \in Nodes \ {u, q} : x \in g.red <=> x \in t.red
    BY <1>1, <2>3, <2>6, <2>7
  <2>9. Level(g, h, u, s)
    <3>1. /\ Wired(t, g, u, s, q, n, inner, outer, p) /\ Level(t, h, u, s) /\ q \in t.red
          /\ ~(u = u /\ s = Opp(s)) /\ u # q
      BY <1>1, <1>4, <2>6, <2>7
    <3>2. /\ u \in g.red
          /\ q \in g.red <=> u \in t.red
          /\ \A x \in Nodes \ {u, q} : x \in g.red <=> x \in t.red
      BY <2>1, <2>8
    <3> QED BY <2>2, <3>1, <3>2, TurnLevel
  <2>10. Apart(g, Null, Null)
    BY <1>1, <2>1, <2>2, <2>3, <2>6, <2>8, TurnApart
  <2>11. g.kid[u][s] = n /\ g.kid[u][Opp(s)] = inner
    BY <2>6 DEF Wired
  <2>12. PICK d : Grown(g, d)
    BY <2>6
  <2>13. inner \in Nodes
    BY <1>1, <2>8, <2>9, <2>11, <2>12, LowSibling
  <2>14. Sibling(g, h, n, u, s, inner)
    BY <1>1, <2>6, <2>8, <2>9, <2>10, <2>11, <2>13 DEF Sibling, Low
  <2> QED BY <2>6, <2>8, <2>14
<1> QED BY <1>3, <1>4

\* The lowness is handed on to the parent.
LEMMA EraseRecolourStep ==
  ASSUME NEW t, NEW b, Grown(t, b), NEW h, NEW n, NEW u, NEW s, NEW q, Sibling(t, h, n, u, s, q),
         q \notin t.red, \A r \in Side : t.kid[q][r] \notin t.red, NEW p, t.parent[u] = p,
         NEW g, g = Colour(t, {}, {q})
  PROVE  Placed(g) = Placed(t) /\ \E d, k : Erasing(g, d, k, u, p)
<1>1. /\ u \in Placed(t) /\ s \in Side /\ Level(t, h, u, s) /\ Apart(t, Null, Null)
      /\ u \in Nodes /\ t.kid[u][Opp(s)] = q /\ q \in Nodes
  BY DEF Sibling, Low
<1>2. (\E k : Level(g, k, p, SideOf(t, u, p))) /\ Apart(g, Null, u)
  BY <1>1, EraseRecolours
<1>3. /\ t \in Trees
      /\ p = Null <=> u = t.root
      /\ u # t.root => p \in Placed(t) /\ SideOf(t, u, p) \in Side /\ t.kid[p][SideOf(t, u, p)] = u
  BY <1>1, GrownParent DEF Grown
<1>4. Placed(g) = Placed(t) /\ Grown(g, b) /\ g.root = t.root /\ g.kid = t.kid
  <2>1. {q} \subseteq Nodes
    BY <1>1
  <2>2. \A B1, R1 : R1 \subseteq Nodes =>
          /\ Placed(Colour(t, B1, R1)) = Placed(t) /\ Grown(Colour(t, B1, R1), b)
          /\ Colour(t, B1, R1).root = t.root /\ Colour(t, B1, R1).kid = t.kid
    BY <1>3, ColourGrown, ColourFields
  <2> QED BY <2>1, <2>2
<1>5. PICK k : Level(g, k, p, SideOf(t, u, p))
  BY <1>2
<1>6. CASE u = t.root
  <2>1. Level(g, k, Null, "left")
    BY <1>3, <1>5, <1>6, KeyFacts, LevelNowhere
  <2>2. Erasing(g, b, k, u, p)
    BY <1>2, <1>3, <1>4, <1>6, <2>1 DEF Erasing
  <2> QED BY <1>4, <2>2
<1>7. CASE u # t.root
  <2>1. Low(g, k, u, p, SideOf(t, u, p))
    BY <1>3, <1>4, <1>5, <1>7 DEF Low
  <2>2. Erasing(g, b, k, u, p)
    BY <1>2, <1>3, <1>4, <1>7, <2>1 DEF Erasing
  <2> QED BY <1>4, <2>2
<1> QED BY <1>6, <1>7

\* After the second rotation, or without it, the outer nephew is red.
LEMMA OuterNephewStep ==
  ASSUME NEW t, NEW b, Grown(t, b), NEW h, NEW n, NEW u, NEW s, NEW q, Sibling(t, h, n, u, s, q),
         q \notin t.red, ~(\A r \in Side : t.kid[q][r] \notin t.red),
         NEW g, g = IF t.kid[q][Opp(s)] \in t.red THEN t
                    ELSE Rotate(Colour(t, {t.kid[q][s]}, {q}), q, Opp(s))
  PROVE  /\ Placed(g) = Placed(t) /\ \E d : Grown(g, d)
         /\ \E r : Sibling(g, h, n, u, s, r) /\ r \notin g.red /\ g.kid[r][Opp(s)] \in g.red
<1>1. /\ u \in Placed(t) /\ s \in Side /\ t.kid[u][s] = n /\ Level(t, h, u, s)
      /\ Apart(t, Null, Null) /\ n \notin t.red /\ u \in Nodes /\ t.kid[u][Opp(s)] = q /\ q \in Nodes
      /\ Opp(s) \in Side /\ Opp(s) # s /\ Opp(Opp(s)) = s
  BY SideFacts DEF Sibling, Low
<1>2. t \in Trees /\ Null \notin Nodes /\ Null \notin t.red /\ t.red \subseteq Nodes /\ q # Null /\ u # Null
  BY <1>1, OneFacts, KeyFacts DEF Grown
<1>3. CASE t.kid[q][Opp(s)] \in t.red
  BY <1>3
<1>4. CASE t.kid[q][Opp(s)] \notin t.red
  <2> DEFINE i == t.kid[q][s]
             v == Opp(s)
             low == t.kid[q][v]
             inner == t.kid[i][v]
             outer == t.kid[i][s]
  <2>1. i \in t.red /\ i \in Nodes
    BY <1>1, <1>2, <1>4, SideFacts
  <2>2. t.parent[q] = u
    BY <1>1, GrownKid
  <2>3. Turn(t, q, v, i, low, inner, outer, u)
    BY <1>1, <2>1, <2>2 DEF Turn
  <2>4. low \notin t.red /\ inner \notin t.red
    BY <1>1, <1>2, <1>4, <2>1 DEF Apart
  <2>5. v = Opp(s) /\ v \in Side /\ Opp(v) = s /\ v # s
    BY <1>1
  <2>6. {q} \subseteq Nodes /\ g = Rotate(Colour(t, {i}, {q}), q, v)
    BY <1>1, <1>4
  <2> HIDE DEF i, v, low, inner, outer
  <2>7. \A B1, R1, g1 : R1 \subseteq Nodes /\ g1 = Rotate(Colour(t, B1, R1), q, v) =>
          /\ Wired(t, g1, q, v, i, low, inner, outer, u)
          /\ g1.red = (t.red \ B1) \cup R1 /\ Placed(g1) = Placed(t) /\ \E d : Grown(g1, d)
    BY <2>3, TurnWired
  <2>8. /\ Wired(t, g, q, v, i, low, inner, outer, u)
        /\ g.red = (t.red \ {i}) \cup {q} /\ Placed(g) = Placed(t) /\ \E d : Grown(g, d)
    BY <2>6, <2>7
  <2>9. i # q /\ i # u /\ q # u
    BY <2>3, TurnFacts
  <2>10. n # q
    BY <1>1, GrownKid
  <2>11. /\ q \in g.red /\ i \notin g.red /\ n \notin g.red
         /\ \A x \in Nodes \ {q, i} : x \in g.red <=> x \in t.red
    BY <1>1, <2>8, <2>9, <2>10
  <2>12. Level(g, h, u, s)
    <3>1. /\ Wired(t, g, q, v, i, low, inner, outer, u) /\ Level(t, h, u, s) /\ i \in t.red
          /\ ~(u = q /\ s = Opp(v)) /\ u # i
      BY <1>1, <2>1, <2>8, <2>9
    <3>2. /\ q \in g.red
          /\ i \in g.red <=> q \in t.red
          /\ \A x \in Nodes \ {q, i} : x \in g.red <=> x \in t.red
      BY <2>11
    <3> QED BY SMTT(30), <2>3, <3>1, <3>2, TurnLevel
  <2>13. Apart(g, Null, Null)
    BY <1>1, <2>3, <2>4, <2>8, <2>11, TurnApart
  <2>14. g.kid[i][v] = q /\ \A r \in Side : g.kid[u][r] = IF t.kid[u][r] = q THEN i ELSE t.kid[u][r]
    <3>1. u \in Nodes \ {q, i}
      BY <1>1, <2>9
    <3> QED BY <2>8, <3>1 DEF Wired
  <2>15. g.kid[u][s] = n /\ g.kid[u][Opp(s)] = i
    BY <1>1, <2>10, <2>14
  <2>16. Sibling(g, h, n, u, s, i)
    BY <1>1, <2>1, <2>8, <2>11, <2>12, <2>13, <2>15 DEF Sibling, Low
  <2> QED BY <2>5, <2>8, <2>11, <2>14, <2>16
<1> QED BY <1>3, <1>4

\* The last rotation, after which no place is too low.
LEMMA EraseRotateStep ==
  ASSUME NEW t, NEW b, Grown(t, b), NEW h, NEW n, NEW u, NEW s, NEW q, Sibling(t, h, n, u, s, q),
         q \notin t.red, t.kid[q][Opp(s)] \in t.red,
         NEW g, g = Rotate(Colour(t, {q, u, t.kid[q][Opp(s)]}, IF u \in t.red THEN {q} ELSE {}), u, s)
  PROVE  Placed(g) = Placed(t) /\ \E d, k : Erasing(g, d, k, g.root, Null)
<1>1. /\ u \in Placed(t) /\ s \in Side /\ t.kid[u][s] = n /\ Level(t, h, u, s)
      /\ Apart(t, Null, Null) /\ n \notin t.red /\ u \in Nodes /\ t.kid[u][Opp(s)] = q /\ q \in Nodes
      /\ Opp(s) \in Side /\ Opp(s) # s /\ Opp(Opp(s)) = s
  BY SideFacts DEF Sibling, Low
<1> DEFINE inner == t.kid[q][s]
           outer == t.kid[q][Opp(s)]
           p == t.parent[u]
           R == IF u \in t.red THEN {q} ELSE {}
           B == {q, u, outer}
<1>2. Turn(t, u, s, q, n, inner, outer, p)
  BY <1>1 DEF Turn
<1>3. /\ R \subseteq Nodes /\ g = Rotate(Colour(t, B, R), u, s) /\ outer \in t.red
  BY <1>1
<1>4. R = (IF u \in t.red THEN {q} ELSE {}) /\ B = {q, u, outer}
  OBVIOUS
<1> HIDE DEF inner, outer, p, R, B
<1>5. \A B1, R1, g1 : R1 \subseteq Nodes /\ g1 = Rotate(Colour(t, B1, R1), u, s) =>
        /\ Wired(t, g1, u, s, q, n, inner, outer, p)
        /\ g1.red = (t.red \ B1) \cup R1 /\ Placed(g1) = Placed(t) /\ \E d : Grown(g1, d)
  BY <1>2, TurnWired
<1>6. /\ Wired(t, g, u, s, q, n, inner, outer, p)
      /\ g.red = (t.red \ B) \cup R /\ Placed(g) = Placed(t) /\ \E d : Grown(g, d)
  BY <1>3, <1>5
<1>7. q # u /\ outer # u /\ outer # q
  BY <1>2, TurnFacts
<1>8. /\ u \notin g.red /\ outer \notin g.red
      /\ q \in g.red <=> u \in t.red
      /\ \A x \in Nodes \ {u, q, outer} : x \in g.red <=> x \in t.red
  BY <1>4, <1>6, <1>7
<1>14. Wired(t, g, u, s, q, n, inner, outer, p) /\ Level(t, h, u, s) /\ Apart(t, Null, Null)
  BY <1>1, <1>6
<1>9. \E k : Level(g, k, Null, "left")
  BY <1>2, <1>3, <1>8, <1>14, TurnFills
<1>10. Apart(g, Null, Null)
  BY <1>2, <1>8, <1>14, TurnFillsApart
<1>11. Apart(g, Null, g.root)
  <2>1. Null \notin Nodes /\ g.red \subseteq Nodes
    BY <1>6, KeyFacts, OneFacts DEF Wired
  <2>2. g.root \notin g.red
    BY <1>10, <2>1 DEF Apart
  <2>3. \A m \in Nodes, r \in Side : ~(m \in g.red /\ g.kid[m][r] \in g.red)
    BY <1>10, <2>1 DEF Apart
  <2> QED BY <2>2, <2>3 DEF Apart
<1>12. PICK k, d : Level(g, k, Null, "left") /\ Grown(g, d)
  BY <1>6, <1>9
<1>13. Erasing(g, d, k, g.root, Null)
  BY <1>11, <1>12 DEF Erasing
<1> QED BY <1>6, <1>13

\* __rb_erase_color ends by making the node black.
LEMMA EraseDoneStep ==
  ASSUME NEW t, NEW b, NEW h, NEW n, NEW u, Erasing(t, b, h, n, u),
         ~(n \notin t.red /\ n # t.root), NEW g, g = Colour(t, {n}, {})
  PROVE  Placed(g) = Placed(t) /\ \E d, k : AtRest(g, d, k)
<1>1. Grown(t, b) /\ Apart(t, Null, n)
  BY DEF Erasing
<1>2. t \in Trees /\ Null \notin Nodes /\ Null \notin t.red /\ t.red \subseteq Nodes
  BY <1>1, OneFacts, KeyFacts DEF Grown
<1>3. Placed(g) = Placed(t) /\ Grown(g, b)
  <2>1. {} \subseteq Nodes
    OBVIOUS
  <2>2. \A B1, R1 : R1 \subseteq Nodes =>
          Placed(Colour(t, B1, R1)) = Placed(t) /\ Grown(Colour(t, B1, R1), b)
    BY <1>1, ColourGrown
  <2> QED BY <2>1, <2>2
<1>4. CASE n = t.root /\ Level(t, h, Null, "left")
  <2>1. Level(g, h, Null, "left") /\ Apart(g, Null, Null)
    BY <1>1, <1>4, RootBlackened
  <2> QED BY <1>3, <2>1 DEF AtRest
<1>5. ASSUME NEW s \in Side, Low(t, h, n, u, s)
      PROVE  Level(g, h, Null, "left") /\ Apart(g, Null, Null)
  <2>1. u \in Placed(t) /\ u \in Nodes /\ t.kid[u][s] = n /\ Level(t, h, u, s)
    BY <1>5 DEF Low, Placed
  <2>2. n \in t.red
    <3>1. t.root # Null
      BY <1>1, <1>2, <2>1, GrownMembers
    <3>2. n \in Nodes => n # t.root
      BY <1>1, <2>1, GrownKid
    <3>3. n \in OrNull
      BY <1>1, <2>1, LevelFacts
    <3> QED BY <3>1, <3>2, <3>3 DEF OrNull
  <2> QED BY <1>1, <1>2, <2>1, <2>2, PlaceBlackened
<1>6. CASE \E s \in Side : Low(t, h, n, u, s)
  BY <1>3, <1>5, <1>6 DEF AtRest
<1> QED BY <1>4, <1>6 DEF Erasing

-----------------------------------------------------------------------------
(* rbwrap_insert and rb_link_node *)

\* The descent begins at the root.
LEMMA InsertStep ==
  ASSUME NEW t, NEW b, Grown(t, b), NEW n \in Nodes, n \notin Placed(t)
  PROVE  Descended(t, b, n, Null)
<1>1. /\ b[t.root] = Placed(t) /\ Link(t, n, Null) = t.root /\ Null \notin Nodes
      /\ b[Null] = {}
  BY KeyFacts DEF Grown, Spanned, Link
<1>2. ASSUME NEW m \in Nodes, NEW r \in Side
      PROVE  Null \notin b[t.kid[m][r]]
  <2>1. b[t.kid[m][r]] \subseteq b[m] /\ b[m] \subseteq Nodes
    BY GrownSides
  <2> QED BY <1>1, <2>1
<1> QED BY <1>1, <1>2 DEF Descended

\* One pass of the descent keeps the place where the key belongs in view.
LEMMA DescendStep ==
  ASSUME NEW t, NEW b, Grown(t, b), NEW n, NEW p, Descended(t, b, n, p),
         NEW l, l = Link(t, n, p), l # Null, Key[l] # Key[n]
  PROVE  Descended(t, b, n, l)
<1>1. /\ t \in Trees /\ Null \notin Nodes /\ n \in Nodes /\ n \notin Placed(t) /\ p \in Placed(t) \cup {Null}
      /\ \A m \in Nodes, r \in Side : p \in b[t.kid[m][r]] => Beyond(r, Key[n], Key[m])
      /\ \A m \in Placed(t) : Key[m] = Key[n] => m \in b[l]
      /\ \A m \in Nodes : Key[m] \in Int
  BY KeyFacts DEF Grown, Descended
<1>2. p # Null => p \in Nodes /\ KeySide(n, p) \in Side /\ l = t.kid[p][KeySide(n, p)]
  BY <1>1 DEF Link, KeySide, Side, Placed
<1>3. p = Null => l = t.root
  BY DEF Link
<1>4. l \in Nodes
  <2>1. CASE p = Null
    BY <1>1, <1>3, <2>1 DEF Trees, OrNull
  <2>2. CASE p # Null
    BY <1>1, <1>2, <2>2, GrownSides DEF OrNull
  <2> QED BY <2>1, <2>2
<1>5. l \in Placed(t)
  <2>1. CASE p = Null
    <3>1. l \in b[l] /\ b[l] = Placed(t)
      BY <1>3, <1>4, <2>1 DEF Grown, Spanned
    <3> QED BY <3>1
  <2>2. CASE p # Null
    BY <1>2, <1>4, <2>2, GrownKid
  <2> QED BY <2>1, <2>2
<1>6. ASSUME NEW m \in Nodes, NEW r \in Side, l \in b[t.kid[m][r]]
      PROVE  Beyond(r, Key[n], Key[m])
  <2> DEFINE k == t.kid[m][r]
  <2>1. k \in Nodes
    <3>1. k \in OrNull /\ b[Null] = {}
      BY GrownSides DEF Grown, Spanned
    <3> QED BY <1>6, <3>1 DEF OrNull
  <2>2. l # k => t.parent[l] \in b[k] /\ b[k] \subseteq Nodes
    <3>1. \A x \in Nodes : \A y \in b[x] \ {x} : t.parent[y] \in b[x]
      BY DEF Grown, Spanned
    <3> QED BY <1>6, <2>1, <3>1, GrownSides, SideFacts
  <2>3. t.parent[k] = m /\ SideOf(t, k, m) = r /\ k # t.root
    BY <2>1, GrownKid
  <2> HIDE DEF k
  <2>4. CASE p = Null
    <3>1. l = t.root /\ t.parent[l] = Null
      BY <1>3, <1>5, <2>4, GrownParent
    <3> QED BY <1>1, <2>2, <2>3, <3>1
  <2>5. CASE p # Null
    <3>1. t.parent[l] = p /\ p \notin b[l] /\ SideOf(t, l, p) = KeySide(n, p)
      BY <1>2, <1>4, <2>5, GrownKid
    <3>2. CASE l = k
      <4>1. m = p /\ r = KeySide(n, p)
        BY <2>3, <3>1, <3>2
      <4>2. Key[p] # Key[n]
        BY <1>1, <2>5, <3>1
      <4>3. Key[p] \in Int /\ Key[n] \in Int
        BY <1>1, <1>2, <2>5
      <4> QED BY <4>1, <4>2, <4>3 DEF KeySide, Beyond
    <3>3. CASE l # k
      <4>1. p \in b[t.kid[m][r]]
        BY <2>2, <3>1, <3>3 DEF k
      <4> QED BY <1>1, <4>1
    <3> QED BY <3>2, <3>3
  <2> QED BY <2>4, <2>5
<1>7. ASSUME NEW m \in Placed(t), Key[m] = Key[n]
      PROVE  m \in b[Link(t, n, l)]
  <2>1. m \in b[l] /\ m # l
    BY <1>1, <1>7
  <2>2. l # Null /\ Link(t, n, l) = t.kid[l][KeySide(n, l)]
    BY DEF Link, KeySide
  <2>3. m \in b[t.kid[l]["left"]] \/ m \in b[t.kid[l]["right"]]
    BY <1>4, <2>1 DEF Grown, Spanned
  <2>4. \A r \in Side : m \in b[t.kid[l][r]] => Beyond(r, Key[n], Key[l])
    BY <1>4, <1>7 DEF Grown, Spanned
  <2>5. Key[n] \in Int /\ Key[l] \in Int
    BY <1>1, <1>4
  <2>6. CASE m \in b[t.kid[l]["left"]]
    BY <2>2, <2>4, <2>6, SideFacts DEF KeySide, Beyond
  <2>7. CASE m \in b[t.kid[l]["right"]]
    <3>1. Key[l] < Key[n]
      BY <2>4, <2>7, SideFacts DEF Beyond
    <3> QED BY <2>2, <2>5, <2>7, <3>1 DEF KeySide
  <2> QED BY <2>3, <2>6, <2>7
<1> QED BY <1>1, <1>5, <1>6, <1>7 DEF Descended

\* The new leaf; no other node of the tree has its key.
LEMMA LinkStep ==
  ASSUME NEW t, NEW b, NEW h, AtRest(t, b, h), NEW n, NEW p, Descended(t, b, n, p),
         Link(t, n, p) = Null, NEW g, g = Linked(t, n, p)
  PROVE  /\ Placed(g) = Placed(t) \cup {n} /\ \E d : Inserting(g, d, h, n)
         /\ \A m \in Placed(t) : Key[m] # Key[n]
<1>1. /\ Grown(t, b) /\ Level(t, h, Null, "left") /\ Apart(t, Null, Null)
      /\ t \in Trees /\ Null \notin Nodes /\ Null \notin t.red
  BY KeyFacts, OneFacts DEF AtRest, Grown
<1>2. n \in Nodes /\ n \notin Placed(t) /\ p \in OrNull /\ p # n
  BY <1>1 DEF Descended, OrNull, Placed
<1>3. Leafed(t, g, n, p)
  BY <1>1, <1>2, LinkFields
<1>4. \E d : Placed(g) = Placed(t) \cup {n} /\ Grown(g, d)
  BY <1>1, <1>3, LeafedGrown
<1>5. Level(g, h, Null, "left") /\ Apart(g, n, Null)
  BY <1>1, <1>3, LeafedColours
<1>6. g.parent[n] \in g.red => n \in g.red
  BY <1>1, <1>2, <1>3 DEF Leafed
<1>7. \E d : Inserting(g, d, h, n)
  BY <1>4, <1>5, <1>6 DEF Inserting
<1>8. \A m \in Placed(t) : Key[m] # Key[n]
  BY <1>1 DEF Descended, Grown, Spanned
<1> QED BY <1>4, <1>7, <1>8

-----------------------------------------------------------------------------
(* rb_erase, as far as __rb_erase_color *)

\* rb_erase of a node of at most one child, up to __rb_erase_color.
LEMMA EraseUnlinkStep ==
  ASSUME NEW t, NEW b, NEW h, AtRest(t, b, h), NEW n \in Placed(t),
         t.kid[n]["left"] = Null \/ t.kid[n]["right"] = Null,
         NEW child, child = IF t.kid[n]["left"] = Null THEN t.kid[n]["right"] ELSE t.kid[n]["left"],
         NEW p, t.parent[n] = p, NEW g, g = InitNode(Unlink(t, n, child), n)
  PROVE  /\ Placed(g) = Placed(t) \ {n}
         /\ n \in t.red => \E d, k : AtRest(g, d, k)
         /\ n \notin t.red => \E d, k : Erasing(g, d, k, child, p)
<1>1. Grown(t, b) /\ Level(t, h, Null, "left") /\ Apart(t, Null, Null)
  BY DEF AtRest
<1>2. PICK s \in Side : Loose(t, n, s, child, p)
  <2>1. CASE t.kid[n]["left"] = Null
    <3>1. Loose(t, n, "right", child, p)
      BY <2>1 DEF Loose, Side, Opp
    <3> QED BY <3>1 DEF Side
  <2>2. CASE t.kid[n]["left"] # Null
    <3>1. Loose(t, n, "left", child, p)
      BY <2>2 DEF Loose, Side, Opp
    <3> QED BY <3>1 DEF Side
  <2> QED BY <2>1, <2>2
<1>3. Unlinked(t, g, n, child, p)
  BY <1>1, <1>2, UnlinkFields
<1> DEFINE d == [m \in OrNull |-> IF m = n THEN {n} ELSE b[m] \ {n}]
<1>4. Placed(g) = Placed(t) \ {n} /\ Grown(g, d)
  BY <1>1, <1>2, <1>3, UnlinkedGrown
<1> HIDE DEF d
<1>5. /\ n \in t.red => Level(g, h, Null, "left") /\ Apart(g, Null, Null)
      /\ n \notin t.red => /\ Level(g, h, p, SideOf(t, n, p)) /\ Apart(g, Null, child)
                           /\ p # Null => SideOf(t, n, p) \in Side /\ g.kid[p][SideOf(t, n, p)] = child
                           /\ p = Null => g.root = child
  BY SMTT(30), <1>1, <1>2, <1>3, UnlinkedColours
<1>6. CASE n \in t.red
  BY <1>4, <1>5, <1>6 DEF AtRest
<1>7. CASE n \notin t.red /\ p = Null
  <2>1. Level(g, h, p, SideOf(t, n, p)) /\ Apart(g, Null, child) /\ g.root = child
    BY <1>5, <1>7
  <2>2. Level(g, h, Null, "left")
    BY <1>7, <2>1, KeyFacts, LevelNowhere
  <2>3. Erasing(g, d, h, child, p)
    BY <1>4, <1>7, <2>1, <2>2 DEF Erasing
  <2> QED BY <1>4, <1>7, <2>3
<1>8. CASE n \notin t.red /\ p # Null
  <2>1. p \in Placed(t) /\ p # n
    BY <1>1, <1>2, <1>8, LooseFacts
  <2>2. Low(g, h, child, p, SideOf(t, n, p))
    BY <1>4, <1>5, <1>8, <2>1 DEF Low
  <2>3. Erasing(g, d, h, child, p)
    BY <1>4, <1>5, <1>8, <2>2 DEF Erasing, Low
  <2> QED BY <1>4, <1>8, <2>3
<1> QED BY <1>6, <1>7, <1>8

\* The search for the successor begins at the right child.
LEMMA EraseInnerStep ==
  ASSUME NEW t, NEW b, Grown(t, b), NEW o \in Placed(t),
         t.kid[o]["left"] # Null, t.kid[o]["right"] # Null
  PROVE  Succeeds(t, b, o, t.kid[o]["right"])
<1> DEFINE c == t.kid[o]["right"]
<1>1. o \in Nodes /\ "right" \in Side
  BY DEF Placed, Side
<1>2. c \in Nodes
  BY <1>1 DEF Grown, Trees, OrNull
<1>3. c \in b[c]
  BY <1>2, GrownSides, SideFacts
<1> QED BY <1>3 DEF Succeeds

\* One pass of it keeps the next key in view.
LEMMA EraseWalkStep ==
  ASSUME NEW t, NEW b, Grown(t, b), NEW o, NEW n, Succeeds(t, b, o, n),
         NEW c, t.kid[n]["left"] = c, c # Null
  PROVE  Succeeds(t, b, o, c)
<1> DEFINE top == t.kid[o]["right"]
<1>1. /\ o \in Placed(t) /\ o \in Nodes /\ n \in b[top] /\ t.kid[o]["left"] # Null /\ top # Null
      /\ \A m \in b[top] : m \in b[n] \/ Key[n] < Key[m]
      /\ "left" \in Side /\ "right" \in Side
  BY DEF Succeeds, Placed, Side
<1>2. top \in Nodes /\ b[top] \subseteq Nodes /\ t \in Trees
  <2>1. t \in Trees
    BY DEF Grown
  <2>2. top \in OrNull
    BY <1>1, GrownSides
  <2>3. top \in Nodes
    BY <1>1, <2>2 DEF OrNull
  <2> HIDE DEF top
  <2>4. b[top] \subseteq Nodes
    BY <1>1, <2>3, GrownSides
  <2> QED BY <2>1, <2>3, <2>4
<1>3. n \in Nodes /\ b[n] \subseteq b[top]
  BY <1>1, <1>2 DEF Grown, Spanned
<1>4. c \in Nodes
  BY <1>1, <1>2, <1>3 DEF Trees, OrNull
<1>5. t.parent[c] = n /\ c \in b[n]
  BY <1>1, <1>3, <1>4, GrownKid
<1> HIDE DEF top
<1>6. ASSUME NEW m \in b[top]
      PROVE  m \in b[c] \/ Key[c] < Key[m]
  <2>1. Key[c] < Key[n]
    <3>1. c \in b[t.kid[n]["left"]]
      BY <1>1, <1>4, GrownSides
    <3>2. Beyond("left", Key[c], Key[n])
      BY <1>1, <1>3, <3>1 DEF Grown, Spanned
    <3> QED BY <3>2 DEF Beyond
  <2>2. Key[c] \in Int /\ Key[n] \in Int /\ Key[m] \in Int
    BY <1>2, <1>3, <1>4, <1>6, KeyFacts
  <2>3. CASE m \notin b[n]
    BY <1>1, <1>6, <2>1, <2>2, <2>3
  <2>4. CASE m = n
    BY <2>1, <2>4
  <2>5. CASE m \in b[t.kid[n]["right"]]
    <3>1. Beyond("right", Key[m], Key[n])
      BY <1>1, <1>3, <2>5 DEF Grown, Spanned
    <3> QED BY <2>1, <2>2, <3>1 DEF Beyond
  <2>6. m \in b[n] => m = n \/ m \in b[c] \/ m \in b[t.kid[n]["right"]]
    BY <1>3 DEF Grown, Spanned
  <2> QED BY <2>3, <2>4, <2>5, <2>6
<1> QED BY <1>1, <1>3, <1>5, <1>6 DEF Succeeds, top

\* The successor takes the place of the erased node, and its own place is
\* closed.
LEMMA SpliceStep ==
  ASSUME NEW t, NEW b, NEW h, AtRest(t, b, h), NEW o, NEW n, Succeeds(t, b, o, n),
         t.kid[n]["left"] = Null, NEW g, g = InitNode(Spliced(t, o, n), o),
         NEW child, t.kid[n]["right"] = child, NEW p, t.parent[n] = p
  PROVE  /\ Placed(g) = Placed(t) \ {o} /\ o \in Placed(t) /\ n \in Placed(t)
         /\ n \in t.red => \E d, k : AtRest(g, d, k)
         /\ n \notin t.red => \E d, k : Erasing(g, d, k, child, IF p = o THEN n ELSE p)
<1>1. /\ Grown(t, b) /\ Level(t, h, Null, "left") /\ Apart(t, Null, Null)
  BY DEF AtRest
<1>2. /\ o \in Nodes /\ n \in Placed(t) /\ n \in Nodes /\ n # o /\ o \in Placed(t)
      /\ p \in Nodes /\ p # n /\ child # o /\ Loose(t, n, "right", child, p) /\ p # Null
  BY SMTT(60), <1>1, SucceedsFacts, KeyFacts DEF Succeeds
<1>3. child # n /\ p \in Placed(t)
  BY <1>1, <1>2, LooseFacts
<1> DEFINE u == InitNode(Unlink(t, n, child), n)
           d == [m \in OrNull |-> IF m = n THEN {n} ELSE b[m] \ {n}]
           w == IF p = o THEN n ELSE p
           v == SideOf(t, n, p)
<1>4. Unlinked(t, u, n, child, p)
  BY <1>1, <1>2, UnlinkFields
<1>5. Placed(u) = Placed(t) \ {n} /\ Grown(u, d)
  <2> HIDE DEF u
  <2> QED BY <1>1, <1>2, <1>4, UnlinkedGrown
<1>6. Fits(u, d, o, n) /\ Placing(u, g, o, n) /\ g.red = Recoloured(t.red, o, n)
  <2> HIDE DEF u
  <2>1. Unlinked(t, u, n, t.kid[n]["right"], t.parent[n])
    BY <1>4
  <2>2. Fits(u, d, o, n)
    BY <1>1, <2>1, SuccessorFits
  <2>3. Placing(u, g, o, n) /\ g.red = Recoloured(t.red, o, n)
    BY <1>1, <2>1, SpliceFields
  <2> QED BY <2>2, <2>3
<1> HIDE DEF u, d
<1>7. g.red = Recoloured(u.red, o, n)
  BY <1>2, <1>4, <1>6 DEF Unlinked, Recoloured
<1>8. \E e : Placed(g) = (Placed(u) \ {o}) \cup {n} /\ Grown(g, e)
  BY <1>5, <1>6, PlacedGrown
<1>9. Placed(g) = Placed(t) \ {o}
  BY <1>2, <1>5, <1>8
<1>10. /\ n \in t.red => Level(u, h, Null, "left") /\ Apart(u, Null, Null)
       /\ n \notin t.red => /\ Level(u, h, p, v) /\ Apart(u, Null, child)
                            /\ v \in Side /\ u.kid[p][v] = child
  BY <1>1, <1>2, <1>4, UnlinkedColours
<1> HIDE DEF v
<1>11. CASE n \in t.red
  <2>1. Null # o /\ Null # n
    BY <1>2, KeyFacts
  <2>2. /\ \E k : Level(g, k, IF Null = o THEN n ELSE Null, "left")
        /\ Apart(g, Null, Null)
    BY <1>5, <1>6, <1>7, <1>10, <1>11, <2>1, PlacedColours
  <2>3. \E k : Level(g, k, Null, "left")
    BY <2>1, <2>2
  <2> QED BY <1>2, <1>8, <1>9, <1>11, <2>2, <2>3 DEF AtRest
<1>12. CASE n \notin t.red
  <2>1. w = IF p = o THEN n ELSE p
    OBVIOUS
  <2> HIDE DEF w
  <2>2. Level(u, h, p, v) /\ Apart(u, Null, child) /\ v \in Side /\ u.kid[p][v] = child
    BY <1>10, <1>12
  <2>3. /\ \E k : Level(g, k, w, v)
        /\ Apart(g, Null, child) /\ g.kid[w][v] = child
    BY <1>2, <1>3, <1>5, <1>6, <1>7, <2>1, <2>2, PlacedColours
  <2>4. w \in Placed(g)
    BY <1>2, <1>3, <1>9, <2>1
  <2>5. PICK k, e : Level(g, k, w, v) /\ Grown(g, e)
    BY <1>8, <2>3
  <2>6. Low(g, k, child, w, v)
    BY <2>2, <2>3, <2>4, <2>5 DEF Low
  <2>7. Erasing(g, e, k, child, w)
    BY <2>2, <2>3, <2>5, <2>6 DEF Erasing
  <2> QED BY <1>2, <1>9, <1>12, <2>1, <2>7
<1> QED BY <1>11, <1>12

-----------------------------------------------------------------------------
(* rb_replace_node *)

\* rb_replace_node of a node by one with the same key.
LEMMA ReplaceStep ==
  ASSUME NEW t, NEW b, NEW h, AtRest(t, b, h), NEW o \in Placed(t), NEW n \in Nodes \ Placed(t),
         Key[n] = Key[o], NEW g, g = InitNode(Replaced(t, o, n), o)
  PROVE  Placed(g) = (Placed(t) \ {o}) \cup {n} /\ \E d, k : AtRest(g, d, k)
<1>1. Grown(t, b) /\ Level(t, h, Null, "left") /\ Apart(t, Null, Null)
  BY DEF AtRest
<1>2. o \in Nodes /\ n \in Nodes /\ Null \notin Nodes
  BY KeyFacts DEF Placed
<1>3. Fits(t, b, o, n)
  <2>1. /\ \A m \in Nodes, s \in Side : \A x \in b[t.kid[m][s]] : Beyond(s, Key[x], Key[m])
        /\ \A m, x \in Placed(t) : Key[m] = Key[x] => m = x
    BY <1>1 DEF Grown, Spanned
  <2> QED BY <1>2, <2>1 DEF Fits
<1>4. Placing(t, g, o, n) /\ g.red = Recoloured(t.red, o, n)
  BY <1>1, ReplaceFields
<1>5. \E d : Placed(g) = (Placed(t) \ {o}) \cup {n} /\ Grown(g, d)
  BY <1>1, <1>3, <1>4, PlacedGrown
<1>6. Null # o /\ Null # n
  BY <1>2
<1>7. /\ \E k : Level(g, k, IF Null = o THEN n ELSE Null, "left")
      /\ Apart(g, Null, Null)
  BY <1>1, <1>3, <1>4, <1>6, PlacedColours
<1>8. \E k : Level(g, k, Null, "left")
  BY <1>6, <1>7
<1> QED BY <1>5, <1>7, <1>8 DEF AtRest

-----------------------------------------------------------------------------
(* The inductive invariant *)

\* What holds in every state, with the subtrees b and the black heights h.
Held(t, b, h, k, n, u, o) ==
  \/ k = "idle" /\ n = Null /\ u = Null /\ o = Null /\ AtRest(t, b, h)
  \/ k = "descend" /\ o = Null /\ AtRest(t, b, h) /\ Descended(t, b, n, u)
  \/ k = "insert_color" /\ u = Null /\ o = Null /\ Inserting(t, b, h, n)
  \/ k = "successor" /\ u = Null /\ AtRest(t, b, h) /\ Succeeds(t, b, o, n)
  \/ k = "erase_color" /\ o = Null /\ Erasing(t, b, h, n, u)

\* The inductive invariant.
RbInv == \E b, h : Held(tree, b, h, pc, node, up, old)

\* The program counter tells which of the cases it is.
LEMMA HeldCases ==
  ASSUME RbInv
  PROVE  /\ pc = "idle" => /\ node = Null /\ up = Null /\ old = Null
                           /\ \E b, h : AtRest(tree, b, h)
         /\ pc = "descend" => /\ old = Null
                              /\ \E b, h : AtRest(tree, b, h) /\ Descended(tree, b, node, up)
         /\ pc = "insert_color" => /\ up = Null /\ old = Null
                                   /\ \E b, h : Inserting(tree, b, h, node)
         /\ pc = "successor" => /\ up = Null
                                /\ \E b, h : AtRest(tree, b, h) /\ Succeeds(tree, b, old, node)
         /\ pc = "erase_color" => /\ old = Null
                                  /\ \E b, h : Erasing(tree, b, h, node, up)
BY DEF RbInv, Held

\* The empty tree, with every node for a subtree of its own.
LEMMA InitHeld ==
  ASSUME Init
  PROVE  RbInv
<1> DEFINE b == [n \in OrNull |-> IF n = Null THEN {} ELSE {n}]
           h == [n \in OrNull |-> IF n = Null THEN 0 ELSE 1]
<1>1. /\ tree.root = Null /\ tree.parent = [n \in Nodes |-> n] /\ tree.red = Nodes
      /\ tree.kid = [n \in Nodes |-> [s \in Side |-> Null]]
      /\ Null \notin Nodes
  BY KeyFacts DEF Init
<1>2. tree \in Trees
  BY DEF Init, Trees, OrNull
<1>3. Placed(tree) = {} /\ \A n \in Nodes, s \in Side : tree.kid[n][s] = Null
  BY <1>1 DEF Placed
<1>4. Joined(tree)
  BY <1>1, <1>3 DEF Joined
<1>5. /\ b \in [OrNull -> SUBSET Nodes] /\ b[Null] = {} /\ \A n \in Nodes : b[n] = {n}
      /\ h \in [OrNull -> Nat] /\ h[Null] = 0 /\ \A n \in Nodes : h[n] = 1
  BY <1>1 DEF OrNull
<1> HIDE DEF b, h
<1>6. Spanned(tree, b)
  BY <1>1, <1>3, <1>5, SideFacts DEF Spanned
<1>7. Level(tree, h, Null, "left") /\ Apart(tree, Null, Null)
  BY <1>1, <1>3, <1>5 DEF Level, Apart, One
<1>8. AtRest(tree, b, h)
  BY <1>2, <1>4, <1>6, <1>7 DEF AtRest, Grown
<1> QED BY <1>8 DEF Init, RbInv, Held

\* Insert keeps the invariant.
LEMMA InsertHeld ==
  ASSUME RbInv, NEW n \in Nodes, Insert(n)
  PROVE  RbInv'
<1>1. /\ pc = "idle" /\ n \notin Placed(tree) /\ old = Null /\ up = Null
      /\ tree' = tree /\ pc' = "descend" /\ node' = n /\ up' = up /\ old' = old
  BY HeldCases DEF Insert, EmptyNode, Placed
<1>2. PICK b, h : AtRest(tree, b, h)
  BY <1>1, HeldCases
<1>3. Grown(tree, b)
  BY <1>2 DEF AtRest
<1>4. Descended(tree, b, n, Null)
  BY <1>1, <1>3, InsertStep
<1> QED BY <1>1, <1>2, <1>4 DEF RbInv, Held

\* Descend keeps it.
LEMMA DescendHeld ==
  ASSUME RbInv, Descend
  PROVE  RbInv'
<1>1. /\ pc = "descend" /\ Link(tree, node, up) # Null /\ Key[Link(tree, node, up)] # Key[node]
      /\ up' = Link(tree, node, up) /\ tree' = tree /\ pc' = pc /\ node' = node /\ old' = old
  BY DEF Descend
<1>2. PICK b, h : AtRest(tree, b, h) /\ Descended(tree, b, node, up)
  BY <1>1, HeldCases
<1>3. Grown(tree, b)
  BY <1>2 DEF AtRest
<1>4. Descended(tree, b, node, up')
  BY <1>1, <1>2, <1>3, DescendStep
<1> QED BY <1>1, <1>2, <1>4, HeldCases DEF RbInv, Held

\* Present keeps it.
LEMMA PresentHeld ==
  ASSUME RbInv, Present
  PROVE  RbInv'
BY HeldCases DEF Present, RbInv, Held

\* LinkNode keeps it and adds a node whose key was not there.
LEMMA LinkNodeHeld ==
  ASSUME RbInv, LinkNode
  PROVE  /\ RbInv' /\ Placed(tree') = Placed(tree) \cup {node} /\ node \in Nodes
         /\ \A m \in Placed(tree) : Key[m] # Key[node]
<1>1. /\ pc = "descend" /\ Link(tree, node, up) = Null /\ tree' = Linked(tree, node, up)
      /\ pc' = "insert_color" /\ up' = Null /\ node' = node /\ old' = old
  BY DEF LinkNode
<1>2. PICK b, h : AtRest(tree, b, h) /\ Descended(tree, b, node, up)
  BY <1>1, HeldCases
<1>3. /\ Placed(tree') = Placed(tree) \cup {node} /\ \E d : Inserting(tree', d, h, node)
      /\ \A m \in Placed(tree) : Key[m] # Key[node]
  BY <1>1, <1>2, LinkStep
<1>4. old = Null
  BY <1>1, HeldCases
<1>5. node \in Nodes
  BY <1>2 DEF Descended
<1> QED BY <1>1, <1>3, <1>4, <1>5 DEF RbInv, Held

\* InsertRecolour keeps it, and the nodes.
LEMMA InsertRecolourHeld ==
  ASSUME RbInv, InsertRecolour
  PROVE  RbInv' /\ Placed(tree') = Placed(tree)
<1> DEFINE p == tree.parent[node]
           q == tree.parent[p]
           s == SideOf(tree, p, q)
           z == tree.kid[q][Opp(s)]
<1>1. /\ pc = "insert_color" /\ p \in tree.red /\ z \in tree.red /\ tree' = Colour(tree, {z, p}, {q})
      /\ node' = q /\ pc' = pc /\ up' = up /\ old' = old
  <2>1. Parent = p /\ Gparent = q /\ ParentSide = s /\ Uncle = z
    BY DEF Parent, Gparent, ParentSide, Uncle
  <2> HIDE DEF p, q, s, z
  <2> QED BY <2>1 DEF InsertRecolour, RedParent
<1>2. PICK b, h : Inserting(tree, b, h, node)
  BY <1>1, HeldCases
<1> HIDE DEF z
<1>3. z = tree.kid[q][Opp(s)]
  BY DEF z
<1>4. Placed(tree') = Placed(tree) /\ \E d, k : Inserting(tree', d, k, q)
  <2>1. Related(tree, node, p, q, s, z)
    BY <1>3 DEF Related
  <2>2. p \in tree.red /\ z \in tree.red
    BY <1>1
  <2>3. tree' = Colour(tree, {z, p}, {q})
    BY <1>1
  <2> HIDE DEF p, q, s
  <2>4. \A g : g = Colour(tree, {z, p}, {q}) =>
          Placed(g) = Placed(tree) /\ \E d, k : Inserting(g, d, k, q)
    BY <1>2, <2>1, <2>2, InsertRecolourStep
  <2> QED BY <2>3, <2>4
<1>5. up = Null /\ old = Null
  BY <1>1, HeldCases
<1> QED BY <1>1, <1>4, <1>5 DEF RbInv, Held

\* InsertRotate keeps it, and the nodes.
LEMMA InsertRotateHeld ==
  ASSUME RbInv, InsertRotate
  PROVE  RbInv' /\ Placed(tree') = Placed(tree)
<1> DEFINE p == tree.parent[node]
           q == tree.parent[p]
           s == SideOf(tree, p, q)
           f == Rotate(tree, p, s)
<1>1. /\ pc = "insert_color" /\ p \in tree.red /\ tree.kid[q][Opp(s)] \notin tree.red
      /\ pc' = pc /\ up' = up /\ old' = old
  <2>1. Parent = p /\ Gparent = q /\ ParentSide = s /\ Uncle = tree.kid[q][Opp(s)]
    BY DEF Parent, Gparent, ParentSide, Uncle
  <2> HIDE DEF p, q, s, f
  <2> QED BY <2>1 DEF InsertRotate, RedParent
<1>2. PICK b, h : Inserting(tree, b, h, node)
  BY <1>1, HeldCases
<1>3. up = Null /\ old = Null
  BY <1>1, HeldCases
<1>4. CASE tree.kid[p][Opp(s)] # node
  <2>1. tree' = Rotate(Colour(tree, {p}, {q}), q, Opp(s)) /\ node' = node
    <3>1. Parent = p /\ Gparent = q /\ ParentSide = s
      BY DEF Parent, Gparent, ParentSide
    <3> HIDE DEF p, q, s
    <3> QED BY <1>4, <3>1 DEF InsertRotate
  <2>2. Placed(tree') = Placed(tree) /\ \E d : Inserting(tree', d, h, node)
    BY <1>1, <1>2, <1>4, <2>1, InsertOuterStep
  <2> QED BY <1>1, <1>3, <2>1, <2>2 DEF RbInv, Held
<1>5. CASE tree.kid[p][Opp(s)] = node
  <2>1. tree' = Rotate(Colour(f, {node}, {q}), q, Opp(s)) /\ node' = p
    <3>1. Parent = p /\ Gparent = q /\ ParentSide = s
      BY DEF Parent, Gparent, ParentSide
    <3>2. Rotate(tree, p, s) = f
      OBVIOUS
    <3> HIDE DEF p, q, s, f
    <3> QED BY <1>5, <3>1, <3>2 DEF InsertRotate
  <2> HIDE DEF f
  <2>2. f = Rotate(tree, p, s)
    BY DEF f
  <2>3. /\ Placed(f) = Placed(tree) /\ f.red = tree.red
        /\ f.parent[p] = node /\ f.parent[node] = q /\ SideOf(f, node, q) = s
        /\ f.kid[q][Opp(s)] = tree.kid[q][Opp(s)] /\ f.kid[node][Opp(s)] # p
        /\ \E d : Inserting(f, d, h, p)
    BY SMTT(30), <1>1, <1>2, <1>5, <2>2, InsertInnerStep
  <2>4. node \in tree.red
    BY <1>1, <1>2 DEF Inserting
  <2>5. PICK d : Inserting(f, d, h, p)
    BY <2>3
  <2>6. Placed(tree') = Placed(f) /\ \E e : Inserting(tree', e, h, p)
    BY SMTT(30), <1>1, <2>1, <2>3, <2>4, <2>5, InsertOuterStep
  <2> QED BY <1>1, <1>3, <2>1, <2>3, <2>6 DEF RbInv, Held
<1> QED BY <1>4, <1>5

\* InsertDone keeps it, and the nodes.
LEMMA InsertDoneHeld ==
  ASSUME RbInv, InsertDone
  PROVE  RbInv' /\ Placed(tree') = Placed(tree)
<1>1. /\ pc = "insert_color" /\ (tree.parent[node] = Null \/ tree.parent[node] \notin tree.red)
      /\ tree' = Colour(tree, {tree.root}, {})
      /\ pc' = "idle" /\ node' = Null /\ up' = up /\ old' = old
  BY DEF InsertDone, RedParent, Parent
<1>2. PICK b, h : Inserting(tree, b, h, node)
  BY <1>1, HeldCases
<1>3. tree.parent[node] \notin tree.red
  BY <1>1, <1>2, OneFacts DEF Inserting, Grown
<1>4. Placed(tree') = Placed(tree) /\ \E d, k : AtRest(tree', d, k)
  BY <1>1, <1>2, <1>3, InsertDoneStep
<1> QED BY <1>1, <1>4, HeldCases DEF RbInv, Held

\* EraseUnlink keeps it and takes its node away.
LEMMA EraseUnlinkHeld ==
  ASSUME RbInv, NEW n \in Nodes, EraseUnlink(n)
  PROVE  RbInv' /\ Placed(tree') = Placed(tree) \ {n} /\ n \in Placed(tree)
<1> DEFINE child == IF tree.kid[n]["left"] = Null THEN tree.kid[n]["right"]
                                                  ELSE tree.kid[n]["left"]
           p == tree.parent[n]
<1>1. /\ pc = "idle" /\ n \in Placed(tree)
      /\ tree.kid[n]["left"] = Null \/ tree.kid[n]["right"] = Null
      /\ tree' = InitNode(Unlink(tree, n, child), n)
      /\ n \in tree.red => pc' = "idle" /\ node' = Null /\ up' = Null
      /\ n \notin tree.red => pc' = "erase_color" /\ node' = child /\ up' = p
      /\ old' = old
  BY DEF EraseUnlink, Members, EmptyNode, Placed
<1>2. PICK b, h : AtRest(tree, b, h)
  BY <1>1, HeldCases
<1>3. /\ child = IF tree.kid[n]["left"] = Null THEN tree.kid[n]["right"] ELSE tree.kid[n]["left"]
      /\ p = tree.parent[n]
  OBVIOUS
<1> HIDE DEF child, p
<1>4. /\ Placed(tree') = Placed(tree) \ {n}
      /\ n \in tree.red => \E d, k : AtRest(tree', d, k)
      /\ n \notin tree.red => \E d, k : Erasing(tree', d, k, child, p)
  BY <1>1, <1>2, <1>3, EraseUnlinkStep
<1>5. old' = Null
  BY <1>1, HeldCases
<1>6. CASE n \in tree.red
  BY <1>1, <1>4, <1>5, <1>6 DEF RbInv, Held
<1>7. CASE n \notin tree.red
  BY <1>1, <1>4, <1>5, <1>7 DEF RbInv, Held
<1> QED BY <1>6, <1>7

\* EraseInner keeps it.
LEMMA EraseInnerHeld ==
  ASSUME RbInv, NEW n \in Nodes, EraseInner(n)
  PROVE  RbInv'
<1>1. /\ pc = "idle" /\ n \in Placed(tree) /\ tree.kid[n]["left"] # Null /\ tree.kid[n]["right"] # Null
      /\ pc' = "successor" /\ old' = n /\ node' = tree.kid[n]["right"] /\ tree' = tree /\ up' = up
  BY DEF EraseInner, Members, EmptyNode, Placed
<1>2. PICK b, h : AtRest(tree, b, h)
  BY <1>1, HeldCases
<1>3. Grown(tree, b)
  BY <1>2 DEF AtRest
<1>4. Succeeds(tree, b, n, node')
  BY <1>1, <1>3, EraseInnerStep
<1> QED BY <1>1, <1>2, <1>4, HeldCases DEF RbInv, Held

\* EraseWalk keeps it.
LEMMA EraseWalkHeld ==
  ASSUME RbInv, EraseWalk
  PROVE  RbInv'
<1>1. /\ pc = "successor" /\ tree.kid[node]["left"] # Null /\ node' = tree.kid[node]["left"]
      /\ tree' = tree /\ pc' = pc /\ up' = up /\ old' = old
  BY DEF EraseWalk
<1>2. PICK b, h : AtRest(tree, b, h) /\ Succeeds(tree, b, old, node)
  BY <1>1, HeldCases
<1>3. Grown(tree, b)
  BY <1>2 DEF AtRest
<1>4. Succeeds(tree, b, old, node')
  BY <1>1, <1>2, <1>3, EraseWalkStep
<1> QED BY <1>1, <1>2, <1>4, HeldCases DEF RbInv, Held

\* Splice keeps it and takes the old node away.
LEMMA SpliceHeld ==
  ASSUME RbInv, Splice
  PROVE  RbInv' /\ Placed(tree') = Placed(tree) \ {old} /\ old \in Placed(tree)
<1> DEFINE child == tree.kid[node]["right"]
           p == tree.parent[node]
<1>1. /\ pc = "successor" /\ tree.kid[node]["left"] = Null
      /\ tree' = InitNode(Spliced(tree, old, node), old)
      /\ node \in tree.red => pc' = "idle" /\ node' = Null /\ up' = Null
      /\ node \notin tree.red => /\ pc' = "erase_color" /\ node' = child
                                 /\ up' = IF p = old THEN node ELSE p
      /\ old' = Null
  BY DEF Splice
<1>2. PICK b, h : AtRest(tree, b, h) /\ Succeeds(tree, b, old, node)
  BY <1>1, HeldCases
<1>3. child = tree.kid[node]["right"] /\ p = tree.parent[node]
  OBVIOUS
<1> HIDE DEF child, p
<1>4. /\ Placed(tree') = Placed(tree) \ {old} /\ old \in Placed(tree)
      /\ node \in tree.red => \E d, k : AtRest(tree', d, k)
      /\ node \notin tree.red => \E d, k : Erasing(tree', d, k, child, IF p = old THEN node ELSE p)
  BY <1>1, <1>2, <1>3, SpliceStep
<1>5. CASE node \in tree.red
  BY <1>1, <1>4, <1>5 DEF RbInv, Held
<1>6. CASE node \notin tree.red
  BY <1>1, <1>4, <1>6 DEF RbInv, Held
<1> QED BY <1>5, <1>6

\* What the two actions of the loop of __rb_erase_color begin with.
LEMMA EraseBegins ==
  ASSUME RbInv, pc = "erase_color", Deficient, NEW s, s = LowSide
  PROVE  /\ Placed(Levelled) = Placed(tree) /\ up \in Nodes /\ old = Null
         /\ \E d, h : Grown(Levelled, d) /\ Sibling(Levelled, h, node, up, s, Other)
         /\ Other = Levelled.kid[up][Opp(s)] /\ Other \notin Levelled.red
<1> DEFINE q == tree.kid[up][Opp(s)]
<1>1. PICK b, h : Erasing(tree, b, h, node, up)
  BY HeldCases
<1>2. node \notin tree.red /\ node # tree.root /\ s = SideOf(tree, node, up)
  BY DEF Deficient, LowSide
<1>3. /\ Low(tree, h, node, up, s) /\ Apart(tree, Null, Null)
      /\ up \in Nodes /\ q \in Nodes
  BY <1>1, <1>2, LowPlace
<1>4. /\ Levelled = IF q \in tree.red THEN Rotate(Colour(tree, {q}, {up}), up, s) ELSE tree
      /\ q = tree.kid[up][Opp(s)]
  BY DEF Levelled
<1>5. Other = Levelled.kid[up][Opp(s)]
  BY DEF Other
<1> DEFINE g == Levelled
<1>6. g = Levelled
  OBVIOUS
<1> HIDE DEF q, g
<1>7. Sibling(tree, h, node, up, s, q) /\ Grown(tree, b)
  BY <1>1, <1>2, <1>3, <1>4 DEF Sibling, Erasing
<1>8. /\ Placed(g) = Placed(tree) /\ \E d : Grown(g, d)
      /\ \E r : Sibling(g, h, node, up, s, r) /\ r \notin g.red
  BY <1>4, <1>6, <1>7, LevelledStep
<1>9. \A r : Sibling(g, h, node, up, s, r) => r = Other
  BY <1>5, <1>6 DEF Sibling
<1> QED BY <1>3, <1>5, <1>6, <1>8, <1>9, HeldCases

\* EraseRecolour keeps it, and the nodes.
LEMMA EraseRecolourHeld ==
  ASSUME RbInv, EraseRecolour
  PROVE  RbInv' /\ Placed(tree') = Placed(tree)
<1> DEFINE s == LowSide
           t == Levelled
           q == Other
<1>1. /\ pc = "erase_color" /\ Deficient /\ \A r \in Side : t.kid[q][r] \notin t.red
      /\ tree' = Colour(t, {}, {q}) /\ node' = up /\ up' = t.parent[up] /\ pc' = pc /\ old' = old
  BY DEF EraseRecolour, BlackNephews
<1> HIDE DEF s, t, q
<1>2. /\ Placed(t) = Placed(tree) /\ old = Null
      /\ \E d, h : Grown(t, d) /\ Sibling(t, h, node, up, s, q)
      /\ q \notin t.red
  BY <1>1, EraseBegins DEF s, t, q
<1>3. PICK d, h : Grown(t, d) /\ Sibling(t, h, node, up, s, q)
  BY <1>2
<1>4. Placed(tree') = Placed(t) /\ \E e, k : Erasing(tree', e, k, up, up')
  BY <1>1, <1>2, <1>3, EraseRecolourStep
<1> QED BY <1>1, <1>2, <1>4 DEF RbInv, Held

\* EraseRotate keeps it, and the nodes.
LEMMA EraseRotateHeld ==
  ASSUME RbInv, EraseRotate
  PROVE  RbInv' /\ Placed(tree') = Placed(tree)
<1> DEFINE s == LowSide
           t == Levelled
           q == Other
           f == OuterNephew(t, s)
           r == f.kid[up][Opp(s)]
<1>1. /\ pc = "erase_color" /\ Deficient /\ ~BlackNephews
      /\ tree' = Rotate(Colour(f, {r, up, f.kid[r][Opp(s)]}, IF up \in f.red THEN {r} ELSE {}), up, s)
      /\ node' = tree'.root /\ up' = Null /\ pc' = pc /\ old' = old
  BY DEF EraseRotate
<1>2. ~(\A x \in Side : t.kid[q][x] \notin t.red)
  BY <1>1 DEF BlackNephews
<1>3. /\ Placed(t) = Placed(tree) /\ old = Null
      /\ \E d, h : Grown(t, d) /\ Sibling(t, h, node, up, s, q)
      /\ q \notin t.red /\ t.kid[up][Opp(s)] = q
  BY <1>1, EraseBegins
<1> HIDE DEF s, t, q
<1>4. f = IF t.kid[q][Opp(s)] \in t.red THEN t
          ELSE Rotate(Colour(t, {t.kid[q][s]}, {q}), q, Opp(s))
  BY <1>3 DEF OuterNephew
<1> HIDE DEF f, r
<1>5. PICK d, h : Grown(t, d) /\ Sibling(t, h, node, up, s, q)
  BY <1>3
<1>6. /\ Placed(f) = Placed(t) /\ \E e : Grown(f, e)
      /\ \E x : Sibling(f, h, node, up, s, x) /\ x \notin f.red /\ f.kid[x][Opp(s)] \in f.red
  <2>1. q \notin t.red
    BY <1>3
  <2> QED BY <1>2, <1>4, <1>5, <2>1, OuterNephewStep
<1>7. Sibling(f, h, node, up, s, r) /\ r \notin f.red /\ f.kid[r][Opp(s)] \in f.red
  <2>1. \A x : Sibling(f, h, node, up, s, x) => x = r
    BY DEF Sibling, r
  <2> QED BY <1>6, <2>1
<1>8. Placed(tree') = Placed(f) /\ \E e, k : Erasing(tree', e, k, tree'.root, Null)
  <2> DEFINE g == Rotate(Colour(f, {r, up, f.kid[r][Opp(s)]}, IF up \in f.red THEN {r} ELSE {}), up, s)
  <2>1. g = Rotate(Colour(f, {r, up, f.kid[r][Opp(s)]}, IF up \in f.red THEN {r} ELSE {}), up, s)
    OBVIOUS
  <2>2. tree' = g
    BY <1>1
  <2> HIDE DEF g
  <2>3. PICK e : Grown(f, e)
    BY <1>6
  <2>4. Placed(g) = Placed(f) /\ \E d1, k1 : Erasing(g, d1, k1, g.root, Null)
    BY SMTT(30), <1>7, <2>1, <2>3, EraseRotateStep
  <2> QED BY <2>2, <2>4
<1> QED BY <1>1, <1>3, <1>6, <1>8 DEF RbInv, Held

\* EraseDone keeps it, and the nodes.
LEMMA EraseDoneHeld ==
  ASSUME RbInv, EraseDone
  PROVE  RbInv' /\ Placed(tree') = Placed(tree)
<1>1. /\ pc = "erase_color" /\ ~(node \notin tree.red /\ node # tree.root)
      /\ tree' = Colour(tree, {node}, {})
      /\ pc' = "idle" /\ node' = Null /\ up' = Null /\ old' = old
  BY DEF EraseDone, Deficient
<1>2. PICK b, h : Erasing(tree, b, h, node, up)
  BY <1>1, HeldCases
<1>3. Placed(tree') = Placed(tree) /\ \E d, k : AtRest(tree', d, k)
  BY <1>1, <1>2, EraseDoneStep
<1> QED BY <1>1, <1>3, HeldCases DEF RbInv, Held

\* Replace keeps it and exchanges two nodes with the same key.
LEMMA ReplaceHeld ==
  ASSUME RbInv, NEW o \in Nodes, NEW n \in Nodes, Replace(o, n)
  PROVE  /\ RbInv' /\ Placed(tree') = (Placed(tree) \ {o}) \cup {n} /\ Key[n] = Key[o]
         /\ o \in Placed(tree) /\ n \notin Placed(tree)
<1>1. /\ pc = "idle" /\ o \in Placed(tree) /\ n \in Nodes \ Placed(tree) /\ Key[n] = Key[o]
      /\ tree' = InitNode(Replaced(tree, o, n), o)
      /\ pc' = pc /\ node' = node /\ up' = up /\ old' = old
  BY DEF Replace, Members, EmptyNode, Placed, locals
<1>2. PICK b, h : AtRest(tree, b, h)
  BY <1>1, HeldCases
<1>3. Placed(tree') = (Placed(tree) \ {o}) \cup {n} /\ \E d, k : AtRest(tree', d, k)
  BY <1>1, <1>2, ReplaceStep
<1> QED BY <1>1, <1>3, HeldCases DEF RbInv, Held

\* Every action keeps it.
LEMMA NextHeld ==
  ASSUME RbInv, [Next]_vars
  PROVE  RbInv'
<1>1. CASE UNCHANGED vars
  BY <1>1 DEF vars, RbInv
<1>2. CASE Call
  BY <1>2, InsertHeld, EraseUnlinkHeld, EraseInnerHeld, ReplaceHeld DEF Call
<1>3. CASE Step
  BY <1>3, DescendHeld, PresentHeld, LinkNodeHeld, InsertRecolourHeld, InsertRotateHeld,
     InsertDoneHeld, EraseWalkHeld, SpliceHeld, EraseRecolourHeld, EraseRotateHeld, EraseDoneHeld
     DEF Step
<1> QED BY <1>1, <1>2, <1>3 DEF Next

\* The inductive invariant holds in every state.
THEOREM RbInvariant == Spec => []RbInv
<1>1. Init => RbInv
  BY InitHeld
<1>2. RbInv /\ [Next]_vars => RbInv'
  BY NextHeld
<1> QED BY <1>1, <1>2, PTL DEF Spec

-----------------------------------------------------------------------------
(* Recursion over the tree *)

\* So are the heights, where a step from n to its left child counts w[n].
Counted(t, w, h) ==
  /\ h = [n \in OrNull |-> h[n]] /\ h[Null] = 0
  /\ \A n \in Nodes : h[n] = h[t.kid[n]["left"]] + w[n]

\* Two functions that count the same steps are the same: a lowest node where
\* they differ has a left child where they do not.
LEMMA HeightIs ==
  ASSUME NEW t, NEW b, Grown(t, b), NEW w, NEW a, Counted(t, w, a), NEW h, Counted(t, w, h)
  PROVE  a = h
<1>1. /\ Null \notin Nodes
      /\ h = [n \in OrNull |-> h[n]] /\ h[Null] = 0
      /\ \A n \in Nodes : h[n] = h[t.kid[n]["left"]] + w[n]
      /\ a = [n \in OrNull |-> a[n]] /\ a[Null] = 0
      /\ \A n \in Nodes : a[n] = a[t.kid[n]["left"]] + w[n]
  BY KeyFacts DEF Counted
<1> DEFINE D == {n \in Nodes : a[n] # h[n]}
<1>2. D = {}
  <2> SUFFICES ASSUME D # {} PROVE FALSE
    OBVIOUS
  <2>1. PICK n \in D : \A s \in Side : t.kid[n][s] \notin D
    <3>1. D \subseteq Nodes
      OBVIOUS
    <3> HIDE DEF D
    <3> QED BY <3>1, TreeMin
  <2>2. "left" \in Side
    BY SideFacts
  <2>3. t.kid[n]["left"] \in OrNull
    BY <2>2, GrownSides
  <2>4. a[t.kid[n]["left"]] = h[t.kid[n]["left"]]
    BY <1>1, <2>1, <2>2, <2>3 DEF OrNull
  <2>5. a[n] = h[n]
    BY <1>1, <2>4
  <2> QED BY <2>5
<1>3. \A n \in OrNull : a[n] = h[n]
  BY <1>1, <1>2 DEF OrNull
<1> QED BY <1>1, <1>3

-----------------------------------------------------------------------------
(* What the invariant implies *)

\* The links are in order in all cases.
LEMMA HeldGrown ==
  ASSUME RbInv
  PROVE  \E b : Grown(tree, b)
BY DEF RbInv, Held, AtRest, Inserting, Erasing

\* Members is Placed of the variable tree.
LEMMA MembersPlaced == Members = Placed(tree)
BY DEF Members, Placed, EmptyNode

\* The invariant implies TypeOK.
LEMMA RbTypes ==
  ASSUME RbInv
  PROVE  TypeOK
<1>1. PICK b : Grown(tree, b)
  BY HeldGrown
<1>2. /\ tree.root \in OrNull /\ tree.red \subseteq Nodes
      /\ tree.parent \in [Nodes -> OrNull] /\ tree.kid \in [Nodes -> [Side -> OrNull]]
  BY <1>1 DEF Grown, Trees
<1>3. Members = Placed(tree) /\ Placed(tree) \subseteq Nodes
  BY MembersPlaced DEF Placed
<1>4. \/ pc = "idle" /\ node = Null /\ up = Null /\ old = Null
      \/ pc = "descend" /\ node \in Nodes \ Members /\ up \in Members \cup {Null} /\ old = Null
      \/ pc = "insert_color" /\ node \in Members /\ up = Null /\ old = Null
      \/ pc = "successor" /\ node \in Members /\ up = Null /\ old \in Members \ {node}
      \/ pc = "erase_color" /\ {node, up} \subseteq Members \cup {Null} /\ old = Null
  <2>1. CASE pc = "idle"
    BY <2>1, HeldCases
  <2>2. CASE pc = "descend"
    BY <1>3, <2>2, HeldCases DEF Descended
  <2>3. CASE pc = "insert_color"
    BY <1>3, <2>3, HeldCases DEF Inserting
  <2>4. CASE pc = "successor"
    <3>1. PICK d, h : AtRest(tree, d, h) /\ Succeeds(tree, d, old, node)
      BY <2>4, HeldCases
    <3> DEFINE top == tree.kid[old]["right"]
    <3>2. /\ Grown(tree, d) /\ old \in Placed(tree) /\ old \in Nodes /\ node \in d[top] /\ top # Null
      BY <3>1 DEF AtRest, Succeeds, Placed
    <3>3. top \in OrNull /\ old \notin d[top] /\ d[top] \subseteq d[old]
      BY <3>2, GrownSides, SideFacts
    <3>4. d[old] \subseteq Placed(tree)
      BY <3>2, GrownMembers
    <3> HIDE DEF top
    <3> QED BY <1>3, <2>4, <3>2, <3>3, <3>4, HeldCases
  <2>5. CASE pc = "erase_color"
    <3>1. PICK d, h : Erasing(tree, d, h, node, up)
      BY <2>5, HeldCases
    <3>2. Grown(tree, d)
      BY <3>1 DEF Erasing
    <3>3. tree.root \in Placed(tree) \cup {Null}
      <4>1. tree.root \in Nodes => tree.root \in d[tree.root]
        BY <3>2, GrownSides, SideFacts
      <4> QED BY <1>2, <3>2, <4>1 DEF Grown, Spanned, OrNull
    <3>4. ASSUME NEW s \in Side, Low(tree, h, node, up, s)
          PROVE  up \in Placed(tree) /\ node \in Placed(tree) \cup {Null}
      <4>1. up \in Placed(tree) /\ up \in Nodes /\ tree.kid[up][s] = node
        BY <3>4 DEF Low, Placed
      <4>2. node \in OrNull
        BY <3>2, <4>1, GrownSides
      <4>3. node \in Nodes => node \in Placed(tree)
        BY <3>2, <4>1, GrownKid
      <4> QED BY <4>1, <4>2, <4>3 DEF OrNull
    <3>5. node \in Placed(tree) \cup {Null} /\ up \in Placed(tree) \cup {Null}
      BY <3>1, <3>3, <3>4 DEF Erasing
    <3> QED BY <1>3, <2>5, <3>5, HeldCases
  <2> QED BY <2>1, <2>2, <2>3, <2>4, <2>5 DEF RbInv, Held
<1> QED BY <1>2, <1>4 DEF TypeOK

\* It implies ParentLinks.
LEMMA RbLinks ==
  ASSUME RbInv
  PROVE  ParentLinks
<1>1. Joined(tree) /\ Members = Placed(tree)
  BY HeldGrown, MembersPlaced DEF Grown
<1> QED BY <1>1 DEF ParentLinks, Joined

\* It implies SearchOrder, with Below for the map b.
LEMMA RbOrder ==
  ASSUME RbInv
  PROVE  SearchOrder /\ Below(tree)[tree.root] = Placed(tree)
<1>1. PICK b : Grown(tree, b)
  BY HeldGrown
<1>2. Below(tree) = b /\ Members = Placed(tree) /\ Placed(tree) \subseteq Nodes
  BY <1>1, BelowIs, MembersPlaced DEF Placed
<1>3. /\ b[tree.root] = Placed(tree)
      /\ \A n \in Nodes, s \in Side : \A m \in b[tree.kid[n][s]] : Beyond(s, Key[m], Key[n])
  BY <1>1 DEF Grown, Spanned
<1> QED BY <1>2, <1>3 DEF SearchOrder

\* The only place where a red node is the parent of n, or nobody is.
LEMMA ApartAt ==
  ASSUME NEW t, NEW b, Grown(t, b), NEW x, NEW y, Apart(t, x, y),
         NEW n \in Placed(t), n \in t.red, t.parent[n] \in t.red \cup {Null}
  PROVE  n = x \/ n = y \/ (t.parent[n] = y /\ y \in Nodes)
<1>1. CASE n = t.root
  BY <1>1 DEF Apart
<1>2. CASE n # t.root
  <2> DEFINE p == t.parent[n]
             s == SideOf(t, n, p)
  <2>1. p \in Placed(t) /\ s \in Side /\ t.kid[p][s] = n
    BY <1>2, GrownParent
  <2>2. p \in Nodes /\ p \in t.red
    BY <2>1, KeyFacts DEF Placed
  <2> HIDE DEF p, s
  <2>3. n = x \/ n = y \/ p = y
    BY <2>1, <2>2 DEF Apart
  <2> QED BY <2>2, <2>3 DEF p
<1> QED BY <1>1, <1>2

\* It implies RedApart.
LEMMA RbApart ==
  ASSUME RbInv
  PROVE  RedApart
<1> SUFFICES ASSUME NEW n \in Placed(tree), n \in tree.red, tree.parent[n] \in tree.red \cup {Null}
             PROVE  \/ pc = "insert_color" /\ n = node
                    \/ pc = "erase_color" /\ node \in {n, tree.parent[n]} \ {Null}
  BY MembersPlaced DEF RedApart
<1>1. n \in Nodes /\ Null \notin Nodes
  BY KeyFacts DEF Placed
<1>2. ASSUME NEW b, NEW h, AtRest(tree, b, h)
      PROVE  FALSE
  <2>1. Grown(tree, b) /\ Apart(tree, Null, Null)
    BY <1>2 DEF AtRest
  <2> QED BY <1>1, <2>1, ApartAt
<1>3. ASSUME NEW b, NEW h, Inserting(tree, b, h, node)
      PROVE  n = node
  <2>1. Grown(tree, b) /\ Apart(tree, node, Null)
    BY <1>3 DEF Inserting
  <2> QED BY <1>1, <2>1, ApartAt
<1>4. ASSUME NEW b, NEW h, Erasing(tree, b, h, node, up)
      PROVE  node \in {n, tree.parent[n]} \ {Null}
  <2>1. Grown(tree, b) /\ Apart(tree, Null, node)
    BY <1>4 DEF Erasing
  <2>2. n = Null \/ n = node \/ (tree.parent[n] = node /\ node \in Nodes)
    BY <2>1, ApartAt
  <2> QED BY <1>1, <2>2
<1> QED BY <1>2, <1>3, <1>4 DEF RbInv, Held

\* In __rb_erase_color the side that is too low is the one the code takes it for.
LEMMA LowSideIs ==
  ASSUME NEW t, NEW b, Grown(t, b), NEW h, NEW n, NEW u, NEW s, Low(t, h, n, u, s)
  PROVE  SideOf(t, n, u) = s
<1>1. u \in Nodes /\ s \in Side /\ t.kid[u][s] = n /\ Level(t, h, u, s)
  BY DEF Low, Placed
<1>2. CASE n \in Nodes
  BY <1>1, <1>2, GrownKid
<1>3. CASE n = Null
  <2>1. n \notin t.red
    BY <1>3, OneFacts DEF Grown
  <2> QED BY <1>1, <2>1, LowSibling
<1>4. n \in OrNull
  BY <1>1, GrownSides
<1> QED BY <1>2, <1>3, <1>4 DEF OrNull

\* The heights of the invariant count what Blackness does.
LEMMA HeldHeights ==
  ASSUME RbInv
  PROVE  \E b, h : /\ Grown(tree, b) /\ h \in [OrNull -> Nat] /\ h[Null] = 0
                   /\ \A n \in Nodes, r \in Side : h[n] = h[tree.kid[n][r]] + Blackness(n, r)
<1>1. ASSUME NEW b, NEW h, Grown(tree, b), Level(tree, h, Null, "left"),
             pc # "erase_color" \/ up = Null
      PROVE  /\ h \in [OrNull -> Nat] /\ h[Null] = 0
             /\ \A n \in Nodes, r \in Side : h[n] = h[tree.kid[n][r]] + Blackness(n, r)
  <2>1. ASSUME NEW n \in Nodes, NEW r \in Side
        PROVE  h[n] = h[tree.kid[n][r]] + Blackness(n, r)
    <3>1. n # Null
      BY KeyFacts
    <3>2. h[n] = h[tree.kid[n][r]] + One(tree, tree.kid[n][r]) + 0
      BY <1>1, <3>1 DEF Level
    <3>3. Blackness(n, r) = One(tree, tree.kid[n][r]) + 0
      BY <1>1, <3>1 DEF Blackness, One
    <3>4. h[tree.kid[n][r]] \in Nat /\ One(tree, tree.kid[n][r]) \in Nat
      BY <1>1, LevelFacts DEF One
    <3> QED BY <3>2, <3>3, <3>4
  <2> QED BY <1>1, <2>1 DEF Level
<1>2. ASSUME NEW b, NEW h, Grown(tree, b), NEW s \in Side, Low(tree, h, node, up, s), pc = "erase_color"
      PROVE  /\ h \in [OrNull -> Nat] /\ h[Null] = 0
             /\ \A n \in Nodes, r \in Side : h[n] = h[tree.kid[n][r]] + Blackness(n, r)
  <2>1. LowSide = s /\ Level(tree, h, up, s)
    BY <1>2, LowSideIs DEF LowSide, Low
  <2>2. ASSUME NEW n \in Nodes, NEW r \in Side
        PROVE  h[n] = h[tree.kid[n][r]] + Blackness(n, r)
    <3>1. h[n] = h[tree.kid[n][r]] + One(tree, tree.kid[n][r]) + (IF n = up /\ r = s THEN 1 ELSE 0)
      BY <2>1 DEF Level
    <3>2. Blackness(n, r) = One(tree, tree.kid[n][r]) + (IF n = up /\ r = s THEN 1 ELSE 0)
      BY <1>2, <2>1 DEF Blackness, One
    <3>3. h[tree.kid[n][r]] \in Nat /\ One(tree, tree.kid[n][r]) \in Nat
      BY <1>2, <2>1, LevelFacts DEF One
    <3> QED BY <3>1, <3>2, <3>3
  <2> QED BY <2>1, <2>2 DEF Level
<1>3. CASE pc # "erase_color"
  <2>1. PICK b, h : Grown(tree, b) /\ Level(tree, h, Null, "left")
    BY <1>3 DEF RbInv, Held, AtRest, Inserting
  <2> QED BY <1>1, <1>3, <2>1
<1>4. CASE pc = "erase_color"
  <2>1. PICK b, h : Erasing(tree, b, h, node, up)
    BY <1>4, HeldCases
  <2>2. Grown(tree, b)
    BY <2>1 DEF Erasing
  <2>3. CASE up = Null /\ Level(tree, h, Null, "left")
    BY <1>1, <2>2, <2>3
  <2>4. CASE \E s \in Side : Low(tree, h, node, up, s)
    BY <1>2, <1>4, <2>2, <2>4
  <2> QED BY <2>1, <2>3, <2>4 DEF Erasing
<1> QED BY <1>3, <1>4

\* It implies BlackHeights, with the recursive function for the map h.
LEMMA RbHeights ==
  ASSUME RbInv
  PROVE  BlackHeights
<1>1. PICK b, h : /\ Grown(tree, b) /\ h \in [OrNull -> Nat] /\ h[Null] = 0
                  /\ \A n \in Nodes, r \in Side : h[n] = h[tree.kid[n][r]] + Blackness(n, r)
  BY HeldHeights
<1> DEFINE F(f) == f = [n \in OrNull |-> IF n = Null THEN 0
                                         ELSE f[tree.kid[n]["left"]] + Blackness(n, "left")]
           g == CHOOSE f : F(f)
<1>2. h = [n \in OrNull |-> h[n]] /\ DOMAIN h = OrNull /\ Null \notin Nodes
  BY <1>1, KeyFacts
<1>3. \A n \in Nodes : h[n] = h[tree.kid[n]["left"]] + Blackness(n, "left")
  BY <1>1, SideFacts
<1>4. F(h)
  <2> HIDE DEF F
  <2> SUFFICES h = [n \in OrNull |-> IF n = Null THEN 0
                                     ELSE h[tree.kid[n]["left"]] + Blackness(n, "left")]
    BY DEF F
  <2> QED BY <1>1, <1>2, <1>3 DEF OrNull
<1>5. F(g)
  <2> HIDE DEF F
  <2> QED BY <1>4
<1>6. g = h
  <2> HIDE DEF g
  <2>1. g = [n \in OrNull |-> IF n = Null THEN 0 ELSE g[tree.kid[n]["left"]] + Blackness(n, "left")]
    BY <1>5
  <2> HIDE DEF F
  <2>2. g = [n \in OrNull |-> g[n]] /\ g[Null] = 0
    BY <1>2, <2>1 DEF OrNull
  <2>3. \A n \in Nodes : g[n] = g[tree.kid[n]["left"]] + Blackness(n, "left")
    BY <1>2, <2>1 DEF OrNull
  <2> DEFINE w == [n \in Nodes |-> Blackness(n, "left")]
  <2>4. /\ \A n \in Nodes : g[n] = g[tree.kid[n]["left"]] + w[n]
        /\ \A n \in Nodes : h[n] = h[tree.kid[n]["left"]] + w[n]
    BY <1>3, <2>3
  <2> HIDE DEF w
  <2>5. Counted(tree, w, g) /\ Counted(tree, w, h) /\ Grown(tree, b)
    BY <1>1, <1>2, <2>2, <2>4 DEF Counted
  <2> QED BY <2>5, HeightIs
<1>7. \A n \in Members :
        g[tree.kid[n]["left"]] + Blackness(n, "left")
          = g[tree.kid[n]["right"]] + Blackness(n, "right")
  <2> HIDE DEF g, F
  <2> QED BY <1>1, <1>6, SideFacts DEF Members
<1> QED BY <1>7 DEF BlackHeights

\* It implies NoNullDereference.
LEMMA RbNoNull ==
  ASSUME RbInv
  PROVE  NoNullDereference
<1>1. ASSUME pc = "insert_color", RedParent
      PROVE  Gparent # Null
  <2>1. PICK b, h : Inserting(tree, b, h, node)
    BY <1>1, HeldCases
  <2>2. Parent = tree.parent[node] /\ Parent \in tree.red /\ Gparent = tree.parent[Parent]
    BY <1>1 DEF RedParent, Parent, Gparent
  <2> QED BY <2>1, <2>2, RedParents
<1>2. ASSUME pc = "erase_color", Deficient
      PROVE  up # Null /\ tree.kid[up][Opp(LowSide)] # Null /\ Other # Null
  <2>1. PICK b, h : Erasing(tree, b, h, node, up)
    BY <1>2, HeldCases
  <2>2. node \notin tree.red /\ node # tree.root /\ LowSide = SideOf(tree, node, up)
    BY <1>2 DEF Deficient, LowSide
  <2>3. up \in Nodes /\ tree.kid[up][Opp(LowSide)] \in Nodes
    BY <2>1, <2>2, LowPlace
  <2>4. Other \in Nodes
    BY <1>2, EraseBegins DEF Sibling
  <2> QED BY <2>3, <2>4, KeyFacts
<1> QED BY <1>1, <1>2 DEF NoNullDereference

-----------------------------------------------------------------------------
(* The set of keys *)

\* The keys of a set of nodes.
KeysOf(S) == {Key[n] : n \in S}

\* The abstract set is that of the keys of the placed nodes.
LEMMA SetIs ==
  ASSUME RbInv
  PROVE  {Key[n] : n \in Below(tree)[tree.root]} = KeysOf(Placed(tree))
BY RbOrder DEF KeysOf

\* Two nodes of the tree have different keys.
LEMMA KeysDiffer ==
  ASSUME RbInv, NEW m \in Placed(tree), NEW n \in Placed(tree), Key[m] = Key[n]
  PROVE  m = n
BY HeldGrown DEF Grown, Spanned

\* Adding a node adds its key.
LEMMA KeysAdded ==
  ASSUME NEW S, NEW n \in Nodes, \A m \in S : Key[m] # Key[n]
  PROVE  KeysOf(S \cup {n}) = KeysOf(S) \cup {Key[n]} /\ Key[n] \notin KeysOf(S)
BY DEF KeysOf

\* Removing a node removes its key, which no other node has.
LEMMA KeysRemoved ==
  ASSUME RbInv, NEW n \in Placed(tree)
  PROVE  KeysOf(Placed(tree) \ {n}) = KeysOf(Placed(tree)) \ {Key[n]} /\ Key[n] \in KeysOf(Placed(tree))
<1>1. \A m \in Placed(tree) : Key[m] = Key[n] => m = n
  BY KeysDiffer
<1> QED BY <1>1 DEF KeysOf

\* A node of the same key leaves the keys as they are.
LEMMA KeysReplaced ==
  ASSUME NEW S, NEW o \in S, NEW n, Key[n] = Key[o]
  PROVE  KeysOf((S \ {o}) \cup {n}) = KeysOf(S)
BY DEF KeysOf

\* What a step does to the set of keys.
LEMMA NextKeys ==
  ASSUME RbInv, Next
  PROVE  \/ KeysOf(Placed(tree')) = KeysOf(Placed(tree))
         \/ \E n \in Nodes : /\ Key[n] \notin KeysOf(Placed(tree))
                             /\ KeysOf(Placed(tree')) = KeysOf(Placed(tree)) \cup {Key[n]}
         \/ \E n \in Nodes : /\ Key[n] \in KeysOf(Placed(tree))
                             /\ KeysOf(Placed(tree')) = KeysOf(Placed(tree)) \ {Key[n]}
<1>1. CASE LinkNode
  <2>1. /\ Placed(tree') = Placed(tree) \cup {node} /\ node \in Nodes
        /\ \A m \in Placed(tree) : Key[m] # Key[node]
    BY <1>1, LinkNodeHeld
  <2> QED BY <2>1, KeysAdded
<1>2. ASSUME NEW n \in Nodes, EraseUnlink(n)
      PROVE  /\ Key[n] \in KeysOf(Placed(tree))
             /\ KeysOf(Placed(tree')) = KeysOf(Placed(tree)) \ {Key[n]}
  <2>1. Placed(tree') = Placed(tree) \ {n} /\ n \in Placed(tree)
    BY <1>2, EraseUnlinkHeld
  <2> QED BY <2>1, KeysRemoved
<1>3. CASE Splice
  <2>1. Placed(tree') = Placed(tree) \ {old} /\ old \in Placed(tree) /\ old \in Nodes
    BY <1>3, SpliceHeld DEF Placed
  <2> QED BY <2>1, KeysRemoved
<1>4. ASSUME NEW o \in Nodes, NEW n \in Nodes, Replace(o, n)
      PROVE  KeysOf(Placed(tree')) = KeysOf(Placed(tree))
  <2>1. /\ Placed(tree') = (Placed(tree) \ {o}) \cup {n} /\ Key[n] = Key[o]
        /\ o \in Placed(tree)
    BY <1>4, ReplaceHeld
  <2> QED BY <2>1, KeysReplaced
<1>5. CASE InsertRecolour \/ InsertRotate \/ InsertDone \/ EraseRecolour \/ EraseRotate \/ EraseDone
  BY <1>5, InsertRecolourHeld, InsertRotateHeld, InsertDoneHeld, EraseRecolourHeld,
     EraseRotateHeld, EraseDoneHeld
<1>6. CASE Descend \/ Present \/ EraseWalk \/ \E n \in Nodes : Insert(n) \/ EraseInner(n)
  BY <1>6 DEF Descend, Present, EraseWalk, Insert, EraseInner
<1>7. CASE Call
  BY <1>2, <1>4, <1>6, <1>7 DEF Call
<1>8. CASE Step
  BY <1>1, <1>3, <1>5, <1>6, <1>8 DEF Step
<1> QED BY <1>7, <1>8 DEF Next

-----------------------------------------------------------------------------
(* The theorems of the specification *)

\* TypeOK: the fields have their types, and the local variables of the loops
\* name nodes that are in the tree, also after rb_erase has taken one out of it.
THEOREM RbTypeCorrect == Spec => []TypeOK
<1>1. RbInv => TypeOK
  BY RbTypes
<1> QED BY <1>1, RbInvariant, PTL

\* ParentLinks: rotations, unlinking, splicing and replacing leave every parent
\* pointer and the child pointer above it in agreement.
THEOREM RbParentLinks == Spec => []ParentLinks
<1>1. RbInv => ParentLinks
  BY RbLinks
<1> QED BY <1>1, RbInvariant, PTL

\* SearchOrder: no node is lost, and the keys stay in search order.
THEOREM RbSearchOrder == Spec => []SearchOrder
<1>1. RbInv => SearchOrder
  BY RbOrder
<1> QED BY <1>1, RbInvariant, PTL

\* RedApart: a red node has a red parent only at the node a loop looks at.
THEOREM RbRedApart == Spec => []RedApart
<1>1. RbInv => RedApart
  BY RbApart
<1> QED BY <1>1, RbInvariant, PTL

\* BlackHeights: all paths have as many black nodes, but for the one that
\* __rb_erase_color still has to make up for.
THEOREM RbBlackHeights == Spec => []BlackHeights
<1>1. RbInv => BlackHeights
  BY RbHeights
<1> QED BY <1>1, RbInvariant, PTL

\* NoNullDereference: the nodes that the rebalancing loops read without a test exist.
THEOREM RbNoNullDereference == Spec => []NoNullDereference
<1>1. RbInv => NoNullDereference
  BY RbNoNull
<1> QED BY <1>1, RbInvariant, PTL

\* ImplementsSet: the tree is a set of keys; linking a node adds its key,
\* unlinking or splicing it out takes its key away, and no other step of the
\* loops, nor a replacement, changes the set.
THEOREM RbImplementsSet == Spec => ImplementsSet
<1> DEFINE S == {Key[n] : n \in Below(tree)[tree.root]}
<1>1. Init => S = {}
  <2> SUFFICES ASSUME Init PROVE S = {}
    OBVIOUS
  <2>1. RbInv /\ Placed(tree) = {}
    BY InitHeld DEF Init, Placed
  <2> QED BY <2>1, SetIs DEF KeysOf
<1>3. RbInv' => S' = KeysOf(Placed(tree'))
  <2>1. RbInv => S = KeysOf(Placed(tree))
    BY SetIs
  <2>2. (RbInv => S = KeysOf(Placed(tree)))'
    BY <2>1, PTL
  <2> QED BY <2>2
<1>2. RbInv /\ [Next]_vars => [Set!Next]_S
  <2> SUFFICES ASSUME RbInv, [Next]_vars PROVE [Set!Next]_S
    OBVIOUS
  <2>1. S = KeysOf(Placed(tree))
    BY SetIs
  <2>2. RbInv'
    BY NextHeld
  <2>3. S' = KeysOf(Placed(tree'))
    BY <1>3, <2>2
  <2>4. CASE UNCHANGED vars
    BY <2>4 DEF vars
  <2>5. CASE Next
    <3>1. CASE KeysOf(Placed(tree')) = KeysOf(Placed(tree))
      BY <2>1, <2>3, <3>1
    <3>2. ASSUME NEW n \in Nodes, Key[n] \notin KeysOf(Placed(tree)),
                 KeysOf(Placed(tree')) = KeysOf(Placed(tree)) \cup {Key[n]}
          PROVE  Set!Next
      <4>1. Key[n] \in Keys /\ Set!Insert(Key[n])
        BY <2>1, <2>3, <3>2 DEF Keys, Set!Insert
      <4> QED BY <4>1 DEF Set!Next
    <3>3. ASSUME NEW n \in Nodes, Key[n] \in KeysOf(Placed(tree)),
                 KeysOf(Placed(tree')) = KeysOf(Placed(tree)) \ {Key[n]}
          PROVE  Set!Next
      <4>1. Key[n] \in Keys /\ Set!Remove(Key[n])
        BY <2>1, <2>3, <3>3 DEF Keys, Set!Remove
      <4> QED BY <4>1 DEF Set!Next
    <3> QED BY <2>5, <3>1, <3>2, <3>3, NextKeys
  <2> QED BY <2>4, <2>5
<1> QED BY <1>1, <1>2, RbInvariant, PTL DEF Spec, ImplementsSet, Set!Spec, Set!Init
=============================================================================
