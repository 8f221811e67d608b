---------------------------- MODULE RbLinksProofs ----------------------------
(***************************************************************************)
(* The links of rbtree.c: that rb_link_node, rotations, recolouring,       *)
(* unlinking and the exchange of a node keep parents and children in       *)
(* agreement, keep every node reachable and keep the keys in search        *)
(* order, and what the walks down and up a tree return.  The lemmas speak  *)
(* of any tree t and of a map b from nodes to sets of nodes that has what  *)
(* is asked of Below(t); an operation on the tree comes with a map for     *)
(* its result.                                                             *)
(***************************************************************************)
EXTENDS RbTree, FiniteSetTheorems, TLAPS

\* The values of the variable tree.
Trees == [root : OrNull, parent : [Nodes -> OrNull], kid : [Nodes -> [Side -> OrNull]],
          red : SUBSET Nodes]

\* Members, of any tree.
Placed(t) == {n \in Nodes : t.parent[n] # n}

\* ParentLinks, of any tree.
Joined(t) ==
  /\ t.root # Null => t.parent[t.root] = Null
  /\ \A n \in Placed(t) \ {t.root} :
       t.parent[n] \in Placed(t) /\ \E s \in Side : t.kid[t.parent[n]][s] = n
  /\ \A n \in Nodes, s \in Side :
       t.kid[n][s] # Null => /\ t.parent[t.kid[n][s]] = n /\ n \in Placed(t)
                             /\ t.kid[n][s] # t.kid[n][Opp(s)]

\* b is Below(t), and orders the keys: the three conjuncts at the end are what
\* an induction over the tree would show.
Spanned(t, b) ==
  /\ b \in [OrNull -> SUBSET Nodes] /\ b[Null] = {}
  /\ \A n \in Nodes : b[n] = {n} \cup b[t.kid[n]["left"]] \cup b[t.kid[n]["right"]]
  /\ b[t.root] = Placed(t)
  /\ \A n \in Nodes, s \in Side : \A m \in b[t.kid[n][s]] : Beyond(s, Key[m], Key[n])
  /\ \A n \in Nodes : \A m \in b[n] : b[m] \subseteq b[n]
  /\ \A n \in Nodes : \A m \in b[n] \ {n} : t.parent[m] \in b[n]
  /\ \A m, n \in Placed(t) : Key[m] = Key[n] => m = n

\* A tree whose links agree and whose keys are in order.
Grown(t, b) == t \in Trees /\ Joined(t) /\ Spanned(t, b)

\* Null is no node, and keys are numbers.
LEMMA KeyFacts == Null \notin Nodes /\ \A n \in Nodes : Key[n] \in Int
BY RbTreeAssumption

\* The two sides are each other's opposites.
LEMMA SideFacts ==
  /\ Side = {"left", "right"}
  /\ \A s \in Side : Opp(s) \in Side /\ Opp(s) # s /\ Opp(Opp(s)) = s
  /\ \A s, r \in Side : r = s \/ r = Opp(s)
BY DEF Side, Opp

\* Beyond is a strict order of the keys on either side.
LEMMA BeyondFacts ==
  ASSUME NEW s \in Side, NEW j \in Int, NEW k \in Int
  PROVE  /\ ~Beyond(s, j, j)
         /\ Beyond(s, j, k) <=> Beyond(Opp(s), k, j)
         /\ Beyond(s, j, k) => ~Beyond(Opp(s), j, k) /\ ~Beyond(s, k, j)
         /\ j # k => Beyond(s, j, k) \/ Beyond(Opp(s), j, k)
         /\ \A l \in Int : Beyond(s, j, k) /\ Beyond(s, k, l) => Beyond(s, j, l)
BY DEF Beyond, Side, Opp

\* A subtree is its top and two disjoint subtrees, named by any side.
LEMMA GrownSides ==
  ASSUME NEW t, NEW b, Grown(t, b), NEW n \in Nodes, NEW s \in Side
  PROVE  /\ b[n] = {n} \cup b[t.kid[n][s]] \cup b[t.kid[n][Opp(s)]]
         /\ n \notin b[t.kid[n][s]]
         /\ b[t.kid[n][s]] \cap b[t.kid[n][Opp(s)]] = {}
         /\ n \in b[n] /\ b[n] \subseteq Nodes /\ b[t.kid[n][s]] \subseteq b[n]
         /\ t.kid[n][s] \in OrNull /\ t.parent[n] \in OrNull
<1>1. /\ b[n] = {n} \cup b[t.kid[n][s]] \cup b[t.kid[n][Opp(s)]]
      /\ t.kid[n][s] \in OrNull /\ t.kid[n][Opp(s)] \in OrNull /\ t.parent[n] \in OrNull
  BY DEF Grown, Spanned, Trees, Side, Opp
<1>2. b[n] \subseteq Nodes
  BY DEF Grown, Spanned, OrNull
<1>3. n \notin b[t.kid[n][s]]
  BY KeyFacts, BeyondFacts DEF Grown, Spanned
<1>4. ASSUME NEW m \in b[t.kid[n][s]], m \in b[t.kid[n][Opp(s)]] PROVE FALSE
  <2>1. m \in Nodes /\ Beyond(s, Key[m], Key[n]) /\ Beyond(Opp(s), Key[m], Key[n])
    BY <1>1, <1>2, <1>4, SideFacts DEF Grown, Spanned
  <2> QED BY <2>1, KeyFacts, BeyondFacts
<1> QED BY <1>1, <1>2, <1>3, <1>4

\* The same, with names for the two children.
LEMMA GrownSplit ==
  ASSUME NEW t, NEW b, Grown(t, b), NEW n \in Nodes, NEW s \in Side,
         NEW x, NEW y, t.kid[n][s] = x, t.kid[n][Opp(s)] = y
  PROVE  /\ x \in OrNull /\ y \in OrNull /\ n \in b[n] /\ b[n] \subseteq Nodes
         /\ b[n] = {n} \cup b[x] \cup b[y]
         /\ n \notin b[x] /\ n \notin b[y] /\ b[x] \cap b[y] = {}
<1>1. Opp(s) \in Side /\ Opp(Opp(s)) = s
  BY SideFacts
<1>2. n \notin b[y] /\ y \in OrNull
  BY <1>1, GrownSides
<1> QED BY <1>2, GrownSides

\* A child knows its parent and is in the parent's subtree only.
LEMMA GrownKid ==
  ASSUME NEW t, NEW b, Grown(t, b), NEW n \in Nodes, NEW s \in Side,
         NEW c \in Nodes, t.kid[n][s] = c
  PROVE  /\ c \in Placed(t) /\ n \in Placed(t) /\ c # n /\ t.parent[c] = n
         /\ t.kid[n][Opp(s)] # c /\ c \in b[n] /\ n \notin b[c] /\ c # t.root
         /\ b[c] \subseteq b[n]
         /\ SideOf(t, c, n) = s
<1>1. c # Null /\ Null \notin Nodes
  BY KeyFacts
<1>2. t.parent[c] = n /\ n \in Placed(t) /\ t.kid[n][Opp(s)] # c
  BY <1>1 DEF Grown, Joined
<1>3. n \notin b[c] /\ c \in b[c] /\ c \in b[n] /\ b[c] \subseteq b[n]
  BY GrownSides
<1>4. c # n /\ c \in Placed(t) /\ c # t.root
  BY <1>1, <1>2, <1>3 DEF Placed, Grown, Joined
<1>5. SideOf(t, c, n) = s
  BY <1>2 DEF SideOf, Side, Opp
<1> QED BY <1>2, <1>3, <1>4, <1>5

\* A node in the tree is the root or the child of its parent.
LEMMA GrownParent ==
  ASSUME NEW t, NEW b, Grown(t, b), NEW n \in Placed(t)
  PROVE  /\ t.parent[n] = Null <=> n = t.root
         /\ n # t.root => LET p == t.parent[n]
                              s == SideOf(t, n, p)
                          IN  /\ p \in Placed(t) /\ s \in Side
                              /\ t.kid[p][s] = n /\ t.kid[p][Opp(s)] # n
<1>1. n \in Nodes /\ Null \notin Nodes
  BY KeyFacts DEF Placed
<1>2. CASE n = t.root
  BY <1>1, <1>2 DEF Grown, Joined
<1>3. CASE n # t.root
  <2>1. t.parent[n] \in Placed(t) /\ \E s \in Side : t.kid[t.parent[n]][s] = n
    BY <1>3 DEF Grown, Joined
  <2>2. PICK s \in Side : t.kid[t.parent[n]][s] = n
    BY <2>1
  <2>3. SideOf(t, n, t.parent[n]) = s /\ t.kid[t.parent[n]][Opp(s)] # n
    BY <1>1, <2>1, <2>2, GrownKid DEF Placed
  <2> QED BY <1>1, <1>3, <2>1, <2>2, <2>3 DEF Placed
<1> QED BY <1>2, <1>3

-----------------------------------------------------------------------------
(* The assignments to the fields *)

\* A child pointer gets a value.
PutKid(t, n, s, v) == [t EXCEPT !.kid[n][s] = v]

\* A parent pointer gets a value.
PutParent(t, n, p) == [t EXCEPT !.parent[n] = p]

\* What PutKid changes.
LEMMA PutKidFields ==
  ASSUME NEW t \in Trees, NEW n \in Nodes, NEW s \in Side, NEW v \in OrNull
  PROVE  LET g == PutKid(t, n, s, v) IN
         /\ g \in Trees /\ g.root = t.root /\ g.parent = t.parent /\ g.red = t.red
         /\ \A m \in Nodes, r \in Side :
              g.kid[m][r] = IF m = n /\ r = s THEN v ELSE t.kid[m][r]
BY DEF PutKid, Trees

\* What rb_set_parent changes, where the node may be null.
LEMMA SetParentFields ==
  ASSUME NEW t \in Trees, NEW n \in OrNull, NEW p \in OrNull
  PROVE  LET g == SetParent(t, n, p) IN
         /\ g \in Trees /\ g.root = t.root /\ g.kid = t.kid /\ g.red = t.red
         /\ \A m \in Nodes : g.parent[m] = IF m = n THEN p ELSE t.parent[m]
<1>1. CASE n = Null
  BY <1>1, KeyFacts DEF SetParent
<1>2. CASE n # Null
  BY <1>2 DEF SetParent, Trees, OrNull
<1> QED BY <1>1, <1>2

\* What PutParent changes.
LEMMA PutParentFields ==
  ASSUME NEW t \in Trees, NEW n \in Nodes, NEW p \in OrNull
  PROVE  LET g == PutParent(t, n, p) IN
         /\ g \in Trees /\ g.root = t.root /\ g.kid = t.kid /\ g.red = t.red
         /\ \A m \in Nodes : g.parent[m] = IF m = n THEN p ELSE t.parent[m]
BY DEF PutParent, Trees

\* What happens to the place of n below p, or to the root.
LEMMA HangFields ==
  ASSUME NEW t \in Trees, NEW p \in OrNull, NEW n, NEW new \in OrNull
  PROVE  LET g == Hang(t, p, n, new) IN
         /\ g \in Trees /\ g.parent = t.parent /\ g.red = t.red
         /\ g.root = IF p = Null THEN new ELSE t.root
         /\ \A m \in Nodes, r \in Side :
              g.kid[m][r] = IF m = p /\ SideOf(t, n, p) = r THEN new ELSE t.kid[m][r]
<1>1. CASE p = Null
  BY <1>1, KeyFacts DEF Hang, Trees
<1>2. CASE p # Null
  <2>1. p \in Nodes /\ SideOf(t, n, p) \in Side
    BY <1>2 DEF OrNull, SideOf, Side
  <2>2. Hang(t, p, n, new) = PutKid(t, p, SideOf(t, n, p), new)
    BY <1>2 DEF Hang, PutKid
  <2> QED BY <1>2, <2>1, <2>2, PutKidFields
<1> QED BY <1>1, <1>2

\* What rb_set_black and rb_set_red change.
LEMMA ColourFields ==
  ASSUME NEW t \in Trees, NEW B, NEW R, R \subseteq Nodes
  PROVE  LET g == Colour(t, B, R) IN
         /\ g \in Trees /\ g.root = t.root /\ g.parent = t.parent /\ g.kid = t.kid
         /\ g.red = (t.red \ B) \cup R
BY DEF Colour, Trees

-----------------------------------------------------------------------------
(* Rotations *)

\* The nodes that a rotation of n to the side s touches.
Turn(t, n, s, c, low, inner, outer, p) ==
  /\ n \in Nodes /\ s \in Side /\ c \in Nodes
  /\ t.kid[n][Opp(s)] = c /\ t.kid[n][s] = low
  /\ t.kid[c][s] = inner /\ t.kid[c][Opp(s)] = outer
  /\ t.parent[n] = p

\* Where the links of g lead if they are those of t after that rotation.
Turned(t, g, n, s, c, low, inner, outer, p) ==
  /\ g \in Trees /\ g.red = t.red
  /\ g.root = IF p = Null THEN c ELSE t.root
  /\ \A m \in Nodes : g.parent[m] = IF m = n THEN c ELSE IF m = c THEN p
                                    ELSE IF m = inner THEN n ELSE t.parent[m]
  /\ g.kid[n][s] = low /\ g.kid[n][Opp(s)] = inner
  /\ g.kid[c][s] = n /\ g.kid[c][Opp(s)] = outer
  /\ \A m \in Nodes \ {n, c}, r \in Side :
       g.kid[m][r] = IF t.kid[m][r] = n THEN c ELSE t.kid[m][r]

\* The nodes that a rotation touches are different, and so are their subtrees.
LEMMA TurnFacts ==
  ASSUME NEW t, NEW b, Grown(t, b),
         NEW n, NEW s, NEW c, NEW low, NEW inner, NEW outer, NEW p,
         Turn(t, n, s, c, low, inner, outer, p)
  PROVE  /\ c # n /\ n \in Placed(t) /\ c \in Placed(t)
         /\ t.parent[c] = n /\ c # t.root /\ c # p /\ n # p
         /\ p \in OrNull /\ low \in OrNull /\ inner \in OrNull /\ outer \in OrNull
         /\ inner # n /\ inner # c /\ outer # n /\ outer # c /\ low # n /\ low # c
         /\ b[n] = {n} \cup b[low] \cup b[c] /\ b[c] = {c} \cup b[inner] \cup b[outer]
         /\ b[n] \subseteq Nodes /\ n \notin b[low] /\ n \notin b[c] /\ c \notin b[low]
         /\ c \notin b[inner] /\ c \notin b[outer]
         /\ b[inner] \cap b[outer] = {} /\ b[c] \cap b[low] = {}
         /\ p # Null => p \in Placed(t) /\ n # t.root
         /\ p = Null => n = t.root
<1>1. /\ t \in Trees /\ Null \notin Nodes /\ Opp(s) \in Side /\ Opp(Opp(s)) = s
      /\ n \in Nodes /\ s \in Side /\ c \in Nodes
  BY KeyFacts, SideFacts DEF Grown, Turn
<1>2. /\ t.kid[n][Opp(s)] = c /\ t.kid[n][s] = low
      /\ t.kid[c][s] = inner /\ t.kid[c][Opp(s)] = outer /\ t.parent[n] = p
  BY DEF Turn
<1>3. /\ c # n /\ n \in Placed(t) /\ c \in Placed(t) /\ t.parent[c] = n
      /\ n \notin b[c] /\ c # t.root /\ low # c
  BY <1>1, <1>2, GrownKid
<1>4. /\ b[n] = {n} \cup b[low] \cup b[c] /\ n \notin b[low] /\ b[low] \cap b[c] = {}
      /\ b[n] \subseteq Nodes /\ low \in OrNull /\ n \in b[n]
  BY SMTT(30), <1>1, <1>2, GrownSplit
<1>5. /\ b[c] = {c} \cup b[inner] \cup b[outer] /\ c \notin b[inner] /\ c \notin b[outer]
      /\ b[inner] \cap b[outer] = {} /\ inner \in OrNull /\ outer \in OrNull /\ c \in b[c]
  <2>1. c \in Nodes /\ s \in Side /\ t.kid[c][s] = inner /\ t.kid[c][Opp(s)] = outer
    BY <1>1, <1>2
  <2> QED BY <2>1, GrownSplit
<1>6. p \in OrNull /\ n # p
  BY <1>1, <1>2, <1>3 DEF Trees, Placed
<1>7. ASSUME c = p PROVE FALSE
  <2>1. n # t.root
    BY <1>1, <1>2, <1>3, <1>7, GrownParent
  <2>2. SideOf(t, n, p) \in Side /\ t.kid[p][SideOf(t, n, p)] = n
    BY <1>2, <1>3, <2>1, GrownParent
  <2>3. n \in b[c]
    BY <1>1, <1>7, <2>2, GrownKid
  <2> QED BY <1>3, <2>3
<1>8. ASSUME NEW r \in Side, NEW m \in Nodes, t.kid[c][r] = m PROVE m # c /\ m # n
  <2>1. m # c /\ m \in b[c]
    BY <1>1, <1>8, GrownKid
  <2> QED BY <1>3, <2>1
<1>9. inner # n /\ inner # c /\ outer # n /\ outer # c
  BY <1>1, <1>2, <1>5, <1>8 DEF OrNull
<1>10. /\ p # Null => p \in Placed(t) /\ n # t.root
       /\ p = Null => n = t.root
  BY <1>2, <1>3, GrownParent
<1>11. low # n
  BY <1>1, <1>2, GrownKid
<1> QED
  BY <1>3, <1>4, <1>5, <1>6, <1>7, <1>9, <1>10, <1>11

\* __rb_rotate_left and __rb_rotate_right do what Turned says.
LEMMA RotateTurns ==
  ASSUME NEW t, NEW b, Grown(t, b),
         NEW n, NEW s, NEW c, NEW low, NEW inner, NEW outer, NEW p,
         Turn(t, n, s, c, low, inner, outer, p)
  PROVE  Turned(t, Rotate(t, n, s), n, s, c, low, inner, outer, p)
<1> DEFINE e == PutKid(t, n, Opp(s), inner)
           f == PutKid(e, c, s, n)
           h == SetParent(f, inner, n)
           g == Hang(h, p, n, c)
           q == PutParent(g, c, p)
           z == PutParent(q, n, c)
<1>0. /\ t \in Trees /\ n \in Nodes /\ s \in Side /\ Opp(s) \in Side /\ c \in Nodes
      /\ n \in OrNull /\ c \in OrNull
  BY SideFacts DEF Grown, Turn, OrNull
<1>1. /\ Null \notin Nodes /\ Opp(s) # s /\ \A r \in Side : r = s \/ r = Opp(s)
      /\ t.kid[n][Opp(s)] = c /\ t.kid[n][s] = low
      /\ t.kid[c][s] = inner /\ t.kid[c][Opp(s)] = outer /\ t.parent[n] = p
  BY KeyFacts, SideFacts DEF Turn
<1>2. Rotate(t, n, s) = z
  BY <1>1 DEF Rotate, PutKid, PutParent
<1>3. /\ c # n /\ n \in Placed(t) /\ c # p /\ n # p /\ p \in OrNull /\ inner \in OrNull
      /\ inner # n /\ inner # c
  BY TurnFacts
<1>4. \A m \in Nodes, r \in Side : t.kid[m][r] = n <=> p # Null /\ m = p /\ SideOf(t, n, p) = r
  <2>1. ASSUME NEW m \in Nodes, NEW r \in Side, t.kid[m][r] = n
        PROVE  p # Null /\ m = p /\ SideOf(t, n, p) = r
    <3>1. t.parent[n] = m /\ SideOf(t, n, m) = r
      BY <1>0, <2>1, GrownKid
    <3> QED BY <1>1, <3>1
  <2>2. p # Null => t.kid[p][SideOf(t, n, p)] = n
    BY <1>1, <1>3, GrownParent
  <2> QED BY <2>1, <2>2
<1>5. /\ e \in Trees /\ e.root = t.root /\ e.parent = t.parent /\ e.red = t.red
      /\ \A m \in Nodes, r \in Side :
           e.kid[m][r] = IF m = n /\ r = Opp(s) THEN inner ELSE t.kid[m][r]
  BY <1>0, <1>3, PutKidFields
<1> HIDE DEF e
<1>6. /\ f \in Trees /\ f.root = t.root /\ f.parent = t.parent /\ f.red = t.red
      /\ \A m \in Nodes, r \in Side :
           f.kid[m][r] = IF m = c /\ r = s THEN n ELSE e.kid[m][r]
  BY <1>0, <1>5, PutKidFields
<1> HIDE DEF f
<1>7. /\ h \in Trees /\ h.root = f.root /\ h.kid = f.kid /\ h.red = f.red
      /\ \A m \in Nodes : h.parent[m] = IF m = inner THEN n ELSE f.parent[m]
  <2>1. f \in Trees /\ inner \in OrNull /\ n \in OrNull
    BY <1>0, <1>3, <1>6
  <2> QED BY <2>1, SetParentFields
<1> HIDE DEF h
<1>8. p # Null => SideOf(h, n, p) = SideOf(t, n, p)
  <2> SUFFICES ASSUME p \in Nodes PROVE h.kid[p]["left"] = t.kid[p]["left"]
    BY <1>3 DEF SideOf, OrNull
  <2> QED BY <1>3, <1>5, <1>6, <1>7 DEF Side
<1>9. /\ g \in Trees /\ g.root = (IF p = Null THEN c ELSE h.root)
      /\ g.parent = h.parent /\ g.red = h.red
      /\ \A m \in Nodes, r \in Side :
           g.kid[m][r] = IF m = p /\ SideOf(h, n, p) = r THEN c ELSE h.kid[m][r]
  BY <1>0, <1>3, <1>7, HangFields
<1> HIDE DEF g
<1>10. /\ g.kid[n][s] = low /\ g.kid[n][Opp(s)] = inner
       /\ g.kid[c][s] = n /\ g.kid[c][Opp(s)] = outer
       /\ \A m \in Nodes \ {n, c}, r \in Side :
            g.kid[m][r] = IF t.kid[m][r] = n THEN c ELSE t.kid[m][r]
  BY SMTT(30), <1>0, <1>1, <1>3, <1>4, <1>5, <1>6, <1>7, <1>8, <1>9
<1>11. /\ q \in Trees /\ q.root = g.root /\ q.kid = g.kid /\ q.red = g.red
       /\ \A m \in Nodes : q.parent[m] = IF m = c THEN p ELSE g.parent[m]
  <2>1. g \in Trees /\ c \in Nodes /\ p \in OrNull
    BY <1>0, <1>3, <1>9
  <2> QED BY <2>1, PutParentFields
<1> HIDE DEF q
<1>12. /\ z \in Trees /\ z.root = q.root /\ z.kid = q.kid /\ z.red = q.red
       /\ \A m \in Nodes : z.parent[m] = IF m = n THEN c ELSE q.parent[m]
  BY <1>0, <1>11, PutParentFields
<1> HIDE DEF z
<1>13. \A m \in Nodes : z.parent[m] = IF m = n THEN c ELSE IF m = c THEN p
                                        ELSE IF m = inner THEN n ELSE t.parent[m]
  BY <1>3, <1>6, <1>7, <1>9, <1>11, <1>12
<1> QED
  BY <1>2, <1>5, <1>6, <1>7, <1>9, <1>10, <1>11, <1>12, <1>13 DEF Turned

\* The subtrees after the rotation.
TurnedSpan(b, n, c, low, inner) ==
  [b EXCEPT ![c] = b[n], ![n] = {n} \cup b[low] \cup b[inner]]

\* A rotation keeps the links in agreement and the keys in order; only the
\* subtrees of the two nodes that turn are other ones.
LEMMA TurnedGrown ==
  ASSUME NEW t, NEW b, Grown(t, b),
         NEW n, NEW s, NEW c, NEW low, NEW inner, NEW outer, NEW p,
         Turn(t, n, s, c, low, inner, outer, p),
         NEW g, Turned(t, g, n, s, c, low, inner, outer, p)
  PROVE  Placed(g) = Placed(t) /\ Grown(g, TurnedSpan(b, n, c, low, inner))
<1> DEFINE d == TurnedSpan(b, n, c, low, inner)
<1>1. /\ Null \notin Nodes /\ Opp(s) \in Side /\ Opp(s) # s /\ Opp(Opp(s)) = s
      /\ \A r \in Side : r = s \/ r = Opp(s)
      /\ n \in Nodes /\ s \in Side /\ c \in Nodes /\ n \in OrNull /\ c \in OrNull
      /\ t.kid[n][Opp(s)] = c /\ t.kid[n][s] = low
      /\ t.kid[c][s] = inner /\ t.kid[c][Opp(s)] = outer /\ t.parent[n] = p
  BY KeyFacts, SideFacts DEF Grown, Turn, OrNull
<1>2. /\ c # n /\ n \in Placed(t) /\ c \in Placed(t)
      /\ t.parent[c] = n /\ c # t.root /\ c # p /\ n # p
      /\ p \in OrNull /\ low \in OrNull /\ inner \in OrNull /\ outer \in OrNull
      /\ inner # n /\ inner # c /\ outer # n /\ outer # c /\ low # n /\ low # c
      /\ p # Null => p \in Placed(t) /\ n # t.root
      /\ p = Null => n = t.root
  BY TurnFacts
<1>3. /\ b[n] = {n} \cup b[low] \cup b[c] /\ b[c] = {c} \cup b[inner] \cup b[outer]
      /\ b[n] \subseteq Nodes /\ n \notin b[low] /\ n \notin b[c] /\ c \notin b[low]
      /\ c \notin b[inner] /\ c \notin b[outer]
      /\ b[inner] \cap b[outer] = {} /\ b[c] \cap b[low] = {}
  BY TurnFacts
<1>4. /\ g \in Trees /\ g.root = (IF p = Null THEN c ELSE t.root)
      /\ \A m \in Nodes : g.parent[m] = IF m = n THEN c ELSE IF m = c THEN p
                                        ELSE IF m = inner THEN n ELSE t.parent[m]
      /\ g.kid[n][s] = low /\ g.kid[n][Opp(s)] = inner
      /\ g.kid[c][s] = n /\ g.kid[c][Opp(s)] = outer
      /\ \A m \in Nodes \ {n, c}, r \in Side :
           g.kid[m][r] = IF t.kid[m][r] = n THEN c ELSE t.kid[m][r]
  BY DEF Turned
<1>5. /\ d \in [OrNull -> SUBSET Nodes] /\ d[Null] = {}
      /\ d[c] = b[n] /\ d[n] = {n} \cup b[low] \cup b[inner]
      /\ \A m \in OrNull \ {n, c} : d[m] = b[m]
  BY <1>1, <1>2, <1>3 DEF Grown, Spanned, TurnedSpan, OrNull
<1>6. ASSUME NEW m \in Nodes, NEW r \in Side, NEW x \in Nodes, t.kid[m][r] = x
      PROVE  t.parent[x] = m /\ x \in Placed(t) /\ m \in Placed(t) /\ t.kid[m][Opp(r)] # x
  BY <1>6, GrownKid
<1>7. inner \in Nodes => t.parent[inner] = c /\ inner \in Placed(t) /\ inner # outer
  BY SMTT(30), <1>1, <1>6
<1>8. low \in Nodes => t.parent[low] = n /\ low \in Placed(t)
  BY SMTT(30), <1>1, <1>6
<1>9. outer \in Nodes => t.parent[outer] = c /\ outer \in Placed(t)
  <2> SUFFICES ASSUME outer \in Nodes PROVE t.parent[outer] = c /\ outer \in Placed(t)
    OBVIOUS
  <2>1. c \in Nodes /\ Opp(s) \in Side /\ t.kid[c][Opp(s)] = outer
    BY <1>1
  <2> QED BY <1>6, <2>1
<1>10. ASSUME NEW m \in Nodes, m # n, m # c, NEW r \in Side, t.kid[m][r] # Null
       PROVE  /\ t.parent[t.kid[m][r]] = m /\ m \in Placed(t) /\ t.kid[m][Opp(r)] # t.kid[m][r]
              /\ t.kid[m][r] # c /\ t.kid[m][r] # low
              /\ t.kid[m][r] # inner /\ t.kid[m][r] # outer
              /\ t.kid[m][r] = n => m = p
  <2> DEFINE x == t.kid[m][r]
  <2>0. x \in Nodes
    BY <1>10 DEF Grown, Trees, OrNull
  <2>1. t.parent[x] = m /\ m \in Placed(t) /\ t.kid[m][Opp(r)] # x
    BY <1>6, <1>10, <2>0
  <2> HIDE DEF x
  <2>2. x # c /\ x # low /\ x # inner /\ x # outer /\ (x = n => m = p)
    BY <1>1, <1>2, <1>7, <1>8, <1>9, <1>10, <2>0, <2>1
  <2> QED BY <2>1, <2>2 DEF x
<1> HIDE DEF d
<1>11. Placed(g) = Placed(t)
  <2>1. \A m \in Nodes : g.parent[m] = m <=> t.parent[m] = m
    BY <1>2, <1>4, <1>7 DEF Placed
  <2> QED BY <2>1 DEF Placed
<1>12. Joined(g)
  <2>1. ASSUME NEW m \in Nodes, NEW r \in Side, NEW x \in Nodes, g.kid[m][r] = x
        PROVE  g.parent[x] = m /\ m \in Placed(g) /\ x # g.kid[m][Opp(r)]
    <3>1. CASE m = n /\ r = s
      <4>1. x = low /\ g.kid[m][Opp(r)] = inner
        BY <1>4, <2>1, <3>1
      <4>2. t.parent[x] = n /\ x # inner
        BY <1>2, <1>7, <1>8, <2>1, <4>1
      <4> QED BY <1>2, <1>4, <1>11, <3>1, <4>1, <4>2
    <3>2. CASE m = n /\ r = Opp(s)
      <4>1. x = inner /\ g.kid[m][Opp(r)] = low
        BY <1>1, <1>4, <2>1, <3>2
      <4>2. g.parent[x] = n /\ x # low
        BY <1>2, <1>4, <1>7, <1>8, <2>1, <4>1
      <4> QED BY <1>2, <1>11, <3>2, <4>1, <4>2
    <3>3. CASE m = c /\ r = s
      BY <1>1, <1>2, <1>4, <1>11, <2>1, <3>3
    <3>4. CASE m = c /\ r = Opp(s)
      BY <1>1, <1>2, <1>4, <1>7, <1>9, <1>11, <2>1, <3>4
    <3>5. CASE m # n /\ m # c
      <4>1. g.kid[m][r] = IF t.kid[m][r] = n THEN c ELSE t.kid[m][r]
        BY <1>4, <3>5
      <4>2. g.kid[m][Opp(r)] = IF t.kid[m][Opp(r)] = n THEN c ELSE t.kid[m][Opp(r)]
        BY <1>4, <3>5, SideFacts
      <4>3. CASE t.kid[m][r] = n
        <5>1. m = p /\ t.kid[m][Opp(r)] # n /\ m \in Placed(t)
          BY SMTT(30), <1>1, <1>10, <3>5, <4>3
        <5>2. t.kid[m][Opp(r)] # c
          <6>1. Opp(r) \in Side
            BY SideFacts
          <6> QED BY SMTT(30), <1>1, <1>10, <3>5, <6>1
        <5> QED BY <1>2, <1>4, <1>11, <2>1, <4>1, <4>2, <4>3, <5>1, <5>2
      <4>4. CASE t.kid[m][r] # n
        <5>1. /\ x # n /\ x # c /\ x # inner /\ t.parent[x] = m /\ m \in Placed(t)
              /\ t.kid[m][Opp(r)] # x
          <6>1. t.kid[m][r] = x
            BY <2>1, <4>1, <4>4
          <6>2. t.kid[m][r] # Null
            BY <1>1, <2>1, <6>1
          <6>3. /\ t.parent[x] = m /\ m \in Placed(t) /\ t.kid[m][Opp(r)] # x
                /\ x # c /\ x # inner
            BY <1>10, <3>5, <6>1, <6>2
          <6> QED BY <4>4, <6>1, <6>3
        <5> QED BY <1>4, <1>11, <4>2, <5>1
      <4> QED BY <4>3, <4>4
    <3> QED BY <1>1, <3>1, <3>2, <3>3, <3>4, <3>5
  <2>2. ASSUME NEW m \in Placed(g) \ {g.root}
        PROVE  g.parent[m] \in Placed(g) /\ \E r \in Side : g.kid[g.parent[m]][r] = m
    <3>0. m \in Nodes /\ m \in Placed(t)
      BY <1>11 DEF Placed
    <3>1. CASE m = n
      BY <1>1, <1>2, <1>4, <1>11, <3>1
    <3>2. CASE m = c
      <4>1. p # Null
        BY <1>4, <2>2, <3>2
      <4>2. /\ p \in Placed(t) /\ p \in Nodes /\ SideOf(t, n, p) \in Side
            /\ t.kid[p][SideOf(t, n, p)] = n
        BY <1>1, <1>2, <4>1, GrownParent DEF Placed
      <4>3. g.parent[m] = p /\ g.kid[p][SideOf(t, n, p)] = c
        BY <1>1, <1>2, <1>4, <3>2, <4>2
      <4> QED BY <1>11, <3>2, <4>2, <4>3
    <3>3. CASE m = inner
      BY <1>1, <1>2, <1>4, <1>11, <3>0, <3>3
    <3>4. CASE m # n /\ m # c /\ m # inner
      <4> DEFINE q == t.parent[m]
                 r == SideOf(t, m, q)
      <4>1. m # t.root
        BY <1>2, <1>4, <2>2, <3>4
      <4>2. q \in Placed(t) /\ q \in Nodes /\ r \in Side /\ t.kid[q][r] = m
        BY <3>0, <4>1, GrownParent DEF Placed
      <4>3. g.parent[m] = q
        BY <1>4, <3>0, <3>4
      <4> HIDE DEF q, r
      <4>4. CASE q = n
        BY <1>1, <1>4, <1>11, <3>4, <4>2, <4>3, <4>4
      <4>5. CASE q = c
        BY <1>1, <1>4, <1>11, <3>4, <4>2, <4>3, <4>5
      <4>6. CASE q # n /\ q # c
        <5>1. g.kid[q][r] = m
          BY <1>4, <3>4, <4>2, <4>6
        <5> QED BY <1>11, <4>2, <4>3, <5>1
      <4> QED BY <4>4, <4>5, <4>6
    <3> QED BY <3>1, <3>2, <3>3, <3>4
  <2>3. g.root # Null => g.parent[g.root] = Null
    <3>1. CASE p = Null
      BY <1>1, <1>2, <1>4, <3>1
    <3>2. CASE p # Null
      <4> SUFFICES ASSUME t.root \in Nodes PROVE g.parent[t.root] = Null
        BY <1>4, <3>2 DEF Grown, Trees, OrNull
      <4>1. t.parent[t.root] = Null /\ t.root # n /\ t.root # c
        BY <1>1, <1>2, <3>2 DEF Grown, Joined
      <4>2. t.root # inner
        BY <1>1, <1>7, <4>1
      <4> QED BY <1>4, <4>1, <4>2
    <3> QED BY <3>1, <3>2
  <2>4. \A m \in Nodes, r \in Side : g.kid[m][r] \in OrNull
    BY <1>4 DEF Trees
  <2> QED BY <2>1, <2>2, <2>3, <2>4 DEF Joined, OrNull
<1>13. ASSUME NEW m \in Nodes, m # n, m # c, NEW r \in Side
       PROVE  d[g.kid[m][r]] = b[t.kid[m][r]]
  <2>1. g.kid[m][r] = IF t.kid[m][r] = n THEN c ELSE t.kid[m][r]
    BY <1>4, <1>13
  <2>2. t.kid[m][r] \in OrNull /\ t.kid[m][r] # c
    <3>1. t.kid[m][r] \in OrNull
      BY DEF Grown, Trees
    <3>2. t.kid[m][r] # Null => t.kid[m][r] # c
      BY <1>10, <1>13
    <3> QED BY <1>1, <3>1, <3>2
  <2> QED BY <1>5, <2>1, <2>2
<1>14. Spanned(g, d)
  <2>0. /\ d[low] = b[low] /\ d[inner] = b[inner] /\ d[outer] = b[outer]
    BY <1>2, <1>5
  <2>1. ASSUME NEW m \in Nodes
        PROVE  d[m] = {m} \cup d[g.kid[m]["left"]] \cup d[g.kid[m]["right"]]
    <3>1. d[m] = {m} \cup d[g.kid[m][s]] \cup d[g.kid[m][Opp(s)]]
      <4>1. CASE m = n
        BY <1>4, <1>5, <2>0, <4>1
      <4>2. CASE m = c
        BY <1>3, <1>4, <1>5, <2>0, <4>2
      <4>3. CASE m # n /\ m # c
        <5>1. b[m] = {m} \cup b[t.kid[m][s]] \cup b[t.kid[m][Opp(s)]]
          BY <1>1, GrownSides
        <5>2. d[g.kid[m][s]] = b[t.kid[m][s]] /\ d[g.kid[m][Opp(s)]] = b[t.kid[m][Opp(s)]]
          BY <1>1, <1>13, <4>3
        <5>3. d[m] = b[m]
          BY <1>5, <4>3 DEF OrNull
        <5> QED BY <5>1, <5>2, <5>3
      <4> QED BY <4>1, <4>2, <4>3
    <3> QED BY <1>1, <3>1 DEF Side, Opp
  <2>2. d[g.root] = Placed(g)
    <3>1. CASE p = Null
      BY <1>2, <1>4, <1>5, <1>11, <3>1 DEF Grown, Spanned
    <3>2. CASE p # Null
      <4>1. t.root \in OrNull /\ t.root # n /\ t.root # c /\ g.root = t.root
        BY <1>2, <1>4, <3>2 DEF Grown, Trees
      <4>2. d[t.root] = b[t.root]
        BY <1>5, <4>1
      <4> QED BY <1>11, <4>1, <4>2 DEF Grown, Spanned
    <3> QED BY <3>1, <3>2
  <2>3. ASSUME NEW m \in Nodes, NEW r \in Side, NEW x \in b[t.kid[m][r]]
        PROVE  Beyond(r, Key[x], Key[m]) /\ x \in Nodes
    BY GrownSides DEF Grown, Spanned
  <2>4. ASSUME NEW m \in Nodes, NEW r \in Side, NEW x \in d[g.kid[m][r]]
        PROVE  Beyond(r, Key[x], Key[m])
    <3>1. CASE m = n /\ r = s
      BY <1>1, <1>4, <2>0, <2>3, <2>4, <3>1
    <3>2. CASE m = n /\ r = Opp(s)
      <4>1. x \in b[c]
        BY <1>3, <1>4, <2>0, <2>4, <3>2
      <4> QED BY <1>1, <2>3, <3>2, <4>1
    <3>3. CASE m = c /\ r = s
      <4>1. x \in {n} \cup b[low] \cup b[inner]
        BY <1>4, <1>5, <2>4, <3>3
      <4>2. Beyond(Opp(s), Key[c], Key[n])
        <5>1. c \in b[t.kid[n][Opp(s)]]
          BY <1>1, <1>3
        <5> QED BY <1>1, <2>3, <5>1
      <4>3. Beyond(s, Key[n], Key[c])
        BY <1>1, <4>2, KeyFacts, BeyondFacts
      <4>4. CASE x \in b[low]
        <5>1. Beyond(s, Key[x], Key[n]) /\ x \in Nodes
          BY <1>1, <2>3, <4>4
        <5> QED BY <1>1, <3>3, <4>3, <5>1, KeyFacts, BeyondFacts
      <4>5. CASE x \in b[inner]
        BY <1>1, <2>3, <3>3, <4>5
      <4> QED BY <3>3, <4>1, <4>3, <4>4, <4>5
    <3>4. CASE m = c /\ r = Opp(s)
      <4>1. x \in b[t.kid[c][Opp(s)]]
        BY <1>1, <1>4, <2>0, <2>4, <3>4
      <4> QED BY <1>1, <2>3, <3>4, <4>1
    <3>5. CASE m # n /\ m # c
      BY <1>13, <2>3, <2>4, <3>5
    <3> QED BY <1>1, <3>1, <3>2, <3>3, <3>4, <3>5
  <2>5. /\ \A m \in Nodes : b[m] \subseteq Nodes /\ m \in b[m]
        /\ \A m \in Nodes : \A x \in b[m] : b[x] \subseteq b[m]
        /\ \A m \in Nodes : \A x \in b[m] \ {m} : t.parent[x] \in b[m]
        /\ b[low] \cup b[inner] \subseteq Nodes /\ b[Null] = {}
    <3>1. /\ \A m \in Nodes : b[m] \subseteq Nodes /\ m \in b[m]
          /\ b[low] \cup b[inner] \subseteq Nodes
      BY <1>1, <1>3, GrownSides
    <3> QED BY <3>1 DEF Grown, Spanned
  <2>6. d[n] \subseteq b[n]
    BY <1>3, <1>5
  <2>7. ASSUME NEW m \in Nodes, m # c, c \in b[m] PROVE n \in b[m]
    BY <1>1, <1>2, <2>5, <2>7
  <2>8. ASSUME NEW m \in Nodes, NEW x \in d[m] PROVE d[x] \subseteq d[m] /\ x \in Nodes
    <3>0. x \in Nodes
      BY <1>5, <2>8 DEF OrNull
    <3>1. CASE m = n
      <4>1. x \in {n} \cup b[low] \cup b[inner] /\ d[m] = {n} \cup b[low] \cup b[inner]
        BY <1>5, <2>8, <3>1
      <4>2. x # n => x # c /\ d[x] = b[x]
        BY <1>3, <1>5, <3>0, <4>1 DEF OrNull
      <4>3. x \in b[low] => b[x] \subseteq b[low]
        BY <1>2, <2>5 DEF OrNull
      <4>4. x \in b[inner] => b[x] \subseteq b[inner]
        BY <1>2, <2>5 DEF OrNull
      <4> QED BY <3>0, <3>1, <4>1, <4>2, <4>3, <4>4
    <3>2. CASE m = c
      <4>1. x \in b[n] /\ d[m] = b[n]
        BY <1>5, <2>8, <3>2
      <4>2. x # n /\ x # c => d[x] = b[x]
        BY <1>5, <3>0 DEF OrNull
      <4> QED BY <1>1, <1>5, <2>5, <2>6, <3>0, <4>1, <4>2
    <3>3. CASE m # n /\ m # c
      <4>1. x \in b[m] /\ d[m] = b[m]
        BY <1>5, <2>8, <3>3 DEF OrNull
      <4>2. x # n /\ x # c => d[x] = b[x]
        BY <1>5, <3>0 DEF OrNull
      <4>3. n \in b[m] => b[n] \subseteq b[m]
        BY <2>5
      <4> QED BY <1>5, <2>5, <2>6, <2>7, <3>0, <3>3, <4>1, <4>2, <4>3
    <3> QED BY <3>1, <3>2, <3>3
  <2>9. ASSUME NEW m \in Nodes, NEW x \in d[m], x # m PROVE g.parent[x] \in d[m]
    <3>0. x \in Nodes
      BY <2>8, <2>9
    <3>1. CASE m = n
      <4>1. x \in b[low] \cup b[inner] /\ d[m] = {n} \cup b[low] \cup b[inner]
        BY <1>5, <2>9, <3>1
      <4>2. x # n /\ x # c
        BY <1>3, <2>9, <3>1, <4>1
      <4>3. x = inner => g.parent[x] = n
        BY <1>4, <3>0, <4>2
      <4>4. x # inner => g.parent[x] = t.parent[x]
        BY <1>4, <3>0, <4>2
      <4>5. x = low => t.parent[x] = n
        BY <1>8, <3>0
      <4>6. x \in b[low] /\ x # low => t.parent[x] \in b[low]
        BY <1>2, <2>5 DEF OrNull
      <4>7. x \in b[inner] /\ x # inner => t.parent[x] \in b[inner]
        BY <1>2, <2>5 DEF OrNull
      <4> QED BY <4>1, <4>3, <4>4, <4>5, <4>6, <4>7
    <3>2. CASE m = c
      <4>1. x \in b[n] /\ d[m] = b[n] /\ x # c
        BY <1>5, <2>9, <3>2
      <4>2. x = n => g.parent[x] = c
        BY <1>1, <1>4
      <4>3. x = inner => g.parent[x] = n
        BY <1>2, <1>4, <3>0
      <4>4. x # n /\ x # inner => g.parent[x] = t.parent[x]
        BY <1>4, <3>0, <4>1
      <4>5. x # n => t.parent[x] \in b[n]
        BY <1>1, <2>5, <4>1
      <4> QED BY <1>1, <1>3, <2>5, <4>1, <4>2, <4>3, <4>4, <4>5
    <3>3. CASE m # n /\ m # c
      <4>1. x \in b[m] /\ d[m] = b[m]
        BY <1>5, <2>9, <3>3 DEF OrNull
      <4>2. t.parent[x] \in b[m]
        BY <2>5, <2>9, <4>1
      <4>3. n \in b[m] => c \in b[m]
        BY <1>3, <2>5
      <4>4. n \in b[m] => p \in b[m]
        BY <1>1, <2>5, <3>3
      <4>5. CASE x = n
        BY <1>4, <3>0, <4>1, <4>3, <4>5
      <4>6. CASE x = c
        BY <1>2, <1>4, <3>0, <4>1, <4>2, <4>4, <4>6
      <4>7. CASE x = inner
        <5>1. g.parent[x] = n /\ t.parent[x] = c
          BY <1>2, <1>4, <1>7, <3>0, <4>7
        <5> QED BY <2>7, <3>3, <4>1, <4>2, <5>1
      <4>8. CASE x # n /\ x # c /\ x # inner
        BY <1>4, <3>0, <4>1, <4>2, <4>8
      <4> QED BY <4>5, <4>6, <4>7, <4>8
    <3> QED BY <3>1, <3>2, <3>3
  <2>10. \A m, x \in Placed(g) : Key[x] = Key[m] => x = m
    BY <1>11 DEF Grown, Spanned
  <2> QED BY <1>5, <2>1, <2>2, <2>4, <2>8, <2>9, <2>10 DEF Spanned
<1> QED BY <1>4, <1>11, <1>12, <1>14 DEF Grown, d

\* The same of Rotate, wherever it is called with a child to lift.
LEMMA RotateGrown ==
  ASSUME NEW t, NEW b, Grown(t, b), NEW n \in Nodes, NEW s \in Side, t.kid[n][Opp(s)] # Null
  PROVE  \E c \in Nodes, low, inner, outer, p \in OrNull : \E d :
           /\ Turn(t, n, s, c, low, inner, outer, p)
           /\ Turned(t, Rotate(t, n, s), n, s, c, low, inner, outer, p)
           /\ Placed(Rotate(t, n, s)) = Placed(t) /\ Grown(Rotate(t, n, s), d)
<1> DEFINE c == t.kid[n][Opp(s)]
           low == t.kid[n][s]
           inner == t.kid[c][s]
           outer == t.kid[c][Opp(s)]
           p == t.parent[n]
           d == TurnedSpan(b, n, c, low, inner)
<1>1. t \in Trees /\ Opp(s) \in Side
  BY SideFacts DEF Grown
<1>2. c \in Nodes /\ low \in OrNull /\ p \in OrNull
  BY <1>1 DEF Trees, OrNull
<1>3. inner \in OrNull /\ outer \in OrNull
  <2> HIDE DEF c
  <2> QED BY <1>1, <1>2 DEF Trees
<1>4. Turn(t, n, s, c, low, inner, outer, p)
  <2> HIDE DEF c
  <2>1. t.kid[n][Opp(s)] = c
    BY DEF c
  <2> QED BY <1>2, <2>1 DEF Turn
<1> HIDE DEF c, low, inner, outer, p
<1>5. Turned(t, Rotate(t, n, s), n, s, c, low, inner, outer, p)
  BY <1>4, RotateTurns
<1>6. Placed(Rotate(t, n, s)) = Placed(t) /\ Grown(Rotate(t, n, s), d)
  BY <1>4, <1>5, TurnedGrown
<1> HIDE DEF d
<1> QED BY <1>2, <1>3, <1>4, <1>5, <1>6

\* Colours do not matter to the links.
LEMMA ColourGrown ==
  ASSUME NEW t, NEW b, Grown(t, b), NEW B, NEW R, R \subseteq Nodes
  PROVE  /\ Placed(Colour(t, B, R)) = Placed(t) /\ Grown(Colour(t, B, R), b)
         /\ Colour(t, B, R).red = (t.red \ B) \cup R
<1> DEFINE g == Colour(t, B, R)
<1>1. /\ g \in Trees /\ g.root = t.root /\ g.parent = t.parent /\ g.kid = t.kid
      /\ g.red = (t.red \ B) \cup R
  BY ColourFields DEF Grown
<1> HIDE DEF g
<1>2. Placed(g) = Placed(t)
  BY <1>1 DEF Placed
<1>3. Joined(g)
  BY <1>1, <1>2 DEF Grown, Joined
<1>4. Spanned(g, b)
  BY <1>1, <1>2 DEF Grown, Spanned
<1> QED BY <1>1, <1>2, <1>3, <1>4 DEF Grown, g

\* A node outside of the tree has no children and is nobody's child.
LEMMA GrownMembers ==
  ASSUME NEW t, NEW b, Grown(t, b), NEW n \in Nodes
  PROVE  /\ n \in Placed(t) => b[n] \subseteq Placed(t)
         /\ n \notin Placed(t) => /\ \A s \in Side : t.kid[n][s] = Null
                                  /\ b[n] = {n} /\ n # t.root /\ t.parent[n] = n
         /\ Placed(t) \subseteq Nodes
         /\ Placed(t) # {} => t.root \in Placed(t)
<1>1. Placed(t) \subseteq Nodes /\ b[t.root] = Placed(t) /\ b[Null] = {} /\ t.root \in OrNull
  BY DEF Placed, Grown, Spanned, Trees
<1>2. t.root \in Nodes => t.root \in b[t.root]
  BY GrownSides, SideFacts
<1>3. Placed(t) # {} => t.root \in Placed(t)
  BY <1>1, <1>2 DEF OrNull
<1>4. n \in Placed(t) => b[n] \subseteq Placed(t)
  BY <1>1, <1>3 DEF Grown, Spanned
<1>5. ASSUME n \notin Placed(t)
      PROVE  /\ \A s \in Side : t.kid[n][s] = Null
             /\ b[n] = {n} /\ n # t.root /\ t.parent[n] = n
  <2>1. \A s \in Side : t.kid[n][s] = Null
    BY <1>5 DEF Grown, Joined
  <2>2. b[n] = {n}
    BY <1>1, <2>1 DEF Grown, Spanned, Side
  <2> QED BY <1>1, <1>2, <1>5, <2>1, <2>2 DEF Placed
<1> QED BY <1>1, <1>3, <1>4, <1>5

-----------------------------------------------------------------------------
(* A new leaf *)

\* The side of p that the key of n belongs to.
KeySide(n, p) == IF Key[n] < Key[p] THEN "left" ELSE "right"

\* What the descent for n has found out when it has passed p: n belongs below p,
\* and a node with the key of n can only be below the link.
Descended(t, b, n, p) ==
  /\ n \in Nodes \ Placed(t) /\ p \in Placed(t) \cup {Null}
  /\ \A m \in Nodes, r \in Side : p \in b[t.kid[m][r]] => Beyond(r, Key[n], Key[m])
  /\ \A m \in Placed(t) : Key[m] = Key[n] => m \in b[Link(t, n, p)]

\* Where the links of g lead if they are those of t after n became a leaf below p.
Leafed(t, g, n, p) ==
  /\ g \in Trees
  /\ g.root = IF p = Null THEN n ELSE t.root
  /\ \A m \in Nodes : g.parent[m] = IF m = n THEN p ELSE t.parent[m]
  /\ \A m \in Nodes, r \in Side :
       g.kid[m][r] = IF m = n THEN Null
                     ELSE IF m = p /\ r = KeySide(n, p) THEN n ELSE t.kid[m][r]
  /\ g.red = IF p = Null THEN t.red \ {n} ELSE t.red \cup {n}

\* What rb_init_node changes.
LEMMA InitNodeFields ==
  ASSUME NEW t \in Trees, NEW n \in Nodes
  PROVE  LET g == InitNode(t, n) IN
         /\ g \in Trees /\ g.root = t.root /\ g.red = t.red \cup {n}
         /\ \A m \in Nodes : g.parent[m] = IF m = n THEN n ELSE t.parent[m]
         /\ \A m \in Nodes, r \in Side : g.kid[m][r] = IF m = n THEN Null ELSE t.kid[m][r]
<1> DEFINE f == PutParent(t, n, n)
           k == PutKid(f, n, "left", Null)
           h == PutKid(k, n, "right", Null)
           g == Colour(h, {}, {n})
<1>1. /\ Null \in OrNull /\ n \in OrNull /\ "left" \in Side /\ "right" \in Side
      /\ \A r \in Side : r = "left" \/ r = "right"
  BY DEF OrNull, Side
<1>2. /\ f \in Trees /\ f.root = t.root /\ f.kid = t.kid /\ f.red = t.red
      /\ \A m \in Nodes : f.parent[m] = IF m = n THEN n ELSE t.parent[m]
  BY <1>1, PutParentFields
<1> HIDE DEF f
<1>3. /\ k \in Trees /\ k.root = f.root /\ k.parent = f.parent /\ k.red = f.red
      /\ \A m \in Nodes, r \in Side :
           k.kid[m][r] = IF m = n /\ r = "left" THEN Null ELSE f.kid[m][r]
  <2>1. f \in Trees /\ "left" \in Side /\ Null \in OrNull
    BY <1>1, <1>2
  <2> QED BY <2>1, PutKidFields
<1> HIDE DEF k
<1>4. /\ h \in Trees /\ h.root = k.root /\ h.parent = k.parent /\ h.red = k.red
      /\ \A m \in Nodes, r \in Side :
           h.kid[m][r] = IF m = n /\ r = "right" THEN Null ELSE k.kid[m][r]
  BY <1>1, <1>3, PutKidFields
<1> HIDE DEF h
<1>5. /\ g \in Trees /\ g.root = h.root /\ g.parent = h.parent /\ g.kid = h.kid
      /\ g.red = h.red \cup {n}
  BY <1>4, ColourFields
<1>6. InitNode(t, n) = g
  BY ZenonT(60) DEF InitNode, f, k, h, PutParent, PutKid, Colour
<1> HIDE DEF g
<1> QED BY <1>1, <1>2, <1>3, <1>4, <1>5, <1>6

\* rb_link_node and the initialisation before it do what Leafed says.
LEMMA LinkFields ==
  ASSUME NEW t \in Trees, NEW n \in Nodes, NEW p \in OrNull, p # n
  PROVE  Leafed(t, Linked(t, n, p), n, p)
<1> DEFINE i == InitNode(t, n)
           g == PutParent(i, n, p)
           w == KeySide(n, p)
<1>1. Null \notin Nodes /\ n \in OrNull /\ w \in Side
  BY KeyFacts DEF OrNull, KeySide, Side
<1>2. /\ i \in Trees /\ i.root = t.root /\ i.red = t.red \cup {n}
      /\ \A m \in Nodes : i.parent[m] = IF m = n THEN n ELSE t.parent[m]
      /\ \A m \in Nodes, r \in Side : i.kid[m][r] = IF m = n THEN Null ELSE t.kid[m][r]
  BY InitNodeFields
<1>3. Linked(t, n, p) = IF p = Null THEN [Colour(g, {n}, {}) EXCEPT !.root = n]
                                    ELSE PutKid(g, p, w, n)
  BY DEF Linked, rb_root_init, rb_link_node, PutKid, PutParent, KeySide
<1> HIDE DEF i, w
<1>4. /\ g \in Trees /\ g.root = i.root /\ g.kid = i.kid /\ g.red = i.red
      /\ \A m \in Nodes : g.parent[m] = IF m = n THEN p ELSE i.parent[m]
  BY <1>2, PutParentFields
<1> HIDE DEF g
<1>5. CASE p = Null
  <2> DEFINE h == Colour(g, {n}, {})
             k == [h EXCEPT !.root = n]
  <2>1. /\ h \in Trees /\ h.parent = g.parent /\ h.kid = g.kid /\ h.red = g.red \ {n}
    BY <1>4, ColourFields
  <2> HIDE DEF h
  <2>2. k \in Trees /\ k.root = n /\ k.parent = h.parent /\ k.kid = h.kid /\ k.red = h.red
    BY <1>1, <2>1 DEF Trees
  <2>3. Linked(t, n, p) = k
    BY <1>3, <1>5 DEF h
  <2> HIDE DEF k
  <2>4. k.red = t.red \ {n}
    BY <1>2, <1>4, <2>1, <2>2
  <2>5. \A m \in Nodes : k.parent[m] = IF m = n THEN p ELSE t.parent[m]
    BY <1>2, <1>4, <2>1, <2>2
  <2>6. \A m \in Nodes, r \in Side : k.kid[m][r] = IF m = n THEN Null ELSE t.kid[m][r]
    BY <1>2, <1>4, <2>1, <2>2
  <2> QED BY <1>1, <1>5, <2>2, <2>3, <2>4, <2>5, <2>6 DEF Leafed
<1>6. CASE p # Null
  <2> DEFINE k == PutKid(g, p, w, n)
  <2>1. p \in Nodes
    BY <1>6 DEF OrNull
  <2>2. /\ k \in Trees /\ k.root = g.root /\ k.parent = g.parent /\ k.red = g.red
        /\ \A m \in Nodes, r \in Side :
             k.kid[m][r] = IF m = p /\ r = w THEN n ELSE g.kid[m][r]
    <3>1. g \in Trees /\ p \in Nodes /\ w \in Side /\ n \in OrNull
      BY <1>1, <1>4, <2>1
    <3> QED BY <3>1, PutKidFields
  <2>3. Linked(t, n, p) = k
    BY <1>3, <1>6
  <2> HIDE DEF k
  <2>4. \A m \in Nodes : k.parent[m] = IF m = n THEN p ELSE t.parent[m]
    BY <1>2, <1>4, <2>2
  <2>5. \A m \in Nodes, r \in Side :
          k.kid[m][r] = IF m = n THEN Null ELSE IF m = p /\ r = w THEN n ELSE t.kid[m][r]
    BY <1>2, <1>4, <2>2
  <2> QED BY <1>2, <1>4, <1>6, <2>2, <2>3, <2>4, <2>5 DEF Leafed, w
<1> QED BY <1>5, <1>6

\* Linking a node where the descent has ended adds it to the tree in order.
LEMMA LeafedGrown ==
  ASSUME NEW t, NEW b, Grown(t, b), NEW n, NEW p, Descended(t, b, n, p),
         Link(t, n, p) = Null, NEW g, Leafed(t, g, n, p)
  PROVE  \E d : Placed(g) = Placed(t) \cup {n} /\ Grown(g, d)
<1> DEFINE d == [m \in OrNull |-> IF p \in b[m] THEN b[m] \cup {n} ELSE b[m]]
           w == KeySide(n, p)
<1>1. /\ Null \notin Nodes /\ n \in Nodes /\ n \notin Placed(t) /\ p # n
      /\ p \in Placed(t) \/ p = Null
      /\ Placed(t) \subseteq Nodes /\ w \in Side /\ b[Null] = {} /\ t \in Trees
      /\ b[t.root] = Placed(t)
  BY KeyFacts DEF Descended, Placed, KeySide, Side, Grown, Spanned
<1>2. /\ g \in Trees /\ g.root = (IF p = Null THEN n ELSE t.root)
      /\ \A m \in Nodes : g.parent[m] = IF m = n THEN p ELSE t.parent[m]
      /\ \A m \in Nodes, r \in Side :
           g.kid[m][r] = IF m = n THEN Null ELSE IF m = p /\ r = w THEN n ELSE t.kid[m][r]
  BY DEF Leafed
<1>3. /\ p = Null => t.root = Null
      /\ p # Null => t.kid[p][w] = Null
  BY DEF Link, KeySide
<1> HIDE DEF w
<1>4. \A m \in Placed(t) : Key[m] # Key[n]
  BY <1>1 DEF Descended
<1>5. /\ b[n] = {n} /\ n # t.root /\ t.parent[n] = n
      /\ \A r \in Side : t.kid[n][r] = Null
      /\ p # Null => t.root \in Placed(t)
  BY <1>1, GrownMembers
<1>6. \A m \in Nodes : m # n => n \notin b[m]
  <2> SUFFICES ASSUME NEW m \in Nodes, m # n PROVE n \notin b[m]
    OBVIOUS
  <2> QED BY <1>1, GrownMembers
<1>7. /\ \A m \in Nodes : b[m] \subseteq Nodes /\ m \in b[m]
      /\ \A m \in Nodes : \A x \in b[m] : b[x] \subseteq b[m]
      /\ \A m \in Nodes : \A x \in b[m] \ {m} : t.parent[x] \in b[m]
      /\ \A m \in Nodes, r \in Side : t.kid[m][r] \in OrNull
  <2>1. \A m \in Nodes : b[m] \subseteq Nodes /\ m \in b[m]
    BY GrownSides, SideFacts
  <2> QED BY <2>1 DEF Grown, Spanned, Trees
<1>8. /\ d \in [OrNull -> SUBSET Nodes] /\ d[Null] = {} /\ d[n] = {n}
      /\ \A m \in OrNull : d[m] = IF p \in b[m] THEN b[m] \cup {n} ELSE b[m]
  <2>1. \A m \in OrNull : b[m] \subseteq Nodes
    BY <1>1, <1>7 DEF OrNull
  <2>2. Null \in OrNull /\ n \in OrNull
    BY <1>1 DEF OrNull
  <2> QED BY <1>1, <1>5, <2>1, <2>2
<1> HIDE DEF d
<1>9. Placed(g) = Placed(t) \cup {n}
  BY <1>1, <1>2 DEF Placed
<1>10. Joined(g)
  <2>1. g.root # Null => g.parent[g.root] = Null
    <3>1. CASE p = Null
      BY <1>1, <1>2, <3>1
    <3>2. CASE p # Null
      BY <1>1, <1>2, <1>5, <3>2 DEF Grown, Joined
    <3> QED BY <3>1, <3>2
  <2>2. ASSUME NEW m \in Placed(g) \ {g.root}
        PROVE  g.parent[m] \in Placed(g) /\ \E r \in Side : g.kid[g.parent[m]][r] = m
    <3>1. p # Null
      BY <1>1, <1>2, <1>3, <1>9, <2>2
    <3>2. CASE m = n
      BY <1>1, <1>2, <1>9, <3>1, <3>2
    <3>3. CASE m # n
      <4>1. m \in Placed(t) \ {t.root} /\ m \in Nodes /\ g.parent[m] = t.parent[m]
        BY <1>1, <1>2, <1>9, <2>2, <3>1, <3>3
      <4>2. t.parent[m] \in Placed(t)
        BY <4>1 DEF Grown, Joined
      <4>3. PICK r \in Side : t.kid[t.parent[m]][r] = m
        BY <4>1 DEF Grown, Joined
      <4>4. g.kid[t.parent[m]][r] = m
        BY <1>1, <1>2, <1>3, <4>1, <4>2, <4>3
      <4> QED BY <1>9, <4>1, <4>2, <4>4
    <3> QED BY <3>2, <3>3
  <2>3. ASSUME NEW m \in Nodes, NEW r \in Side, g.kid[m][r] # Null
        PROVE  /\ g.parent[g.kid[m][r]] = m /\ m \in Placed(g)
               /\ g.kid[m][r] # g.kid[m][Opp(r)]
    <3>1. m # n
      BY <1>2, <2>3
    <3>2. \A q \in Side : t.kid[m][q] # Null => t.kid[m][q] # n
      <4>1. n \in Nodes /\ t.parent[n] # m
        BY <1>1, <1>5, <3>1
      <4> QED BY <4>1 DEF Grown, Joined
    <3>3. Opp(r) \in Side /\ Opp(r) # r
      BY SideFacts
    <3>4. CASE m = p /\ r = w
      BY <1>1, <1>2, <1>9, <3>1, <3>2, <3>3, <3>4
    <3>5. CASE ~(m = p /\ r = w)
      <4>1. g.kid[m][r] = t.kid[m][r] /\ t.kid[m][r] # n /\ t.kid[m][r] \in Nodes
        BY <1>1, <1>2, <1>7, <2>3, <3>1, <3>2, <3>5 DEF OrNull
      <4>2. t.parent[t.kid[m][r]] = m /\ m \in Placed(t) /\ t.kid[m][r] # t.kid[m][Opp(r)]
        BY <2>3, <4>1 DEF Grown, Joined
      <4>3. g.kid[m][Opp(r)] = n \/ g.kid[m][Opp(r)] = t.kid[m][Opp(r)]
        BY <1>2, <3>1, <3>3
      <4> QED BY <1>2, <1>9, <4>1, <4>2, <4>3
    <3> QED BY <3>4, <3>5
  <2> QED BY <2>1, <2>2, <2>3 DEF Joined
<1>11. Spanned(g, d)
  <2>1. ASSUME NEW m \in Nodes
        PROVE  d[m] = {m} \cup d[g.kid[m]["left"]] \cup d[g.kid[m]["right"]]
    <3>0. /\ b[m] = {m} \cup b[t.kid[m][w]] \cup b[t.kid[m][Opp(w)]]
          /\ m \notin b[t.kid[m][w]] /\ m \notin b[t.kid[m][Opp(w)]]
          /\ t.kid[m][w] \in OrNull /\ t.kid[m][Opp(w)] \in OrNull /\ m \in OrNull
      <4>1. Opp(w) \in Side
        BY <1>1, SideFacts
      <4> QED BY <1>1, <4>1, GrownSides DEF OrNull
    <3>1. d[m] = {m} \cup d[g.kid[m][w]] \cup d[g.kid[m][Opp(w)]]
      <4>0. Opp(w) \in Side /\ Opp(w) # w
        BY <1>1, SideFacts
      <4>1. CASE m = n
        BY <1>1, <1>2, <1>8, <4>0, <4>1
      <4>2. CASE m = p
        <5>1. g.kid[m][w] = n /\ g.kid[m][Opp(w)] = t.kid[m][Opp(w)] /\ t.kid[m][w] = Null
          BY <1>1, <1>2, <1>3, <4>0, <4>2
        <5> QED BY <1>1, <1>8, <3>0, <4>2, <5>1
      <4>3. CASE m # n /\ m # p
        <5>1. g.kid[m][w] = t.kid[m][w] /\ g.kid[m][Opp(w)] = t.kid[m][Opp(w)]
          BY <1>1, <1>2, <4>0, <4>3
        <5> QED BY <1>8, <3>0, <4>3, <5>1
      <4> QED BY <4>1, <4>2, <4>3
    <3> QED BY <1>1, <3>1 DEF Side, Opp
  <2>2. d[g.root] = Placed(g)
    <3>1. CASE p = Null
      BY <1>1, <1>2, <1>3, <1>8, <1>9, <3>1
    <3>2. CASE p # Null
      <4>1. t.root \in OrNull /\ g.root = t.root
        BY <1>1, <1>2, <3>2 DEF Trees
      <4> QED BY <1>1, <1>8, <1>9, <3>2, <4>1
    <3> QED BY <3>1, <3>2
  <2>3. ASSUME NEW m \in Nodes, NEW r \in Side, NEW x \in d[g.kid[m][r]]
        PROVE  Beyond(r, Key[x], Key[m])
    <3>1. m # n
      BY <1>2, <1>8, <2>3
    <3>2. CASE m = p /\ r = w
      <4>1. x = n /\ m \in Placed(t)
        BY <1>1, <1>2, <1>8, <2>3, <3>1, <3>2
      <4>2. Key[n] # Key[p] /\ Key[n] \in Int /\ Key[p] \in Int
        BY <1>1, <1>4, <3>2, <4>1, KeyFacts
      <4> QED BY <3>2, <4>1, <4>2 DEF Beyond, KeySide, w
    <3>3. CASE ~(m = p /\ r = w)
      <4>1. g.kid[m][r] = t.kid[m][r] /\ t.kid[m][r] \in OrNull
        BY <1>2, <1>7, <3>1, <3>3
      <4>2. x \in b[t.kid[m][r]] \/ (x = n /\ p \in b[t.kid[m][r]])
        BY <1>8, <2>3, <4>1
      <4> QED BY <4>2 DEF Grown, Spanned, Descended
    <3> QED BY <3>2, <3>3
  <2>4. ASSUME NEW m \in Nodes, NEW x \in d[m] PROVE d[x] \subseteq d[m]
    <3>1. m \in OrNull /\ x \in OrNull
      BY <1>8, <2>4 DEF OrNull
    <3>2. CASE x = n
      BY <1>8, <2>4, <3>2
    <3>3. CASE x # n
      <4>1. x \in b[m]
        BY <1>8, <2>4, <3>1, <3>3
      <4>2. b[x] \subseteq b[m]
        BY <1>7, <4>1
      <4> QED BY <1>8, <3>1, <4>2
    <3> QED BY <3>2, <3>3
  <2>5. ASSUME NEW m \in Nodes, NEW x \in d[m], x # m PROVE g.parent[x] \in d[m]
    <3>1. m \in OrNull /\ x \in Nodes
      BY <1>8, <2>5 DEF OrNull
    <3>2. CASE x = n
      BY <1>2, <1>6, <1>8, <2>5, <3>1, <3>2
    <3>3. CASE x # n
      <4>1. x \in b[m]
        BY <1>8, <2>5, <3>1, <3>3
      <4> QED BY <1>2, <1>7, <1>8, <2>5, <3>1, <3>3, <4>1
    <3> QED BY <3>2, <3>3
  <2>6. \A m, x \in Placed(g) : Key[x] = Key[m] => x = m
    BY <1>4, <1>9 DEF Grown, Spanned
  <2> QED BY <1>8, <2>1, <2>2, <2>3, <2>4, <2>5, <2>6 DEF Spanned
<1> QED BY <1>2, <1>9, <1>10, <1>11 DEF Grown

-----------------------------------------------------------------------------
(* A node leaves the tree, and its place to its only child *)

\* The child on the side s of n is all that hangs below n.
Loose(t, n, s, child, p) ==
  /\ n \in Placed(t) /\ s \in Side
  /\ t.kid[n][s] = child /\ t.kid[n][Opp(s)] = Null /\ t.parent[n] = p

\* Where the links of g lead if they are those of t after that.
Unlinked(t, g, n, child, p) ==
  /\ g \in Trees
  /\ g.root = IF p = Null THEN child ELSE t.root
  /\ \A m \in Nodes : g.parent[m] = IF m = n THEN n ELSE IF m = child THEN p ELSE t.parent[m]
  /\ \A m \in Nodes, r \in Side :
       g.kid[m][r] = IF m = n THEN Null ELSE IF t.kid[m][r] = n THEN child ELSE t.kid[m][r]
  /\ g.red = t.red \cup {n}

\* Only the parent has a link to n.
LEMMA OnlyLink ==
  ASSUME NEW t, NEW b, Grown(t, b), NEW n \in Placed(t), NEW p, t.parent[n] = p
  PROVE  \A m \in Nodes, r \in Side :
           t.kid[m][r] = n <=> p # Null /\ m = p /\ SideOf(t, n, p) = r
<1>0. n \in Nodes /\ Null \notin Nodes
  BY KeyFacts DEF Placed
<1>1. ASSUME NEW m \in Nodes, NEW r \in Side, t.kid[m][r] = n
      PROVE  p # Null /\ m = p /\ SideOf(t, n, p) = r
  <2>1. t.parent[n] = m /\ SideOf(t, n, m) = r
    BY <1>0, <1>1, GrownKid
  <2> QED BY <1>0, <2>1
<1>2. p # Null => t.kid[p][SideOf(t, n, p)] = n
  BY GrownParent
<1> QED BY <1>1, <1>2

\* A node with at most one child, that child and its parent are different.
LEMMA LooseFacts ==
  ASSUME NEW t, NEW b, Grown(t, b), NEW n, NEW s, NEW child, NEW p, Loose(t, n, s, child, p)
  PROVE  /\ n \in Nodes /\ child \in OrNull /\ p \in OrNull /\ child # n /\ p # n
         /\ b[n] = {n} \cup b[child] /\ n \notin b[child]
         /\ child \in Nodes => t.parent[child] = n /\ child \in Placed(t) /\ child # p
         /\ p # Null => p \in Placed(t) /\ p \in Nodes /\ n # t.root
         /\ p = Null => n = t.root
<1>1. /\ n \in Placed(t) /\ n \in Nodes /\ s \in Side /\ Null \notin Nodes
      /\ t.kid[n][s] = child /\ Null = t.kid[n][Opp(s)] /\ t.parent[n] = p
      /\ b[Null] = {} /\ t \in Trees
  BY KeyFacts DEF Loose, Placed, Grown, Spanned
<1>2. /\ child \in OrNull /\ b[n] = {n} \cup b[child] \cup b[Null] /\ n \notin b[child]
  BY <1>1, GrownSplit
<1>3. child \in Nodes => /\ t.parent[child] = n /\ child \in Placed(t) /\ child # n
                         /\ n \notin b[child]
  BY <1>1, GrownKid
<1>4. /\ p # Null => p \in Placed(t) /\ p \in Nodes /\ n # t.root
      /\ p = Null => n = t.root
      /\ p \in OrNull /\ p # n
  BY <1>1, GrownParent DEF Placed, Trees
<1>5. ASSUME child \in Nodes, child = p PROVE FALSE
  <2>1. SideOf(t, n, p) \in Side /\ t.kid[p][SideOf(t, n, p)] = n
    BY <1>1, <1>4, <1>5, GrownParent
  <2>2. n \in b[p]
    BY <1>1, <1>5, <2>1, GrownKid
  <2> QED BY <1>2, <1>5, <2>2
<1> QED BY <1>1, <1>2, <1>3, <1>4, <1>5

\* What rb_erase does with a node of at most one child is what Unlinked says.
LEMMA UnlinkFields ==
  ASSUME NEW t, NEW b, Grown(t, b), NEW n, NEW s, NEW child, NEW p, Loose(t, n, s, child, p)
  PROVE  Unlinked(t, InitNode(Unlink(t, n, child), n), n, child, p)
<1> DEFINE e == SetParent(t, child, p)
           f == Hang(e, p, n, child)
           g == InitNode(f, n)
<1>1. /\ t \in Trees /\ Null \notin Nodes /\ n \in Nodes /\ n \in Placed(t) /\ t.parent[n] = p
      /\ child \in OrNull /\ p \in OrNull /\ child # n /\ p # n
  BY KeyFacts, LooseFacts DEF Grown, Loose
<1>2. /\ e \in Trees /\ e.root = t.root /\ e.kid = t.kid /\ e.red = t.red
      /\ \A m \in Nodes : e.parent[m] = IF m = child THEN p ELSE t.parent[m]
  BY <1>1, SetParentFields
<1>3. SideOf(e, n, p) = SideOf(t, n, p)
  BY <1>2 DEF SideOf
<1>4. InitNode(Unlink(t, n, child), n) = g
  BY <1>1 DEF Unlink
<1> HIDE DEF e
<1>5. /\ f \in Trees /\ f.parent = e.parent /\ f.red = e.red
      /\ f.root = (IF p = Null THEN child ELSE e.root)
      /\ \A m \in Nodes, r \in Side :
           f.kid[m][r] = IF m = p /\ r = SideOf(e, n, p) THEN child ELSE e.kid[m][r]
  BY <1>1, <1>2, HangFields
<1> HIDE DEF f
<1>6. /\ g \in Trees /\ g.root = f.root /\ g.red = f.red \cup {n}
      /\ \A m \in Nodes : g.parent[m] = IF m = n THEN n ELSE f.parent[m]
      /\ \A m \in Nodes, r \in Side : g.kid[m][r] = IF m = n THEN Null ELSE f.kid[m][r]
  BY <1>1, <1>5, InitNodeFields
<1> HIDE DEF g
<1>7. \A m \in Nodes, r \in Side :
        t.kid[m][r] = n <=> p # Null /\ m = p /\ SideOf(t, n, p) = r
  BY <1>1, OnlyLink
<1>8. \A m \in Nodes, r \in Side :
        g.kid[m][r] = IF m = n THEN Null ELSE IF t.kid[m][r] = n THEN child ELSE t.kid[m][r]
  BY <1>1, <1>2, <1>3, <1>5, <1>6, <1>7
<1>9. \A m \in Nodes : g.parent[m] = IF m = n THEN n ELSE IF m = child THEN p ELSE t.parent[m]
  BY <1>2, <1>5, <1>6
<1> QED BY <1>2, <1>4, <1>5, <1>6, <1>8, <1>9 DEF Unlinked

\* Unlinking takes just that node out of every subtree.
LEMMA UnlinkedGrown ==
  ASSUME NEW t, NEW b, Grown(t, b), NEW n, NEW s, NEW child, NEW p, Loose(t, n, s, child, p),
         NEW g, Unlinked(t, g, n, child, p)
  PROVE  /\ Placed(g) = Placed(t) \ {n}
         /\ Grown(g, [m \in OrNull |-> IF m = n THEN {n} ELSE b[m] \ {n}])
<1> DEFINE d == [m \in OrNull |-> IF m = n THEN {n} ELSE b[m] \ {n}]
<1>1. /\ t \in Trees /\ Null \notin Nodes /\ n \in Nodes /\ n \in Placed(t) /\ t.parent[n] = p
      /\ child \in OrNull /\ p \in OrNull /\ child # n /\ p # n
      /\ p # Null => p \in Placed(t) /\ p \in Nodes /\ n # t.root
      /\ p = Null => n = t.root
      /\ child \in Nodes => t.parent[child] = n /\ child \in Placed(t) /\ child # p
  BY KeyFacts, LooseFacts DEF Grown, Loose
<1>2. b[n] = {n} \cup b[child] /\ n \notin b[child] /\ b[Null] = {}
  BY LooseFacts DEF Grown, Spanned
<1>3. /\ g \in Trees /\ g.root = (IF p = Null THEN child ELSE t.root)
      /\ \A m \in Nodes : g.parent[m] = IF m = n THEN n ELSE IF m = child THEN p ELSE t.parent[m]
      /\ \A m \in Nodes, r \in Side :
           g.kid[m][r] = IF m = n THEN Null ELSE IF t.kid[m][r] = n THEN child ELSE t.kid[m][r]
  BY DEF Unlinked
<1>4. /\ \A m \in Nodes : b[m] \subseteq Nodes /\ m \in b[m]
      /\ \A m \in Nodes : \A x \in b[m] : b[x] \subseteq b[m]
      /\ \A m \in Nodes : \A x \in b[m] \ {m} : t.parent[x] \in b[m]
      /\ \A m \in Nodes, r \in Side : t.kid[m][r] \in OrNull
  <2>1. \A m \in Nodes : b[m] \subseteq Nodes /\ m \in b[m]
    BY GrownSides, SideFacts
  <2> QED BY <2>1 DEF Grown, Spanned, Trees
<1>5. /\ d \in [OrNull -> SUBSET Nodes] /\ d[Null] = {} /\ d[n] = {n}
      /\ \A m \in OrNull : m # n => d[m] = b[m] \ {n}
  <2>1. \A m \in OrNull : b[m] \subseteq Nodes
    BY <1>2, <1>4 DEF OrNull
  <2>2. Null \in OrNull /\ n \in OrNull
    BY <1>1 DEF OrNull
  <2> QED BY <1>1, <1>2, <2>1, <2>2
<1> HIDE DEF d
<1>6. Placed(g) = Placed(t) \ {n}
  BY <1>1, <1>3 DEF Placed
<1>7. \A m \in Nodes, r \in Side :
        t.kid[m][r] # Null => /\ t.parent[t.kid[m][r]] = m /\ m \in Placed(t)
                              /\ t.kid[m][r] # t.kid[m][Opp(r)]
  BY DEF Grown, Joined
<1>8. Joined(g)
  <2>1. g.root # Null => g.parent[g.root] = Null
    <3>1. CASE p = Null
      BY <1>1, <1>3, <3>1 DEF OrNull
    <3>2. CASE p # Null
      <4>1. t.root # Null => t.root \in Nodes /\ t.parent[t.root] = Null /\ t.root # child
        BY <1>1 DEF Grown, Joined, Trees, OrNull
      <4> QED BY <1>1, <1>3, <3>2, <4>1 DEF Trees, OrNull
    <3> QED BY <3>1, <3>2
  <2>2. ASSUME NEW m \in Placed(g) \ {g.root}
        PROVE  g.parent[m] \in Placed(g) /\ \E r \in Side : g.kid[g.parent[m]][r] = m
    <3>0. m \in Nodes /\ m \in Placed(t) /\ m # n
      BY <1>6 DEF Placed
    <3>1. CASE m = child
      <4>1. p # Null
        BY <1>3, <2>2, <3>1
      <4>2. SideOf(t, n, p) \in Side /\ t.kid[p][SideOf(t, n, p)] = n
        BY <1>1, <4>1, GrownParent
      <4>3. g.kid[p][SideOf(t, n, p)] = m /\ g.parent[m] = p
        BY <1>1, <1>3, <3>0, <3>1, <4>1, <4>2
      <4> QED BY <1>1, <1>6, <4>1, <4>2, <4>3
    <3>2. CASE m # child
      <4>1. g.parent[m] = t.parent[m] /\ m # t.root
        BY <1>1, <1>3, <2>2, <3>0, <3>2
      <4>2. t.parent[m] \in Placed(t) /\ \E r \in Side : t.kid[t.parent[m]][r] = m
        BY <3>0, <4>1 DEF Grown, Joined
      <4>3. PICK r \in Side : t.kid[t.parent[m]][r] = m
        BY <4>2
      <4>4. t.parent[m] # n
        <5>1. t.kid[n][r] = child \/ t.kid[n][r] = Null
          BY <4>3 DEF Loose, Side, Opp
        <5> QED BY <1>1, <3>0, <3>2, <4>3, <5>1
      <4>5. t.parent[m] \in Nodes
        BY <4>2 DEF Placed
      <4>6. g.kid[t.parent[m]][r] = m
        BY <1>3, <3>0, <4>3, <4>4, <4>5
      <4> QED BY <1>6, <4>1, <4>2, <4>4, <4>6
    <3> QED BY <3>1, <3>2
  <2>3. ASSUME NEW m \in Nodes, NEW r \in Side, g.kid[m][r] # Null
        PROVE  /\ g.parent[g.kid[m][r]] = m /\ m \in Placed(g)
               /\ g.kid[m][r] # g.kid[m][Opp(r)]
    <3>1. m # n
      BY <1>3, <2>3
    <3>2. /\ g.kid[m][r] = IF t.kid[m][r] = n THEN child ELSE t.kid[m][r]
          /\ g.kid[m][Opp(r)] = IF t.kid[m][Opp(r)] = n THEN child ELSE t.kid[m][Opp(r)]
      BY <1>3, <3>1, SideFacts
    <3>3. t.kid[m][r] # Null
      BY <1>1, <2>3, <3>2
    <3>4. /\ t.parent[t.kid[m][r]] = m /\ m \in Placed(t) /\ t.kid[m][r] # t.kid[m][Opp(r)]
          /\ m \in Placed(g) /\ t.kid[m][r] \in Nodes
      BY <1>4, <1>6, <1>7, <3>1, <3>3 DEF OrNull
    <3>5. t.kid[m][Opp(r)] # Null => t.parent[t.kid[m][Opp(r)]] = m
      BY <1>7, SideFacts
    <3>6. CASE t.kid[m][r] = n
      <4>1. m = p /\ g.kid[m][r] = child /\ child \in Nodes
        BY <1>1, <2>3, <3>2, <3>4, <3>6 DEF OrNull
      <4>2. g.kid[m][Opp(r)] # child
        BY <1>1, <3>1, <3>2, <3>4, <3>5, <3>6, <4>1
      <4> QED BY <1>1, <1>3, <3>4, <4>1, <4>2
    <3>7. CASE t.kid[m][r] # n
      <4>1. g.kid[m][r] = t.kid[m][r] /\ t.kid[m][r] # child
        BY <1>1, <3>1, <3>2, <3>4, <3>7
      <4>2. g.parent[g.kid[m][r]] = m
        BY <1>3, <3>4, <3>7, <4>1
      <4> QED BY <3>2, <3>4, <4>1, <4>2
    <3> QED BY <3>6, <3>7
  <2> QED BY <2>1, <2>2, <2>3 DEF Joined
<1>9. ASSUME NEW m \in Nodes, m # n, NEW r \in Side
      PROVE  d[g.kid[m][r]] = b[t.kid[m][r]] \ {n}
  <2>1. g.kid[m][r] = IF t.kid[m][r] = n THEN child ELSE t.kid[m][r]
    BY <1>3, <1>9
  <2>2. t.kid[m][r] \in OrNull
    BY <1>4
  <2> QED BY <1>1, <1>2, <1>5, <2>1, <2>2
<1>10. Spanned(g, d)
  <2>1. ASSUME NEW m \in Nodes
        PROVE  d[m] = {m} \cup d[g.kid[m]["left"]] \cup d[g.kid[m]["right"]]
    <3>0. "left" \in Side /\ "right" \in Side /\ m \in OrNull
      BY DEF Side, OrNull
    <3>1. CASE m = n
      BY <1>3, <1>5, <3>0, <3>1
    <3>2. CASE m # n
      <4>1. b[m] = {m} \cup b[t.kid[m]["left"]] \cup b[t.kid[m]["right"]]
        BY DEF Grown, Spanned
      <4>2. /\ d[g.kid[m]["left"]] = b[t.kid[m]["left"]] \ {n}
            /\ d[g.kid[m]["right"]] = b[t.kid[m]["right"]] \ {n}
            /\ d[m] = b[m] \ {n}
        BY <1>5, <1>9, <3>0, <3>2
      <4> QED BY <3>2, <4>1, <4>2
    <3> QED BY <3>1, <3>2
  <2>2. d[g.root] = Placed(g)
    <3>0. b[t.root] = Placed(t) /\ t.root \in OrNull
      BY <1>1 DEF Grown, Spanned, Trees
    <3>1. CASE p = Null
      BY <1>1, <1>2, <1>3, <1>5, <1>6, <3>0, <3>1
    <3>2. CASE p # Null
      BY <1>1, <1>3, <1>5, <1>6, <3>0, <3>2
    <3> QED BY <3>1, <3>2
  <2>3. ASSUME NEW m \in Nodes, NEW r \in Side, NEW x \in d[g.kid[m][r]]
        PROVE  Beyond(r, Key[x], Key[m])
    <3>1. m # n
      BY <1>3, <1>5, <2>3
    <3>2. x \in b[t.kid[m][r]]
      BY <1>9, <2>3, <3>1
    <3> QED BY <3>2 DEF Grown, Spanned
  <2>4. ASSUME NEW m \in Nodes, NEW x \in d[m] PROVE d[x] \subseteq d[m]
    <3>1. m \in OrNull /\ x \in OrNull
      BY <1>5, <2>4 DEF OrNull
    <3> QED BY <1>4, <1>5, <2>4, <3>1
  <2>5. ASSUME NEW m \in Nodes, NEW x \in d[m], x # m PROVE g.parent[x] \in d[m]
    <3>1. m \in OrNull /\ x \in Nodes
      BY <1>5, <2>5 DEF OrNull
    <3>2. m # n /\ d[m] = b[m] \ {n} /\ x \in b[m] /\ x # n
      BY <1>5, <2>5, <3>1
    <3>3. t.parent[x] \in b[m]
      BY <1>4, <2>5, <3>2
    <3>4. CASE x = child
      <4>1. n \in b[m] /\ p \in b[m] /\ g.parent[x] = p
        BY <1>1, <1>3, <1>4, <3>1, <3>2, <3>3, <3>4
      <4> QED BY <1>1, <3>2, <4>1
    <3>5. CASE x # child
      <4>1. g.parent[x] = t.parent[x]
        BY <1>3, <3>1, <3>2, <3>5
      <4>2. t.parent[x] # n
        <5> SUFFICES ASSUME t.parent[x] = n PROVE FALSE
          OBVIOUS
        <5>1. x \in Placed(t) /\ x # t.root
          <6>1. x \in Placed(t)
            BY <3>1, <3>2, <1>1 DEF Placed
          <6>2. x = t.root => t.parent[x] = Null
            BY <3>1, <1>1 DEF Grown, Joined
          <6> QED BY <1>1, <6>1, <6>2
        <5>2. PICK r \in Side : t.kid[n][r] = x
          BY <5>1 DEF Grown, Joined
        <5>3. t.kid[n][r] = child \/ t.kid[n][r] = Null
          BY <5>2 DEF Loose, Side, Opp
        <5> QED BY <1>1, <3>1, <3>5, <5>2, <5>3
      <4> QED BY <3>2, <3>3, <4>1, <4>2
    <3> QED BY <3>4, <3>5
  <2>6. \A m, x \in Placed(g) : Key[x] = Key[m] => x = m
    BY <1>6 DEF Grown, Spanned
  <2> QED BY <1>5, <2>1, <2>2, <2>3, <2>4, <2>5, <2>6 DEF Spanned
<1> QED BY <1>3, <1>6, <1>8, <1>10 DEF Grown, d

-----------------------------------------------------------------------------
(* A node takes the place of another *)

\* n, in no tree, fits where o is: its key is beyond the keys above o, has the
\* keys below o on their sides, and is the key of no other node.
Fits(t, b, o, n) ==
  /\ o \in Placed(t) /\ n \in Nodes \ Placed(t)
  /\ \A m \in Nodes, r \in Side : o \in b[t.kid[m][r]] => Beyond(r, Key[n], Key[m])
  /\ \A r \in Side : \A m \in b[t.kid[o][r]] : Beyond(r, Key[m], Key[n])
  /\ \A m \in Placed(t) \ {o} : Key[m] # Key[n]

\* Where the links of g lead if they are those of t after n took the place of o.
Placing(t, g, o, n) ==
  /\ g \in Trees
  /\ g.root = IF t.parent[o] = Null THEN n ELSE t.root
  /\ \A m \in Nodes : g.parent[m] = IF m = n THEN t.parent[o] ELSE IF m = o THEN o
                                    ELSE IF t.parent[m] = o THEN n ELSE t.parent[m]
  /\ \A m \in Nodes, r \in Side :
       g.kid[m][r] = IF m = o THEN Null ELSE IF m = n THEN t.kid[o][r]
                     ELSE IF t.kid[m][r] = o THEN n ELSE t.kid[m][r]

\* A node that fits in the place of another one can take it, and has then
\* below it what was below that one.
LEMMA PlacedGrown ==
  ASSUME NEW t, NEW b, Grown(t, b), NEW o, NEW n, Fits(t, b, o, n), NEW g, Placing(t, g, o, n)
  PROVE  \E d : /\ Placed(g) = (Placed(t) \ {o}) \cup {n} /\ Grown(g, d)
                /\ b[o] \ {o} \subseteq d[n]
<1> DEFINE New(S) == IF o \in S THEN (S \ {o}) \cup {n} ELSE S
           d == [m \in OrNull |-> IF m = o THEN {o} ELSE IF m = n THEN New(b[o]) ELSE New(b[m])]
           p == t.parent[o]
<1>1. /\ t \in Trees /\ Null \notin Nodes /\ o \in Nodes /\ n \in Nodes /\ o \in Placed(t)
      /\ n \notin Placed(t) /\ o # n /\ Placed(t) \subseteq Nodes
      /\ b[Null] = {} /\ b[t.root] = Placed(t) /\ t.root \in OrNull
  BY KeyFacts DEF Grown, Fits, Placed, Spanned, Trees
<1>2. /\ g \in Trees /\ g.root = (IF p = Null THEN n ELSE t.root)
      /\ \A m \in Nodes : g.parent[m] = IF m = n THEN p ELSE IF m = o THEN o
                                        ELSE IF t.parent[m] = o THEN n ELSE t.parent[m]
      /\ \A m \in Nodes, r \in Side :
           g.kid[m][r] = IF m = o THEN Null ELSE IF m = n THEN t.kid[o][r]
                         ELSE IF t.kid[m][r] = o THEN n ELSE t.kid[m][r]
  BY DEF Placing
<1>3. /\ b[n] = {n} /\ n # t.root /\ t.parent[n] = n /\ \A r \in Side : t.kid[n][r] = Null
      /\ t.root \in Placed(t)
  BY <1>1, GrownMembers
<1>4. /\ p = Null <=> o = t.root
      /\ p # Null => p \in Placed(t) /\ SideOf(t, o, p) \in Side /\ t.kid[p][SideOf(t, o, p)] = o
  BY <1>1, GrownParent
<1>5. p # o /\ p # n /\ p \in OrNull
  BY <1>1, <1>4 DEF Placed, OrNull
<1>6. \A m \in Nodes : m # n => n \notin b[m]
  <2> SUFFICES ASSUME NEW m \in Nodes, m # n PROVE n \notin b[m]
    OBVIOUS
  <2> QED BY <1>1, GrownMembers
<1>7. /\ \A m \in Nodes : b[m] \subseteq Nodes /\ m \in b[m]
      /\ \A m \in Nodes : \A x \in b[m] : b[x] \subseteq b[m]
      /\ \A m \in Nodes : \A x \in b[m] \ {m} : t.parent[x] \in b[m]
      /\ \A m \in Nodes, r \in Side : t.kid[m][r] \in OrNull
  <2>1. \A m \in Nodes : b[m] \subseteq Nodes /\ m \in b[m]
    BY GrownSides, SideFacts
  <2> QED BY <2>1 DEF Grown, Spanned, Trees
<1>8. ASSUME NEW m \in Nodes, NEW r \in Side, t.kid[m][r] # Null
      PROVE  /\ t.parent[t.kid[m][r]] = m /\ m \in Placed(t)
             /\ t.kid[m][r] # t.kid[m][Opp(r)] /\ t.kid[m][r] # n /\ t.kid[m][r] \in Nodes
             /\ t.kid[m][r] # m
  <2>1. t.parent[t.kid[m][r]] = m /\ m \in Placed(t) /\ t.kid[m][r] # t.kid[m][Opp(r)]
    BY <1>8 DEF Grown, Joined
  <2>2. t.kid[m][r] \in Nodes
    BY <1>7, <1>8 DEF OrNull
  <2>3. t.kid[m][r] # n
    BY <1>1, <1>3, <2>1
  <2>4. t.kid[m][r] # m
    BY <2>2, GrownKid
  <2> QED BY <2>1, <2>2, <2>3, <2>4
<1>9. /\ d \in [OrNull -> SUBSET Nodes] /\ d[o] = {o} /\ d[n] = New(b[o])
      /\ \A m \in OrNull : m # o /\ m # n => d[m] = New(b[m])
      /\ d[Null] = {}
  <2>1. \A m \in OrNull : b[m] \subseteq Nodes
    BY <1>1, <1>7 DEF OrNull
  <2>2. Null \in OrNull /\ n \in OrNull /\ o \in OrNull /\ Null # o /\ Null # n
    BY <1>1 DEF OrNull
  <2>3. \A m \in OrNull : New(b[m]) \in SUBSET Nodes
    BY <1>1, <2>1
  <2>4. d \in [OrNull -> SUBSET Nodes]
    <3> HIDE DEF New
    <3> QED BY <1>1, <2>2, <2>3
  <2>5. d[o] = {o} /\ d[n] = New(b[o]) /\ \A m \in OrNull : m # o /\ m # n => d[m] = New(b[m])
    <3> HIDE DEF New
    <3> QED BY <1>1, <2>2
  <2>6. d[Null] = {}
    <3>1. d[Null] = New(b[Null])
      BY <2>2, <2>5
    <3> HIDE DEF d
    <3> QED BY <1>1, <3>1
  <2> QED BY <2>4, <2>5, <2>6
<1> HIDE DEF d, p
<1>10. Placed(g) = (Placed(t) \ {o}) \cup {n}
  <2>1. \A m \in Nodes : m # n /\ m # o => (g.parent[m] = m <=> t.parent[m] = m)
    BY <1>1, <1>2
  <2>2. g.parent[n] # n /\ g.parent[o] = o
    BY <1>1, <1>2, <1>5
  <2> QED BY <1>1, <2>1, <2>2 DEF Placed
<1>11. Joined(g)
  <2>1. g.root # Null => g.parent[g.root] = Null
    <3>1. CASE p = Null
      BY <1>1, <1>2, <3>1
    <3>2. CASE p # Null
      <4>1. t.root \in Nodes /\ t.parent[t.root] = Null /\ t.root # o /\ t.root # n
        BY <1>1, <1>3, <1>4, <3>2 DEF Grown, Joined
      <4> QED BY <1>1, <1>2, <3>2, <4>1
    <3> QED BY <3>1, <3>2
  <2>2. ASSUME NEW m \in Placed(g) \ {g.root}
        PROVE  g.parent[m] \in Placed(g) /\ \E r \in Side : g.kid[g.parent[m]][r] = m
    <3>0. m \in Nodes
      BY DEF Placed
    <3>1. CASE m = n
      <4>1. p # Null
        BY <1>2, <2>2, <3>1
      <4>2. p \in Nodes /\ g.kid[p][SideOf(t, o, p)] = n
        BY <1>1, <1>2, <1>4, <1>5, <4>1
      <4> QED BY <1>2, <1>4, <1>5, <1>10, <3>0, <3>1, <4>1, <4>2
    <3>2. CASE m # n
      <4>1. m \in Placed(t) /\ m # o /\ m # t.root
        BY <1>2, <1>4, <1>10, <2>2, <3>2
      <4>2. t.parent[m] \in Placed(t) /\ \E r \in Side : t.kid[t.parent[m]][r] = m
        BY <4>1 DEF Grown, Joined
      <4>3. PICK r \in Side : t.kid[t.parent[m]][r] = m
        BY <4>2
      <4>4. CASE t.parent[m] = o
        <5>1. g.parent[m] = n /\ g.kid[n][r] = m
          BY <1>1, <1>2, <3>0, <3>2, <4>1, <4>3, <4>4
        <5> QED BY <1>10, <5>1
      <4>5. CASE t.parent[m] # o
        <5>1. t.parent[m] # n /\ t.parent[m] \in Nodes
          BY <1>1, <4>2
        <5>2. g.parent[m] = t.parent[m] /\ g.kid[t.parent[m]][r] = m
          BY <1>2, <3>0, <3>2, <4>1, <4>3, <4>5, <5>1
        <5> QED BY <1>10, <4>2, <4>5, <5>2
      <4> QED BY <4>4, <4>5
    <3> QED BY <3>1, <3>2
  <2>3. ASSUME NEW m \in Nodes, NEW r \in Side, g.kid[m][r] # Null
        PROVE  /\ g.parent[g.kid[m][r]] = m /\ m \in Placed(g)
               /\ g.kid[m][r] # g.kid[m][Opp(r)]
    <3>0. m # o /\ Opp(r) \in Side
      BY <1>2, <2>3, SideFacts
    <3>1. CASE m = n
      <4>1. g.kid[m][r] = t.kid[o][r] /\ g.kid[m][Opp(r)] = t.kid[o][Opp(r)]
        BY <1>1, <1>2, <3>0, <3>1
      <4>2. t.kid[o][r] # Null
        BY <2>3, <4>1
      <4>3. /\ t.parent[t.kid[o][r]] = o /\ t.kid[o][r] # t.kid[o][Opp(r)]
            /\ t.kid[o][r] # n /\ t.kid[o][r] \in Nodes /\ t.kid[o][r] # o
        BY <1>1, <1>8, <4>2
      <4>4. g.parent[t.kid[o][r]] = n
        BY <1>2, <4>3
      <4> QED BY <1>10, <3>1, <4>1, <4>3, <4>4
    <3>2. CASE m # n
      <4>1. /\ g.kid[m][r] = IF t.kid[m][r] = o THEN n ELSE t.kid[m][r]
            /\ g.kid[m][Opp(r)] = IF t.kid[m][Opp(r)] = o THEN n ELSE t.kid[m][Opp(r)]
        BY <1>2, <3>0, <3>2
      <4>2. t.kid[m][r] # Null
        BY <1>1, <2>3, <4>1
      <4>3. /\ t.parent[t.kid[m][r]] = m /\ m \in Placed(t)
            /\ t.kid[m][r] # t.kid[m][Opp(r)] /\ t.kid[m][r] # n /\ t.kid[m][r] \in Nodes
        BY <1>8, <4>2
      <4>4. t.kid[m][Opp(r)] # n
        BY <1>1, <1>8, <3>0
      <4>5. g.kid[m][r] # g.kid[m][Opp(r)]
        BY <4>1, <4>3, <4>4
      <4>6. g.parent[g.kid[m][r]] = m
        <5>1. CASE t.kid[m][r] = o
          BY <1>1, <1>2, <4>1, <4>3, <5>1 DEF p
        <5>2. CASE t.kid[m][r] # o
          BY <1>2, <3>0, <4>1, <4>3, <5>2
        <5> QED BY <5>1, <5>2
      <4> QED BY <1>10, <3>0, <4>3, <4>5, <4>6
    <3> QED BY <3>1, <3>2
  <2> QED BY <2>1, <2>2, <2>3 DEF Joined
<1>12. ASSUME NEW m \in Nodes, m # o, m # n, NEW r \in Side
       PROVE  d[g.kid[m][r]] = New(b[t.kid[m][r]])
  <2>1. g.kid[m][r] = IF t.kid[m][r] = o THEN n ELSE t.kid[m][r]
    BY <1>2, <1>12
  <2>2. t.kid[m][r] \in OrNull /\ t.kid[m][r] # n
    BY <1>1, <1>7, <1>8
  <2> HIDE DEF New
  <2> QED BY <1>9, <2>1, <2>2
<1>13. ASSUME NEW r \in Side
       PROVE  d[g.kid[n][r]] = b[t.kid[o][r]] /\ o \notin b[t.kid[o][r]]
  <2>1. g.kid[n][r] = t.kid[o][r]
    BY <1>1, <1>2
  <2>2. t.kid[o][r] \in OrNull /\ t.kid[o][r] # n /\ t.kid[o][r] # o
    BY <1>1, <1>7, <1>8
  <2>3. d[t.kid[o][r]] = New(b[t.kid[o][r]])
    <3> HIDE DEF New
    <3> QED BY <1>9, <2>2
  <2>4. o \notin b[t.kid[o][r]]
    BY <1>1, GrownSides
  <2> QED BY <2>1, <2>3, <2>4
<1>14. ASSUME NEW S, NEW T, S \subseteq T PROVE New(S) \subseteq New(T)
  BY <1>14
<1>15. ASSUME NEW m \in Nodes, m # o
       PROVE  \E q \in Nodes : d[m] = New(b[q]) /\ (m = n => q = o) /\ (m # n => q = m)
  <2> HIDE DEF New
  <2>1. m \in OrNull
    BY DEF OrNull
  <2>2. CASE m = n
    BY <1>1, <1>9, <2>2
  <2>3. CASE m # n
    BY <1>9, <1>15, <2>1, <2>3
  <2> QED BY <2>2, <2>3
<1>16. Spanned(g, d)
  <2>1. ASSUME NEW m \in Nodes
        PROVE  d[m] = {m} \cup d[g.kid[m]["left"]] \cup d[g.kid[m]["right"]]
    <3> DEFINE L(k, x) == k.kid[x]["left"]
               R(k, x) == k.kid[x]["right"]
    <3>0. /\ "left" \in Side /\ "right" \in Side /\ Opp("left") = "right" /\ m \in OrNull
      BY DEF Side, Opp, OrNull
    <3>1. CASE m = o
      BY <1>2, <1>9, <3>0, <3>1
    <3>2. CASE m = n
      <4>1. b[o] = {o} \cup b[L(t, o)] \cup b[R(t, o)]
        BY <1>1 DEF Grown, Spanned
      <4>2. /\ d[L(g, n)] = b[L(t, o)] /\ o \notin b[L(t, o)]
            /\ d[R(g, n)] = b[R(t, o)] /\ o \notin b[R(t, o)]
        BY <1>13, <3>0
      <4>3. d[n] = (b[o] \ {o}) \cup {n}
        BY <1>1, <1>7, <1>9
      <4> HIDE DEF L, R
      <4>4. d[n] = {n} \cup d[L(g, n)] \cup d[R(g, n)]
        BY <4>1, <4>2, <4>3
      <4> QED BY <3>2, <4>4 DEF L, R
    <3>3. CASE m # o /\ m # n
      <4> DEFINE x == t.kid[m]["left"]
                 y == t.kid[m]["right"]
      <4>1. b[m] = {m} \cup b[x] \cup b[y] /\ b[x] \cap b[y] = {}
        BY <3>0, GrownSplit
      <4>2. /\ d[g.kid[m]["left"]] = New(b[x]) /\ d[g.kid[m]["right"]] = New(b[y])
            /\ d[m] = New(b[m])
        <5> HIDE DEF New
        <5> QED BY <1>9, <1>12, <3>0, <3>3
      <4> HIDE DEF x, y
      <4>3. New(b[m]) = {m} \cup New(b[x]) \cup New(b[y])
        BY <3>3, <4>1
      <4> QED BY <4>2, <4>3
    <3> QED BY <3>1, <3>2, <3>3
  <2>2. d[g.root] = Placed(g)
    <3>1. CASE p = Null
      BY <1>1, <1>2, <1>4, <1>9, <1>10, <3>1
    <3>2. CASE p # Null
      <4>1. d[t.root] = New(b[t.root]) /\ g.root = t.root
        BY <1>1, <1>2, <1>3, <1>4, <1>9, <3>2
      <4> QED BY <1>1, <1>10, <4>1
    <3> QED BY <3>1, <3>2
  <2>3. ASSUME NEW m \in Nodes, NEW r \in Side, NEW x \in d[g.kid[m][r]]
        PROVE  Beyond(r, Key[x], Key[m])
    <3>1. m # o
      BY <1>2, <1>9, <2>3
    <3>2. CASE m = n
      BY <1>13, <2>3, <3>2 DEF Fits
    <3>3. CASE m # n
      <4>1. x \in New(b[t.kid[m][r]])
        BY <1>12, <2>3, <3>1, <3>3
      <4>2. x \in b[t.kid[m][r]] \/ (x = n /\ o \in b[t.kid[m][r]])
        BY <4>1
      <4> QED BY <4>2 DEF Fits, Grown, Spanned
    <3> QED BY <3>2, <3>3
  <2>4. ASSUME NEW m \in Nodes, NEW x \in d[m] PROVE d[x] \subseteq d[m]
    <3>0. x \in Nodes
      BY <1>9, <2>4 DEF OrNull
    <3>1. CASE m = o
      BY <1>9, <2>4, <3>1
    <3>2. CASE m # o
      <4>1. PICK q \in Nodes : d[m] = New(b[q]) /\ (m = n => q = o) /\ (m # n => q = m)
        BY <1>15, <3>2
      <4>2. x # o /\ (x \in b[q] \/ (x = n /\ o \in b[q]))
        BY <1>1, <2>4, <4>1
      <4>3. PICK z \in Nodes : d[x] = New(b[z]) /\ (x = n => z = o) /\ (x # n => z = x)
        BY <1>15, <3>0, <4>2
      <4>4. z \in b[q]
        <5>1. CASE x = n /\ o \in b[q]
          BY <4>3, <5>1
        <5>2. CASE x \in b[q] /\ x # n
          BY <4>3, <5>2
        <5>3. CASE x \in b[q] /\ x = n
          <6>1. q # n
            BY <1>1, <4>1
          <6> QED BY <1>6, <5>3, <6>1
        <5> QED BY <4>2, <5>1, <5>2, <5>3
      <4>5. b[z] \subseteq b[q]
        BY <1>7, <4>4
      <4>6. New(b[z]) \subseteq New(b[q])
        BY <1>14, <4>5
      <4> QED BY <4>1, <4>3, <4>6
    <3> QED BY <3>1, <3>2
  <2>5. ASSUME NEW m \in Nodes, NEW x \in d[m], x # m PROVE g.parent[x] \in d[m]
    <3>0. x \in Nodes /\ m # o
      BY <1>9, <2>5 DEF OrNull
    <3>1. PICK q \in Nodes : d[m] = New(b[q]) /\ (m = n => q = o) /\ (m # n => q = m)
      BY <1>15, <3>0
    <3>2. q # n /\ n \notin b[q]
      BY <1>1, <1>6, <3>1
    <3>3. CASE x = n
      <4>1. o \in b[q] /\ q # o
        BY <2>5, <3>0, <3>1, <3>2, <3>3
      <4>2. p \in b[q]
        BY <1>7, <4>1 DEF p
      <4> QED BY <1>1, <1>2, <1>5, <3>1, <3>3, <4>1, <4>2
    <3>4. CASE x # n
      <4>1. x \in b[q] /\ x # o
        BY <2>5, <3>1, <3>4
      <4>2. x # q
        BY <2>5, <3>1, <4>1
      <4>3. t.parent[x] \in b[q]
        BY <1>7, <4>1, <4>2
      <4>4. g.parent[x] = IF t.parent[x] = o THEN n ELSE t.parent[x]
        BY <1>2, <3>0, <3>4, <4>1
      <4> QED BY <3>1, <4>3, <4>4
    <3> QED BY <3>3, <3>4
  <2>6. \A m, x \in Placed(g) : Key[x] = Key[m] => x = m
    BY <1>10 DEF Grown, Spanned, Fits
  <2> QED BY <1>9, <2>1, <2>2, <2>3, <2>4, <2>5, <2>6 DEF Spanned
<1>17. b[o] \ {o} \subseteq d[n]
  BY <1>9
<1> QED BY <1>2, <1>10, <1>11, <1>16, <1>17 DEF Grown

\* The colours after n took the place and the colour of o.
Recoloured(R, o, n) == ((R \ {n}) \cup (IF o \in R THEN {n} ELSE {})) \cup {o}

\* rb_replace_node does what Placing says.
LEMMA ReplaceFields ==
  ASSUME NEW t, NEW b, Grown(t, b), NEW o \in Placed(t), NEW n \in Nodes \ Placed(t),
         NEW g, g = InitNode(Replaced(t, o, n), o)
  PROVE  Placing(t, g, o, n) /\ g.red = Recoloured(t.red, o, n)
<1> DEFINE p == t.parent[o]
           low == t.kid[o]["left"]
           high == t.kid[o]["right"]
           reds == IF o \in t.red THEN {n} ELSE {}
           a == Hang(t, p, o, n)
           e == SetParent(a, low, n)
           f == SetParent(e, high, n)
           c == Colour(f, {n}, reds)
           h == PutParent(c, n, p)
           i == PutKid(h, n, "left", low)
           j == PutKid(i, n, "right", high)
<1>1. /\ t \in Trees /\ Null \notin Nodes /\ o \in Nodes /\ n \in Nodes /\ n # o /\ n \in OrNull
      /\ p \in OrNull /\ reds \subseteq Nodes
  BY KeyFacts DEF Grown, Placed, Trees, OrNull
<1>2. /\ low \in OrNull /\ high \in OrNull /\ "left" \in Side /\ "right" \in Side
      /\ \A r \in Side : r = "left" \/ r = "right"
  BY <1>1 DEF Trees, Side
<1>3. Replaced(t, o, n) = j
  BY DEF Replaced, PutKid, PutParent
<1>4. \A m \in Nodes, r \in Side :
        t.kid[m][r] = o <=> p # Null /\ m = p /\ SideOf(t, o, p) = r
  BY OnlyLink
<1>5. low # n /\ high # n /\ p # n
  <2>1. low # n
    BY <1>1, <1>2, GrownKid
  <2>2. high # n
    BY <1>1, <1>2, GrownKid
  <2>3. p # n
    <3>1. p # Null => p \in Placed(t)
      BY GrownParent
    <3> QED BY <1>1, <3>1
  <2> QED BY <2>1, <2>2, <2>3
<1>6. ASSUME NEW m \in Nodes, m # n, m # o PROVE t.parent[m] = o <=> m = low \/ m = high
  <2>1. m = low => t.parent[m] = o
    BY <1>1, <1>2, GrownKid
  <2>2. m = high => t.parent[m] = o
    BY <1>1, <1>2, GrownKid
  <2>3. ASSUME t.parent[m] = o PROVE m = low \/ m = high
    <3>1. m \in Placed(t)
      BY <1>6, <2>3 DEF Placed
    <3>2. m # t.root
      BY <1>1, <2>3, <3>1, GrownParent
    <3>3. SideOf(t, m, o) \in Side /\ t.kid[o][SideOf(t, m, o)] = m
      BY <2>3, <3>1, <3>2, GrownParent
    <3> QED BY <1>2, <3>3
  <2> QED BY <2>1, <2>2, <2>3
<1> HIDE DEF p, low, high, reds
<1>7. /\ a \in Trees /\ a.parent = t.parent /\ a.red = t.red
      /\ a.root = (IF p = Null THEN n ELSE t.root)
      /\ \A m \in Nodes, r \in Side :
           a.kid[m][r] = IF m = p /\ SideOf(t, o, p) = r THEN n ELSE t.kid[m][r]
  BY <1>1, HangFields
<1> HIDE DEF a
<1>8. /\ e \in Trees /\ e.root = a.root /\ e.kid = a.kid /\ e.red = a.red
      /\ \A m \in Nodes : e.parent[m] = IF m = low THEN n ELSE a.parent[m]
  <2>1. a \in Trees /\ low \in OrNull /\ n \in OrNull
    BY <1>1, <1>2, <1>7
  <2> QED BY <2>1, SetParentFields
<1> HIDE DEF e
<1>9. /\ f \in Trees /\ f.root = e.root /\ f.kid = e.kid /\ f.red = e.red
      /\ \A m \in Nodes : f.parent[m] = IF m = high THEN n ELSE e.parent[m]
  <2>1. e \in Trees /\ high \in OrNull /\ n \in OrNull
    BY <1>1, <1>2, <1>8
  <2> QED BY <2>1, SetParentFields
<1> HIDE DEF f
<1>10. /\ c \in Trees /\ c.root = f.root /\ c.parent = f.parent /\ c.kid = f.kid
       /\ c.red = (f.red \ {n}) \cup reds
  BY <1>1, <1>9, ColourFields
<1> HIDE DEF c
<1>11. /\ h \in Trees /\ h.root = c.root /\ h.kid = c.kid /\ h.red = c.red
       /\ \A m \in Nodes : h.parent[m] = IF m = n THEN p ELSE c.parent[m]
  <2>1. c \in Trees /\ n \in Nodes /\ p \in OrNull
    BY <1>1, <1>10
  <2> QED BY <2>1, PutParentFields
<1> HIDE DEF h
<1>12. /\ i \in Trees /\ i.root = h.root /\ i.parent = h.parent /\ i.red = h.red
       /\ \A m \in Nodes, r \in Side :
            i.kid[m][r] = IF m = n /\ r = "left" THEN low ELSE h.kid[m][r]
  <2>1. h \in Trees /\ n \in Nodes /\ "left" \in Side /\ low \in OrNull
    BY <1>1, <1>2, <1>11
  <2> QED BY <2>1, PutKidFields
<1> HIDE DEF i
<1>13. /\ j \in Trees /\ j.root = i.root /\ j.parent = i.parent /\ j.red = i.red
       /\ \A m \in Nodes, r \in Side :
            j.kid[m][r] = IF m = n /\ r = "right" THEN high ELSE i.kid[m][r]
  <2>1. i \in Trees /\ n \in Nodes /\ "right" \in Side /\ high \in OrNull
    BY <1>1, <1>2, <1>12
  <2> QED BY <2>1, PutKidFields
<1> HIDE DEF j
<1>14. /\ g \in Trees /\ g.root = j.root /\ g.red = j.red \cup {o}
       /\ \A m \in Nodes : g.parent[m] = IF m = o THEN o ELSE j.parent[m]
       /\ \A m \in Nodes, r \in Side : g.kid[m][r] = IF m = o THEN Null ELSE j.kid[m][r]
  <2>1. g = InitNode(j, o) /\ j \in Trees /\ o \in Nodes
    BY <1>1, <1>3, <1>13
  <2> QED BY SMTT(30), <2>1, InitNodeFields
<1>15. \A m \in Nodes : g.parent[m] = IF m = n THEN p ELSE IF m = o THEN o
                                      ELSE IF t.parent[m] = o THEN n ELSE t.parent[m]
  <2> SUFFICES ASSUME NEW m \in Nodes
               PROVE  g.parent[m] = IF m = n THEN p ELSE IF m = o THEN o
                                    ELSE IF t.parent[m] = o THEN n ELSE t.parent[m]
    OBVIOUS
  <2>1. g.parent[m] = IF m = o THEN o ELSE IF m = n THEN p
                      ELSE IF m = low \/ m = high THEN n ELSE t.parent[m]
    BY <1>7, <1>8, <1>9, <1>10, <1>11, <1>12, <1>13, <1>14
  <2> QED BY <1>1, <1>6, <2>1
<1>16. \A m \in Nodes, r \in Side :
         g.kid[m][r] = IF m = o THEN Null ELSE IF m = n THEN t.kid[o][r]
                       ELSE IF t.kid[m][r] = o THEN n ELSE t.kid[m][r]
  <2> SUFFICES ASSUME NEW m \in Nodes, NEW r \in Side
               PROVE  g.kid[m][r] = IF m = o THEN Null ELSE IF m = n THEN t.kid[o][r]
                                    ELSE IF t.kid[m][r] = o THEN n ELSE t.kid[m][r]
    OBVIOUS
  <2>1. g.kid[m][r] = IF m = o THEN Null ELSE IF m = n /\ r = "right" THEN high
                      ELSE IF m = n /\ r = "left" THEN low ELSE a.kid[m][r]
    BY <1>8, <1>9, <1>10, <1>11, <1>12, <1>13, <1>14
  <2>2. a.kid[m][r] = IF t.kid[m][r] = o THEN n ELSE t.kid[m][r]
    BY <1>1, <1>4, <1>7
  <2> QED BY <1>1, <1>2, <2>1, <2>2 DEF low, high
<1>17. g.red = Recoloured(t.red, o, n)
  BY <1>7, <1>8, <1>9, <1>10, <1>11, <1>12, <1>13, <1>14 DEF Recoloured, reds
<1>18. g.root = IF p = Null THEN n ELSE t.root
  BY <1>7, <1>8, <1>9, <1>10, <1>11, <1>12, <1>13, <1>14
<1> QED BY <1>14, <1>15, <1>16, <1>17, <1>18 DEF Placing, p

\* o has two children, and n, at the left end of its right subtree, is the next node.
Succeeds(t, b, o, n) ==
  /\ o \in Placed(t) /\ t.kid[o]["left"] # Null /\ t.kid[o]["right"] # Null
  /\ n \in b[t.kid[o]["right"]]
  /\ \A m \in b[t.kid[o]["right"]] : m \in b[n] \/ Key[n] < Key[m]
  /\ t.kid[o]["right"] = n \/ t.kid[t.parent[n]]["left"] = n

\* The erased node, its successor and their neighbours, where two of them may
\* be the same and where not.
LEMMA SucceedsFacts ==
  ASSUME NEW t, NEW b, Grown(t, b), NEW o, NEW n, Succeeds(t, b, o, n), t.kid[n]["left"] = Null,
         NEW low, NEW high, NEW child, NEW p, NEW q,
         t.kid[o]["left"] = low, high = t.kid[o]["right"], t.kid[n]["right"] = child,
         t.parent[n] = p, t.parent[o] = q
  PROVE  /\ o \in Nodes /\ n \in Placed(t) /\ n \in Nodes /\ n # o
         /\ low \in Nodes /\ high \in Nodes /\ child \in OrNull /\ p \in Nodes /\ q \in OrNull
         /\ low # high /\ low # n /\ low # o /\ high # o /\ child # o /\ child # low /\ child # high
         /\ t.parent[low] = o /\ t.parent[high] = o
         /\ child \in Nodes => t.parent[child] = n /\ child # n
         /\ p = o <=> n = high
         /\ p # n /\ p # low /\ q # n /\ q # o /\ p # child
         /\ p # o => t.kid[p]["left"] = n /\ p # q
         /\ Loose(t, n, "right", child, p) /\ o \in b[o] /\ n \in b[o]
         /\ \A m \in Nodes, r \in Side : t.kid[m][r] = n <=> m = p /\ r = IF p = o THEN "right" ELSE "left"
         /\ \A m \in Placed(t) : t.parent[m] = o => m = low \/ m = high
<1>1. /\ o \in Placed(t) /\ o \in Nodes /\ t \in Trees /\ Null \notin Nodes
      /\ "left" \in Side /\ "right" \in Side /\ Opp("left") = "right" /\ Opp("right") = "left"
      /\ \A r \in Side : r = "left" \/ r = "right"
  BY KeyFacts DEF Succeeds, Placed, Grown, Side, Opp
<1>2. low \in Nodes /\ high \in Nodes
  BY <1>1 DEF Succeeds, Trees, OrNull
<1>3. /\ low \in Placed(t) /\ t.parent[low] = o /\ low # o /\ low # high /\ low \in b[o]
      /\ SideOf(t, low, o) = "left"
  BY <1>1, <1>2, GrownKid
<1>4. /\ high \in Placed(t) /\ t.parent[high] = o /\ high # o
      /\ SideOf(t, high, o) = "right"
  BY <1>1, <1>2, GrownKid
<1>5. /\ o \in b[o] /\ o \notin b[high] /\ o \notin b[low] /\ b[low] \cap b[high] = {}
      /\ b[o] = {o} \cup b[low] \cup b[high] /\ b[o] \subseteq Nodes
  BY <1>1, GrownSplit
<1>6. n \in b[high] /\ n \in Nodes /\ n \in b[o] /\ n # o
  BY <1>1, <1>5 DEF Succeeds
<1>7. n \in Placed(t)
  BY <1>1, <1>6, GrownMembers
<1>8. low \in b[low] /\ high \in b[high]
  BY <1>1, <1>2, GrownSides
<1>9. low # n /\ low # high
  BY <1>3, <1>5, <1>6, <1>8
<1>10. child \in OrNull /\ q \in OrNull
  BY <1>1, <1>6 DEF Trees
<1>11. child \in Nodes => /\ t.parent[child] = n /\ child # n
  BY <1>1, <1>6, GrownKid
<1>12. child # o /\ child # low /\ child # high
  <2> SUFFICES ASSUME child \in Nodes PROVE child # o /\ child # low /\ child # high
    BY <1>1, <1>2, <1>10 DEF OrNull
  <2>1. child \in b[n]
    BY <1>1, <1>6, GrownKid
  <2>2. b[n] \subseteq b[high]
    BY <1>2, <1>6 DEF Grown, Spanned
  <2> QED BY <1>3, <1>4, <1>5, <1>6, <1>11, <2>1, <2>2
<1>13. n # t.root
  <2>1. n = t.root => o \in b[n]
    BY <1>1 DEF Grown, Spanned
  <2>2. b[n] \subseteq b[high]
    BY <1>2, <1>6 DEF Grown, Spanned
  <2> QED BY <1>5, <2>1, <2>2
<1>14. /\ p \in Placed(t) /\ p \in Nodes /\ p # Null
       /\ \A m \in Nodes, r \in Side : t.kid[m][r] = n <=> m = p /\ SideOf(t, n, p) = r
  <2>1. p \in Placed(t) /\ p \in Nodes
    BY <1>7, <1>13, GrownParent DEF Placed
  <2>2. \A m \in Nodes, r \in Side :
          t.kid[m][r] = n <=> p # Null /\ m = p /\ SideOf(t, n, p) = r
    BY <1>7, OnlyLink
  <2> QED BY <1>1, <2>1, <2>2
<1>15. p = o <=> n = high
  <2>1. n = high => p = o
    BY <1>4
  <2>2. ASSUME p = o PROVE n = high
    <3>1. t.kid[o]["left"] = n \/ t.kid[o]["right"] = n
      <4>1. \E r \in Side : t.kid[t.parent[n]][r] = n
        BY <1>7, <1>13 DEF Grown, Joined
      <4> QED BY <1>1, <2>2, <4>1
    <3> QED BY <1>9, <3>1
  <2> QED BY <2>1, <2>2
<1>16. p # o => t.kid[p]["left"] = n
  BY <1>15 DEF Succeeds
<1>17. SideOf(t, n, p) = IF p = o THEN "right" ELSE "left"
  BY <1>9, <1>16 DEF SideOf
<1>18. p # n /\ p # low /\ p # child
  <2>1. p # n
    BY <1>7 DEF Placed
  <2>2. p # low
    <3> SUFFICES ASSUME p = low PROVE FALSE
      OBVIOUS
    <3>1. t.kid[low]["left"] = n
      BY <1>3, <1>16
    <3>2. n \in b[low]
      BY <1>1, <1>2, <1>6, <3>1, GrownKid
    <3> QED BY <1>5, <1>6, <3>2
  <2>3. p # child
    <3> SUFFICES ASSUME p = child PROVE FALSE
      OBVIOUS
    <3>1. child \in Nodes
      BY <1>14
    <3>2. n \notin b[child]
      BY <1>1, <1>6, <3>1, GrownKid
    <3>3. t.kid[child][SideOf(t, n, p)] = n /\ SideOf(t, n, p) \in Side
      BY <1>1, <1>14, <1>17, <3>1
    <3>4. n \in b[child]
      BY <1>6, <3>1, <3>3, GrownKid
    <3> QED BY <3>2, <3>4
  <2> QED BY <2>1, <2>2, <2>3
<1>19. q # o /\ q # n
  <2>1. q # o
    BY <1>1 DEF Placed
  <2>2. q # n
    <3> SUFFICES ASSUME q = n PROVE FALSE
      OBVIOUS
    <3>1. t.root # Null => t.parent[t.root] = Null
      BY DEF Grown, Joined
    <3>2. o # t.root
      BY <1>1, <1>6, <3>1
    <3>3. \E r \in Side : t.kid[t.parent[o]][r] = o
      BY <1>1, <3>2 DEF Grown, Joined
    <3>4. o \in b[n]
      BY <1>1, <1>6, <3>3, GrownKid
    <3>5. b[n] \subseteq b[high]
      BY <1>2, <1>6 DEF Grown, Spanned
    <3> QED BY <1>5, <3>4, <3>5
  <2> QED BY <2>1, <2>2
<1>20. p # o => p # q
  <2> SUFFICES ASSUME p # o, p = q PROVE FALSE
    OBVIOUS
  <2>1. p \in b[high]
    <3>1. n # high
      BY <1>15
    <3>2. \A m \in b[high] \ {high} : t.parent[m] \in b[high]
      BY <1>2 DEF Grown, Spanned
    <3> QED BY <1>6, <3>1, <3>2
  <2>2. o # t.root
    BY <1>1, <1>14, <2>1, GrownParent
  <2>3. SideOf(t, o, p) \in Side /\ t.kid[p][SideOf(t, o, p)] = o
    BY <1>1, <2>1, <2>2, GrownParent
  <2>4. o \in b[p]
    BY <1>1, <1>14, <2>3, GrownKid
  <2>5. b[p] \subseteq b[high]
    BY <1>2, <2>1 DEF Grown, Spanned
  <2> QED BY <1>5, <2>4, <2>5
<1>21. Loose(t, n, "right", child, p)
  BY <1>1, <1>7 DEF Loose
<1>22. ASSUME NEW m \in Placed(t), t.parent[m] = o PROVE m = low \/ m = high
  <2>1. m # t.root
    BY <1>1, <1>22, GrownParent
  <2>2. SideOf(t, m, o) \in Side /\ t.kid[o][SideOf(t, m, o)] = m
    BY <1>22, <2>1, GrownParent
  <2> QED BY <1>1, <2>2
<1>23. \A m \in Nodes, r \in Side :
         t.kid[m][r] = n <=> m = p /\ r = IF p = o THEN "right" ELSE "left"
  BY <1>14, <1>17
<1>24. /\ o \in Nodes /\ n \in Placed(t) /\ n \in Nodes /\ n # o
       /\ low \in Nodes /\ high \in Nodes /\ child \in OrNull /\ p \in Nodes /\ q \in OrNull
       /\ low # high /\ low # n /\ low # o /\ high # o /\ child # o /\ child # low /\ child # high
       /\ t.parent[low] = o /\ t.parent[high] = o
  BY <1>1, <1>2, <1>3, <1>4, <1>6, <1>7, <1>9, <1>10, <1>12, <1>14
<1>25. /\ child \in Nodes => t.parent[child] = n /\ child # n
       /\ p = o <=> n = high
       /\ p # n /\ p # low /\ q # n /\ q # o /\ p # child
       /\ p # o => t.kid[p]["left"] = n /\ p # q
       /\ o \in b[o] /\ n \in b[o]
  BY <1>5, <1>6, <1>11, <1>15, <1>16, <1>18, <1>19, <1>20
<1>26. \A m \in Placed(t) : t.parent[m] = o => m = low \/ m = high
  BY <1>22
<1> QED BY <1>21, <1>23, <1>24, <1>25, <1>26

\* Splicing n out and into the place of o is unlinking n, and then putting it there.
LEMMA SpliceFields ==
  ASSUME NEW t, NEW b, Grown(t, b), NEW o, NEW n, Succeeds(t, b, o, n), t.kid[n]["left"] = Null,
         NEW u, Unlinked(t, u, n, t.kid[n]["right"], t.parent[n]),
         NEW g, g = InitNode(Spliced(t, o, n), o)
  PROVE  Placing(u, g, o, n) /\ g.red = Recoloured(t.red, o, n)
<1> DEFINE p == t.parent[n]
           q == t.parent[o]
           low == t.kid[o]["left"]
           high == t.kid[o]["right"]
           child == t.kid[n]["right"]
           reds == IF o \in t.red THEN {n} ELSE {}
           a == Hang(t, q, o, n)
           e == SetParent(a, child, p)
           f == PutKid(e, p, "left", child)
           g1 == PutKid(f, n, "right", high)
           g2 == SetParent(g1, high, n)
           d == IF p = o THEN a ELSE g2
           c == Colour(d, {n}, reds)
           h == PutParent(c, n, q)
           i == PutKid(h, n, "left", low)
           j == SetParent(i, low, n)
<1>1. /\ o \in Nodes /\ n \in Placed(t) /\ n \in Nodes /\ n # o
      /\ low \in Nodes /\ high \in Nodes /\ child \in OrNull /\ p \in Nodes /\ q \in OrNull
      /\ low # high /\ low # n /\ low # o /\ high # o /\ child # o /\ child # low /\ child # high
      /\ t.parent[low] = o /\ t.parent[high] = o
      /\ child \in Nodes => t.parent[child] = n /\ child # n
      /\ p = o <=> n = high
      /\ p # n /\ p # low /\ q # n /\ q # o /\ p # child
      /\ p # o => t.kid[p]["left"] = n /\ p # q
      /\ \A m \in Nodes, r \in Side : t.kid[m][r] = n <=> m = p /\ r = IF p = o THEN "right" ELSE "left"
      /\ \A m \in Placed(t) : t.parent[m] = o => m = low \/ m = high
  BY SucceedsFacts
<1>2. /\ t \in Trees /\ Null \notin Nodes /\ "left" \in Side /\ "right" \in Side
      /\ "left" # "right" /\ \A r \in Side : r = "left" \/ r = "right"
      /\ o \in Placed(t) /\ o \in OrNull /\ n \in OrNull /\ reds \subseteq Nodes
      /\ p \in OrNull /\ low \in OrNull /\ high \in OrNull
      /\ p # Null /\ n # Null /\ o # Null
  BY <1>1, KeyFacts DEF Grown, Side, Succeeds, OrNull
<1>3. \A m \in Nodes, r \in Side :
        t.kid[m][r] = o <=> q # Null /\ m = q /\ SideOf(t, o, q) = r
  BY <1>2, OnlyLink
<1>4. /\ a \in Trees /\ a.parent = t.parent /\ a.red = t.red
      /\ a.root = (IF q = Null THEN n ELSE t.root)
      /\ \A m \in Nodes, r \in Side :
           a.kid[m][r] = IF m = q /\ SideOf(t, o, q) = r THEN n ELSE t.kid[m][r]
  <2>1. t \in Trees /\ q \in OrNull /\ n \in OrNull
    BY <1>1, <1>2
  <2> QED BY <2>1, HangFields
<1>5. a.kid[n]["right"] = child /\ a.kid[o]["right"] = high /\ a.parent[n] = p
  <2> HIDE DEF a
  <2> QED BY <1>1, <1>2, <1>4
<1>6. \A m \in Nodes, r \in Side : a.kid[m][r] = IF t.kid[m][r] = o THEN n ELSE t.kid[m][r]
  <2> HIDE DEF a, q
  <2> QED BY <1>2, <1>3, <1>4
<1>7. Spliced(t, o, n) = j
  <2>1. Detached(a, o, n) = d
    <3> HIDE DEF a, p, high, child
    <3> QED BY <1>5 DEF Detached, PutKid
  <2> HIDE DEF d
  <2> QED BY <2>1 DEF Spliced, PutKid, PutParent
<1> HIDE DEF p, q, low, high, child, reds, a
<1>8. /\ e \in Trees /\ e.root = a.root /\ e.kid = a.kid /\ e.red = a.red
      /\ \A m \in Nodes : e.parent[m] = IF m = child THEN p ELSE a.parent[m]
  <2>1. a \in Trees /\ child \in OrNull /\ p \in OrNull
    BY <1>1, <1>2, <1>4
  <2> QED BY <2>1, SetParentFields
<1> HIDE DEF e
<1>9. /\ f \in Trees /\ f.root = e.root /\ f.parent = e.parent /\ f.red = e.red
      /\ \A m \in Nodes, r \in Side :
           f.kid[m][r] = IF m = p /\ r = "left" THEN child ELSE e.kid[m][r]
  <2>1. e \in Trees /\ p \in Nodes /\ "left" \in Side /\ child \in OrNull
    BY <1>1, <1>2, <1>8
  <2> QED BY <2>1, PutKidFields
<1> HIDE DEF f
<1>10. /\ g1 \in Trees /\ g1.root = f.root /\ g1.parent = f.parent /\ g1.red = f.red
       /\ \A m \in Nodes, r \in Side :
            g1.kid[m][r] = IF m = n /\ r = "right" THEN high ELSE f.kid[m][r]
  <2>1. f \in Trees /\ n \in Nodes /\ "right" \in Side /\ high \in OrNull
    BY <1>1, <1>2, <1>9
  <2> QED BY <2>1, PutKidFields
<1> HIDE DEF g1
<1>11. /\ g2 \in Trees /\ g2.root = g1.root /\ g2.kid = g1.kid /\ g2.red = g1.red
       /\ \A m \in Nodes : g2.parent[m] = IF m = high THEN n ELSE g1.parent[m]
  <2>1. g1 \in Trees /\ high \in OrNull /\ n \in OrNull
    BY <1>1, <1>2, <1>10
  <2> QED BY <2>1, SetParentFields
<1> HIDE DEF g2
<1>12. /\ d \in Trees /\ d.root = a.root /\ d.red = t.red
       /\ \A m \in Nodes : d.parent[m] = IF p # o /\ m = high THEN n
                                         ELSE IF p # o /\ m = child THEN p ELSE t.parent[m]
       /\ \A m \in Nodes, r \in Side :
            d.kid[m][r] = IF p # o /\ m = n /\ r = "right" THEN high
                          ELSE IF p # o /\ m = p /\ r = "left" THEN child ELSE a.kid[m][r]
  <2>1. CASE p = o
    BY <1>4, <2>1
  <2>2. CASE p # o
    <3>1. d = g2
      BY <2>2
    <3>2. /\ d \in Trees /\ d.root = a.root /\ d.red = t.red
      BY <1>4, <1>8, <1>9, <1>10, <1>11, <3>1
    <3>3. \A m \in Nodes : d.parent[m] = IF m = high THEN n ELSE IF m = child THEN p ELSE t.parent[m]
      BY <1>4, <1>8, <1>9, <1>10, <1>11, <3>1
    <3>4. \A m \in Nodes, r \in Side :
            d.kid[m][r] = IF m = n /\ r = "right" THEN high
                          ELSE IF m = p /\ r = "left" THEN child ELSE a.kid[m][r]
      BY <1>8, <1>9, <1>10, <1>11, <3>1
    <3> HIDE DEF d
    <3> QED BY <2>2, <3>2, <3>3, <3>4
  <2> QED BY <2>1, <2>2
<1> HIDE DEF d
<1>13. /\ c \in Trees /\ c.root = d.root /\ c.parent = d.parent /\ c.kid = d.kid
       /\ c.red = (d.red \ {n}) \cup reds
  BY <1>2, <1>12, ColourFields
<1> HIDE DEF c
<1>14. /\ h \in Trees /\ h.root = c.root /\ h.kid = c.kid /\ h.red = c.red
       /\ \A m \in Nodes : h.parent[m] = IF m = n THEN q ELSE c.parent[m]
  <2>1. c \in Trees /\ n \in Nodes /\ q \in OrNull
    BY <1>1, <1>13
  <2> QED BY <2>1, PutParentFields
<1> HIDE DEF h
<1>15. /\ i \in Trees /\ i.root = h.root /\ i.parent = h.parent /\ i.red = h.red
       /\ \A m \in Nodes, r \in Side :
            i.kid[m][r] = IF m = n /\ r = "left" THEN low ELSE h.kid[m][r]
  <2>1. h \in Trees /\ n \in Nodes /\ "left" \in Side /\ low \in OrNull
    BY <1>1, <1>2, <1>14
  <2> QED BY <2>1, PutKidFields
<1> HIDE DEF i
<1>16. /\ j \in Trees /\ j.root = i.root /\ j.kid = i.kid /\ j.red = i.red
       /\ \A m \in Nodes : j.parent[m] = IF m = low THEN n ELSE i.parent[m]
  <2>1. i \in Trees /\ low \in OrNull /\ n \in OrNull
    BY <1>1, <1>2, <1>15
  <2> QED BY <2>1, SetParentFields
<1> HIDE DEF j
<1>17. /\ g \in Trees /\ g.root = j.root /\ g.red = j.red \cup {o}
       /\ \A m \in Nodes : g.parent[m] = IF m = o THEN o ELSE j.parent[m]
       /\ \A m \in Nodes, r \in Side : g.kid[m][r] = IF m = o THEN Null ELSE j.kid[m][r]
  <2>1. g = InitNode(j, o) /\ j \in Trees /\ o \in Nodes
    BY <1>1, <1>7, <1>16
  <2> QED BY <2>1, InitNodeFields
<1>18. /\ u.root = t.root
       /\ \A m \in Nodes : u.parent[m] = IF m = n THEN n ELSE IF m = child THEN p ELSE t.parent[m]
       /\ \A m \in Nodes, r \in Side :
            u.kid[m][r] = IF m = n THEN Null ELSE IF t.kid[m][r] = n THEN child ELSE t.kid[m][r]
       /\ u.parent[o] = q
  <2>1. /\ u.root = IF p = Null THEN child ELSE t.root
        /\ \A m \in Nodes : u.parent[m] = IF m = n THEN n ELSE IF m = child THEN p ELSE t.parent[m]
        /\ \A m \in Nodes, r \in Side :
             u.kid[m][r] = IF m = n THEN Null ELSE IF t.kid[m][r] = n THEN child ELSE t.kid[m][r]
    BY DEF Unlinked, p, child
  <2>2. t.parent[o] = q
    BY DEF q
  <2> QED BY <1>1, <1>2, <2>1, <2>2
<1>19. g.red = Recoloured(t.red, o, n)
  BY <1>12, <1>13, <1>14, <1>15, <1>16, <1>17 DEF Recoloured, reds
<1>20. g.root = IF q = Null THEN n ELSE u.root
  BY <1>4, <1>12, <1>13, <1>14, <1>15, <1>16, <1>17, <1>18
<1>21. ASSUME NEW m \in Nodes
       PROVE  g.parent[m] = IF m = n THEN q ELSE IF m = o THEN o
                            ELSE IF u.parent[m] = o THEN n ELSE u.parent[m]
  <2>1. g.parent[m] = IF m = o THEN o ELSE IF m = low THEN n ELSE IF m = n THEN q
                      ELSE IF p # o /\ m = high THEN n ELSE IF p # o /\ m = child THEN p
                      ELSE t.parent[m]
    BY <1>12, <1>13, <1>14, <1>15, <1>16, <1>17
  <2>2. u.parent[m] = IF m = n THEN n ELSE IF m = child THEN p ELSE t.parent[m]
    BY <1>18
  <2>3. m # o /\ t.parent[m] = o => m = low \/ m = high
    BY <1>1 DEF Placed
  <2> QED BY <1>1, <2>1, <2>2, <2>3
<1>22. ASSUME NEW m \in Nodes, NEW r \in Side
       PROVE  g.kid[m][r] = IF m = o THEN Null ELSE IF m = n THEN u.kid[o][r]
                            ELSE IF u.kid[m][r] = o THEN n ELSE u.kid[m][r]
  <2>1. g.kid[m][r] = IF m = o THEN Null ELSE IF m = n /\ r = "left" THEN low
                      ELSE IF p # o /\ m = n /\ r = "right" THEN high
                      ELSE IF p # o /\ m = p /\ r = "left" THEN child ELSE a.kid[m][r]
    BY <1>12, <1>13, <1>14, <1>15, <1>16, <1>17
  <2>2. /\ a.kid[m][r] = IF t.kid[m][r] = o THEN n ELSE t.kid[m][r]
    BY <1>6
  <2>3. u.kid[m][r] = IF m = n THEN Null ELSE IF t.kid[m][r] = n THEN child ELSE t.kid[m][r]
    BY <1>18
  <2>4. t.kid[m][r] = n <=> m = p /\ r = IF p = o THEN "right" ELSE "left"
    BY <1>1
  <2>5. CASE m = n
    <3>1. u.kid[o][r] = IF t.kid[o][r] = n THEN child ELSE t.kid[o][r]
      BY <1>1, <1>18
    <3>2. t.kid[o]["left"] = low /\ t.kid[o]["right"] = high /\ t.kid[n]["right"] = child
      BY DEF low, high, child
    <3>3. CASE r = "left"
      BY <1>1, <1>2, <2>1, <2>5, <3>1, <3>2, <3>3
    <3>4. CASE r = "right"
      BY <1>1, <1>2, <2>1, <2>2, <2>5, <3>1, <3>2, <3>4
    <3> QED BY <1>2, <3>3, <3>4
  <2>6. CASE m # n
    BY <1>1, <1>2, <2>1, <2>2, <2>3, <2>4, <2>6
  <2> QED BY <2>5, <2>6
<1>23. \A m \in Nodes : g.parent[m] = IF m = n THEN u.parent[o] ELSE IF m = o THEN o
                                      ELSE IF u.parent[m] = o THEN n ELSE u.parent[m]
  BY <1>18, <1>21
<1> QED BY <1>16, <1>17, <1>18, <1>19, <1>20, <1>22, <1>23 DEF Placing

\* The successor, once unlinked, fits where o is.
LEMMA SuccessorFits ==
  ASSUME NEW t, NEW b, Grown(t, b), NEW o, NEW n, Succeeds(t, b, o, n), t.kid[n]["left"] = Null,
         NEW u, Unlinked(t, u, n, t.kid[n]["right"], t.parent[n]),
         NEW d, d = [m \in OrNull |-> IF m = n THEN {n} ELSE b[m] \ {n}]
  PROVE  Fits(u, d, o, n)
<1> DEFINE p == t.parent[n]
           q == t.parent[o]
           low == t.kid[o]["left"]
           high == t.kid[o]["right"]
           child == t.kid[n]["right"]
<1>1. /\ o \in Nodes /\ n \in Placed(t) /\ n \in Nodes /\ n # o
      /\ low \in Nodes /\ high \in Nodes /\ child \in OrNull
      /\ Loose(t, n, "right", child, p) /\ n \in b[o] /\ o \in Placed(t)
  BY SucceedsFacts DEF Succeeds
<1>2. /\ child # n /\ b[n] = {n} \cup b[child] /\ n \notin b[child] /\ child \in OrNull
  BY <1>1, LooseFacts
<1>3. Placed(u) = Placed(t) \ {n}
  BY <1>1, UnlinkedGrown
<1>4. ASSUME NEW m \in Nodes, NEW r \in Side
      PROVE  /\ m = n => u.kid[m][r] = Null
             /\ m # n => d[u.kid[m][r]] = b[t.kid[m][r]] \ {n}
  <2>1. u.kid[m][r] = IF m = n THEN Null ELSE IF t.kid[m][r] = n THEN child ELSE t.kid[m][r]
    BY DEF Unlinked
  <2>2. t.kid[m][r] \in OrNull
    BY DEF Grown, Trees
  <2> QED BY <1>1, <1>2, <2>1, <2>2
<1>5. d[Null] = {}
  BY <1>1, KeyFacts DEF Grown, Spanned, OrNull
<1>6. ASSUME NEW m \in Nodes, NEW r \in Side, o \in d[u.kid[m][r]]
      PROVE  Beyond(r, Key[n], Key[m])
  <2>1. m # n /\ o \in b[t.kid[m][r]]
    BY <1>4, <1>5, <1>6
  <2>2. t.kid[m][r] \in Nodes
    BY <2>1 DEF Grown, Trees, Spanned, OrNull
  <2>3. n \in b[t.kid[m][r]]
    BY <1>1, <2>1, <2>2 DEF Grown, Spanned
  <2> QED BY <2>3 DEF Grown, Spanned
<1>7. "left" \in Side /\ "right" \in Side /\ \A r \in Side : r = "left" \/ r = "right"
  BY DEF Side
<1>8. ASSUME NEW r \in Side, NEW m \in d[u.kid[o][r]]
      PROVE  Beyond(r, Key[m], Key[n])
  <2>1. m \in b[t.kid[o][r]] /\ m # n
    BY <1>1, <1>4, <1>8
  <2>2. m \in Nodes
    BY <1>1, <2>1, GrownSides
  <2>3. n \in b[high] /\ (m \in b[high] => m \in b[n] \/ Key[n] < Key[m])
    BY DEF Succeeds
  <2>4. CASE r = "left"
    <3>1. Beyond("left", Key[m], Key[o])
      BY <1>1, <1>7, <2>1, <2>4 DEF Grown, Spanned
    <3>2. Beyond("right", Key[n], Key[o])
      BY <1>1, <1>7, <2>3 DEF Grown, Spanned
    <3> QED BY <1>1, <2>2, <2>4, <3>1, <3>2, KeyFacts DEF Beyond
  <2>5. CASE r = "right"
    <3>1. m \in b[child] => Beyond("right", Key[m], Key[n])
      BY <1>1, <1>7 DEF Grown, Spanned
    <3>2. m \in b[child] \/ Key[n] < Key[m]
      BY <1>2, <2>1, <2>3, <2>5
    <3> QED BY <2>5, <3>1, <3>2 DEF Beyond
  <2> QED BY <1>7, <2>4, <2>5
<1>9. \A m \in Placed(u) \ {o} : Key[m] # Key[n]
  BY <1>1, <1>3 DEF Grown, Spanned
<1>10. o \in Placed(u) /\ n \in Nodes \ Placed(u)
  BY <1>1, <1>3
<1> QED BY <1>6, <1>8, <1>9, <1>10 DEF Fits

-----------------------------------------------------------------------------
(* Recursion over the tree *)

\* Among the nodes of D there is a lowest one.
LEMMA TreeMin ==
  ASSUME NEW t, NEW b, Grown(t, b), NEW D, D \subseteq Nodes, D # {}
  PROVE  \E n \in D : \A s \in Side : t.kid[n][s] \notin D
<1> DEFINE T == {b[n] : n \in D}
           R == StrictSubsetOrdering(Nodes)
<1>1. T \subseteq SUBSET Nodes /\ T # {}
  <2>1. \A n \in D : b[n] \subseteq Nodes
    BY GrownSides, SideFacts
  <2> QED BY <2>1
<1>2. IsWellFoundedOn(R, SUBSET Nodes)
  BY FS_StrictSubsetOrderingWellFounded, FS_FiniteSubsetsOfFinite, RbTreeAssumption
<1>3. PICK X \in T : \A Y \in T : ~(<<Y, X>> \in R)
  <2> HIDE DEF T, R
  <2> QED BY <1>1, <1>2, WFMin
<1>4. PICK n \in D : X = b[n]
  BY <1>3
<1>5. ASSUME NEW s \in Side, t.kid[n][s] \in D
      PROVE  FALSE
  <2> DEFINE c == t.kid[n][s]
  <2>1. n \in Nodes /\ c \in Nodes /\ c \in D
    BY <1>5
  <2>2. b[c] \subseteq b[n] /\ n \notin b[c] /\ n \in b[n] /\ b[n] \subseteq Nodes
    BY <2>1, GrownSides
  <2>3. b[c] \in T
    BY <2>1
  <2> HIDE DEF c
  <2>4. <<b[c], b[n]>> \in R
    BY <2>2 DEF StrictSubsetOrdering
  <2> QED BY <1>3, <1>4, <2>3, <2>4
<1> QED BY <1>5

\* The operator Below is determined by its recursion.
LEMMA BelowIs ==
  ASSUME NEW t, NEW b, Grown(t, b)
  PROVE  Below(t) = b
<1> DEFINE F(f) == f = [n \in OrNull |-> IF n = Null THEN {}
                          ELSE {n} \cup f[t.kid[n]["left"]] \cup f[t.kid[n]["right"]]]
<1>1. /\ b \in [OrNull -> SUBSET Nodes] /\ b[Null] = {} /\ Null \notin Nodes
      /\ \A n \in Nodes : b[n] = {n} \cup b[t.kid[n]["left"]] \cup b[t.kid[n]["right"]]
  BY KeyFacts DEF Grown, Spanned
<1>2. F(b)
  BY <1>1 DEF OrNull
<1>3. Below(t) = CHOOSE f : F(f)
  BY DEF Below
<1>4. F(Below(t))
  <2> HIDE DEF F
  <2> QED BY <1>2, <1>3
<1> DEFINE a == Below(t)
           D == {n \in Nodes : a[n] # b[n]}
<1>5. /\ DOMAIN a = OrNull /\ a[Null] = {} /\ a = [n \in OrNull |-> a[n]]
      /\ \A n \in Nodes : a[n] = {n} \cup a[t.kid[n]["left"]] \cup a[t.kid[n]["right"]]
  <2> HIDE DEF a
  <2>1. F(a)
    BY <1>4 DEF a
  <2> QED BY <1>1, <2>1 DEF OrNull
<1> HIDE DEF F, a
<1>6. D = {}
  <2> SUFFICES ASSUME D # {} PROVE FALSE
    OBVIOUS
  <2>1. PICK n \in D : \A s \in Side : t.kid[n][s] \notin D
    <3>1. D \subseteq Nodes
      OBVIOUS
    <3> HIDE DEF D
    <3> QED BY <3>1, TreeMin
  <2>2. \A s \in Side : a[t.kid[n][s]] = b[t.kid[n][s]]
    <3>1. \A s \in Side : t.kid[n][s] \in OrNull
      BY GrownSides
    <3> QED BY <1>1, <1>5, <2>1, <3>1 DEF OrNull
  <2>3. a[n] = b[n]
    <3>1. /\ a[t.kid[n]["left"]] = b[t.kid[n]["left"]]
          /\ a[t.kid[n]["right"]] = b[t.kid[n]["right"]]
      BY <2>2, SideFacts
    <3>2. n \in Nodes
      OBVIOUS
    <3> HIDE DEF D
    <3> QED BY ZenonT(60), <1>1, <1>5, <3>1, <3>2
  <2> QED BY <2>3
<1>7. \A n \in OrNull : a[n] = b[n]
  BY <1>1, <1>5, <1>6 DEF OrNull
<1> QED BY <1>1, <1>5, <1>7 DEF a

-----------------------------------------------------------------------------
(* The nodes in search order *)

\* x is the first of the nodes A if one comes from the other side than s, or
\* Null where there is none.
Nearest(A, s, x) ==
  \/ A = {} /\ x = Null
  \/ x \in A /\ \A y \in A : y = x \/ Beyond(s, Key[y], Key[x])

\* There is one such node.
LEMMA NearestUnique ==
  ASSUME NEW A, A \subseteq Nodes, NEW s \in Side, NEW x, Nearest(A, s, x), NEW y, Nearest(A, s, y)
  PROVE  x = y
<1>1. CASE A = {}
  BY <1>1 DEF Nearest
<1>2. CASE x \in A /\ y \in A
  <2>1. Key[x] \in Int /\ Key[y] \in Int
    BY <1>2, KeyFacts
  <2>2. /\ y = x \/ Beyond(s, Key[y], Key[x])
        /\ x = y \/ Beyond(s, Key[x], Key[y])
    BY <1>2 DEF Nearest
  <2> QED BY <2>1, <2>2, BeyondFacts
<1> QED BY <1>1, <1>2 DEF Nearest

\* All of a subtree is on the same side of a node outside of it.
LEMMA Convex ==
  ASSUME NEW t, NEW b, Grown(t, b), NEW n \in Placed(t), NEW y \in Placed(t) \ b[n],
         NEW s \in Side, NEW x \in b[n], Beyond(s, Key[y], Key[x]), NEW z \in b[n]
  PROVE  Beyond(s, Key[y], Key[z])
<1> DEFINE D == {a \in Placed(t) : y \in b[a] /\ n \in b[a]}
<1>1. /\ n \in Nodes /\ y \in Nodes /\ x \in Nodes /\ z \in Nodes /\ n \in b[n] /\ y \in b[y]
      /\ b[n] \subseteq Nodes
  BY GrownSides, SideFacts DEF Placed
<1>2. D # {} /\ D \subseteq Nodes
  <2>1. b[t.root] = Placed(t) /\ t.root \in Placed(t)
    BY <1>1, GrownMembers DEF Grown, Spanned
  <2> QED BY <2>1 DEF Placed
<1>3. PICK a \in D : \A r \in Side : t.kid[a][r] \notin D
  <2> HIDE DEF D
  <2> QED BY <1>2, TreeMin
<1>4. a \in Nodes /\ y \in b[a] /\ n \in b[a] /\ a # n
  BY <1>1, <1>3 DEF Placed
<1>5. ASSUME NEW r \in Side
      PROVE  /\ ~(y \in b[t.kid[a][r]] /\ n \in b[t.kid[a][r]])
             /\ b[a] = {a} \cup b[t.kid[a][r]] \cup b[t.kid[a][Opp(r)]]
             /\ \A m \in b[t.kid[a][r]] : Beyond(r, Key[m], Key[a]) /\ b[m] \subseteq b[t.kid[a][r]]
             /\ b[t.kid[a][r]] \subseteq Nodes
  <2> HIDE DEF D
  <2>0. b[Null] = {}
    BY DEF Grown, Spanned
  <2>1. t.kid[a][r] \in OrNull /\ b[t.kid[a][r]] \subseteq b[a] /\ b[a] \subseteq Nodes
    BY <1>4, GrownSides
  <2>2. t.kid[a][r] \in Nodes => t.kid[a][r] \in Placed(t)
    BY <1>4, GrownKid
  <2>3. ~(y \in b[t.kid[a][r]] /\ n \in b[t.kid[a][r]])
    BY <1>3, <2>0, <2>1, <2>2 DEF OrNull, D
  <2>4. b[a] = {a} \cup b[t.kid[a][r]] \cup b[t.kid[a][Opp(r)]]
    BY <1>4, GrownSides
  <2>5. \A m \in b[t.kid[a][r]] : Beyond(r, Key[m], Key[a])
    BY <1>4 DEF Grown, Spanned
  <2>6. \A m \in b[t.kid[a][r]] : b[m] \subseteq b[t.kid[a][r]]
    BY <2>0, <2>1 DEF Grown, Spanned, OrNull
  <2> QED BY <2>1, <2>3, <2>4, <2>5, <2>6
<1>6. PICK r \in Side : n \in b[t.kid[a][r]]
  BY <1>4, <1>5, SideFacts
<1>7. /\ Key[a] \in Int /\ Key[x] \in Int /\ Key[y] \in Int /\ Key[z] \in Int
      /\ Beyond(r, Key[x], Key[a]) /\ Beyond(r, Key[z], Key[a])
  BY <1>1, <1>4, <1>5, <1>6, KeyFacts
<1>8. Opp(r) \in Side /\ Opp(Opp(r)) = r /\ (s = r \/ s = Opp(r))
  BY SideFacts
<1>9. y = a \/ Beyond(Opp(r), Key[y], Key[a])
  <2>1. y = a \/ y \in b[t.kid[a][Opp(r)]]
    BY <1>4, <1>5, <1>6
  <2> QED BY <1>5, <1>8, <2>1
<1>10. Beyond(Opp(r), Key[a], Key[x]) /\ Beyond(Opp(r), Key[a], Key[z])
  BY <1>7, BeyondFacts
<1>11. Beyond(Opp(r), Key[y], Key[x]) /\ Beyond(Opp(r), Key[y], Key[z])
  BY <1>7, <1>8, <1>9, <1>10, BeyondFacts
<1>12. s = Opp(r)
  BY <1>7, <1>8, <1>11, BeyondFacts
<1> QED BY <1>11, <1>12

-----------------------------------------------------------------------------
(* Walks down and up the tree *)

\* A walk down the tree: to the child on the side d[n] of n, until a node of
\* stop is reached.
Follows(t, X, stop, d, f) ==
  f = [n \in X |-> IF n \in stop THEN n ELSE f[t.kid[n][d[n]]]]

\* It ends, and in one way only.
LEMMA FollowsOnce ==
  ASSUME NEW t, NEW b, Grown(t, b), NEW X, X \subseteq OrNull, NEW stop, NEW d,
         \A n \in X \ stop : n \in Nodes /\ d[n] \in Side /\ t.kid[n][d[n]] \in X,
         NEW f, Follows(t, X, stop, d, f), NEW g, Follows(t, X, stop, d, g)
  PROVE  f = g
<1> DEFINE D == {n \in X \ stop : f[n] # g[n]}
<1>1. /\ f = [n \in X |-> f[n]] /\ g = [n \in X |-> g[n]]
      /\ \A n \in X : f[n] = IF n \in stop THEN n ELSE f[t.kid[n][d[n]]]
      /\ \A n \in X : g[n] = IF n \in stop THEN n ELSE g[t.kid[n][d[n]]]
  BY DEF Follows
<1>2. D = {}
  <2> SUFFICES ASSUME D # {} PROVE FALSE
    OBVIOUS
  <2>1. D \subseteq Nodes
    OBVIOUS
  <2>2. PICK n \in D : \A s \in Side : t.kid[n][s] \notin D
    <3> HIDE DEF D
    <3> QED BY <2>1, TreeMin
  <2>3. n \in X \ stop /\ f[n] # g[n] /\ d[n] \in Side /\ t.kid[n][d[n]] \in X
    OBVIOUS
  <2> DEFINE m == t.kid[n][d[n]]
  <2>4. m \notin D /\ m \in X
    BY <2>2, <2>3
  <2>5. f[m] = g[m]
    <3>1. CASE m \in stop
      BY <1>1, <2>4, <3>1
    <3>2. CASE m \notin stop
      BY <2>4, <3>2
    <3> QED BY <3>1, <3>2
  <2>6. f[n] = f[m] /\ g[n] = g[m]
    BY <1>1, <2>3
  <2> QED BY <2>3, <2>5, <2>6
<1>3. \A n \in X : f[n] = g[n]
  BY <1>1, <1>2
<1> QED BY <1>1, <1>3

\* The last node on one side of a subtree is that of the child there.
LEMMA OutermostStep ==
  ASSUME NEW t, NEW b, Grown(t, b), NEW n \in Nodes, NEW s \in Side, NEW c, t.kid[n][s] = c
  PROVE  /\ c = Null => Nearest(b[n], Opp(s), n)
         /\ c # Null => \A x : Nearest(b[n], Opp(s), x) <=> Nearest(b[c], Opp(s), x)
<1>1. Opp(s) \in Side /\ Opp(Opp(s)) = s
  BY SideFacts
<1>2. /\ b[n] = {n} \cup b[c] \cup b[t.kid[n][Opp(s)]] /\ b[n] \subseteq Nodes /\ n \in b[n]
      /\ c \in OrNull
  BY GrownSides
<1>3. /\ \A y \in b[c] : Beyond(s, Key[y], Key[n])
      /\ \A y \in b[t.kid[n][Opp(s)]] : Beyond(Opp(s), Key[y], Key[n])
      /\ b[Null] = {}
  BY <1>1 DEF Grown, Spanned
<1>4. c = Null => Nearest(b[n], Opp(s), n)
  BY <1>2, <1>3 DEF Nearest
<1>5. ASSUME c # Null, NEW x
      PROVE  Nearest(b[n], Opp(s), x) <=> Nearest(b[c], Opp(s), x)
  <2>1. c \in b[c] /\ c \in Nodes
    <3>1. c \in Nodes
      BY <1>2, <1>5 DEF OrNull
    <3> QED BY <3>1, GrownSides
  <2>2. \A y \in b[n] : Key[y] \in Int
    BY <1>2, KeyFacts
  <2>3. ASSUME NEW y \in b[n] \ b[c], NEW z \in b[c]
        PROVE  Beyond(Opp(s), Key[y], Key[z]) /\ ~Beyond(Opp(s), Key[z], Key[y])
    <3>1. Key[y] \in Int /\ Key[z] \in Int /\ Key[n] \in Int
      BY <1>2, <2>2
    <3>2. Beyond(Opp(s), Key[n], Key[z])
      BY <1>3, <3>1, BeyondFacts
    <3>3. y = n \/ Beyond(Opp(s), Key[y], Key[n])
      BY <1>2, <1>3
    <3>4. Beyond(Opp(s), Key[y], Key[z])
      BY <1>1, <3>1, <3>2, <3>3, BeyondFacts
    <3>5. ~Beyond(Opp(s), Key[z], Key[y])
      BY <1>1, <3>1, <3>4, BeyondFacts
    <3> QED BY <3>4, <3>5
  <2>4. ASSUME Nearest(b[n], Opp(s), x)
        PROVE  Nearest(b[c], Opp(s), x)
    <3>1. x \in b[n] /\ \A y \in b[n] : y = x \/ Beyond(Opp(s), Key[y], Key[x])
      BY <1>2, <2>4 DEF Nearest
    <3>2. x \in b[c]
      <4>1. c = x \/ Beyond(Opp(s), Key[c], Key[x])
        BY <1>2, <2>1, <3>1
      <4> QED BY <2>1, <2>3, <3>1, <4>1
    <3> QED BY <1>2, <3>1, <3>2 DEF Nearest
  <2>5. ASSUME Nearest(b[c], Opp(s), x)
        PROVE  Nearest(b[n], Opp(s), x)
    <3>1. x \in b[c] /\ \A y \in b[c] : y = x \/ Beyond(Opp(s), Key[y], Key[x])
      BY <2>1, <2>5 DEF Nearest
    <3> QED BY <1>2, <2>3, <3>1 DEF Nearest
  <2> QED BY <2>4, <2>5
<1> QED BY <1>4, <1>5

\* The walk to one side of a subtree ends at the last node there.
LEMMA OutermostIs ==
  ASSUME NEW t, NEW b, Grown(t, b), NEW n \in Nodes, NEW s \in Side
  PROVE  Nearest(b[n], Opp(s), Outermost(t, n, s))
<1> DEFINE last(m) == CHOOSE x : Nearest(b[m], Opp(s), x)
           g == [m \in Nodes |-> last(m)]
           stop == {m \in Nodes : t.kid[m][s] = Null}
           d == [m \in Nodes |-> s]
           F(f) == f = [m \in Nodes |-> IF t.kid[m][s] = Null THEN m ELSE f[t.kid[m][s]]]
<1>1. /\ Null \notin Nodes /\ Opp(s) \in Side
      /\ \A m \in Nodes : t.kid[m][s] \in OrNull /\ b[m] \subseteq Nodes
  BY KeyFacts, GrownSides, SideFacts
<1>2. \A m \in Nodes : g[m] = last(m)
  OBVIOUS
<1>3. \A m \in Nodes : t.kid[m][s] = Null => g[m] = m /\ Nearest(b[m], Opp(s), g[m])
  <2> SUFFICES ASSUME NEW m \in Nodes, t.kid[m][s] = Null
               PROVE  g[m] = m /\ Nearest(b[m], Opp(s), g[m])
    OBVIOUS
  <2>1. Nearest(b[m], Opp(s), m)
    BY OutermostStep
  <2>2. Nearest(b[m], Opp(s), last(m))
    BY <2>1
  <2> HIDE DEF last, g
  <2>3. last(m) = m
    BY <1>1, <2>1, <2>2, NearestUnique
  <2> QED BY <1>2, <2>2, <2>3
<1>4. \A m \in Nodes : t.kid[m][s] # Null => g[m] = g[t.kid[m][s]]
  <2> SUFFICES ASSUME NEW m \in Nodes, t.kid[m][s] # Null PROVE g[m] = g[t.kid[m][s]]
    OBVIOUS
  <2> DEFINE c == t.kid[m][s]
  <2>1. c \in Nodes
    BY <1>1 DEF OrNull
  <2>2. \A x : Nearest(b[m], Opp(s), x) <=> Nearest(b[c], Opp(s), x)
    BY OutermostStep
  <2>3. last(m) = last(c)
    BY <2>2
  <2> HIDE DEF last, g, c
  <2>4. g[m] = g[c]
    BY <1>2, <2>1, <2>3
  <2> QED BY <2>4 DEF c
<1>5. \A f : F(f) <=> Follows(t, Nodes, stop, d, f)
  <2> SUFFICES ASSUME NEW f
      PROVE  [m \in Nodes |-> IF t.kid[m][s] = Null THEN m ELSE f[t.kid[m][s]]]
             = [m \in Nodes |-> IF m \in stop THEN m ELSE f[t.kid[m][d[m]]]]
    BY DEF Follows
  <2> QED OBVIOUS
<1>6. F(g)
  <2>1. g = [m \in Nodes |-> g[m]]
    OBVIOUS
  <2> HIDE DEF g, last
  <2>2. \A m \in Nodes : g[m] = IF t.kid[m][s] = Null THEN m ELSE g[t.kid[m][s]]
    BY <1>3, <1>4
  <2> QED BY <2>1, <2>2
<1>7. \A f : F(f) => f = g
  <2>1. \A m \in Nodes \ stop : m \in Nodes /\ d[m] \in Side /\ t.kid[m][d[m]] \in Nodes
    BY <1>1 DEF OrNull
  <2>2. Nodes \subseteq OrNull
    BY DEF OrNull
  <2> HIDE DEF g, stop, d, F
  <2> QED BY <1>5, <1>6, <2>1, <2>2, FollowsOnce
<1>8. Outermost(t, n, s) = g[n]
  <2>1. n # Null
    BY <1>1
  <2>2. Outermost(t, n, s) = (CHOOSE f : F(f))[n]
    BY <2>1 DEF Outermost
  <2> HIDE DEF g, F
  <2>3. (CHOOSE f : F(f)) = g
    BY <1>6, <1>7
  <2> QED BY <2>2, <2>3
<1> HIDE DEF g, last
<1> DEFINE D == {m \in Nodes : ~Nearest(b[m], Opp(s), g[m])}
<1>9. D = {}
  <2> SUFFICES ASSUME D # {} PROVE FALSE
    OBVIOUS
  <2>1. D \subseteq Nodes
    OBVIOUS
  <2>2. PICK m \in D : \A r \in Side : t.kid[m][r] \notin D
    <3> HIDE DEF D
    <3> QED BY <2>1, TreeMin
  <2>3. m \in Nodes /\ ~Nearest(b[m], Opp(s), g[m])
    OBVIOUS
  <2> DEFINE c == t.kid[m][s]
  <2>4. c # Null /\ c \in Nodes
    BY <1>1, <1>3, <2>3 DEF OrNull
  <2>5. Nearest(b[c], Opp(s), g[c])
    BY <2>2, <2>4
  <2>6. g[m] = g[c]
    BY <1>4, <2>3, <2>4
  <2> HIDE DEF c
  <2>7. Nearest(b[m], Opp(s), g[m])
    BY <2>3, <2>4, <2>5, <2>6, OutermostStep DEF c
  <2> QED BY <2>3, <2>7
<1> QED BY <1>8, <1>9

\* Of any nodes in the tree one is not below another one of them.
LEMMA TreeMax ==
  ASSUME NEW t, NEW b, Grown(t, b), NEW D, D \subseteq Placed(t), D # {}
  PROVE  \E n \in D : t.parent[n] \notin D
<1> DEFINE T == {Nodes \ b[n] : n \in D}
           R == StrictSubsetOrdering(Nodes)
<1>1. T \subseteq SUBSET Nodes /\ T # {} /\ D \subseteq Nodes
  BY DEF Placed
<1>2. IsWellFoundedOn(R, SUBSET Nodes)
  BY FS_StrictSubsetOrderingWellFounded, FS_FiniteSubsetsOfFinite, RbTreeAssumption
<1>3. PICK X \in T : \A Y \in T : ~(<<Y, X>> \in R)
  <2> HIDE DEF T, R
  <2> QED BY <1>1, <1>2, WFMin
<1>4. PICK n \in D : X = Nodes \ b[n]
  BY <1>3
<1>5. ASSUME t.parent[n] \in D
      PROVE  FALSE
  <2> DEFINE p == t.parent[n]
             Y == Nodes \ b[p]
  <2>1. n \in Placed(t) /\ n \in Nodes /\ p \in Nodes /\ p \in D
    BY <1>1, <1>5
  <2>2. p # Null /\ n # t.root
    BY <2>1, GrownParent, KeyFacts
  <2>3. PICK s \in Side : t.kid[p][s] = n
    BY <2>1, <2>2, GrownParent
  <2> HIDE DEF p
  <2>4. b[n] \subseteq b[p] /\ p \notin b[n] /\ p \in b[p]
    BY <2>1, <2>3, GrownSides
  <2>5. Y \in T
    BY <2>1
  <2>6. Y \subseteq X /\ Y # X
    BY <1>4, <2>1, <2>4
  <2>7. <<Y, X>> \in R
    <3>1. X \in SUBSET Nodes /\ Y \in SUBSET Nodes
      BY <1>4
    <3> HIDE DEF Y
    <3> QED BY <2>6, <3>1 DEF StrictSubsetOrdering
  <2> QED BY <1>3, <2>5, <2>7
<1> QED BY <1>5

\* Where the climb from m goes, if it is to the side s.
Climbs(t, s, f) ==
  f = [m \in Nodes |-> IF t.parent[m] = Null \/ t.kid[t.parent[m]][s] # m THEN t.parent[m]
                       ELSE f[t.parent[m]]]

\* The climb ends, and in one way only.
LEMMA ClimbsOnce ==
  ASSUME NEW t, NEW b, Grown(t, b), NEW s \in Side,
         NEW f, Climbs(t, s, f), NEW g, Climbs(t, s, g)
  PROVE  f = g
<1> DEFINE D == {m \in Nodes : f[m] # g[m]}
<1>1. /\ f = [m \in Nodes |-> f[m]] /\ g = [m \in Nodes |-> g[m]]
      /\ \A m \in Nodes : f[m] = IF t.parent[m] = Null \/ t.kid[t.parent[m]][s] # m
                                 THEN t.parent[m] ELSE f[t.parent[m]]
      /\ \A m \in Nodes : g[m] = IF t.parent[m] = Null \/ t.kid[t.parent[m]][s] # m
                                 THEN t.parent[m] ELSE g[t.parent[m]]
  BY DEF Climbs
<1>2. ASSUME NEW m \in D
      PROVE  m \in Placed(t) /\ t.parent[m] \in D
  <2>1. m \in Nodes /\ f[m] # g[m]
    OBVIOUS
  <2>2. t.parent[m] # Null /\ t.kid[t.parent[m]][s] = m
    BY <1>1, <2>1
  <2>3. t.parent[m] \in Nodes
    BY <2>1, <2>2 DEF Grown, Trees, OrNull
  <2>4. m \in Placed(t)
    BY <2>1, <2>2, <2>3, GrownKid
  <2>5. f[t.parent[m]] # g[t.parent[m]]
    BY <1>1, <2>1, <2>2
  <2> QED BY <2>3, <2>4, <2>5
<1>3. D = {}
  <2> HIDE DEF D
  <2> QED BY <1>2, TreeMax
<1>4. \A m \in Nodes : f[m] = g[m]
  BY <1>3
<1> QED BY <1>1, <1>4

\* The nodes in the tree on the side s of the subtree of m.
Past(t, b, s, m) == {y \in Placed(t) \ b[m] : Beyond(s, Key[y], Key[m])}

\* How that changes with a step to the parent.
LEMMA PastStep ==
  ASSUME NEW t, NEW b, Grown(t, b), NEW s \in Side, NEW m \in Placed(t)
  PROVE  /\ m = t.root => Past(t, b, s, m) = {}
         /\ m # t.root /\ t.kid[t.parent[m]][s] # m => Nearest(Past(t, b, s, m), s, t.parent[m])
         /\ m # t.root /\ t.kid[t.parent[m]][s] = m => Past(t, b, s, m) = Past(t, b, s, t.parent[m])
<1>1. ASSUME m = t.root
      PROVE  Past(t, b, s, m) = {}
  BY <1>1 DEF Past, Grown, Spanned
<1> DEFINE p == t.parent[m]
<1>2. ASSUME m # t.root
      PROVE  p \in Placed(t) /\ \E r \in Side : t.kid[p][r] = m
  BY <1>2, GrownParent
<1>3. ASSUME NEW r \in Side, m # t.root, t.kid[p][r] = m
      PROVE  /\ p \in Nodes /\ m \in Nodes /\ Opp(r) \in Side
             /\ b[p] = {p} \cup b[m] \cup b[t.kid[p][Opp(r)]]
             /\ p \in b[p] /\ m \in b[m] /\ m \in b[p] /\ p \notin b[m]
             /\ b[m] \cap b[t.kid[p][Opp(r)]] = {}
             /\ Beyond(r, Key[m], Key[p])
             /\ \A y \in b[t.kid[p][Opp(r)]] : Beyond(Opp(r), Key[y], Key[p])
             /\ \A y \in Placed(t) : Key[y] \in Int
             /\ Key[m] \in Int /\ Key[p] \in Int
  <2>1. p \in Nodes /\ m \in Nodes /\ Opp(r) \in Side
    BY <1>2, <1>3, SideFacts DEF Placed
  <2> HIDE DEF p
  <2>2. /\ b[p] = {p} \cup b[m] \cup b[t.kid[p][Opp(r)]]
        /\ p \in b[p] /\ p \notin b[m]
        /\ b[m] \cap b[t.kid[p][Opp(r)]] = {}
    BY <1>3, <2>1, GrownSides
  <2>3. m \in b[m]
    BY <2>1, GrownSides, SideFacts
  <2>4. \A q \in Side : \A y \in b[t.kid[p][q]] : Beyond(q, Key[y], Key[p])
    BY <2>1 DEF Grown, Spanned
  <2>5. \A y \in Placed(t) : Key[y] \in Int
    BY KeyFacts DEF Placed
  <2> QED BY <1>3, <2>1, <2>2, <2>3, <2>4, <2>5, KeyFacts
<1>4. ASSUME m # t.root, t.kid[p][s] # m
      PROVE  Nearest(Past(t, b, s, m), s, p)
  <2>1. t.kid[p][Opp(s)] = m /\ Opp(s) \in Side /\ Opp(Opp(s)) = s
    BY <1>2, <1>4, SideFacts
  <2>2. /\ p \in Nodes /\ m \in Nodes
        /\ b[p] = {p} \cup b[m] \cup b[t.kid[p][s]]
        /\ m \in b[p] /\ p \in b[p] /\ p \notin b[m]
        /\ Beyond(Opp(s), Key[m], Key[p])
        /\ \A y \in b[t.kid[p][s]] : Beyond(s, Key[y], Key[p])
        /\ \A y \in Placed(t) : Key[y] \in Int
        /\ Key[m] \in Int /\ Key[p] \in Int
    BY <1>3, <1>4, <2>1
  <2>3. p \in Placed(t)
    BY <1>2, <1>4
  <2> HIDE DEF p
  <2>4. Beyond(s, Key[p], Key[m])
    BY <2>2, BeyondFacts
  <2>5. ASSUME NEW y \in Placed(t) \ b[m], Beyond(s, Key[y], Key[m])
        PROVE  y = p \/ Beyond(s, Key[y], Key[p])
    <3>1. CASE y \in b[p]
      BY <2>2, <3>1
    <3>2. CASE y \notin b[p]
      BY <2>2, <2>3, <2>5, <3>2, Convex
    <3> QED BY <3>1, <3>2
  <2> QED BY <2>2, <2>3, <2>4, <2>5 DEF Past, Nearest
<1>5. ASSUME m # t.root, t.kid[p][s] = m
      PROVE  Past(t, b, s, m) = Past(t, b, s, p)
  <2>1. /\ p \in Nodes /\ m \in Nodes
        /\ b[p] = {p} \cup b[m] \cup b[t.kid[p][Opp(s)]]
        /\ m \in b[p] /\ p \in b[p] /\ p \notin b[m]
        /\ Beyond(s, Key[m], Key[p])
        /\ \A y \in b[t.kid[p][Opp(s)]] : Beyond(Opp(s), Key[y], Key[p])
        /\ \A y \in Placed(t) : Key[y] \in Int
        /\ Key[m] \in Int /\ Key[p] \in Int
    BY <1>3, <1>5
  <2>2. p \in Placed(t)
    BY <1>2, <1>5
  <2> HIDE DEF p
  <2>3. ASSUME NEW y \in Past(t, b, s, m)
        PROVE  y \in Past(t, b, s, p)
    <3>1. y \in Placed(t) /\ y \notin b[m] /\ Beyond(s, Key[y], Key[m]) /\ Key[y] \in Int
      BY <2>1, <2>3 DEF Past
    <3>2. Beyond(s, Key[y], Key[p])
      BY <2>1, <3>1, BeyondFacts
    <3>3. y \notin b[p]
      <4>1. ~Beyond(Opp(s), Key[y], Key[p]) /\ ~Beyond(s, Key[p], Key[p])
        BY <2>1, <3>1, <3>2, BeyondFacts
      <4> QED BY <2>1, <3>1, <3>2, <4>1
    <3> QED BY <3>1, <3>2, <3>3 DEF Past
  <2>4. ASSUME NEW y \in Past(t, b, s, p)
        PROVE  y \in Past(t, b, s, m)
    <3>1. y \in Placed(t) \ b[p] /\ Beyond(s, Key[y], Key[p])
      BY <2>4 DEF Past
    <3>2. Beyond(s, Key[y], Key[m])
      BY <2>1, <2>2, <3>1, Convex
    <3> QED BY <2>1, <3>1, <3>2 DEF Past
  <2> QED BY <2>3, <2>4
<1> QED BY <1>1, <1>4, <1>5

\* The climb from a node in the tree ends at the node next to its subtree.
LEMMA ClimbIs ==
  ASSUME NEW t, NEW b, Grown(t, b), NEW s \in Side
  PROVE  \E g : /\ Climbs(t, s, g)
                /\ \A m \in Placed(t) : Nearest(Past(t, b, s, m), s, g[m])
<1> DEFINE next(m) == CHOOSE x : Nearest(Past(t, b, s, m), s, x)
           g == [m \in Nodes |-> IF m \notin Placed(t) THEN m ELSE next(m)]
           p(m) == t.parent[m]
<1>1. /\ Null \notin Nodes /\ Placed(t) \subseteq Nodes
      /\ \A m \in Placed(t) : p(m) = Null <=> m = t.root
      /\ \A m \in Placed(t) : m # t.root => p(m) \in Placed(t)
  BY KeyFacts, GrownParent DEF Placed
<1>2. \A m \in Nodes \ Placed(t) : g[m] = m /\ p(m) = m /\ t.kid[m][s] # m
  <2>1. \A m \in Nodes \ Placed(t) : t.kid[m][s] = Null
    BY GrownMembers
  <2> QED BY <1>1, <2>1 DEF Placed
<1>3. \A m \in Placed(t) : g[m] = next(m)
  BY <1>1
<1>4. \A m \in Placed(t) : m = t.root \/ t.kid[p(m)][s] # m =>
        g[m] = p(m) /\ Nearest(Past(t, b, s, m), s, g[m])
  <2> SUFFICES ASSUME NEW m \in Placed(t), m = t.root \/ t.kid[p(m)][s] # m
               PROVE  g[m] = p(m) /\ Nearest(Past(t, b, s, m), s, g[m])
    OBVIOUS
  <2>1. Nearest(Past(t, b, s, m), s, p(m))
    <3>1. CASE m = t.root
      <4>1. Past(t, b, s, m) = {}
        BY <3>1, PastStep
      <4> QED BY <1>1, <3>1, <4>1 DEF Nearest
    <3>2. CASE m # t.root
      BY <3>2, PastStep
    <3> QED BY <3>1, <3>2
  <2>2. Nearest(Past(t, b, s, m), s, next(m))
    BY <2>1
  <2>3. Past(t, b, s, m) \subseteq Nodes
    BY <1>1 DEF Past
  <2> HIDE DEF next, g, p
  <2>4. next(m) = p(m)
    BY <2>1, <2>2, <2>3, NearestUnique
  <2> QED BY <1>3, <2>2, <2>4
<1>5. \A m \in Placed(t) : m # t.root /\ t.kid[p(m)][s] = m =>
        g[m] = g[p(m)] /\ Past(t, b, s, m) = Past(t, b, s, p(m))
  <2> SUFFICES ASSUME NEW m \in Placed(t), m # t.root, t.kid[p(m)][s] = m
               PROVE  g[m] = g[p(m)] /\ Past(t, b, s, m) = Past(t, b, s, p(m))
    OBVIOUS
  <2>1. Past(t, b, s, m) = Past(t, b, s, p(m))
    BY PastStep
  <2>2. next(m) = next(p(m))
    BY <2>1
  <2> HIDE DEF next, g, p
  <2> QED BY <1>1, <1>3, <2>1, <2>2
<1>6. Climbs(t, s, g)
  <2>1. g = [m \in Nodes |-> g[m]]
    OBVIOUS
  <2> HIDE DEF g, next
  <2>2. \A m \in Nodes : g[m] = IF p(m) = Null \/ t.kid[p(m)][s] # m THEN p(m) ELSE g[p(m)]
    <3> SUFFICES ASSUME NEW m \in Nodes
                 PROVE  g[m] = IF p(m) = Null \/ t.kid[p(m)][s] # m THEN p(m) ELSE g[p(m)]
      OBVIOUS
    <3> HIDE DEF p
    <3>1. CASE m \notin Placed(t)
      BY <1>2, <3>1
    <3>2. CASE m \in Placed(t)
      BY <1>1, <1>4, <1>5, <3>2
    <3> QED BY <3>1, <3>2
  <2> QED BY <2>1, <2>2 DEF Climbs
<1> HIDE DEF g, next
<1> DEFINE D == {m \in Placed(t) : ~Nearest(Past(t, b, s, m), s, g[m])}
<1>7. D = {}
  <2> SUFFICES ASSUME D # {} PROVE FALSE
    OBVIOUS
  <2>1. PICK m \in D : t.parent[m] \notin D
    <3>1. D \subseteq Placed(t)
      OBVIOUS
    <3> HIDE DEF D
    <3> QED BY <3>1, TreeMax
  <2>2. m \in Placed(t) /\ ~Nearest(Past(t, b, s, m), s, g[m])
    OBVIOUS
  <2>3. m # t.root /\ t.kid[p(m)][s] = m
    <3> HIDE DEF p
    <3> QED BY <1>4, <2>2
  <2>4. p(m) \in Placed(t)
    BY <1>1, <2>2, <2>3
  <2>5. Nearest(Past(t, b, s, p(m)), s, g[p(m)])
    BY <2>1, <2>4
  <2> HIDE DEF p
  <2> QED BY <1>5, <2>2, <2>3, <2>5
<1> QED BY <1>6, <1>7

\* rb_next and rb_prev: the next node with a key on the side s.
LEMMA BesideIs ==
  ASSUME NEW t, NEW b, Grown(t, b), NEW s \in Side, NEW n \in Placed(t)
  PROVE  Nearest({y \in Placed(t) : Beyond(s, Key[y], Key[n])}, s, Beside(t, n, s))
<1> DEFINE A == {y \in Placed(t) : Beyond(s, Key[y], Key[n])}
           c == t.kid[n][s]
<1>1. /\ n \in Nodes /\ ~EmptyNode(t, n) /\ Opp(s) \in Side /\ Opp(Opp(s)) = s
      /\ \A y \in Placed(t) : Key[y] \in Int
  BY KeyFacts, SideFacts DEF Placed, EmptyNode
<1>2. /\ b[n] = {n} \cup b[c] \cup b[t.kid[n][Opp(s)]] /\ n \in b[n] /\ c \in OrNull
      /\ b[n] \subseteq Placed(t)
  BY <1>1, GrownSides, GrownMembers
<1>3. /\ \A y \in b[c] : Beyond(s, Key[y], Key[n])
      /\ \A y \in b[t.kid[n][Opp(s)]] : Beyond(Opp(s), Key[y], Key[n])
      /\ b[Null] = {}
  BY <1>1 DEF Grown, Spanned
<1>4. A = b[c] \cup Past(t, b, s, n)
  <2>1. ASSUME NEW y \in b[n] \ b[c]
        PROVE  ~Beyond(s, Key[y], Key[n])
    <3>1. Key[y] \in Int /\ Key[n] \in Int
      BY <1>1, <1>2
    <3>2. y = n \/ Beyond(Opp(s), Key[y], Key[n])
      BY <1>2, <1>3
    <3> QED BY <1>1, <3>1, <3>2, BeyondFacts
  <2> QED BY <1>2, <1>3, <2>1 DEF Past
<1>5. ASSUME c # Null
      PROVE  Nearest(A, s, Beside(t, n, s))
  <2>1. c \in Nodes
    BY <1>2, <1>5 DEF OrNull
  <2>2. Beside(t, n, s) = Outermost(t, c, Opp(s))
    BY <1>1, <1>5 DEF Beside
  <2> DEFINE x == Outermost(t, c, Opp(s))
  <2>3. Nearest(b[c], s, x)
    BY <1>1, <2>1, OutermostIs
  <2>4. c \in b[c]
    BY <2>1, GrownSides, SideFacts
  <2> HIDE DEF c, x, A
  <2>5. x \in b[c] /\ \A y \in b[c] : y = x \/ Beyond(s, Key[y], Key[x])
    BY <2>3, <2>4 DEF Nearest
  <2>6. ASSUME NEW y \in Past(t, b, s, n)
        PROVE  Beyond(s, Key[y], Key[x])
    <3>1. x \in b[n] /\ n \in b[n] /\ y \in Placed(t) \ b[n] /\ Beyond(s, Key[y], Key[n])
      BY <1>2, <2>5, <2>6 DEF Past
    <3> QED BY <3>1, Convex
  <2>7. Nearest(A, s, x)
    BY <1>4, <2>5, <2>6 DEF Nearest
  <2> QED BY <2>2, <2>7 DEF x
<1>6. ASSUME c = Null
      PROVE  Nearest(A, s, Beside(t, n, s))
  <2> DEFINE F(f) == f = [m \in Nodes |-> LET p == t.parent[m]
                                          IN  IF p = Null \/ t.kid[p][s] # m THEN p ELSE f[p]]
  <2>1. \A f : F(f) <=> Climbs(t, s, f)
    BY DEF Climbs
  <2>2. PICK g : /\ Climbs(t, s, g)
                 /\ \A m \in Placed(t) : Nearest(Past(t, b, s, m), s, g[m])
    BY ClimbIs
  <2>3. Beside(t, n, s) = (CHOOSE f : F(f))[n]
    BY <1>1, <1>6 DEF Beside
  <2> HIDE DEF F
  <2>4. F(CHOOSE f : F(f))
    BY <2>1, <2>2
  <2>5. (CHOOSE f : F(f)) = g
    BY <2>1, <2>2, <2>4, ClimbsOnce
  <2>6. A = Past(t, b, s, n)
    BY <1>3, <1>4, <1>6
  <2> HIDE DEF A
  <2> QED BY <2>2, <2>3, <2>5, <2>6
<1> QED BY <1>5, <1>6

=============================================================================
