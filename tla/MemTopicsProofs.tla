-------------------------- MODULE MemTopicsProofs --------------------------
(***************************************************************************)
(* The trees of the topics provider keep their shape, implement the        *)
(* TopicStore, and find exactly what matches, for every set of             *)
(* subscriptions, topics and messages.                                     *)
(***************************************************************************)
EXTENDS MemTopics, WellFoundedInduction, TLAPS

(* The names of nodes: what the levels of a readable topic become. *)
Levels == Words \cup {SWC, MWC}
Named(tree) == DOMAIN tree \subseteq Seq(Levels)

(* A subscription sits at the node of its own filter, and that is readable. *)
Placed == \A n \in DOMAIN stree : \A s \in stree[n] : Valid(s.topic) /\ Path(s.topic) = n

TreesInv == TypeOK /\ Placed /\ Named(stree) /\ Named(rtree)

-----------------------------------------------------------------------------
(* All of a sequence but its last element. *)
LEMMA FrontOf ==
  ASSUME NEW S, NEW s \in Seq(S), s # <<>>
  PROVE  /\ Len(s) \in Nat /\ Len(s) > 0
         /\ Front(s) \in Seq(S) /\ Len(Front(s)) = Len(s) - 1
         /\ \A i \in 1 .. Len(s) - 1 : Front(s)[i] = s[i]
<1>1. Len(s) \in Nat /\ Len(s) > 0
  OBVIOUS
<1>2. PICK m \in Nat : Len(s) = m + 1
  BY <1>1
<1>3. Front(s) = SubSeq(s, 1, m)
  BY <1>2 DEF Front
<1>4. /\ SubSeq(s, 1, m) \in Seq(S) /\ Len(SubSeq(s, 1, m)) = m
      /\ \A i \in 1 .. m : SubSeq(s, 1, m)[i] = s[i]
  BY <1>2
<1> QED
  BY <1>1, <1>2, <1>3, <1>4

(* The path of a topic is a sequence of keys, as long as the topic or one
   level shorter. *)
LEMMA PathOfTopic ==
  ASSUME NEW t \in Seq(RawLevels)
  PROVE  /\ Path(t) \in Seq(RawLevels) /\ Len(Path(t)) <= Len(t) /\ Len(Path(t)) \in Nat
         /\ \A i \in 1 .. Len(Path(t)) : t[i] \in RawLevels /\ Path(t)[i] = Key(t[i])
<1>1. Trim(t) \in Seq(RawLevels) /\ Len(Trim(t)) <= Len(t)
  <2>1. CASE t # <<>>
    <3>1. Len(t) \in Nat /\ Front(t) \in Seq(RawLevels) /\ Len(Front(t)) = Len(t) - 1
      BY <2>1, FrontOf
    <3> DEFINE x == Front(t)
    <3> HIDE DEF x
    <3>2. x \in Seq(RawLevels) /\ Len(x) <= Len(t) /\ Len(t) \in Nat
      BY <3>1 DEF x
    <3>3. Trim(t) = x \/ Trim(t) = t
      BY DEF Trim, x
    <3> QED
      BY <3>2, <3>3
  <2>2. CASE t = <<>>
    BY <2>2 DEF Trim
  <2> QED
    BY <2>1, <2>2
<1>2. DOMAIN Trim(t) = 1 .. Len(Trim(t)) /\ Len(Trim(t)) \in Nat /\ Len(t) \in Nat
  BY <1>1
<1>3. \A i \in 1 .. Len(Trim(t)) : t[i] \in RawLevels
  BY <1>1, <1>2
<1>4. \A i \in 1 .. Len(Trim(t)) : Key(t[i]) \in RawLevels
  BY <1>3 DEF Key, RawLevels
<1>5. Path(t) = [i \in 1 .. Len(Trim(t)) |-> Key(t[i])]
  BY <1>2 DEF Path
<1> QED
  BY <1>1, <1>2, <1>3, <1>4, <1>5

(* The nodes on the way to a topic: prefixes of its path whose levels are all
   readable, each with its parent; and the node of a valid topic. *)
LEMMA NodesOnTheWay ==
  ASSUME NEW t \in Seq(RawLevels)
  PROVE  /\ Way(t) \subseteq Seq(Levels)
         /\ \A n \in Way(t) :
              /\ n = <<>> \/ Front(n) \in Way(t)
              /\ \A i \in DOMAIN n : n[i] \in Levels /\ (n[i] = MWC => i = Len(n))
              /\ IsPrefix(n, Path(t))
         /\ Valid(t) => Path(t) \in Way(t)
<1> DEFINE p == Path(t)
<1>1. /\ p \in Seq(RawLevels) /\ Len(p) <= Len(t) /\ Len(p) \in Nat /\ Len(t) \in Nat
      /\ \A i \in 1 .. Len(p) : t[i] \in RawLevels /\ p[i] = Key(t[i])
  BY PathOfTopic
<1> HIDE DEF p
<1>2. \A l \in 0 .. Len(p) :
        /\ SubSeq(p, 1, l) \in Seq(RawLevels) /\ Len(SubSeq(p, 1, l)) = l
        /\ DOMAIN SubSeq(p, 1, l) = 1 .. l
        /\ \A i \in 1 .. l : SubSeq(p, 1, l)[i] = p[i]
  BY <1>1
<1>3. \A i \in 1 .. Len(p) : Good(t, i) => p[i] \in Levels /\ (p[i] = MWC => i = Len(t))
  BY <1>1, MemTopicsAssumption DEF Good, Key, Levels, RawLevels, SWC, MWC
<1>4. ASSUME NEW n \in Way(t)
      PROVE  /\ n \in Seq(Levels) /\ (n = <<>> \/ Front(n) \in Way(t))
             /\ \A i \in DOMAIN n : n[i] \in Levels /\ (n[i] = MWC => i = Len(n))
             /\ IsPrefix(n, p)
  <2>1. PICK l \in 0 .. Len(p) : n = SubSeq(p, 1, l)
    BY <1>4 DEF Way, Prefixes, p
  <2>2. n \in Seq(RawLevels) /\ Len(n) = l /\ DOMAIN n = 1 .. l /\ \A i \in 1 .. l : n[i] = p[i]
    BY <1>2, <2>1
  <2>3. \A i \in 1 .. l : Good(t, i)
    BY <1>4, <2>2 DEF Way
  <2>4. \A i \in DOMAIN n : n[i] \in Levels /\ (n[i] = MWC => i = Len(n))
    BY <1>1, <1>3, <2>2, <2>3
  <2>5. n \in Seq(Levels)
    BY <2>2, <2>4
  <2>6. n = <<>> \/ Front(n) \in Way(t)
    <3> SUFFICES ASSUME n # <<>> PROVE Front(n) \in Way(t)
      OBVIOUS
    <3>1. l > 0 /\ l - 1 \in 0 .. Len(p)
      BY <1>1, <2>2
    <3>2. Front(n) = SubSeq(p, 1, l - 1)
      <4> DEFINE x == SubSeq(p, 1, l - 1)
      <4>1. x \in Seq(RawLevels) /\ Len(x) = l - 1 /\ \A i \in 1 .. l - 1 : x[i] = p[i]
        BY <1>2, <3>1
      <4>2. /\ Front(n) \in Seq(RawLevels) /\ Len(Front(n)) = l - 1
            /\ \A i \in 1 .. l - 1 : Front(n)[i] = n[i]
        BY <2>2, FrontOf
      <4> HIDE DEF x
      <4>3. ASSUME NEW i \in 1 .. l - 1 PROVE Front(n)[i] = x[i]
        <5>1. i \in 1 .. l
          BY <3>1
        <5>2. Front(n)[i] = n[i] /\ n[i] = p[i] /\ x[i] = p[i]
          BY <2>2, <4>1, <4>2, <5>1
        <5> QED BY <5>2
      <4>4. DOMAIN x = 1 .. l - 1 /\ DOMAIN Front(n) = 1 .. l - 1
        BY <4>1, <4>2
      <4>5. x = [i \in 1 .. l - 1 |-> x[i]] /\ Front(n) = [i \in 1 .. l - 1 |-> Front(n)[i]]
        BY <4>1, <4>2, <4>4
      <4>6. Front(n) = x
        BY <4>3, <4>5
      <4> QED
        BY <4>6 DEF x
    <3>3. \A i \in DOMAIN Front(n) : Good(t, i)
      BY <1>2, <2>3, <3>1, <3>2
    <3> QED
      BY <3>1, <3>2, <3>3 DEF Way, Prefixes, p
  <2>7. IsPrefix(n, p)
    <3>1. SubSeq(n, 1, Len(n)) = n
      BY <2>2
    <3> QED
      BY <2>1, <2>2, <3>1 DEF IsPrefix
  <2> QED
    BY <2>4, <2>5, <2>6, <2>7
<1>5. Valid(t) => p \in Way(t)
  <2>1. SubSeq(p, 1, Len(p)) = p /\ Len(p) \in 0 .. Len(p)
    BY <1>1
  <2>2. p \in Prefixes(p)
    BY <2>1 DEF Prefixes
  <2> QED
    BY <2>2 DEF Valid, Way, p
<1> QED
  BY <1>4, <1>5 DEF p

(* What lies below a node's parent's ancestor lies below the ancestor. *)
LEMMA BelowParent ==
  ASSUME NEW d \in Seq(Levels), NEW n \in Seq(Levels), n # <<>>, IsPrefix(d, Front(n))
  PROVE  IsPrefix(d, n)
<1> DEFINE f == Front(n)
<1>1. Len(n) \in Nat /\ Len(n) > 0 /\ Len(d) \in Nat
  OBVIOUS
<1>2. f \in Seq(Levels) /\ Len(f) = Len(n) - 1 /\ \A i \in 1 .. Len(n) - 1 : f[i] = n[i]
  BY FrontOf
<1>3. Len(d) <= Len(f) /\ SubSeq(d, 1, Len(d)) = SubSeq(f, 1, Len(d))
  BY DEF IsPrefix
<1> HIDE DEF f
<1>4. SubSeq(f, 1, Len(d)) = SubSeq(n, 1, Len(d))
  <2> DEFINE x == SubSeq(f, 1, Len(d))   y == SubSeq(n, 1, Len(d))
  <2>1. x \in Seq(Levels) /\ Len(x) = Len(d) /\ \A i \in 1 .. Len(d) : x[i] = f[i]
    BY <1>1, <1>2, <1>3
  <2>2. y \in Seq(Levels) /\ Len(y) = Len(d) /\ \A i \in 1 .. Len(d) : y[i] = n[i]
    BY <1>1, <1>2, <1>3
  <2> HIDE DEF x, y
  <2>3. \A i \in 1 .. Len(d) : x[i] = y[i]
    BY <1>1, <1>2, <1>3, <2>1, <2>2
  <2>4. x = y
    BY <2>1, <2>2, <2>3
  <2> QED
    BY <2>4 DEF x, y
<1> QED
  BY <1>1, <1>2, <1>3, <1>4 DEF IsPrefix

-----------------------------------------------------------------------------
(* Growing a tree towards a topic keeps its shape; cutting branches does too. *)
LEMMA GrowKeepsShape ==
  ASSUME NEW tree, NEW t \in Seq(RawLevels), NEW bare, NEW x, TreeShape(tree), Named(tree)
  PROVE  /\ TreeShape(Put(tree, t, bare, x)) /\ Named(Put(tree, t, bare, x))
         /\ DOMAIN Put(tree, t, bare, x) = DOMAIN tree \cup Way(t)
<1>1. DOMAIN Put(tree, t, bare, x) = DOMAIN tree \cup Way(t)
  BY DEF Put, Grow
<1>2. \A n \in Way(t) :
        /\ n = <<>> \/ Front(n) \in Way(t)
        /\ \A i \in DOMAIN n : n[i] \in Levels /\ (n[i] = MWC => i = Len(n))
  BY NodesOnTheWay
<1>3. Way(t) \subseteq Seq(Levels)
  BY NodesOnTheWay
<1> QED
  BY <1>1, <1>2, <1>3 DEF TreeShape, Named, Levels

(* and so does a tree without some branches. *)
LEMMA CutKeepsShape ==
  ASSUME NEW tree, NEW dead, TreeShape(tree), Named(tree), dead \subseteq Seq(Levels)
  PROVE  TreeShape(Cut(tree, dead)) /\ Named(Cut(tree, dead))
<1> DEFINE rest == DOMAIN tree \ UNION {Below(tree, d) : d \in dead}
<1>1. DOMAIN Cut(tree, dead) = rest
  BY DEF Cut
<1>2. ASSUME NEW n \in rest, n # <<>>, Front(n) \notin rest
      PROVE  FALSE
  <2>1. n \in DOMAIN tree /\ Front(n) \in DOMAIN tree /\ n \in Seq(Levels)
    BY <1>2 DEF TreeShape, Named
  <2>2. PICK d \in dead : Front(n) \in Below(tree, d)
    BY <1>2, <2>1
  <2>3. IsPrefix(d, n)
    BY <1>2, <2>1, <2>2, BelowParent DEF Below
  <2> QED
    BY <1>2, <2>1, <2>2, <2>3 DEF Below
<1> QED
  BY <1>1, <1>2 DEF TreeShape, Named

(* What the nodes hold after growing and after cutting. *)
LEMMA PutValues ==
  ASSUME NEW tree, NEW t \in Seq(RawLevels), NEW bare, NEW x
  PROVE  \A n \in DOMAIN tree \cup Way(t) :
           Put(tree, t, bare, x)[n] =
             IF Valid(t) /\ n = Path(t) THEN x ELSE IF n \in DOMAIN tree THEN tree[n] ELSE bare
<1>1. Valid(t) => Path(t) \in Way(t)
  BY NodesOnTheWay
<1> QED
  BY <1>1 DEF Put, Grow

(* The values of a tree without some branches. *)
LEMMA CutValues ==
  ASSUME NEW tree, NEW dead
  PROVE  \A n \in DOMAIN Cut(tree, dead) : n \in DOMAIN tree /\ Cut(tree, dead)[n] = tree[n]
BY DEF Cut

(* The dead nodes lie on the way to the topic, and nothing but what is on that
   way goes with them; in the tree of subscriptions, it is all empty. *)
LEMMA DeadNodes ==
  ASSUME NEW tree, NEW t \in Seq(RawLevels)
  PROVE  /\ RDead(tree, t) \subseteq Seq(Levels) /\ SDead(tree, t) \subseteq Seq(Levels)
         /\ \A n \in DOMAIN tree \ DOMAIN Cut(tree, RDead(tree, t)) : n \in Way(t)
         /\ \A n \in DOMAIN tree \ DOMAIN Cut(tree, SDead(tree, t)) : tree[n] = {}
<1>1. Way(t) \subseteq Seq(Levels)
  BY NodesOnTheWay
<1> QED
  BY <1>1 DEF RDead, SDead, Cut

(* Every subscription of the instance has a topic, and so has every PUBLISH. *)
LEMMA Topics ==
  /\ \A s \in Subs : s.topic \in Seq(RawLevels)
  /\ \A t \in TopicNames : t \in Seq(RawLevels)
BY MemTopicsAssumption

-----------------------------------------------------------------------------
(* The invariant. *)
LEMMA TreesInit == Init => TreesInv
<1> SUFFICES ASSUME Init PROVE TreesInv
  OBVIOUS
<1>1. DOMAIN stree = {<<>>} /\ DOMAIN rtree = {<<>>} /\ stree[<<>>] = {} /\ rtree[<<>>] = None
  BY DEF Init
<1>2. <<>> \in Seq(Levels) /\ DOMAIN <<>> = {}
  OBVIOUS
<1> QED
  BY <1>1, <1>2 DEF TreesInv, TypeOK, TreeShape, Named, Placed

(* Subscribe keeps the trees in shape. *)
LEMMA SubscribeKeeps ==
  ASSUME TreesInv, NEW s \in Subs, Subscribe(s)
  PROVE  TreesInv'
<1> DEFINE t == s.topic   x == SubscribersAt(t) \cup {s}
<1>1. t \in Seq(RawLevels)
  BY Topics
<1>2. stree' = Put(stree, t, {}, x) /\ rtree' = rtree
  BY DEF Subscribe
<1>3. TreeShape(stree') /\ Named(stree') /\ DOMAIN stree' = DOMAIN stree \cup Way(t)
  BY <1>1, <1>2, GrowKeepsShape DEF TreesInv, TypeOK
<1>4. \A n \in DOMAIN stree' :
        stree'[n] = IF Valid(t) /\ n = Path(t) THEN x ELSE IF n \in DOMAIN stree THEN stree[n] ELSE {}
  BY <1>1, <1>2, <1>3, PutValues
<1>5. x \subseteq Subs /\ \A u \in x \ {s} : Valid(u.topic) /\ Path(u.topic) = Path(t)
  BY DEF TreesInv, TypeOK, Placed, SubscribersAt
<1>6. (\A n \in DOMAIN stree' : stree'[n] \subseteq Subs) /\ Placed'
  <2> HIDE DEF x
  <2> QED
    BY <1>3, <1>4, <1>5 DEF TreesInv, TypeOK, Placed
<1> QED
  BY <1>2, <1>3, <1>6 DEF TreesInv, TypeOK

(* So does Unsubscribe, *)
LEMMA UnsubscribeKeeps ==
  ASSUME TreesInv, NEW s \in Subs, Unsubscribe(s)
  PROVE  TreesInv'
<1> DEFINE t == s.topic   left == [stree EXCEPT ![Path(t)] = @ \ {s}]
<1>1. t \in Seq(RawLevels)
  BY Topics
<1>2. stree' = Cut(left, SDead(left, t)) /\ rtree' = rtree
  BY DEF Unsubscribe
<1>3. DOMAIN left = DOMAIN stree /\ \A n \in DOMAIN stree : left[n] \subseteq stree[n]
  OBVIOUS
<1> HIDE DEF left
<1>4. TreeShape(left) /\ Named(left)
  BY <1>3 DEF TreesInv, TypeOK, TreeShape, Named
<1>5. TreeShape(stree') /\ Named(stree')
  BY <1>1, <1>2, <1>4, DeadNodes, CutKeepsShape
<1>6. \A n \in DOMAIN stree' : n \in DOMAIN stree /\ stree'[n] \subseteq stree[n]
  BY <1>2, <1>3, CutValues
<1> QED
  BY <1>2, <1>5, <1>6 DEF TreesInv, TypeOK, Placed

(* so does Retain with a message, *)
LEMMA RetainKeeps ==
  ASSUME TreesInv, NEW t \in TopicNames, NEW m \in Messages, Retain(t, m)
  PROVE  TreesInv'
<1>1. t \in Seq(RawLevels)
  BY Topics
<1>2. rtree' = Put(rtree, t, None, m) /\ stree' = stree
  BY DEF Retain
<1>3. TreeShape(rtree') /\ Named(rtree') /\ DOMAIN rtree' = DOMAIN rtree \cup Way(t)
  BY <1>1, <1>2, GrowKeepsShape DEF TreesInv, TypeOK
<1>4. \A n \in DOMAIN rtree' : rtree'[n] \in Messages \cup {None}
  BY <1>1, <1>2, <1>3, PutValues DEF TreesInv, TypeOK
<1> QED
  BY <1>2, <1>3, <1>4 DEF TreesInv, TypeOK, Placed

(* and so does Retain without one. *)
LEMMA ClearKeeps ==
  ASSUME TreesInv, NEW t \in TopicNames, Clear(t)
  PROVE  TreesInv'
<1> DEFINE left == [rtree EXCEPT ![Path(t)] = None]
<1>1. t \in Seq(RawLevels)
  BY Topics
<1>2. rtree' = Cut(left, RDead(rtree, t)) /\ stree' = stree
  BY DEF Clear
<1>3. /\ DOMAIN left = DOMAIN rtree
      /\ \A n \in DOMAIN rtree : left[n] \in {rtree[n], None}
  OBVIOUS
<1> HIDE DEF left
<1>4. TreeShape(left) /\ Named(left)
  BY <1>3 DEF TreesInv, TypeOK, TreeShape, Named
<1>5. TreeShape(rtree') /\ Named(rtree')
  BY <1>1, <1>2, <1>4, DeadNodes, CutKeepsShape
<1>6. \A n \in DOMAIN rtree' : rtree'[n] \in Messages \cup {None}
  BY <1>2, <1>3, CutValues DEF TreesInv, TypeOK
<1> QED
  BY <1>2, <1>5, <1>6 DEF TreesInv, TypeOK, Placed

(* So every step does, *)
LEMMA TreesNext == TreesInv /\ [Next]_vars => TreesInv'
<1> SUFFICES ASSUME TreesInv, [Next]_vars PROVE TreesInv'
  OBVIOUS
<1>1. CASE UNCHANGED vars
  BY <1>1 DEF vars, TreesInv, TypeOK, TreeShape, Named, Placed
<1>2. CASE Next
  BY <1>2, SubscribeKeeps, UnsubscribeKeeps, RetainKeeps, ClearKeeps DEF Next
<1> QED
  BY <1>1, <1>2

(* and the trees are always in shape. *)
LEMMA TreesAlways == Spec => []TreesInv
BY TreesInit, TreesNext, PTL DEF Spec

(* The trees keep their shape: whatever has been subscribed, refused, retained
   and removed, each node has its parent, names a readable path, and holds
   subscriptions, or a message or none. *)
THEOREM TreesTypeOK == Spec => []TypeOK
<1>1. TreesInv => TypeOK
  BY DEF TreesInv
<1> QED
  BY <1>1, TreesAlways, PTL

-----------------------------------------------------------------------------
(* The refinement. *)
LEMMA StoreInit == Init => Store!Init
<1> SUFFICES ASSUME Init PROVE Store!Init
  OBVIOUS
<1>1. DOMAIN stree = {<<>>} /\ DOMAIN rtree = {<<>>} /\ stree[<<>>] = {} /\ rtree[<<>>] = None
  BY DEF Init
<1> QED
  BY <1>1 DEF Store!Init, Subscribed, RetainedAt

(* A subscription enters the store, or, refused, changes nothing there. *)
LEMMA SubscribeRefines ==
  ASSUME TreesInv, NEW s \in Subs, Subscribe(s)
  PROVE  Store!Next \/ UNCHANGED <<Subscribed, RetainedAt>>
<1> DEFINE t == s.topic   x == SubscribersAt(t) \cup {s}
<1>1. t \in Seq(RawLevels)
  BY Topics
<1>2. stree' = Put(stree, t, {}, x) /\ rtree' = rtree
  BY DEF Subscribe
<1>3. DOMAIN stree' = DOMAIN stree \cup Way(t) /\ (Valid(t) => Path(t) \in Way(t))
  BY <1>1, <1>2, NodesOnTheWay, GrowKeepsShape DEF TreesInv, TypeOK
<1>4. \A n \in DOMAIN stree' :
        stree'[n] = IF Valid(t) /\ n = Path(t) THEN x ELSE IF n \in DOMAIN stree THEN stree[n] ELSE {}
  BY <1>1, <1>2, <1>3, PutValues
<1>5. RetainedAt' = RetainedAt
  BY <1>2 DEF RetainedAt
<1>6. CASE Valid(t)
  <2>1. Subscribed' = Subscribed \cup {s}
    <3>1. \A u \in Subscribed' : u \in Subscribed \cup {s}
      BY <1>3, <1>4 DEF Subscribed, SubscribersAt
    <3>2. \A u \in Subscribed : u \in Subscribed'
      BY <1>3, <1>4 DEF Subscribed, SubscribersAt
    <3>3. s \in Subscribed'
      BY <1>3, <1>4, <1>6 DEF Subscribed
    <3> QED
      BY <3>1, <3>2, <3>3
  <2> QED
    BY <1>5, <1>6, <2>1 DEF Store!Next, Store!Subscribe
<1>7. CASE ~Valid(t)
  <2>1. Subscribed' = Subscribed
    <3> HIDE DEF x
    <3> QED
      BY <1>3, <1>4, <1>7 DEF Subscribed
  <2> QED
    BY <1>5, <2>1
<1> QED
  BY <1>6, <1>7

(* A removed subscription leaves the store alone: the branches that go with it
   hold no other. *)
LEMMA UnsubscribeRefines ==
  ASSUME TreesInv, NEW s \in Subs, Unsubscribe(s)
  PROVE  Store!Next
<1> DEFINE t == s.topic   left == [stree EXCEPT ![Path(t)] = @ \ {s}]   dead == SDead(left, t)
<1>1. t \in Seq(RawLevels)
  BY Topics
<1>2. stree' = Cut(left, dead) /\ rtree' = rtree /\ Valid(t) /\ s \in SubscribersAt(t)
  BY DEF Unsubscribe
<1>3. Path(t) \in DOMAIN stree /\ s \in stree[Path(t)]
  BY <1>2 DEF SubscribersAt
<1>4. \A n \in DOMAIN stree : left[n] = stree[n] \ {s}
  BY <1>3 DEF TreesInv, Placed
<1>5. DOMAIN left = DOMAIN stree
  OBVIOUS
<1> HIDE DEF left
<1>6. \A n \in DOMAIN left \ DOMAIN Cut(left, dead) : left[n] = {}
  BY <1>1, DeadNodes
<1>7. \A n \in DOMAIN stree' : n \in DOMAIN left /\ stree'[n] = left[n]
  BY <1>2, CutValues
<1>8. Subscribed' = Subscribed \ {s}
  <2>1. \A u \in Subscribed' : u \in Subscribed \ {s}
    BY <1>4, <1>5, <1>7 DEF Subscribed
  <2>2. ASSUME NEW u \in Subscribed \ {s} PROVE u \in Subscribed'
    <3>1. PICK n \in DOMAIN stree : u \in stree[n]
      BY DEF Subscribed
    <3>2. u \in left[n] /\ n \in DOMAIN left
      BY <1>4, <1>5, <2>2, <3>1
    <3>3. n \in DOMAIN stree'
      BY <1>2, <1>6, <3>2
    <3> QED
      BY <1>7, <3>2, <3>3 DEF Subscribed
  <2> QED
    BY <2>1, <2>2
<1>9. RetainedAt' = RetainedAt /\ s \in Subscribed
  BY <1>2, <1>3 DEF RetainedAt, Subscribed
<1> QED
  BY <1>2, <1>8, <1>9 DEF Store!Next, Store!Unsubscribe

(* Retain is the store's Retain. *)
LEMMA RetainRefines ==
  ASSUME TreesInv, NEW t \in TopicNames, NEW m \in Messages, Retain(t, m)
  PROVE  Store!Next \/ UNCHANGED <<Subscribed, RetainedAt>>
<1>1. t \in Seq(RawLevels) /\ Path(t) \in TopicPaths
  BY Topics DEF TopicPaths
<1>2. rtree' = Put(rtree, t, None, m) /\ stree' = stree
  BY DEF Retain
<1>3. DOMAIN rtree' = DOMAIN rtree \cup Way(t) /\ (Valid(t) => Path(t) \in Way(t))
  BY <1>1, <1>2, NodesOnTheWay, GrowKeepsShape DEF TreesInv, TypeOK
<1>4. \A n \in DOMAIN rtree' :
        rtree'[n] = IF Valid(t) /\ n = Path(t) THEN m ELSE IF n \in DOMAIN rtree THEN rtree[n] ELSE None
  BY <1>1, <1>2, <1>3, PutValues
<1>5. Subscribed' = Subscribed
  BY <1>2 DEF Subscribed
<1>6. CASE Valid(t)
  <2>1. RetainedAt' = [RetainedAt EXCEPT ![Path(t)] = m]
    BY <1>1, <1>3, <1>4, <1>6 DEF RetainedAt
  <2> QED
    BY <1>1, <1>5, <2>1 DEF Store!Next, Store!Retain
<1>7. CASE ~Valid(t)
  <2>1. RetainedAt' = RetainedAt
    BY <1>3, <1>4, <1>7 DEF RetainedAt
  <2> QED
    BY <1>5, <2>1
<1> QED
  BY <1>6, <1>7

(* What goes with a cleared topic was retained above it: only nodes on the way
   to it are cut. *)
LEMMA ClearRefines ==
  ASSUME TreesInv, NEW t \in TopicNames, Clear(t)
  PROVE  Store!Next
<1> DEFINE p == Path(t)   dead == RDead(rtree, t)   left == [rtree EXCEPT ![p] = None]
           lost == {q \in TopicPaths \ {p} : q \in DOMAIN rtree \ DOMAIN rtree'}
<1>1. t \in Seq(RawLevels) /\ p \in TopicPaths
  BY Topics DEF TopicPaths
<1>2. rtree' = Cut(left, dead) /\ stree' = stree /\ p \in DOMAIN rtree
  BY DEF Clear
<1>3. DOMAIN left = DOMAIN rtree /\ \A n \in DOMAIN rtree : left[n] = IF n = p THEN None ELSE rtree[n]
  OBVIOUS
<1> HIDE DEF left, p
<1>4. \A n \in DOMAIN rtree' : n \in DOMAIN rtree /\ rtree'[n] = IF n = p THEN None ELSE rtree[n]
  BY <1>2, <1>3, CutValues
<1>5. \A n \in DOMAIN rtree \ DOMAIN rtree' : n \in Way(t)
  <2>1. DOMAIN Cut(left, dead) = DOMAIN Cut(rtree, dead)
    BY <1>3 DEF Cut, Below
  <2>2. \A n \in DOMAIN rtree \ DOMAIN Cut(rtree, dead) : n \in Way(t)
    BY <1>1, DeadNodes
  <2> QED
    BY <1>2, <2>1, <2>2
<1>6. lost \in SUBSET PathsAbove[p]
  <2>1. \A n \in Way(t) : IsPrefix(n, p)
    BY <1>1, NodesOnTheWay DEF p
  <2> QED
    BY <1>1, <1>5, <2>1 DEF PathsAbove
<1>7. RetainedAt' = [q \in TopicPaths |-> IF q \in lost \cup {p} THEN None ELSE RetainedAt[q]]
  <2>1. \A q \in TopicPaths :
          (IF q \in DOMAIN rtree' THEN rtree'[q] ELSE None)
            = IF q \in lost \cup {p} THEN None ELSE IF q \in DOMAIN rtree THEN rtree[q] ELSE None
    BY <1>4
  <2> QED
    BY <2>1 DEF RetainedAt
<1>8. Subscribed' = Subscribed
  BY <1>2 DEF Subscribed
<1>9. Store!Clear(p)
  BY <1>6, <1>7, <1>8 DEF Store!Clear
<1> QED
  BY <1>1, <1>9 DEF Store!Next

(* The trees implement the store. *)
THEOREM TreesImplementTheStore == Spec => ImplementsStore
<1>1. TreesInv /\ [Next]_vars => [Store!Next]_<<Subscribed, RetainedAt>>
  <2> SUFFICES ASSUME TreesInv, [Next]_vars
      PROVE  Store!Next \/ UNCHANGED <<Subscribed, RetainedAt>>
    OBVIOUS
  <2>1. CASE UNCHANGED vars
    BY <2>1 DEF vars, Subscribed, RetainedAt
  <2>2. CASE Next
    BY <2>2, SubscribeRefines, UnsubscribeRefines, RetainRefines, ClearRefines DEF Next
  <2> QED
    BY <2>1, <2>2
<1> QED
  BY <1>1, StoreInit, TreesAlways, PTL DEF Spec, ImplementsStore, Store!Spec

-----------------------------------------------------------------------------
(* What the walks of smatch and rmatch find.  Each is a recursive function on
   the nodes; that it is the only solution of its equation, and which one it
   is, follows from the depth of a tree being bounded. *)

(* A set of numbers has a least one, and a set of things that are measured by
   numbers one of least measure. *)
LEMMA LeastNumber ==
  ASSUME NEW T, T \subseteq Nat, T # {}
  PROVE  \E x \in T : \A y \in T : x <= y
<1> DEFINE R == OpToRel(<, Nat)
<1>1. IsWellFoundedOn(R, Nat)
  BY NatLessThanWellFounded, Zenon
<1>2. \A x, y \in Nat : x < y => <<x, y>> \in R
  BY DEF OpToRel
<1> HIDE DEF R
<1>3. PICK x \in T : \A y \in T : ~ (<<y, x>> \in R)
  BY <1>1, WFMin
<1>4. \A y \in T : ~ (y < x)
  BY <1>2, <1>3
<1>5. \A y \in T : x <= y
  BY <1>4
<1> QED
  BY <1>5

(* A set of nodes has one of least measure. *)
LEMMA LeastMeasure ==
  ASSUME NEW S, NEW f, \A x \in S : f[x] \in Nat, S # {}
  PROVE  \E x \in S : \A y \in S : f[x] <= f[y]
<1> DEFINE T == {f[x] : x \in S}
<1>1. T \subseteq Nat /\ T # {}
  OBVIOUS
<1> HIDE DEF T
<1>2. PICK n \in T : \A y \in T : n <= y
  BY <1>1, LeastNumber
<1> QED
  BY <1>2 DEF T

(* Prefixes, level by level. *)
LEMMA PrefixByLevels ==
  ASSUME NEW s \in Seq(Levels), NEW t \in Seq(Levels)
  PROVE  IsPrefix(s, t) <=> Len(s) <= Len(t) /\ \A i \in 1 .. Len(s) : s[i] = t[i]
<1>1. Len(s) \in Nat /\ Len(t) \in Nat
  OBVIOUS
<1> DEFINE x == SubSeq(s, 1, Len(s))   y == SubSeq(t, 1, Len(s))
<1>2. x \in Seq(Levels) /\ Len(x) = Len(s) /\ \A i \in 1 .. Len(s) : x[i] = s[i]
  BY <1>1
<1>3. CASE Len(s) <= Len(t)
  <2>1. y \in Seq(Levels) /\ Len(y) = Len(s) /\ \A i \in 1 .. Len(s) : y[i] = t[i]
    BY <1>1, <1>3
  <2>2. IsPrefix(s, t) <=> x = y
    BY <1>3 DEF IsPrefix
  <2> HIDE DEF x, y
  <2>3. (\A i \in 1 .. Len(s) : s[i] = t[i]) => x = y
    BY <1>2, <2>1
  <2>4. x = y => \A i \in 1 .. Len(s) : s[i] = t[i]
    BY <1>2, <2>1
  <2> QED
    BY <1>3, <2>2, <2>3, <2>4
<1>4. CASE ~ (Len(s) <= Len(t))
  BY <1>4 DEF IsPrefix
<1> QED
  BY <1>3, <1>4

(* A rooted tree: it has its root, every node's parent, and a bounded depth. *)
Rooted(tree) ==
  /\ <<>> \in DOMAIN tree
  /\ \E d \in Nat : \A n \in DOMAIN tree : Len(n) <= d
Tree(tree) == TreeShape(tree) /\ Named(tree) /\ Rooted(tree)

(* The beginning of a sequence of levels. *)
LEMMA Beginning ==
  ASSUME NEW m \in Seq(Levels), NEW l \in 0 .. Len(m)
  PROVE  /\ SubSeq(m, 1, l) \in Seq(Levels) /\ Len(SubSeq(m, 1, l)) = l
         /\ \A i \in 1 .. l : SubSeq(m, 1, l)[i] = m[i]
OBVIOUS

(* A tree has a node for every beginning of a node. *)
LEMMA BeginningsAreNodes ==
  ASSUME NEW tree, Tree(tree), NEW m \in DOMAIN tree, NEW l \in 0 .. Len(m)
  PROVE  SubSeq(m, 1, l) \in DOMAIN tree
<1>1. m \in Seq(Levels) /\ Len(m) \in Nat
  BY DEF Tree, Named
<1> DEFINE Missing == {k \in 0 .. Len(m) : SubSeq(m, 1, Len(m) - k) \notin DOMAIN tree}
<1>2. CASE Missing # {}
  <2>0. Missing \subseteq Nat
    OBVIOUS
  <2> HIDE DEF Missing
  <2>1. PICK k \in Missing : \A j \in Missing : k <= j
    BY <1>2, <2>0, LeastNumber
  <2> USE DEF Missing
  <2>2. k \in 0 .. Len(m) /\ SubSeq(m, 1, Len(m) - k) \notin DOMAIN tree
    BY <2>1
  <2>3. k # 0
    <3>1. SubSeq(m, 1, Len(m)) = m
      BY <1>1
    <3>2. Len(m) - 0 = Len(m)
      BY <1>1
    <3> QED
      BY <2>2, <3>1, <3>2
  <2>4. k - 1 \in 0 .. Len(m) /\ ~ (k <= k - 1) /\ Len(m) - (k - 1) = (Len(m) - k) + 1
    BY <1>1, <2>2, <2>3
  <2>5. SubSeq(m, 1, (Len(m) - k) + 1) \in DOMAIN tree
    BY <2>1, <2>4
  <2> DEFINE y == SubSeq(m, 1, (Len(m) - k) + 1)   x == SubSeq(m, 1, Len(m) - k)
  <2>6. Len(m) - k \in 0 .. Len(m) /\ (Len(m) - k) + 1 \in 0 .. Len(m)
    BY <1>1, <2>2, <2>4
  <2>7. /\ x \in Seq(Levels) /\ Len(x) = Len(m) - k
        /\ \A i \in 1 .. Len(m) - k : x[i] = m[i]
    BY <1>1, <2>6, Beginning
  <2>8. /\ y \in Seq(Levels) /\ Len(y) = (Len(m) - k) + 1
        /\ \A i \in 1 .. (Len(m) - k) + 1 : y[i] = m[i]
    BY <1>1, <2>6, Beginning
  <2>9. y \in DOMAIN tree /\ x \notin DOMAIN tree
    BY <2>2, <2>5
  <2> HIDE DEF x, y
  <2>10. y # <<>>
    BY <2>6, <2>8
  <2>11. /\ Front(y) \in Seq(Levels) /\ Len(Front(y)) = Len(m) - k
         /\ \A i \in 1 .. Len(m) - k : Front(y)[i] = y[i]
    BY <2>6, <2>8, <2>10, FrontOf
  <2>12. \A i \in 1 .. Len(m) - k : Front(y)[i] = x[i]
    BY <2>6, <2>7, <2>8, <2>11
  <2>13. Front(y) = x
    BY <2>7, <2>11, <2>12
  <2> QED
    BY <2>9, <2>10, <2>13 DEF Tree, TreeShape
<1>3. CASE Missing = {}
  <2>1. Len(m) - l \in 0 .. Len(m) /\ Len(m) - (Len(m) - l) = l
    BY <1>1
  <2> QED
    BY <1>3, <2>1
<1> QED
  BY <1>2, <1>3

(* A walk goes from a node to the children whose last level is one of P[i] at
   depth i; it reaches the nodes all of whose levels below where it began are
   such. *)
Steps(tree, P, n) == {d \in Children(tree, n) : Last(d) \in P[Len(n) + 1]}
Reached(tree, P, n) ==
  {m \in Below(tree, n) : \A i \in Len(n) + 1 .. Len(m) : m[i] \in P[i]}

(* The step to a child, level by level. *)
LEMMA StepByLevels ==
  ASSUME NEW tree, Tree(tree), NEW P, NEW n \in DOMAIN tree, NEW c \in Steps(tree, P, n)
  PROVE  /\ n \in Seq(Levels) /\ c \in Seq(Levels) /\ c \in DOMAIN tree
         /\ Len(n) \in Nat /\ Len(c) = Len(n) + 1
         /\ \A i \in 1 .. Len(n) : c[i] = n[i]
         /\ c[Len(n) + 1] \in P[Len(n) + 1]
<1>1. c \in DOMAIN tree /\ n \in Seq(Levels) /\ c \in Seq(Levels) /\ IsPrefix(n, c)
  BY DEF Steps, Children, Below, Tree, Named
<1>2. Len(c) = Len(n) + 1 /\ Len(n) \in Nat
  BY <1>1 DEF Steps, Children
<1>3. \A i \in 1 .. Len(n) : n[i] = c[i]
  BY <1>1, PrefixByLevels
<1>4. Last(c) = c[Len(n) + 1]
  BY <1>1, <1>2 DEF Last
<1> QED
  BY <1>1, <1>2, <1>3, <1>4 DEF Steps

(* What a walk reaches is where it is, and what it reaches from each child
   that it goes to. *)
LEMMA ReachedThere ==
  ASSUME NEW tree, Tree(tree), NEW P, NEW n \in DOMAIN tree, NEW c \in Steps(tree, P, n),
         NEW m \in Reached(tree, P, c)
  PROVE  m \in Reached(tree, P, n)
<1>1. /\ n \in Seq(Levels) /\ c \in Seq(Levels) /\ c \in DOMAIN tree
      /\ Len(n) \in Nat /\ Len(c) = Len(n) + 1
      /\ \A i \in 1 .. Len(n) : c[i] = n[i]
      /\ c[Len(n) + 1] \in P[Len(n) + 1]
  BY StepByLevels
<1>2. m \in DOMAIN tree /\ IsPrefix(c, m) /\ m \in Seq(Levels) /\ Len(m) \in Nat
  BY DEF Reached, Below, Tree, Named
<1>3. Len(c) <= Len(m) /\ \A i \in 1 .. Len(c) : c[i] = m[i]
  BY <1>1, <1>2, PrefixByLevels
<1>4. \A i \in 1 .. Len(n) : n[i] = m[i]
  BY <1>1, <1>3
<1>5. IsPrefix(n, m)
  <2>1. n \in Seq(Levels) /\ m \in Seq(Levels) /\ Len(n) <= Len(m)
    BY <1>1, <1>2, <1>3
  <2> QED
    BY <1>4, <2>1, PrefixByLevels, Zenon
<1>6. m[Len(n) + 1] \in P[Len(n) + 1]
  BY <1>1, <1>3
<1>7. \A i \in Len(c) + 1 .. Len(m) : m[i] \in P[i]
  BY DEF Reached
<1>8. \A i \in Len(n) + 1 .. Len(m) : i = Len(n) + 1 \/ i \in Len(c) + 1 .. Len(m)
  BY <1>1, <1>2
<1>9. \A i \in Len(n) + 1 .. Len(m) : m[i] \in P[i]
  BY <1>6, <1>7, <1>8
<1> QED
  BY <1>2, <1>5, <1>9 DEF Reached, Below

(* A walk reaches the node it starts from, *)
LEMMA ReachedHere ==
  ASSUME NEW tree, Tree(tree), NEW P, NEW n \in DOMAIN tree
  PROVE  n \in Reached(tree, P, n)
<1>1. n \in Seq(Levels) /\ Len(n) \in Nat
  BY DEF Tree, Named
<1>2. IsPrefix(n, n)
  BY <1>1, PrefixByLevels
<1>3. \A i \in Len(n) + 1 .. Len(n) : FALSE
  BY <1>1
<1> QED
  BY <1>2, <1>3 DEF Reached, Below

(* and any other through a child. *)
LEMMA ReachedThrough ==
  ASSUME NEW tree, Tree(tree), NEW P, NEW n \in DOMAIN tree, NEW m \in Reached(tree, P, n), m # n
  PROVE  \E c \in Steps(tree, P, n) : m \in Reached(tree, P, c)
<1>1. /\ n \in Seq(Levels) /\ m \in Seq(Levels) /\ m \in DOMAIN tree
      /\ Len(n) \in Nat /\ Len(m) \in Nat /\ IsPrefix(n, m)
      /\ \A i \in Len(n) + 1 .. Len(m) : m[i] \in P[i]
  BY DEF Reached, Below, Tree, Named
<1>2. Len(n) <= Len(m) /\ \A i \in 1 .. Len(n) : n[i] = m[i]
  BY <1>1, PrefixByLevels
<1>3. Len(n) # Len(m)
  BY <1>1, <1>2
<1> DEFINE l == Len(n) + 1   c == SubSeq(m, 1, l)
<1>4. l \in 0 .. Len(m) /\ l \in 1 .. Len(m) /\ l \in Nat
  BY <1>1, <1>2, <1>3
<1>5. c \in Seq(Levels) /\ Len(c) = l /\ \A i \in 1 .. l : c[i] = m[i]
  BY <1>1, <1>4, Beginning
<1>6. c \in DOMAIN tree
  BY <1>1, <1>4, BeginningsAreNodes
<1> HIDE DEF c
<1>7. \A i \in 1 .. Len(n) : n[i] = c[i]
  BY <1>1, <1>2, <1>5
<1>8. IsPrefix(n, c)
  <2>1. n \in Seq(Levels) /\ c \in Seq(Levels) /\ Len(n) <= Len(c)
    BY <1>1, <1>5
  <2> QED
    BY <1>7, <2>1, PrefixByLevels, Zenon
<1>9. Last(c) = m[l]
  BY <1>4, <1>5 DEF Last
<1>10. m[l] \in P[l]
  BY <1>1, <1>4
<1>11. c \in Steps(tree, P, n)
  BY <1>5, <1>6, <1>8, <1>9, <1>10 DEF Steps, Children, Below
<1>12. IsPrefix(c, m)
  BY <1>1, <1>4, <1>5, PrefixByLevels
<1>13. \A i \in Len(c) + 1 .. Len(m) : m[i] \in P[i]
  BY <1>1, <1>4, <1>5
<1>14. m \in Reached(tree, P, c)
  BY <1>1, <1>12, <1>13 DEF Reached, Below
<1> QED
  BY <1>11, <1>14

(* The equation of a walk, which takes O[n] at each node n where it comes, has
   one solution: what the nodes it reaches give. *)
Walks(tree, P, O, f) ==
  f = [n \in DOMAIN tree |-> O[n] \cup UNION {f[c] : c \in Steps(tree, P, n)}]
Gathers(tree, P, O, f) ==
  f = [n \in DOMAIN tree |-> UNION {O[m] : m \in Reached(tree, P, n)}]

(* What is gathered from the reached nodes solves the walk's equation, *)
LEMMA WalkSolves ==
  ASSUME NEW tree, Tree(tree), NEW P, NEW O, NEW W, Gathers(tree, P, O, W)
  PROVE  Walks(tree, P, O, W)
<1>1. ASSUME NEW n \in DOMAIN tree
      PROVE  W[n] = O[n] \cup UNION {W[c] : c \in Steps(tree, P, n)}
  <2>1. W[n] = UNION {O[m] : m \in Reached(tree, P, n)}
    BY DEF Gathers
  <2>2. \A c \in Steps(tree, P, n) : c \in DOMAIN tree /\ W[c] = UNION {O[m] : m \in Reached(tree, P, c)}
    BY DEF Steps, Children, Below, Gathers
  <2>3. ASSUME NEW x \in W[n] PROVE x \in O[n] \cup UNION {W[c] : c \in Steps(tree, P, n)}
    <3>1. PICK m \in Reached(tree, P, n) : x \in O[m]
      BY <2>1, <2>3
    <3>2. CASE m = n
      BY <3>1, <3>2
    <3>3. CASE m # n
      <4>1. PICK c \in Steps(tree, P, n) : m \in Reached(tree, P, c)
        BY <3>3, ReachedThrough
      <4>2. x \in W[c]
        BY <2>2, <3>1, <4>1
      <4> QED
        BY <4>1, <4>2
    <3> QED
      BY <3>2, <3>3
  <2>4. O[n] \subseteq W[n]
    <3>1. n \in Reached(tree, P, n)
      BY ReachedHere
    <3> QED
      BY <2>1, <3>1
  <2>5. ASSUME NEW c \in Steps(tree, P, n), NEW x \in W[c] PROVE x \in W[n]
    <3>1. PICK m \in Reached(tree, P, c) : x \in O[m]
      BY <2>2, <2>5
    <3>2. m \in Reached(tree, P, n)
      BY <2>5, <3>1, ReachedThere
    <3> QED
      BY <2>1, <3>1, <3>2
  <2>6. UNION {W[c] : c \in Steps(tree, P, n)} \subseteq W[n]
    BY <2>5
  <2> DEFINE below == UNION {W[c] : c \in Steps(tree, P, n)}
  <2>7. W[n] \subseteq O[n] \cup below
    BY <2>3
  <2> HIDE DEF below
  <2>8. below \subseteq W[n]
    BY <2>6 DEF below
  <2>9. W[n] = O[n] \cup below
    BY <2>4, <2>7, <2>8
  <2> QED
    BY <2>9 DEF below
<1>2. W = [n \in DOMAIN tree |-> W[n]]
  BY Zenon DEF Gathers
<1> QED
  BY <1>1, <1>2, Zenon DEF Walks

(* which has one solution. *)
LEMMA WalkIsOne ==
  ASSUME NEW tree, Tree(tree), NEW P, NEW O, NEW f, NEW g,
         Walks(tree, P, O, f), Walks(tree, P, O, g)
  PROVE  f = g
<1>1. \A n \in DOMAIN tree : f[n] = O[n] \cup UNION {f[c] : c \in Steps(tree, P, n)}
  BY DEF Walks
<1>2. \A n \in DOMAIN tree : g[n] = O[n] \cup UNION {g[c] : c \in Steps(tree, P, n)}
  BY DEF Walks
<1>3. PICK d \in Nat : \A n \in DOMAIN tree : Len(n) <= d
  BY DEF Tree, Rooted
<1>4. \A n \in DOMAIN tree : n \in Seq(Levels) /\ Len(n) \in Nat
  BY DEF Tree, Named
<1> DEFINE Bad == {n \in DOMAIN tree : f[n] # g[n]}   height == [n \in DOMAIN tree |-> d - Len(n)]
<1>5. CASE Bad # {}
  <2>1. \A n \in DOMAIN tree : height[n] \in Nat /\ height[n] = d - Len(n)
    BY <1>3, <1>4
  <2>2. Bad \subseteq DOMAIN tree
    OBVIOUS
  <2> HIDE DEF Bad, height
  <2>3. PICK n \in Bad : \A c \in Bad : height[n] <= height[c]
    BY <1>5, <2>1, <2>2, LeastMeasure
  <2>4. ASSUME NEW c \in Steps(tree, P, n) PROVE f[c] = g[c]
    <3>1. n \in DOMAIN tree
      BY <2>2, <2>3
    <3>2. c \in DOMAIN tree /\ Len(c) = Len(n) + 1
      BY <3>1, StepByLevels
    <3>3. ~ (height[n] <= height[c])
      BY <1>3, <1>4, <2>1, <3>1, <3>2
    <3> QED
      BY <2>3, <3>2, <3>3 DEF Bad
  <2>5. {f[c] : c \in Steps(tree, P, n)} = {g[c] : c \in Steps(tree, P, n)}
    BY <2>4, Zenon
  <2>6. f[n] = g[n]
    BY <1>1, <1>2, <2>2, <2>3, <2>5
  <2> QED
    BY <2>3, <2>6 DEF Bad
<1>6. CASE Bad = {}
  <2>1. \A n \in DOMAIN tree : f[n] = g[n]
    BY <1>6
  <2>3. f = [n \in DOMAIN tree |-> f[n]] /\ g = [n \in DOMAIN tree |-> g[n]]
    BY Zenon DEF Walks
  <2> QED
    BY <2>1, <2>3
<1> QED
  BY <1>5, <1>6

-----------------------------------------------------------------------------
(* The trees keep their roots, and are as deep as the longest topic at most. *)
LEMMA PutKeepsRooted ==
  ASSUME NEW tree, NEW t \in Seq(RawLevels), NEW bare, NEW x, Rooted(tree), Named(tree)
  PROVE  Rooted(Put(tree, t, bare, x))
<1>1. DOMAIN Put(tree, t, bare, x) = DOMAIN tree \cup Way(t)
  BY DEF Put, Grow
<1>2. PICK d \in Nat : \A n \in DOMAIN tree : Len(n) <= d
  BY DEF Rooted
<1>3. Len(Path(t)) \in Nat
  BY PathOfTopic
<1>4. \A n \in Way(t) : Len(n) <= Len(Path(t))
  BY NodesOnTheWay DEF IsPrefix
<1>5. \A n \in DOMAIN tree \cup Way(t) : Len(n) \in Nat
  BY NodesOnTheWay DEF Named
<1>6. d + Len(Path(t)) \in Nat
  BY <1>2, <1>3
<1> DEFINE l == Len(Path(t))
<1> HIDE DEF l
<1>7. \A n \in DOMAIN tree \cup Way(t) : Len(n) <= d + l
  BY <1>2, <1>3, <1>4, <1>5 DEF l
<1>8. \E k \in Nat : \A n \in DOMAIN tree \cup Way(t) : Len(n) <= k
  BY <1>6, <1>7 DEF l
<1> QED
  BY <1>1, <1>8, Zenon DEF Rooted

(* The root is never cut off. *)
LEMMA CutKeepsRooted ==
  ASSUME NEW tree, NEW dead, Rooted(tree), dead \subseteq Seq(Levels) \ {<<>>}
  PROVE  Rooted(Cut(tree, dead))
<1>1. DOMAIN Cut(tree, dead) = DOMAIN tree \ UNION {Below(tree, d) : d \in dead}
  BY DEF Cut
<1>2. ASSUME NEW d \in dead PROVE <<>> \notin Below(tree, d)
  <2>1. Len(d) \in Nat /\ Len(d) # 0 /\ Len(<<>>) = 0
    OBVIOUS
  <2>2. ~ IsPrefix(d, <<>>)
    BY <2>1 DEF IsPrefix
  <2> QED
    BY <2>2 DEF Below
<1>3. <<>> \in DOMAIN Cut(tree, dead)
  BY <1>1, <1>2 DEF Rooted
<1>4. PICK d \in Nat : \A n \in DOMAIN tree : Len(n) <= d
  BY DEF Rooted
<1>5. \A n \in DOMAIN Cut(tree, dead) : Len(n) <= d
  BY <1>1, <1>4
<1> QED
  BY <1>3, <1>5 DEF Rooted

(* Being rooted is about a tree's nodes, not about what they hold. *)
LEMMA RootedHasDomain ==
  ASSUME NEW tree, NEW other, DOMAIN tree = DOMAIN other, Rooted(other)
  PROVE  Rooted(tree)
BY DEF Rooted

RootsInv == Rooted(stree) /\ Rooted(rtree)

(* At the start there are the roots. *)
LEMMA RootsInit == Init => RootsInv
<1> SUFFICES ASSUME Init PROVE RootsInv
  OBVIOUS
<1>1. DOMAIN stree = {<<>>} /\ DOMAIN rtree = {<<>>}
  BY DEF Init
<1>2. Len(<<>>) <= 0 /\ 0 \in Nat
  OBVIOUS
<1> QED
  BY <1>1, <1>2 DEF RootsInv, Rooted

(* Every step keeps them, *)
LEMMA RootsNext == TreesInv /\ RootsInv /\ [Next]_vars => RootsInv'
<1> SUFFICES ASSUME TreesInv, RootsInv, [Next]_vars PROVE RootsInv'
  OBVIOUS
<1>1. Named(stree) /\ Named(rtree) /\ Rooted(stree) /\ Rooted(rtree)
  BY DEF TreesInv, RootsInv
<1>2. CASE UNCHANGED vars
  BY <1>2 DEF vars, RootsInv, Rooted
<1>3. ASSUME NEW s \in Subs, Subscribe(s) PROVE RootsInv'
  <2>1. stree' = Put(stree, s.topic, {}, SubscribersAt(s.topic) \cup {s}) /\ rtree' = rtree
    BY <1>3 DEF Subscribe
  <2>2. Rooted(Put(stree, s.topic, {}, SubscribersAt(s.topic) \cup {s}))
    BY <1>1, Topics, PutKeepsRooted
  <2> QED
    BY <1>1, <2>1, <2>2 DEF RootsInv, Rooted
<1>4. ASSUME NEW s \in Subs, Unsubscribe(s) PROVE RootsInv'
  <2> DEFINE left == [stree EXCEPT ![Path(s.topic)] = @ \ {s}]
  <2>1. stree' = Cut(left, SDead(left, s.topic)) /\ rtree' = rtree
    BY <1>4 DEF Unsubscribe
  <2>2. DOMAIN left = DOMAIN stree
    OBVIOUS
  <2> HIDE DEF left
  <2>3. Rooted(left)
    BY <1>1, <2>2, RootedHasDomain
  <2>4. SDead(left, s.topic) \subseteq Seq(Levels) \ {<<>>}
    BY Topics, DeadNodes DEF SDead, RDead
  <2>5. Rooted(stree')
    BY <2>1, <2>3, <2>4, CutKeepsRooted
  <2> QED
    BY <1>1, <2>1, <2>5 DEF RootsInv, Rooted
<1>5. ASSUME NEW t \in TopicNames, NEW m \in Messages, Retain(t, m) PROVE RootsInv'
  <2>1. rtree' = Put(rtree, t, None, m) /\ stree' = stree
    BY <1>5 DEF Retain
  <2>2. Rooted(Put(rtree, t, None, m))
    BY <1>1, Topics, PutKeepsRooted
  <2> QED
    BY <1>1, <2>1, <2>2 DEF RootsInv, Rooted
<1>6. ASSUME NEW t \in TopicNames, Clear(t) PROVE RootsInv'
  <2> DEFINE left == [rtree EXCEPT ![Path(t)] = None]
  <2>1. rtree' = Cut(left, RDead(rtree, t)) /\ stree' = stree
    BY <1>6 DEF Clear
  <2>2. DOMAIN left = DOMAIN rtree
    OBVIOUS
  <2> HIDE DEF left
  <2>3. Rooted(left)
    BY <1>1, <2>2, RootedHasDomain
  <2>4. RDead(rtree, t) \subseteq Seq(Levels) \ {<<>>}
    BY Topics, DeadNodes DEF RDead
  <2>5. Rooted(rtree')
    BY <2>1, <2>3, <2>4, CutKeepsRooted
  <2> QED
    BY <1>1, <2>1, <2>5 DEF RootsInv, Rooted
<1> QED
  BY <1>2, <1>3, <1>4, <1>5, <1>6 DEF Next

(* so they are always there. *)
LEMMA RootsAlways == Spec => [](TreesInv /\ RootsInv)
BY TreesAlways, RootsInit, RootsNext, PTL DEF Spec

-----------------------------------------------------------------------------
(* The path of a valid topic, or filter: readable names, '#' only at the end. *)
LEMMA ValidPath ==
  ASSUME NEW t \in Seq(RawLevels), Valid(t)
  PROVE  /\ Path(t) \in Seq(Levels) /\ Len(Path(t)) \in Nat
         /\ \A i \in 1 .. Len(Path(t)) : Good(t, i) /\ (Path(t)[i] = MWC => i = Len(Path(t)))
<1> DEFINE p == Path(t)
<1>1. p \in Way(t) /\ p \in Seq(Levels)
  BY NodesOnTheWay
<1>2. DOMAIN p = 1 .. Len(p) /\ Len(p) \in Nat
  BY <1>1
<1>3. \A i \in DOMAIN p : p[i] = MWC => i = Len(p)
  BY <1>1, NodesOnTheWay
<1>4. \A i \in DOMAIN p : Good(t, i)
  BY DEF Valid
<1> HIDE DEF p
<1>5. \A i \in 1 .. Len(p) : Good(t, i) /\ (p[i] = MWC => i = Len(p))
  BY <1>2, <1>3, <1>4, Zenon
<1> QED
  BY <1>1, <1>2, <1>5, Zenon DEF p

(* A child of a node, by its last level. *)
LEMMA ChildName ==
  ASSUME NEW tree, Tree(tree), NEW n \in DOMAIN tree, NEW d \in Children(tree, n)
  PROVE  Last(d) \in Levels
<1>1. n \in Seq(Levels) /\ d \in Seq(Levels) /\ Len(d) = Len(n) + 1
  BY DEF Tree, Named, Children, Below
<1>2. Len(d) \in 1 .. Len(d)
  BY <1>1
<1>3. d[Len(d)] \in Levels
  BY <1>1, <1>2
<1> QED
  BY <1>3 DEF Last

(* Where smatch goes from level to level of a topic. *)
Passes(t) ==
  [i \in Nat |-> {l \in Levels : /\ i # Len(Path(t)) + 1 /\ Good(t, i)
                                 /\ l # MWC /\ l \in {SWC, Path(t)[i]}}]

(* They are the nodes that smatch visits. *)
LEMMA VisitedIs ==
  ASSUME Tree(stree), NEW t \in Seq(RawLevels)
  PROVE  Visited(t) = Reached(stree, Passes(t), <<>>)
<1> DEFINE At(f, n) ==
             {n} \cup IF Len(n) = Len(Path(t)) \/ ~Good(t, Len(n) + 1) THEN {}
                      ELSE UNION {f[c] : c \in {d \in Children(stree, n) :
                                    Last(d) # MWC /\ Last(d) \in {SWC, Path(t)[Len(n) + 1]}}}
           Code(f) == f = [n \in DOMAIN stree |-> At(f, n)]
<1>1. Visited(t) = (CHOOSE f : Code(f))[<<>>]
  BY Zenon DEF Visited
<1>2. PICK P : P = Passes(t)
  OBVIOUS
<1>3. PICK O : O = [n \in DOMAIN stree |-> {n}]
  OBVIOUS
<1>4. PICK W : Gathers(stree, P, O, W)
  BY Zenon DEF Gathers
<1>5. ASSUME NEW n \in DOMAIN stree
      PROVE  Steps(stree, P, n) =
               IF Len(n) = Len(Path(t)) \/ ~Good(t, Len(n) + 1) THEN {}
               ELSE {d \in Children(stree, n) : Last(d) # MWC /\ Last(d) \in {SWC, Path(t)[Len(n) + 1]}}
  <2>1. Len(n) \in Nat /\ Len(n) + 1 \in Nat /\ Len(Path(t)) \in Nat
    BY PathOfTopic DEF Tree, Named
  <2>2. \A d \in Children(stree, n) : Last(d) \in Levels
    BY ChildName
  <2>3. Len(n) + 1 = Len(Path(t)) + 1 <=> Len(n) = Len(Path(t))
    BY <2>1
  <2>4. P[Len(n) + 1] = {l \in Levels : /\ Len(n) + 1 # Len(Path(t)) + 1 /\ Good(t, Len(n) + 1)
                                        /\ l # MWC /\ l \in {SWC, Path(t)[Len(n) + 1]}}
    BY <1>2, <2>1, Zenon DEF Passes
  <2> QED
    BY <2>2, <2>3, <2>4, Zenon DEF Steps
<1> DEFINE To(f, n) == O[n] \cup UNION {f[c] : c \in Steps(stree, P, n)}
<1>6. ASSUME NEW f, NEW n \in DOMAIN stree
      PROVE  At(f, n) = To(f, n)
  <2>1. O[n] = {n}
    BY <1>3
  <2>2. CASE Len(n) = Len(Path(t)) \/ ~Good(t, Len(n) + 1)
    <3>1. Steps(stree, P, n) = {}
      BY <1>5, <2>2
    <3>2. UNION {f[c] : c \in Steps(stree, P, n)} = {}
      BY <3>1
    <3> QED
      BY <2>1, <2>2, <3>2, Zenon
  <2>3. CASE ~(Len(n) = Len(Path(t)) \/ ~Good(t, Len(n) + 1))
    BY <1>5, <2>1, <2>3, Zenon
  <2> QED
    BY <2>2, <2>3
<1> HIDE DEF At, To
<1>7. ASSUME NEW f PROVE Code(f) <=> Walks(stree, P, O, f)
  <2>1. Walks(stree, P, O, f) <=> f = [n \in DOMAIN stree |-> To(f, n)]
    BY Zenon DEF Walks, To
  <2>2. \A n \in DOMAIN stree : At(f, n) = To(f, n)
    BY <1>6
  <2>3. [n \in DOMAIN stree |-> At(f, n)] = [n \in DOMAIN stree |-> To(f, n)]
    BY <2>2
  <2> QED
    BY <2>1, <2>3, Zenon
<1>8. Walks(stree, P, O, W)
  BY <1>4, WalkSolves, Zenon
<1>9. \A f : Walks(stree, P, O, f) => f = W
  BY <1>8, WalkIsOne, Zenon
<1> HIDE DEF Code
<1>10. Code(CHOOSE f : Code(f))
  BY <1>7, <1>8, Zenon
<1>11. Visited(t) = W[<<>>]
  BY <1>1, <1>7, <1>9, <1>10, Zenon
<1>12. <<>> \in DOMAIN stree
  BY DEF Tree, Rooted
<1>13. W[<<>>] = UNION {O[m] : m \in Reached(stree, P, <<>>)}
  BY <1>4, <1>12, Zenon DEF Gathers
<1>14. \A m \in Reached(stree, P, <<>>) : O[m] = {m}
  BY <1>3 DEF Reached, Below
<1>15. UNION {O[m] : m \in Reached(stree, P, <<>>)} = Reached(stree, P, <<>>)
  BY <1>14
<1> QED
  BY <1>2, <1>11, <1>13, <1>15

(* What is reached from the root. *)
LEMMA ReachedFromRoot ==
  ASSUME NEW tree, Tree(tree), NEW P
  PROVE  \A m : m \in Reached(tree, P, <<>>) <=>
                  m \in DOMAIN tree /\ \A i \in 1 .. Len(m) : m[i] \in P[i]
<1>1. <<>> \in Seq(Levels) /\ Len(<<>>) = 0
  OBVIOUS
<1>2. ASSUME NEW m \in DOMAIN tree PROVE IsPrefix(<<>>, m) /\ Len(<<>>) + 1 .. Len(m) = 1 .. Len(m)
  <2>1. m \in Seq(Levels) /\ Len(m) \in Nat
    BY DEF Tree, Named
  <2>2. IsPrefix(<<>>, m)
    <3>1. Len(<<>>) <= Len(m) /\ \A i \in 1 .. Len(<<>>) : <<>>[i] = m[i]
      BY <2>1
    <3> QED
      BY <1>1, <2>1, <3>1, PrefixByLevels, Zenon
  <2> QED
    BY <1>1, <2>2
<1> QED
  BY <1>2, Zenon DEF Reached, Below

(* Such a node's levels are the topic's, or single wildcards. *)
LEMMA VisitedByLevels ==
  ASSUME Tree(stree), NEW t \in Seq(RawLevels), Valid(t)
  PROVE  \A n : n \in Visited(t) <=>
                  /\ n \in DOMAIN stree /\ Len(n) <= Len(Path(t))
                  /\ \A i \in 1 .. Len(n) : n[i] # MWC /\ n[i] \in {SWC, Path(t)[i]}
<1> DEFINE p == Path(t)
<1>1. p \in Seq(Levels) /\ Len(p) \in Nat /\ \A i \in 1 .. Len(p) : Good(t, i)
  BY ValidPath, Zenon
<1>2. PICK P : P = Passes(t)
  OBVIOUS
<1>3. \A i \in Nat : P[i] = {l \in Levels : i # Len(p) + 1 /\ Good(t, i) /\ l # MWC /\ l \in {SWC, p[i]}}
  BY <1>2, Zenon DEF Passes
<1>4. \A n : n \in Visited(t) <=> n \in DOMAIN stree /\ \A i \in 1 .. Len(n) : n[i] \in P[i]
  BY <1>2, VisitedIs, ReachedFromRoot
<1>5. \A n \in DOMAIN stree : n \in Seq(Levels) /\ Len(n) \in Nat /\ \A i \in 1 .. Len(n) : n[i] \in Levels
  BY DEF Tree, Named
<1> HIDE DEF p
<1>6. ASSUME NEW n \in DOMAIN stree, \A i \in 1 .. Len(n) : n[i] \in P[i]
      PROVE  Len(n) <= Len(p) /\ \A i \in 1 .. Len(n) : n[i] # MWC /\ n[i] \in {SWC, p[i]}
  <2>1. CASE ~ (Len(n) <= Len(p))
    <3>1. Len(p) + 1 \in 1 .. Len(n) /\ Len(p) + 1 \in Nat
      BY <1>1, <1>5, <2>1
    <3>2. n[Len(p) + 1] \in P[Len(p) + 1]
      BY <1>6, <3>1
    <3> QED
      BY <1>3, <3>1, <3>2, Zenon
  <2>2. \A i \in 1 .. Len(n) : i \in Nat
    BY <1>5
  <2>3. \A i \in 1 .. Len(n) : n[i] # MWC /\ n[i] \in {SWC, p[i]}
    BY <1>3, <1>6, <2>2, Zenon
  <2> QED
    BY <2>1, <2>3
<1>7. ASSUME NEW n \in DOMAIN stree, Len(n) <= Len(p),
             \A i \in 1 .. Len(n) : n[i] # MWC /\ n[i] \in {SWC, p[i]}
      PROVE  \A i \in 1 .. Len(n) : n[i] \in P[i]
  <2>1. ASSUME NEW i \in 1 .. Len(n) PROVE n[i] \in P[i]
    <3>1. i \in 1 .. Len(p) /\ i \in Nat /\ i # Len(p) + 1
      BY <1>1, <1>5, <1>7
    <3>2. Good(t, i)
      BY <1>1, <3>1, Zenon
    <3>3. n[i] \in Levels /\ n[i] # MWC /\ n[i] \in {SWC, p[i]}
      BY <1>5, <1>7
    <3> QED
      BY <1>3, <3>1, <3>2, <3>3, Zenon
  <2> QED
    BY <2>1
<1>8. \A n : n \in Visited(t) <=>
               /\ n \in DOMAIN stree /\ Len(n) <= Len(p)
               /\ \A i \in 1 .. Len(n) : n[i] # MWC /\ n[i] \in {SWC, p[i]}
  BY <1>4, <1>6, <1>7, Zenon
<1> QED
  BY <1>8 DEF p

(* The last level of a node, and what is before it. *)
LEMMA NodeEnds ==
  ASSUME NEW tree, Tree(tree), NEW n \in DOMAIN tree
  PROVE  /\ n \in Seq(Levels) /\ Len(n) \in Nat /\ DOMAIN n = 1 .. Len(n)
         /\ \A i \in 1 .. Len(n) : n[i] = MWC => i = Len(n)
         /\ n # <<>> =>
              /\ Len(n) \in 1 .. Len(n) /\ Last(n) = n[Len(n)]
              /\ Front(n) \in DOMAIN tree /\ Len(Front(n)) = Len(n) - 1
              /\ \A i \in 1 .. Len(n) - 1 : Front(n)[i] = n[i]
<1>1. n \in Seq(Levels) /\ Len(n) \in Nat /\ DOMAIN n = 1 .. Len(n)
  BY DEF Tree, Named
<1>2. \A i \in DOMAIN n : n[i] = MWC => i = Len(n)
  BY DEF Tree, TreeShape
<1>3. ASSUME n # <<>>
      PROVE  /\ Len(n) \in 1 .. Len(n) /\ Last(n) = n[Len(n)]
             /\ Front(n) \in DOMAIN tree /\ Len(Front(n)) = Len(n) - 1
             /\ \A i \in 1 .. Len(n) - 1 : Front(n)[i] = n[i]
  <2>1. Len(n) \in 1 .. Len(n) /\ Last(n) = n[Len(n)]
    BY <1>1, <1>3 DEF Last
  <2>2. Front(n) \in DOMAIN tree
    BY <1>3 DEF Tree, TreeShape
  <2>3. Len(Front(n)) = Len(n) - 1 /\ \A i \in 1 .. Len(n) - 1 : Front(n)[i] = n[i]
    BY <1>1, <1>3, FrontOf, Zenon
  <2> QED
    BY <2>1, <2>2, <2>3, Zenon
<1> QED
  BY <1>1, <1>2, <1>3, Zenon

(* The places before the last, and lengths up to one more than another. *)
LEMMA PlacesBefore ==
  ASSUME NEW k \in Nat, NEW l \in Nat
  PROVE  /\ \A i \in 1 .. k - 1 : i \in 1 .. k /\ i # k
         /\ \A j : j = k - 1 => (j <= l <=> k <= l + 1)
         /\ k = l => k <= l + 1
OBVIOUS

(* Where a topic's walk takes subscribers, the filter that names the node
   matches, and everywhere else it does not. *)
LEMMA TakenAreMatching ==
  ASSUME Tree(stree), NEW t \in Seq(RawLevels), Valid(t), NEW n \in DOMAIN stree
  PROVE  (n \in Visited(t) /\ Len(n) = Len(Path(t))) \/ n \in Rests(t) <=> Matches(n, Path(t))
<1>1. PICK p : p = Path(t)
  OBVIOUS
<1>2. /\ n \in Seq(Levels) /\ Len(n) \in Nat /\ DOMAIN n = 1 .. Len(n)
      /\ \A i \in 1 .. Len(n) : n[i] = MWC => i = Len(n)
  BY NodeEnds
<1>3. n # <<>> => /\ Len(n) \in 1 .. Len(n) /\ Last(n) = n[Len(n)]
                  /\ Front(n) \in DOMAIN stree /\ Len(Front(n)) = Len(n) - 1
                  /\ \A i \in 1 .. Len(n) - 1 : Front(n)[i] = n[i]
  BY NodeEnds
<1>4. Len(p) \in Nat /\ Len(n) \in Nat /\ DOMAIN n = 1 .. Len(n)
  BY <1>1, <1>2, ValidPath, Zenon
<1>5. \A m : m \in Visited(t) <=>
               /\ m \in DOMAIN stree /\ Len(m) <= Len(p)
               /\ \A i \in 1 .. Len(m) : m[i] # MWC /\ m[i] \in {SWC, p[i]}
  BY <1>1, VisitedByLevels
<1>6. n \in Rests(t) <=> n # <<>> /\ Last(n) = MWC /\ Front(n) \in Visited(t)
  BY DEF Rests
<1>7. ASSUME n # <<>>, Last(n) = MWC
      PROVE  Front(n) \in Visited(t) <=>
               Len(n) <= Len(p) + 1 /\ \A i \in 1 .. Len(n) - 1 : n[i] \in {SWC, p[i]}
  <2>1. Front(n) \in Visited(t) <=>
          /\ Len(Front(n)) <= Len(p)
          /\ \A i \in 1 .. Len(Front(n)) : Front(n)[i] # MWC /\ Front(n)[i] \in {SWC, p[i]}
    BY <1>3, <1>5, <1>7, Zenon
  <2>2. Len(Front(n)) <= Len(p) <=> Len(n) <= Len(p) + 1
    <3>1. Len(Front(n)) = Len(n) - 1
      BY <1>3, <1>7, Zenon
    <3> QED
      BY <1>4, <3>1, PlacesBefore, Zenon
  <2>3. \A i \in 1 .. Len(n) - 1 : n[i] # MWC /\ Front(n)[i] = n[i]
    <3>1. \A i \in 1 .. Len(n) - 1 : i \in 1 .. Len(n) /\ i # Len(n)
      BY <1>4, PlacesBefore, Zenon
    <3> QED
      BY <1>2, <1>3, <1>7, <3>1, Zenon
  <2>4. Len(Front(n)) = Len(n) - 1
    BY <1>3, <1>7
  <2> QED
    BY <2>1, <2>2, <2>3, <2>4, Zenon
<1>8. CASE n # <<>> /\ Last(n) = MWC
  <2>1. n \in Rests(t) <=> Len(n) <= Len(p) + 1 /\ \A i \in 1 .. Len(n) - 1 : n[i] \in {SWC, p[i]}
    BY <1>6, <1>7, <1>8
  <2>2. n \notin Visited(t)
    BY <1>3, <1>5, <1>8
  <2>3. ASSUME Len(n) = Len(p), \A i \in DOMAIN n : n[i] \in {SWC, p[i]}
        PROVE  Len(n) <= Len(p) + 1 /\ \A i \in 1 .. Len(n) - 1 : n[i] \in {SWC, p[i]}
    <3>1. \A i \in 1 .. Len(n) - 1 : i \in DOMAIN n
      BY <1>4, PlacesBefore, Zenon
    <3>2. Len(n) = Len(p) => Len(n) <= Len(p) + 1
      BY <1>4, PlacesBefore, Zenon
    <3> QED
      BY <2>3, <3>1, <3>2, Zenon
  <2>4. Matches(n, p) <=> Len(n) <= Len(p) + 1 /\ \A i \in 1 .. Len(n) - 1 : n[i] \in {SWC, p[i]}
    BY <1>8, <2>3, Zenon DEF Matches
  <2> QED
    BY <1>1, <2>1, <2>2, <2>4, Zenon
<1>9. CASE ~ (n # <<>> /\ Last(n) = MWC)
  <2>1. n \notin Rests(t)
    BY <1>6, <1>9
  <2>2. Matches(n, p) <=> Len(n) = Len(p) /\ \A i \in DOMAIN n : n[i] \in {SWC, p[i]}
    BY <1>9, Zenon DEF Matches
  <2>3. \A i \in 1 .. Len(n) : n[i] # MWC
    <3>1. CASE n = <<>>
      <4>1. \A i \in 1 .. Len(n) : FALSE
        BY <3>1
      <4> QED
        BY <4>1
    <3>2. CASE n # <<>>
      BY <1>2, <1>3, <1>9, <3>2, Zenon
    <3> QED
      BY <3>1, <3>2
  <2>4. Len(n) = Len(p) => Len(n) <= Len(p)
    BY <1>4
  <2>5. (n \in Visited(t) /\ Len(n) = Len(p)) <=> Len(n) = Len(p) /\ \A i \in DOMAIN n : n[i] \in {SWC, p[i]}
    BY <1>2, <1>5, <2>3, <2>4, Zenon
  <2> QED
    BY <1>1, <2>1, <2>2, <2>5, Zenon
<1> QED
  BY <1>8, <1>9

(* Every level that a valid topic's walk comes to can be read. *)
LEMMA NothingRefused ==
  ASSUME Tree(stree), NEW t \in Seq(RawLevels), Valid(t),
         NEW n \in Visited(t), Len(n) # Len(Path(t))
  PROVE  Good(t, Len(n) + 1)
<1>1. PICK k : k = Len(n)
  OBVIOUS
<1>2. PICK l : l = Len(Path(t))
  OBVIOUS
<1>3. n \in DOMAIN stree /\ k <= l
  BY <1>1, <1>2, VisitedByLevels, Zenon
<1>4. k \in Nat /\ l \in Nat
  BY <1>1, <1>2, <1>3, ValidPath, NodeEnds, Zenon
<1>5. k # l
  BY <1>1, <1>2
<1>6. k + 1 \in 1 .. l
  BY <1>3, <1>4, <1>5
<1>7. Good(t, k + 1)
  BY <1>2, <1>6, ValidPath, Zenon
<1> QED
  BY <1>1, <1>7, Zenon

(* A valid topic finds the subscribers of the nodes that match it. *)
LEMMA SubscribersAre ==
  ASSUME Tree(stree), NEW t \in Seq(RawLevels), Valid(t)
  PROVE  \A s : s \in Subscribers(t) <=>
                  \E n \in DOMAIN stree : s \in stree[n] /\ Matches(n, Path(t))
<1> DEFINE ends == {n \in Visited(t) : Len(n) = Len(Path(t))}
<1>1. \A n \in Visited(t) \ ends : Good(t, Len(n) + 1)
  BY NothingRefused, Zenon
<1>2. Subscribers(t) = IF \E n \in Visited(t) \ ends : ~Good(t, Len(n) + 1) THEN {}
                       ELSE UNION {stree[n] : n \in ends \cup Rests(t)}
  BY Zenon DEF Subscribers
<1>3. Subscribers(t) = UNION {stree[n] : n \in ends \cup Rests(t)}
  BY <1>1, <1>2, Zenon
<1>4. \A n \in ends \cup Rests(t) : n \in DOMAIN stree
  BY VisitedByLevels, Zenon DEF Rests
<1>5. \A n \in DOMAIN stree : n \in ends \cup Rests(t) <=> Matches(n, Path(t))
  BY TakenAreMatching, Zenon
<1> HIDE DEF ends
<1>6. \A s : s \in Subscribers(t) <=> \E n \in ends \cup Rests(t) : s \in stree[n]
  BY <1>3, Zenon
<1> QED
  BY <1>4, <1>5, <1>6, Zenon

(* A publication finds exactly the subscriptions whose filters match its topic
   (sinsert, sremove and smatch together), whatever has been subscribed and
   unsubscribed before. *)
THEOREM SubscribersAreExact == Spec => []SubscribersExact
<1>1. TreesInv /\ RootsInv => SubscribersExact
  <2> SUFFICES ASSUME TreesInv, RootsInv, NEW t \in TopicNames, Valid(t)
      PROVE  Subscribers(t) = {s \in Subscribed : Matches(Path(s.topic), Path(t))}
    BY Zenon DEF SubscribersExact
  <2>1. Tree(stree) /\ t \in Seq(RawLevels)
    BY Topics DEF Tree, TreesInv, TypeOK, RootsInv
  <2>2. \A s : s \in Subscribers(t) <=>
                 \E n \in DOMAIN stree : s \in stree[n] /\ Matches(n, Path(t))
    BY <2>1, SubscribersAre, Zenon
  <2>3. \A s : s \in Subscribed <=> \E n \in DOMAIN stree : s \in stree[n]
    BY Zenon DEF Subscribed
  <2>4. \A n \in DOMAIN stree : \A s \in stree[n] : Path(s.topic) = n
    BY DEF TreesInv, Placed
  <2>5. ASSUME NEW s \in Subscribers(t) PROVE s \in Subscribed /\ Matches(Path(s.topic), Path(t))
    <3>1. PICK n \in DOMAIN stree : s \in stree[n] /\ Matches(n, Path(t))
      BY <2>2
    <3>2. Path(s.topic) = n
      BY <2>4, <3>1
    <3> QED
      BY <2>3, <3>1, <3>2, Zenon
  <2>6. ASSUME NEW s \in Subscribed, Matches(Path(s.topic), Path(t)) PROVE s \in Subscribers(t)
    <3>1. PICK n \in DOMAIN stree : s \in stree[n]
      BY <2>3
    <3>2. Path(s.topic) = n
      BY <2>4, <3>1
    <3> QED
      BY <2>2, <2>6, <3>1, <3>2, Zenon
  <2> QED
    BY <2>5, <2>6, Zenon
<1> QED
  BY <1>1, RootsAlways, PTL

-----------------------------------------------------------------------------
(* Where rmatch goes from level to level of a filter, and what it takes. *)
Goes(f) ==
  [i \in Nat |-> {l \in Levels : /\ i # Len(Path(f)) + 1
                                 /\ Path(f)[i] # MWC /\ Path(f)[i] \in {SWC, l}}]
Takes(f) ==
  [n \in DOMAIN rtree |->
     IF Len(n) = Len(Path(f)) THEN {n}
     ELSE IF Path(f)[Len(n) + 1] = MWC THEN Below(rtree, n) ELSE {}]
Found(f) == UNION {Takes(f)[m] : m \in Reached(rtree, Goes(f), <<>>)}

(* So rmatch finds the retained messages of the matching topics, *)
LEMMA RetainedIs ==
  ASSUME Tree(rtree), NEW f \in Seq(RawLevels)
  PROVE  Retained(f) = {n \in Found(f) : rtree[n] # None}
<1> DEFINE At(g, n) ==
             IF Len(n) = Len(Path(f)) THEN {n}
             ELSE IF Path(f)[Len(n) + 1] = MWC THEN AllRetained(rtree, n)
                  ELSE UNION {g[c] : c \in {d \in Children(rtree, n) :
                                Path(f)[Len(n) + 1] \in {SWC, Last(d)}}}
           Code(g) == g = [n \in DOMAIN rtree |-> At(g, n)]
<1>1. Retained(f) = {n \in (CHOOSE g : Code(g))[<<>>] : rtree[n] # None}
  BY Zenon DEF Retained
<1>2. PICK P : P = Goes(f)
  OBVIOUS
<1>3. PICK O : O = Takes(f)
  OBVIOUS
<1>4. PICK W : Gathers(rtree, P, O, W)
  BY Zenon DEF Gathers
<1>5. ASSUME NEW n \in DOMAIN rtree
      PROVE  Steps(rtree, P, n) =
               IF Len(n) = Len(Path(f)) \/ Path(f)[Len(n) + 1] = MWC THEN {}
               ELSE {d \in Children(rtree, n) : Path(f)[Len(n) + 1] \in {SWC, Last(d)}}
  <2>1. Len(n) \in Nat /\ Len(n) + 1 \in Nat /\ Len(Path(f)) \in Nat
    BY PathOfTopic DEF Tree, Named
  <2>2. \A d \in Children(rtree, n) : Last(d) \in Levels
    BY ChildName
  <2>3. Len(n) + 1 = Len(Path(f)) + 1 <=> Len(n) = Len(Path(f))
    BY <2>1
  <2>4. P[Len(n) + 1] = {l \in Levels : /\ Len(n) + 1 # Len(Path(f)) + 1
                                        /\ Path(f)[Len(n) + 1] # MWC /\ Path(f)[Len(n) + 1] \in {SWC, l}}
    BY <1>2, <2>1, Zenon DEF Goes
  <2> QED
    BY <2>2, <2>3, <2>4, Zenon DEF Steps
<1> DEFINE To(g, n) == O[n] \cup UNION {g[c] : c \in Steps(rtree, P, n)}
<1>6. ASSUME NEW g, NEW n \in DOMAIN rtree
      PROVE  At(g, n) = To(g, n)
  <2>1. O[n] = IF Len(n) = Len(Path(f)) THEN {n}
               ELSE IF Path(f)[Len(n) + 1] = MWC THEN Below(rtree, n) ELSE {}
    BY <1>3, Zenon DEF Takes
  <2>2. CASE Len(n) = Len(Path(f)) \/ Path(f)[Len(n) + 1] = MWC
    <3>1. Steps(rtree, P, n) = {}
      BY <1>5, <2>2
    <3>2. UNION {g[c] : c \in Steps(rtree, P, n)} = {}
      BY <3>1
    <3> QED
      BY <2>1, <2>2, <3>2, Zenon DEF AllRetained
  <2>3. CASE ~(Len(n) = Len(Path(f)) \/ Path(f)[Len(n) + 1] = MWC)
    <3>1. O[n] = {}
      BY <2>1, <2>3, Zenon
    <3> QED
      BY <1>5, <2>3, <3>1, Zenon
  <2> QED
    BY <2>2, <2>3
<1> HIDE DEF At, To
<1>7. ASSUME NEW g PROVE Code(g) <=> Walks(rtree, P, O, g)
  <2>1. Walks(rtree, P, O, g) <=> g = [n \in DOMAIN rtree |-> To(g, n)]
    BY Zenon DEF Walks, To
  <2>2. \A n \in DOMAIN rtree : At(g, n) = To(g, n)
    BY <1>6
  <2>3. [n \in DOMAIN rtree |-> At(g, n)] = [n \in DOMAIN rtree |-> To(g, n)]
    BY <2>2
  <2> QED
    BY <2>1, <2>3, Zenon
<1>8. Walks(rtree, P, O, W)
  BY <1>4, WalkSolves, Zenon
<1>9. \A g : Walks(rtree, P, O, g) => g = W
  BY <1>8, WalkIsOne, Zenon
<1> HIDE DEF Code
<1>10. Code(CHOOSE g : Code(g))
  BY <1>7, <1>8, Zenon
<1>11. (CHOOSE g : Code(g)) = W
  BY <1>7, <1>9, <1>10, Zenon
<1>12. <<>> \in DOMAIN rtree
  BY DEF Tree, Rooted
<1>13. W[<<>>] = UNION {O[m] : m \in Reached(rtree, P, <<>>)}
  BY <1>4, <1>12, Zenon DEF Gathers
<1>14. W[<<>>] = Found(f)
  BY <1>2, <1>3, <1>13, Zenon DEF Found
<1> QED
  BY <1>1, <1>11, <1>14, Zenon

(* The nodes that rmatch comes to, level by level. *)
LEMMA ComesTo ==
  ASSUME Tree(rtree), NEW f \in Seq(RawLevels), Valid(f)
  PROVE  \A m : m \in Reached(rtree, Goes(f), <<>>) <=>
                  /\ m \in DOMAIN rtree /\ Len(m) <= Len(Path(f))
                  /\ \A i \in 1 .. Len(m) : Path(f)[i] # MWC /\ Path(f)[i] \in {SWC, m[i]}
<1>1. PICK p : p = Path(f)
  OBVIOUS
<1>2. PICK P : P = Goes(f)
  OBVIOUS
<1>3. Len(p) \in Nat
  BY <1>1, ValidPath, Zenon
<1>4. \A i \in Nat : P[i] = {l \in Levels : i # Len(p) + 1 /\ p[i] # MWC /\ p[i] \in {SWC, l}}
  BY <1>1, <1>2, Zenon DEF Goes
<1>5. \A m : m \in Reached(rtree, P, <<>>) <=> m \in DOMAIN rtree /\ \A i \in 1 .. Len(m) : m[i] \in P[i]
  BY ReachedFromRoot
<1>6. \A m \in DOMAIN rtree : m \in Seq(Levels) /\ Len(m) \in Nat /\ \A i \in 1 .. Len(m) : m[i] \in Levels
  BY DEF Tree, Named
<1>7. ASSUME NEW m \in DOMAIN rtree, \A i \in 1 .. Len(m) : m[i] \in P[i]
      PROVE  Len(m) <= Len(p) /\ \A i \in 1 .. Len(m) : p[i] # MWC /\ p[i] \in {SWC, m[i]}
  <2>1. CASE ~ (Len(m) <= Len(p))
    <3>1. Len(p) + 1 \in 1 .. Len(m) /\ Len(p) + 1 \in Nat
      BY <1>3, <1>6, <2>1
    <3>2. m[Len(p) + 1] \in P[Len(p) + 1]
      BY <1>7, <3>1
    <3> QED
      BY <1>4, <3>1, <3>2, Zenon
  <2>2. \A i \in 1 .. Len(m) : i \in Nat
    BY <1>6
  <2>3. \A i \in 1 .. Len(m) : p[i] # MWC /\ p[i] \in {SWC, m[i]}
    BY <1>4, <1>7, <2>2, Zenon
  <2> QED
    BY <2>1, <2>3
<1>8. ASSUME NEW m \in DOMAIN rtree, Len(m) <= Len(p),
             \A i \in 1 .. Len(m) : p[i] # MWC /\ p[i] \in {SWC, m[i]}
      PROVE  \A i \in 1 .. Len(m) : m[i] \in P[i]
  <2>1. ASSUME NEW i \in 1 .. Len(m) PROVE m[i] \in P[i]
    <3>1. i \in Nat /\ i # Len(p) + 1
      BY <1>3, <1>6, <1>8
    <3>2. m[i] \in Levels /\ p[i] # MWC /\ p[i] \in {SWC, m[i]}
      BY <1>6, <1>8, Zenon
    <3> QED
      BY <1>4, <3>1, <3>2, Zenon
  <2> QED
    BY <2>1
<1>9. \A m : m \in Reached(rtree, P, <<>>) <=>
               /\ m \in DOMAIN rtree /\ Len(m) <= Len(p)
               /\ \A i \in 1 .. Len(m) : p[i] # MWC /\ p[i] \in {SWC, m[i]}
  BY <1>5, <1>7, <1>8, Zenon
<1> QED
  BY <1>1, <1>2, <1>9, Zenon

(* The nodes that rmatch takes are those that the filter matches. *)
LEMMA FoundAreMatching ==
  ASSUME Tree(rtree), NEW f \in Seq(RawLevels), Valid(f), NEW x \in Found(f)
  PROVE  x \in DOMAIN rtree /\ Matches(Path(f), x)
<1>1. PICK p : p = Path(f)
  OBVIOUS
<1>2. p \in Seq(Levels) /\ DOMAIN p = 1 .. Len(p) /\ Len(p) \in Nat
  BY <1>1, ValidPath
<1>3. \A i \in 1 .. Len(p) : p[i] = MWC => i = Len(p)
  BY <1>1, ValidPath, Zenon
<1>4. PICK m \in Reached(rtree, Goes(f), <<>>) : x \in Takes(f)[m]
  BY Zenon DEF Found
<1>5. /\ m \in DOMAIN rtree /\ Len(m) <= Len(p)
      /\ \A i \in 1 .. Len(m) : p[i] # MWC /\ p[i] \in {SWC, m[i]}
  BY <1>1, ComesTo, Zenon
<1>6. m \in Seq(Levels) /\ Len(m) \in Nat
  BY <1>5 DEF Tree, Named
<1>7. Takes(f)[m] = IF Len(m) = Len(p) THEN {m} ELSE IF p[Len(m) + 1] = MWC THEN Below(rtree, m) ELSE {}
  BY <1>1, <1>5, Zenon DEF Takes
<1>8. CASE Len(m) = Len(p)
  <2>1. x = m
    BY <1>4, <1>7, <1>8, Zenon
  <2>2. \A i \in DOMAIN p : p[i] \in {SWC, x[i]}
    BY <1>2, <1>5, <1>8, <2>1, Zenon
  <2> QED
    BY <1>1, <1>5, <1>8, <2>1, <2>2, Zenon DEF Matches
<1>9. CASE Len(m) # Len(p)
  <2>1. p[Len(m) + 1] = MWC /\ x \in Below(rtree, m)
    BY <1>4, <1>7, <1>9, Zenon
  <2>2. Len(m) + 1 \in 1 .. Len(p)
    <3>1. Len(m) <= Len(p)
      BY <1>5
    <3>2. Len(p) \in Nat
      BY <1>2
    <3> QED
      BY <1>6, <1>9, <3>1, <3>2
  <2>3. Len(m) + 1 = Len(p)
    BY <1>3, <2>1, <2>2, Zenon
  <2>4. x \in DOMAIN rtree /\ IsPrefix(m, x) /\ x \in Seq(Levels) /\ Len(x) \in Nat
    BY <2>1 DEF Below, Tree, Named
  <2>5. Len(m) <= Len(x) /\ \A i \in 1 .. Len(m) : m[i] = x[i]
    BY <1>6, <2>4, PrefixByLevels
  <2>6. p # <<>> /\ Last(p) = MWC
    <3>1. Len(p) # 0
      BY <1>6, <2>3
    <3> QED
      BY <1>2, <2>1, <2>3, <3>1 DEF Last
  <2>7. Len(p) <= Len(x) + 1 /\ Len(p) - 1 = Len(m)
    <3>1. Len(m) <= Len(x) /\ Len(x) \in Nat
      BY <2>4, <2>5
    <3> QED
      BY <1>6, <2>3, <3>1
  <2>8. \A i \in 1 .. Len(p) - 1 : p[i] \in {SWC, x[i]}
    BY <1>5, <2>5, <2>7, Zenon
  <2> QED
    BY <1>1, <2>4, <2>6, <2>7, <2>8, Zenon DEF Matches
<1> QED
  BY <1>8, <1>9

(* and all of them. *)
LEMMA MatchingAreFound ==
  ASSUME Tree(rtree), NEW f \in Seq(RawLevels), Valid(f),
         NEW x \in DOMAIN rtree, Matches(Path(f), x)
  PROVE  x \in Found(f)
<1>1. PICK p : p = Path(f)
  OBVIOUS
<1>2. p \in Seq(Levels) /\ DOMAIN p = 1 .. Len(p) /\ Len(p) \in Nat
  BY <1>1, ValidPath
<1>3. \A i \in 1 .. Len(p) : p[i] = MWC => i = Len(p)
  BY <1>1, ValidPath, Zenon
<1>4. x \in Seq(Levels) /\ Len(x) \in Nat
  BY DEF Tree, Named
<1>5. \A m \in DOMAIN rtree :
        Len(m) <= Len(p) /\ (\A i \in 1 .. Len(m) : p[i] # MWC /\ p[i] \in {SWC, m[i]})
          => m \in Reached(rtree, Goes(f), <<>>)
  BY <1>1, ComesTo, Zenon
<1>6. \A m \in DOMAIN rtree : Takes(f)[m] =
        IF Len(m) = Len(p) THEN {m} ELSE IF p[Len(m) + 1] = MWC THEN Below(rtree, m) ELSE {}
  BY <1>1, Zenon DEF Takes
<1>7. CASE p # <<>> /\ Last(p) = MWC
  <2>1. Len(p) \in 1 .. Len(p) /\ Len(p) > 0 /\ p[Len(p)] = MWC
    BY <1>2, <1>7 DEF Last
  <2>2. Len(p) <= Len(x) + 1 /\ \A i \in 1 .. Len(p) - 1 : p[i] \in {SWC, x[i]}
    <3>1. CASE Len(p) = Len(x) /\ \A i \in DOMAIN p : p[i] \in {SWC, x[i]}
      <4>1. \A i \in 1 .. Len(p) - 1 : i \in 1 .. Len(p)
        BY <1>2, PlacesBefore, Zenon
      <4>2. Len(p) <= Len(x) + 1
        BY <1>2, <1>4, <3>1, PlacesBefore, Zenon
      <4> QED
        BY <1>2, <3>1, <4>1, <4>2, Zenon
    <3> QED
      BY <1>1, <3>1, Zenon DEF Matches
  <2>3. PICK k \in Nat : k + 1 = Len(p) /\ Len(p) - 1 = k
    BY <2>1
  <2>4. k \in 0 .. Len(x)
    <3>1. Len(p) <= Len(x) + 1
      BY <2>2
    <3> QED
      BY <1>4, <2>3, <3>1
  <2>5. PICK m : m = SubSeq(x, 1, k)
    OBVIOUS
  <2>6. m \in DOMAIN rtree
    BY <2>4, <2>5, BeginningsAreNodes, Zenon
  <2>7. m \in Seq(Levels) /\ Len(m) = k /\ \A i \in 1 .. k : m[i] = x[i]
    BY <1>4, <2>4, <2>5, Beginning, Zenon
  <2>8. Len(m) <= Len(p) /\ Len(m) # Len(p) /\ Len(m) <= Len(x)
    <3>1. Len(m) = k
      BY <2>7
    <3> QED
      BY <1>4, <2>3, <2>4, <3>1
  <2>9. \A i \in 1 .. k : p[i] # MWC /\ p[i] \in {SWC, m[i]}
    <3>1. \A i \in 1 .. k : i \in 1 .. Len(p) /\ i # Len(p)
      BY <2>3
    <3> QED
      BY <1>3, <2>2, <2>3, <2>7, <3>1, Zenon
  <2>10. m \in Reached(rtree, Goes(f), <<>>)
    BY <1>5, <2>6, <2>7, <2>8, <2>9, Zenon
  <2>11. IsPrefix(m, x)
    BY <1>4, <2>7, <2>8, PrefixByLevels, Zenon
  <2>12. x \in Takes(f)[m]
    <3>1. p[Len(m) + 1] = MWC
      BY <2>1, <2>3, <2>7
    <3>2. Takes(f)[m] = Below(rtree, m)
      BY <1>6, <2>6, <2>8, <3>1, Zenon
    <3> QED
      BY <2>11, <3>2 DEF Below
  <2> QED
    BY <2>10, <2>12, Zenon DEF Found
<1>8. CASE ~ (p # <<>> /\ Last(p) = MWC)
  <2>1. Len(p) = Len(x) /\ \A i \in DOMAIN p : p[i] \in {SWC, x[i]}
    BY <1>1, <1>8, Zenon DEF Matches
  <2>2. \A i \in 1 .. Len(p) : p[i] # MWC
    <3>1. CASE p = <<>>
      <4>1. \A i \in 1 .. Len(p) : FALSE
        BY <3>1
      <4> QED
        BY <4>1
    <3>2. CASE p # <<>>
      <4>1. p[Len(p)] # MWC
        BY <1>8, <3>2, Zenon DEF Last
      <4> QED
        BY <1>3, <4>1, Zenon
    <3> QED
      BY <3>1, <3>2
  <2>3. Len(x) <= Len(p)
    <3>1. Len(p) = Len(x)
      BY <2>1
    <3> QED
      BY <1>4, <3>1
  <2>4. x \in Reached(rtree, Goes(f), <<>>)
    BY <1>2, <1>5, <2>1, <2>2, <2>3, Zenon
  <2>5. x \in Takes(f)[x]
    BY <1>6, <2>1, Zenon
  <2> QED
    BY <2>4, <2>5, Zenon DEF Found
<1> QED
  BY <1>7, <1>8

(* A new subscription is sent a message exactly for the topics that its filter
   matches and that hold one (rinsertOrUpdate, rremove and rmatch together). *)
THEOREM RetainedIsExact == Spec => []RetainedExact
<1>1. TreesInv /\ RootsInv => RetainedExact
  <2> SUFFICES ASSUME TreesInv, RootsInv, NEW s \in Subs, Valid(s.topic)
      PROVE  Retained(s.topic) = {n \in DOMAIN rtree : rtree[n] # None /\ Matches(Path(s.topic), n)}
    BY Zenon DEF RetainedExact
  <2>1. Tree(rtree) /\ s.topic \in Seq(RawLevels)
    BY Topics DEF Tree, TreesInv, TypeOK, RootsInv
  <2>2. Retained(s.topic) = {n \in Found(s.topic) : rtree[n] # None}
    BY <2>1, RetainedIs
  <2>3. \A n : n \in Found(s.topic) <=> n \in DOMAIN rtree /\ Matches(Path(s.topic), n)
    BY <2>1, FoundAreMatching, MatchingAreFound, Zenon
  <2> QED
    BY <2>2, <2>3, Zenon
<1> QED
  BY <1>1, RootsAlways, PTL
=============================================================================
