----------------------------- MODULE MemTopics -----------------------------
(***************************************************************************)
(* The topics provider (topics/memtopics.go): a tree of subscriptions and  *)
(* a tree of retained messages, each under a read-write lock, so that an   *)
(* operation is one step.                                                  *)
(*                                                                         *)
(* A topic is the sequence of its levels, what is between its slashes; an  *)
(* empty level is "".  A tree is a function on its nodes, and a node is    *)
(* named by the levels that lead to it from the root <<>>.                 *)
(*                                                                         *)
(* Abstracted: the order of a node's subscribers, and the QoS kept with    *)
(* each of them, which matchQos does not read.                             *)
(***************************************************************************)
EXTENDS Naturals, SequencesExt

CONSTANTS
  Words,      \* level names without wildcard
  Malformed,  \* level names that hold a wildcard and something else: "a+"
  Subs,       \* subscriptions (*common.Subscription), [topic, id]
  TopicNames, \* topics of PUBLISH packets
  Messages,   \* their contents
  None        \* nil

SWC == "+"
MWC == "#"
RawLevels == Words \cup Malformed \cup {"", SWC, MWC}

ASSUME MemTopicsAssumption ==
  /\ Words \cap ({"", SWC, MWC} \cup Malformed) = {}
  /\ Malformed \cap {"", SWC, MWC} = {}
  /\ \A s \in Subs : s.topic \in Seq(RawLevels)
  /\ TopicNames \subseteq Seq(RawLevels)
  /\ None \notin Messages

VARIABLES
  stree,  \* _sroot: the subscribers of each node
  rtree   \* _rroot: the message of each node, or None

vars == <<stree, rtree>>

-----------------------------------------------------------------------------
(* nextTopicLevel.  '#' must be all of the last level, and '+' all of its
   level.  An empty level is read as "+", but at the end, where it is no
   level at all. *)
GoodAnywhere(t, i) == t[i] \notin Malformed
Good(t, i) == t[i] \notin Malformed /\ (t[i] = MWC => i = Len(t))
Key(l) == IF l = "" THEN SWC ELSE l
Trim(t) == IF t # <<>> /\ Last(t) = "" THEN Front(t) ELSE t
Path(t) == [i \in DOMAIN Trim(t) |-> Key(t[i])]
Valid(t) == \A i \in DOMAIN Path(t) : Good(t, i)

(* The nodes on the way to a topic, as far as its levels can be read. *)
Way(t) == {p \in Prefixes(Path(t)) : \A i \in DOMAIN p : Good(t, i)}
Below(tree, n) == {m \in DOMAIN tree : IsPrefix(n, m)}
Children(tree, n) == {m \in Below(tree, n) : Len(m) = Len(n) + 1}

(* sinsert and rinsertOrUpdate make the missing nodes as they go, also those
   before a level that is then refused. *)
Grow(tree, t, bare) ==
  [n \in DOMAIN tree \cup Way(t) |-> IF n \in DOMAIN tree THEN tree[n] ELSE bare]
Put(tree, t, bare, x) ==
  IF Valid(t) THEN [Grow(tree, t, bare) EXCEPT ![Path(t)] = x] ELSE Grow(tree, t, bare)

(* sremove and rremove, on their way back, delete each node that is left with
   no children; sremove spares those with subscribers, rremove none.  What is
   below a deleted node goes with it. *)
RDeadAlone(tree, t) == Way(t) \ {<<>>}
RDead(tree, t) == {n \in Way(t) \ {<<>>} : Below(tree, n) \subseteq Way(t)}
SDead(tree, t) == {n \in RDead(tree, t) : \A m \in Below(tree, n) : tree[m] = {}}
Cut(tree, dead) ==
  [n \in DOMAIN tree \ UNION {Below(tree, d) : d \in dead} |-> tree[n]]

-----------------------------------------------------------------------------
Init ==
  /\ stree = [n \in {<<>>} |-> {}]
  /\ rtree = [n \in {<<>>} |-> None]

SubscribersAt(t) == IF Path(t) \in DOMAIN stree THEN stree[Path(t)] ELSE {}
Subscribe(s) ==
  /\ stree' = Put(stree, s.topic, {}, SubscribersAt(s.topic) \cup {s})
  /\ UNCHANGED rtree

(* A topic or a subscriber that is not there is an error, and nothing else. *)
Unsubscribe(s) ==
  /\ Valid(s.topic) /\ s \in SubscribersAt(s.topic)
  /\ LET left == [stree EXCEPT ![Path(s.topic)] = @ \ {s}] IN
       stree' = Cut(left, SDead(left, s.topic))
  /\ UNCHANGED rtree

Retain(t, m) ==
  /\ rtree' = Put(rtree, t, None, m)
  /\ UNCHANGED stree

(* Retain with an empty payload. *)
Clear(t) ==
  /\ Valid(t) /\ Path(t) \in DOMAIN rtree
  /\ rtree' = Cut([rtree EXCEPT ![Path(t)] = None], RDead(rtree, t))
  /\ UNCHANGED stree

Next ==
  \/ \E s \in Subs : Subscribe(s) \/ Unsubscribe(s)
  \/ \E t \in TopicNames : Clear(t) \/ \E m \in Messages : Retain(t, m)

Spec == Init /\ [][Next]_vars

-----------------------------------------------------------------------------
(* smatch walks from the root to every node that the topic's levels reach, and
   takes the subscribers where the topic ends and those of each '#' it passes.
   A level that cannot be read, where the walk comes to it, is an error, on
   which procPublish delivers to nobody. *)
Visited(t) ==
  LET p == Path(t)
      smatch[n \in DOMAIN stree] ==
        {n} \cup IF Len(n) = Len(p) \/ ~Good(t, Len(n) + 1) THEN {}
                 ELSE UNION {smatch[c] : c \in {d \in Children(stree, n) :
                               Last(d) # MWC /\ Last(d) \in {SWC, p[Len(n) + 1]}}}
  IN smatch[<<>>]
RestsBelow(t) ==
  {n \in DOMAIN stree : n # <<>> /\ Last(n) = MWC /\ Front(n) \in Visited(t) /\ Len(n) <= Len(Path(t))}
Rests(t) == {n \in DOMAIN stree : n # <<>> /\ Last(n) = MWC /\ Front(n) \in Visited(t)}
Subscribers(t) ==
  LET ends == {n \in Visited(t) : Len(n) = Len(Path(t))}
  IN IF \E n \in Visited(t) \ ends : ~Good(t, Len(n) + 1) THEN {}
     ELSE UNION {stree[n] : n \in ends \cup Rests(t)}

(* rmatch, for a filter that Subscribe has accepted: the nodes whose messages
   it finds. *)
StrictlyBelow(tree, n) == Below(tree, n) \ {n}
AllRetained(tree, n) == Below(tree, n)
Retained(f) ==
  LET p == Path(f)
      rmatch[n \in DOMAIN rtree] ==
        IF Len(n) = Len(p) THEN {n}
        ELSE LET level == p[Len(n) + 1] IN
          IF level = MWC THEN AllRetained(rtree, n)
          ELSE UNION {rmatch[c] : c \in {d \in Children(rtree, n) : level \in {SWC, Last(d)}}}
  IN {n \in rmatch[<<>>] : rtree[n] # None}

-----------------------------------------------------------------------------
(* The trees are trees: every node's parent is a node, no level in them is
   malformed, and '#' has no children. *)
TreeShape(tree) == \A n \in DOMAIN tree :
  /\ n = <<>> \/ Front(n) \in DOMAIN tree
  /\ \A i \in DOMAIN n : n[i] \in Words \cup {SWC, MWC} /\ (n[i] = MWC => i = Len(n))
TypeOK ==
  /\ TreeShape(stree) /\ TreeShape(rtree)
  /\ \A n \in DOMAIN stree : stree[n] \subseteq Subs
  /\ \A n \in DOMAIN rtree : rtree[n] \in Messages \cup {None}

(* MQTT's rule, on paths: level by level, '+' for any level, and '#' for the
   rest, which may be nothing. *)
Matches(f, p) ==
  \/ Len(f) = Len(p) /\ \A i \in DOMAIN f : f[i] \in {SWC, p[i]}
  \/ /\ f # <<>> /\ Last(f) = MWC /\ Len(f) <= Len(p) + 1
     /\ \A i \in 1 .. Len(f) - 1 : f[i] \in {SWC, p[i]}

(* Whatever was subscribed and unsubscribed before, in whatever order, a
   publication finds exactly those subscriptions in the tree whose filters
   match its topic, wherever the branches of refused and removed filters lie
   (sinsert, sremove and smatch together). *)
Subscribed == UNION {stree[n] : n \in DOMAIN stree}
SubscribersExact ==
  \A t \in TopicNames : Valid(t) =>
    Subscribers(t) = {s \in Subscribed : Matches(Path(s.topic), Path(t))}

(* A new subscription is sent a message exactly for the topics that its filter
   matches and that hold one (rinsertOrUpdate, rremove and rmatch together). *)
RetainedExact ==
  \A s \in Subs : Valid(s.topic) =>
    Retained(s.topic) = {n \in DOMAIN rtree : rtree[n] # None /\ Matches(Path(s.topic), n)}

(* What the trees stand for. *)
Holds(n) == n \in DOMAIN rtree /\ rtree[n] # None
TopicPaths == {Path(t) : t \in TopicNames}
PathsAbove == [p \in TopicPaths |-> {q \in TopicPaths : q # p /\ IsPrefix(q, p)}]
RetainedAt == [p \in TopicPaths |-> IF p \in DOMAIN rtree THEN rtree[p] ELSE None]
Store == INSTANCE TopicStore WITH
  Subs <- {s \in Subs : Valid(s.topic)}, Places <- TopicPaths, Above <- PathsAbove,
  subscriptions <- Subscribed, messages <- RetainedAt

(* The trees are a TopicStore: a subscription or a message enters and leaves by
   its own operations only, no pruned branch takes another subscription along,
   no refused filter or topic leaves one, and what is lost when a topic is
   cleared was retained above it. *)
ImplementsStore == Store!Spec

(* memtopics.go:326, "Remove the retained message for the supplied topic": and
   no other topic's. *)
ClearsItsTopic ==
  [][\A t \in TopicNames : Clear(t) =>
        \A p \in TopicPaths \ {Path(t)} : Holds(p) => Holds(p)']_vars
=============================================================================
