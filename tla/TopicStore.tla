---------------------------- MODULE TopicStore -----------------------------
(***************************************************************************)
(* What the topics provider promises (topics/topics.go): a set of          *)
(* subscriptions, and a message or none at each place where one can be     *)
(* retained.  What is subscribed, retained or removed changes nothing      *)
(* else, except that clearing a place may lose what is retained above it.  *)
(***************************************************************************)
CONSTANTS
  Subs,      \* the subscriptions that can be made
  Places,    \* where messages can be retained
  Above,     \* for each place, those it lies below
  Messages, None

VARIABLES subscriptions, messages

Init == subscriptions = {} /\ messages = [p \in Places |-> None]

Subscribe(s) ==
  /\ subscriptions' = subscriptions \cup {s}
  /\ UNCHANGED messages

Unsubscribe(s) ==
  /\ s \in subscriptions
  /\ subscriptions' = subscriptions \ {s}
  /\ UNCHANGED messages

Retain(p, m) ==
  /\ messages' = [messages EXCEPT ![p] = m]
  /\ UNCHANGED subscriptions

Clear(p) ==
  /\ \E lost \in SUBSET Above[p] :
       messages' = [q \in Places |-> IF q \in lost \cup {p} THEN None ELSE messages[q]]
  /\ UNCHANGED subscriptions

Next ==
  \/ \E s \in Subs : Subscribe(s) \/ Unsubscribe(s)
  \/ \E p \in Places : Clear(p) \/ \E m \in Messages : Retain(p, m)

Spec == Init /\ [][Next]_<<subscriptions, messages>>
=============================================================================
