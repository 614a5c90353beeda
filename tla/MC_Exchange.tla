---------------------------- MODULE MC_Exchange ----------------------------
(***************************************************************************)
(* An instance of Exchange for TLC: four publications on two connections   *)
(* of one session, identifiers 0 .. 2, so that the counter restarts.       *)
(***************************************************************************)
EXTENDS Exchange, TLC

CONSTANTS w1, w2, m1, m2

a == <<97>>
Pub(qos, n, payload) ==
  [type |-> "publish", dup |-> FALSE, qos |-> qos, retain |-> 0, topic |-> a, id |-> n,
   payload |-> payload]
Filter(n) == [i \in 1 .. n |-> [path |-> a, qos |-> 0]]
Filters2 == <<[path |-> a, qos |-> 1], [path |-> <<35, 97>>, qos |-> 0]>>
Accepted == {a}
Hello(client, will, user) ==
  [type |-> "connect", magic |-> <<77, 81, 84, 84>>, client |-> client, clean |-> TRUE,
   will |-> will, user |-> user, password |-> user]

Contents == m1 :> Pub(1, 0, <<1>>) @@ m2 :> Pub(2, 0, <<>>)

Subscribe == [type |-> "subscribe", id |-> 7, filters |-> Filters2]
Unsubscribe(n) == [type |-> "unsubscribe", id |-> 7, filters |-> Filter(n)]
Will == <<[topic |-> a, message |-> <<>>, qos |-> 2]>>

(* w1's client only answers; w2's also sends something of its own: a PUBLISH
   under the broker's first identifier; an acknowledgement under it and a packet
   above the limit; one whose length has two digits and an UNSUBSCRIBE that loses
   its place; or the rest. *)
SaysAll ==
  w1 :> {}
  @@ w2 :> {<<Pub(2, 1, <<2>>)>>,
            <<Ack("puback", 1), Pub(1, 1, [i \in 1 .. 150 |-> 0])>>,
            <<Pub(1, 1, [i \in 1 .. 130 |-> 0]), Unsubscribe(4)>>,
            <<Subscribe, Hello(a, Will, a), Bare("disconnect")>>}
Said == w1 :> 0 @@ w2 :> 1
Carried == w1 :> {m1} @@ w2 :> {m2}
Takes == w1 :> 3 @@ w2 :> 1
=============================================================================
