---------------------------- MODULE MC_ConBroker ----------------------------
(***************************************************************************)
(* Instances of ConBroker for TLC.                                         *)
(***************************************************************************)
EXTENDS ConBroker, TLC

CONSTANTS c1, c2, c3, A, B, t, u, v

Nobody == [c \in Conns |-> {}]
Conn(client, clean, will) == [client |-> client, clean |-> clean, will |-> will]
Pub(qos, retain) == [topic |-> t, qos |-> qos, retain |-> retain]

Of(x, y) == c1 :> x @@ c2 :> y
Of3(x, y, z) == c1 :> x @@ c2 :> y @@ c3 :> z

NoKicks == [c \in Conns |-> 0]
OneKick == [c \in Conns |-> IF c = c1 THEN 1 ELSE 0]

(* closing: c1 has a will, subscribes, unsubscribes and leaves, its timer
   running, while c2 publishes to it (without a CONNECT, which onPublish does
   not ask for). *)
ClosingConnects == Of({Conn(A, TRUE, t)}, {})
ClosingPublishes == Of({}, {Pub(0, "no")})
ClosingSubscribes == Of({t}, {})
ClosingPackets == Of(3, 1)
ClosingLeaves == Of({"disconnect", "drop"}, {})

(* takeover: c1 and c2 share a client identifier, their sessions persist, c1
   has a will, subscribes, also to the refused filter u, and leaves; c2
   connects, or sends a retained publication or a PUBREL without connecting;
   and c3 publishes. *)
TakeoverConnects == Of3({Conn(A, FALSE, v)}, {Conn(A, FALSE, None)}, {})
TakeoverPublishes == Of3({}, {Pub(1, "keep")}, {Pub(0, "no")})
TakeoverSubscribes == Of3({t, u}, {}, {})
TakeoverPackets == Of3(2, 1, 2)
TakeoverLeaves == Of3({"drop", "disconnect"}, {}, {})

(* cross: both subscribe and publish, nobody leaves. *)
CrossConnects == Of({Conn(A, TRUE, None)}, {Conn(B, FALSE, None)})
CrossPublishes == Of({Pub(0, "no")}, {Pub(0, "no")})
CrossSubscribes == Of({t}, {t})
CrossPackets == Of(3, 3)

(* solo: one persistent client that drops. *)
SoloConnects == c1 :> {Conn(A, FALSE, None)}
SoloPackets == c1 :> 1
SoloLeaves == c1 :> {"drop"}

(* same: two clients with one identifier, clean or persistent. *)
CleanConnects == Of({Conn(A, TRUE, None)}, {Conn(A, TRUE, None)})
LastingConnects == Of({Conn(A, FALSE, None)}, {Conn(A, FALSE, None)})
SamePackets == Of(2, 1)
SameLeaves == Of({"disconnect"}, {})
=============================================================================
