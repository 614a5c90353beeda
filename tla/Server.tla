------------------------------- MODULE Server -------------------------------
(***************************************************************************)
(* The life of the server: the engine (core/engine.go) that starts, waits  *)
(* for a signal and shuts down, the accept loop (server/tcpBroker.go), and *)
(* the listener's count of connections (network/listener.go) that the      *)
(* shutdown waits for.                                                     *)
(*                                                                         *)
(* A connection is two goroutines: the one that runs its Close ("closer")  *)
(* and its writer.  Both call MConn.Close, the closer in line 533 of       *)
(* conBroker.go and the writer in its deferred function, as soon as the    *)
(* writer has been told to end; what else they do is module ConBroker.     *)
(* MConn.Close has no lock, so it is one step for each access to _wg.      *)
(***************************************************************************)
EXTENDS Integers, FiniteSets

CONSTANTS
  Conns,     \* the connections that may arrive
  Outcomes   \* how Start may end: "ok", "config" (before the broker), "listen"

ASSUME ServerAssumption ==
  /\ IsFiniteSet(Conns)
  /\ Outcomes \subseteq {"ok", "config", "listen"}

VARIABLES
  main,       \* the goroutine that owns the engine: Start, Wait, Shutdown
  signalled,  \* Engine._closed has been closed
  broker,     \* Engine._broker is set
  shutdown,   \* TCPBroker._shutdown: "nil", "open" or "closed"
  listening,  \* the net.Listener is open
  serve,      \* place of Serve
  count,      \* MListener._wg
  taken,      \* the connections accepted
  place,      \* place of each connection's closer and writer
  cleared,    \* the connections whose MConn._wg is nil
  died,       \* what the process has died of, or "no"
  done,       \* history: the calls of Done, by connection and goroutine
  late,       \* history: connections accepted after close(_shutdown)
  refused     \* history: Accepts that found the listener closed

engineVars == <<main, signalled, broker, shutdown, listening>>
loopVars == <<serve, taken, late, refused>>
closeVars == <<place, cleared, done>>
vars == <<engineVars, loopVars, closeVars, count, died>>

Goroutines == {"closer", "writer"}

Init ==
  /\ main = "start" /\ signalled = FALSE /\ broker = FALSE
  /\ shutdown = "nil" /\ listening = FALSE
  /\ serve = "off" /\ count = 0 /\ taken = {}
  /\ place = [c \in Conns |-> [g \in Goroutines |-> "none"]]
  /\ cleared = {} /\ died = "no"
  /\ done = {} /\ late = {} /\ refused = 0

-----------------------------------------------------------------------------
(* The engine.  Its owner calls Start, Wait and Shutdown; after an error of
   Start it goes to Shutdown at once. *)
Main(from, to) == died = "no" /\ main = from /\ main' = to

(* A configuration that cannot be read ends Start before there is a broker;
   an address that cannot be listened on, after. *)
Start(outcome) ==
  /\ Main("start", IF outcome = "ok" THEN "wait" ELSE "shutdown")
  /\ broker' = (outcome # "config")
  /\ IF outcome = "ok"
       THEN shutdown' = "open" /\ listening' = TRUE /\ serve' = "select"
       ELSE UNCHANGED <<shutdown, listening, serve>>
  /\ UNCHANGED <<signalled, taken, late, refused, closeVars, count, died>>

SignalClose ==
  /\ died = "no" /\ main = "wait" /\ ~signalled /\ signalled' = TRUE
  /\ UNCHANGED <<main, broker, shutdown, listening, loopVars, closeVars, count, died>>

WaitSignal ==
  /\ Main("wait", "shutdown") /\ signalled
  /\ UNCHANGED <<signalled, broker, shutdown, listening, loopVars, closeVars, count, died>>

(* close(_shutdown), which Start has not made if it could not listen. *)
CloseShutdown ==
  /\ IF ~broker
       THEN Main("shutdown", "release") /\ UNCHANGED <<shutdown, died>>
     ELSE IF shutdown = "nil"
       THEN Main("shutdown", "shutdown") /\ died' = "nil channel" /\ UNCHANGED shutdown
     ELSE Main("shutdown", "listener") /\ shutdown' = "closed" /\ UNCHANGED died
  /\ UNCHANGED <<signalled, broker, listening, loopVars, closeVars, count>>

LeftOpen == listening
Closed == FALSE
CloseListener ==
  /\ Main("listener", "join") /\ listening' = Closed
  /\ UNCHANGED <<signalled, broker, shutdown, loopVars, closeVars, count, died>>

Join ==
  /\ Main("join", "release") /\ serve = "done"
  /\ UNCHANGED <<signalled, broker, shutdown, listening, loopVars, closeVars, count, died>>

(* The rest of Engine.Shutdown: the authentication and the log are gone. *)
Release ==
  /\ Main("release", "down") /\ broker' = FALSE
  /\ UNCHANGED <<signalled, shutdown, listening, loopVars, closeVars, count, died>>

-----------------------------------------------------------------------------
(* Serve. *)
Serving(from, to) == died = "no" /\ serve = from /\ serve' = to

NeverTold == FALSE
ToldToStop == shutdown = "closed"
Select ==
  /\ Serving("select", IF ToldToStop THEN "wait" ELSE "accept")
  /\ UNCHANGED <<engineVars, taken, late, refused, closeVars, count, died>>

Accept(c) ==
  /\ Serving("accept", "select") /\ listening /\ c \notin taken
  /\ taken' = taken \cup {c} /\ count' = count + 1
  /\ place' = [place EXCEPT ![c] = [g \in Goroutines |-> "run"]]
  /\ late' = IF shutdown = "closed" THEN late \cup {c} ELSE late
  /\ UNCHANGED <<engineVars, refused, cleared, done, died>>

(* An error counts no connection.  A temporary one is tried again, after a
   delay, any other ends the loop, except that of a closed listener, which is
   tried again too. *)
AddedBefore == count + 1
DoneAnyway == count - 1
Unadded == count
AcceptFails ==
  /\ \/ listening /\ (Serving("accept", "select") \/ Serving("accept", "wait")) /\ UNCHANGED refused
     \/ ~listening /\ Serving("accept", "select") /\ refused' = refused + 1
  /\ count' = Unadded
  /\ UNCHANGED <<engineVars, taken, late, closeVars, died>>

(* MListener.Wait, then the deferred Done that Shutdown waits for. *)
WaitSkipped == TRUE
AllCountedOff == count = 0
WaitClients ==
  /\ Serving("wait", "done") /\ AllCountedOff
  /\ UNCHANGED <<engineVars, taken, late, refused, closeVars, count, died>>

-----------------------------------------------------------------------------
(* A connection closes.  Its log needs the engine's: what is logged after
   Shutdown is a call through a nil interface. *)
At(c, g, from) == died = "no" /\ place[c][g] = from
To(c, g, to) == place' = [place EXCEPT ![c][g] = to]
Logged == died' = IF main = "down" THEN "nil log" ELSE "no"

Leave(c) ==
  /\ At(c, "closer", "run") /\ Logged
  /\ place' = [place EXCEPT ![c] = [g \in Goroutines |-> "check"]]
  /\ UNCHANGED <<engineVars, loopVars, count, cleared, done>>

(* MConn.Close: "if _wg != nil", "_wg.Done()", "_wg = nil", "Conn.Close()". *)
CheckNil(c, g) ==
  /\ At(c, g, "check") /\ To(c, g, IF c \in cleared THEN "socket" ELSE "count")
  /\ UNCHANGED <<engineVars, loopVars, count, cleared, done, died>>

(* _wg is read again for the call, or kept from the check.  Done on nil, and a
   count that falls below 0, panic. *)
Uncounted == count
Counted == count - 1
Done(c, g) ==
  /\ At(c, g, "count")
  /\ \/ c \in cleared /\ died' = "nil wait group" /\ UNCHANGED <<place, done, count>>
     \/ /\ count' = Counted /\ done' = done \cup {<<c, g>>} /\ To(c, g, "clear")
        /\ died' = IF count = 0 THEN "negative count" ELSE "no"
  /\ UNCHANGED <<engineVars, loopVars, cleared>>

ClearPointer(c, g) ==
  /\ At(c, g, "clear") /\ To(c, g, "socket") /\ cleared' = cleared \cup {c}
  /\ UNCHANGED <<engineVars, loopVars, count, done, died>>

CloseSocket(c, g) ==
  /\ At(c, g, "socket") /\ To(c, g, IF g = "writer" THEN "gone" ELSE "join")
  /\ UNCHANGED <<engineVars, loopVars, count, cleared, done, died>>

(* The closer waits for the writer, tidies up and logs that it is done. *)
Finish(c) ==
  /\ At(c, "closer", "join") /\ place[c]["writer"] = "gone" /\ Logged
  /\ To(c, "closer", "gone")
  /\ UNCHANGED <<engineVars, loopVars, count, cleared, done>>

-----------------------------------------------------------------------------
Owner == WaitSignal \/ CloseShutdown \/ CloseListener \/ Join \/ Release
Loop == Select \/ (~listening /\ AcceptFails) \/ WaitClients
MConnClose(c, g) == CheckNil(c, g) \/ Done(c, g) \/ ClearPointer(c, g) \/ CloseSocket(c, g)

Next ==
  \/ \E o \in Outcomes : Start(o)
  \/ SignalClose \/ Owner \/ Select \/ AcceptFails \/ WaitClients
  \/ \E c \in Conns : Accept(c) \/ Leave(c) \/ Finish(c) \/ \E g \in Goroutines : MConnClose(c, g)

Spec == Init /\ [][Next]_vars

(* The goroutines are scheduled.  Clients, signals and a listener that is open
   are free: nobody has to arrive, leave or send a signal. *)
Fairness ==
  /\ WF_vars(Owner) /\ WF_vars(Loop)
  /\ \A c \in Conns : WF_vars(Finish(c)) /\ \A g \in Goroutines : WF_vars(MConnClose(c, g))
FairSpec == Spec /\ Fairness

-----------------------------------------------------------------------------
EngineType ==
  /\ main \in {"start", "wait", "shutdown", "listener", "join", "release", "down"}
  /\ signalled \in BOOLEAN /\ broker \in BOOLEAN /\ listening \in BOOLEAN
  /\ shutdown \in {"nil", "open", "closed"}
LoopType ==
  /\ serve \in {"off", "select", "accept", "wait", "done"}
  /\ taken \subseteq Conns /\ late \subseteq Conns /\ refused \in Nat
CloseType ==
  /\ place \in [Conns -> [Goroutines -> {"none", "run", "check", "count", "clear", "socket", "join", "gone"}]]
  /\ cleared \subseteq Conns /\ done \subseteq Conns \X Goroutines
CountType ==
  /\ died \in {"no", "nil channel", "nil wait group", "negative count", "nil log"}
  /\ count \in Int /\ (died # "negative count" => count >= 0)

(* Every variable has its type; the count is below 0 only when the process has
   died of it. *)
TypeOK == EngineType /\ LoopType /\ CloseType /\ CountType

(* The goroutine has gone past MConn.Close's Done, called or skipped. *)
Past(c, g) == place[c][g] \in {"clear", "socket", "join", "gone"}
Off(c) == \E g \in Goroutines : Past(c, g)

(* The shutdown never waits for a connection that one of its goroutines has
   already counted off: the count is at most the number of the others
   (MListener.Accept, MConn.Close). *)
CountCovers == count <= Cardinality({c \in taken : ~Off(c)})

(* listener.go:33, "wait for all clients to end".  When Serve has waited, every
   connection accepted has been counted off; the one exception is what the
   unguarded check of _wg allows, a connection counted off twice. *)
Twice(c) == \A g \in Goroutines : <<c, g>> \in done
WaitsForAll == serve = "done" => (\A c \in taken : Off(c)) \/ (\E c \in taken : Twice(c))

(* The order of Shutdown, the channel before the listener: once it has begun,
   Serve takes at most the one connection it was waiting for, and calls Accept
   on the closed listener at most once (TCPBroker.Shutdown, Serve). *)
LastAccept == Cardinality(late) <= 1 /\ refused <= 1

(* When every connection is closing, Shutdown returns, unless the race in
   MConn.Close, or a log entry after a Shutdown, has killed the process. *)
ShutdownReturns ==
  (main = "join" /\ \A c \in taken : place[c]["closer"] # "run") ~> (main = "down" \/ died # "no")
=============================================================================
