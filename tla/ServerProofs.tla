---------------------------- MODULE ServerProofs ----------------------------
(***************************************************************************)
(* Proofs about Server, for every finite set of connections: the count the *)
(* shutdown waits for never stays too high, can be too low only through a  *)
(* connection counted off twice, and nothing but the one Accept under way  *)
(* comes after the start of a shutdown.                                    *)
(***************************************************************************)
EXTENDS Server, FiniteSetTheorems, FunctionTheorems, TLAPS

(* The count, exactly: the connections accepted less the calls of Done. *)
CountInv == count = Cardinality(taken) - Cardinality(done)

(* What the places say about the history. *)
PlaceInv ==
  \A c \in Conns :
    /\ c \notin taken => \A g \in Goroutines : place[c][g] = "none"
    /\ \A g \in Goroutines : <<c, g>> \in done => Past(c, g)
    /\ place[c]["closer"] = "run" => place[c]["writer"] = "run"
    /\ c \in cleared => \E h \in Goroutines : <<c, h>> \in done
    /\ \A g \in Goroutines : Past(c, g) => \E h \in Goroutines : <<c, h>> \in done

(* Once Serve has waited, the count can only fall. *)
WaitedInv == serve = "done" => count <= 0

(* The accept loop around the start of a shutdown. *)
OrderInv ==
  /\ ~listening => serve = "off" \/ shutdown = "closed"
  /\ main = "listener" => shutdown = "closed"
  /\ main \in {"start", "wait", "shutdown", "listener"} =>
       (listening \/ serve = "off") /\ (main # "listener" => shutdown # "closed")
  /\ shutdown # "closed" \/ serve = "accept" => late = {} /\ refused = 0
  /\ IsFiniteSet(late) /\ Cardinality(late) <= 1 /\ refused <= 1

IInv == TypeOK /\ CountInv /\ PlaceInv /\ WaitedInv /\ OrderInv

(* Only finitely many connections have been accepted, or counted off. *)
LEMMA Finite ==
  ASSUME TypeOK
  PROVE  /\ IsFiniteSet(taken) /\ Cardinality(taken) \in Nat
         /\ IsFiniteSet(done) /\ Cardinality(done) \in Nat
<1>1. IsFiniteSet(taken)
  BY ServerAssumption, FS_Subset DEF TypeOK, LoopType
<1>2. IsFiniteSet(done)
  <2>1. IsFiniteSet(Conns \X {"closer"}) /\ IsFiniteSet(Conns \X {"writer"})
    <3>1. ASSUME NEW w PROVE IsFiniteSet(Conns \X {w})
      <4> DEFINE f == [c \in Conns |-> <<c, w>>]
      <4>1. f \in [Conns -> Conns \X {w}] /\ \A t \in Conns \X {w} : \E c \in Conns : f[c] = t
        OBVIOUS
      <4>2. f \in Surjection(Conns, Conns \X {w})
        BY <4>1, Fun_IsSurj
      <4> QED BY <4>2, ServerAssumption, FS_Surjection
    <3> QED BY <3>1
  <2>2. IsFiniteSet((Conns \X {"closer"}) \cup (Conns \X {"writer"}))
    BY <2>1, FS_Union
  <2>3. done \subseteq (Conns \X {"closer"}) \cup (Conns \X {"writer"})
    BY DEF TypeOK, CloseType, Goroutines
  <2> QED BY <2>2, <2>3, FS_Subset
<1> QED BY <1>1, <1>2, FS_CardinalityType

(* The inductive invariant holds at the start. *)
LEMMA InitIInv == Init => IInv
<1> SUFFICES ASSUME Init PROVE IInv
  OBVIOUS
<1>1. TypeOK
  <2>1. EngineType /\ LoopType
    BY DEF Init, EngineType, LoopType
  <2>2. CloseType /\ CountType
    BY DEF Init, CloseType, CountType
  <2> QED BY <2>1, <2>2 DEF TypeOK
<1>2. CountInv /\ OrderInv
  BY FS_EmptySet DEF Init, CountInv, OrderInv
<1>3. PlaceInv /\ WaitedInv
  BY DEF Init, PlaceInv, WaitedInv, Past, Goroutines
<1> QED BY <1>1, <1>2, <1>3 DEF IInv

(* Every step keeps the types. *)
LEMMA TypeStep == IInv /\ [Next]_vars => TypeOK'
<1> SUFFICES ASSUME IInv, [Next]_vars PROVE TypeOK'
  OBVIOUS
<1>0. EngineType /\ LoopType /\ CloseType /\ CountType
  BY DEF IInv, TypeOK
<1> USE DEF engineVars, loopVars, closeVars
<1>1. ASSUME NEW o \in Outcomes, Start(o) PROVE TypeOK'
  <2>1. EngineType'
    BY <1>0, <1>1 DEF Start, Main, EngineType
  <2>2. LoopType'
    BY <1>0, <1>1 DEF Start, Main, LoopType
  <2>3. CloseType' /\ CountType'
    BY <1>0, <1>1 DEF Start, CloseType, CountType
  <2> QED BY <2>1, <2>2, <2>3 DEF TypeOK
<1>2. CASE SignalClose \/ WaitSignal \/ CloseShutdown \/ CloseListener \/ Join \/ Release
  <2> USE DEF SignalClose, WaitSignal, CloseShutdown, CloseListener, Closed, Join, Release, Main
  <2>1. EngineType'
    BY <1>0, <1>2 DEF EngineType
  <2>2. LoopType' /\ CloseType'
    BY <1>0, <1>2 DEF LoopType, CloseType
  <2>3. CountType'
    BY <1>0, <1>2 DEF CountType
  <2> QED BY <2>1, <2>2, <2>3 DEF TypeOK
<1>3. CASE Select \/ AcceptFails \/ WaitClients
  <2> USE DEF Select, AcceptFails, Unadded, WaitClients, Serving
  <2>1. EngineType' /\ CloseType'
    BY <1>0, <1>3 DEF EngineType, CloseType
  <2>2. LoopType'
    BY <1>0, <1>3 DEF LoopType
  <2>3. CountType'
    BY <1>0, <1>3 DEF CountType
  <2> QED BY <2>1, <2>2, <2>3 DEF TypeOK
<1>4. ASSUME NEW c \in Conns, Accept(c) PROVE TypeOK'
  <2>1. EngineType' /\ LoopType'
    BY <1>0, <1>4 DEF Accept, Serving, EngineType, LoopType
  <2>2. CloseType'
    BY <1>0, <1>4 DEF Accept, CloseType
  <2>3. CountType'
    BY <1>0, <1>4 DEF Accept, Serving, CountType
  <2> QED BY <2>1, <2>2, <2>3 DEF TypeOK
<1>5. ASSUME NEW c \in Conns, Leave(c) \/ Finish(c) PROVE TypeOK'
  <2>1. EngineType' /\ LoopType'
    BY <1>0, <1>5 DEF Leave, Finish, EngineType, LoopType
  <2>2. CloseType'
    BY <1>0, <1>5 DEF Leave, Finish, To, CloseType
  <2>3. CountType'
    BY <1>0, <1>5 DEF Leave, Finish, At, Logged, CountType
  <2> QED BY <2>1, <2>2, <2>3 DEF TypeOK
<1>6. ASSUME NEW c \in Conns, NEW g \in Goroutines, MConnClose(c, g) PROVE TypeOK'
  <2>1. CASE CheckNil(c, g) \/ ClearPointer(c, g) \/ CloseSocket(c, g)
    <3> USE DEF CheckNil, ClearPointer, CloseSocket, At, To
    <3>1. EngineType' /\ LoopType' /\ CountType'
      BY <1>0, <2>1 DEF EngineType, LoopType, CountType
    <3>2. CloseType'
      BY <1>0, <2>1 DEF CloseType
    <3> QED BY <3>1, <3>2 DEF TypeOK
  <2>2. CASE Done(c, g)
    <3>1. EngineType' /\ LoopType'
      BY <1>0, <2>2 DEF Done, EngineType, LoopType
    <3>2. place' \in [Conns -> [Goroutines -> {"none", "run", "check", "count", "clear", "socket", "join", "gone"}]]
      <4>1. place' = place \/ To(c, g, "clear")
        BY <2>2 DEF Done
      <4>2. ASSUME To(c, g, "clear") PROVE place' \in [Conns -> [Goroutines -> {"none", "run", "check", "count", "clear", "socket", "join", "gone"}]]
        BY <1>0, <4>2 DEF To, CloseType
      <4> QED BY <1>0, <4>1, <4>2 DEF CloseType
    <3>3. <<c, g>> \in Conns \X Goroutines
      OBVIOUS
    <3>4. CloseType'
      BY <1>0, <2>2, <3>2, <3>3 DEF Done, CloseType
    <3>5. died = "no" /\ count \in Int /\ count >= 0
      BY <1>0, <2>2 DEF Done, At, CountType
    <3>6. \/ count' = count /\ died' = "nil wait group"
          \/ count' = count - 1 /\ died' = IF count = 0 THEN "negative count" ELSE "no"
      BY <2>2 DEF Done, Counted
    <3>7. ASSUME count' = count /\ died' = "nil wait group" PROVE CountType'
      BY <3>5, <3>7 DEF CountType
    <3>8. ASSUME count' = count - 1 /\ count = 0 /\ died' = "negative count" PROVE CountType'
      <4>1. \A n \in Int : n - 1 \in Int
        OBVIOUS
      <4>2. count' \in Int
        BY <3>5, <3>8, <4>1, Zenon
      <4> QED BY <3>8, <4>2 DEF CountType
    <3>9. ASSUME count' = count - 1 /\ count # 0 /\ died' = "no" PROVE CountType'
      BY <3>5, <3>9 DEF CountType
    <3>10. CountType'
      BY <3>6, <3>7, <3>8, <3>9
    <3> QED BY <3>1, <3>4, <3>10 DEF TypeOK
  <2> QED BY <1>6, <2>1, <2>2 DEF MConnClose
<1>7. CASE UNCHANGED vars
  <2>1. EngineType' /\ LoopType'
    BY <1>0, <1>7 DEF vars, EngineType, LoopType
  <2>2. CloseType' /\ CountType'
    BY <1>0, <1>7 DEF vars, CloseType, CountType
  <2> QED BY <2>1, <2>2 DEF TypeOK
<1> QED
  BY <1>1, <1>2, <1>3, <1>4, <1>5, <1>6, <1>7 DEF Next, Owner

(* Every step keeps the count. *)
LEMMA CountStep == IInv /\ [Next]_vars => CountInv' /\ WaitedInv'
<1> SUFFICES ASSUME IInv, [Next]_vars PROVE CountInv' /\ WaitedInv'
  OBVIOUS
<1> USE DEF IInv, CountInv, WaitedInv, engineVars, loopVars, closeVars
<1>0. IsFiniteSet(taken) /\ Cardinality(taken) \in Nat /\ IsFiniteSet(done) /\ Cardinality(done) \in Nat
  BY Finite
<1>1. ASSUME NEW o \in Outcomes, Start(o) PROVE CountInv' /\ WaitedInv'
  BY <1>1 DEF Start, Main
<1>2. CASE SignalClose \/ WaitSignal \/ CloseShutdown \/ CloseListener \/ Join \/ Release
  BY <1>2 DEF SignalClose, WaitSignal, CloseShutdown, CloseListener, Join, Release, Main
<1>3. CASE Select \/ AcceptFails \/ WaitClients
  BY <1>3 DEF Select, AcceptFails, Unadded, WaitClients, AllCountedOff, Serving
<1>4. ASSUME NEW c \in Conns, Accept(c) PROVE CountInv' /\ WaitedInv'
  <2>1. Cardinality(taken \cup {c}) = Cardinality(taken) + 1
    BY <1>0, <1>4, FS_AddElement DEF Accept
  <2> QED BY <1>0, <1>4, <2>1 DEF Accept, Serving, TypeOK, CountType
<1>5. ASSUME NEW c \in Conns, Leave(c) \/ Finish(c) PROVE CountInv' /\ WaitedInv'
  BY <1>5 DEF Leave, Finish
<1>6. ASSUME NEW c \in Conns, NEW g \in Goroutines, CheckNil(c, g) \/ ClearPointer(c, g) \/ CloseSocket(c, g)
      PROVE  CountInv' /\ WaitedInv'
  BY <1>6 DEF CheckNil, ClearPointer, CloseSocket
<1>7. ASSUME NEW c \in Conns, NEW g \in Goroutines, Done(c, g) PROVE CountInv' /\ WaitedInv'
  <2>1. <<c, g>> \notin done
    BY <1>7 DEF Done, At, PlaceInv, Past
  <2>2. Cardinality(done \cup {<<c, g>>}) = Cardinality(done) + 1
    BY <1>0, <2>1, FS_AddElement
  <2>3. count \in Int /\ UNCHANGED <<taken, serve>>
    BY <1>7 DEF Done, TypeOK, CountType
  <2>4. \/ count' = count /\ done' = done
        \/ count' = count - 1 /\ done' = done \cup {<<c, g>>}
    BY <1>7 DEF Done, Counted
  <2>5. count = Cardinality(taken) - Cardinality(done) /\ (serve = "done" => count <= 0)
    OBVIOUS
  <2>6. CASE count' = count /\ done' = done
    BY <2>3, <2>5, <2>6
  <2>7. CASE count' = count - 1 /\ done' = done \cup {<<c, g>>}
    <3>1. Cardinality(done') = Cardinality(done) + 1 /\ Cardinality(taken') = Cardinality(taken) /\ serve' = serve
      BY <2>2, <2>3, <2>7
    <3>2. count' = Cardinality(taken') - Cardinality(done')
      BY <1>0, <2>3, <2>5, <2>7, <3>1
    <3> QED BY <2>3, <2>5, <2>7, <3>1, <3>2
  <2> QED BY <2>4, <2>6, <2>7
<1>8. CASE UNCHANGED vars
  BY <1>8 DEF vars
<1> QED
  BY <1>1, <1>2, <1>3, <1>4, <1>5, <1>6, <1>7, <1>8 DEF Next, Owner, MConnClose

(* Every step keeps what the places say about the history. *)
LEMMA PlaceStep == IInv /\ [Next]_vars => PlaceInv'
<1> SUFFICES ASSUME IInv, [Next]_vars PROVE PlaceInv'
  OBVIOUS
<1> USE DEF IInv, PlaceInv, Past, engineVars, loopVars, closeVars
<1>p. place \in [Conns -> [Goroutines -> {"none", "run", "check", "count", "clear", "socket", "join", "gone"}]]
  BY DEF TypeOK, CloseType
<1>1. ASSUME NEW o \in Outcomes, Start(o) PROVE PlaceInv'
  BY <1>1 DEF Start, Main
<1>2. CASE SignalClose \/ WaitSignal \/ CloseShutdown \/ CloseListener \/ Join \/ Release
  BY <1>2 DEF SignalClose, WaitSignal, CloseShutdown, CloseListener, Join, Release, Main
<1>3. CASE Select \/ AcceptFails \/ WaitClients
  BY <1>3 DEF Select, AcceptFails, WaitClients, Serving
<1>4. ASSUME NEW c \in Conns, Accept(c) PROVE PlaceInv'
  <2>1. \A g \in Goroutines : <<c, g>> \notin done /\ place'[c][g] = "run"
    BY <1>4, <1>p DEF Accept
  <2>2. taken' = taken \cup {c} /\ UNCHANGED <<done, cleared>> /\ \A d \in Conns \ {c} : place'[d] = place[d]
    BY <1>4, <1>p DEF Accept
  <2> QED BY <2>1, <2>2, ZenonT(30) DEF Goroutines
<1>5. ASSUME NEW c \in Conns, Leave(c) PROVE PlaceInv'
  <2>1. c \in taken /\ UNCHANGED <<taken, done, cleared>>
    BY <1>5, <1>p DEF Leave, At, Goroutines
  <2>2. place[c]["closer"] = "run"
    BY <1>5 DEF Leave, At
  <2>3. \A g \in Goroutines : <<c, g>> \notin done /\ ~Past(c, g)
    BY <2>2 DEF Goroutines
  <2>4. \A d \in Conns : place'[d] = IF d = c THEN [g \in Goroutines |-> "check"] ELSE place[d]
    BY <1>5, <1>p DEF Leave
  <2>5. ASSUME NEW g \in Goroutines PROVE place'[c][g] = "check"
    BY <2>4
  <2> QED BY <2>1, <2>3, <2>4, <2>5 DEF Goroutines
<1>6. ASSUME NEW c \in Conns, Finish(c) PROVE PlaceInv'
  <2>1. c \in taken /\ UNCHANGED <<taken, done, cleared>>
    BY <1>6, <1>p DEF Finish, At, Goroutines
  <2> QED BY <1>6, <1>p, <2>1 DEF Finish, At, To, Goroutines
<1>7. ASSUME NEW c \in Conns, NEW g \in Goroutines, CheckNil(c, g) \/ ClearPointer(c, g) \/ CloseSocket(c, g)
      PROVE  PlaceInv'
  <2> DEFINE after == {"clear", "socket", "join", "gone"}
  <2>1. c \in taken /\ UNCHANGED <<taken, done>>
    BY <1>7, <1>p DEF CheckNil, ClearPointer, CloseSocket, At
  <2>2. \E x : To(c, g, x)
    BY <1>7 DEF CheckNil, ClearPointer, CloseSocket
  <2>3. \A d \in Conns, h \in Goroutines : ~(d = c /\ h = g) => place'[d][h] = place[d][h]
    BY <1>p, <2>2 DEF To
  <2>4. /\ place[c][g] \notin {"none", "run"} /\ place'[c][g] \notin {"none", "run"}
        /\ place[c][g] \in after => place'[c][g] \in after
        /\ place'[c][g] \in after => place[c][g] \in after \/ c \in cleared
        /\ cleared \subseteq cleared' /\ \A d \in cleared' : d \in cleared \/ (d = c /\ place[c][g] \in after)
    <3>1. CASE CheckNil(c, g)
      BY <1>p, <3>1 DEF CheckNil, At, To
    <3>2. CASE ClearPointer(c, g)
      BY <1>p, <3>2 DEF ClearPointer, At, To
    <3>3. CASE CloseSocket(c, g)
      BY <1>p, <3>3 DEF CloseSocket, At, To
    <3> QED BY <1>7, <3>1, <3>2, <3>3
  <2>5. "closer" \in Goroutines /\ "writer" \in Goroutines
    BY DEF Goroutines
  <2>6. ASSUME NEW d \in Conns
        PROVE  /\ d \notin taken => \A h \in Goroutines : place'[d][h] = "none"
               /\ \A h \in Goroutines : <<d, h>> \in done => place'[d][h] \in after
               /\ place'[d]["closer"] = "run" => place'[d]["writer"] = "run"
               /\ d \in cleared' => \E h \in Goroutines : <<d, h>> \in done
               /\ \A h \in Goroutines : place'[d][h] \in after => \E k \in Goroutines : <<d, k>> \in done
    <3>1. d \notin taken => \A h \in Goroutines : place'[d][h] = "none"
      BY <2>1, <2>3
    <3>2. \A h \in Goroutines : <<d, h>> \in done => place'[d][h] \in after
      BY <2>3, <2>4
    <3>3. place'[d]["closer"] = "run" => place'[d]["writer"] = "run"
      <4>1. d = c => g = "closer" \/ place'[c]["closer"] = place[c]["closer"]
        BY <2>3, <2>5
      <4>2. d = c /\ place'[d]["closer"] = "run" => place[c]["writer"] = "run" /\ g # "writer"
        BY <2>4, <4>1
      <4>3. d = c /\ place'[d]["closer"] = "run" => place'[c]["writer"] = "run"
        BY <2>3, <2>5, <4>2
      <4>4. d # c => place'[d]["closer"] = place[d]["closer"] /\ place'[d]["writer"] = place[d]["writer"]
        BY <2>3, <2>5
      <4> QED BY <4>3, <4>4
    <3>4. d \in cleared' => \E h \in Goroutines : <<d, h>> \in done
      BY <2>4
    <3>5. \A h \in Goroutines : place'[d][h] \in after => \E k \in Goroutines : <<d, k>> \in done
      <4> TAKE h \in Goroutines
      <4>1. CASE d = c /\ h = g
        BY <2>4, <4>1
      <4>2. CASE ~(d = c /\ h = g)
        BY <2>3, <4>2
      <4> QED BY <4>1, <4>2
    <3> QED BY <3>1, <3>2, <3>3, <3>4, <3>5
  <2> QED BY <2>1, <2>6
<1>8. ASSUME NEW c \in Conns, NEW g \in Goroutines, Done(c, g) PROVE PlaceInv'
  <2>1. c \in taken /\ UNCHANGED <<taken, cleared>>
    BY <1>8, <1>p DEF Done, At
  <2>2. CASE done' = done /\ place' = place
    BY <2>1, <2>2
  <2>3. CASE done' = done \cup {<<c, g>>} /\ To(c, g, "clear") /\ place[c][g] = "count"
    BY <1>p, <2>1, <2>3 DEF To, Goroutines
  <2> QED BY <1>8, <2>2, <2>3 DEF Done, At
<1>9. CASE UNCHANGED vars
  BY <1>9 DEF vars
<1> QED
  BY <1>1, <1>2, <1>3, <1>4, <1>5, <1>6, <1>7, <1>8, <1>9 DEF Next, Owner, MConnClose

(* Every step keeps the accept loop in order. *)
LEMMA OrderStep == IInv /\ [Next]_vars => OrderInv'
<1> SUFFICES ASSUME IInv, [Next]_vars PROVE OrderInv'
  OBVIOUS
<1> USE DEF IInv, OrderInv, engineVars, loopVars, closeVars
<1>0. refused \in Nat
  BY DEF TypeOK, LoopType
<1>1. ASSUME NEW o \in Outcomes, Start(o) PROVE OrderInv'
  BY <1>1, FS_EmptySet DEF Start, Main
<1>2. CASE SignalClose \/ WaitSignal
  BY <1>2 DEF SignalClose, WaitSignal, Main
<1>7. CASE CloseListener
  <2>1. main = "listener" => shutdown = "closed" \/ serve = "off"
    BY <1>7
  <2> QED BY <1>7, <2>1 DEF CloseListener, Main, Closed
<1>10. CASE Join \/ Release
  BY <1>10 DEF Join, Release, Main
<1>9. CASE CloseShutdown
  BY <1>9 DEF CloseShutdown, Main
<1>3. CASE Select \/ AcceptFails \/ WaitClients
  BY <1>0, <1>3 DEF Select, ToldToStop, AcceptFails, WaitClients, Serving
<1>4. ASSUME NEW c \in Conns, Accept(c) PROVE OrderInv'
  <2>1. IsFiniteSet({c}) /\ Cardinality({c}) = 1
    BY FS_Singleton
  <2>2. late = {} /\ refused = 0
    BY <1>4 DEF Accept, Serving
  <2>3. late' \in {{}, {c}}
    BY <1>4, <2>2 DEF Accept
  <2> QED BY <1>4, <2>1, <2>2, <2>3, FS_EmptySet DEF Accept, Serving
<1>5. ASSUME NEW c \in Conns, Leave(c) \/ Finish(c) PROVE OrderInv'
  BY <1>5 DEF Leave, Finish
<1>6. ASSUME NEW c \in Conns, NEW g \in Goroutines, MConnClose(c, g) PROVE OrderInv'
  BY <1>6 DEF MConnClose, CheckNil, ClearPointer, CloseSocket, Done
<1>8. CASE UNCHANGED vars
  BY <1>8 DEF vars
<1> QED
  BY <1>1, <1>2, <1>3, <1>4, <1>5, <1>6, <1>7, <1>8, <1>9, <1>10 DEF Next, Owner

(* The inductive invariant of the server. *)
THEOREM ServerInvariant == Spec => []IInv
<1>1. IInv /\ [Next]_vars => IInv'
  BY TypeStep, CountStep, PlaceStep, OrderStep DEF IInv
<1> QED BY InitIInv, <1>1, PTL DEF Spec

(* Every variable has its type, and the wait group falls below 0 only as the
   process dies of it (MConn.Close). *)
THEOREM ServerTypeOK == Spec => []TypeOK
<1>1. IInv => TypeOK
  BY DEF IInv
<1> QED BY <1>1, ServerInvariant, PTL

(* The connections counted off are no more than the calls of Done, and as many
   only if each was counted off once. *)
LEMMA OffBound ==
  ASSUME IInv
  PROVE  LET K == {c \in taken : Off(c)} IN
           /\ IsFiniteSet(K) /\ Cardinality(K) \in Nat /\ Cardinality(K) <= Cardinality(done)
           /\ (\A c \in taken : ~Twice(c)) => Cardinality(K) = Cardinality(done)
<1> DEFINE K == {c \in taken : Off(c)}
           f == [p \in done |-> p[1]]
<1>0. IsFiniteSet(done) /\ done \subseteq Conns \X Goroutines /\ taken \subseteq Conns
  BY Finite DEF IInv, TypeOK, LoopType, CloseType
<1>1. ASSUME NEW p \in done
      PROVE  p[1] \in K /\ p[2] \in Goroutines /\ p = <<p[1], p[2]>>
  <2>1. p[1] \in Conns /\ p[2] \in Goroutines /\ p = <<p[1], p[2]>>
    BY <1>0
  <2>2. Past(p[1], p[2])
    BY <2>1, <1>1 DEF IInv, PlaceInv
  <2>3. p[1] \in taken
    BY <2>1, <2>2 DEF IInv, PlaceInv, Past
  <2> QED BY <2>1, <2>2, <2>3 DEF Off
<1>2. ASSUME NEW c \in K PROVE \E p \in done : p[1] = c
  <2>1. PICK h \in Goroutines : <<c, h>> \in done
    BY <1>0 DEF IInv, PlaceInv, Off
  <2> QED BY <2>1
<1>3. f \in Surjection(done, K)
  <2>1. f \in [done -> K] /\ \A c \in K : \E p \in done : f[p] = c
    BY <1>1, <1>2
  <2> HIDE DEF f, K
  <2> QED BY <2>1, Fun_IsSurj
<1>4. IsFiniteSet(K) /\ Cardinality(K) <= Cardinality(done)
      /\ (Cardinality(K) = Cardinality(done) <=> f \in Injection(done, K))
  BY <1>0, <1>3, FS_Surjection
<1>5. ASSUME \A c \in taken : ~Twice(c) PROVE f \in Injection(done, K)
  <2>1. ASSUME NEW p \in done, NEW q \in done, p[1] = q[1] PROVE p = q
    <3>1. p[1] \in taken /\ ~Twice(p[1])
      BY <1>1, <1>5
    <3>2. p = <<p[1], p[2]>> /\ q = <<p[1], q[2]>> /\ p[2] \in Goroutines /\ q[2] \in Goroutines
      BY <1>1, <2>1
    <3>3. p[2] = q[2]
      BY <3>1, <3>2 DEF Twice, Goroutines
    <3> QED BY <3>2, <3>3
  <2>2. f \in [done -> K]
    BY <1>1
  <2>3. \A p, q \in done : f[p] = f[q] => p = q
    BY <2>1
  <2> HIDE DEF f, K
  <2> QED BY <2>2, <2>3, Fun_IsInj
<1> QED BY <1>4, <1>5, FS_CardinalityType

(* The shutdown never waits for a connection that has been counted off
   (MListener.Accept, MConn.Close). *)
THEOREM ShutdownCountCovers == Spec => []CountCovers
<1>1. IInv => CountCovers
  <2> SUFFICES ASSUME IInv PROVE CountCovers
    OBVIOUS
  <2> DEFINE K == {c \in taken : Off(c)}
             U == {c \in taken : ~Off(c)}
  <2>1. IsFiniteSet(K) /\ Cardinality(K) \in Nat /\ Cardinality(K) <= Cardinality(done)
    BY OffBound
  <2>2. IsFiniteSet(taken) /\ Cardinality(taken) \in Nat /\ Cardinality(done) \in Nat
    BY Finite DEF IInv
  <2>3. IsFiniteSet(U) /\ Cardinality(U) \in Nat
    BY <2>2, FS_Subset, FS_CardinalityType
  <2>4. Cardinality(taken) = Cardinality(U) + Cardinality(K)
    <3>1. U \cup K = taken /\ U \cap K = {}
      OBVIOUS
    <3>2. Cardinality(U \cup K) = Cardinality(U) + Cardinality(K) - Cardinality(U \cap K)
      BY <2>1, <2>3, FS_Union
    <3>3. Cardinality(U \cap K) = 0
      BY <3>1, FS_EmptySet
    <3>4. Cardinality(U \cup K) = Cardinality(taken)
      BY <3>1
    <3> DEFINE u == Cardinality(U)
               k == Cardinality(K)
               n == Cardinality(U \cap K)
               m == Cardinality(U \cup K)
    <3>5. u \in Nat /\ k \in Nat /\ n = 0 /\ m = u + k - n
      BY <2>1, <2>3, <3>2, <3>3
    <3> HIDE DEF u, k, n, m
    <3>6. m = u + k
      BY <3>5
    <3> QED BY <3>4, <3>6 DEF u, k, m
  <2> HIDE DEF K
  <2>5. count <= Cardinality(U)
    BY <2>1, <2>2, <2>3, <2>4 DEF IInv, CountInv
  <2> QED BY <2>5 DEF CountCovers
<1> QED BY <1>1, ServerInvariant, PTL

(* When Serve has waited for the clients, all have been counted off, unless the
   race in MConn.Close has counted one twice (MListener.Wait). *)
THEOREM ServeWaitsForAll == Spec => []WaitsForAll
<1>1. IInv => WaitsForAll
  <2> SUFFICES ASSUME IInv, serve = "done", \A c \in taken : ~Twice(c)
               PROVE  \A c \in taken : Off(c)
    BY DEF WaitsForAll
  <2> DEFINE K == {c \in taken : Off(c)}
  <2>1. IsFiniteSet(K) /\ Cardinality(K) \in Nat /\ Cardinality(K) = Cardinality(done)
    BY OffBound
  <2>2. IsFiniteSet(taken) /\ Cardinality(taken) \in Nat
    BY Finite DEF IInv
  <2>3. Cardinality(K) <= Cardinality(taken) /\ (Cardinality(taken) = Cardinality(K) => taken = K)
    BY <2>2, FS_Subset
  <2>4. Cardinality(taken) <= Cardinality(K)
    BY <2>1, <2>2 DEF IInv, CountInv, WaitedInv
  <2>5. taken = K
    BY <2>1, <2>2, <2>3, <2>4
  <2> QED BY <2>5
<1> QED BY <1>1, ServerInvariant, PTL

(* Once the shutdown has begun, Serve takes at most the connection it was
   waiting for, and meets the closed listener at most once. *)
THEOREM AcceptsAtMostOneMore == Spec => []LastAccept
<1>1. IInv => LastAccept
  BY DEF IInv, OrderInv, LastAccept
<1> QED BY <1>1, ServerInvariant, PTL
=============================================================================
