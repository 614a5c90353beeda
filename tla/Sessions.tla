------------------------------ MODULE Sessions ------------------------------
(***************************************************************************)
(* Sessions (sessions/session.go) and the table that finds a session by    *)
(* client identifier (sessions/group.go).  Every operation below is one    *)
(* critical section of the session's mutex or of the table's read-write    *)
(* lock.  The two operations that keep the session's mutex while they call *)
(* out, DoDisconnect and WriteMessage, are several steps of their caller:  *)
(* it takes the mutex with Acquire and gives it back with Release.         *)
(*                                                                         *)
(* A session is named by the connection that created it: onConnect creates *)
(* at most one.                                                            *)
(***************************************************************************)
EXTENDS Naturals, Sequences

CONSTANTS
  Conns,         \* connections
  Clients,       \* client identifiers
  Topics,        \* topic names and filters
  None,          \* nil
  OfflineLimit   \* Deploy.OfflineQueueSize

ASSUME SessionAssumption ==
  /\ OfflineLimit \in Nat
  /\ None \notin Conns \cup Clients \cup Topics

VARIABLES
  sess,    \* the sessions
  lock,    \* who holds a session's mutex across calls: a connection's reader
  group    \* SessionGroup._ss

sessionVars == <<sess, lock, group>>

NewSession ==
  [clientid |-> None, onDisconnect |-> None, onWrite |-> None,
   offlineQueue |-> <<>>, topics |-> {}]

SessionInit ==
  /\ sess = [s \in Conns |-> NewSession]
  /\ lock = [s \in Conns |-> None]
  /\ group = [i \in Clients |-> None]

-----------------------------------------------------------------------------
(* The mutex. *)
Free(s) == lock[s] = None
Acquire(s, c) ==
  Free(s) /\ lock' = [lock EXCEPT ![s] = c] /\ UNCHANGED <<sess, group>>
ReleaseNothing(s) == UNCHANGED <<sess, lock, group>>
Release(s) ==
  lock' = [lock EXCEPT ![s] = None] /\ UNCHANGED <<sess, group>>

(* Hooks are named by the connection they call: onDisconnect calls its
   Terminate, onWrite its WriteMessage. *)
WithOnDisconnect(s, c) ==
  Free(s) /\ sess' = [sess EXCEPT ![s].onDisconnect = c] /\ UNCHANGED <<lock, group>>
WithOnWrite(s, c) ==
  Free(s) /\ sess' = [sess EXCEPT ![s].onWrite = c] /\ UNCHANGED <<lock, group>>
WithClientID(s, i) ==
  sess' = [sess EXCEPT ![s].clientid = i] /\ UNCHANGED <<lock, group>>

AddTopics(s, t) ==
  Free(s) /\ sess' = [sess EXCEPT ![s].topics = @ \cup {t}] /\ UNCHANGED <<lock, group>>
RemoveTopics(s, t) ==
  Free(s) /\ sess' = [sess EXCEPT ![s].topics = @ \ {t}] /\ UNCHANGED <<lock, group>>

(* A full offline queue refuses the message; the callers only log it. *)
PushedUnbounded(q, m) == Append(q, m)
Pushed(q, m) == IF Len(q) >= OfflineLimit THEN q ELSE Append(q, m)
Full(s) == Len(sess[s].offlineQueue) >= OfflineLimit
PushOfflineMessage(s, m) ==
  Free(s) /\ sess' = [sess EXCEPT ![s].offlineQueue = Pushed(@, m)]
          /\ UNCHANGED <<lock, group>>

(* The caller reads sess[s].offlineQueue in the same step. *)
OfflineMessages(s) ==
  Free(s) /\ sess' = [sess EXCEPT ![s].offlineQueue = <<>>] /\ UNCHANGED <<lock, group>>

-----------------------------------------------------------------------------
(* The table.  New also replaces an entry; Remove drops whatever session the
   identifier has by now. *)
Get(i) == IF i \in Clients THEN group[i] ELSE None
New(s, i) ==
  /\ sess' = [sess EXCEPT ![s] = NewSession]
  /\ group' = [group EXCEPT ![i] = s]
  /\ UNCHANGED lock
Remove(i) == group' = [group EXCEPT ![i] = None] /\ UNCHANGED <<sess, lock>>

SessionRecord(Item) ==
  [clientid : Clients \cup {None}, onDisconnect : Conns \cup {None},
   onWrite : Conns \cup {None}, offlineQueue : Seq(Item), topics : SUBSET Topics]
SessionType(Item) ==
  /\ sess \in [Conns -> SessionRecord(Item)]
  /\ lock \in [Conns -> Conns \cup {None}]
  /\ group \in [Clients -> Conns \cup {None}]
  /\ \A s \in Conns : Len(sess[s].offlineQueue) <= OfflineLimit
=============================================================================
