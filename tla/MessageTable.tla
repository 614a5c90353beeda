---------------------------- MODULE MessageTable ----------------------------
(***************************************************************************)
(* The table of messages that wait for an acknowledgement                  *)
(* (common/msgtable.go), as a session's callers use it                     *)
(* (sessions/session.go).  A goroutine that sends a QoS 1 or 2 message     *)
(* takes a packet identifier (NewID) and then, in a second critical        *)
(* section, registers the message under it (Register); an acknowledgement  *)
(* gives the reference back (Unref).                                       *)
(*                                                                         *)
(* Every operation runs under the table's mutex, so each is one action;    *)
(* what interleaves is the gap between NewID and Register.                 *)
(***************************************************************************)
EXTENDS Naturals

CONSTANTS
  MaxID,     \* math.MaxUint16 in the code
  Senders,   \* the goroutines that register messages
  Counts,    \* the reference counts messages are registered with
  None       \* "no entry", "no identifier held"

ASSUME TableAssumption ==
  /\ MaxID \in Nat \ {0}
  /\ Counts \subseteq Nat
  /\ None \notin Nat

VARIABLES
  id,        \* _id, the next identifier to try
  hash,      \* _hash, the reference count of the entry under each identifier
  used,      \* _used, the identifiers taken
  held,      \* the identifier a sender got from NewID and has not registered yet
  wrapped    \* history: _id has been reset to 0

vars == <<id, hash, used, held, wrapped>>

Ids == 0 .. MaxID

FirstIDZero == 0
FirstID == 1

Init ==
  /\ id = FirstID
  /\ hash = [i \in Ids |-> None]
  /\ used = {}
  /\ held = [s \in Senders |-> None]
  /\ wrapped = FALSE

(* The identifier NewID starts from: the counter restarts one short of the
   largest uint16. *)
StartUnchecked == id
Start == IF id = MaxID THEN 0 ELSE id

(* An identifier is tried only if it is not used. *)
TakenNever(i) == FALSE
Taken(i) == i \in used

(* A free identifier is taken and the counter moves on.  A used one makes the
   loop's condition "!ok" false: it ends with the zero value of id, and leaves
   the counter where it is. *)
NewID(s) ==
  /\ held[s] = None
  /\ wrapped' = (wrapped \/ id = MaxID)
  /\ IF Taken(Start)
       THEN held' = [held EXCEPT ![s] = 0] /\ id' = Start /\ UNCHANGED used
       ELSE /\ held' = [held EXCEPT ![s] = Start]
            /\ id' = Start + 1
            /\ used' = used \cup {Start}
  /\ UNCHANGED hash

(* Register (a count of 1) and Register2 (any count). *)
Register(s, count) ==
  /\ held[s] # None
  /\ hash' = [hash EXCEPT ![held[s]] = count]
  /\ held' = [held EXCEPT ![s] = None]
  /\ UNCHANGED <<id, used, wrapped>>

(* The last reference takes the identifier out of _used. *)
FreedNothing(i) == used
Freed(i) == used \ {i}

Unref(i) ==
  /\ hash[i] # None
  /\ IF hash[i] > 1
       THEN hash' = [hash EXCEPT ![i] = @ - 1] /\ UNCHANGED used
       ELSE hash' = [hash EXCEPT ![i] = None] /\ used' = Freed(i)
  /\ UNCHANGED <<id, held, wrapped>>

(* Two public operations no code of the repository calls: both drop entries
   and keep their identifiers in _used. *)
Remove(i) ==
  /\ hash[i] # None
  /\ hash' = [hash EXCEPT ![i] = None]
  /\ UNCHANGED <<id, used, held, wrapped>>

Clean ==
  /\ hash' = [i \in Ids |-> None]
  /\ UNCHANGED <<id, used, held, wrapped>>

(* What sessions do. *)
Next ==
  \/ \E s \in Senders : NewID(s) \/ \E n \in Counts : Register(s, n)
  \/ \E i \in Ids : Unref(i)

(* The whole interface. *)
NextAll == Next \/ Clean \/ \E i \in Ids : Remove(i)

Spec == Init /\ [][Next]_vars
SpecAll == Init /\ [][NextAll]_vars

-----------------------------------------------------------------------------
(* Every variable has its type; the counter stays a uint16. *)
TypeOK ==
  /\ id \in Ids
  /\ hash \in [Ids -> Nat \cup {None}]
  /\ used \subseteq Ids
  /\ held \in [Senders -> Ids \cup {None}]
  /\ wrapped \in BOOLEAN

(* The message that owns an identifier: the entry, or the sender about to
   register it. *)
Owned(i) == hash[i] # None \/ \E s \in Senders : held[s] = i

(* A non-zero identifier never names two messages: a registered one is held by
   no sender, no two senders hold the same one, and an owned one is marked
   used.  It holds over any number of restarts of the counter, because NewID
   hands out 0 whenever the next identifier is taken. *)
NonZeroUnique ==
  \A i \in Ids \ {0} :
    /\ hash[i] # None => \A s \in Senders : held[s] # i
    /\ \A s, t \in Senders : held[s] = i /\ held[t] = i => s = t
    /\ Owned(i) => i \in used

(* Until the counter restarts, NewID's identifiers are fresh: each one owned is
   non-zero and lies behind the counter. *)
FirstLapFresh ==
  ~wrapped => \A i \in Ids : Owned(i) \/ i \in used => 0 < i /\ i < id

(* No identifier is lost: one marked used belongs to a message, whose
   acknowledgement will free it (NewID, Register and Unref only). *)
NoLeak == \A i \in used : Owned(i)
=============================================================================
