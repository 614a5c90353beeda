------------------------- MODULE MessageTableProofs -------------------------
(***************************************************************************)
(* What MessageTable promises, proved for every number of identifiers,     *)
(* senders and reference counts.  The first three results hold for the     *)
(* whole interface (SpecAll); NoLeak for what sessions use of it (Spec):   *)
(* Remove and Clean lose identifiers.                                      *)
(***************************************************************************)
EXTENDS MessageTable, TLAPS

USE TableAssumption DEF TableAssumption

(* The table starts well-typed, *)
LEMMA TypeInit == Init => TypeOK
<1> SUFFICES ASSUME Init PROVE TypeOK
  OBVIOUS
<1>1. wrapped \in BOOLEAN
  BY DEF Init
<1>2. id \in Ids /\ hash \in [Ids -> Nat \cup {None}]
      /\ used \subseteq Ids /\ held \in [Senders -> Ids \cup {None}]
  BY DEF Init, Ids, FirstID
<1> QED
  BY <1>1, <1>2 DEF TypeOK

(* and every step keeps it so. *)
LEMMA TypeStep == TypeOK /\ [NextAll]_vars => TypeOK'
<1> SUFFICES ASSUME TypeOK, [NextAll]_vars PROVE TypeOK'
  OBVIOUS
<1> USE DEF TypeOK, Ids
<1>1. ASSUME NEW s \in Senders, NewID(s) PROVE TypeOK'
  <2>1. Start \in Ids /\ Start + 1 \in Ids /\ 0 \in Ids
    BY DEF Start
  <2>2. wrapped' \in BOOLEAN
    BY <1>1 DEF NewID
  <2>3. hash' \in [Ids -> Nat \cup {None}]
    BY <1>1 DEF NewID
  <2>4. /\ id' \in {Start, Start + 1}
        /\ held' \in {[held EXCEPT ![s] = 0], [held EXCEPT ![s] = Start]}
        /\ used' \in {used, used \cup {Start}}
    BY <1>1 DEF NewID
  <2>5. id' \in Ids /\ used' \subseteq Ids
    BY <2>1, <2>4
  <2>6. held' \in [Senders -> Ids \cup {None}]
    BY <2>1, <2>4
  <2> QED
    BY <2>2, <2>3, <2>5, <2>6 DEF TypeOK
<1>2. ASSUME NEW s \in Senders, NEW n \in Counts, Register(s, n) PROVE TypeOK'
  BY <1>2 DEF Register
<1>3. ASSUME NEW i \in Ids, Unref(i) PROVE TypeOK'
  <2>1. used' \subseteq Ids
    BY <1>3 DEF Unref, Freed
  <2>2. hash' \in [Ids -> Nat \cup {None}]
    <3>1. CASE hash[i] > 1
      <4>1. hash[i] \in Nat /\ hash' = [hash EXCEPT ![i] = @ - 1]
        BY <1>3, <3>1 DEF Unref
      <4> QED
        BY <3>1, <4>1
    <3>2. CASE ~(hash[i] > 1)
      BY <1>3, <3>2 DEF Unref
    <3> QED
      BY <3>1, <3>2
  <2>3. id' = id /\ held' = held /\ wrapped' = wrapped
    BY <1>3 DEF Unref
  <2> QED
    BY <2>1, <2>2, <2>3
<1>4. ASSUME NEW i \in Ids, Remove(i) PROVE TypeOK'
  BY <1>4 DEF Remove
<1>5. CASE Clean
  BY <1>5 DEF Clean
<1>6. CASE UNCHANGED vars
  BY <1>6 DEF vars
<1> QED
  BY <1>1, <1>2, <1>3, <1>4, <1>5, <1>6 DEF NextAll, Next

(* The identifiers stay in range and the counter stays a uint16 (NewID). *)
THEOREM TableTypeOK == SpecAll => []TypeOK
BY TypeInit, TypeStep, PTL DEF SpecAll

-----------------------------------------------------------------------------
(* Every step keeps the identifiers that are not 0 unique. *)
LEMMA UniqueStep == TypeOK /\ NonZeroUnique /\ [NextAll]_vars => NonZeroUnique'
<1> SUFFICES ASSUME TypeOK, NonZeroUnique, [NextAll]_vars PROVE NonZeroUnique'
  OBVIOUS
<1> USE DEF TypeOK, Ids, NonZeroUnique, Owned
<1>1. ASSUME NEW s \in Senders, NewID(s) PROVE NonZeroUnique'
  <2>1. Start \in 0 .. MaxID - 1
    BY DEF Start
  <2>2. CASE Taken(Start)
    BY <1>1, <2>1, <2>2 DEF NewID
  <2>3. CASE ~Taken(Start)
    <3>1. Start # 0 => ~Owned(Start)
      BY <2>1, <2>3 DEF Taken
    <3>2. held' = [held EXCEPT ![s] = Start] /\ used' = used \cup {Start} /\ hash' = hash
      BY <1>1, <2>3 DEF NewID
    <3> QED
      BY <2>1, <3>1, <3>2
  <2> QED
    BY <2>2, <2>3
<1>2. ASSUME NEW s \in Senders, NEW n \in Counts, Register(s, n) PROVE NonZeroUnique'
  BY <1>2 DEF Register
<1>3. ASSUME NEW i \in Ids, Unref(i) PROVE NonZeroUnique'
  BY <1>3 DEF Unref, Freed
<1>4. ASSUME NEW i \in Ids, Remove(i) PROVE NonZeroUnique'
  BY <1>4 DEF Remove
<1>5. CASE Clean
  BY <1>5 DEF Clean
<1>6. CASE UNCHANGED vars
  BY <1>6 DEF vars
<1> QED
  BY <1>1, <1>2, <1>3, <1>4, <1>5, <1>6 DEF NextAll, Next

(* No non-zero identifier names two messages, however often the counter
   restarts (NewID, Register, Unref). *)
THEOREM NonZeroIsUnique == SpecAll => []NonZeroUnique
<1>1. Init => NonZeroUnique
  BY DEF Init, NonZeroUnique, Owned, Ids
<1> QED
  BY <1>1, TypeInit, TypeStep, UniqueStep, PTL DEF SpecAll

-----------------------------------------------------------------------------
(* FirstLapFresh with what makes it inductive: the counter starts above 0. *)
FirstLap == FirstLapFresh /\ (~wrapped => id > 0)

(* Every step keeps the first lap's identifiers fresh. *)
LEMMA FirstLapStep == TypeOK /\ FirstLap /\ [NextAll]_vars => FirstLap'
<1> SUFFICES ASSUME TypeOK, FirstLap, [NextAll]_vars PROVE FirstLap'
  OBVIOUS
<1> USE DEF TypeOK, Ids, FirstLap, FirstLapFresh, Owned
<1>1. ASSUME NEW s \in Senders, NewID(s) PROVE FirstLap'
  <2> SUFFICES ASSUME ~wrapped' PROVE FirstLap'
    BY DEF FirstLap
  <2>1. ~wrapped /\ Start = id
    BY <1>1 DEF NewID, Start
  <2>2. ~Taken(Start)
    BY <2>1 DEF Taken
  <2>3. id' = id + 1 /\ held' = [held EXCEPT ![s] = id] /\ used' = used \cup {id} /\ hash' = hash
    BY <1>1, <2>1, <2>2 DEF NewID
  <2> QED
    BY <2>1, <2>3
<1>2. ASSUME NEW s \in Senders, NEW n \in Counts, Register(s, n) PROVE FirstLap'
  BY <1>2 DEF Register
<1>3. ASSUME NEW i \in Ids, Unref(i) PROVE FirstLap'
  BY <1>3 DEF Unref, Freed
<1>4. ASSUME NEW i \in Ids, Remove(i) PROVE FirstLap'
  BY <1>4 DEF Remove
<1>5. CASE Clean
  BY <1>5 DEF Clean
<1>6. CASE UNCHANGED vars
  BY <1>6 DEF vars
<1> QED
  BY <1>1, <1>2, <1>3, <1>4, <1>5, <1>6 DEF NextAll, Next

(* Until the counter restarts, every identifier handed out is new and not 0
   (NewID). *)
THEOREM FirstLapIsFresh == SpecAll => []FirstLapFresh
<1>1. Init => FirstLap
  BY DEF Init, FirstLap, FirstLapFresh, Owned, Ids, FirstID
<1>2. FirstLap => FirstLapFresh
  BY DEF FirstLap
<1> QED
  BY <1>1, <1>2, TypeInit, TypeStep, FirstLapStep, PTL DEF SpecAll

-----------------------------------------------------------------------------
(* Every step of the table keeps entries and references together. *)
LEMMA NoLeakStep == TypeOK /\ NoLeak /\ [Next]_vars => NoLeak'
<1> SUFFICES ASSUME TypeOK, NoLeak, [Next]_vars PROVE NoLeak'
  OBVIOUS
<1> USE DEF TypeOK, Ids, NoLeak, Owned
<1>1. ASSUME NEW s \in Senders, NewID(s) PROVE NoLeak'
  <2>1. PICK j \in Ids : held' = [held EXCEPT ![s] = j] /\ used' \subseteq used \cup {j}
                        /\ (j \in used' => j \in used \/ held'[s] = j)
    <3>1. Start \in Ids
      BY DEF Start
    <3>2. CASE Taken(Start)
      BY <1>1, <3>2 DEF NewID
    <3>3. CASE ~Taken(Start)
      BY <1>1, <3>1, <3>3 DEF NewID
    <3> QED
      BY <3>2, <3>3
  <2>2. held[s] = None /\ hash' = hash
    BY <1>1 DEF NewID
  <2> SUFFICES ASSUME NEW i \in used' PROVE Owned(i)'
    BY DEF NoLeak
  <2>3. CASE i = j
    BY <2>1, <2>3
  <2>4. CASE i # j
    <3>1. i \in used /\ Owned(i)
      BY <2>1, <2>4
    <3>2. ASSUME NEW u \in Senders, held[u] = i PROVE held'[u] = i
      BY <2>1, <2>2, <3>1, <3>2
    <3> QED
      BY <2>2, <3>1, <3>2
  <2> QED
    BY <2>3, <2>4
<1>2. ASSUME NEW s \in Senders, NEW n \in Counts, Register(s, n) PROVE NoLeak'
  BY <1>2 DEF Register
<1>3. ASSUME NEW i \in Ids, Unref(i) PROVE NoLeak'
  <2>1. held' = held
    BY <1>3 DEF Unref
  <2>2. CASE hash[i] > 1
    <3>1. used' = used /\ hash' = [hash EXCEPT ![i] = @ - 1] /\ hash[i] \in Nat
      BY <1>3, <2>2 DEF Unref
    <3>2. \A j \in Ids : hash[j] # None => hash'[j] # None
      BY <2>2, <3>1
    <3> QED
      BY <2>1, <3>1, <3>2
  <2>3. CASE ~(hash[i] > 1)
    <3>1. used' = used \ {i} /\ hash' = [hash EXCEPT ![i] = None]
      BY <1>3, <2>3 DEF Unref, Freed
    <3> QED
      BY <2>1, <3>1
  <2> QED
    BY <2>2, <2>3
<1>4. CASE UNCHANGED vars
  BY <1>4 DEF vars
<1> QED
  BY <1>1, <1>2, <1>3, <1>4 DEF Next

(* Sessions never lose an identifier: one that is marked used has a message
   whose acknowledgement frees it (NewID, Register, Unref). *)
THEOREM SessionsLeakNothing == Spec => []NoLeak
<1>1. Init => NoLeak
  BY DEF Init, NoLeak
<1>2. Spec => []TypeOK
  <2>1. [Next]_vars => [NextAll]_vars
    BY DEF NextAll
  <2> QED
    BY <2>1, TypeInit, TypeStep, PTL DEF Spec
<1> QED
  BY <1>1, <1>2, NoLeakStep, PTL DEF Spec
=============================================================================
