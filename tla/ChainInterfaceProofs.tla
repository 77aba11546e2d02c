------------------------ MODULE ChainInterfaceProofs ------------------------
(***************************************************************************)
(* Proofs about id allocation in chain_interface, for every set of callers *)
(* and every bound on the ids.                                             *)
(*                                                                         *)
(* IdsContiguous is not inductive: a write step keeps it only if the id    *)
(* the writer computed is still last + 1 when it writes.  LockHeld says    *)
(* so: a caller between its read and its write holds the writer lock, and  *)
(* its next_id is one more than the property it read.                      *)
(***************************************************************************)
EXTENDS ChainInterface, SequenceTheorems, TLAPS

USE CallersAssumption, MaxIdAssumption

\* A caller in the middle of new_*_id holds the lock, and the property it
\* read has not moved since.
LockHeld ==
  \A c \in Callers :
     pc[c] \in IdProperties => writer = c /\ nextId[c] = props[pc[c]] + 1

IInv == TypeOK /\ IdsContiguous /\ LockHeld

\* A caller that is between its read and its write is the only one.
LEMMA OthersIdle ==
  ASSUME IInv, NEW c \in Callers, writer = c, NEW d \in Callers, d # c
  PROVE  pc[d] = "idle"
BY DEF IInv, TypeOK, LockHeld

LEMMA InitIInv == Init => IInv
<1>. SUFFICES ASSUME Init PROVE IInv
  OBVIOUS
<1>1. TypeOK
  BY EmptySeq DEF Init, TypeOK, DelegateLists
<1>2. IdsContiguous
  BY EmptySeq DEF Init, IdsContiguous
<1>3. LockHeld
  BY DEF Init, LockHeld, IdProperties
<1>. QED
  BY <1>1, <1>2, <1>3 DEF IInv

LEMMA ReadIInv ==
  ASSUME IInv, NEW c \in Callers, NEW p \in IdProperties, ReadLastId(c, p)
  PROVE  IInv'
<1>1. \A d \in Callers : pc[d] = "idle"
  BY DEF IInv, TypeOK, LockHeld, ReadLastId
<1>2. TypeOK'
  BY DEF IInv, TypeOK, ReadLastId
<1>3. IdsContiguous'
  BY DEF IInv, IdsContiguous, ReadLastId
<1>4. LockHeld'
  BY <1>1 DEF IInv, TypeOK, LockHeld, ReadLastId, IdProperties
<1>. QED
  BY <1>2, <1>3, <1>4 DEF IInv

LEMMA WriteIInv ==
  ASSUME IInv, NEW c \in Callers, WriteNextId(c)
  PROVE  IInv'
<1>. DEFINE p == pc[c]
<1>1. /\ p \in IdProperties
      /\ writer = c
      /\ nextId[c] = props[p] + 1
      /\ props[p] \in 0..MaxId
      /\ nextId[c] \in 0..MaxId
  BY DEF IInv, TypeOK, LockHeld, WriteNextId
<1>2. /\ props' = [props EXCEPT ![p] = props[p] + 1]
      /\ issued' = [issued EXCEPT ![p] = Append(issued[p], props[p] + 1)]
      /\ pc' = [pc EXCEPT ![c] = "idle"]
      /\ writer' = NoCaller
      /\ UNCHANGED <<active, nextId>>
  BY <1>1 DEF WriteNextId
<1>3. /\ issued[p] \in Seq(1..MaxId)
      /\ Len(issued[p]) = props[p]
      /\ \A i \in 1..Len(issued[p]) : issued[p][i] = i
  BY <1>1 DEF IInv, TypeOK, IdsContiguous
<1>4. /\ Append(issued[p], props[p] + 1) \in Seq(1..MaxId)
      /\ Len(Append(issued[p], props[p] + 1)) = props[p] + 1
      /\ \A i \in 1..props[p] + 1 : Append(issued[p], props[p] + 1)[i] = i
  BY <1>1, <1>3, AppendProperties
<1>5. TypeOK'
  BY <1>1, <1>2, <1>4 DEF IInv, TypeOK
<1>6. IdsContiguous'
  BY <1>1, <1>2, <1>4 DEF IInv, TypeOK, IdsContiguous
<1>7. LockHeld'
  <2>. SUFFICES ASSUME NEW d \in Callers, pc'[d] \in IdProperties
                PROVE  FALSE
    BY DEF LockHeld
  <2>1. d # c
    BY <1>2 DEF IdProperties, IInv, TypeOK
  <2>2. pc[d] = "idle"
    BY <1>1, <2>1, OthersIdle
  <2>. QED
    BY <1>2, <2>1, <2>2 DEF IdProperties, IInv, TypeOK
<1>. QED
  BY <1>5, <1>6, <1>7 DEF IInv

LEMMA SetActiveIInv ==
  ASSUME IInv, NEW c \in Callers, NEW ids \in DelegateLists,
         SetActiveDelegates(c, ids)
  PROVE  IInv'
BY DEF IInv, TypeOK, IdsContiguous, LockHeld, SetActiveDelegates

LEMMA IInvStep == IInv /\ [Next]_vars => IInv'
<1>. SUFFICES ASSUME IInv, [Next]_vars PROVE IInv'
  OBVIOUS
<1>1. CASE \E c \in Callers, p \in IdProperties : ReadLastId(c, p)
  BY <1>1, ReadIInv
<1>2. CASE \E c \in Callers : WriteNextId(c)
  BY <1>2, WriteIInv
<1>3. CASE \E c \in Callers, ids \in DelegateLists : SetActiveDelegates(c, ids)
  BY <1>3, SetActiveIInv
<1>4. CASE UNCHANGED vars
  BY <1>4 DEF vars, IInv, TypeOK, IdsContiguous, LockHeld
<1>. QED
  BY <1>1, <1>2, <1>3, <1>4 DEF Next

\* Every state reachable by interleaving new_*_id and set_active_delegates
\* calls is well typed.
THEOREM TypeCorrect == Spec => []TypeOK
BY InitIInv, IInvStep, PTL DEF Spec, IInv

\* For every interleaving of callers that keep the single-writer
\* discipline, new_*_id returns 1, 2, 3, ... for each property, and the
\* store holds the last id returned.
THEOREM IdsAreContiguous == Spec => []IdsContiguous
BY InitIInv, IInvStep, PTL DEF Spec, IInv

=============================================================================
