--------------------------- MODULE ChainInterface ---------------------------
(***************************************************************************)
(* The stateful part of chain_interface (src/libraries/blockchain/         *)
(* chain_interface.cpp): id allocation by read-modify-write of the chain   *)
(* property store (new_asset_id, new_name_id, new_proposal_id) and the     *)
(* active-delegate list (set_active_delegates).                            *)
(*                                                                         *)
(* new_*_id reads the last id with get_property and writes it back with   *)
(* set_property: two calls on the store, not one atomic step.  The code    *)
(* has no lock; the spec requires its callers to serialise (one logical    *)
(* writer per chain state).  Several callers are modelled, each taking     *)
(* the writer lock of that discipline around the call.                     *)
(***************************************************************************)
EXTENDS Naturals, Sequences

CONSTANTS
  Callers,      \* threads or tasks calling into the chain interface
  DelegateIds,  \* name ids that may be put in the active delegate list
  MaxId,        \* bound on the ids allocated (caps the counters)
  NoCaller      \* the lock is free

ASSUME CallersAssumption == Callers # {} /\ NoCaller \notin Callers
ASSUME MaxIdAssumption == MaxId \in Nat

\* The chain_property_enum keys holding the last allocated ids.
IdProperties == {"last_asset_id", "last_name_id", "last_proposal_id"}

VARIABLES
  props,     \* the id properties of the store: IdProperties -> Nat
  active,    \* the active_delegate_list_id property: a sequence of ids
  pc,        \* per caller: "idle", or the property it is allocating
  nextId,    \* per caller: the next_id it computed
  writer,    \* the caller holding the writer lock, or NoCaller
  issued     \* per property: the ids returned, in order (history)

vars == <<props, active, pc, nextId, writer, issued>>

Init ==
  /\ props = [p \in IdProperties |-> 0]
  /\ active = <<>>
  /\ pc = [c \in Callers |-> "idle"]
  /\ nextId = [c \in Callers |-> 0]
  /\ writer = NoCaller
  /\ issued = [p \in IdProperties |-> <<>>]

\* Mutant: next_id computed as last + 2.
ReadLastIdSkip(c, p) ==
  /\ pc[c] = "idle"
  /\ writer = NoCaller
  /\ props[p] < MaxId
  /\ writer' = c
  /\ nextId' = [nextId EXCEPT ![c] = props[p] + 2]
  /\ pc' = [pc EXCEPT ![c] = p]
  /\ UNCHANGED <<props, active, issued>>

\* Mutant: a caller that does not take the writer lock.
ReadLastIdUnlocked(c, p) ==
  /\ pc[c] = "idle"
  /\ props[p] < MaxId
  /\ nextId' = [nextId EXCEPT ![c] = props[p] + 1]
  /\ pc' = [pc EXCEPT ![c] = p]
  /\ UNCHANGED <<props, active, writer, issued>>

\* new_asset_id / new_name_id / new_proposal_id, first half: the caller
\* takes the writer lock and computes next_id = last_*_id() + 1.
ReadLastId(c, p) ==
  /\ pc[c] = "idle"
  /\ writer = NoCaller
  /\ props[p] < MaxId
  /\ writer' = c
  /\ nextId' = [nextId EXCEPT ![c] = props[p] + 1]
  /\ pc' = [pc EXCEPT ![c] = p]
  /\ UNCHANGED <<props, active, issued>>

\* Second half: set_property( p, next_id ), return next_id, and the caller
\* releases the lock.
WriteNextId(c) ==
  LET p == pc[c] IN
  /\ p \in IdProperties
  /\ props' = [props EXCEPT ![p] = nextId[c]]
  /\ issued' = [issued EXCEPT ![p] = Append(@, nextId[c])]
  /\ pc' = [pc EXCEPT ![c] = "idle"]
  /\ writer' = IF writer = c THEN NoCaller ELSE writer
  /\ UNCHANGED <<active, nextId>>

\* set_active_delegates( ids ): one set_property call.
SetActiveDelegates(c, ids) ==
  /\ pc[c] = "idle"
  /\ active' = ids
  /\ UNCHANGED <<props, pc, nextId, writer, issued>>

\* is_active_delegate( id ): linear search of get_active_delegates().
IsActiveDelegate(id) == \E i \in 1..Len(active) : active[i] = id

\* The delegate lists callers pass: the sequences of ids of DelegateIds of
\* length at most 2.
DelegateLists ==
  {<<>>} \cup {<<d>> : d \in DelegateIds}
         \cup {<<d, e>> : d, e \in DelegateIds}

Next ==
  \/ \E c \in Callers, p \in IdProperties : ReadLastId(c, p)
  \/ \E c \in Callers : WriteNextId(c)
  \/ \E c \in Callers, ids \in DelegateLists : SetActiveDelegates(c, ids)

Spec == Init /\ [][Next]_vars

-----------------------------------------------------------------------------

\* The type invariant.
TypeOK ==
  /\ props \in [IdProperties -> 0..MaxId]
  /\ active \in DelegateLists
  /\ pc \in [Callers -> IdProperties \cup {"idle"}]
  /\ nextId \in [Callers -> 0..MaxId]
  /\ writer \in Callers \cup {NoCaller}
  /\ issued \in [IdProperties -> Seq(1..MaxId)]

\* Section 8 of the spec, for every interleaving of callers that keep the
\* single-writer discipline of section 5 (an unlocked caller breaks it): the ids
\* new_*_id returns for a property are 1, 2, 3, ... in the order returned,
\* no id is returned twice, and the store holds the last one returned,
\* visible to the next call.
IdsContiguous ==
  \A p \in IdProperties :
     /\ \A i \in 1..Len(issued[p]) : issued[p][i] = i
     /\ props[p] = Len(issued[p])

=============================================================================
