---------------------------- MODULE MailboxProofs ----------------------------
(***************************************************************************)
(* The mailbox keeps its promise: a discovery stays faithful to the        *)
(* payment it discovered, because payments are only ever appended.         *)
(***************************************************************************)
EXTENDS Mailbox, SequenceTheorems, TLAPS

MailInvA == MailTypeOK /\ DeliveredFaithful

LEMMA MailInvAStep == MailInvA /\ [Next]_mailVars => MailInvA'
<1> SUFFICES ASSUME MailInvA, [Next]_mailVars PROVE MailInvA'
  OBVIOUS
<1>1. CASE \E r \in Receivers, m \in Messages : Post(r, m)
  <2>1. PICK r \in Receivers, m \in Messages : Post(r, m)
    BY <1>1
  <2>2. [to |-> r, msg |-> m] \in [to: Receivers, msg: Messages]
    OBVIOUS
  <2>3. /\ posted' \in Seq([to: Receivers, msg: Messages])
        /\ Len(posted') = Len(posted) + 1
        /\ \A i \in 1..Len(posted) : posted'[i] = posted[i]
        /\ Len(posted) \in Nat
    BY <2>1, <2>2, AppendProperties, LenProperties DEF Post, MailInvA, MailTypeOK
  <2>. QED
    BY <2>1, <2>3 DEF Post, MailInvA, MailTypeOK, DeliveredFaithful
<1>2. CASE \E k \in Receivers, idx \in 1..Len(posted) : Deliver(k, idx)
  <2>1. PICK k \in Receivers, idx \in 1..Len(posted) : Deliver(k, idx)
    BY <1>2
  <2>2. posted[idx] \in [to: Receivers, msg: Messages]
    BY ElementOfSeq DEF MailInvA, MailTypeOK
  <2>. QED
    BY <2>1, <2>2 DEF Deliver, MailInvA, MailTypeOK, DeliveredFaithful
<1>3. CASE UNCHANGED mailVars
  BY <1>3 DEF mailVars, MailInvA, MailTypeOK, DeliveredFaithful
<1>. QED
  BY <1>1, <1>2, <1>3 DEF Next

\* In every reachable state of the mailbox, each discovery was made by the
\* receiver of the payment it names and carries that payment's message.
THEOREM NoFalsePositives == Spec => []DeliveredFaithful
<1>1. Init => MailInvA
  BY EmptySeq DEF Init, MailInvA, MailTypeOK, DeliveredFaithful
<1>. QED
  BY <1>1, MailInvAStep, PTL DEF Spec, MailInvA

=============================================================================
