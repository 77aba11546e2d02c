------------------------------ MODULE Mailbox ------------------------------
(***************************************************************************)
(* What section 4.3 of the spec promises of TITAN, with the payment        *)
(* details hidden: payments are posted to a receiver with a message, the   *)
(* chain never changes a posted payment, and trial decryption discovers a  *)
(* payment for its receiver only ("without false positives"), handing     *)
(* back the message it was posted with.                                    *)
(***************************************************************************)
EXTENDS Naturals, Sequences

CONSTANTS
  Receivers,     \* the long-term keys payments are addressed to
  Messages       \* the messages payments carry

VARIABLES
  posted,        \* the payments on the chain: [to, msg], in order
  delivered      \* the discoveries made: [key, idx, msg]

mailVars == <<posted, delivered>>

Init ==
  /\ posted = <<>>
  /\ delivered = {}

\* A payment to r carrying m is put on the chain.
Post(r, m) ==
  /\ posted' = Append(posted, [to |-> r, msg |-> m])
  /\ UNCHANGED delivered

\* Key k discovers the idx-th payment, which is addressed to it, and reads
\* its message.
Deliver(k, idx) ==
  /\ k = posted[idx].to
  /\ delivered' = delivered \cup {[key |-> k, idx |-> idx, msg |-> posted[idx].msg]}
  /\ UNCHANGED posted

Next ==
  \/ \E r \in Receivers, m \in Messages : Post(r, m)
  \/ \E k \in Receivers, idx \in 1..Len(posted) : Deliver(k, idx)

Spec == Init /\ [][Next]_mailVars

-----------------------------------------------------------------------------

\* The type invariant.
MailTypeOK ==
  /\ posted \in Seq([to: Receivers, msg: Messages])
  /\ delivered \subseteq [key: Receivers, idx: Nat, msg: Messages]

\* No false positives: every discovery is of a payment addressed to the
\* discovering key, and hands back the message it was posted with, however
\* many payments were posted since.
DeliveredFaithful ==
  \A d \in delivered :
     /\ d.idx \in 1..Len(posted)
     /\ d.key = posted[d.idx].to
     /\ d.msg = posted[d.idx].msg

=============================================================================
