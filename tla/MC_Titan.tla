------------------------------ MODULE MC_Titan ------------------------------
EXTENDS Titan, TLC

\* A full 20-byte message, a short one, and one longer than the buffer.
MsgFull == [n \in 1..20 |-> "a"]
MsgShort == <<"b", "a">>
MsgLong == [n \in 1..21 |-> "b"]

MCMsgs == {MsgFull, MsgShort, MsgLong}

MCSymmetry == Permutations(Keys) \cup Permutations(Ephemeral)
=============================================================================
