---------------------------- MODULE TitanProofs ----------------------------
(***************************************************************************)
(* Proofs about the TITAN model, for every value of the constants.         *)
(***************************************************************************)
EXTENDS Titan, SequenceTheorems, TLAPS

-----------------------------------------------------------------------------
(* Lemmas on the operators the model is built from.                        *)

\* memo_data::set_message fills the whole buffer.
LEMMA SetMessageType ==
  ASSUME NEW m \in Msgs, Len(m) <= MemoCap, NEW j \in Junk
  PROVE  SetMessage(m, j) \in [1..MemoCap -> ByteVals]
<1> DEFINE pad == [n \in 1..(MemoCap - Len(m)) |-> j]
<1>1. m \in Seq(ByteVals)
  BY MsgsAssumption
<1>2. Len(m) \in Nat
  BY <1>1, LenProperties
<1>3. pad \in Seq(ByteVals)
  <2>1. MemoCap - Len(m) \in Nat
    BY <1>2, CapAssumption
  <2>2. pad \in [1..(MemoCap - Len(m)) -> ByteVals]
    BY DEF ByteVals
  <2>. QED
    BY <2>1, <2>2, SeqDef
<1>4. Len(pad) = MemoCap - Len(m)
  BY <1>2, CapAssumption
<1>5. /\ m \o pad \in Seq(ByteVals)
      /\ Len(m \o pad) = MemoCap
  BY <1>1, <1>2, <1>3, <1>4, ConcatProperties, CapAssumption
<1>. QED
  BY <1>5, LenProperties DEF SetMessage

\* A memo built by a holder of a private key is a memo_data value.
LEMMA MemoDataType ==
  ASSUME NEW m \in Msgs, Len(m) <= MemoCap, NEW j \in Junk,
         NEW c \in PrivKeys, NEW x \in PrivKeys, NEW P \in PubKeys
  PROVE  MemoData(m, j, c, x, P) \in Memos
<1>1. SetMessage(m, j) \in [1..MemoCap -> ByteVals]
  BY SetMessageType
<1>. QED
  BY <1>1 DEF MemoData, Memos, PubKey, HashWord0, SharedSecret, PubKeys

\* The one-time key of a receiver key is a child key.
LEMMA ChildKeyType ==
  ASSUME NEW k \in Keys, NEW e \in Keys \cup Ephemeral
  PROVE  ChildKey(k, Sha256({k, e}), "public_derivation") \in ChildKeys
BY DEF ChildKey, Sha256, ChildKeys, DerivationModes

\* The owner key a sender derives for receiver r is a child key.
LEMMA StealthPubType ==
  ASSUME NEW e \in Keys \cup Ephemeral, NEW r \in Keys
  PROVE  /\ StealthPub(e, PubKey(r)) \in PubKeys
         /\ StealthPub(e, PubKey(r)).pub \in ChildKeys
BY DEF StealthPub, ExtPubChild, PubKey, SharedSecret, Sha256, ChildKey,
       ChildKeys, PubKeys, PrivKeys, DerivationModes

\* Appending a condition keeps the chain typed and the old entries intact.
LEMMA AppendOutput ==
  ASSUME NEW out \in Outputs, chain \in Seq(Outputs), Len(chain) < MaxOutputs
  PROVE  /\ Append(chain, out) \in Seq(Outputs)
         /\ Len(Append(chain, out)) <= MaxOutputs
         /\ 1..Len(chain) \subseteq 1..Len(Append(chain, out))
         /\ \A i \in 1..Len(chain) : Append(chain, out)[i] = chain[i]
         /\ Append(chain, out)[Len(chain) + 1] = out
<1>1. Len(chain) \in Nat
  BY LenProperties
<1>. QED
  BY <1>1, AppendProperties, BoundAssumption

-----------------------------------------------------------------------------
(* Type correctness.                                                       *)

LEMMA InitTypeOK == Init => TypeOK
BY EmptySeq, BoundAssumption DEF Init, TypeOK

LEMMA EncryptTypeOK ==
  ASSUME TypeOK, NEW e \in Ephemeral, NEW r \in Keys, NEW s \in Keys,
         NEW m \in Msgs, NEW j \in Junk, EncryptMemoData(e, r, s, m, j)
  PROVE  TypeOK'
<1> DEFINE secretPub == StealthPub(e, PubKey(r))
           out == [owner |-> Address(secretPub),
                   one_time_key |-> PubKey(e),
                   encrypted_memo_data |->
                      AesEncrypt(SharedSecret(e, PubKey(r)),
                                 MemoData(m, j, s, s, secretPub)),
                   to |-> r, author |-> s, sent |-> m, kind |-> "encrypt",
                   knows |-> {s, e}]
<1>1. /\ Len(chain) < MaxOutputs
      /\ Len(m) <= MemoCap
      /\ chain' = Append(chain, out)
      /\ UNCHANGED <<scans, found>>
  BY DEF EncryptMemoData
<1>2. MemoData(m, j, s, s, secretPub) \in Memos
  BY <1>1, StealthPubType, MemoDataType DEF PrivKeys
<1>3. out \in Outputs
  BY <1>2, StealthPubType DEF Outputs, Address, PubKey, AesEncrypt,
     SharedSecret, PrivKeys
<1>. QED
  BY <1>1, <1>3, AppendOutput DEF TypeOK

LEMMA ForgedTypeOK ==
  ASSUME TypeOK, NEW a \in Keys, NEW e \in Ephemeral, NEW r \in Keys,
         NEW c \in Keys \cup {e}, NEW x,
         NEW y \in {PubKey(c), StealthPub(e, PubKey(r))}, NEW m \in Msgs,
         NEW j \in Junk, PostForged(a, e, r, c, x, y, m, j)
  PROVE  TypeOK'
<1> DEFINE secret == SharedSecret(e, PubKey(r))
           secretPub == StealthPub(e, PubKey(r))
           child == ChildKey(r, Sha256(secret), "public_derivation")
           known == {a, e} \cup (IF a = r THEN {child} ELSE {})
           out == [owner |-> Address(secretPub),
                   one_time_key |-> PubKey(e),
                   encrypted_memo_data |->
                      AesEncrypt(secret, MemoData(m, j, c, x, y)),
                   to |-> r, author |-> a, sent |-> m, kind |-> "forged",
                   knows |-> known]
<1>1. /\ Len(chain) < MaxOutputs
      /\ Len(m) <= MemoCap
      /\ x \in known
      /\ chain' = Append(chain, out)
      /\ UNCHANGED <<scans, found>>
  BY DEF PostForged
<1>2. known \subseteq PrivKeys
  BY DEF ChildKey, Sha256, SharedSecret, PubKey, ChildKeys, PrivKeys,
     DerivationModes
<1>3. MemoData(m, j, c, x, y) \in Memos
  <2>1. y \in PubKeys
    BY StealthPubType DEF PubKey, PubKeys, PrivKeys
  <2>. QED
    BY <1>1, <1>2, <2>1, MemoDataType DEF PrivKeys
<1>4. out \in Outputs
  BY <1>2, <1>3, StealthPubType DEF Outputs, Address, PubKey, AesEncrypt,
     SharedSecret, PrivKeys
<1>. QED
  BY <1>1, <1>4, AppendOutput DEF TypeOK

LEMMA CopyTypeOK ==
  ASSUME TypeOK, NEW a \in Keys, NEW idx \in 1..Len(chain), NEW m \in Msgs,
         NEW j \in Junk, PostCopy(a, idx, m, j)
  PROVE  TypeOK'
<1> DEFINE c == chain[idx]
           secret == SharedSecret(a, c.one_time_key)
           secretPub == PubKey(ChildKey(a, Sha256(secret), "public_derivation"))
           known == {a} \cup (IF a = c.to THEN {secretPub.pub} ELSE {})
           out == [owner |-> c.owner,
                   one_time_key |-> c.one_time_key,
                   encrypted_memo_data |->
                      AesEncrypt(secret, MemoData(m, j, a, a, secretPub)),
                   to |-> c.to, author |-> a, sent |-> m, kind |-> "copy",
                   knows |-> known]
<1>1. /\ Len(chain) < MaxOutputs
      /\ Len(m) <= MemoCap
      /\ chain' = Append(chain, out)
      /\ UNCHANGED <<scans, found>>
  BY DEF PostCopy
<1>2. c \in Outputs
  BY ElementOfSeq DEF TypeOK
<1>3. /\ secretPub \in PubKeys
      /\ secretPub.pub \in ChildKeys
  BY <1>2 DEF Outputs, SharedSecret, PubKey, ChildKey, Sha256, ChildKeys,
     PubKeys, PrivKeys, DerivationModes
<1>4. MemoData(m, j, a, a, secretPub) \in Memos
  BY <1>1, <1>3, MemoDataType DEF PrivKeys
<1>5. out \in Outputs
  BY <1>2, <1>3, <1>4 DEF Outputs, AesEncrypt, SharedSecret, PubKey, PrivKeys
<1>. QED
  BY <1>1, <1>5, AppendOutput DEF TypeOK

LEMMA DecryptTypeOK ==
  ASSUME TypeOK, NEW k \in Keys, NEW idx \in 1..Len(chain),
         DecryptMemoData(k, idx)
  PROVE  TypeOK'
<1> DEFINE c == chain[idx]
           secretPriv == SecretPrivateKey(k, c)
<1>1. c \in Outputs
  BY ElementOfSeq DEF TypeOK
<1>2. secretPriv \in ChildKeys
  BY <1>1 DEF SecretPrivateKey, Outputs, SharedSecret, ChildKey, Sha256,
     ChildKeys, DerivationModes
<1>3. /\ UNCHANGED chain
      /\ \E st \in {"no_match", "error", "match"} :
            scans' = scans \cup {[key |-> k, idx |-> idx, status |-> st]}
      /\ \/ UNCHANGED found
         \/ \E b \in BOOLEAN :
              found' = found \cup
                {[key |-> k, idx |-> idx, memo |-> c.encrypted_memo_data.plain,
                  has_valid_signature |-> b, owner_private_key |-> secretPriv]}
  BY DEF DecryptMemoData
<1>4. c.encrypted_memo_data.plain \in Memos
  BY <1>1 DEF Outputs
<1>. QED
  BY <1>2, <1>3, <1>4 DEF TypeOK

\* Every step of the specification keeps the type invariant.
LEMMA TypeOKStep == TypeOK /\ [Next]_vars => TypeOK'
<1> SUFFICES ASSUME TypeOK, [Next]_vars PROVE TypeOK'
  OBVIOUS
<1>1. CASE \E e \in Ephemeral, r, s \in Keys, m \in Msgs, j \in Junk :
               EncryptMemoData(e, r, s, m, j)
  BY <1>1, EncryptTypeOK
<1>2. CASE \E k \in Keys, idx \in 1..Len(chain) : DecryptMemoData(k, idx)
  BY <1>2, DecryptTypeOK
<1>3. CASE \E a, r \in Keys, e \in Ephemeral, m \in Msgs, j \in Junk :
               \E c \in Keys \cup {e}, x \in ForgerKeys(a, e, r) :
                  \E y \in {PubKey(c), StealthPub(e, PubKey(r))} :
                     PostForged(a, e, r, c, x, y, m, j)
  BY <1>3, ForgedTypeOK
<1>4. CASE \E a \in Keys, idx \in 1..Len(chain), m \in Msgs, j \in Junk :
               PostCopy(a, idx, m, j)
  BY <1>4, CopyTypeOK
<1>5. CASE UNCHANGED vars
  BY <1>5 DEF TypeOK, vars
<1>. QED
  BY <1>1, <1>2, <1>3, <1>4, <1>5 DEF Next

\* The type invariant holds in every reachable state.
THEOREM TypeCorrect == Spec => []TypeOK
<1>1. Init => TypeOK
  BY InitTypeOK
<1>2. TypeOK /\ [Next]_vars => TypeOK'
  BY TypeOKStep
<1>. QED
  BY <1>1, <1>2, PTL DEF Spec

-----------------------------------------------------------------------------
(* Soundness of discovery.                                                 *)

\* Every posted owner address is the address decrypt_memo_data derives
\* for the condition's intended receiver.
OwnerDerived ==
  \A i \in 1..Len(chain) :
     chain[i].owner = Address(PubKey(SecretPrivateKey(chain[i].to, chain[i])))

\* The inductive invariant behind DiscoverySound.
DiscoveryInv == TypeOK /\ OwnerDerived /\ DiscoverySound

\* Distinct receiver keys derive distinct owner addresses for a condition.
LEMMA OwnerAddressInjective ==
  ASSUME NEW k, NEW r, NEW c,
         Address(PubKey(SecretPrivateKey(k, c)))
            = Address(PubKey(SecretPrivateKey(r, c)))
  PROVE  k = r
BY DEF Address, PubKey, SecretPrivateKey, ChildKey

\* Appending a well-derived condition, with found unchanged, keeps
\* OwnerDerived and DiscoverySound.
LEMMA AppendDiscovery ==
  ASSUME TypeOK, OwnerDerived, DiscoverySound, NEW out,
         chain' = Append(chain, out), found' = found,
         out.owner = Address(PubKey(SecretPrivateKey(out.to, out)))
  PROVE  OwnerDerived' /\ DiscoverySound'
<1>1. chain \in Seq(Outputs \cup {out})
  BY SeqMonotonic DEF TypeOK
<1>2. /\ Len(chain) \in Nat
      /\ Len(chain') = Len(chain) + 1
      /\ \A i \in 1..Len(chain) : chain'[i] = chain[i]
      /\ chain'[Len(chain) + 1] = out
  BY <1>1, AppendProperties, LenProperties
<1>3. OwnerDerived'
  BY <1>2 DEF OwnerDerived
<1>4. DiscoverySound'
  BY <1>2 DEF DiscoverySound, TypeOK
<1>. QED
  BY <1>3, <1>4

LEMMA InitDiscovery == Init => OwnerDerived /\ DiscoverySound
BY DEF Init, OwnerDerived, DiscoverySound

LEMMA EncryptDiscovery ==
  ASSUME TypeOK, OwnerDerived, DiscoverySound, NEW e \in Ephemeral,
         NEW r \in Keys, NEW s \in Keys, NEW m \in Msgs, NEW j \in Junk,
         EncryptMemoData(e, r, s, m, j)
  PROVE  OwnerDerived' /\ DiscoverySound'
<1> DEFINE secretPub == StealthPub(e, PubKey(r))
           out == [owner |-> Address(secretPub),
                   one_time_key |-> PubKey(e),
                   encrypted_memo_data |->
                      AesEncrypt(SharedSecret(e, PubKey(r)),
                                 MemoData(m, j, s, s, secretPub)),
                   to |-> r, author |-> s, sent |-> m, kind |-> "encrypt",
                   knows |-> {s, e}]
<1>1. chain' = Append(chain, out) /\ found' = found
  BY DEF EncryptMemoData
<1>2. out.owner = Address(PubKey(SecretPrivateKey(out.to, out)))
  BY DEF StealthPub, ExtPubChild, SharedSecret, PubKey, SecretPrivateKey
<1>. QED
  BY <1>1, <1>2, AppendDiscovery

LEMMA ForgedDiscovery ==
  ASSUME TypeOK, OwnerDerived, DiscoverySound, NEW a \in Keys,
         NEW e \in Ephemeral, NEW r \in Keys, NEW c, NEW x, NEW y, NEW m,
         NEW j, PostForged(a, e, r, c, x, y, m, j)
  PROVE  OwnerDerived' /\ DiscoverySound'
<1> DEFINE secret == SharedSecret(e, PubKey(r))
           secretPub == StealthPub(e, PubKey(r))
           child == ChildKey(r, Sha256(secret), "public_derivation")
           known == {a, e} \cup (IF a = r THEN {child} ELSE {})
           out == [owner |-> Address(secretPub),
                   one_time_key |-> PubKey(e),
                   encrypted_memo_data |->
                      AesEncrypt(secret, MemoData(m, j, c, x, y)),
                   to |-> r, author |-> a, sent |-> m, kind |-> "forged",
                   knows |-> known]
<1>1. chain' = Append(chain, out) /\ found' = found
  BY DEF PostForged
<1>2. out.owner = Address(PubKey(SecretPrivateKey(out.to, out)))
  BY DEF StealthPub, ExtPubChild, SharedSecret, PubKey, SecretPrivateKey
<1>. QED
  BY <1>1, <1>2, AppendDiscovery

LEMMA CopyDiscovery ==
  ASSUME TypeOK, OwnerDerived, DiscoverySound, NEW a \in Keys,
         NEW idx \in 1..Len(chain), NEW m, NEW j, PostCopy(a, idx, m, j)
  PROVE  OwnerDerived' /\ DiscoverySound'
<1> DEFINE c == chain[idx]
           secret == SharedSecret(a, c.one_time_key)
           secretPub == PubKey(ChildKey(a, Sha256(secret), "public_derivation"))
           known == {a} \cup (IF a = c.to THEN {secretPub.pub} ELSE {})
           out == [owner |-> c.owner,
                   one_time_key |-> c.one_time_key,
                   encrypted_memo_data |->
                      AesEncrypt(secret, MemoData(m, j, a, a, secretPub)),
                   to |-> c.to, author |-> a, sent |-> m, kind |-> "copy",
                   knows |-> known]
<1>1. chain' = Append(chain, out) /\ found' = found
  BY DEF PostCopy
<1>2. c.owner = Address(PubKey(SecretPrivateKey(c.to, c)))
  BY DEF OwnerDerived
<1>3. out.owner = Address(PubKey(SecretPrivateKey(out.to, out)))
  BY <1>2 DEF SecretPrivateKey
<1>. QED
  BY <1>1, <1>3, AppendDiscovery

LEMMA DecryptDiscovery ==
  ASSUME TypeOK, OwnerDerived, DiscoverySound, NEW k \in Keys,
         NEW idx \in 1..Len(chain), DecryptMemoData(k, idx)
  PROVE  OwnerDerived' /\ DiscoverySound'
<1> DEFINE c == chain[idx]
           secretPriv == SecretPrivateKey(k, c)
<1>1. UNCHANGED chain
  BY DEF DecryptMemoData
<1>2. OwnerDerived'
  BY <1>1 DEF OwnerDerived
<1>3. CASE UNCHANGED found
  BY <1>1, <1>2, <1>3 DEF DiscoverySound
<1>4. CASE ~UNCHANGED found
  <2>1. /\ c.owner = Address(PubKey(secretPriv))
        /\ \E b \in BOOLEAN :
              found' = found \cup
                {[key |-> k, idx |-> idx, memo |-> c.encrypted_memo_data.plain,
                  has_valid_signature |-> b, owner_private_key |-> secretPriv]}
    BY <1>4 DEF DecryptMemoData
  <2>2. c.owner = Address(PubKey(SecretPrivateKey(c.to, c)))
    BY DEF OwnerDerived
  <2>3. k = c.to
    BY <2>1, <2>2, OwnerAddressInjective
  <2>4. DiscoverySound'
    BY <1>1, <2>1, <2>3 DEF DiscoverySound
  <2>. QED
    BY <1>2, <2>4
<1>. QED
  BY <1>2, <1>3, <1>4

\* Every step keeps the discovery invariant.
LEMMA DiscoveryStep == DiscoveryInv /\ [Next]_vars => DiscoveryInv'
<1> SUFFICES ASSUME DiscoveryInv, [Next]_vars PROVE DiscoveryInv'
  OBVIOUS
<1>0. TypeOK /\ OwnerDerived /\ DiscoverySound /\ TypeOK'
  BY TypeOKStep DEF DiscoveryInv
<1>1. CASE \E e \in Ephemeral, r, s \in Keys, m \in Msgs, j \in Junk :
             EncryptMemoData(e, r, s, m, j)
  BY <1>0, <1>1, EncryptDiscovery DEF DiscoveryInv
<1>2. CASE \E k \in Keys, idx \in 1..Len(chain) : DecryptMemoData(k, idx)
  BY <1>0, <1>2, DecryptDiscovery DEF DiscoveryInv
<1>3. CASE \E a, r \in Keys, e \in Ephemeral, m \in Msgs, j \in Junk :
             \E c \in Keys \cup {e}, x \in ForgerKeys(a, e, r) :
                \E y \in {PubKey(c), StealthPub(e, PubKey(r))} :
                   PostForged(a, e, r, c, x, y, m, j)
  BY <1>0, <1>3, ForgedDiscovery DEF DiscoveryInv
<1>4. CASE \E a \in Keys, idx \in 1..Len(chain), m \in Msgs, j \in Junk :
             PostCopy(a, idx, m, j)
  BY <1>0, <1>4, CopyDiscovery DEF DiscoveryInv
<1>5. CASE UNCHANGED vars
  BY <1>0, <1>5 DEF DiscoveryInv, vars, OwnerDerived, DiscoverySound
<1>. QED
  BY <1>1, <1>2, <1>3, <1>4, <1>5 DEF Next

\* Discovery is sound in every reachable state: decrypt_memo_data returns
\* a memo_status only to the receiver a condition's owner was derived for.
THEOREM DiscoveryIsSound == Spec => []DiscoverySound
<1>1. Init => DiscoveryInv
  BY InitTypeOK, InitDiscovery DEF DiscoveryInv
<1>. QED
  BY <1>1, DiscoveryStep, PTL DEF Spec, DiscoveryInv

-----------------------------------------------------------------------------
(* Authentication of the claimed sender.                                   *)

\* The check word of every posted memo is the hash of a shared secret
\* between a private key x its author held and some key q.
SigWitness ==
  \A i \in 1..Len(chain) :
     \E x \in chain[i].knows : \E q :
        chain[i].encrypted_memo_data.plain.from_signature = HashWord0({x, q})

\* Every memo_status returned records what decrypt_memo_data computed on
\* the condition, which stays on the chain unchanged.
FoundFaithful ==
  \A f \in found :
     /\ f.memo = chain[f.idx].encrypted_memo_data.plain
     /\ chain[f.idx].owner = Address(PubKey(f.owner_private_key))
     /\ f.has_valid_signature =
           (HashWord0(SharedSecret(f.owner_private_key, f.memo.from))
              = f.memo.from_signature)

\* The inductive invariant behind SignatureAuthentic.
AuthInv == DiscoveryInv /\ SigWitness /\ FoundFaithful

\* A key of the pair behind a check word is one of the pair {s, F} the
\* receiver hashes: the one-time private key s or the claimed sender F.
LEMMA CheckWordKey ==
  ASSUME NEW s, NEW F, NEW x, NEW q, {s, F} = {x, q}
  PROVE  x = s \/ x = F
<1>1. x \in {s, F}
  OBVIOUS
<1>. QED
  BY <1>1

\* Appending a condition whose check word has a witness keeps SigWitness
\* and FoundFaithful.
LEMMA AppendAuth ==
  ASSUME TypeOK, SigWitness, FoundFaithful, NEW out,
         chain' = Append(chain, out), found' = found,
         \E x \in out.knows : \E q :
            out.encrypted_memo_data.plain.from_signature = HashWord0({x, q})
  PROVE  SigWitness' /\ FoundFaithful'
<1>1. chain \in Seq(Outputs \cup {out})
  BY SeqMonotonic DEF TypeOK
<1>2. /\ Len(chain) \in Nat
      /\ Len(chain') = Len(chain) + 1
      /\ \A i \in 1..Len(chain) : chain'[i] = chain[i]
      /\ chain'[Len(chain) + 1] = out
  BY <1>1, AppendProperties, LenProperties
<1>3. SigWitness'
  <2> SUFFICES ASSUME NEW i \in 1..Len(chain')
               PROVE  \E x \in chain'[i].knows : \E q :
                        chain'[i].encrypted_memo_data.plain.from_signature
                           = HashWord0({x, q})
    BY DEF SigWitness
  <2>1. CASE i \in 1..Len(chain)
    <3>1. chain'[i] = chain[i]
      BY <1>2, <2>1
    <3>. QED
      BY <2>1, <3>1 DEF SigWitness
  <2>2. CASE i = Len(chain) + 1
    <3>1. chain'[i] = out
      BY <1>2, <2>2
    <3>2. PICK x \in out.knows : \E q :
             out.encrypted_memo_data.plain.from_signature = HashWord0({x, q})
      OBVIOUS
    <3>. QED
      BY <3>1, <3>2
  <2>3. i \in 1..Len(chain) \/ i = Len(chain) + 1
    BY <1>2
  <2>. QED
    BY <2>1, <2>2, <2>3
<1>4. FoundFaithful'
  BY <1>2 DEF FoundFaithful, TypeOK
<1>. QED
  BY <1>3, <1>4

LEMMA InitAuth == Init => SigWitness /\ FoundFaithful
BY DEF Init, SigWitness, FoundFaithful

LEMMA EncryptAuth ==
  ASSUME TypeOK, SigWitness, FoundFaithful, NEW e \in Ephemeral,
         NEW r \in Keys, NEW s \in Keys, NEW m \in Msgs, NEW j \in Junk,
         EncryptMemoData(e, r, s, m, j)
  PROVE  SigWitness' /\ FoundFaithful'
<1> DEFINE secretPub == StealthPub(e, PubKey(r))
           out == [owner |-> Address(secretPub),
                   one_time_key |-> PubKey(e),
                   encrypted_memo_data |->
                      AesEncrypt(SharedSecret(e, PubKey(r)),
                                 MemoData(m, j, s, s, secretPub)),
                   to |-> r, author |-> s, sent |-> m, kind |-> "encrypt",
                   knows |-> {s, e}]
<1>1. chain' = Append(chain, out) /\ found' = found
  BY DEF EncryptMemoData
<1>3. /\ out.encrypted_memo_data.plain.from_signature
            = HashWord0({s, secretPub.pub})
      /\ s \in out.knows
  BY DEF MemoData, AesEncrypt, SharedSecret
<1>. QED
  BY <1>1, <1>3, AppendAuth

LEMMA ForgedAuth ==
  ASSUME TypeOK, SigWitness, FoundFaithful, NEW a \in Keys,
         NEW e \in Ephemeral, NEW r \in Keys, NEW c, NEW x, NEW y, NEW m,
         NEW j, PostForged(a, e, r, c, x, y, m, j)
  PROVE  SigWitness' /\ FoundFaithful'
<1> DEFINE secret == SharedSecret(e, PubKey(r))
           secretPub == StealthPub(e, PubKey(r))
           child == ChildKey(r, Sha256(secret), "public_derivation")
           known == {a, e} \cup (IF a = r THEN {child} ELSE {})
           out == [owner |-> Address(secretPub),
                   one_time_key |-> PubKey(e),
                   encrypted_memo_data |->
                      AesEncrypt(secret, MemoData(m, j, c, x, y)),
                   to |-> r, author |-> a, sent |-> m, kind |-> "forged",
                   knows |-> known]
<1>1. chain' = Append(chain, out) /\ found' = found /\ x \in known
  BY DEF PostForged
<1>3. /\ out.encrypted_memo_data.plain.from_signature
            = HashWord0({x, y.pub})
      /\ out.knows = known
  BY DEF MemoData, AesEncrypt, SharedSecret
<1>. QED
  BY <1>1, <1>3, AppendAuth

LEMMA CopyAuth ==
  ASSUME TypeOK, SigWitness, FoundFaithful, NEW a \in Keys,
         NEW idx \in 1..Len(chain), NEW m, NEW j, PostCopy(a, idx, m, j)
  PROVE  SigWitness' /\ FoundFaithful'
<1> DEFINE c == chain[idx]
           secret == SharedSecret(a, c.one_time_key)
           secretPub == PubKey(ChildKey(a, Sha256(secret), "public_derivation"))
           known == {a} \cup (IF a = c.to THEN {secretPub.pub} ELSE {})
           out == [owner |-> c.owner,
                   one_time_key |-> c.one_time_key,
                   encrypted_memo_data |->
                      AesEncrypt(secret, MemoData(m, j, a, a, secretPub)),
                   to |-> c.to, author |-> a, sent |-> m, kind |-> "copy",
                   knows |-> known]
<1>1. chain' = Append(chain, out) /\ found' = found
  BY DEF PostCopy
<1>2. /\ out.encrypted_memo_data.plain.from_signature
            = HashWord0({a, secretPub.pub})
      /\ a \in out.knows
  BY DEF MemoData, AesEncrypt, SharedSecret
<1>. QED
  BY <1>1, <1>2, AppendAuth

LEMMA DecryptAuth ==
  ASSUME TypeOK, SigWitness, FoundFaithful, NEW k \in Keys,
         NEW idx \in 1..Len(chain), DecryptMemoData(k, idx)
  PROVE  SigWitness' /\ FoundFaithful'
<1> DEFINE c == chain[idx]
           secretPriv == SecretPrivateKey(k, c)
           memo == c.encrypted_memo_data.plain
<1>1. UNCHANGED chain
  BY DEF DecryptMemoData
<1>2. SigWitness'
  BY <1>1, Zenon DEF SigWitness
<1>3. CASE UNCHANGED found
  BY <1>1, <1>2, <1>3 DEF FoundFaithful
<1>4. CASE ~UNCHANGED found
  <2>1. /\ c.owner = Address(PubKey(secretPriv))
        /\ found' = found \cup
              {[key |-> k, idx |-> idx, memo |-> memo,
                has_valid_signature |->
                  HashWord0(SharedSecret(secretPriv, memo.from))
                     = memo.from_signature,
                owner_private_key |-> secretPriv]}
    BY <1>4 DEF DecryptMemoData
  <2>. QED
    BY <1>1, <1>2, <2>1 DEF FoundFaithful
<1>. QED
  BY <1>2, <1>3, <1>4

\* Every step keeps the authentication invariant.
LEMMA AuthStep == AuthInv /\ [Next]_vars => AuthInv'
<1> SUFFICES ASSUME AuthInv, [Next]_vars PROVE AuthInv'
  OBVIOUS
<1>0. /\ TypeOK /\ OwnerDerived /\ SigWitness /\ FoundFaithful
      /\ DiscoveryInv'
  BY DiscoveryStep DEF AuthInv, DiscoveryInv
<1>1. CASE \E e \in Ephemeral, r, s \in Keys, m \in Msgs, j \in Junk :
             EncryptMemoData(e, r, s, m, j)
  BY <1>0, <1>1, EncryptAuth DEF AuthInv
<1>2. CASE \E k \in Keys, idx \in 1..Len(chain) : DecryptMemoData(k, idx)
  BY <1>0, <1>2, DecryptAuth DEF AuthInv
<1>3. CASE \E a, r \in Keys, e \in Ephemeral, m \in Msgs, j \in Junk :
             \E c \in Keys \cup {e}, x \in ForgerKeys(a, e, r) :
                \E y \in {PubKey(c), StealthPub(e, PubKey(r))} :
                   PostForged(a, e, r, c, x, y, m, j)
  BY <1>0, <1>3, ForgedAuth DEF AuthInv
<1>4. CASE \E a \in Keys, idx \in 1..Len(chain), m \in Msgs, j \in Junk :
             PostCopy(a, idx, m, j)
  BY <1>0, <1>4, CopyAuth DEF AuthInv
<1>5. CASE UNCHANGED vars
  <2>1. chain' = chain /\ found' = found
    BY <1>5 DEF vars
  <2>2. SigWitness'
    BY <1>0, <2>1 DEF SigWitness
  <2>3. FoundFaithful'
    BY <1>0, <2>1 DEF FoundFaithful
  <2>. QED
    BY <1>0, <2>2, <2>3 DEF AuthInv
<1>. QED
  BY <1>1, <1>2, <1>3, <1>4, <1>5 DEF Next

\* The check word authenticates what section 4.3 step 5 says in every
\* reachable state: when decrypt_memo_data reports has_valid_signature,
\* the author of the condition held the private key of memo.from or the
\* one-time private key secret_priv, whatever it claimed.
THEOREM SignatureIsAuthentic == Spec => []SignatureAuthentic
<1>1. Init => AuthInv
  BY InitTypeOK, InitDiscovery, InitAuth DEF AuthInv, DiscoveryInv
<1>2. AuthInv => SignatureAuthentic
  <2> SUFFICES ASSUME AuthInv, NEW f \in found, f.has_valid_signature
               PROVE  \/ f.memo.from.pub \in chain[f.idx].knows
                      \/ f.owner_private_key \in chain[f.idx].knows
    BY DEF SignatureAuthentic
  <2> DEFINE s == f.owner_private_key
             c == chain[f.idx]
  <2>0. /\ f.memo = c.encrypted_memo_data.plain
        /\ f.has_valid_signature =
              (HashWord0(SharedSecret(s, f.memo.from)) = f.memo.from_signature)
    BY DEF AuthInv, FoundFaithful
  <2>1. PICK x \in c.knows : \E q :
           c.encrypted_memo_data.plain.from_signature = HashWord0({x, q})
    <3>1. f.idx \in 1..Len(chain)
      BY DEF AuthInv, DiscoveryInv, TypeOK
    <3>. QED
      BY <3>1 DEF AuthInv, SigWitness
  <2>2. PICK q : c.encrypted_memo_data.plain.from_signature = HashWord0({x, q})
    BY <2>1
  <2>3. {s, f.memo.from.pub} = {x, q}
    <3>1. HashWord0({s, f.memo.from.pub}) = HashWord0({x, q})
      BY <2>0, <2>2 DEF SharedSecret
    <3>. QED
      BY <3>1 DEF HashWord0
  <2>4. x = s \/ x = f.memo.from.pub
    BY <2>3, CheckWordKey
  <2>. QED
    BY <2>1, <2>4
<1>. QED
  BY <1>1, <1>2, AuthStep, PTL DEF Spec


-----------------------------------------------------------------------------
(* Round trip of encrypt_memo_data.                                        *)

\* memo_data::set_message keeps the message as the prefix of the buffer.
LEMMA SetMessagePrefix ==
  ASSUME NEW m \in Msgs, Len(m) <= MemoCap, NEW j \in Junk
  PROVE  SubSeq(SetMessage(m, j), 1, Len(m)) = m
<1> DEFINE pad == [n \in 1..(MemoCap - Len(m)) |-> j]
<1>1. /\ m \in Seq(ByteVals)
      /\ Len(m) \in Nat
  BY MsgsAssumption, LenProperties
<1>2. pad \in Seq(ByteVals)
  <2>1. MemoCap - Len(m) \in Nat
    BY <1>1, CapAssumption
  <2>. QED
    BY <2>1, SeqDef DEF ByteVals
<1>3. CASE Len(m) = 0
  <2>1. m = << >>
    BY <1>1, <1>3, EmptySeq
  <2>. QED
    BY <1>3, <2>1, SubSeqEmpty
<1>4. CASE Len(m) # 0
  <2>1. SubSeq(m \o pad, 1, Len(m)) = SubSeq(m, 1, Len(m))
    BY <1>1, <1>2, <1>4, SubSeqOfConcat1
  <2>. QED
    BY <1>1, <2>1, SubSeqFull DEF SetMessage
<1>. QED
  BY <1>3, <1>4

\* The outcome decrypt_memo_data( k ) reaches on condition c.
DecryptStatus(k, c) ==
  IF c.owner # Address(PubKey(SecretPrivateKey(k, c))) THEN "no_match"
  ELSE IF c.encrypted_memo_data.aesKey # SharedSecret(k, c.one_time_key)
       THEN "error"
       ELSE "match"

\* Every scan recorded the outcome decrypt_memo_data reached.
ScansFaithful ==
  \A sc \in scans : sc.status = DecryptStatus(sc.key, chain[sc.idx])

\* A condition has the fields encrypt_memo_data gives it, for the ephemeral
\* key e, sender key s and buffer remainder j.
Honest(c, e, s, j) ==
  /\ c.one_time_key = PubKey(e)
  /\ c.owner = Address(StealthPub(e, PubKey(c.to)))
  /\ c.encrypted_memo_data =
        AesEncrypt(SharedSecret(e, PubKey(c.to)),
                   MemoData(c.sent, j, s, s, StealthPub(e, PubKey(c.to))))
  /\ Len(c.sent) <= MemoCap

\* Every condition made by encrypt_memo_data has its fields.
HonestShape ==
  \A i \in 1..Len(chain) :
     chain[i].kind = "encrypt" =>
        \E e \in Ephemeral, s \in Keys, j \in Junk : Honest(chain[i], e, s, j)

\* The inductive invariant behind RoundTrip.
RTInv == AuthInv /\ HonestShape /\ ScansFaithful

\* Trial decryption of a condition encrypt_memo_data made: a match for its
\* receiver and a no_match for every other key.
LEMMA HonestStatus ==
  ASSUME NEW c, NEW e, NEW s, NEW j, Honest(c, e, s, j), NEW k
  PROVE  DecryptStatus(k, c) = IF k = c.to THEN "match" ELSE "no_match"
<1>1. c.owner = Address(PubKey(SecretPrivateKey(c.to, c)))
  <2>1. SecretPrivateKey(c.to, c)
           = ChildKey(c.to, Sha256({c.to, e}), "public_derivation")
    BY DEF Honest, SharedSecret, PubKey, SecretPrivateKey
  <2>2. c.owner
           = Address(PubKey(ChildKey(c.to, Sha256({e, c.to}),
                                     "public_derivation")))
    BY DEF Honest, StealthPub, ExtPubChild, SharedSecret, PubKey
  <2>3. {c.to, e} = {e, c.to}
    OBVIOUS
  <2>. QED
    BY <2>1, <2>2, <2>3
<1>2. CASE k = c.to
  <2>1. c.encrypted_memo_data.aesKey = SharedSecret(k, c.one_time_key)
    BY <1>2 DEF Honest, AesEncrypt, SharedSecret, PubKey
  <2>. QED
    BY <1>1, <1>2, <2>1 DEF DecryptStatus
<1>3. CASE k # c.to
  <2>1. c.owner # Address(PubKey(SecretPrivateKey(k, c)))
    BY <1>1, <1>3, OwnerAddressInjective
  <2>. QED
    BY <1>3, <2>1 DEF DecryptStatus
<1>. QED
  BY <1>2, <1>3

\* Appending a condition keeps HonestShape and ScansFaithful, provided an
\* "encrypt" condition has the fields encrypt_memo_data gives it.
LEMMA AppendRT ==
  ASSUME TypeOK, HonestShape, ScansFaithful, NEW out,
         chain' = Append(chain, out), scans' = scans,
         out.kind = "encrypt" =>
            \E e \in Ephemeral, s \in Keys, j \in Junk : Honest(out, e, s, j)
  PROVE  HonestShape' /\ ScansFaithful'
<1>1. chain \in Seq(Outputs \cup {out})
  BY SeqMonotonic DEF TypeOK
<1>2. /\ Len(chain) \in Nat
      /\ Len(chain') = Len(chain) + 1
      /\ \A i \in 1..Len(chain) : chain'[i] = chain[i]
      /\ chain'[Len(chain) + 1] = out
  BY <1>1, AppendProperties, LenProperties
<1>3. HonestShape'
  <2> SUFFICES ASSUME NEW i \in 1..Len(chain'), chain'[i].kind = "encrypt"
               PROVE  \E e \in Ephemeral, s \in Keys, j \in Junk :
                         Honest(chain'[i], e, s, j)
    BY DEF HonestShape
  <2>1. CASE i \in 1..Len(chain)
    BY <1>2, <2>1 DEF HonestShape
  <2>2. CASE i = Len(chain) + 1
    BY <1>2, <2>2
  <2>. QED
    BY <1>2, <2>1, <2>2
<1>4. ScansFaithful'
  BY <1>2 DEF ScansFaithful, TypeOK
<1>. QED
  BY <1>3, <1>4

LEMMA InitRT == Init => HonestShape /\ ScansFaithful
BY DEF Init, HonestShape, ScansFaithful

LEMMA EncryptRT ==
  ASSUME TypeOK, HonestShape, ScansFaithful, NEW e \in Ephemeral,
         NEW r \in Keys, NEW s \in Keys, NEW m \in Msgs, NEW j \in Junk,
         EncryptMemoData(e, r, s, m, j)
  PROVE  HonestShape' /\ ScansFaithful'
<1> DEFINE secretPub == StealthPub(e, PubKey(r))
           out == [owner |-> Address(secretPub),
                   one_time_key |-> PubKey(e),
                   encrypted_memo_data |->
                      AesEncrypt(SharedSecret(e, PubKey(r)),
                                 MemoData(m, j, s, s, secretPub)),
                   to |-> r, author |-> s, sent |-> m, kind |-> "encrypt",
                   knows |-> {s, e}]
<1>1. chain' = Append(chain, out) /\ scans' = scans /\ Len(m) <= MemoCap
  BY DEF EncryptMemoData
<1>2. Honest(out, e, s, j)
  BY <1>1 DEF Honest
<1>. QED
  BY <1>1, <1>2, AppendRT

LEMMA ForgedRT ==
  ASSUME TypeOK, HonestShape, ScansFaithful, NEW a, NEW e, NEW r, NEW c,
         NEW x, NEW y, NEW m, NEW j, PostForged(a, e, r, c, x, y, m, j)
  PROVE  HonestShape' /\ ScansFaithful'
<1>1. \E out : /\ chain' = Append(chain, out) /\ scans' = scans
               /\ out.kind = "forged"
  BY DEF PostForged
<1>. QED
  BY <1>1, AppendRT

LEMMA CopyRT ==
  ASSUME TypeOK, HonestShape, ScansFaithful, NEW a, NEW idx, NEW m, NEW j,
         PostCopy(a, idx, m, j)
  PROVE  HonestShape' /\ ScansFaithful'
<1>1. \E out : /\ chain' = Append(chain, out) /\ scans' = scans
               /\ out.kind = "copy"
  BY DEF PostCopy
<1>. QED
  BY <1>1, AppendRT

LEMMA DecryptRT ==
  ASSUME TypeOK, HonestShape, ScansFaithful, NEW k \in Keys,
         NEW idx \in 1..Len(chain), DecryptMemoData(k, idx)
  PROVE  HonestShape' /\ ScansFaithful'
<1>1. UNCHANGED chain
  BY DEF DecryptMemoData
<1>2. HonestShape'
  BY <1>1 DEF HonestShape
<1>3. scans' = scans \cup {[key |-> k, idx |-> idx,
                           status |-> DecryptStatus(k, chain[idx])]}
  BY DEF DecryptMemoData, DecryptStatus
<1>4. ScansFaithful'
  BY <1>1, <1>3 DEF ScansFaithful
<1>. QED
  BY <1>2, <1>4

\* Every step keeps the round-trip invariant.
LEMMA RTStep == RTInv /\ [Next]_vars => RTInv'
<1> SUFFICES ASSUME RTInv, [Next]_vars PROVE RTInv'
  OBVIOUS
<1>0. /\ TypeOK /\ HonestShape /\ ScansFaithful
      /\ AuthInv'
  BY AuthStep DEF RTInv, AuthInv, DiscoveryInv
<1>1. CASE \E e \in Ephemeral, r, s \in Keys, m \in Msgs, j \in Junk :
             EncryptMemoData(e, r, s, m, j)
  BY <1>0, <1>1, EncryptRT DEF RTInv
<1>2. CASE \E k \in Keys, idx \in 1..Len(chain) : DecryptMemoData(k, idx)
  BY <1>0, <1>2, DecryptRT DEF RTInv
<1>3. CASE \E a, r \in Keys, e \in Ephemeral, m \in Msgs, j \in Junk :
             \E c \in Keys \cup {e}, x \in ForgerKeys(a, e, r) :
                \E y \in {PubKey(c), StealthPub(e, PubKey(r))} :
                   PostForged(a, e, r, c, x, y, m, j)
  BY <1>0, <1>3, ForgedRT DEF RTInv
<1>4. CASE \E a \in Keys, idx \in 1..Len(chain), m \in Msgs, j \in Junk :
             PostCopy(a, idx, m, j)
  BY <1>0, <1>4, CopyRT DEF RTInv
<1>5. CASE UNCHANGED vars
  <2>1. chain' = chain /\ scans' = scans
    BY <1>5 DEF vars
  <2>2. HonestShape'
    BY <2>1, <1>0 DEF HonestShape
  <2>3. ScansFaithful'
    BY <2>1, <1>0 DEF ScansFaithful
  <2>. QED
    BY <1>0, <2>2, <2>3 DEF RTInv
<1>. QED
  BY <1>1, <1>2, <1>3, <1>4, <1>5 DEF Next

\* Round trip of encrypt_memo_data in every reachable state: trial
\* decryption of a condition it made matches for its receiver, with a valid
\* check word and the message as the prefix of the buffer, and is a plain
\* no-match, never an exception, for every other key; forged and copied
\* conditions on the chain do not disturb it.
THEOREM RoundTripHolds == Spec => []RoundTrip
<1>1. Init => RTInv
  BY InitTypeOK, InitDiscovery, InitAuth, InitRT
     DEF RTInv, AuthInv, DiscoveryInv
<1>2. RTInv => RoundTrip
  <2> SUFFICES ASSUME RTInv PROVE RoundTrip
    OBVIOUS
  <2>1. ASSUME NEW sc \in scans, chain[sc.idx].kind = "encrypt"
        PROVE  sc.status = IF sc.key = chain[sc.idx].to THEN "match"
                                                      ELSE "no_match"
    <3>1. sc.idx \in 1..Len(chain)
      BY DEF RTInv, AuthInv, DiscoveryInv, TypeOK
    <3>2. PICK e \in Ephemeral, s \in Keys, j \in Junk :
             Honest(chain[sc.idx], e, s, j)
      BY <2>1, <3>1 DEF RTInv, HonestShape
    <3>3. DecryptStatus(sc.key, chain[sc.idx])
             = IF sc.key = chain[sc.idx].to THEN "match" ELSE "no_match"
      BY <3>2, HonestStatus
    <3>. QED
      BY <3>3 DEF RTInv, ScansFaithful
  <2>2. ASSUME NEW f \in found, chain[f.idx].kind = "encrypt"
        PROVE  /\ f.has_valid_signature
               /\ SubSeq(f.memo.message, 1, Len(chain[f.idx].sent))
                     = chain[f.idx].sent
    <3> DEFINE c == chain[f.idx]
               opk == f.owner_private_key
    <3>1. f.idx \in 1..Len(chain)
      BY DEF RTInv, AuthInv, DiscoveryInv, TypeOK
    <3>2. c \in Outputs
      BY <3>1, ElementOfSeq DEF RTInv, AuthInv, DiscoveryInv, TypeOK
    <3>3. PICK e \in Ephemeral, s \in Keys, j \in Junk : Honest(c, e, s, j)
      BY <2>2, <3>1 DEF RTInv, HonestShape
    <3> DEFINE sp == StealthPub(e, PubKey(c.to))
    <3>4. /\ f.memo = MemoData(c.sent, j, s, s, sp)
          /\ c.owner = Address(PubKey(opk))
          /\ f.has_valid_signature =
                (HashWord0(SharedSecret(opk, f.memo.from))
                   = f.memo.from_signature)
      BY <3>3 DEF RTInv, AuthInv, FoundFaithful, Honest, AesEncrypt
    <3>5. opk = sp.pub
      <4>1. Address(sp) = Address(PubKey(opk))
        BY <3>3, <3>4 DEF Honest
      <4>2. sp = PubKey(opk)
        BY <4>1 DEF Address
      <4>. QED
        BY <4>2 DEF PubKey
    <3>6. f.has_valid_signature
      <4>1. /\ f.memo.from = PubKey(s)
            /\ f.memo.from_signature = HashWord0({s, sp.pub})
        BY <3>4 DEF MemoData, SharedSecret
      <4>2. HashWord0(SharedSecret(opk, f.memo.from)) = HashWord0({opk, s})
        BY <4>1 DEF SharedSecret, PubKey
      <4>3. {opk, s} = {s, sp.pub}
        BY <3>5
      <4>. QED
        BY <3>4, <4>1, <4>2, <4>3
    <3>7. SubSeq(f.memo.message, 1, Len(c.sent)) = c.sent
      <4>1. c.sent \in Msgs /\ Len(c.sent) <= MemoCap
        BY <3>2, <3>3 DEF Outputs, Honest
      <4>. QED
        BY <3>4, <4>1, SetMessagePrefix DEF MemoData
    <3>. QED
      BY <3>6, <3>7
  <2>. QED
    BY <2>1, <2>2 DEF RoundTrip
<1>. QED
  BY <1>1, <1>2, RTStep, PTL DEF Spec


-----------------------------------------------------------------------------
(* Refinement of the mailbox.                                              *)

\* Every posted condition, whoever built it, carries a buffer that
\* memo_data::set_message filled from the message sent.
MsgShape ==
  \A i \in 1..Len(chain) :
     /\ Len(chain[i].sent) <= MemoCap
     /\ \E j \in Junk :
           chain[i].encrypted_memo_data.plain.message = SetMessage(chain[i].sent, j)

\* The inductive invariant behind MailboxRefinement.
MailInv == DiscoveryInv /\ MsgShape


\* The mailbox state the refinement mapping gives chain and found.
PostedOf(ch) == [i \in 1..Len(ch) |-> [to |-> ch[i].to, msg |-> ch[i].sent]]
DeliveredOf(ch, fd) ==
  {[key |-> f.key, idx |-> f.idx,
    msg |-> SubSeq(f.memo.message, 1, Len(ch[f.idx].sent))] : f \in fd}

\* Appending a condition appends its payment to the mailbox and leaves the
\* discoveries made so far as they were.
LEMMA PostedAppend ==
  ASSUME NEW ch \in Seq(Outputs), NEW out \in Outputs, NEW fd,
         \A f \in fd : f.idx \in 1..Len(ch)
  PROVE  /\ PostedOf(Append(ch, out))
              = Append(PostedOf(ch), [to |-> out.to, msg |-> out.sent])
         /\ DeliveredOf(Append(ch, out), fd) = DeliveredOf(ch, fd)
<1>1. /\ Len(ch) \in Nat
      /\ Len(Append(ch, out)) = Len(ch) + 1
      /\ \A i \in 1..Len(ch) : Append(ch, out)[i] = ch[i]
      /\ Append(ch, out)[Len(ch) + 1] = out
  BY AppendProperties, LenProperties
<1>2. PostedOf(ch) \in Seq([to: Keys, msg: Msgs])
  <2>1. \A i \in 1..Len(ch) : ch[i] \in Outputs
    BY ElementOfSeq
  <2>. QED
    BY <1>1, <2>1, IsASeq DEF PostedOf, Outputs
<1>3. /\ Len(PostedOf(ch)) = Len(ch)
      /\ \A i \in 1..Len(ch) : PostedOf(ch)[i] = [to |-> ch[i].to, msg |-> ch[i].sent]
  BY <1>1, <1>2, LenProperties DEF PostedOf
<1>4. [to |-> out.to, msg |-> out.sent] \in [to: Keys, msg: Msgs]
  BY DEF Outputs
<1>5. PostedOf(Append(ch, out))
         = Append(PostedOf(ch), [to |-> out.to, msg |-> out.sent])
  <2> DEFINE p == [to |-> out.to, msg |-> out.sent]
  <2>1. /\ Append(PostedOf(ch), p) \in Seq([to: Keys, msg: Msgs])
        /\ Len(Append(PostedOf(ch), p)) = Len(ch) + 1
        /\ \A i \in 1..Len(ch) : Append(PostedOf(ch), p)[i] = PostedOf(ch)[i]
        /\ Append(PostedOf(ch), p)[Len(ch) + 1] = p
    BY <1>2, <1>3, <1>4, AppendProperties
  <2>2. DOMAIN Append(PostedOf(ch), p) = 1..Len(ch) + 1
    BY <2>1, LenProperties
  <2>. QED
    BY <1>1, <1>3, <2>1, <2>2 DEF PostedOf
<1>6. DeliveredOf(Append(ch, out), fd) = DeliveredOf(ch, fd)
  BY <1>1 DEF DeliveredOf
<1>. QED
  BY <1>5, <1>6

\* A condition appended to a typed chain that stays typed is an output.
LEMMA PostedOutput ==
  ASSUME TypeOK, TypeOK', NEW out, chain' = Append(chain, out)
  PROVE  out \in Outputs
<1>1. /\ chain \in Seq(Outputs \cup {out})
      /\ Len(chain) \in Nat
  BY SeqMonotonic, LenProperties DEF TypeOK
<1>2. /\ Len(chain') = Len(chain) + 1
      /\ chain'[Len(chain) + 1] = out
  BY <1>1, AppendProperties
<1>. QED
  BY <1>1, <1>2, ElementOfSeq DEF TypeOK

\* A posting step keeps MsgShape and is a Post of the mailbox.
LEMMA PostMail ==
  ASSUME TypeOK, MsgShape, NEW out \in Outputs, NEW j \in Junk,
         chain' = Append(chain, out), UNCHANGED <<scans, found>>,
         Len(out.sent) <= MemoCap,
         out.encrypted_memo_data.plain.message = SetMessage(out.sent, j)
  PROVE  MsgShape' /\ Mail!Post(out.to, out.sent)
<1>1. /\ Len(chain) \in Nat
      /\ Len(chain') = Len(chain) + 1
      /\ \A i \in 1..Len(chain) : chain'[i] = chain[i]
      /\ chain'[Len(chain) + 1] = out
  BY AppendProperties, LenProperties DEF TypeOK
<1>2. MsgShape'
  <2> SUFFICES ASSUME NEW i \in 1..Len(chain')
               PROVE  /\ Len(chain'[i].sent) <= MemoCap
                      /\ \E jj \in Junk :
                            chain'[i].encrypted_memo_data.plain.message
                               = SetMessage(chain'[i].sent, jj)
    BY DEF MsgShape
  <2>1. CASE i \in 1..Len(chain)
    BY <1>1, <2>1 DEF MsgShape
  <2>2. CASE i = Len(chain) + 1
    BY <1>1, <2>2
  <2>. QED
    BY <1>1, <2>1, <2>2
<1>3. /\ PostedOf(chain') = Append(PostedOf(chain), [to |-> out.to, msg |-> out.sent])
      /\ DeliveredOf(chain', found') = DeliveredOf(chain, found)
  BY PostedAppend DEF TypeOK
<1>. QED
  BY <1>2, <1>3 DEF Mail!Post, PostedOf, DeliveredOf


\* A trial decryption keeps MsgShape, and either leaves the mailbox alone or
\* is a Deliver of it: a match adds the memo_status of the receiver, whose
\* buffer starts with the message posted.
LEMMA DecryptMail ==
  ASSUME TypeOK, MsgShape, DiscoverySound', NEW k \in Keys,
         NEW idx \in 1..Len(chain), DecryptMemoData(k, idx)
  PROVE  MsgShape' /\ [Mail!Next]_Mail!mailVars
<1> DEFINE c == chain[idx]
           secretPriv == SecretPrivateKey(k, c)
<1>1. UNCHANGED chain
  BY DEF DecryptMemoData
<1>2. MsgShape'
  BY <1>1 DEF MsgShape
<1>3. CASE UNCHANGED found
  <2>1. UNCHANGED <<PostedOf(chain), DeliveredOf(chain, found)>>
    BY <1>1, <1>3
  <2>. QED
    BY <1>2, <2>1 DEF Mail!mailVars, PostedOf, DeliveredOf
<1>4. CASE ~UNCHANGED found
  <2>1. PICK b \in BOOLEAN :
           found' = found \cup
              {[key |-> k, idx |-> idx, memo |-> c.encrypted_memo_data.plain,
                has_valid_signature |-> b, owner_private_key |-> secretPriv]}
    BY <1>4 DEF DecryptMemoData
  <2> DEFINE nf == [key |-> k, idx |-> idx, memo |-> c.encrypted_memo_data.plain,
                    has_valid_signature |-> b, owner_private_key |-> secretPriv]
  <2>2. k = c.to
    <3>1. nf \in found'
      BY <2>1
    <3>2. nf.key = chain'[nf.idx].to
      BY <3>1 DEF DiscoverySound
    <3>. QED
      BY <1>1, <3>2
  <2>3. SubSeq(c.encrypted_memo_data.plain.message, 1, Len(c.sent)) = c.sent
    <3>1. c \in Outputs
      BY ElementOfSeq DEF TypeOK
    <3>2. PICK j \in Junk :
             /\ Len(c.sent) <= MemoCap
             /\ c.encrypted_memo_data.plain.message = SetMessage(c.sent, j)
      BY DEF MsgShape
    <3>. QED
      BY <3>1, <3>2, SetMessagePrefix DEF Outputs
  <2>4. DeliveredOf(chain', found')
           = DeliveredOf(chain, found) \cup {[key |-> k, idx |-> idx, msg |-> c.sent]}
    <3>1. DeliveredOf(chain', found') = DeliveredOf(chain, found \cup {nf})
      BY <1>1, <2>1
    <3>2. DeliveredOf(chain, found \cup {nf})
             = DeliveredOf(chain, found) \cup
                 {[key |-> nf.key, idx |-> nf.idx,
                   msg |-> SubSeq(nf.memo.message, 1, Len(chain[nf.idx].sent))]}
      BY DEF DeliveredOf
    <3>3. [key |-> nf.key, idx |-> nf.idx,
           msg |-> SubSeq(nf.memo.message, 1, Len(chain[nf.idx].sent))]
            = [key |-> k, idx |-> idx, msg |-> c.sent]
      BY <2>3
    <3>. QED
      BY <3>1, <3>2, <3>3
  <2>5. /\ idx \in 1..Len(PostedOf(chain))
        /\ PostedOf(chain)[idx] = [to |-> c.to, msg |-> c.sent]
    BY LenProperties DEF PostedOf, TypeOK
  <2>6. Mail!Deliver(k, idx)
    BY <1>1, <2>2, <2>4, <2>5 DEF Mail!Deliver, PostedOf, DeliveredOf
  <2>. QED
    BY <1>2, <2>5, <2>6 DEF Mail!Next, PostedOf
<1>. QED
  BY <1>3, <1>4

\* Every step keeps MailInv and maps to a step of the mailbox or to a
\* stutter.
LEMMA MailStep == MailInv /\ [Next]_vars => MailInv' /\ [Mail!Next]_Mail!mailVars
<1> SUFFICES ASSUME MailInv, [Next]_vars
             PROVE  MailInv' /\ [Mail!Next]_Mail!mailVars
  OBVIOUS
<1>0. /\ TypeOK /\ MsgShape /\ DiscoveryInv'
      /\ TypeOK' /\ DiscoverySound'
  BY DiscoveryStep DEF MailInv, DiscoveryInv
<1>1. CASE \E e \in Ephemeral, r, s \in Keys, m \in Msgs, j \in Junk :
             EncryptMemoData(e, r, s, m, j)
  <2>1. PICK e \in Ephemeral, r \in Keys, s \in Keys, m \in Msgs, j \in Junk :
           EncryptMemoData(e, r, s, m, j)
    BY <1>1
  <2>2. PICK out : /\ chain' = Append(chain, out) /\ UNCHANGED <<scans, found>>
                   /\ Len(out.sent) <= MemoCap
                   /\ out.encrypted_memo_data.plain.message = SetMessage(out.sent, j)
                   /\ out.to = r /\ out.sent = m
    BY <2>1 DEF EncryptMemoData, AesEncrypt, MemoData
  <2>3. out \in Outputs
    BY <1>0, <2>2, PostedOutput
  <2>4. MsgShape' /\ Mail!Post(r, m)
    BY <1>0, <2>2, <2>3, PostMail
  <2>. QED
    BY <1>0, <2>4 DEF MailInv, Mail!Next
<1>2. CASE \E k \in Keys, idx \in 1..Len(chain) : DecryptMemoData(k, idx)
  BY <1>0, <1>2, DecryptMail DEF MailInv
<1>3. CASE \E a, r \in Keys, e \in Ephemeral, m \in Msgs, j \in Junk :
             \E c \in Keys \cup {e}, x \in ForgerKeys(a, e, r) :
                \E y \in {PubKey(c), StealthPub(e, PubKey(r))} :
                   PostForged(a, e, r, c, x, y, m, j)
  <2>1. PICK a \in Keys, r \in Keys, e \in Ephemeral, m \in Msgs, j \in Junk :
           \E c \in Keys \cup {e}, x \in ForgerKeys(a, e, r) :
              \E y \in {PubKey(c), StealthPub(e, PubKey(r))} :
                 PostForged(a, e, r, c, x, y, m, j)
    BY <1>3
  <2>2. PICK c, x, y : PostForged(a, e, r, c, x, y, m, j)
    BY <2>1
  <2>3. PICK out : /\ chain' = Append(chain, out) /\ UNCHANGED <<scans, found>>
                   /\ Len(out.sent) <= MemoCap
                   /\ out.encrypted_memo_data.plain.message = SetMessage(out.sent, j)
                   /\ out.to = r /\ out.sent = m
    BY <2>2 DEF PostForged, AesEncrypt, MemoData
  <2>4. out \in Outputs
    BY <1>0, <2>3, PostedOutput
  <2>5. MsgShape' /\ Mail!Post(r, m)
    BY <1>0, <2>3, <2>4, PostMail
  <2>. QED
    BY <1>0, <2>5 DEF MailInv, Mail!Next
<1>4. CASE \E a \in Keys, idx \in 1..Len(chain), m \in Msgs, j \in Junk :
             PostCopy(a, idx, m, j)
  <2>1. PICK a \in Keys, idx \in 1..Len(chain), m \in Msgs, j \in Junk :
           PostCopy(a, idx, m, j)
    BY <1>4
  <2>2. PICK out : /\ chain' = Append(chain, out) /\ UNCHANGED <<scans, found>>
                   /\ Len(out.sent) <= MemoCap
                   /\ out.encrypted_memo_data.plain.message = SetMessage(out.sent, j)
                   /\ out.to = chain[idx].to /\ out.sent = m
    BY <2>1 DEF PostCopy, AesEncrypt, MemoData
  <2>3. out \in Outputs
    BY <1>0, <2>2, PostedOutput
  <2>4. MsgShape' /\ Mail!Post(out.to, m)
    BY <1>0, <2>2, <2>3, PostMail
  <2>5. out.to \in Keys
    BY <2>3 DEF Outputs
  <2>. QED
    BY <1>0, <2>4, <2>5 DEF MailInv, Mail!Next
<1>5. CASE UNCHANGED vars
  <2>1. chain' = chain /\ found' = found
    BY <1>5 DEF vars
  <2>2. MsgShape'
    BY <2>1, <1>0 DEF MsgShape
  <2>3. UNCHANGED <<PostedOf(chain), DeliveredOf(chain, found)>>
    BY <2>1
  <2>. QED
    BY <1>0, <2>2, <2>3 DEF MailInv, Mail!mailVars, PostedOf, DeliveredOf
<1>. QED
  BY <1>1, <1>2, <1>3, <1>4, <1>5 DEF Next

\* TITAN implements the mailbox of section 4.3, for every set of keys,
\* messages and buffer size: each posting is a Post of the payment to the
\* receiver aimed at, each memo_status returned is a Deliver to that
\* receiver of the message posted, and nothing else changes the mailbox.
THEOREM ImplementsMailbox == Spec => MailboxRefinement
<1>1. Init => MailInv
  BY InitTypeOK, InitDiscovery DEF Init, MailInv, DiscoveryInv, MsgShape
<1>2. Init => Mail!Init
  <2> SUFFICES ASSUME Init PROVE Mail!Init
    OBVIOUS
  <2>1. PostedOf(chain) = << >> /\ DeliveredOf(chain, found) = {}
    BY DEF Init, PostedOf, DeliveredOf
  <2>. QED
    BY <2>1 DEF Mail!Init, PostedOf, DeliveredOf
<1>. QED
  BY <1>1, <1>2, MailStep, PTL DEF Spec, MailboxRefinement, Mail!Spec


\* The mailbox's theorems, read through the same refinement mapping.
MP == INSTANCE MailboxProofs
        WITH Receivers <- Keys, Messages <- Msgs,
             posted <- [i \in 1..Len(chain) |->
                          [to |-> chain[i].to, msg |-> chain[i].sent]],
             delivered <- {[key |-> f.key, idx |-> f.idx,
                            msg |-> SubSeq(f.memo.message, 1,
                                           Len(chain[f.idx].sent))] :
                           f \in found}

\* No false positives in TITAN, for every kind of condition: every
\* memo_status decrypt_memo_data returned went to the receiver the
\* condition was aimed at, and its buffer starts with the message posted,
\* however many conditions were posted since.  It follows from the
\* refinement and the mailbox's own invariant.
THEOREM DeliveriesFaithful == Spec => []Mail!DeliveredFaithful
<1>1. MailboxRefinement => MP!Spec
  BY DEF MailboxRefinement, Mail!Spec, MP!Spec, Mail!Init, MP!Init,
     Mail!Next, MP!Next, Mail!Post, MP!Post, Mail!Deliver, MP!Deliver,
     Mail!mailVars, MP!mailVars
<1>2. MP!DeliveredFaithful <=> Mail!DeliveredFaithful
  BY DEF MP!DeliveredFaithful, Mail!DeliveredFaithful
<1>. QED
  BY <1>1, <1>2, ImplementsMailbox, MP!NoFalsePositives, PTL

=============================================================================
