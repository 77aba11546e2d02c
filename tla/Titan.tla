------------------------------- MODULE Titan -------------------------------
(***************************************************************************)
(* TITAN stealth payments: withdraw_by_name::encrypt_memo_data and         *)
(* withdraw_by_name::decrypt_memo_data of                                  *)
(* src/libraries/blockchain/withdraw_types.cpp.                            *)
(*                                                                         *)
(* Senders post withdraw_by_name conditions on the chain; wallets          *)
(* trial-decrypt every posted condition with every key they hold.  The    *)
(* cryptography is symbolic: a private key is a model value (or a record  *)
(* for a derived child key), ECDH gives the unordered pair of the two      *)
(* private keys (so it is symmetric, as ECDH is), hashes, addresses and    *)
(* AES ciphertexts are tagged records (so they are injective, and a        *)
(* ciphertext opens only under the key it was made with).  The chain       *)
(* content is adversarial: besides the code's encrypt_memo_data, any       *)
(* party may post a condition it assembles from what it knows.             *)
(***************************************************************************)
EXTENDS Naturals, Sequences

CONSTANTS
  Keys,        \* long-term private keys of the wallets
  Ephemeral,   \* one-time private keys (fc::ecc::private_key::generate())
  Msgs,        \* memo messages callers pass, as byte sequences
  Junk,        \* byte values an uninitialised memo_data::message may hold
  MemoCap,     \* sizeof( memo_data::message )
  MaxOutputs   \* bound on the number of conditions posted

\* memo_data::get_message always returns this many bytes (line 31).
SliceLen == 20

\* The byte values a memo buffer can hold.
ByteVals == (UNION {{m[n] : n \in 1..Len(m)} : m \in Msgs}) \cup Junk

ASSUME MsgsAssumption == Msgs \subseteq Seq(ByteVals)
ASSUME KeysAssumption == Keys # {} /\ Keys \cap Ephemeral = {}
ASSUME CapAssumption == MemoCap \in Nat /\ SliceLen <= MemoCap
ASSUME BoundAssumption == MaxOutputs \in Nat

VARIABLES
  chain,   \* the withdraw_by_name conditions posted, in order
  scans,   \* [key, idx, status] for every (key, condition) trial-decrypted
  found    \* the memo_status records decrypt_memo_data returned

vars == <<chain, scans, found>>

-----------------------------------------------------------------------------
(* Symbolic cryptography.                                                  *)

\* private_key::get_public_key
PubKey(k) == [pub |-> k]

\* private_key::get_shared_secret( public_key ): ECDH, symmetric in the two
\* keys by construction.
SharedSecret(k, P) == {k, P.pub}

\* fc::sha256::hash
Sha256(x) == [sha256 |-> x]

DerivationModes == {"public_derivation", "private_derivation"}

\* extended_private_key::child( index, mode ): the child private key.
ChildKey(k, index, mode) == [parent |-> k, index |-> index, mode |-> mode]

\* extended_public_key::child( index ).get_pub_key(): public (non-hardened)
\* derivation from the parent public key gives the public key of the child
\* that private derivation in public_derivation mode gives.
ExtPubChild(P, index) == PubKey(ChildKey(P.pub, index, "public_derivation"))

\* address( public_key )
Address(P) == [addr |-> P]

\* fc::aes_encrypt( secret, fc::raw::pack( memo ) )
AesEncrypt(key, plain) == [aesKey |-> key, plain |-> plain]

\* check_secret._hash[0]: the first 64-bit word of the shared-secret hash.
HashWord0(secret) == [hash0 |-> secret]

-----------------------------------------------------------------------------
(* memo_data                                                               *)

\* The message buffer after memo_data::set_message( m ) on a default-built
\* memo_data: the bytes of m, then the buffer's uninitialised remainder
\* (one junk value repeated: the model does not tell bytes of junk apart).
\* Mutant: the remainder one byte too long.
SetMessageOverrun(m, j) == m \o [n \in 1..(MemoCap - Len(m) + 1) |-> j]

SetMessage(m, j) == m \o [n \in 1..(MemoCap - Len(m)) |-> j]

\* memo_data::get_message
GetMessage(memo) == SubSeq(memo.message, 1, SliceLen)

\* The memo a holder of private key x builds claiming sender key c; the
\* honest code has c = x = from_private_key.
MemoData(m, j, c, x, secretPub) ==
  [message |-> SetMessage(m, j),
   from |-> PubKey(c),
   from_signature |-> HashWord0(SharedSecret(x, secretPub))]

-----------------------------------------------------------------------------
(* The protocol.                                                           *)

\* The one-time owner key a sender derives: steps 1-2 of encrypt.
StealthPub(e, R) == ExtPubChild(R, Sha256(SharedSecret(e, R)))

\* withdraw_by_name::encrypt_memo_data( one_time_private_key e,
\* to_public_key PubKey(r), from_private_key s, memo_message m ), and the
\* posting of the condition.  Fields to, author, sent and knows are history:
\* the receiver aimed at, the author, the message passed and the private
\* keys the author holds.  FC_ASSERT in set_message throws for a message
\* longer than the buffer: nothing is posted.
EncryptMemoData(e, r, s, m, j) ==
  LET secret    == SharedSecret(e, PubKey(r))
      secretPub == StealthPub(e, PubKey(r))
      memo      == MemoData(m, j, s, s, secretPub)
  IN  /\ Len(chain) < MaxOutputs
      /\ Len(m) <= MemoCap
      /\ chain' = Append(chain,
                    [owner |-> Address(secretPub),
                     one_time_key |-> PubKey(e),
                     encrypted_memo_data |-> AesEncrypt(secret, memo),
                     to |-> r, author |-> s, sent |-> m, kind |-> "encrypt",
                     knows |-> {s, e}])
      /\ UNCHANGED <<scans, found>>

\* Mutant: the receiver derives in private (hardened) mode.
SecretPrivateKeyHardened(k, c) ==
  ChildKey(k, Sha256(SharedSecret(k, c.one_time_key)), "private_derivation")

\* The key withdraw_by_name::decrypt_memo_data( k ) derives for condition c.
SecretPrivateKey(k, c) ==
  ChildKey(k, Sha256(SharedSecret(k, c.one_time_key)), "public_derivation")

\* Mutant: the owner check of line 54 dropped.
DecryptMemoDataNoOwnerCheck(k, idx) ==
  LET c          == chain[idx]
      secret     == SharedSecret(k, c.one_time_key)
      secretPriv == SecretPrivateKey(k, c)
      memo       == c.encrypted_memo_data.plain
  IN  \/ /\ c.encrypted_memo_data.aesKey # secret
         /\ scans' = scans \cup {[key |-> k, idx |-> idx, status |-> "error"]}
         /\ UNCHANGED <<chain, found>>
      \/ /\ c.encrypted_memo_data.aesKey = secret
         /\ scans' = scans \cup {[key |-> k, idx |-> idx, status |-> "match"]}
         /\ found' = found \cup
              {[key |-> k, idx |-> idx, memo |-> memo,
                has_valid_signature |->
                  HashWord0(SharedSecret(secretPriv, memo.from)) = memo.from_signature,
                owner_private_key |-> secretPriv]}
         /\ UNCHANGED chain

\* Mutant: the check secret computed against the one-time key instead of
\* the claimed sender key memo.from.
DecryptMemoDataCheckOneTimeKey(k, idx) ==
  LET c          == chain[idx]
      secret     == SharedSecret(k, c.one_time_key)
      secretPriv == SecretPrivateKey(k, c)
      memo       == c.encrypted_memo_data.plain
  IN  \/ /\ c.owner # Address(PubKey(secretPriv))
         /\ scans' = scans \cup {[key |-> k, idx |-> idx, status |-> "no_match"]}
         /\ UNCHANGED <<chain, found>>
      \/ /\ c.owner = Address(PubKey(secretPriv))
         /\ c.encrypted_memo_data.aesKey # secret
         /\ scans' = scans \cup {[key |-> k, idx |-> idx, status |-> "error"]}
         /\ UNCHANGED <<chain, found>>
      \/ /\ c.owner = Address(PubKey(secretPriv))
         /\ c.encrypted_memo_data.aesKey = secret
         /\ scans' = scans \cup {[key |-> k, idx |-> idx, status |-> "match"]}
         /\ found' = found \cup
              {[key |-> k, idx |-> idx, memo |-> memo,
                has_valid_signature |->
                  HashWord0(SharedSecret(secretPriv, c.one_time_key)) = memo.from_signature,
                owner_private_key |-> secretPriv]}
         /\ UNCHANGED chain

\* withdraw_by_name::decrypt_memo_data( receiver_key k ) on the idx-th
\* condition.  An owner mismatch returns an empty omemo_status; a
\* ciphertext made under another key makes aes_decrypt or unpack throw,
\* rethrown by FC_RETHROW_EXCEPTIONS.
DecryptMemoData(k, idx) ==
  LET c          == chain[idx]
      secret     == SharedSecret(k, c.one_time_key)
      secretPriv == SecretPrivateKey(k, c)
      memo       == c.encrypted_memo_data.plain
  IN  \/ /\ c.owner # Address(PubKey(secretPriv))
         /\ scans' = scans \cup {[key |-> k, idx |-> idx, status |-> "no_match"]}
         /\ UNCHANGED <<chain, found>>
      \/ /\ c.owner = Address(PubKey(secretPriv))
         /\ c.encrypted_memo_data.aesKey # secret
         /\ scans' = scans \cup {[key |-> k, idx |-> idx, status |-> "error"]}
         /\ UNCHANGED <<chain, found>>
      \/ /\ c.owner = Address(PubKey(secretPriv))
         /\ c.encrypted_memo_data.aesKey = secret
         /\ scans' = scans \cup {[key |-> k, idx |-> idx, status |-> "match"]}
         /\ found' = found \cup
              {[key |-> k, idx |-> idx, memo |-> memo,
                has_valid_signature |->
                  HashWord0(SharedSecret(secretPriv, memo.from)) = memo.from_signature,
                owner_private_key |-> secretPriv]}
         /\ UNCHANGED chain

-----------------------------------------------------------------------------
(* The environment: conditions not made by encrypt_memo_data.              *)

\* Author a, with ephemeral key e, aims a condition at r but builds the memo
\* itself: it claims sender key c and makes the check word as the ECDH of
\* a private key x it holds (its own, the ephemeral, or, when it is the
\* receiver, the derived one-time key) with a public key y.  Only two
\* choices of y can make a check word some decryption accepts: the claimed
\* sender key and the owner key secret_pub (decryption pairs one with the
\* private half of the other); any other y gives a check word that never
\* validates, which the model leaves out.
PostForged(a, e, r, c, x, y, m, j) ==
  LET secret    == SharedSecret(e, PubKey(r))
      secretPub == StealthPub(e, PubKey(r))
      child     == ChildKey(r, Sha256(secret), "public_derivation")
      known     == {a, e} \cup (IF a = r THEN {child} ELSE {})
  IN  /\ Len(chain) < MaxOutputs
      /\ Len(m) <= MemoCap
      /\ x \in known
      /\ chain' = Append(chain,
                    [owner |-> Address(secretPub),
                     one_time_key |-> PubKey(e),
                     encrypted_memo_data |->
                        AesEncrypt(secret, MemoData(m, j, c, x, y)),
                     to |-> r, author |-> a, sent |-> m, kind |-> "forged",
                     knows |-> known])
      /\ UNCHANGED <<scans, found>>

\* Author a copies the owner and one_time_key of the idx-th condition and
\* attaches a memo of its own, encrypted under the secret it can compute.
PostCopy(a, idx, m, j) ==
  LET c         == chain[idx]
      secret    == SharedSecret(a, c.one_time_key)
      secretPub == PubKey(ChildKey(a, Sha256(secret), "public_derivation"))
      known     == {a} \cup (IF a = c.to THEN {secretPub.pub} ELSE {})
  IN  /\ Len(chain) < MaxOutputs
      /\ Len(m) <= MemoCap
      /\ chain' = Append(chain,
                    [owner |-> c.owner,
                     one_time_key |-> c.one_time_key,
                     encrypted_memo_data |->
                        AesEncrypt(secret, MemoData(m, j, a, a, secretPub)),
                     to |-> c.to, author |-> a, sent |-> m, kind |-> "copy",
                     knows |-> known])
      /\ UNCHANGED <<scans, found>>

-----------------------------------------------------------------------------

\* The private keys a forger may use for the check word: its own, the
\* ephemeral, and the receiver's derived one-time key.
ForgerKeys(a, e, r) ==
  {a, e, ChildKey(r, Sha256(SharedSecret(e, PubKey(r))), "public_derivation")}

Init ==
  /\ chain = <<>>
  /\ scans = {}
  /\ found = {}

Next ==
  \/ \E e \in Ephemeral, r, s \in Keys, m \in Msgs, j \in Junk :
        EncryptMemoData(e, r, s, m, j)
  \/ \E k \in Keys, idx \in 1..Len(chain) : DecryptMemoData(k, idx)
  \/ \E a, r \in Keys, e \in Ephemeral, m \in Msgs, j \in Junk :
        \E c \in Keys \cup {e}, x \in ForgerKeys(a, e, r) :
           \E y \in {PubKey(c), StealthPub(e, PubKey(r))} :
              PostForged(a, e, r, c, x, y, m, j)
  \/ \E a \in Keys, idx \in 1..Len(chain), m \in Msgs, j \in Junk :
        PostCopy(a, idx, m, j)

Spec == Init /\ [][Next]_vars

-----------------------------------------------------------------------------
(* Types.                                                                  *)

ChildKeys == [parent: Keys, index: [sha256: SUBSET (Keys \cup Ephemeral)],
              mode: DerivationModes]
PrivKeys == Keys \cup Ephemeral \cup ChildKeys
PubKeys == [pub: PrivKeys]
Memos == [message: [1..MemoCap -> ByteVals], from: PubKeys,
          from_signature: [hash0: SUBSET PrivKeys]]
Outputs == [owner: [addr: PubKeys], one_time_key: [pub: Ephemeral],
            encrypted_memo_data: [aesKey: SUBSET PrivKeys, plain: Memos],
            to: Keys, author: Keys, sent: Msgs,
            kind: {"encrypt", "forged", "copy"}, knows: SUBSET PrivKeys]

\* The type invariant: every posted condition has a full memo buffer.
TypeOK ==
  /\ chain \in Seq(Outputs)
  /\ Len(chain) <= MaxOutputs
  /\ scans \subseteq [key: Keys, idx: 1..Len(chain),
                      status: {"no_match", "error", "match"}]
  /\ found \subseteq [key: Keys, idx: 1..Len(chain), memo: Memos,
                      has_valid_signature: BOOLEAN, owner_private_key: ChildKeys]

-----------------------------------------------------------------------------
(* Properties.                                                             *)

\* Discovery is sound: decrypt_memo_data returns a memo_status only to the
\* key the condition's owner address was derived for, whoever built the
\* condition (encrypt_memo_data, a forger, or a copier reusing another
\* condition's owner and one_time_key).  This rests on the owner check of
\* decrypt_memo_data and on public and private derivation agreeing.
DiscoverySound == \A f \in found : f.key = chain[f.idx].to

\* Round trip of encrypt_memo_data: trial decryption of a condition it made
\* yields a match, never an exception, for the receiver it was made for,
\* and a plain no-match for every other key; the match carries a valid
\* from_signature and a buffer that starts with the message sent.
RoundTrip ==
  /\ \A s \in scans : chain[s.idx].kind = "encrypt" =>
        s.status = IF s.key = chain[s.idx].to THEN "match" ELSE "no_match"
  /\ \A f \in found : chain[f.idx].kind = "encrypt" =>
        /\ f.has_valid_signature
        /\ SubSeq(f.memo.message, 1, Len(chain[f.idx].sent)) = chain[f.idx].sent

\* The check word authenticates what section 4.3 step 5 says it does: when
\* decrypt_memo_data reports has_valid_signature, the author of the
\* condition could compute the shared secret of the one-time private key
\* secret_priv and the claimed sender key memo.from, that is, it held one
\* of the two private keys, whatever it claimed and whichever keys it used.
SignatureAuthentic ==
  \A f \in found : f.has_valid_signature =>
      \/ f.memo.from.pub \in chain[f.idx].knows
      \/ f.owner_private_key \in chain[f.idx].knows

\* The abstract mailbox of section 4.3.  A posted condition is the payment
\* to the receiver it was aimed at with the message passed; a memo_status
\* returned is the discovery of that payment by the scanning key, reading
\* the message as the leading bytes of the buffer, as many as were sent.
Mail == INSTANCE Mailbox
          WITH Receivers <- Keys, Messages <- Msgs,
               posted <- [i \in 1..Len(chain) |->
                            [to |-> chain[i].to, msg |-> chain[i].sent]],
               delivered <- {[key |-> f.key, idx |-> f.idx,
                              msg |-> SubSeq(f.memo.message, 1,
                                             Len(chain[f.idx].sent))] :
                             f \in found}

\* TITAN implements the mailbox: whoever posts what (encrypt_memo_data,
\* forgers, copiers of another condition's owner and one_time_key), a
\* condition never changes once posted, and decrypt_memo_data returns a
\* memo_status only to the condition's receiver, with the message posted
\* as the first bytes of the buffer.
MailboxRefinement == Mail!Spec

\* Section 8 of the spec: the message the receiver reads back with
\* get_message equals the message passed to encrypt_memo_data.
MessageRoundTrip ==
  \A f \in found : chain[f.idx].kind = "encrypt" =>
        GetMessage(f.memo) = chain[f.idx].sent

=============================================================================
