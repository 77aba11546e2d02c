# TLA+ models of the BitShares toolkit blockchain library

This directory holds TLA+ models of the parts of `src/` that have behaviour:
- the TITAN stealth-payment protocol;
- the JSON codec of withdraw conditions, with balance records;
- id allocation and the active-delegate list of `chain_interface`, with the atomic allocator of the spec that it implements;
- name validation (`name_record::is_valid_name`).

It also holds the TLC configurations that check the models on small instances, and TLAPS proofs, for every value of the constants, of every safety property the passing runs check.

## The system

`src/libraries/blockchain` defines the data a chain holds.

- **Withdraw conditions** (`withdraw_types.cpp`). A balance can be spent when its `withdraw_condition` is met. The condition holds `asset_id`, `delegate_id`, a `type` tag and `data`, which is the `fc::raw` packing of one of five payload variants: signature, multi_sig, password, option and by_name. `fc::to_variant` and `fc::from_variant` convert a condition to and from JSON. They are used by wallet export and by the RPC interface.
- **TITAN** (`withdraw_by_name`, lines 39-105).
  - The sender derives a one-time owner address from the receiver's public key and a fresh ephemeral key, `encrypt_memo_data`. It encrypts a memo carrying a 20-byte message, its own public key and a 64-bit check word.
  - A receiver scans the chain and calls `decrypt_memo_data` with each of its keys. It is returned a `memo_status` only for conditions whose owner it derived, and `has_valid_signature` tells whether the check word matches the claimed sender.
  - `memo_data::set_message` and `get_message` copy the message into and out of a fixed buffer.
- **Balance records and chain interface** (`chain_interface.cpp`).
  - `balance_record` wraps a signature condition.
  - `new_asset_id`, `new_name_id` and `new_proposal_id` allocate ids by reading the last id from the property store and writing it back plus one.
  - `set_active_delegates` replaces the delegate list.
  - Fees and `name_record::is_valid_name` are pure functions. The registration logic that calls `is_valid_name` is not in the repository.
- **Not behaviour.** `wallet/wallet.hpp` only declares the wallet class; its implementation is not in the repository. `net/config.hpp` holds three constants.

How the parts interact: a balance record's condition is a withdraw condition, and a by_name condition is produced by TITAN. The JSON codec carries both. Id allocation runs inside the chain database that stores them; the database itself is not in the repository.

What is hard to test here:
- trial decryption against adversarial chain content, such as forged memos and conditions whose owner and one-time key are copied from another output;
- the agreement of public and private child-key derivation;
- the 20-byte message buffer;
- the missing default case in the JSON decoder;
- the read-modify-write of the id counters under concurrent callers;
- the boundaries of the name predicate: the maximum size, the ends of each character range, and signed high bytes.

## Modules

| module | models | source |
|---|---|---|
| `Titan` | TITAN encrypt/decrypt, memo_data, memo_status | `withdraw_types.cpp` 15-105 |
| `Mailbox` | the abstract mailbox of spec section 4.3: payments posted to a receiver, discovered only by it | spec section 4.3 |
| `MailboxProofs` | TLAPS proof of the mailbox's own invariant | |
| `TitanProofs` | TLAPS proofs about `Titan`, the refinement of `Mailbox` included | |
| `MC_Titan` | the TITAN instance for TLC (messages of 2, 20 and 21 bytes, symmetry) | |
| `WithdrawCondition` | the condition JSON codec and balance_record | `withdraw_types.cpp` 9-13, 110-170; `chain_interface.cpp` 8-27 |
| `WithdrawConditionProofs` | TLAPS proofs about `WithdrawCondition` | |
| `ChainInterface` | new_*_id and set_active_delegates with concurrent callers | `chain_interface.cpp` 57-107 |
| `ChainInterfaceProofs` | TLAPS proofs about `ChainInterface` | |
| `MC_ChainInterface` | its TLC instance | |
| `Names` | `is_valid_name`, and the spec's name predicate | `chain_interface.cpp` 38-51 |
| `NamesProofs` | TLAPS proof that the two agree | |
| `MC_Names` | its TLC instance: the character codes at the range boundaries | |

### Titan

**Cryptography.** Cryptography is symbolic.
- A public key is `PubKey(k)`.
- The ECDH shared secret `SharedSecret(k, P)` is the unordered pair of the two private keys. This makes it symmetric, as ECDH is.
- Hashes, addresses, AES ciphertexts and the 64-bit check word are tagged records, so they are injective.
- `ChildKey(k, idx, mode)` stands for `extended_private_key::child`. `ExtPubChild` is `extended_public_key::child`, defined as the public key of the private child in `public_derivation` mode. This is the homomorphism the code relies on. Deriving in any other mode gives a different key (see the mutant `SecretPrivateKeyHardened`).

**State.**
- `chain` is the posted by_name conditions. Each carries history fields: intended receiver, author, message sent, how it was made, and the keys its author knew.
- `scans` is the result of every trial decryption.
- `found` is the `memo_status` values returned.

**Actions.**
- `EncryptMemoData(e, r, s, m, j)` is lines 69-94 with the posting of the condition. Its guard `Len(m) <= MemoCap` is the `FC_ASSERT` of `set_message`. The buffer tail of an uninitialised `memo_data` is a junk byte `j` chosen nondeterministically.
- `DecryptMemoData(k, idx)` is lines 39-66 (with 96-99). It has three outcomes:
  - the owner does not match (no_match);
  - `aes_decrypt` or `unpack` throws under a secret the ciphertext was not made with (error);
  - a `memo_status` is returned (match), with `has_valid_signature` computed as at line 62.
- `PostForged` and `PostCopy` are the environment: an attacker who posts a condition with any memo it can build from the keys it holds, or copies `owner` and `one_time_key` of an existing output under a fresh memo. They are not code of the repository, and the map does not list them.
- A forger claims any sender key `c` and makes the check word as the ECDH of a private key `x` it holds (its own, its ephemeral key, or, when it is the receiver, the derived one-time key) with a public key `y`. `y` is the claimed sender key or the owner key `secret_pub`: decryption hashes the pair of these two keys, so no other `y` can give a check word that validates. In particular a receiver who posts to itself holds `secret_priv` and can claim any sender, as real ECDH allows.

**Refinement.** `Mailbox` is what section 4.3 promises with the cryptography hidden:
- `Post(r, m)` appends a payment to receiver `r` carrying `m`.
- `Deliver(k, idx)` lets key `k` discover the `idx`-th payment only if it is addressed to `k`, and hands back its message.
- The mapping `Mail == INSTANCE Mailbox WITH ...` in `Titan` sends each posted condition to `[to, msg]`, its intended receiver and the message passed.
- Each `memo_status` maps to `[key, idx, msg]`, where `msg` is the first `Len(sent)` bytes of the decrypted buffer.
- `MailboxRefinement == Mail!Spec` says four things about every condition, whoever built it:
  - a posting is a `Post`;
  - a trial decryption that returns nothing is a stutter;
  - a match is a `Deliver` to the right receiver with the posted message;
  - a posted condition never changes afterwards.

### WithdrawCondition

- A packed payload is the one-element sequence `<<x>>`, and the empty byte vector is `<<>>`.
- `ToVariant` and `FromVariant` follow the two switches, including the missing default cases and the null case that leaves `vo.data` unchanged.
- The state is one balance record `rec`.
- `RoundTrip` exports the record and imports it into a fresh condition.
- `ImportJson(v)` imports hand-written JSON. It takes any type tag, unknown ones included, with a `data` member that `as<T>()` accepts.

### ChainInterface

- `new_*_id` is two steps:
  - `ReadLastId` computes `last_*_id() + 1` (lines 62-64);
  - `WriteNextId` does `set_property` and returns (lines 65-67).
- The code itself has no lock. The spec requires a single logical writer per chain state, and `writer` is that discipline: a caller takes it in the first step and releases it in the second.
- `issued` records the ids returned, as history.
- `SetActiveDelegates` is lines 98-101.
- Because of the lock, two allocations never interleave in a passing run: the non-atomic read-modify-write of lines 62-67 is assumed to be serialised by the caller, as spec section 5 requires, not checked. The mutant with a caller that skips the lock shows what the interleaving does: two callers get the same id.

### Names

- A character is its code. The code compares `char` values numerically against character literals, so a byte of 0x80 or more is a negative code where `char` is signed.
- `IsValidName` is lines 38-51. Each early `return false` is a conjunct, and the loop is a quantifier over the characters.
- `SpecValidName` is the predicate of spec section 4.4, stated over sets of characters instead of range comparisons.
- The state is the last string validated and the result. The inputs are enumerated as a walk over prefixes: each call passes the previous string extended by one character, or the empty string. This passes every string of up to `MaxLen` characters once, without an enumeration step over all strings.

## Runs

| run | cfg | expect | checks |
|---|---|---|---|
| titan | `MC_Titan.cfg` | pass (about 234k distinct states) | `TypeOK`, `DiscoverySound`, `RoundTrip`, `SignatureAuthentic` |
| titan_refinement | `MC_Titan_refinement.cfg` | pass (about 938k distinct states, 2.5 minutes) | `MailboxRefinement` |
| titan_message | `MC_Titan_message.cfg` | violation | `MessageRoundTrip` |
| chain_ids | `MC_ChainInterface.cfg` | pass (about 5k states) | `TypeOK`, `IdsContiguous` |
| condition_codec | `MC_WithdrawCondition.cfg` | pass (144 states) | `TypeOK`, `RoundTripExact` |
| condition_unknown_type | `MC_WithdrawCondition_unknown.cfg` | violation | `OnlyKnownTypes` |
| names | `MC_Names.cfg` | pass (16105 states) | `NameValidationMatchesSpec` |

The titan properties:
- `DiscoverySound`: a key is handed a `memo_status` only for a condition whose owner was derived for it, whoever posted the condition.
- `RoundTrip`: for an honest condition, the intended receiver's trial decryption matches, with a valid check word and the message as the first bytes of the buffer, and every other key gets no_match, never an exception.
- `SignatureAuthentic`: what spec section 4.3 step 5 says the check word shows. A valid check word means the author could compute the shared secret of `secret_priv` and the claimed sender key: it held the sender's private key or the one-time private key.
- `MailboxRefinement`: TITAN implements the mailbox of section 4.3. This also covers forged and copied conditions, which `RoundTrip` does not.

The other properties:
- `IdsContiguous`: for every interleaving of callers that keep the single-writer discipline, the ids returned for each property are 1, 2, 3, ... and the store holds the last.
- `RoundTripExact`: an action property. Export then import leaves the condition, its owner and its balance unchanged.
- `NameValidationMatchesSpec`: `is_valid_name` returns exactly the spec's predicate.

**Bounds.** Two wallet keys and two ephemeral keys are enough for a wrong receiver, a forger and a copier. Up to two posted conditions are enough for one output to be copied from another. Messages of 2, 20 and 21 bytes are the short, exact and too-long cases of the 20-byte buffer. Two callers and `MaxId = 3` are enough for an interleaving in every position of an allocation. Symmetry is over keys and callers, which the code treats alike. The refinement run uses no symmetry, because symmetry reduction is not sound in general for temporal properties. For names, `MaxNameSize = 3` with strings of up to 4 characters covers the empty, maximal and over-long cases. The 11 character codes are each range bound and its neighbour outside the range (`/ 0 9 :`, `` ` a z {``), plus `-`, `A` and a signed high byte.

**Fairness.** No fairness is assumed and no liveness is checked. The operations are calls made by the wallet or the chain database, and nothing in the repository schedules them.

**Mutants.** Each property of a passing run is broken by a plausible bug in the mapped code, named in `PROJECT.json`:
- a buffer overrun in `set_message`;
- hardened derivation on the receiving side;
- a dropped owner check (for both `DiscoverySound` and the mailbox refinement);
- a check word over the wrong key;
- a skipped id;
- an unlocked caller;
- a size test of `>=` instead of `>` in `is_valid_name`;
- a null case that packs the null value;
- swapped id fields.

## Findings

1. `get_message` always returns 20 bytes, and `set_message` copies only the message into a buffer it never clears. A message shorter than 20 bytes is read back with the uninitialised tail of the buffer after it (run titan_message). The spec's round trip says the message comes back as sent, and the unit test only sends exactly 20 bytes.
2. `from_variant` has no default case: JSON whose `type` names no variant is accepted as a condition with that type and empty data (run condition_unknown_type). The spec says an unrecognised type fails with DecodeError.

## Proofs

`TitanProofs` proves, for all key sets, messages, junk bytes, `MemoCap >= 20` and `MaxOutputs`:
- `TypeCorrect`: `Spec => []TypeOK`. One lemma per action shows it preserves `TypeOK`, resting on typing lemmas for `SetMessage`, `ChildKey`, `StealthPub` and `MemoData`.
- `DiscoveryIsSound`: `Spec => []DiscoverySound`. `DiscoverySound` is not inductive alone: a match step needs to know that the owner of every posted condition is the address its intended receiver derives. The inductive invariant is `DiscoveryInv == TypeOK /\ OwnerDerived /\ DiscoverySound`. The proof also rests on `OwnerAddressInjective`: equal addresses imply equal child keys, so the owner check of line 54 only passes for the receiver key.

- `SignatureIsAuthentic`: `Spec => []SignatureAuthentic`.
  - The inductive invariant is `AuthInv == DiscoveryInv /\ SigWitness /\ FoundFaithful`.
  - `SigWitness`: the check word of every posted memo hashes a pair `{x, q}` of keys, where `x` is a key its author held.
  - `FoundFaithful`: every `memo_status` returned records what `decrypt_memo_data` computed on a condition that is still on the chain.
  - Argument: a valid check word means `{secret_priv, from} = {x, q}`. The lemma `CheckWordKey` then gives `x = secret_priv` or `x = from`, and `x` is a key the author held.

- `RoundTripHolds`: `Spec => []RoundTrip`. `RoundTrip` speaks of outcomes recorded in the past, so it is not inductive. The inductive invariant is `RTInv == AuthInv /\ HonestShape /\ ScansFaithful`:
  - `HonestShape`: every `"encrypt"` condition on the chain has the fields `encrypt_memo_data` gives it, for some ephemeral key, sender key and buffer remainder.
  - `ScansFaithful`: every recorded scan has the status `decrypt_memo_data` computes on its condition (`DecryptStatus`).
  - Argument: the lemma `HonestStatus` computes the trial decryption of an honest condition. The receiver's derived owner key equals the one the sender derived, because the shared secret is an unordered pair. For any other key, `OwnerAddressInjective` gives `no_match`. The lemma `SetMessagePrefix` shows that the message is the prefix of the padded buffer, with a separate case for the empty message. Forged and copied conditions are not `"encrypt"`, so appending them keeps `HonestShape`.

The proofs use the assumptions `MsgsAssumption`, `KeysAssumption`, `CapAssumption`, and `BoundAssumption` of `Titan`.

`ChainInterfaceProofs` proves, for every set of callers and every `MaxId`:
- `TypeCorrect`: `Spec => []TypeOK`.
- `IdsAreContiguous`: `Spec => []IdsContiguous`.
  - `IdsContiguous` is not inductive. A write step keeps it only if the id the writer computed is still `last + 1`.
  - The inductive invariant is `IInv == TypeOK /\ IdsContiguous /\ LockHeld`. `LockHeld` says a caller between its read and its write holds the writer lock, and its `nextId` is the property it read plus one.
  - `OthersIdle` follows from `LockHeld`: while a caller holds the lock, every other caller is idle.

`NamesProofs` proves `NameValidationCorrect`: `Spec => []NameValidationMatchesSpec`, for every `MaxNameSize` and character set. It rests on the lemma `IsValidNameCorrect`: for every sequence of integers, `IsValidName` equals `SpecValidName`. This is the statement TLC checks on bounded strings, proved for all strings.

`WithdrawConditionProofs` proves, for every set of addresses, ids, amounts and payloads:
- `TypeCorrect`: `Spec => []TypeOK`.
- `RoundTripIsExact`: `Spec => RoundTripExact`, the action property of the `condition_codec` run.
  - A round trip is exact only for conditions of the right shape. `from_variant` rebuilds `data` from the JSON payload for a known non-null type, and keeps the fresh condition's empty `data` otherwise.
  - `Shaped(c)` says that `data` packs a payload exactly when the type names a non-null variant. The inductive invariant `CondInv` says the balance record is well typed and its condition is shaped.
  - `ConditionsShaped` shows that every condition the constructors build is shaped. `ImportShaped` shows the same for what `from_variant` builds from JSON it accepts. `ShapedRoundTrip` shows that export then import returns a shaped condition unchanged.

**What stays with TLC.** Every safety property of a passing run is also proved. Liveness, `ENABLED`, and facts about recursive definitions for every input are beyond TLAPS here, and no model depends on them. The violation runs stay with TLC, since they show counterexamples.

## Not modelled

- **The fee formulas** (`chain_interface.cpp` 29-36). Each is one line: `get_fee_rate()` times a basis constant, divided by 1000. `get_fee_rate` and both basis constants are defined outside the repository, so neither the values nor the widths are known. Overflow of the product is the only hazard, and it cannot be stated without them.
- **`is_valid_json`.** It forwards to `fc::json::is_valid`, which is not in the repository.
- **The id types' width.** The header that declares the id types is not in the repository, so the wrap of `last_*_id() + 1` is not modelled. `MaxId` caps the counters instead.
- **A half-updated `withdraw_by_name` after a throwing `encrypt_memo_data`.** `owner` is assigned before `set_message` can throw (lines 82 and 88). Whether the half-updated object is ever posted depends on the wallet, which is not in the repository. The model posts nothing when `set_message` throws.
- **`withdraw_condition::get_address`.** It hashes the packed condition; a condition's identity stands for it.
- **The wallet.** Only its declaration is present.
- **The network configuration.** It is constants only.
- **The chain database.** It is not in the repository.

- `ImplementsMailbox`: `Spec => MailboxRefinement`.
  - The inductive invariant is `MailInv == DiscoveryInv /\ MsgShape`. `MsgShape` says that every posted condition, whoever built it, carries a buffer that `set_message` filled from the message sent, which is no longer than the buffer.
  - `PostedAppend` shows that appending a condition appends its payment and leaves earlier discoveries unchanged. `PostMail` uses it to show that each posting action is a `Post`.
  - `DecryptMail` shows that a match is a `Deliver`. The receiver is right by `DiscoverySound` in the next state, and the message is right by `MsgShape` and `SetMessagePrefix`. Every other trial decryption is a stutter of the mailbox.

- `DeliveriesFaithful`: `Spec => []Mail!DeliveredFaithful`, a corollary of the refinement. `MailboxProofs` proves `NoFalsePositives` on the abstract mailbox: every discovery names a payment addressed to the discovering key and carries its message. The invariant is inductive once the mailbox's type invariant is added, because payments are only appended. `TitanProofs` reads that theorem through the same mapping (`MP == INSTANCE MailboxProofs WITH ...`) and combines it with `ImplementsMailbox`. In TITAN's terms: every `memo_status` returned, for encrypted, forged and copied conditions alike, went to the condition's receiver, with the posted message leading its buffer. It is not a separate TLC property: the `titan_refinement` run checks the refinement it follows from.

## Plan

Done so far: `Names` with its proof, `ChainInterfaceProofs`, the proofs of `SignatureAuthentic`, `RoundTrip` and `RoundTripExact`, and the refinement of TITAN to `Mailbox`. Still open:
1. A ledger module that composes `WithdrawCondition` with `Titan`, putting by_name conditions into balance records carried through JSON. With it, the `Mailbox` refinement extended to the ledger: a payment carried through JSON still reaches only its receiver.
