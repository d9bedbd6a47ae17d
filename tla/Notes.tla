-------------------------------- MODULE Notes --------------------------------
(***************************************************************************)
(* What a transaction is made of (src/crypto, src/circuit): keys, value    *)
(* commitments, coins, nullifiers, spend and mint proofs, encrypted notes  *)
(* and signatures.  Hashes and points are free constructors, so that two   *)
(* of them are equal only if they were made from the same arguments; the   *)
(* scalars of the curve are numbers, and the blinds of value commitments,  *)
(* which are added, are taken modulo the order of the field.  The two      *)
(* circuits are written down on their own, apart from what the prover      *)
(* claims to reveal.                                                       *)
(***************************************************************************)
EXTENDS Integers, Sequences, SequencesExt

CONSTANT Order     \* of the scalar field; values are far below it

ASSUME OrderAssumption == Order \in Nat \ {0}

Scalars == 0 .. Order - 1

\* SPENDING_KEY_GENERATOR * secret
Public(secret) == <<"G_SPEND", secret>>

\* value * G_VCV + blind * G_VCR, and the group of such points.
Commit(value, blind) == [value |-> value, blind |-> blind % Order]
Identity == Commit(0, 0)
Plus(c, d)  == Commit(c.value + d.value, c.blind + d.blind)
Minus(c, d) == Commit(c.value - d.value, c.blind - d.blind)

CoinOf(public, value, serial, coin_blind) ==
  <<"CRH_IVK", public, value, serial, coin_blind>>
Nullifier(secret, serial) == <<"PRF_NF", secret, serial>>
NoteCommitment(coin) == <<"NoteCommitment", coin>>
merkle_hash(depth, lhs, rhs) == <<"MerkleTree", depth, lhs, rhs>>

----------------------------------------------------------------------------
(* What the prover reveals.                                                *)

PathRoot(leaf, path) ==
  FoldLeftDomain(LAMBDA root, i : IF path[i].is_right
                                  THEN merkle_hash(i - 1, path[i].node, root)
                                  ELSE merkle_hash(i - 1, root, path[i].node),
                 leaf, path)

RevealSpend(w) ==
  [value_commit |-> Commit(w.value, w.valcom_blind),
   nullifier |-> Nullifier(w.secret, w.serial),
   merkle_root |-> PathRoot(NoteCommitment(CoinOf(Public(w.secret), w.value, w.serial, w.coin_blind)),
                            w.path),
   signature_public |-> Public(w.signature_secret)]

RevealMint(w) ==
  [value_commit |-> Commit(w.value, w.valcom_blind),
   coin |-> CoinOf(w.public, w.value, w.serial, w.coin_blind)]

\* The public inputs the verifier computes from them.
SpendOutputs(r) == <<r.value_commit, r.nullifier, r.merkle_root, r.signature_public>>
MintOutputs(r)  == <<r.value_commit, r.coin>>

----------------------------------------------------------------------------
(* What the circuits force the public inputs to be.                        *)

\* One level: the two nodes are swapped if the current one is on the right.
Layer(w, current, i) ==
  LET branch == w.path[i].node
      pair == IF w.path[i].is_right THEN <<branch, current>> ELSE <<current, branch>>
  IN  merkle_hash(i - 1, pair[1], pair[2])

\* fixed-base multiplications and an addition; blake2s of the padded bits
CommitCircuit(value, blind) == Plus(Commit(value, 0), Commit(0, blind))
NullifierCircuit(secret, serial) == <<"PRF_NF", secret, serial>>
CoinCircuit(public, value, serial, coin_blind) ==
  <<"CRH_IVK", public, value, serial, coin_blind>>

SpendCircuit(w) ==
  LET coin == CoinCircuit(Public(w.secret), w.value, w.serial, w.coin_blind) IN
  <<CommitCircuit(w.value, w.valcom_blind), NullifierCircuit(w.secret, w.serial),
    FoldLeftDomain(LAMBDA current, i : Layer(w, current, i), NoteCommitment(coin), w.path),
    Public(w.signature_secret)>>

MintCircuit(w) ==
  <<CommitCircuit(w.value, w.valcom_blind),
    CoinCircuit(w.public, w.value, w.serial, w.coin_blind)>>

\* A proof is good for the public inputs of the circuit it was made with.
CreateProof(inputs) == [proves |-> inputs]
VerifyProof(proof, inputs) == proof.proves = inputs

----------------------------------------------------------------------------
(* Notes: the attributes of a coin, encrypted to its owner.                *)

EncodeNote(n) == <<n.serial, n.value, n.coin_blind, n.valcom_blind>>
\* The two blinds read in the other order.
DecodeNoteSwapped(t) ==
  [serial |-> t[1], value |-> t[2], coin_blind |-> t[4], valcom_blind |-> t[3]]
DecodeNote(t) ==
  [serial |-> t[1], value |-> t[2], coin_blind |-> t[3], valcom_blind |-> t[4]]

\* Diffie-Hellman: the product of two secrets, from one secret and one key.
sapling_ka_agree(esk, public) == {esk, public[2]}
kdf_sapling(shared, ephem_public) == <<shared, ephem_public>>

Encrypt(note, public, ephem_secret) ==
  LET ephem_public == Public(ephem_secret) IN
  [ciphertext |-> [key |-> kdf_sapling(sapling_ka_agree(ephem_secret, public), ephem_public),
                   plaintext |-> EncodeNote(note)],
   ephem_public |-> ephem_public]

Decrypts(enc, secret) ==
  enc.ciphertext.key = kdf_sapling(sapling_ka_agree(secret, enc.ephem_public), enc.ephem_public)
Decrypted(enc) == DecodeNote(enc.ciphertext.plaintext)

----------------------------------------------------------------------------
(* Schnorr signatures: response = mask + challenge * secret.               *)

hash_to_scalar(commit, message) == <<"DarkFi_Schnorr", commit, message>>

Sign(secret, message, mask) ==
  LET commit == Public(mask) IN
  [commit |-> commit,
   response |-> [mask |-> mask, secret |-> secret, challenge |-> hash_to_scalar(commit, message)]]

\* response * G - challenge * public = commit
VerifySignature(public, message, signature) ==
  /\ Public(signature.response.mask) = signature.commit
  /\ Public(signature.response.secret) = public
  /\ signature.response.challenge = hash_to_scalar(signature.commit, message)
=============================================================================
