----------------------------- MODULE Transaction -----------------------------
(***************************************************************************)
(* Payments (src/tx.rs, and bin/tx.rs for how a transaction is sent and    *)
(* received).  A TransactionBuilder is worked off loop by loop: the clear  *)
(* inputs, the inputs with their spend proofs, the outputs with their mint *)
(* proofs and encrypted notes, the signatures over the unsigned encoding.  *)
(* The encoded transaction is then decoded and verified; its coins go into *)
(* the tree and into the witnesses of the coins before them, and every     *)
(* wallet tries its key on every output.  Coins of other transactions come *)
(* in between.                                                             *)
(*   An encoding is the sequence of the fields that are written, and       *)
(* decoding takes them off it again.                                       *)
(***************************************************************************)
EXTENDS MerkleTree

CONSTANTS
  Cashier, Wallets,   \* secret keys
  Amounts,            \* the u64 values of inputs and outputs
  Schedules,          \* bound: how many coins of others come before each of our
                      \* transactions and after the last one
  MaxClear, MaxInputs, MaxOutputs   \* bounds

ASSUME KeyAssumption == Wallets \subseteq 1 .. 9 /\ Cashier \in (1 .. 9) \ Wallets
ASSUME AmountAssumption == Amounts \subseteq Nat
ASSUME BoundAssumption ==
  /\ {MaxClear, MaxInputs, MaxOutputs} \subseteq Nat
  /\ \A s \in Schedules : s \in Seq(Nat) /\ s # <<>>

VARIABLES
  stage,      \* "idle", "building", "sent"; "stopped" by an assertion
  fakes,      \* how many coins of others are still to come, as in Schedules
  builder,    \* the TransactionBuilder: clear_inputs, inputs, outputs
  partial,    \* the PartialTransaction so far: clear_inputs, inputs, outputs
  output_blinds, signature_secrets,   \* drawn for the outputs and the inputs so far
  data,       \* the encoded transaction
  drawn,      \* the last random scalar: those that are not added never repeat
  leaves,     \* history: the coins appended
  tree,       \* the CommitmentTree
  witnesses,  \* the IncrementalWitnesses of the coins whose notes were decrypted
  notes       \* per wallet the notes it decrypted, with the coin's position

ledger == <<leaves, tree, witnesses, notes>>
vars == <<stage, fakes, builder, partial, output_blinds, signature_secrets, data, drawn, ledger>>

Nothing == [clear_inputs |-> <<>>, inputs |-> <<>>, outputs |-> <<>>]
Total(s) == FoldLeft(LAMBDA a, b : a + b, 0, s)
Values(infos) == [i \in DOMAIN infos |-> infos[i].value]

Path(pos) == path_inner(CHOOSE w \in witnesses : position(w) = pos)

----------------------------------------------------------------------------
(* Encodings.                                                              *)

SignatureFields(s) == <<s.commit, s.response>>
UnsignedClearFields(c) == <<c.value, c.valcom_blind, c.signature_public>>
ClearFields(c) == UnsignedClearFields(c) \o SignatureFields(c.signature)
UnsignedInputFields(i) == <<i.spend_proof, i.revealed.value_commit, i.revealed.nullifier,
                            i.revealed.merkle_root, i.revealed.signature_public>>
InputFields(i) == UnsignedInputFields(i) \o SignatureFields(i.signature)
OutputFields(o) == <<o.mint_proof, o.revealed.value_commit, o.revealed.coin,
                     o.enc_note.ciphertext, o.enc_note.ephem_public>>

EncodeVec(items) == <<Len(items)>> \o FlattenSeq(items)
UnsignedClears(v) == EncodeVec([i \in DOMAIN v |-> UnsignedClearFields(v[i])])
Clears(v) == EncodeVec([i \in DOMAIN v |-> ClearFields(v[i])])
UnsignedInputs(v) == EncodeVec([i \in DOMAIN v |-> UnsignedInputFields(v[i])])
Inputs(v) == EncodeVec([i \in DOMAIN v |-> InputFields(v[i])])
Outputs(v) == EncodeVec([i \in DOMAIN v |-> OutputFields(v[i])])

EncodePartial(p) ==
  UnsignedClears(p.clear_inputs) \o UnsignedInputs(p.inputs) \o Outputs(p.outputs)
EncodeWithoutSignature(tx) ==
  UnsignedClears(tx.clear_inputs) \o UnsignedInputs(tx.inputs) \o Outputs(tx.outputs)
Encode(tx) == Clears(tx.clear_inputs) \o Inputs(tx.inputs) \o Outputs(tx.outputs)

\* What a vector of fields begins with, and what comes after a vector whose
\* elements have the given number of fields.
Items(fields, width) ==
  [i \in 1 .. fields[1] |-> SubSeq(fields, 2 + (i - 1) * width, 1 + i * width)]
After(fields, width) == SubSeq(fields, 2 + fields[1] * width, Len(fields))

ReadSignature(f) == [commit |-> f[1], response |-> f[2]]
ReadClear(f) == [value |-> f[1], valcom_blind |-> f[2], signature_public |-> f[3],
                 signature |-> ReadSignature(SubSeq(f, 4, 5))]
ReadInput(f) == [spend_proof |-> f[1],
                 revealed |-> [value_commit |-> f[2], nullifier |-> f[3],
                               merkle_root |-> f[4], signature_public |-> f[5]],
                 signature |-> ReadSignature(SubSeq(f, 6, 7))]
ReadOutput(f) == [mint_proof |-> f[1],
                  revealed |-> [value_commit |-> f[2], coin |-> f[3]],
                  enc_note |-> [ciphertext |-> f[4], ephem_public |-> f[5]]]
Decode(fields) ==
  LET f2 == After(fields, 5)
      f3 == After(f2, 7)
      clear == Items(fields, 5)
      in == Items(f2, 7)
      out == Items(f3, 5)
  IN  [clear_inputs |-> [i \in DOMAIN clear |-> ReadClear(clear[i])],
       inputs |-> [i \in DOMAIN in |-> ReadInput(in[i])],
       outputs |-> [i \in DOMAIN out |-> ReadOutput(out[i])]]

----------------------------------------------------------------------------
(* Transaction::verify                                                     *)

SpendVerifies(i) == VerifyProof(i.spend_proof, SpendOutputs(i.revealed))
MintVerifies(o)  == VerifyProof(o.mint_proof, MintOutputs(o.revealed))

\* The sum of the value commitments, inputs less outputs.
Commits(items) == [i \in DOMAIN items |-> items[i].revealed.value_commit]
ClearCommits(items) == [i \in DOMAIN items |-> Commit(items[i].value, items[i].valcom_blind)]
CommitTotal(tx) ==
  LET clear == FoldLeft(Plus, Identity, ClearCommits(tx.clear_inputs))
      in == FoldLeft(Plus, clear, Commits(tx.inputs))
  IN  FoldLeft(Minus, in, Commits(tx.outputs))

Verify(tx) ==
  LET message == EncodeWithoutSignature(tx) IN
  /\ \A i \in DOMAIN tx.inputs : SpendVerifies(tx.inputs[i])
  /\ \A i \in DOMAIN tx.outputs : MintVerifies(tx.outputs[i])
  /\ \A i \in DOMAIN tx.clear_inputs :
       VerifySignature(tx.clear_inputs[i].signature_public, message, tx.clear_inputs[i].signature)
  /\ \A i \in DOMAIN tx.inputs :
       VerifySignature(tx.inputs[i].revealed.signature_public, message, tx.inputs[i].signature)
  /\ CommitTotal(tx) = Identity

----------------------------------------------------------------------------
(* TransactionBuilder::build                                               *)

Init ==
  /\ stage = "idle" /\ fakes \in Schedules
  /\ builder = Nothing /\ partial = Nothing
  /\ output_blinds = <<>> /\ signature_secrets = <<>> /\ data = <<>> /\ drawn = 9
  /\ leaves = <<>> /\ tree = empty /\ witnesses = {} /\ notes = [w \in Wallets |-> {}]

UpTo(n, S) == UNION {[1 .. k -> S] : k \in 0 .. n}
ClearInfos == [value : Amounts, secret : {Cashier}]
OutputInfos == [value : Amounts, public : {Public(w) : w \in Wallets}]
\* The coins whose notes were decrypted, with the key that did it.
InputInfos == UNION {{[note |-> n.note, pos |-> n.pos, secret |-> w] : n \in notes[w]} : w \in Wallets}

Begin ==
  /\ stage = "idle" /\ Len(fakes) > 1 /\ fakes[1] = 0
  /\ stage' = "building" /\ fakes' = Tail(fakes)
  /\ \E c \in UpTo(MaxClear, ClearInfos), i \in UpTo(MaxInputs, InputInfos), o \in UpTo(MaxOutputs, OutputInfos) :
       builder' = [clear_inputs |-> c, inputs |-> i, outputs |-> o]
  /\ partial' = Nothing /\ output_blinds' = <<>> /\ signature_secrets' = <<>> /\ data' = <<>>
  /\ UNCHANGED <<drawn, ledger>>

BuildClearInput ==
  LET i == Len(partial.clear_inputs) + 1 IN
  /\ stage = "building" /\ i <= Len(builder.clear_inputs)
  /\ \E blind \in Scalars :
       partial' = [partial EXCEPT !.clear_inputs = Append(@,
                     [value |-> builder.clear_inputs[i].value, valcom_blind |-> blind,
                      signature_public |-> Public(builder.clear_inputs[i].secret)])]
  /\ UNCHANGED <<stage, fakes, builder, output_blinds, signature_secrets, data, drawn, ledger>>

\* The witness of input i when its signature secret is s.
SpendWitness(i, s) ==
  LET info == builder.inputs[i] IN
  [value |-> info.note.value, valcom_blind |-> info.note.valcom_blind, serial |-> info.note.serial,
   coin_blind |-> info.note.coin_blind, secret |-> info.secret, path |-> Path(info.pos),
   signature_secret |-> s]

\* The siblings of the path go into the circuit as scalars.  The conversion of a
\* leaf, a hash of 32 bytes, panics if that is not below the order of the field
\* (coin.rs:88); the coins here are below it.
BuildInput ==
  LET i == Len(partial.inputs) + 1
      w == SpendWitness(i, drawn + 1)
  IN
  /\ stage = "building" /\ Len(partial.clear_inputs) = Len(builder.clear_inputs)
  /\ i <= Len(builder.inputs)
  /\ partial' = [partial EXCEPT !.inputs = Append(@,
                   [spend_proof |-> CreateProof(SpendCircuit(w)), revealed |-> RevealSpend(w)])]
  /\ signature_secrets' = Append(signature_secrets, drawn + 1)
  /\ drawn' = drawn + 1
  /\ UNCHANGED <<stage, fakes, builder, output_blinds, data, ledger>>

\* compute_remainder_blind, and one that leaves the blinds of the inputs out.
RemainderOfClear ==
  (Total([i \in DOMAIN partial.clear_inputs |-> partial.clear_inputs[i].valcom_blind])
     - Total(output_blinds)) % Order
RemainderBlind ==
  (Total([i \in DOMAIN partial.clear_inputs |-> partial.clear_inputs[i].valcom_blind])
     + Total([i \in DOMAIN builder.inputs |-> builder.inputs[i].note.valcom_blind])
     - Total(output_blinds)) % Order

\* The blind of the last output makes up for all the others.
OutputBlinds(i) == IF i = Len(builder.outputs) THEN {RemainderBlind} ELSE Scalars

\* The attributes drawn for a coin.
NewNote(value, blind) ==
  [serial |-> drawn + 1, value |-> value, coin_blind |-> drawn + 2, valcom_blind |-> blind]

BuildOutput ==
  LET i == Len(partial.outputs) + 1 IN
  /\ stage = "building" /\ Len(partial.clear_inputs) = Len(builder.clear_inputs)
  /\ Len(partial.inputs) = Len(builder.inputs) /\ i <= Len(builder.outputs)
  /\ \E blind \in OutputBlinds(i) :
       LET note == NewNote(builder.outputs[i].value, blind)
           w == [serial |-> note.serial, value |-> note.value, coin_blind |-> note.coin_blind,
                 valcom_blind |-> blind, public |-> builder.outputs[i].public]
       IN  /\ output_blinds' = Append(output_blinds, blind)
           /\ partial' = [partial EXCEPT !.outputs = Append(@,
                            [mint_proof |-> CreateProof(MintCircuit(w)), revealed |-> RevealMint(w),
                             enc_note |-> Encrypt(note, builder.outputs[i].public, drawn + 3)])]
  /\ drawn' = drawn + 3
  /\ UNCHANGED <<stage, fakes, builder, signature_secrets, data, ledger>>

\* Clear inputs are signed with their own keys, inputs with the keys drawn for them.
SignAndEncode ==
  LET message == EncodePartial(partial)
      clear == Len(partial.clear_inputs)
      tx == [clear_inputs |-> [i \in DOMAIN partial.clear_inputs |->
               [value |-> partial.clear_inputs[i].value,
                valcom_blind |-> partial.clear_inputs[i].valcom_blind,
                signature_public |-> partial.clear_inputs[i].signature_public,
                signature |-> Sign(builder.clear_inputs[i].secret, message, drawn + i)]],
             inputs |-> [i \in DOMAIN partial.inputs |->
               [spend_proof |-> partial.inputs[i].spend_proof, revealed |-> partial.inputs[i].revealed,
                signature |-> Sign(signature_secrets[i], message, drawn + clear + i)]],
             outputs |-> partial.outputs]
  IN
  /\ stage = "building" /\ Len(partial.clear_inputs) = Len(builder.clear_inputs)
  /\ Len(partial.inputs) = Len(builder.inputs) /\ Len(partial.outputs) = Len(builder.outputs)
  /\ stage' = "sent" /\ data' = Encode(tx)
  /\ drawn' = drawn + clear + Len(partial.inputs)
  /\ UNCHANGED <<fakes, builder, partial, output_blinds, signature_secrets, ledger>>

----------------------------------------------------------------------------
(* Receiving: bin/tx.rs                                                    *)

Ledger == [leaves |-> leaves, tree |-> tree, witnesses |-> witnesses, fits |-> TRUE]

\* A coin is appended to the tree, which must not be complete, and to every witness.
Added(l, coin) ==
  [leaves |-> Append(l.leaves, coin), tree |-> AppendNode(l.tree, coin),
   witnesses |-> {AppendWitness(w, coin) : w \in l.witnesses},
   fits |-> l.fits /\ ~is_complete(l.tree, Depth)]
\* "This is done right after we add our coin to the tree (but before any other
\* coins are added)": the coin of an output, with its witness.
Received(l, out) ==
  LET added == Added(l, out.revealed.coin) IN
  IF \E w \in Wallets : Decrypts(out.enc_note, w)
    THEN [added EXCEPT !.witnesses = @ \cup {from_tree(added.tree)}]
    ELSE added

\* The outputs whose notes the key opens: every wallet tries every output, and
\* the coins come after those of the tree.
Found(tx, w) ==
  {[note |-> Decrypted(tx.outputs[i].enc_note), pos |-> size(tree) + i - 1] :
     i \in {j \in DOMAIN tx.outputs : Decrypts(tx.outputs[j].enc_note, w)}}

\* The ledger with the coins of a transaction, one after the other.
AllReceived(tx) == FoldLeft(Received, Ledger, tx.outputs)

Accept ==
  /\ stage = "sent" /\ stage' = "idle"
  /\ \E tx \in {Decode(data)} :
       /\ Verify(tx)
       /\ LET l == AllReceived(tx) IN
          l.fits /\ leaves' = l.leaves /\ tree' = l.tree /\ witnesses' = l.witnesses
       /\ notes' = [w \in Wallets |-> notes[w] \cup Found(tx, w)]
  /\ UNCHANGED <<fakes, builder, partial, output_blinds, signature_secrets, data, drawn>>

\* bin/tx.rs asserts that the transaction verifies, and expects the tree to take
\* its coins: it stops here.
Refuse ==
  /\ stage = "sent" /\ stage' = "stopped"
  /\ ~(Verify(Decode(data)) /\ AllReceived(Decode(data)).fits)
  /\ UNCHANGED <<fakes, builder, partial, output_blinds, signature_secrets, data, drawn, ledger>>

----------------------------------------------------------------------------
(* Coins of others, random ones in bin/tx.rs.                              *)

FakeCoin ==
  LET coin == <<"random", Len(leaves)>>
      l == Added(Ledger, coin)
  IN
  /\ stage = "idle" /\ fakes[1] > 0 /\ l.fits
  /\ fakes' = [fakes EXCEPT ![1] = @ - 1]
  /\ leaves' = l.leaves /\ tree' = l.tree /\ witnesses' = l.witnesses
  /\ UNCHANGED <<stage, builder, partial, output_blinds, signature_secrets, data, drawn, notes>>

\* Err(()) from the tree and from the witnesses, which nobody looks at.
FakeRefused ==
  /\ stage = "idle" /\ fakes[1] > 0 /\ is_complete(tree, Depth)
  /\ fakes' = [fakes EXCEPT ![1] = @ - 1]
  /\ witnesses' = {AppendWitness(w, <<"random", Len(leaves)>>) : w \in witnesses}
  /\ UNCHANGED <<stage, builder, partial, output_blinds, signature_secrets, data, drawn,
                 leaves, tree, notes>>

Next ==
  \/ Begin \/ BuildClearInput \/ BuildInput \/ BuildOutput \/ SignAndEncode
  \/ Accept \/ Refuse \/ FakeCoin \/ FakeRefused

Spec == Init /\ [][Next]_vars

----------------------------------------------------------------------------
(* What holds.                                                             *)

ValueIn == Total(Values(builder.clear_inputs))
             + Total([i \in DOMAIN builder.inputs |-> builder.inputs[i].note.value])
ValueOut == Total(Values(builder.outputs))

(* "The only constraint is that sum(value in) == sum(value out)"           *)
(* (bin/tx.rs:160), provided there is an output that can take the rest of  *)
(* the blinds: then whatever was drawn, built, signed, encoded and decoded *)
(* verifies, and without it nothing does, but for a collision of blinds.   *)
VerifiesIffBalanced ==
  stage = "sent" =>
    (Verify(Decode(data)) <=>
       ValueIn = ValueOut /\ (builder.outputs = <<>> => RemainderBlind = 0))

(* A wallet opens the notes of the outputs addressed to it and no others,  *)
(* and a note opens both the coin and the value commitment of its output.  *)
NoteOpensOutput ==
  stage = "sent" =>
    LET tx == Decode(data) IN
    \A i \in DOMAIN tx.outputs, w \in Wallets :
      LET out == tx.outputs[i]
          note == Decrypted(out.enc_note)
      IN  /\ Decrypts(out.enc_note, w) <=> builder.outputs[i].public = Public(w)
          /\ Decrypts(out.enc_note, w) =>
               /\ out.revealed.coin = CoinOf(Public(w), note.value, note.serial, note.coin_blind)
               /\ out.revealed.value_commit = Commit(note.value, note.valcom_blind)

\* The whole tree: for each height the roots of its subtrees, from left to right.
WholeTree(coins) ==
  LET row[h \in 0 .. Depth] ==
        [i \in Nat |-> IF h = 0 THEN IF i < Len(coins) THEN coins[i + 1] ELSE blank
                       ELSE combine(h - 1, row[h - 1][2 * i], row[h - 1][2 * i + 1])]
  IN  row

(* The root computed from the frontier is that of the whole tree           *)
(* (CommitmentTree::root), however many coins came from whom.              *)
RootIsReference == TreeRoot(tree) = WholeTree(leaves)[Depth][0]

(* "Appending the same commitments in the same order to both the original  *)
(* CommitmentTree and this IncrementalWitness will result in a witness to  *)
(* the path from the target position to the root of the updated tree"      *)
(* (merkle.rs:192).                                                        *)
WitnessFollows == \A w \in witnesses : WitnessRoot(w) = TreeRoot(tree)

(* The path of a witness has one entry per level, leads from its coin to   *)
(* the root of the updated tree, and turns as the bits of its position do. *)
PathProves ==
  \A w \in witnesses :
    LET path == path_inner(w) IN
    /\ Len(path) = Depth
    /\ PathRoot(leaves[position(w) + 1], path) = TreeRoot(tree)
    /\ \A i \in 1 .. Depth : path[i].is_right <=> (position(w) \div 2 ^ (i - 1)) % 2 = 1

----------------------------------------------------------------------------
(* What the docs say and the code does not do.                             *)

(* bin/tx.rs:106 says of the witness and its path "This allows us to prove *)
(* inclusion of the coin in the merkle tree with ZK."                      *)
ProvesInclusion ==
  stage = "sent" =>
    LET tx == Decode(data) IN
    \A i \in DOMAIN tx.inputs : tx.inputs[i].revealed.merkle_root = TreeRoot(tree)

(* merkle.rs:48: "The depth of the Merkle tree is fixed at 32".             *)
FullAtDepth32 == is_complete(tree, Depth) => Depth = 32
=============================================================================
