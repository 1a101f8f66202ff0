# ETHDILITHIUM in TLA+

A verification project for the ETHDILITHIUM repository: Dilithium (ML-DSA-44) and
ETHDilithium, a variant with a Keccak-256 generator instead of SHAKE, as a C
reference (`c-ref`), a C implementation for little memory (`c-lowram`), Solidity
verifiers (`src`) and a Python package (`pythonref`). One scheme is implemented
three or four times, with different buffers, orders and granularities. What has to
be right is therefore, above all, that the implementations agree with one another
and with one abstract description, whatever the lengths, the requests and the
rejections. That is what the modules state.

## The system

| Part | State it keeps | Operations | Used by |
|---|---|---|---|
| Keccak-256 generator, `c-ref/keccak_prng.c` | input buffer of 4096 bytes, hash, counter, one output block with position | init, inject, flip, extract | C signers and verifiers (mu, rhoprime, challenge, samplers) |
| same, `pythonref/dilithium_py/keccak_prng` | same | same; raises instead of returning codes | Python package |
| same, `c-lowram/keccak_prng.c` | no input buffer: feeds `keccak256.c` directly | same | low-RAM signer and verifier |
| Keccak-256, `c-ref/keccak256.c` | state, queue of one block, byte count | init, update, final | both C generators |
| generator of the contracts, `src/ZKNOX_keccak_prng.sol` | hash, counter, a word, unread bytes | initPrng, refill, nextByte | `ZKNOX_ethdilithium.sol`, `sampleInBallKeccakPrng` |
| SHAKE, `c-ref/fips202.c` | 25 words and a position | init, absorb, finalize, squeeze, squeezeblocks, at once | everything when `ETHDILITHIUM` is off, key generation, samplers |
| SHAKE, `src/ZKNOX_shake.sol` | state, buffer, position, direction | shakeUpdate, shakeDigest, shakeSqueeze | `ZKNOX_dilithium.sol`, `sampleInBallNist` |
| signer, `c-ref/sign.c` | vectors y, w, z, h; nonce | crypto_sign_signature, crypto_sign | test programs |
| signer, `c-lowram/sign.c` | one polynomial, packed rows of w, packed challenge, the caller's `sig` | same | the hardware wallet application |
| verifiers, C | one vector each; low-RAM: one row, in unions | crypto_sign_verify, crypto_sign_open | test programs |
| verifiers, Solidity | memory only; the key is in a `PKContract` | verify (two), verifyInternal | accounts |
| verifier, Python | none | verify, _verify_internal | command line, tests |
| samplers, rounding, packing | none, or one buffer of the stream | pure functions on a polynomial | all of the above |
| transforms: `ntt.c`, `poly.c`, `polyvec.c`, `smallntt.c`, `ZKNOX_NTT_dilithium.sol` | one polynomial, in place; c-lowram: a union of three | ntt, invntt_tomont, products, reductions | signers, verifiers, key generation |
| key generation, C and Python | c-ref: whole vectors; c-lowram: three polynomials | crypto_sign_keypair | everything that signs |

The parts interact by calls. Nothing runs concurrently, nothing is persisted and
there are no messages between processes. The hard behaviour is elsewhere:

* **protocol sequences**: one generator context is filled by many calls, flipped,
  drawn from in requests of any size, and initialised again;
* **reused memory**: `sig` is scratch space while an attempt may still be rejected,
  one polynomial buffer holds the challenge, a mask and a row of z in turn, unions
  overlay the packed row and the accumulator, `sm` may be `m`;
* **rejection**: an attempt can be given up after any row, and the next one starts
  from what it left; the loop has no bound;
* **limits**: 4096 input bytes, 16-bit lengths and nonces, 80 hints, contexts of 255
  bytes, norm bounds that are strict in one implementation and not in another;
* **failures that are not looked at**: `inject` returns -3 and its callers go on.

`PROJECT.json` lists every hazard at its line with the properties that cover it. A property is
named there only when it would fail if that hazard went wrong: the boundaries at which an
implementation departs from the reference are shown by the violation runs alone, because the
agreement properties exclude them (`SolidityAgrees` a norm exactly at the bound, `OthersBind` a
message of 2^16 bytes or more). Two hazards have no property, each with its reason: `smlen`
after a refused context, which no caller in the repository meets, and the masks once the 16-bit
nonce has wrapped, where the code does repeat them and promises nothing.

### What makes each part correct

* a generator: the bytes handed out are consecutive pieces of one stream that the
  input determines; a refused call changes nothing; the next use of the context has
  nothing of the last one;
* a sponge: the output depends on the bytes of the input only, and not on how they
  were cut into pieces or how the output is drawn;
* a signer: the bytes returned are the signature of the accepted attempt, the mask in
  z is the mask in the challenge, and no mask of a rejected attempt is used again;
* the verifiers: one verdict per signature, one encoding per hint;
* mu: equal exactly for equal context and message;
* the samplers: the same coefficients from one stream, wherever a request cuts it;
* rounding: every implementation splits a coefficient alike, and the hint repairs what
  c*t0 changed;
* packings: the same bytes, and every reader gets back what was written;
* the transforms: no coefficient outgrows its type, and what they compute is the product
  in the ring;
* key generation: the same keys, laid out where every reader looks for them;
* signed messages: right in both memory layouts, and nothing released on failure.

## The modules

The protocol side:

| Module | Models | State and actions |
|---|---|---|
| `XofStream` | what a generator promises | the input, the phase, the number of bytes taken: Reset, Absorb, Finalize, Squeeze, Refuse |
| `PrngParameters` | constants of both generators; a byte of output is named by input and position | - |
| `KeccakPrng` | `c-ref/keccak_prng.c` and the Python class | the fields of the context; `pc`, `len`, `offset` of a running extract. extract takes a step for the bytes left over, one per block, one for the return |
| `SolKeccakPrng` | `ZKNOX_keccak_prng.sol` and how `verifyInternal` reads the pool | the struct; `drawn` marks that the word has been read |
| `PrngPair` | both, for callers with the same input | logs of what each caller injected and received |
| `SpongePadding` | the reference: padded blocks and output bytes | - |
| `KeccakAbsorb` | `keccak256.c` as `c-lowram/keccak_prng.c` uses it | queue, byte count, whether the pointer is aligned; update takes one step per block |
| `Shake`, `SolShake`, `ShakePair` | `fips202.c`, `ZKNOX_shake.sol`, both | the blocks the state was permuted with, what was XORed in since, the position; one step per iteration of a loop |
| `SigningAttempt` | what one attempt computes | shared constants and operators |
| `SignLoop` | what a signer promises | attempt, its outcome, the result: Refuse, Retry, Accept |
| `LowramSign` | `crypto_sign_signature` of c-lowram | nonce, row indices, `wcomp`, `ccomp`, `tmp0`, `sig`, the two hint counters; one action per row and outcome |
| `RefSign` | `crypto_sign_signature` of c-ref | one action per check |
| `SignerPair` | both signers on one key and message | c-lowram runs an attempt after c-ref has, with the same answers of the oracle |
| `Verifiers` | the four verifiers | c-lowram's row by row, with its union and `hint_ones`; the others as operators |
| `MuHash` | the input of mu | extends `KeccakPrng`: a call of the c-ref signer, then one of the verifier; contracts and c-lowram as operators |
| `SignedMessage` | crypto_sign, crypto_sign_open | one memory with two arrays; one byte per step |

The arithmetic side:

| Module | Models | State and actions |
|---|---|---|
| `Reduction` | `reduce.c` with the modulus of the code | - |
| `Rounding` | power2round, decompose, make_hint, use_hint and the norm checks of c-ref, c-lowram, the contracts and Python | one coefficient on the path of a signature: commit, check, hint, verify |
| `BitPacking` | every packing of `c-ref/poly.c`, the readers of c-ref, of c-lowram (single coefficients by index, z in the buffer of its bytes), of the contracts and of Python | a word is the set of its bits, so that one behaviour covers all values; polyz_unpack_inplace takes a step per store |
| `PolyBuffer` | the union in which c-lowram multiplies by the challenge | 2N cells of 16 bits; one step per iteration of each of its loops |
| `Butterflies` | ntt, invntt_tomont, small_ntt, small_invntt_tomont: how large coefficients become | a bound for each coefficient; one step per butterfly |
| `Transforms` | every caller of the transforms: the operations on one polynomial, in order, up to the rounding or norm check | a queue of operations; `factor`, the operand that waits |
| `RowProduct` | the values: a row of A*z - c*t1*2^d by c-ref and by the contracts, c times a secret by c-lowram | residues in a small field; one step per block of a layer, with the counters into the tables of zetas |
| `Challenge` | SampleInBall of five implementations, c-lowram's compressed challenge, its expansion and its schoolbook products | stream buffer and position, signs, c; the compressed form and the row that uses it |
| `RejectionSampling` | poly_uniform, poly_uniform_eta, poly_uniform_gamma1 and their low-RAM and Python forms | a window on the stream, what is left over in it, the coefficients so far |
| `KeyGeneration` | crypto_sign_keypair of c-ref and of c-lowram; the offsets of every reader | both keys as maps from offsets to contents; the three polynomials; one step per sampled or packed polynomial |

The proofs are in modules of their own: `GeneratorProofs`, `SpongesProofs`, `SignerProofs`,
`VerifiersProofs` (also about `RowProduct`), `SignedMessageProofs`, `CoefficientsProofs` (about `Rounding`, `PolyBuffer`,
`Butterflies` and `BitPacking`) and `SamplersProofs` (about `RejectionSampling`, `KeyGeneration` and the
bounds of `Challenge`); `IntegerLemmas` has what several of them need: division with
remainder, congruences, sums and powers, and induction over the natural numbers. `Sums`
defines sums and powers as recursive functions, whose last step a proof can reach.
`MCPrngPair`, `MCSigners`, `MCVerifiers` and `MCMuHash` give the constants of one module their
values. `MCSponges`, `MCCoefficients`, `MCSamplers` and `MCVerification` (verifiers and products)
bring several modules into one run that have nothing to do with each other's state: a variable (`using`, `part`) chooses which of them a behaviour runs, and the
others stay in an initial state.

On the protocol side mathematical content is abstracted to what it is computed from. A mask
is its nonce, a row of w the set of masks in it, a row of z the triple of challenge, key row
and mask; a hash is its input; a block of a sponge is the set of things XORed into each
place. Two values are equal in such a model when the code computes them from the same
things, so collisions and forgeries are outside it. The outcome of each check of an
attempt is an oracle's answer.

The arithmetic side is about the values themselves. `Rounding` uses the integers and the
modulus of the code. The transforms are modelled twice, because 256 coefficients modulo a
23-bit prime cannot be enumerated: `Butterflies` and `Transforms` follow all 256
coefficients, each as a bound on its magnitude, which is all that overflow depends on;
`RowProduct` follows the values. Its degree, fields and roots are constants: the runs use 8
coefficients and the fields of 17 and 41 elements, which is enough to tell one butterfly, table
index or sign from another; the proof is for every degree and field, those of the code among them.

An operator called "a slip" is not used by any specification: it is a mistake of the
kind the properties must catch, and a property is checked to fail when the definition
that follows the slip is replaced by it.

## The runs

| Run | Checks | Bounds |
|---|---|---|
| `prng_pair` | both generators implement `XofStream`; byte streams agree; fields stay in step | pieces of 1 and 2 bytes, buffer 3, block 2, requests 0, 1, 3, 6 bytes in all: overflow by the first, second or third piece, requests that end inside a block, at its end and two blocks on |
| `sponges` | SHAKE of C and of the contracts hand out the reference output and agree; the streaming Keccak-256 hashes its padded input for every cut of it | blocks of 3 bytes; SHAKE: pieces 0, 1, 2, 4, requests 0, 1, 2, 5, 7 bytes each way, so that every residue of input and output positions and two block boundaries occur; Keccak: pieces 0, 1, 2, 3, 7, 13, the last beyond the 16-bit stand-in of 12, up to 17 bytes, aligned and not |
| `absorb_size` | violation: a size that does not fit 16 bits is cut | blocks of 4, sizes up to 13, 16-bit stand-in 12 |
| `signers` | both implement `SignLoop`; they decide alike and return the same signature; masks fresh; hint section never overrun; both return | 2 rows of each kind, 2 coefficients, 2 hints, 3 attempts, 4 nonces: every row can reject, hints too long, exactly full and shorter than before, and the nonce wraps |
| `verifiers` | low-RAM and contracts agree with the reference; one encoding per hint; honest signatures pass; a row of A*z - c*t1*2^d by c-ref and by both contracts, and a secret times the challenge by c-lowram, are the products of the ring | every signature with 2 rows, 3 coefficients and 2 hints: all hint bytes, count bytes 0 to 3, norms below, at and above the bound; products of 8 coefficients in two columns, in the fields of 17 and 41 elements: all pairs of monomials, with dense ones (a product is linear in each operand) |
| `solidity_bound` | violation: norm exactly at the bound | the signatures above |
| `python_hint` | violation: repeated hint position | the signatures above |
| `mu_hash` | mu is equal exactly for equal context and message, in every implementation | texts over bytes 0 and 1 of up to 2 bytes and one that overflows, contexts to one over the limit |
| `mu_oversize` | violation: messages that do not fit are dropped | as above |
| `signed_message` | both layouts; tampering; clearing | signatures of 2 bytes, messages of up to 4: shorter, equal and longer than the signature |
| `coefficients` | implementations split, check and hint a coefficient alike, and the hint recovers w1; packings agree and are read back; the in-place unpacking and the product in the union are right; no coefficient outgrows its type | the real Q and both GAMMA2; w, c*s2 and c*t0 at and next to every bound the code compares with; 3 groups of each packing, the in-place buffer with its last group and one before; a union of 8 coefficients; the transforms with 256 coefficients for levels 2, 3 and 5 |
| `samplers` | the samplers take the same challenge and the same coefficients; compressed challenge; keys agree and are read alike | 4 coefficients, 3 of them non-zero, streams of 5 bytes with every value; 8 coefficients from 10 candidates that may be rejected, all verdicts; the requests of each implementation scaled, and key sizes of levels 2, 3 and 5 |

The code treats indices, lengths and blocks uniformly: a loop behaves the same at its
second and at its hundredth iteration. So the bounds are chosen to contain every boundary
(empty, one below, exactly at and one beyond each limit, twice around each loop, one
wrap of each counter) and not to be large. Constants named `Max...` bound the model and
stand for nothing in the code; `NonceSpace`, `SizeSpace` and `ByteSpace` stand for 2^16, 2^16
and 2^8. `StreamLen` and `Decided` bound what is left open: behind them a stream is zeros, or
every candidate is accepted.

One instance goes beyond the code on purpose. poly_uniform carries one or two bytes over
from a block to the next, but 168 is a multiple of three, so that in the code as it is nothing
is ever carried. `samplers` also runs it with block sizes that three does not divide. The slip
that `SampledInOrder` is checked against does not depend on them: a later block is shorter than
the first request, and the slip looks at the rest of the old one again.

Deadlock is checked except where the modelled function returns and its model ends
(`signers`, `verifiers`, `mu_hash`, `signed_message`, `coefficients`, `samplers` and the
violation runs over the same modules). The generators and sponges never stop: a context can
always be initialised again.

**Fairness.** Only `signers` has a liveness property. `FairPairSpec` states weak fairness of
the whole next-state relation of the pair, which is what two sequential functions have that
are not interrupted and share nothing. That the loops end also needs an attempt that
passes: the code has no bound on attempts, and the constant `MaxAttempts` makes the
oracle's last answer acceptable. `BothReturn` therefore says that no rejection leaves
indices or counters from which a good attempt cannot be completed; it says nothing of
probabilities.

## What the violations show

* A message that makes the input of mu exceed 4096 bytes is silently left out by the
  c-ref signer and verifier (`mu_oversize`). c-lowram and the contracts hash it. Python raises
  an exception, and says so in a comment.
* c-lowram cuts a piece of 2^16 bytes or more to its length modulo 2^16 (`absorb_size`).
* The contracts accept z of norm exactly GAMMA1 - BETA, the reference does not
  (`solidity_bound`).
* The Python verifier accepts a repeated hint position, the reference does not
  (`python_hint`).

## The proofs

Every theorem is of the form `Spec => []Property`, or says that a specification implements an
abstract one. Each rests on an inductive invariant, found by asking what the property
needs of the state before the step, and model-checked before it was proved. The constants are
arbitrary under the assumptions named below.

### Generators: `GeneratorProofs`

For every buffer size, block length, set of pieces and set of requests
(`KeccakPrngAssumption`, `PrngParametersAssumption`):

* `TypeCorrect`: `Spec => []TypeOK`, for the C generator. The invariant is inductive together
  with the bookkeeping of the output block. The bound on `buffer_len` is the memory safety of
  inject's memcpy.
* `StreamCorrect`: `Spec => []StreamInv`. Four parts are needed together: the block in the
  buffer is the one before the counter (`BufferedBlock`), what was hashed is what was
  injected (`PhasesKept`), the loop starts a block only when the last one is used up
  (`LoopKept`), and the output so far is the next piece of the stream (`OutputInOrder`).
  The last one alone is not inductive: after a step of the loop, the position of the
  next byte follows from the first three.
* `Refinement`: `Spec => ImplementsXof`. With the invariant, each return of extract maps to
  one Squeeze of the abstract stream and each step inside it to a stutter.
* `PoolCorrect` and `SolRefinement`: the word, the counter and the number of unread bytes of the
  contracts' generator stay in step, and it implements the same abstract stream. A byte read
  from a word that is shifted out is none of the stream (`ShiftedIn`), so that the refinement
  needs the first of the two.
* `StreamsAgree`: `PairSpec => []SameStream`. The refinements carry the proof: each side's log
  is the beginning of the stream of its input, as long as what that side has taken
  (`CDrawn`, `SolDrawn`), because every step is a Squeeze of that side or leaves it alone.

`MuHash` extends the C generator, and its callers are proved about over the same invariant.
`MuHashAssumption` says what the code guarantees: the limit on contexts is below the range of
the byte that holds their length, the hash of the key and a context are shorter than 2^16, and
the value for a refusal is no byte string. Messages may have any length.

* `MuCorrect`: `MuSpec => []MuBinds`. The signer ignores what inject returns, so what is hashed
  has to be found in the state: as long as the pieces fit in total, none was refused, the buffer
  holds the ones passed so far, and `buffer_len` is their length (`Collected`), which is why the
  next one fits as well. A call that is over has obtained the join of its four pieces
  (`Obtained`). The join determines context and message: the byte with the length is at a
  place that does not depend on either, and tells where the context ends (`JoinedBinds`).
* `OthersCorrect`: `MuSpec => []OthersBind`. What the contracts and c-lowram hash is the same
  join, and two zero bytes in front of a message are the join with an empty context only.

### Sponges: `SpongesProofs`

For every rate (`SpongePaddingAssumption`), over `SpongesSpec`:

* `SpongesTypeCorrect`, `HashCorrect`, `OutputCorrect`, `OutputsAgree`: the positions stay below
  the rate, the streaming Keccak-256 hashes the padded input, SHAKE of the C code hands out
  the bytes of the sponge in order, and SHAKE of the contracts the same bytes.

All four follow from one account of the input that the three sponges share. The
blocks processed are the first ones of the input (`InputBlocks`), and the bytes that wait are
the first of the next one: in the queue of keccak_update, in C's state, in the buffer of the
contracts. What the sponges differ in is when a full block is processed, and that is what
their invariants (`KeccakInv`, `ShakeInv`, `SolInv`) say. From the padding on, the blocks are
the padded input and then zeros (`StateBlocks`), and the number of blocks, the position
and the number of bytes handed out are tied by one equation. C permutes when a byte is asked
for and the contracts when a block is used up, so that their equations hold at different
points; the byte they give is the same by `Position` (a position has one block and one index).
For keccak_update, `rest` is already what it will be on return while the loop still runs, which
is why its invariant has a case for each stage.

### Signers: `SignerProofs`

For every number of rows, coefficients and hints, every size of the nonce and every set of
outcomes (`SigningAttemptAssumption`). Both signers need the arithmetic of the nonces: a wrapped
nonce gives the masks that the number of the attempt would, also after it was advanced
(`KappaOfRemainder`, `KappaOfNext`), and before it wraps no two attempts share a mask
(`KappaDistinct`).

* `Refinement`: `Spec => ImplementsSignLoop`. The invariant says what each
  of the reused buffers holds at each point: the rows of w contain the masks up to `l_idx` and
  later all of them (`RowsOfW`); the challenge is in `ccomp`, and in `tmp0` for the first row;
  the rows of z below `l_idx` are this attempt's (`RowsOfZ`); so are the rows of the
  hint below `k_idx`, and they passed their checks (`RowsOfHint`). Nothing is said of the
  rest of sig, where an earlier attempt may have left anything. A rejection maps to Retry
  because the row it stopped at fails a check of the outcome; the return maps to Accept
  because by then all rows are this attempt's.
* `HintsCorrect`: the part of that invariant that is about memory safety. A row fits because the
  counter is compared with OMEGA before it is written, and rows already written end where
  it starts.
* `MasksCorrect`: with the set of masks used so far in the invariant (`Rejected`).
* `RefRefinement`: the same for the vector-wise signer, where the work is in
  pack_sig: a position byte belongs to one row only (`OneRow`).
* `SignaturesCorrect`: `PairSpec => []SameSignature`. The pair keeps the low-RAM signer at
  most one attempt behind the reference (`Paces`), and only where the attempt it is in fails a
  check of the outcome. Since a return of either is a step of the abstract loop, what it
  returns is *the* signature of its attempt (`Returned`), and there is only one.
  `BothTypesCorrect` and `PairRefinement` come with it.

### Verifiers: `VerifiersProofs`

For every number of rows, coefficients and position bytes (`VerifiersAssumption`) and every
signature:

* `LowramCorrect`: `Spec => []LowramAgrees`. The rows compared so far were fed with all of
  z and with the decoded hints (`RowsFed`), the accumulator of the running row holds the rows
  of z added to it and nothing of the packed row before (`RowsAdded`), and whatever has passed
  so far passes in the reference (`Verdicts`).
* `SolidityCorrect`, `HonestCorrect`: the contracts and Python against the reference, for the
  properties of the runs with the same names. The contracts have three answers: a call that
  reverts is not one that rejects, and `SolidityAgrees` also says that a hint section the
  reference decodes never makes them revert.
* `CanonicalCorrect`: an accepted hint section is the only one for its hint. By induction over
  the rows: if two sections agree in the rows before, the row starts at the same place; two
  strictly ascending sequences with the same elements are equal, by induction over their
  places; so the row has the same bytes and ends at the same place; and what follows the
  last row is zero.

### The products: `VerifiersProofs`

`ProductsCorrect`: `ProductSpec => []ProductsRight`, for every degree that is a power of two from 4
to 256, every number of columns, all operands, and any two moduli with what the code needs of
them (`RowProductAssumption`): a root whose power N (for c-lowram: N/2) is -1, and inverses
of the Montgomery factor and of the number of blocks. A modulus need not be prime. For
c-lowram the coefficients of the product must lie below half of 3329, which challenges of 60
signs and secrets of eta do. The proof has no arithmetic on 256 coefficients; it is about
one layer, whichever.

* *The tree.* Node 1 is the whole polynomial; nodes 2c and 2c + 1 are the halves of node c. A node
  with blocks of w coefficients stands for the residues modulo X^w - r, r a power of the root
  (`Exponent`). The bit-reversed table has, from entry c on, exactly the roots of the c nodes
  of a layer (`Levels`, `ExponentOfChildren`): the roots of the two halves are opposite, and
  their square is the root of the node (`NodeRoots`).
* *What a layer is.* `Folded` is a polynomial reduced modulo each node of a layer, by definition: sums
  of every w-th coefficient times powers of r. Each layer splits into the next as a butterfly
  does (`FoldedSplits`). The layers of a product are defined independently, as the products of
  the blocks of two folded operands modulo X^w - r (`Blocks`), and they split in the same
  way (`ProductSplits`): a convolution modulo X^2w - r^2, seen modulo X^w - r. A row is
  a sum of them (`RowSplits`). At the top these are the products of the ring (`TreeWhole`),
  at the bottom the products of single coefficients, or of pairs for c-lowram
  (`SmallestBlock`, `PairBlock`).
* *One block of butterflies.* `Halfway` says that the array agrees modulo q with the next layer up to
  `start`, and with the layer before from there on. A block of the forward transform takes it one
  block on when the term is the root of the node times the other half (`ForwardHalfway`); a
  block of the inverse transform does so, doubling the values, when the factor is the
  inverse of the root (`InverseHalfway`).
* *The tables.* That they are is where the implementations differ (`TermsRight`, `FactorsRight`): c-ref and
  c-lowram count k up through one table of Montgomery forms, and down it for the inverse,
  where the entry of the mirrored node is minus the inverse of the root
  (`ReversedComplement`, `OppositeNodes`); the contracts find an entry in one of two
  tables. c-ref negates the entry, c-lowram the difference.
* *The invariant* (`ProductsInv`). What is transformed is the bottom layer of the polynomial it
  is for, whichever form of the key it came from (`HatRight`, `InKeyRight`); what is left to
  transform and what is transformed are all the operands, whatever their order (`TodoRight`); and the
  array in hand is halfway between two layers of its operand, or of the result times a
  power of two and what the Montgomery products left (`HandRight`), with k the entry
  of the block. The last factor takes away what is left (`ScaleRight`), and a
  residue of a small product, centred, is the product (`CentredUnique`).

### One coefficient: `CoefficientsProofs`

Five parts, each over the specification of its module, and the types of all of them.

*Rounding* (`RoundingSpec`, `RoundingAssumption`: the modulus and the two ranges of the code; BETA
below GAMMA2; c*t0 within half the modulus, which 60 coefficients of 13 bits cannot leave):

* `DecompositionsCorrect`: the shifts and multiplications of decompose give the parts that its
  comment promises, for every residue, and Python's and the contracts' remainders the same.
  A residue has one pair of parts (`SplitsUnique`), so whoever finds parts finds the same;
  that the multiplication by 1025 or 11275 finds them is proved for each high part.
* `SignersCorrect`: the check of w0 - c*s2 in c-ref and of the low bits of w - c*s2 in the others
  reject the same coefficients, for either representative that the transform leaves; and the
  hints are equal.
* `HintCorrect`: the hint recovers the high bits, from the bound that the check left on the
  low part (`LowGood`).

*The union of c-lowram* (`BufferSpec`): `ProductCorrect`, for every even number of coefficients
(`BufferAssumption`): the union ends up with the product of the challenge and the
secret. The invariant has a conjunct per loop. While a loop runs, what lies before its index
(in the direction it runs) is its output already, and what lies behind it is still the input
it was given, although both are in the same bytes; a loop that ran the other way would keep
neither.

*The inverse transform* (`InverseSpec`), for every degree that is a power of two with a sum of
that many coefficients below Q in 32 bits (`DegreeAssumption`) and for all inputs below Q:

* `InverseInRange`: invntt_tomont overflows nowhere and multiplies nothing that
  montgomery_reduce is not right for. The invariant follows the three nested loops:
  coefficients that the layer `len` has still to read are at most len * (Q - 1), those it
  has written at most twice that, which is what the next layer starts from.
* `InverseBelowQ`: what it gives is below Q again.

At the degree of the code this is tight. c-lowram's signer hands invntt_tomont unreduced
24-bit values in place of coefficients reduced to about Q/2, and 256 * (Q - 1) = 2145386496
is just below 2^31.

*The callers of the transforms* (`TransformSpec`): `TransformsInRange`, for every degree of
`DegreeAssumption` above 2 (`PairAssumption`: small_basemul takes pairs) and every parameter set
of `ParameterSetAssumption` (at most 60 signs and 60 columns, ranges up to 2^20, and a product
with the challenge that is below gamma1 and within the centred residues modulo 3329; the
sets of `params.h` are). No operation of key generation, of either signer or of either C
verifier outgrows its type: neither the sums that are left unreduced between the transforms nor
the layers of the four transforms. The argument is a typing of the programs.

* A class of polynomials is a bound and a width (`Most`, `WidthOf`): "half" is what a reduction or
  invntt_tomont leaves, with room for gamma1 below Q; "low" is below Q; "sum" is 60 of
  them, "total" two more; "hat" is what ntt leaves after eight layers; the others are those of
  the 16-bit product. `Allowed` says which classes an operation takes and gives, for the polynomial
  and for the factor that waits, and `Leads` that a sequence of operations does so step
  by step. Each of the eleven programs leads somewhere from "low" (`ProgramLeads`).
* Each operation keeps that promise, by the arithmetic of its reduction (`TimesDone`,
  `SumDone`, `AddDone`, `ReduceDone`, `MultipliedDone`, ...).
* Within a forward transform the k-th layer has added at most k + 1 products with a root of unity to a
  coefficient it has written and k to one it has still to read (`LayerInv`); the degree
  is at most 256, because 256 is the last power of two of which so many coefficients fit, so
  that there are at most eight layers (`Degrees`, `LayerLengths`). Within invntt_tomont the
  invariant above holds; within small_invntt_tomont every sum is centred again, and the
  coefficients stay where two of them fit 16 bits (`ShortInverseStep`).
* `TransformInv` puts this together: what is left of the program leads on from a class, and
  either no transform runs and the coefficients are within it, or one runs whose result will be.

`BarrettCentred`: barrett_reduce of any 16-bit integer is centred and congruent to it.

*The packings* (`PackingSpec`), for every number of groups (`PackingAssumption`) and every
coefficient of the range of its format (`FormatAssumption`):

* `BytesCorrect`: every writer of a format gives the bytes of one bit string, that of the fields
  one after the other. A table of shifts is right (`TableRight`) when it moves each word
  by the distance that lies between the two words in the string and leaves out none that
  overlaps; that all nineteen tables are is checked entry by entry (`PackTables`,
  `UnpackTables`). Words gathered by right terms are words of the string (`GatheredWords`), which an
  unrolled loop over any number of groups does (`Unrolled`), and so do Python's
  shifts of one large integer (`ByBits`).
* `RoundTripCorrect`: every reader of every implementation finds the fields in these bytes, with
  the same lemmas in the other direction. The contracts read a field from a window of only the
  bytes it reaches (`UnpackedFromItsBytes`). That a coefficient fits its field and that
  subtracting restores it is arithmetic on the ranges (`FormatRanges`, `Values`).
* `InPlaceCorrect`: polyz_unpack_inplace, in an array of any number of groups. The invariant
  (`GroupInv`) has four parts: the bytes that later terms of the group and the groups before it
  read are still those of the string (`ToRead`); the groups behind are complete
  (`Complete`); so are the rows of this group that have run, in the array or in a local variable
  (`RowsDone`); and the row that runs holds the sum of its first terms (`TermsDone`). It is
  preserved because no row of the program writes where a later term reads (`ProgramOf`), which
  is shown of both programs for every group: coefficients take more room than their bytes, so
  all but the first groups are apart from their own bytes, and in the first it is the order of
  the rows and the local variables that count.

*The types* (`Spec` of `MCCoefficients`): `TypeCorrect`, for behaviours of any of its parts. That the 24 bits
in which c-lowram keeps a coefficient of w never cut it is the range of `Freeze`, which is 0 to
Q - 1 only for arguments near that range (`Frozen`), so that the bounds on w and c*s2 are
needed; that the high part stays below 44 after verification is that the hint recovers it
(`RoundingInv`); the loops over the union stay inside it because N is even (`IndexTypes`).

### Samplers and keys: `SamplersProofs`

Over the specification of `MCSamplers`, whose three parts leave each other's variables alone.

* `SamplingCorrect`: `Spec => []SampledInOrder`, for every size of candidate, byte and request
  (`SamplerAssumption`: who keeps nothing asks for whole candidates; who keeps something keeps at
  most two bytes; the first request is the largest). That the coefficients so far are
  the right ones is not inductive. What is needed besides: the window is a piece of the
  stream that begins where a candidate begins (`WindowInStream`), which a refill preserves
  because exactly the unfinished candidate is kept, or nothing is left over; and all
  candidates between the last coefficient and the one looked at next were too large
  (`NoneLost`), so that an accepted candidate is the first small enough one.
* `TypeCorrect`: the bounds of loops and buffers of all three parts. The one that takes an
  argument is the buffer of poly_uniform: two bytes more than the first request are enough
  because a candidate has three bytes, and because no later request is larger. For the
  challenge it is that the signs left are as many as the coefficients left.
* `ChallengeCorrect`: `Spec => []ChallengeAgrees`, for every size of the challenge, of the requests
  and of the stream (`ChallengeAssumption`). The definition (`Reading`) reads the bytes behind the
  signs one by one and has no buffer. The invariant (`ChallengeRead`) says that the buffer is
  a piece of the stream (`BufferInOrder`) and that the loop has after each byte what the
  definition has after as many (`SampledSoFar`): its coefficients, the signs that are left, one
  coefficient different from zero for each sign used, and none from i on, which is why a
  swap always adds one (`SupportGrows`). An accepted byte behind the last sign would change nothing
  (`ReadingStays`). For c-lowram: the compressed form lists every position that is not zero
  once, in ascending order (`NthRank`, `NthExists`), so that unpacking it gives the challenge
  back (`Unpacked`).
* `SchoolbookCorrect`: `Spec => []SchoolbookProduct`, for every polynomial t0 or t1. The sum over
  the coefficients below m of the whole product is the sum over the positions of the compressed
  challenge that lie below m, by induction over m (`SchoolbookSum`).
* `KeysCorrect`: `Spec => []KeysAgree`, for every parameter set (`LevelAssumption`: sizes
  are positive, and a packed t0 has the 416 bytes that Python writes out). The invariant says
  what c-lowram's keys hold after so many columns and rows (`SecretIs`, `PublicIs`): exactly
  the places of the polynomials packed so far, each with the polynomial of its index, and at
  no place two of them. For that, the vectors of a key must lie apart (`Apart`), and the
  offsets of c-lowram, the pointer of pack_sk and the slices of Python must be the same
  places (`Offsets`). The same is proved of the keys c-ref packs at once, and two
  keys of which it holds are equal (`OnePublic`, `OneSecret`).

### Signed messages: `SignedMessageProofs`

The three properties of crypto_sign and crypto_sign_open (`SignCorrect`, `OpenCorrect`,
`ClearCorrect`), for every length of signature and message and both layouts. As for the union,
a loop has a conjunct for what it has copied and one for what it has still to read; the
layouts differ only in why the byte it writes is not among the latter. That a changed message
does not verify (`TamperedFails`) rests on one byte of the signature that is intact and
names the whole text.

### What is model-checked only

* `BothReturn`: liveness is out of the prover's reach, and so is ENABLED.

The library's induction and recursion theorems take an operator as a parameter, which the
provers at hand cannot instantiate. Where an argument is by induction all the same, as in
`CanonicalCorrect`, it looks at a least counterexample (`LeastNatural` in `IntegerLemmas`, derived
from the library's theorem that a non-empty set has a minimal element under a well-founded
relation). Where a definition is recursive, as `Reading` and `SumOver` of `Challenge` are, one first
shows that a function with that recursion exists (`RecursiveFunction`, for a step that is
itself a function on a set); then the function the definition chooses satisfies the recursion
(`ReadingSteps`, `SumSteps`). No module that is proved about declares a recursive operator.

## Not modelled

* the Keccak permutation: a sponge is its blocks;
* the numbers in the tables of zetas. That they are the powers of the root that `RowProduct`
  defines is what `precomp.gp` generates and the comments say; the model is about how the
  code walks through them. That 1753 and 17 are roots of the order the assumption of
  `RowProduct` asks for is arithmetic on two numbers;
* the transform of the Python package, which is a git submodule and not in the repository,
  and the algebra in `modules.py` on top of it;
* the random seeds of keys and the random generator of the known-answer tests: they come
  from outside or exist for tests;
* `PKContract` (a constructor that stores a key and a getter), the precompile variants (calls of
  contracts that are not in the repository), the classical signers, deployment scripts, the
  ledger images, `dilizkium` (research notes);
* null-pointer checks of the generator, the `printf` of mu in `c-ref/sign.c`;
* SHAKE-128 (the same functions with another rate) and SHA3 (not used).

## Plan

1. *Done*: generators with their abstract stream; sponges; the two signers against one
   abstract loop and against each other; the verifiers; signed messages; mu; all with proofs.
2. *Done*: the challenge, rejection sampling, key generation.
3. *Done*: rounding and hints, the union of c-lowram, the size of coefficients in the
   transforms and in their callers, and packings, with proofs; the products.
4. Proofs: *done* for the samplers, the challenge and its products, the keys, the packings,
   the callers of the transforms, the products by the transforms, and every invariant of
   every run.
5. The signers over `KeccakPrng` in place of an atomic hash.
