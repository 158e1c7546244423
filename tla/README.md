# ETHFALCON in TLA+

ETHFALCON brings the Falcon post-quantum signature scheme to the Ethereum virtual
machine: contracts that verify signatures, a variant (Epervier) from whose signatures
the public key is recovered, an account that acts on a Falcon signature, and the
signers off chain: a Python reference with a command line tool, which also writes the
Solidity tests, and C with Go bindings. The modules here model the parts of it whose
control flow can go wrong in ways tests hardly reach. TLC checks them on small
instances; TLAPS proves what matters most for every instance.

`PROJECT.json` is the index: the components with their source files, the runs, the
lines each definition stands for (`map`), the hazards, the theorems, and the mutants,
faulty versions of an action or a helper (they stand beside it, marked "A fault")
under which a property fails.

To check a run or a proof, in this directory:

    tlc -workers 2 -config Delegate.cfg Delegate
    tlapm DelegateProofs.tla

## 1. The system

Who talks to whom. A signer (Python, C) hashes salt and message to a point with an
extendable-output function, samples a short pair (s1, s2) with random bytes from a
buffered generator, repeats until the pair is short, and encodes s2 (or both, for
Epervier). A verifier contract decodes, hashes to the same point, multiplies in the
NTT domain, and accepts if the pair is short; Epervier's contract recovers the key
instead, with the help of a hint. A delegated account calls a verifier before it
carries out an operation. The command line tool passes keys and signatures from one
process to the next in files; the test-vector scripts sign with the Python signer and
write Solidity tests that call the contracts. Nothing on either side runs concurrently
inside one call; what is hard is *re-entrancy and rollback* in the delegate, *buffers
whose boundaries fall anywhere* in the sponges, generators and samplers, *the same
algorithm written two or three times* in different shapes that must agree, *raw memory*
in assembly, *retry loops* in key generation and signing, and *files that a killed
process leaves behind*.

| Component | Source | State | Operations | Hard behaviour | What makes it correct | Module |
|---|---|---|---|---|---|---|
| Delegated account | `src/ZKNOX_delegate_7702.sol` | verifier, key, algorithm and nonce, in storage the EVM rolls back | `initialize`, `transact`; views | re-entrancy from the call it makes, rollback at any depth, second `initialize` | a nonce is spent once, only what was signed is carried out, the key stays | `Delegate`, `AuthorizedLog` |
| Counter-mode PRNGs | `python-ref/keccak_prng.py`, `blake2s_prng.py` | input buffer, counter, output buffer with position and length | `inject`, `flip`, `extract` | reads that end inside, at, or beyond a block; order of calls | one stream, however it is cut | `CtrPRNG`, `Xof` |
| SHAKE-256, eager | `src/ZKNOX_shake.sol`, `python-ref/keccak.py`, `shake.py` | state, block buffer, position | `update`, `pad`, `squeeze`, `digest` | as above; permutation at the end of a block | one stream; the same bytes as in C | `Shake`, `Xof` |
| SHAKE-256, lazy | `falcon/nistfalcon/src/shake.c` | state, `dptr` | `inject`, `flip`, `extract` | a permutation that is owed | the same bytes as in the contract | `InnerShake`, `Sponges` |
| Chained XOF | `python-ref/keccaxof.py` | last hash, what is left of it | `update`, `read` | reads across hashes | one stream | `KeccaXOF` |
| Hash to point | `src/ZKNOX_HashToPoint.sol`, `python-ref/falcon.py`, `common.c` | stream position, buffer or word, point | rejection sampling | a buffer that ends between samples, two nested loops and one break | the same point everywhere | `RejectionSampling`, `HashToPointNIST`, `HashToPointRIP`, `HashToPoint` |
| Constant-time hash to point | `common.c` | array of samples, pass | in-place passes | passes over each other's results | order kept, rejected samples gone | `CtSqueeze` |
| Signer's random bytes | `rng.c`, `inner.h`, `sign.c`; `python-ref/rng.py` | buffer, pointer, block | `prng_init`, `get_u64`, `get_u8`, refill; `randombytes` | a refill in the middle of a sample | in bounds, no byte twice | `Rng` |
| Gaussian sampler | `python-ref/samplerz.py` | base, sign, threshold, bytes compared | `samplerz`, `basesampler`, `berexp`, `approxexp` | a lazy comparison, a fixed-point exponential | each sample accepted as its threshold says | `SamplerZ` |
| Fourier transform | `python-ref/fft.py`, `fft_constants.py`, `common.py` | -- | `split`, `merge`, `fft`, ring operations in two forms | the order of the roots in ten tables | the tables hold the roots in order, the two forms agree | `FfSampling` |
| Fast Fourier sampling | `python-ref/ffsampling.py` | the tree | `ffldl`, `ffnp`, `ffsampling` | halves, adjoints and the order of a walk | the errors of rounding are the length | `FfSampling` |
| Key generation | `python-ref/ntrugen.py` | f, g, F, G over a tower of rings | `ntru_gen`, `ntru_solve`, `reduce` | an error from the bottom of a recursion, retries, an inexact reduction | f G - g F = q | `NtruGen` |
| Secret key | `python-ref/falcon.py` | basis, tree, public key | `__init__`, `sample_preimage` | signs and orders over four products | s0 + s1 h is the point | `SecretKey` |
| Signing and verification | `python-ref/falcon.py`, `falcon_recovery.py`, `falcon_epervier.py` | salt, point, signature bytes | `sign`, `verify`, `recover` | retries; which inverse, which form of the key, which XOF | signer and verifier agree, nothing else is accepted | `FalconRing`, `Falcon` |
| Verification core | `src/ZKNOX_falcon_core.sol`, `ZKNOX_falcon.sol`, `ZKNOX_ethfalcon.sol` | memory with three arrays | `verify`, `falcon_normalize` | offsets and addresses under one bound, expansion over a live array | a short pair is accepted, no other | `Normalize`, `Contracts` |
| Key recovery | `src/ZKNOX_ethepervier.sol`, `ZKNOX_epervier.sol` | prefix, inverses, sum | `recover` | three walks over arrays, one sum for many comparisons | the key recovered fits the signature | `Epervier`, `Contracts` |
| Former and experimental contracts | `src/deprecated`, `src/experimental` | -- | `verify`, `recover` | four layouts of the same arguments | their tests agree with the Python signer | `Contracts` |
| Signature and key encodings | `codec.c`, `python-ref/encoding.py`, `src/ZKNOX_falcon_encodings.sol`, `ZKNOX_falcon_utils.sol` | bit accumulator, read or write position | encoders and decoders | the accumulator empties anywhere; leftover bits; forbidden values | one code per polynomial, the same reading everywhere | `Compression`, `CompEncode`, `CompDecode`, `DecompressSig`, `FixedWidth`, `Codec` |
| NTT configuration | `src/ZKNOX_NTT.sol` | table addresses, antifuse | `update`, `make_immutable` | who may change the tables, and until when | final once sealed | `NttConfig` |
| Command line tool | `python-ref/sign_cli.py` | key and signature files | ten commands | a kill between two files; versions that decide the XOF in two places | valid exactly for the key and data that were signed | `SignCli` |
| Test-vector scripts | `python-ref/generate_*.py`, `makefile` | test files, a deterministic stream | nine scripts, which import the first | files written again by imports, kills, one stream over all retries | complete, reproducible, and the contracts answer as Python | `Vectors` |
| Transforms | `src/ZKNOX_NTT*.sol`, `vrfy.c` | array, in place | forward, inverse | indices of butterflies | product of polynomials | no |
| Signing and key generation in C | `sign.c`, `keygen.c`, `nist*.c`, `epervier16.c`, `fpr.c`, `fft.c` | | | big integers with short words, software floating point | | no, but for the bytes it draws and its encodings |
| Verifier configuration, table deployment | `src/ZKNOX_falcon.sol`, `ZKNOX_falcon_deploy.sol` | | | | | no |
| Go bindings, precompile, interfaces, known-answer data, `external/`, `hash/` | | | | | | no |

## 2. The modules

### The delegated account: `Delegate`, `AuthorizedLog`

The EVM can undo everything a call did, so the state is not an account's storage but
the whole *world* (all accounts) and a *stack* of the worlds the open call frames
would revert to. `initialize` and `transact` follow the code's requires in their
order; `transact` stops where the code calls out, with a frame open, and anything may
happen before `Return` or `Revert` closes it: further calls to either function on any
account (re-entrancy), frames of the callee's own (`Enter`), reverts further out.
`log` is a history variable: the operations an account carried out.

Cryptography is abstracted to what verification decides: a message verifies under a
key iff the holder signed it (`signed`). Signing happens between transactions. A call
that fails one of its requires changes nothing and is no step.

`AuthorizedLog` is the promise: per account, a log of signed operations that is only
extended, entry number n bearing nonce n - 1, all under one key. `Delegate` implements
it; its log is the log of the world the chain would settle on (`Settled`), the
outermost revert target.

### Extendable-output functions: `Xof`, `CtrPRNG`, `Sponge`, `Shake`, `InnerShake`, `Sponges`, `KeccaXOF`

`Xof` is the promise: the k-th byte to come out is a function of what was injected
and of k. `CtrPRNG` (a hash in counter mode; the two Python classes differ in the hash
only), `Shake` and `KeccaXOF` (a hash applied to its own output) are shown to
implement it. A byte of output is named by where it
comes from (state, block, place in the block), never by a value, so two bytes are
equal only if they have to be. The loops of `extract`, absorb and squeeze are one
action per pass.

`Sponge` holds what the two SHAKEs share. The permutation is a free function: a
permuted state is the sequence of blocks mixed into it; XOR is symmetric difference
on cells. `Shake` permutes when a block is full; `InnerShake` when a byte of the next
is wanted, so it may *owe* a permutation. `Sponges` makes the same calls to both. The
code would let a caller absorb after padding or pad twice; no caller does, and the
callers here do not (stated in `Shake`).

### Hashing to a point: `RejectionSampling`, `HashToPointNIST`, `HashToPointRIP`, `HashToPoint`, `CtSqueeze`

A stream of 16-bit samples is any function from positions to values.
`RejectionSampling` is the loop of Python and of C's variable-time version and the
reference for the two loops of the contract: over squeezed blocks
(`hashToPointNIST`; `hashToPointTETRATION` has the same loop over 16 samples), and
over counter-mode words with two nested loops (`hashToPointRIP`). `HashToPoint` runs
the three in step over one stream, and `CtSqueeze` beside them. A sample straddles no block, because the rate is
even; so the unit is the sample and not the byte.

`CtSqueeze` is C's constant-time version: samples are named by the order in which
they were drawn, and the logarithmic passes move them down in place.

### Random bytes and the sampler: `Rng`, `SamplerZ`

`Rng` holds two generators of the same stream of blocks, that of C and that of Python,
driven by the same sampler (base sample, sign, lazy comparison byte by byte, next
attempt). Bytes are named by block and place.

`SamplerZ` is that sampler with its values: the tables `RCDT` and `C` of `samplerz.py`
as they are, the polynomial of `approxexp` in 63-bit fixed point, the halvings and the
shift of `berexp`. It takes an action of `Rng` and adds the values to it, so the bytes
counted there are the ones drawn here. Python computes `x` in floating point; the
model computes it in fixed point from fractions, which is what `approxexp` makes of it
in its first line. Integers wider than TLC's
are lists of digits to base 4096.

### Encodings: `Compression`, `CompEncode`, `CompDecode`, `DecompressSig`, `FixedWidth`, `Codec`

`Compression` is Python's `compress` and `decompress` on strings of bits, which is
also the definition of the format. The byte-wise versions keep an accumulator:
`CompEncode` and `CompDecode` (C), `DecompressSig` (the contract, which reads memory
and does not know where the signature ends). `FixedWidth` is the family of codecs with
a fixed number of bits per coefficient, which differ in what they refuse. The
accumulator is the sequence of its `acc_len` low bits: its other bits are never
looked at. `Codec` has a caller encode or decode once, and lets the contract read the
same memory that C's decoder reads. Left out: a null output buffer (asks only for the
length) and the header of a test vector. The packing of coefficients into words is in
`Contracts`.

### Verification and recovery: `Normalize`, `Epervier`, `NttConfig`

`Normalize` keeps raw memory, one cell per 32-byte word, with the arrays where the
allocator puts them, because the loops of `falcon_normalize` mix offsets and
addresses. The product s2 * h is an input.

`Epervier` is `recover` from the expanded polynomials on. Multiplication modulo q, the
transform and the norm of a coefficient are constants with the assumptions the code
needs of them. Coefficients are below q, as the norm and the hash leave them.

`NttConfig` is the configuration half of `ZKNOX_NTT`.

### Keys and preimages: `FfSampling`, `NtruGen`, `SecretKey`

These are the pure algorithms of the Python signer, joined by the two loops that call
them. `FfSampling` has `fft.py` over exact numbers. In place of floating-point complex numbers it
takes a + b i modulo a prime P, where -1 is no square and P + 1 is a multiple of 2048
(8191): a field in which the roots of unity of `fft_constants.py` exist with the same
conjugates, so that an identity of the code's complex numbers is one here; rounding
errors are left out. The ten tables of `fft_constants.py` are there entry by entry. All
their entries are on the unit circle, so one is written as its angle, the multiple of
half a turn over 1024 that its digits stand for (they differ from it by less than
3e-15); a transform looks its root up in the table, as the code does, and
`TablesHoldRoots` checks the tables themselves: that each holds the roots it should, in
the order in which split and merge pair them, and with the symmetries that the comments
between them state.

It has `ffsampling.py` and `normalize_tree` too. What integer comes out at a leaf
is an argument: a function for `ffnp`, a tape for `ffsampling_fft`.

`NtruGen` is `ntru_gen` as a state machine: draw, check, go down the tower of field
norms one level an action, solve at the bottom or raise, come up one lift at a time,
reduce in passes, return or try again. A pass of `reduce` subtracts *some* multiple of
(f, g), which the code computes in floating point; the model takes any, so the equation
is shown to hold whatever rounding does. Whether the Gram-Schmidt norm is too large is
left open too, but for the part of it that is an integer. The recursion of `karatsuba` over
halves and the loops of `xgcd` and `bitsize` are recursive functions, of the length and of
the number they go down on.

`SecretKey` makes the key of what `ntru_gen` returned, and samples one preimage with it.

### Signatures: `FalconRing`, `Falcon`, `Contracts`

`FalconRing` has the parameters, the ring, the parts of a signature, byte by byte, and
the pure halves of `verify` and `recover`. Hashes are constants: a hash is a point that
depends on the XOF and on all it absorbed, in its order. An address is the polynomial
(or transform) it was made of.

`Falcon` is one signer and one verifier, in one of the three classes. The loop of `sign`
ends with any preimage that passes its checks; then the signature is delivered, or with
another message, another XOF, a bit of it flipped, or its last byte lost.

`Contracts` has what a call of each contract answers, from its length checks on; the
loops that stop a coefficient early do so here as well (`NormUpTo`). The sum of
`falcon_normalize` and the walks of `recover` are functions here; `Normalize` and
`Epervier` are the same code step by step. That the loop over s2 is never entered, so
that no coefficient of s2 counts, follows from the memory in `Normalize`
(`EpervierProofs`); `Contracts` has only the sum that is left.

### Files: `SignCli`, `Vectors`

In `SignCli` each command is a process that starts when the one before has ended.
genkeys and sign open a file, which empties it, and write it when they close it, in
steps between which they may be killed; the other commands read and print. genkeys
closes the public file before it opens the private one: killed there, it leaves the new
public key beside the old private key, which is complete and signs on. `signature`
draws its bytes from a SHAKE that is read without having been padded, as the code does.
A signature is a history: it is made of the key in the private file at that time.

In `Vectors` a state is the test files on disk and the place in the run of
`make generate_test_vectors`: the script, whether it still runs its import of the first
one, its loops over files and messages, and how much of its stream is read. A script
writes through a buffer; a kill leaves a prefix of each open file. What a vector
asserts is checked against `Contracts`: that is the test `forge` runs.

## 3. Runs

Deadlock is checked where the system goes on for ever (`delegate`, `rng`,
`ntt_antifuse`), and is off where the calls it models end.

| Run | Module | Bounds | Shows |
|---|---|---|---|
| `delegate` | `Delegate` | 2 accounts, 1 key, nonces 0 and 1, 3 frames | no nonce is spent twice, nothing unsigned is carried out, a settled key stays, and the abstract log is implemented |
| `xofs` | `MCXofs` | blocks and hashes of 3 bytes, pieces and reads that end inside, at and beyond one, messages of up to 7 bytes, 9 to 14 bytes out | every object is one stream of one message (`ImplementsXof` of the sponge, `AreXofs` of the PRNG and the chain), the two SHAKEs agree (`SameSponge`), every call returns |
| `hash_to_point` | `HashToPoint` | 3 coefficients from every stream of 6 samples, blocks of 3, words of 2; 11 samples squeezed to 3 in 4 passes, every pattern of rejections | the three loops find the same point, the first samples accepted; the passes squeeze out what was rejected and keep the order |
| `rng` | `MCSamplerZ` | words of 8 bytes, buffers of 23, 2 buffers; 2 centres, 2 deviations, 3 draws, the tables of the code | reads are in bounds, no byte serves twice, C and Python draw the same ones; the exponent is not negative, the exponential halves, a lazy comparison answers as a whole one |
| `codec` | `Codec` | 2 coefficients, bytes of 3 bits, every memory of 4 bytes, every length | one code in three languages, one code per polynomial in C, the contract reads what C reads; the codecs of fixed width |
| `on_chain` | `MCOnChain` | recovery: 4 coefficients modulo 17 with a real transform, every hint; `falcon_normalize`: 4 coefficients 0 or -1 modulo 17, two to a word; the two share n, q and the bound | a hint passes iff it is the inverse, the key recovered fits, the right hint recovers; writes stay in s1, a short pair is accepted |
| `secret_key` | `MCSecretKey` | degree 4, modulus 17, six pairs f, g (some without a solution or without an inverse), quotients of 0 and 1, one pass of `reduce` a level, 2 points, 2 tapes; the tables of all ten degrees | f G - g F = q, the two forms of the transforms and trees agree, the sample is a preimage and as long as its rounding errors |
| `falcon` | `MCFalcon` | degree 2 modulo 12289; signing: 2 messages, 1 salt, 4 XOFs; scripts: 9, 2 messages, 1 kill, in the second or the fifth; command line: 2 keys, 2 data, 2 calls of `genkeys`, one signature exactly as long as the bound | what is signed is accepted, what is accepted is a preimage; the tests written pass, and are the same at every run; a signature is valid exactly for the key and data of its file, on the chain too (unless s2 = 0); a session of `make` ends |
| `ntt_antifuse` | `NttConfig` | 2 tables | `ImmutableTables` is violated |
| `normalize_short` | `Normalize` | 4 coefficients 0 or -1, bound 4 | `AcceptsOnlyShort` is violated by a pair above the bound whose sum is below it |
| `codec_zero` | `Codec` | as `codec` | `NoMinusZero` is violated |
| `sign_tx` | `MCFalcon` | as `falcon` | `SignTxPrints` is violated |

Several runs check modules that do not interact side by side (`xofs`,
`hash_to_point`, `on_chain`, `falcon`). There the next-state relation is a disjunction of theirs, and a flag chosen
in the initial state says which of them moves, so that their states are not multiplied.

Why the bounds are enough. What goes wrong with buffers goes wrong where a call ends
inside, exactly at, or beyond a block; three bytes per block and calls of up to two
blocks and one byte give every such case in every sequence. The sizes of `rng` are
not multiples of each other, so that samples end everywhere in a buffer. In `codec` a
byte is a sign and two low bits, and the accumulator takes every length from empty to
a byte less one; the widths stand to a byte as 14, 5 and 16 stand to 8 (more than one
byte; less than one, so that a byte may complete two coefficients; two bytes).
`delegate` needs two accounts to call across, a second account being all others, and
three frames for an inner frame that reverts between two that do not.

The tower of `secret_key` has two levels above the bottom, one whose solution is lifted
and one that lifts what was lifted; its pairs f, g include those with which the bottom
raises, at once and after a retry. Degree 4 is the least at which the two halves of a
node of the tree differ in their descendants. In `falcon` the parameters are the code's
for n = 2, bounds and byte lengths included. The preimages are the nearest to each
point, one beside them, one without an inverse and one that is too long, so that each
check of the loop of `sign` passes and fails; for the command line there is one whose
squared norm is the bound itself, where Python and the contract compare differently. The scripts are all nine, since what can
go wrong is between them: they import the first one and share
its file; one kill in a script that imports and one in a script that keeps two files
open stand for the rest. Two keys and two data are what a stale file can be told by.

Where a bound cannot be argued the theorems below take over.

### Where the code and its documentation part

* `ImmutableTables`: the antifuse of `ZKNOX_NTT` is set from the constructor on and
  lets `update` through when it is set, so `make_immutable` changes nothing
  (`src/ZKNOX_NTT.sol:113-135`).
* `AcceptsOnlyShort`: the third loop of `falcon_normalize` compares an address with
  an offset's bound and is never entered, and the first leaves out the last
  coefficient, so s2 and the last coefficient of s1 do not count
  (`src/ZKNOX_falcon_core.sol:64-96`; compare `doc/specification.md:88`). The run finds
  a pair whose squared norm is above the bound accepted, its sum being below.
* `NoMinusZero`: "-0" is said to be forbidden and the check is commented out; it is
  read as q (`src/ZKNOX_falcon_encodings.sol:97-101`).
* `SignTxPrints`: `sign_tx` verifies what it has signed with `verify_signature`, and
  leaves out the version that it requires, so it always raises
  (`python-ref/sign_cli.py:389`; compare `doc/example.md:94`).

Read off the code while modelling, and not checked by a run of their own:

* the norm loop of `recover` also leaves out the last coefficients
  (`src/ZKNOX_ethepervier.sol:89`; modelled as it is in `SumNorm` and `NormUpTo`);
* `falcon_normalize` compares strictly with the bound; C, Python and `recover` do not.
  A pair exactly as long as the bound is still accepted on chain if s2 or the last
  coefficient of s1 is not 0, since they are not in the sum. `ValidOnChain` therefore
  leaves out s2 = 0, and the instance has a signature of exactly that length;
* `randombytes` of `rng.py` and `prng_get_u64` differ when exactly 9 bytes are left
  (`SameBytesUnlessExact` says that they differ nowhere else); the comment in
  `inner.h:561` says "less than 9" where the code has `>=`;
* `comp_decode16` takes 2047 for a negative coefficient and passes words from 0x8000
  on (`FixedWidthCodes` is stated for coefficients below the bound);
* `decompress` of `encoding.py` raises, instead of answering False, when the
  signature is all zeros or a single bit is left; `verify` then raises too
  (`SameReading` says that it does neither on what the C verifier reads);
* `update` and `updateNTT` of `ZKNOX_falcon` set fields nothing reads;
* the docstring of `approxexp` gives a scale of 2^63, the code returns one of 2^64
  (`python-ref/samplerz.py:81-98`);
* `KeccaXOF.read` turns only two bytes of what it returns into a number, which is what
  its one caller asks for;
* `signature()` of the command line tool reads its SHAKE without a `flip()`, so what is
  pending is mixed in only at the next permutation; the comments there promise RFC 6979
  and the secret key, and what is absorbed is `sk.h` (`python-ref/sign_cli.py:115-124`);
* `verify_signature` never sets an XOF for `falconrec`;
* `recover_on_chain` and its twin for transactions build their call by hand: the first
  gives a signature with a comma too many (`sign_cli.py:202`), the second has eight
  places for seven arguments and always raises (`sign_cli.py:272`);
* `print_signature_transaction` would be called with an argument too many
  (`sign_cli.py:390`), if the line before it ever returned.

### Fairness

Only loops inside one call have it, and one scheduler.

* The passes of `extract`, of absorb and squeeze, of `read`, of the sampling loops and
  of `recover`. A call once entered is not interrupted in this code -- no threads, no
  awaits -- so weak fairness of its passes is what the machine does. `EveryCallReturns`
  of `xofs` rests on it. Nobody is obliged to make a call.
* `MakeGoesOn` of `falcon`: a script that runs goes on, and `make` is started again
  after a kill. It is weak fairness of `Make`, written with the condition that enables
  `Make` in full, which TLC evaluates faster. Kills are not fair and their number is
  bounded (`KILLS`). `MakeSessionEnds` rests on it.

`delegate`, `rng`, `codec`, `secret_key` and the rest of `falcon` are safety only. That
the retry loops of the sampler, of `sign` and of `ntru_gen` end is a matter of
probability, which fairness does not express: a fair loop that retries may retry for
ever.

## 4. Theorems

`DelegateProofs`, for any accounts, keys, operations, number of nonces and depth:

* `Invariance`: `IInv`. `EachNonceOnce` alone is not inductive: a revert brings back
  an earlier world. `IInv` says that *every* world on the stack is good, and that the
  worlds nest: each grew out of the ones below it, by signed operations at the
  positions they name, under the key settled then (`Grew`, which is reflexive and
  transitive). A step either extends the innermost world or drops it.
* `NonceSpentOnce`, `OnlySignedExecuted`, `KeyForGood`, and `Refinement`
  (`ImplementsAuthorizedLog`): when the last frame closes, what the chain sees grew
  from what it saw before.
* Assumed: the empty address and address 0 are neither keys nor verifiers.

`EpervierProofs`, for any number of coefficients above 1, any modulus, and any hint:
`Invariance`, `OneSumIsEnough`, `RecoveredKeyFits`. Forward products chain from the
left, backward ones from the right; where they meet they make one *whole*, the same at
each place, so the sum that is checked is n times its distance from 1, and vanishes
only with it. Of multiplication it is assumed that it is closed, commutative,
associative and has 1 as a unit; primality is not needed. A further theorem says that
a hint is refused only if its product with all coefficients is not 1, the product
being where the forward chain ends.

`RightHintAlways`: if the hint is that inverse, the walks give every
coefficient its own inverse, by the same two chains, and `recover` goes on.

The module also proves, for any number of coefficients, in all and to a word, any modulus
and bound, and any place of the arrays, what `falcon_normalize` does keep of its
promises: `WritesInS1Always` and `AcceptsShortAlways`. They are theorems of
`OnChainSpec`, which has it beside `recover`. The invariant is `Normalizing`. Memory is
as it was loaded up to the length of s1 (`Kept`), and behind it are the coefficients of
the words of s2 that were expanded (`Copied`). The sum is that of the first
coefficients of s1, one less than `offset` (`Summed`). Since s1 starts at an address above n (the hash
lies between), the third loop, which compares an address with n, is never entered, and
what is compared with the bound is the sum over s1 but its last coefficient: at most the
squared norm. That it is *only* at most is what `AcceptsOnlyShort` shows.

`SamplerZProofs`, for any size of a word and of a buffer that holds more than a word and
a byte: `Invariance`, `InBounds`, `SameUnlessExact`, `BytesUsedOnce` for `Rng`, whose
sampler takes any course. The invariant gives each generator a place behind all it has
handed out; the two are at the same place, or the Python one is at the end of the buffer
before the one at whose beginning the C one is, for Python refills when it needs a byte
and C when it has used one. Every draw takes consecutive bytes from that place or from
the next buffer. `SamplerDraws`: the sampler with its values takes steps of `Rng` only
(a refinement with the identity as mapping), so all this holds of it.
`ExponentAlwaysNotNegative`: a candidate is at least z0 away from the centre, and what
is taken off its exponent is z0^2 over the largest deviation; for any centre, and any
deviation below that.

`SpongesProofs`, for any rate: `Invariance` and `Refinement` (`ImplementsXof`) of the
eager SHAKE, `SameSpongeAlways` of the eager and the lazy one. The invariant says in
each phase of a call what has been mixed into the state, what is in the block buffer,
and which place of the stream the next byte has. The lazy sponge is the eager one, with
a permutation owed exactly when `dptr` is at the rate. The invariant that TLC had
checked was not inductive: it needed that a call ends before the next begins
(`CallsInOrder`), so that nothing is left to absorb once the message is closed.

Of the counter-mode PRNG there are `CtrInvariance`, `CtrStreamCorrect` and `CtrRefinement`,
for any block size: the invariant ties the number of bytes extracted to the counter and to
what is left in the buffer, and division with remainder gives the place of every byte in the
stream.

The module also has `AreXofsAlways`, about the specification with all four objects: the
counter-mode PRNG by the invariant just named, and the chained hash by the invariant `Chaining`: what was read and then what is left of the
digests are the digests in their order, whole ones, so that a hash is taken only when
nothing is left. Its abstract `flip` is the first hash.

`HashToPointProofs`, for any modulus, number of coefficients, sizes of block and word,
and stream: `FirstAcceptedAlways` and `SamePointAlways` (the three loops have read
the same number of samples and found the same point: `InStep`), and `SqueezedAlways` for
the constant-time variant. `Squeezing` says what pass p has reached: the i-th valid
sample, which is to move down by the number of rejected ones before it, has moved by
that number modulo 2^p; so in pass p it moves by 2^p or stays, two valid samples never
meet, and the slot a sample moves to is free when the pass gets there.

`VectorsProofs`: `Invariance`, `ReproducibleAlways`, for any ring, hash, sampler and
stream. `ComesTo` is the run of a script by itself, as a sequence of states, each of
which follows from the one before and from the stream. `Making` says that a script that
runs is at a state of its own run (whoever started it, and whatever was killed before)
and that each complete file is what such a run ends a file with; two runs that end the
same file are one.

`CodecProofs`, for any number of coefficients, of low bits and of bytes, and any largest
coefficient that the code's assumption allows (MAX + 1 is a multiple of 2^LOW):

* `SameCodeAlways`: `comp_encode`, byte by byte, writes what `compress` makes of the
  whole. `Encoding` says that what is written, and then what is in the accumulator, is
  the code of the coefficients done.
* `OneEncodingAlways`: `comp_decode` accepts exactly the codes of polynomials, and each
  as the code of what it returns, so a signature is not malleable. `Decoding` has two
  halves. `Read`: the code of what was read, then the accumulator, then what is left in
  memory is what was received. `Foreseen`: if what was received is the code of any
  polynomial, then that one begins with the coefficients that were read. This rests on
  the code being prefix-free (`OneBegun`): what has begun as the code of a coefficient
  is the beginning of its code, and the next bit tells if that is all.
* `ContractReadsCodeAlways`: what `_decompress_sig` returns is, but for "-0", what memory
  begins with. `Storing` gives "-0" a code of its own, so that in each phase the codes of
  what is stored, what has begun, the accumulator and the rest are the memory (`UpTo`);
  the assumption on the length of memory gives it a byte whenever it reads one (`Room`).
* `SameReadingAlways`: what `comp_decode` accepts, the contract and `decompress` read as
  the same polynomial. `Alike` says that the contract has stored the residues of the
  coefficients that C accepted: each next code in memory is that of the next coefficient
  (`NextStored`), so it cannot revert within the signature. For `decompress`, a pass takes
  one code off (`ParseIs`), so after k passes the first k coefficients are read and the
  codes of the others are left (`After`); the zeros that it strips end at the one that
  ends the last code (`StrippedIs`).
* `FixedWidthCodesAlways`: for any width of a number mod q (`modq`), of a small coefficient
  (`trim`) and of a word (`modq16`, `comp16`), and for any number of bytes.
  While encoding (`Laying`), the bytes and then the accumulator are the codes of the
  coefficients done. While decoding (`Cutting`), the accumulator is the part of what has
  arrived between the coefficients taken and the bytes loaded, and each coefficient is
  the value of its own piece, by index (`Taken`); a byte is loaded only if one is needed
  (`Needed`), so an accepted encoding is as long as its encoder would make it. Assumed of
  the widths (`WidthAssumption`): a number mod q fits its code, and a byte never completes
  two coefficients of a codec that takes one a byte.
* What these need to know of `FlattenSeq`, of binary numbers and of powers of 2 is
  proved here from their definitions. Powers come from counting: the subsets of a set
  with one element more are twice as many.

`NtruProofs`, for every degree that is a power of 2 (up to 1024, as in the code), any modulus
above 1, any short f and g that are drawn and any integer quotients of `reduce`:

* `SolvesRightlyAlways`, of `ntruSpec`. The invariant is `IInv`. On the way down (`Tower`),
  each level is the field norm of the one above it, and half as long. On the way up
  (`Solution`), F and G have the length of the level reached and solve its equation. What is
  given up has a common divisor. `SecretKey` takes these steps as they are, and its own leave
  fs, gs, F and G alone.
* The algebra it rests on is that of polynomials modulo x^m + 1. A product is a sum by its
  definition; it is shown to be what Horner's rule makes of the first factor (`TimesIsHorner`),
  and two maps that follow the same rule are one (`Unique`). So the product commutes, associates
  and distributes, and lifting commutes with it (`LiftTimes`). The norm of a, lifted, is
  a(x) a(-x) (`NormLifts`); hence a solution below, lifted and multiplied by the conjugates, is
  one above (`SolutionLifts`), and a multiple of (f, g) taken off (F, G) leaves it one
  (`SolutionReduces`), whatever the quotient.
* `KaramulMultiplies`: Karatsuba's three products of halves make the product
  (`TogetherIsLong`), at each length that is a power of 2 (`LevelTwice`).
* `XgcdDivides`: each round of the loop keeps a remainder that is a combination of both
  numbers (`Made`), and a divisor of its last two remainders divides those before
  (`GcdFrom`). A norm at the bottom is a sum of two squares (`LastNormIs`), so the loop
  starts with no negative number; if it ends with 1, that is the solution at the bottom
  (`BottomSolves`).
* Assumed (`NtruAssumption`): what is drawn has n integer coefficients, and a quotient is an
  integer, which is all that `gen_poly` and `round` promise.

Recursive functions and loops of any length are reasoned about without induction rules:
a set of natural numbers that is not empty has a least element (`Least`, from
`WellFoundedInduction`), so a property that fails somewhere fails first somewhere.

The inductive invariants were checked by TLC before they were proved, but for the `IInv` of
`NtruProofs`, which speaks of all powers of 2 and all integer polynomials: there TLC checked
what it implies. They are not among the runs' properties, because the theorems say more.

Only model-checked:

* Liveness (`EveryCallReturns`, `MakeSessionEnds`), which the prover does not treat under
  fairness.
* The arithmetic of `SamplerZ` in digits (`ExponentialHalves`, `WholeComparison`): folds
  over the digits of particular numbers, and a bound on the values of one polynomial with
  particular coefficients.
* The transforms and `SecretKey` (`TablesHoldRoots`, `SameInBothForms`, `LengthIsErrors`,
  `PreimageFits`): RECURSIVE operators over a tower of rings, and what they compute is
  induction over its height.
* `Falcon`, `SignCli` and the verdicts of `Vectors` (`SignedIsAccepted`,
  `AcceptedIsPreimage`, `TestsPass`, `SignedIsValid`, `OnlySignerVerifies`,
  `ValidOnChain`): they rest on the algebra of the transform (products of polynomials are
  products of values at the roots, an inverse is a power), and on which
  hashes of the instance differ, and are checked for the parameters of one degree.

## 5. Plan

Done: the delegate with its abstraction and proofs; extendable-output functions;
hashing to a point; random bytes and the Gaussian sampler; encodings; verification and
recovery, in raw memory and as whole calls; the Python signer from key generation to
signature; the command line tool; the scripts that write the tests.

Theorems to come, by importance: `SignedIsAccepted` for the plain variant, from what
`CodecProofs` knows of `compress` and `decompress`; `PreimageFits`, from the equation of
`NtruProofs` and the algebra of its products.

Models to come: the transforms of `ZKNOX_NTT*.sol` and `vrfy.c` as loops over an array
against the transform of `FalconRing`; `crypto_sign` of C in its three versions, as
`Falcon` does for Python.

### Not modelled

* Key generation and signing in C (`keygen.c`, `sign.c`, `nist*.c`, `epervier16.c`),
  but for the random bytes and encodings: their difficulty is in integers of thousands
  of bits with 31-bit words and in emulated 53-bit floating point, and a small instance
  of either has none of it. `fpr.c` and `fft.c` are the same case. The algorithm of key
  generation is modelled from Python.
* Rounding errors and statistics: how errors grow in the transforms, whether the sampler
  has its distribution, whether a key is good. No small instance says anything of them.
* The butterflies of the transforms, in Solidity and C, and Montgomery arithmetic. The
  transform is modelled by what it computes.
* ChaCha20, Keccak-f and BLAKE2s themselves: free functions, whose outputs have names.
* Known-answer tables (`scripts/*_KAT*.py`), the statistics of `saga.py`, the derivation
  of parameters, the estimate of forgery and the benchmark: data, and tools that nothing
  in the system runs. They are more than a third of the Python.
* Table deployment, the configuration of `ZKNOX_falcon`, interfaces and constants: no
  state that anything reads, or none at all.
* Go bindings and the precompile: they copy buffers; the rest is go-ethereum.
* `external/`, `hash/`, submodules: third parties.
