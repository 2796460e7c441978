# walletcore in TLA+

walletcore is a C++ library for hierarchical deterministic wallets (BIP32 and
BIP44) with a JNI binding and a Java front end. This directory holds TLA+
modules that model it, TLC configurations that check the models on small
instances, and proofs, checked by TLAPS, of what holds on every instance.
Paths below are relative to the repository's root.

## 1. The system

| Component | State it keeps | Operations | Interacts with |
|---|---|---|---|
| HD wallet, `src/hd_wallet.cpp` | `seed_`, fixed at construction; each call's locals `node`, `fingerprintValue` | `getRootKey`, `getKey`, `getExtended{Private,Public}KeyAccount`, `get{Private,Public}KeyFromExtended` | BIP32 node, derivation path, Base58Check, HASH160 |
| BIP32 node, `src/bip32.cpp` | `HDNode`: private key, *cached* public key, chain code, depth, child number | `fromSeed`, `fillPublicKey`, `privateCkd`, `publicCkd` | curve context, secp256k1, HMAC-SHA512 |
| Curve context, `src/curve.cpp` | one function-local static shared by all threads | `get_secp256k1_context` | secp256k1 |
| Elliptic curve, `secp256k1/` (vendored) | a context and its blinding, scratch spaces, the caller's keys, signatures and sessions | keys and tweaks, ECDSA, Schnorr, MuSig2, ElligatorSwift, over group, field and scalar arithmetic | |
| Derivation path, `include/wallet_core/derivation_path.h` | a vector of components (value, hardened) | BIP44 accessors and setters, `derivationIndex` | wallet |
| Path parser and printer, `src/derivation_path.cpp` | a cursor into the text | string constructor, `string()` | JNI layer |
| Keys and addresses, `src/private_key.cpp`, `public_key.cpp`, `tron.cpp` | key bytes | `getPublicKey`, `uncompressed`, `derive_from_public_key` | secp256k1, Keccak, Base58Check |
| Base58Check, `src/base58.cpp` | none | encode, decode with a bound on the length | hashes |
| Hashes, `src/crypto/`, `src/keccak.c`, `src/hash.h` | streaming buffers | write, finalize, reset | |
| JNI layer, `jni/` | none; array and string copies | nine native methods | wallet, parser, address |
| Java front end, `java/.../HDWallet.java` | a reference to the caller's seed array | one method per native | JNI layer, library loader |
| Library loader, `java/.../NativeLibraryLoader.java` | a temporary file | `load` | file system, JVM |
| Utilities: `prevector.h`, `serialize.h`, `util/strencodings` | a vector's storage | vendored from Bitcoin Core | |

A Java call copies the seed array and the strings, constructs a wallet and a
path, runs one wallet operation, and copies the result back. Wallets are made
anew for every call, so threads share only the secp256k1 context, the state
of the Java class and the seed arrays their callers hold. What links calls over
time are the *extended keys*: strings a caller receives from one call and may
pass to any later one, in any thread, of the right kind or the wrong one.

### What is hard

* **The cached public key.** `fillPublicKey` trusts a node's cached key when
  its first byte is not zero. The same struct stands for a full node and for a
  watch-only one whose private key is 32 zero bytes. Correct: no call ever
  works with a public key that is not the node's own.
* **Three routes to a key.** A key is reached from the seed, from the account's
  extended private key, or from its extended public key, through different
  code. Correct: the same key on every route, and on every route the same
  failures.
* **Failures nobody can test.** A child exists only if the hash is a scalar
  that is not zero and the sum is not zero. Each failure has a probability near
  2^-127, so no test reaches the code that handles it; over a group of order
  13 they are common. The same holds of exceptional points in the
  multiplications and of retries when signing, which a curve of 31 points meets at
  every turn.
* **Wrong kinds of key.** The private routes accept an extended public key.
  Correct: they end in an exception, never in a key computed from the zeros.
* **First use by several threads.** One thread builds the context while others
  wait, one initialises the Java class. Correct: each is done once, used by
  nobody before, and nobody waits for ever, also when loading fails.
* **A seed array that is written while it is copied.** Correct: calls on other
  arrays, and calls during which nobody wrote, are not affected.
* **Exceptions across JNI.** No native method catches: an exception ends the
  process and every call in flight. Correct: only bad calls do it.
* **Edges of a 32-bit index.** `|` in one place, `+` in another, an accessor
  that drops the hardened mark in a third, and a parser that does not ask
  whether a number fits.
* **Buffers.** A hash object's buffer at the edge of a block, the padding that
  needs a block more, a buffer whose stale bytes must not be hashed; radix
  conversions in buffers sized by a fraction; `prevector`'s storage as it moves
  between the object and the heap.
* **Words.** Limbs that hold more than a digit, carries that are delayed, and
  magnitudes that callers must respect; batches of divsteps on low words.
* **Loading in several attempts.** The loader fails once by design before it
  tries again. Correct: whatever fails next, no temporary file stays and the
  first failure is not lost.

`PROJECT.json` lists each hazard at its line with the properties about it.

## 2. The modules

```
DerivationPath -- Bip32 -- WalletApi --+-- HDWallet ------ MCHDWallet
      |                                |     INSTANCE Curve, WalletPromise
      |                                +-- JavaWallet ---- MCJavaWallet
      |                                |     INSTANCE WalletPromise
      |                                +-- WalletPromise
      |                                +-- MCWalletApi (values of constants)
      +-- DerivationPathParser
NativeLibraryLoader

Group -- Ecmult (INSTANCE Recoding), Keys -- Ecdsa, MuSig
Limbs -- Field5x52, Field10x26 (INSTANCE FieldElement)
      -- Scalar4x64, Scalar8x32 (INSTANCE ScalarElement)
SafeGcd                               all of these in MCCurve

BlockHash -- Hasher, HashStream (INSTANCE Hasher), Hmac
Vector, Prevector (INSTANCE Vector)
Base58, Texts, Keccak, Serialize      all of these in MCLibrary

HDWallet_proofs                 JavaWallet_proofs (also NativeLibraryLoader)
DerivationPathParser_proofs     Secp256k1_proofs (MuSig, Ecdsa, Keys, Ecmult)
Prevector_proofs                BlockHash_proofs -- HashStream_proofs, Hmac_proofs
```

### The wallet

**DerivationPath** is the path type: a component's value and mark, the
derivation index, the accessors that return bare values and the setters that
leave short paths alone.

**DerivationPathParser** is the string constructor as a state machine, one
action to a turn of its loop, with `sscanf` reading ahead of the cursor, and
`string()`. White space and signs, which `sscanf` skips and the cursor does
not, are one character `blank`; embedded NULs are among the characters `x`.
A number that does not fit 32 bits is cut to them or saturates, since the C
standard leaves it undefined and libraries do either. What a path *is* is told
without the parser: after the longest root the text is cut at its slashes
(`Starts`, `Piece`), and each piece is digits with or without a mark.

**Bip32** is `HDNode`: `fromSeed`, `fillPublicKey`, `privateCkd`, `publicCkd`.
A call that can throw is a pair: `xOK`, the conjunction of the checks, and
`x`, the result. HMAC-SHA512 is an arbitrary function `ChildHmac` of chain code,
33 bytes and index (and `MasterHmac` of a seed), so that what holds, holds for
every hash. With it are the six library calls the wallet makes, over a cyclic
group of odd order with a generator. A point is its discrete logarithm, which
the code never sees and the properties need not hide; a compressed key is a tag
and the number that `p` and `Order - p` share. `Top` is the largest 32-byte
number: `Top >= Order` is all that is assumed, so zero, scalars and overflowing
arrays all occur. That the library keeps this contract is the subject of the
modules on the curve, below.

**Curve** is the static of `get_secp256k1_context`: the compiler's guard, the
initialiser, the threads that wait.

**WalletApi** is what crosses the boundary: requests, extended keys as records
of their 78 bytes, serialising and deserialising them, answers. Base58Check is
its contract: a string either decodes to the record or is `garbled`; what the
strings are is in **Base58**. The module describes, by what each of them asks, the
nine native methods and the C++ method `getRootKey`.

**HDWallet** runs the calls. Each thread has a program counter and the locals
of its call; one action is one derivation, one fingerprint, one serialisation.

| Action | Code |
|---|---|
| `Begin` | the native method's copies and `HDWallet(vector)`, whose `copy_n` reads 64 bytes of any array |
| `Root` | `get_root_node`, start of `get_node` |
| `Deserialize` | `node_deserialize`, `path.change()`, `path.address()` |
| `Derive` | one turn of `get_node`, or one `privateCkd`/`publicCkd` of the extended routes |
| `FingerprintParent` | `node_fingerprint` of the coin node |
| `DeriveAccount` | `privateCkd(account + 0x80000000)` |
| `FinishPrivateExtended`, `FinishPublicExtended` | `node_serialize`, for the public key after `fillPublicKey` |
| `FinishPrivateKey`, `FinishPublicKey`, `FinishAddress` | the result: `PrivateKey`, `getPublicKey`, `TronAddress` |
| `EnterInitialiser`, `LeaveInitialiser` | the static, entered by a thread whose next step needs it |

An exception is the answer `thrown`, as a C++ caller sees it. The variable
`issued` is what callers hold: every extended key that was returned, with the
seed, coin and account it is of. `issued` and `calls` are not in the code: one
states properties, the other bounds the runs.

**WalletPromise** is the abstract specification: a call begins and, at one
later instant, ends with the answer that derivation with private keys alone
gives. It has no nodes, no cache, no context and no public derivation. The
key an extended public key leads to is promised to be the public key of the
*private* derivation, which its holder cannot compute; that
`publicCkd` finds it is what the refinement shows. Every failure is promised
too.

**JavaWallet** is the Java front end and the JNI layer: Java threads, the
initialisation of the class by the first of them, a heap of seed arrays some of
which their callers write at any time, the copy of an array one element at a
time, the copies of the strings and the parse, the wallet, the conversion of the
result, memory that runs short at each allocation, and the end of the process
where an exception is not caught. The wallet is *its abstract specification*:
`CallWallet` and `WalletReturns` are steps of WalletPromise, and of nothing
finer. The strings are those that are a path, those that are not, and null.

**NativeLibraryLoader** is `load()`, which the Java front end runs before any
native method: by name, or else from a resource that is unpacked to a temporary
file. One action is one thing that may fail: a search, the creation of the
file, the unpacking, the loading, each handler and the `finally` block. A
resource is what it holds, or one that cannot be read; a `Throwable` is the set
of failures it tells of. What the environment does (which resources the class
path has, what fails) is chosen freely; `Error`s other than
`UnsatisfiedLinkError`, such as a lack of memory, are left out. So are the
choice of the directory and the names of resources, and `-id` patching of a
shaded library on OS X, whose failures the code ignores.

### The curve

| Module | Code | Model |
|---|---|---|
| `Group` | `field_impl.h`, `group_impl.h` | every formula of the group over a small field, with the magnitudes a VERIFY build keeps; every representation of every point |
| `Recoding` | `ecmult_impl.h`, `scalar_impl.h`, `ecmult_const_impl.h` | the endomorphism's split, wNAF, fixed windows with a skew |
| `Ecmult` | `ecmult_impl.h`, `ecmult_const_impl.h`, `scratch_impl.h` | Strauss' method with its table on one z, the constant-time one, Pippenger's buckets, batches on scratch spaces; a scratch space as a process: made, used by batches within batches, destroyed (`SpaceSpec`) |
| `SafeGcd` | `modinv64_impl.h`, `modinv32_impl.h` | batches of divsteps on low words and the matrices they yield, constant-time, variable-time and for Jacobi symbols |
| `Keys` | `secp256k1.c`, `eckey_impl.h`, `modules/extrakeys`, `modules/ecdh`, `modules/ellswift`, `ecmult_gen_impl.h` | keys, tweaks, x-only keys, key pairs, as a process of one who makes every change to both forms of a key (`KeysSpec`); sorting; ElligatorSwift: decoding, encoding as a search, the shared secret; the comb that multiplies the generator, and its context as it is blinded and blinded again |
| `Ecdsa` | `ecdsa_impl.h`, `secp256k1.c`, `modules/recovery` | signing as a process that retries, verification, recovery, DER |
| `MuSig` | `modules/schnorrsig`, `modules/musig` | Schnorr signatures, by any key pair with BIP 340's nonce or the caller's (`SchnorrSpec`); signers whose objects change under each call, in any order |
| `Limbs`, `Field5x52`, `Field10x26`, `FieldElement` | `field_5x52*`, `field_10x26*`, `field_impl.h` | an element through any calls of `field.h` that its magnitude allows, next to the residue it stands for |
| `Scalar4x64`, `Scalar8x32`, `ScalarElement` | `scalar_4x64*`, `scalar_8x32*` | a scalar through any calls of `scalar.h`, next to its number |

A helper whose intermediate values the code names takes them as parameters, and a
caller binds them with `\E x \in {...}`, so that TLC evaluates each once.

### The library

| Module | Code | Model |
|---|---|---|
| `Base58` | `base58.cpp`, and `node_serialize`/`node_deserialize` as bytes | both radix conversions in their buffers, over bases in about the same proportion; checksums; payloads that are too short |
| `Texts` | `strencodings.cpp` | bases 16, 32, 64, `ParseFixedPoint`, `SplitHostPort` |
| `BlockHash` | SHA-256, SHA-512, RIPEMD-160, `secp256k1_sha256` | counter, buffer, both ways to write, padding, over a free compression function: a state is the sequence of blocks it absorbed |
| `Hasher` | | abstract: a message, and the digest of it padded |
| `HashStream` | `hash.h` and the classes | an object in a caller's hands; refines `Hasher` |
| `Hmac` | `hmac_sha512.cpp`, `hash_impl.h` | HMAC with the masks in place; the RFC 6979 generator and the nonce function |
| `Keccak` | `keccak.c` | the sponge, over a free permutation |
| `Serialize` | `serialize.h` | CompactSize, VarInt, integers, and the readers of containers on a stream that may end |
| `Vector`, `Prevector` | `prevector.h` | what `std::vector` promises; the union of storage and heap block; refines `Vector` |

## 3. The runs

| Run | Properties | Bounds | States | Shows |
|---|---|---|---|---|
| `inputs` | `TypeOK`, `NodeConsistent`, `NoKeyFromWatchOnly`, `KeysValid`, `KeepsPromise` | 1 thread, 2 calls; 5 seed arrays, 11 paths, every foreign key | 38,000 | every call with every input; the second call may use the first one's export |
| `routes` | `RoutesAgree`, `FailureParity`, `ExportsPair` | 2 threads, 4 calls, 1 seed, 5 paths | 309,000 | two exports and two derivations, compared, in any order |
| `threads` | `ContextOnce`, `CallsReturn`, `KeepsPromise` | 2 threads, 3 calls, fair | 20,000 | the race for the context and every interleaving of steps |
| `calls` | `AnswersOfItsArray`, `GoodCallsSurvive`, `CallsAnswered` | 2 Java threads, 2 calls, 1 write, 2 arrays, fair | 121,000 | the class, the arrays, bad arguments, short memory |
| `texts` | `TypeOK`, `ReadsPaths`, `RoundTrip`, `Advances`, `Ends` | every text of up to 5 characters | 61,000 | the parser |
| `load` | `LoaderTypeOK`, `NoFileLeft`, `LoadsTheLibrary`, `TellsEveryFailure` | up to 2 resources of each name, 3 contents of which 2 can be loaded | 12,000 | the loader, with a failure possible at every step |
| `curve` | `GroupArithmetic`, `Multiples`, `SpaceHolds`, `KeysInStep`, `EcdsaHolds`, `SchnorrHolds`, `MuSigHolds`, `EncodingsHold`, `InverseHolds`, `LimbsHold`, `HonestVerifies` | the curve y² = x³ + 7 over 43, of 31 points; small words, below | 644,000 | the operations of secp256k1 |
| `library` | `TextsRoundTrip`, `HashesHold`, `WireHolds`, `OneOwner`, `KeepsPromise`, `IsVector` | below | 633,000 | the library under the wallet |
| `marks`, `wrap`, `short`, `overflow` | one each | | | disagreements of code and comments, section 5 |

**Why the wallet's bounds are enough.** The wallet runs use words of three
bits, a group of order 13 and 32-byte numbers up to 14, so a random number is
zero, a scalar or an overflow. The hash of `MCWalletApi` is chosen so that among the children of
one account each failure occurs: `0/0` sums to zero, `0/1` has a zero hash,
`0/3` an overflowing one, `0/2` and `1/1` are good. Among the master keys two
are valid, one is zero and one is an overflow. Calls share nothing but the
context, which is built once, and the extended keys, so the properties of
`routes` relate two answers and the two exports they came from: four calls and
two threads that keep the answers side by side. The race for the context needs
two threads that race and one later call. Every input class the code
distinguishes (short and long seeds and paths, hardened indices with and without
the mark, each way of failing, each kind of malformed key) has a member. One
write during two calls on two arrays is what tells a disturbed call from another. Five
characters, in words of two bits, hold a root, two components and a mark, or an
overflowing number with both. Two resources of one name are what tells agreement from the choice of
the first. The theorems of section 4 hold for every value of these bounds.

**`curve` and `library` are unions.** Their modules do not interact but by the
operators they share, so one specification takes each in turn: `subject` says
which one a behaviour is about, and each property is a conjunction of named
parts, one or more to a subject, every one with its own comment in `MCCurve` or
`MCLibrary`, or in `Ecdsa`, `Ecmult`, `Keys`, `MuSig` and `Prevector` where theorems
state it.

* On a curve of 31 points over 43 every scalar, every pair of points and every
  representation of them is tried, and the cases that a real curve never meets
  (equal x in an addition, infinity in a table, a nonce that is zero, a sum of nonces
  that vanishes) are all met. The endomorphism exists there, as on
  secp256k1.
* The recodings run over every scalar of a group of 4021, whose lambda and
  lattice are those of a curve with the endomorphism, with windows of 2, 3 and 5
  bits.
* The limbs have a few bits. What the code relies on is that a limb's spare
  bits hold the largest magnitude: here 2 * `MaxMagnitude` is at most `Slack`
  and `TopLimb`, and products of limbs fit words as tightly as TLC's integers
  allow. Each assumption of `Limbs` is checked for the four instances.
* The divsteps run on three limbs of 5 or of 4 bits, modulo 2039 and 1021, with
  as many batches as every residue of that size needs.
* A scratch space is a process of its own over six sizes, from nothing to 140
  bytes (`BlockSizes`), with up to three objects (`MaxFrames`) of eight sizes
  (`Requested`), two of which wrap around as they are
  rounded, and up to two batches at a time (`MaxMarks`); in each state the
  batches of four numbers of points (`Counts`) are planned. The sums themselves
  run on spaces of three sizes, and the plans also with the sizes of a 64-bit
  build up to 150,000 bytes.
* A caller's keys begin as any number of 32 bytes, up to 47 (`Top`), and are changed by
  any; a Schnorr signer has any key pair, two messages, no auxiliary bytes or one
  of two (`AuxBytes`), and any nonce of his own.
* Blocks are of 4 bytes with lengths of 2 and digests of 3: messages up to 10
  bytes end before, at and after each edge of block and length, and a digest is
  shorter than a block by less than the length. Keys of HMAC go to 9 bytes, over two blocks.
* Base58's 256 and 58 are 9 and 5; amounts count in base 3.
* prevector keeps 1 or 2 elements in the object and has up to 3.

Callers may stop calling, and a parse, a `load()` and a computation end, so the
runs do not take a state without successors for an error; that no *call* is
stuck is `CallsReturn` and `CallsAnswered`, that no parse is stuck is `Ends`.

**Fairness.** `WF_vars(Step(t))` for each thread of `HDWallet` and
`JavaWallet`: the scheduler eventually runs a thread that can run, and the
runtimes wake the threads that wait for a static or for a class. Nothing makes a caller
call, write an array or run out of memory: these are not fair. The parser is sequential
code: weak fairness of its next step. No other run needs fairness.

## 4. The proofs

All theorems hold for every number of threads, calls, texts, resources and
signers, for every group of odd order, every hash and every width of a word; none depends on
the bounds of a run.

| Module | Theorems | Inductive invariant |
|---|---|---|
| `HDWallet_proofs` | `PublicCkdCommutes`; `TypeCorrect`, `NodesConsistent`, `WatchOnlyKeepsSecrets`, `PrivateKeysValid`, `ContextBuiltOnce`; `CourseInvariant`, `WalletKeepsPromise`, `AllRoutesAgree`, `RoutesFailTogether`, `ExportsAreHalves` | `IInv`, `CtxInv` beside it, and `IInv /\ PInv` |
| `JavaWallet_proofs` | `JInvariant`, `AnswersNotMixed`, `OnlyBadCallsKill`, `WalletUsedAsPromised`, `JavaTypeCorrect`; of `NativeLibraryLoader`, `LoaderTypes`, `LeavesNoFile`, `LoadsWhatAllHold`, `ErrorsTellAll` | `JInv`, `TInv`; `LoaderInv` |
| `DerivationPathParser_proofs` | `CursorInText`, `CursorAdvances`, `ParserReadsPaths`, `PathsSurvive` | `TypeOK`, `ReadInv`, `TripInv` |
| `BlockHash_proofs` | lemmas: `WriteRepresents`, `FinalizeRepresents`, `ResetRepresents` | `Represents` |
| `HashStream_proofs` | `HashKeepsPromise`, `NothingIsLeft` | `HInv` |
| `Hmac_proofs` | `HmacIsStandard`, `KeysStayApart` | `HInv` |
| `Prevector_proofs` | `VectorKeepsPromise`, `BlocksHaveOneOwner` | `VInv` |
| `Secp256k1_proofs` | `MuSigInvariant`, `MuSigIsSafe`, `HonestIsNeverBlamed`; `SignInvariant`, `EcdsaIsSafe`; `SchnorrSigns`, `SchnorrIsUnique`, `SchnorrIsSafe`; `KeysStayInStep`; `SpaceIsSafe` | `MuSigIInv`; `SignIInv`; `SchnorrIInv`; `KeysIInv`; `SpaceIInv` |

**One derivation.** `PublicCkdCommutes` says that `publicCkd` of a node's
public half is the public half of `privateCkd`, and that each throws when the
other does. It rests on what the library calls do to a parsed key: adding a
tweak to the point of `k` yields the point of `k` plus the tweak, and infinity
exactly when the sum vanishes.

**No foreign key in a cache.** `NodeConsistent` is not inductive: whether a
node may have a cached key depends on where its call is and on what kind of key
it was given. `Locals` adds that: a thread that has not started holds the zero
node; a node read from an extended public key has a private key of zeros and
never gets past `derive` in a call for a private key; any other node has either
no cached key or its own; past `derive` its private key is valid. `AnswerFits`
says of an answer that was given what `KeysValid` and `NoKeyFromWatchOnly` say.
`CtxInv` counts who is inside the initialiser and how often it ran, and says
that a thread past a step that needs the context finds it complete.

**The wallet keeps its promise.** `WalletKeepsPromise` is the refinement: every
step of `HDWallet` is a step of `WalletPromise` or leaves its four variables
alone. `PInv` says how far each call is. `Behind` is the private key that a
node stands for, which a watch-only node does not hold: of such a node it is
the discrete logarithm of its public key. While a call derives, the descendant
of that key along what is left to derive is the call's goal (`OnCourse`); at
`finish` it is the promised key, and what the promise says of depth, child
number and fingerprint is true of the locals. A step of the loop shortens the
way and keeps its end, for the private loop by definition and for the public
one by `PublicCkdCommutes`. That an extended key in a caller's hands leads to
what the promise says needs the other half of `PInv`: every one of them was
granted to some request. From the invariant alone follow the three properties
that relate several calls, `RoutesAgree`, `FailureParity` and `ExportsPair`:
each side of them is the promise's value, and the promise of one key is one
value on every route.

**The Java layer.** `JInv` says of a call whose array nobody has written since
it began that the part it has copied is the array's, that the request it makes
of the wallet is one for that array, and that the answer it converts is
promised for it; nothing is said of the other calls, and nothing is needed.
`TInv` adds types and that a call is in the wallet exactly when its thread is,
which is what makes `CallWallet` and `WalletReturns` steps of `WalletPromise`.
Together with `WalletKeepsPromise`, which says that the wallet implements that
specification, this carries what is shown of the wallet up to the Java caller.

**The parser.** `ReadInv` says that at the head of the loop the cursor is at
the start of a piece, and that the pieces before it were all good and are the
components read. `ParserReadsPaths` follows where the loop ends, on either way.
For `PathsSurvive`, `TripInv` follows the parser through a text that was
printed: after `n` components the cursor is behind the printed prefix of `n`
components. That needs of the printer that its digits are digits, without a
leading zero, and worth the number (`DigitsFacts`, `NumberAppend`), and that a
printed prefix is a prefix of the print.

**The loader.** `FileInv` says where a temporary file may exist, `ChoiceInv`
that a chosen resource is one on which all agree, `LoadInv` that something is
thrown exactly where nothing is loaded, and `TellInv` where the first failure
is kept: among the suppressed ones, or inside what is in flight.

**The hashes.** `Represents(h, m)` says that a hash object stands for the
message `m`: its counter is the length of `m`, the blocks it has absorbed are
the whole blocks of `m`, and its buffer begins with the rest. It says nothing
of the other bytes of the buffer, which are stale and stay so. `Write` turns an
object that represents `m` into one that represents `m` and the new data,
whether the data goes through the buffer or is hashed where it lies
(`BufferedTook`, `DirectTook`). `Finalize` is two writes whose lengths are
computed modulo the block; that they end at the edge of a block, and at the
first one they can, is `PadLenFills`. With these lemmas `HashKeepsPromise` is
one case per call, and `HmacIsStandard` adds what the masks leave: the key
under 0x5c, masked again in place, is the key under 0x36. All is for any block
size, any lengths of the length field and of the digest, and messages and keys
up to any bound (`MaxBytes`, `MaxKey`). The compression is free in the model: a
state is the sequence of blocks it has absorbed.

**The vector.** `VectorKeepsPromise` is the refinement of `Vector`, for every capacity and every width of the size, and
`BlocksHaveOneOwner` what keeps it standing. `VInv` is `Good(vec, heap)`: the
elements of a live object are where it keeps them, in itself or in a block that
holds at least as many as it has; every block is somebody's, and nobody else's.
`Shape` says this of one object and does not name the others; `Frame` says that
a call on it leaves every block alone that was not its own. So each member
function is reasoned about alone, in the order of its statements: `ChangeShape`
for the four ways in which `change_capacity` moves elements, `StoreShape` and
`GrownShape` for what is built on it, and one lemma for each operation.
`Replaced`, `Swapped`, `Moved` and `Ended` carry the result back to all the
objects. A move assignment is the end of its target and the move of its source
into what is left, and a move of an object to itself loses its elements in
`Vector` as well. That a block number is free when one is wanted is a count:
there is one more of them than objects with a block (`RoomIsLeft`).

**Several signers.** `MuSigIsSafe` holds for any number of signers, any rings of
keys, any tweaks and any hash. `MuSigIInv` has three parts. `MuSigTypes` adds to
the types that a session is one of the keys as they are tweaked now, since
tweaks come before it. `KeyInStep` is `TweaksInStep`: an x-only tweak may negate
the key that was tweaked so far, and with it the sign and the sum of the tweaks
that went before. `NoncesUsedUp` is what `NonceOnce` lacks to be inductive: every
secret nonce that waits or has signed is that of bytes no buffer holds any more
(`Spent`), no two buffers hold the same bytes, no two signers the same secret
nonce, and none that waits has signed. A call that fails keeps it, because it
zeroes the nonce or leaves the bytes for the next one, never both as they were.
Sums and products are reckoned with congruences (`Cong`). A partial signature
verifies exactly if it is its signer's share (`VerifyFacts`), the shares of all
add up to the one signature of the tweaked key (`SharesAddUp`,
`SignatureFacts`), and one that is not its signer's share leaves a difference
that is no multiple of the order, whose nonce is no longer the session's or has
an odd y. That both totals are linear is `TotalLinear`. `HonestIsNeverBlamed`
needs that the key that signs is the one the secret nonce was made for, which
`PartialSignCall` checks.

**Single signatures.** An ECDSA signature `(r, s)` is of a point `p` whose x
coordinate is `r` modulo the order: `s * p` is the message plus `r` times the
key (`IsPoint`). Since what is not zero can be divided by, such a point is the
only one (`OnePoint`), a point is for one key (`OneKey`), and each of the
code's computations finds what this says. Verification compares coordinates
without reducing one (`VerifiesIff`, `ReducedX`); recovery lifts the point that
the identifier tells (`RecoversIff`), and a point is told by one identifier
(`OneIdentifier`); normalizing turns the point into its opposite (`Opposites`),
which flips the identifier's parity. `EcdsaIsSafe` then speaks of every key,
message and nonce, and of every `r` and `s` that a caller may come with.
`SignIInv` adds to what `SignsOrFails` says of a call that is over that one
under way has not succeeded: a refused nonce leaves a signature and an
identifier behind, and when the nonce function gives up both have to be erased
and the result has to be the failure it was. For Schnorr
signatures verification computes a point from `s` and compares its x coordinate
and the parity of its y with what was signed: `SchnorrIff` says which points pass.
`SchnorrSigns` is then the equation for the signer's own nonce, turned to an even
y as the key was; `SchnorrIsUnique` the fact that two numbers below the order
with the same point are one, while what is larger is refused. `SchnorrIsSafe`
carries both to a signer with any key pair, message, hash and nonce function, and
adds that the zeros a failing call leaves never verify, since no point of the
curve has an x coordinate of zero.

**Keys.** `KeysStayInStep` is about any series of negations, tweaks and
combinations of a key in both its forms. `KeysIInv` is stronger than
`KeysInStep`: what stands for the public key is the secret scalar itself, zeroed in both if a
tweak fails, and of a key pair the tweaked x-only key is the one the owner
arrives at. It is kept because each change is one operation of scalars on the
secret side and its image on the other (`ChangeKeeps`; `CombinedFacts`
for a combination, which adds two points instead), and an x-only tweak
turns both sides to the even y first (`PairTweakKeeps`). That
a key has exactly three encodings is `ThreeEncodings`, from the two points that
one x coordinate has, and that two parties agree is `SharedSecret`.

**Scratch spaces.** `SpaceIsSafe` holds for every alignment, every width of
`size_t` that the alignment divides, and all sizes of spaces, objects, points,
buckets and batches. `SpaceIInv` says that the objects lie in the order of their
making below what is allocated, each behind the end of the one before and
aligned (`FramesOrdered`), that the checkpoints rise with them, each at the end of the
objects that were there when it was taken (`MarksOrdered`), and that the first checkpoint is at the
bottom, so that nothing is in use when none is left. `FramesOrdered` is what
`FramesApart` lacks: it bounds the last object by the
allocation, which the next one starts from. An allocation either fails and
leaves the space as it was or succeeds with its rounded size (`AllocFacts`);
that rounding wraps only where the size is found to have shrunk is `RoundFacts`.
What `secp256k1_scratch_max_allocation` says suffices for objects of any sizes
that add up to it (`GrantFits`), because each of them loses less than the
alignment. From this follows that the points that fit fit: the requests of a
batch are at most six objects, and their sum is bounded by the search for the
widest window (`PippengerPointsFit`) or by one division (`StraussPointsFit`), for every number of points up
to the one returned, although fewer points take other windows (`FewerFit`).
`PlanCovers` is the arithmetic of batches: their number is a quotient
rounded up, and so is their size, and the last one takes what is left and is not
empty.

**Recursive functions.** Descents along a path, the value of digits, the
printed text and the totals over signers are recursive functions. That such a function exists and meets its
equations is shown without an induction theorem: of the numbers for which it
fails there would be a least one (`NatMinimum`, `Least`, from the
well-foundedness of `<` on naturals), and at that number a step of the
recursion contradicts it.

**Assumptions.** The order is odd and at least three, and the largest 32-byte
number is not below it (`CurveAssumption`); the hashes are functions of the
right type (`HmacAssumption`, `ApiAssumption`); the hardened bit is positive
(`HardenedBitAssumption`); the radix is at least two (`ParserAssumption`); a
loadable content is a content (`LoaderAssumption`); the strings of the Java
layer are paths, malformed or null, and with one seed array of a length every
array of that length is allowed, since callers write what they like
(`JavaAssumption`); a block, the length at its end and a digest are at least a
byte, the length is shorter than a block and the digest no longer
(`BlockHashAssumption`); a vector's lengths, what is added to it, and one and a
half times its longest length fit the size type, there are finitely many
vectors, and none, nor what one holds, is the value that stands for an absent
one (`PrevectorAssumption`); two points have one x
coordinate exactly if they are equal or opposite, and of opposite ones one has
an odd y (`OppositesAssumption`, a fact of the curve and of its odd order);
every scalar but zero has an inverse, that is, the order is a prime, and no
coordinate is twice the order (`ScalarsAssumption`); points of the curve have two
coordinates in the field (`OppositesAssumption`), none an x of zero
(`ZeroAssumption`, which is why a zeroed signature is none); the alignment
divides the range of `size_t` and is not one (`AlignmentAssumption`), the sizes
of C's types are positive (`SizesAssumption`), and spaces and requests are
numbers of that range (`RequestsAssumption`); keys, messages and nonces
are 32 bytes (`InputsAssumption`); there
is a signer, keys are below the order, and hashes are numbers of 32 bytes
(`MuSigAssumption`, `HashAssumption`, `NonceAssumption`). `DrawsAssumption` is the caller's part and
the hash's: random bytes come only once, are not all zero, and the nonces made of
different ones differ; only `NonceOnce` needs more of it than types. TLC evaluates all of them in the runs.

**Only model-checked.** `CallsReturn`, `CallsAnswered` and `Ends` are liveness
under fairness, which the prover does not do, nor `ENABLED`. The other properties of `curve` and `library`
are about digits, limbs, windows and formulas. `GroupArithmetic`, and what
`EncodingsHold` says of ElligatorSwift, are identities of polynomials over one
field, with roots and quotients taken in it. `Multiples` sums over the digits of
a scalar, and `GivesBack` is its part about the scratch space that the sum was
computed on, of which `SpaceIsSafe` proves what each allocation and checkpoint
does; `InverseHolds` iterates divsteps whose number is bounded by a computation and
not by an argument; `LimbsHold` carries over sequences of limbs; DER numbers,
sorting, `TextsRoundTrip`, `HashesHold` and `WireHolds` fold over bytes or
elements. What such a fold computes is an induction over data, and `Serialize`
and `Texts` use recursive operators. `NoncesFresh` of RFC 6979 tells nested
terms apart by their depth, which would be an induction over data too.

## 5. Disagreements of code and comments

* **marks.** `getPrivateKeyFromExtended` is documented as taking a derivation
  path, but derives the *values* of the fourth and fifth components only: for
  `m/44'/195'/0'/0'/0` it returns another key than `getPrivateKey` does.
* **wrap.** The account is documented as hardened, but its index is
  `account + 0x80000000`: with the top bit set it wraps to a normal child.
* **short.** The wallet is documented as deterministic, but a seed array
  shorter than 64 bytes is completed with what memory holds.
* **overflow.** The path constructor is documented to throw on a string that
  is no valid path, but takes `m/4294967296` for `m/0`.

Noted and not run:

* `jni/jni_hd_wallet.h` lines 16 to 19 swap the comments of
  `getPrivateExtendedFromSeed` and `getPublicExtendedFromSeed`; the code does
  what the names say.
* BIP32 refuses a hash that exceeds the order but not a zero one; both
  derivations here refuse zero too, with negligible probability and alike on
  every route.
* `prevector::push_back` of a reference to an element of the vector itself
  reads it after the storage may have moved, and a move from itself leaves
  the vector empty; `std::vector` allows the first. The model's calls take
  values, and its objects may be moved to themselves. A capacity near the largest
  `size_type` wraps when it is grown by half; vectors that long are left out.
* `secp256k1_ellswift_xdh` reduces a secret key that is not below the order,
  where its header says the call fails.

## 6. What is left

**Not modelled:** the precomputed tables, which are data and a third of the
vendored lines; the compression functions and the permutation, whose rounds are
arithmetic without control flow that test vectors check better; constant-time
idioms, assembly and `int128_struct`, of which the result is modelled; the
serialisation of the MuSig objects, a nonce from a counter and a missing secret
key there; the formatters and stream wrappers of `serialize.h` that only pass calls on;
`span.h` and `uint256`, which have no control flow; case folding, trimming and
byte units; the Java platform helpers; tests, benchmarks, build files and the
example program, whose side-by-side output is what `RoutesAgree` states.

**Left to prove:** nothing that the runs check of a state machine and that is
within the provers' reach; section 4 names what is only model-checked and why.
