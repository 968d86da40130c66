# Verification of pqc-monorepo

TLA+ models, TLC runs and TLAPS proofs for the services of this repository and for the stateful
signatures of the liboqs copy it carries. The repository is a monorepo of FastAPI services around
post-quantum cryptography (about 14 000 lines of Python) and vendored liboqs (over a million lines
of C). The services are small, keep their state in SQLite, in files or in module globals, and serve
requests on a thread pool: what is hard about them is what requests do to each other, and what a
failure leaves behind. Most of liboqs is arithmetic without state; its stateful signatures (LMS,
XMSS, XMSS^MT) are the exception: a secret key that must never be used twice at the same index.

## The system

| Component | State | Operations | Talks to |
|---|---|---|---|
| **api-merkle**: registry of identity keys with a signed Merkle root | `registry.db` (entries, signed roots), the operator's keys in a global | add entry, list, get root, inclusion proof, consistency proof, three verifications, a metrics demo | liboqs |
| **api-mTLS/server** | `SERVER_IDENTITY_STATE` and `SERVER_HANDSHAKE_SESSIONS` (300 s lifetime), in globals | configure, start a handshake session, serve an encrypted request once per session | openssl, liboqs |
| **api-mTLS/client** | `CLIENT_IDENTITY_STATE`, in a global | configure, run a secure call | server, liboqs |
| **api-mTLS/gateway** | its latest result | bootstrap from the CA, status, demo | CA, client, server |
| **internal-ca**: certification authority driven through `openssl` | key, certificate, serial and CSR files under `/tmp` | create the CA, create a CSR, issue, verify, inspect, issue from an upload | openssl |
| **api-mTLS-sim** | artifact files, written once | register, verify mutually, exchange | openssl, liboqs |
| **api-interna** | uploaded artifacts and policies, written once | verify, apply the policy, execute an action | openssl |
| **api-intranet** | artifact files, written once | verify an identity, an HTTPS demo | openssl |
| **pqc-base** | none | KEM and signature primitives | liboqs |
| **deployment** | none | docker-compose, render, a workflow | |
| **liboqs, stateful signatures** | the secret key object (index, seeds, cached path, mutex) and what the application's callback stored of it | sign, remaining signatures, serialise, deserialise, lock and store callbacks | the application's callbacks |
| **liboqs, XMSS tree traversal** | one BDS state per layer, one NEXT tree per layer but the topmost, and the signatures of the layers below | key generation, sign, verify | |
| **liboqs, the rest** | none | KEMs, stateless signatures, hashes, the LMS trees | |

A handler that is a plain `def` runs on a thread of Starlette's pool (40 threads); an `async def`
handler interleaves with others where it awaits. No handler takes a lock. Threads that sign with
one stateful key are kept apart by the lock callbacks of its object.

### What makes each part correct, and what is hard

* **api-merkle.** Signed roots must commit to what the table holds, what a client is told must be
  covered by a root, proofs must verify, the log must only grow. Hard: `add_entry` is three
  transactions (read the version, insert the entry, save the root) and a key generation; a proof
  request reads the entries and then the root; a consistency request reads four times; the root of
  an odd level duplicates its last node.
* **api-mTLS.** A call must be checked by both sides, a session must serve one request, and after a
  bootstrap both services must hold material of the same CA. Hard: an identity is assigned field by
  field and read field by field; the used flag is tested before and set after a request is
  served; expired sessions are swept in a loop over a dictionary that other threads change; a
  service restarts without its identity and its sessions.
* **Stateful signatures.** An index must never sign twice in what callers are given, whatever
  fails: the lock, an allocation before or after the index has moved, the store, the process. Hard:
  the signature is in the caller's buffer before the advanced key is stored; the last index
  wipes the key; at height 40 the index bytes overflow; the remaining count of XMSS reads the index
  byte by byte without the mutex while a signature stores it byte by byte.
* **XMSS tree traversal.** Each signature needs an authentication path that earlier calls computed
  a few hashes at a time. Hard: the treehash instances share one stack without a bounds check, the
  trees of the layers are swapped at different times, and the work per signature is a fixed budget.
* **internal-ca, api-mTLS-sim, api-interna, api-intranet.** Files are written once, under a name
  that nobody else has until the operation has succeeded.

`PROJECT.json` lists the hazards at their lines, with the properties that cover each.

## Modules

Sources of the first group are under `src/api-merkle/API/app/`, of the second under
`src/api-mTLS/`, of the third under `src/liboqs/src/sig_stfl/`.

| Module | Models | Source |
|---|---|---|
| `MerkleTree` | tree, root, inclusion and consistency proofs, as pure operators | `crypto/merkle.py`, `crypto/consistency.py` |
| `RegistryRepository` | the two tables and the queries on them | `repositories/registry_repository.py`, `db/models.py` |
| `Registry` | `add_entry`, `get_signed_root`, the inclusion-proof handler, failures, restarts | `services/registry_service.py`, `services/proof_service.py`, `main.py` |
| `ConsistencyService` | the consistency handler, as reader threads beside the workers of `Registry` | `services/consistency_service.py` |
| `TransparencyLog` | the abstract promise: an append-only log with commitments that are never withdrawn | `main.py` (`registry_info`) |
| `SequenceFolds` | lemmas: induction over the naturals, powers of two, the recursion equation of `FoldLeft` | |
| `MerkleTreeProofs`, `MCMerkleTreeProofs` | theorems about the operators of `MerkleTree`, and about the properties `MCMerkleTree` checks of them | |
| `RegistryProofs` | theorems about `Registry`: types, signed roots, acknowledged entries, the refinement | |
| `RegistryAnswersProofs` | theorems about `Registry`: versions, inclusion proofs, requests one at a time; theorems about `ConsistencyService` | |
| `SecureCall` | the bootstrap, the identities, the session table, both handlers of the server and the client's secure call, composed | `gateway/API/services/bootstrap_service.py`, `server/API/services/server_*.py`, `client/API/services/client_*.py` |
| `SecureCallProofs` | theorems about `SecureCall` | |
| `StatefulKey` | `OQS_SIG_STFL_sign` and the secret key object for the three schemes | `sig_stfl.c`, `xmss/sig_stfl_xmss_*.c`, `lms/sig_stfl_lms_functions.c`, the heads of `xmss_core_fast.c` |
| `OneTimeKeys` | the abstract promise: one-time keys below a durable bound, each handed out once | `sig_stfl.h` |
| `RemainingQuery` | `OQS_SIG_STFL_sigs_remaining`, as reader threads beside the signing threads of `StatefulKey`, with the index taken apart into bytes | `xmss/external/xmss.c`, `utils.c`, `xmss_core_fast.c`, `lms/sig_stfl_lms_functions.c` |
| `StatefulKeyProofs` | theorems about `StatefulKey` and `RemainingQuery` | |
| `XmssTraversal` | key generation, `xmss_core_sign`, `xmssmt_core_sign` with their BDS states, and verification | `xmss/external/xmss_core_fast.c`, `xmss_commons.c` |
| `XmssTraversalProofs` | theorems about `XmssTraversal` with one tree | |
| `MCMerkleTree`, `MCRegistry`, `MCConsistency`, `MCSecureCall`, `MCStatefulKey`, `MCRemainingQuery`, `MCXmssTraversal` | instances for TLC: enumerated inputs and reference definitions, symmetry sets, parameter sets | |

`Registry` extends `RegistryRepository`, which extends `MerkleTree`; `ConsistencyService` extends
`Registry` with its own variables and interleaves with all of its actions; `Registry` implements
`TransparencyLog` under the mapping in `Log` (the log is the sequence of the entries' leaf hashes,
the commitments are the size and root of every row of `signed_roots`). `StatefulKey` implements
`OneTimeKeys` under the mapping in `OTK`: the durable bound is the position of the key in the store,
the spent keys are those whose signature was returned with `OQS_SUCCESS`. `RemainingQuery` extends
`StatefulKey` with its own variables and interleaves its readers with all of its actions.

### How state and actions correspond to the code: registry

* `entries` and `roots` are the tables in the order of their ids. A query is one SQLite statement
  and sees one state of them; each insertion commits by itself, as in the repository class.
* A worker is a thread that serves one request at a time; `frame[w]` holds the locals the handler
  keeps between two statements, `pc[w]` the statement it is about to execute. Each action is the
  code from one access to shared state to the next. The path of a registration is `AddEntry`
  (reads the latest version), `InsertEntry`, `RebuildTree` (lists the entries), `CheckOperatorKeys`,
  perhaps `GenerateOperatorKeys`, `SignRoot`, `SaveSignedRoot`, `AddEntryReturns`. `GetRoot` and
  `GetProof` share `ReadLatestRoot`, and `NoLatestRoot`, which goes on to the rebuild.
* `_get_operator_keys` tests the global, generates, and reads it again, in three actions.
  `keysMade` only numbers the key pairs; `operatorKey = 0` is `None`.
* `RequestRaises` ends a request at any statement with an error: a locked database, no connection
  in the pool, a failing liboqs call. What was committed stays.
* `Restart` loses the global, the frames and the responses; the tables stay.
* SHA-256 is an injective constructor (`<<"leaf", d>>`, `<<"node", l, r>>`), so a collision of
  roots in the model is one of the tree's shape. A signature is the pair of signer and message.
* `resp` keeps the last response of each worker, so that properties can speak of what a client was told.
* `list_entries_up_to_version` is a fold over the table that keeps the rows whose version is not
  above the one asked for; the order by id is that of the table.
* Definitions marked "Fault" are the bugs a property is tested against; no other definition uses them.

### How state and actions correspond to the code: api-mTLS

* A bootstrap stands for the material it issues: CA, both certificates, the names expected. A
  certificate verifies against the CA of its own bootstrap, and a subject check compares common
  names, which two bootstraps may share or not (`CommonName`).
* `identity[s]` has the four fields of each service's state that a bootstrap changes;
  `ConfigureField(b)` is one assignment of `configure_client_identity` or
  `configure_server_identity`, in the order of the code (`Writes`), since they run on a thread beside
  the handlers. `BootstrapFails` is an exception between the two services.
* `sessions` is the dictionary: its keys, those whose `used` flag is set, and those past their
  lifetime. A session is named after the call that asked for it. Each access of a handler to the
  dictionary or the identity is an action of its own: `StartHandshake`, `SweepForHandshake`,
  `CreateSession`, `AnswerHandshake`; `StartRequest`, `VerifyClient`, `GetSession`,
  `DecryptAndProcess`, `MarkUsed`. A sweep remembers the size of the dictionary when its loop
  begins and raises when it has changed, as Python's iterator does.
* `calls[c]` is `run_client_encrypted_request` with the material it reads field by field:
  `BeginCall`, `ReadOwn`, `RequestHandshake`, `SendRequest`, `ReceiveResponse`. The certificate the
  client presents travels with its request (`calls[c].own`).
* `CallTimesOut` is the HTTP client's timeout (the server's thread goes on), `DuplicateRequest` a
  request that reaches the server twice, `SessionExpires` the lifetime, `RestartServer` and
  `RestartClient` the loss of everything in memory.
* `writer` and `calm` are history: which bootstrap has been the only one to write since it began,
  and which calls nothing has disturbed. No guard reads `writer` or `calm`.

### How state and actions correspond to the code: stateful signatures

* In `StatefulKey` a key is its index, its seed (real, wiped by `OQS_MEM_cleanse`, overwritten with
  `PARM_SET_END`, or absent) and the leaf its cached path belongs to. `mem` is `secret_key_data`,
  `disk` what the store callback wrote last, `sig[t]` the signature in the caller's buffer.
* `BeginSign` takes the mutex; `SignXmss`, `SignXmssMt` and `SignLms` are the three sign functions
  up to the new key in memory, with the last index and the indices past it as disjuncts; `Store`
  serialises and calls back; `EndSign` unlocks and returns. `SignXmssFailsEarly`,
  `SignXmssFailsLate`, `SignLmsFailsLate`, `LoadLmsFails`, `StoreFails`, `LockFails` and
  `ExportFails` are their error paths; `Restart` is a crash at any moment and the reload of the
  stored key, `Reload` the same without a crash.
* In `RemainingQuery` `mem` is what the signing thread has computed and `bytes` what an unlocked
  reader finds. A step of a call that changes the key leaves in `writes` the values its index takes
  one after the other (`KeyWrites`: XMSS cleanses the index before it stores the one past the end),
  and `StorePart` and `StoreDone` store them before the call goes on. `LoadPart` loads one part,
  `AnswerXmss` puts the index together (`Number`) and subtracts. Two parts stand for the bytes, the
  lowest one (`Base` values) and those above it: to read a wrong index takes two loads on either
  side of a carry, and a carry into a higher byte is one into the part above. The loops go from the
  highest byte down; since the accesses race, a build may order them otherwise (`Reordered`).
  `BeginLms` is the total, for which LMS loads the key without the mutex, `AnswerLms` the index,
  which it reads under it, in one step: no signature is under way. `before`
  and `steady` are history: what was handed out when the query began, and what happened to the key
  since. No guard reads them.
* In `XmssTraversal` a hash value is the place in the tree it belongs to; hashing two values that are not
  the children of the place in the address gives a value that verifies nowhere. A BDS state has the
  fields of `bds_state`: the shared stack with its levels, `auth`, `keep`, the treehash instances,
  `next_leaf`. One step is one whole call of `sign`, and `sm` the signature it made, which
  `xmssmt_core_sign_open` verifies against the public root.

## Runs

| Run | Instance | What it shows |
|---|---|---|
| `MerkleTree` | pairs of lists of at most 5 leaves over 2 values (3969 states) | the loop computes the tree of the reference definition; inclusion proofs are complete; no list of at most three steps made of the tree's own hashes proves a stranger's leaf; size and root bind the leaves; consistency proofs verify, and only for prefixes |
| `Registry_concurrent` | 2 workers, 1 reader, 3 entries of 1 identity, 1 failure (1 286 486 states) | types; signed roots stay sound although keys may be generated twice or change between signing and saving; acknowledged entries are committed; versions have no gaps; inclusion and consistency proofs that are returned verify against signed roots; the head's version never goes back; the registry implements `TransparencyLog` |
| `Consistency_one_writer` | 1 worker, 1 reader, 4 entries of 2 identities, 2 failures, 1 restart (563 044 states) | without concurrent writers, and with the keys lost in between, the code does what it says: an acknowledged head is complete, versions reconstruct, the head never shrinks, a proof is refused only while an entry lacks its root, and a consistency request reports no false inconsistency, whatever happens between its four reads |
| `Registry_liveness` | 2 workers, no reader, 2 entries, fair | each entry is eventually covered by a root |
| `SecureCall` | 2 bootstraps with different names, 2 calls, 3 of the four begun, 2 faults (2 567 754 states) | a completed call was authenticated by both sides; an answered session is spent; a bootstrap nobody disturbs leaves both services with its material; a call nothing disturbs completes |
| `StatefulKey` | 3 schemes, 4 one-time keys, 2 threads, one fault of each of 6 kinds (90 376 states) | no one-time key is handed out twice, also past the end of the key; signatures carry their own path; the mutex comes free; the calls implement `OneTimeKeys` |
| `RemainingQuery` | 3 schemes, 4 one-time keys, 2 threads, 1 reader, a failing store and a crash, loads and stores in any order (1 123 939 states) | an answer counts no one-time key that was handed out before the query began: for LMS while the key is not used up, for XMSS while also nothing is stored above the lowest byte of the index; parts and answers keep their width |
| `XmssTraversal` | heights 3 to 8 with 1 layer, 3 to 5 with 2 layers, 3 and 4 with 3 layers, each key to its last but one index (6456 states) | every signature verifies; the shared stack never exceeds its slots; the upper layers sign the roots of complete trees |

`Consistency_one_writer` has one worker because `AcknowledgedHeadIsComplete`, `VersionsReconstruct`,
`HeadNeverShrinks` and `RefusalsAreExplained` hold only without concurrency: two registrations that
overlap can share a version, and the smaller rebuild can be saved last. The comments of the code do
not contradict the consequences of that, with the one exception below.

Four runs check what a comment, header or test of the repository says, and TLC refutes it
(`findings` in `PROJECT.json` quotes the lines):

| Run | Statement | Counterexample |
|---|---|---|
| `Registry_stale_head` | adding an entry updates the signed root | two rebuilds overtake each other under the same version; the smaller is saved last and stays the head after both clients were answered |
| `StatefulKey_exhausted` | signature generation fails when the key is used up | the last XMSS index signs with wiped seeds and answers `OQS_SUCCESS`; a used-up LMS key answers `OQS_SUCCESS` without a signature |
| `RemainingQuery_torn` | the remaining signatures are those available, of a key that can still sign | the reader loads the higher byte at index 1, a signature stores index 2, the reader loads the lower byte: index 0, all signatures left (in the code, from `0x00FF` to `0x0100`, 255 more than there were) |
| `XmssTraversal_deep` | what was signed verifies | height 3 with 4 layers: a complete NEXT tree goes on consuming updates, another one is one leaf short when it is swapped in, and signatures stop verifying |

`XmssTraversal_deep` needs at least four layers at height 3. The parameter sets of liboqs with more than
four layers have height 5 with 8 or 12 layers, which are beyond TLC; replaying only the update
counters of `xmssmt_core_sign` for them also finds trees that are swapped in too early, but that is no
result of these runs.

**Bounds.** `MaxEntries`, `MaxFailures` and `MaxRestarts` bound the counters in the guards of
`AddEntry`, `RequestRaises` and `Restart`. Two workers are enough for every race on a pair of
statements, and three entries for two that share a version and one that supersedes it. The liveness
run has two, which share a version or follow each other. Five leaves, in `MerkleTree`, cover every
shape of odd level that trees of height 3 have. A restart is checked with one worker beside a
reader; that signed roots stay sound when several workers are interrupted by it is a theorem, and so
is what the readers are told by them. One value of `PublicKeys` is enough: an assertion's parts are
only compared as a whole and by identity, and two identities give two different leaves; with two
workers there is one identity, since what races there are positions and versions, and the theorems
have any. A consistency request asks for versions up to `MaxEntries`, published or not.
`MaxLeaves`, `MaxEntries` and the number of workers and readers bound the runs only: of `Registry`,
`ConsistencyService` and the trees, everything but liveness is a theorem for any values of them.
`SecureCall` begins at most `MaxRequests` bootstraps and calls, each once, and has at most
`MaxFaults` faults. Two bootstraps tear an identity and one call beside them reads it; two calls
and one bootstrap race on the session table; two faults restart both services or repeat a request
around an expiry. The invariants it checks are theorems for any numbers.
`StatefulKey` bounds the kinds of fault (`MaxFaults`) and the key (`MaxIndex` = 3), and calls
go on after the key is used up. `RemainingQuery` has a lowest byte of one bit (`Base` = 2), so that every second
index carries into the part above it, and words of three bits (`Word` = 8), the least that hold an index
past the end; `Word` is 2^64 in the code, and `Base` 256. `XmssTraversal` needs no bound: each key is finite. Height 3 is the least for
which a treehash instance is more than one node; a run ends before the last index, at which the code
wipes the state (`StatefulKey` has that index). With one layer its properties are theorems for any
height; what several layers do to each other is only checked for these heights.

**Deadlock** checking is off where a run may stop: all requests are over and the bounds reached; the
key of `XmssTraversal` is used up; an export that could not allocate its copy holds the mutex of
`StatefulKey` for good. The other runs of the stateful keys have it on: signing calls go on forever.

**Fairness.** `CFairSpec` of `ConsistencyService` has weak fairness on `Step(w)`: a thread that has a statement
to run is scheduled, since no handler waits for another one except for SQLite's and the pool's
bounded waits. Requests, readers, failures and restarts are not fair. The liveness run has no failures: a
request that raises may leave an entry uncovered until the next registration, and the code promises
no more. `StatefulKey` has weak fairness on `InLock(t)`, the steps of the thread that holds the
mutex: the library waits for nothing while it holds it, and the application's callbacks return. No thread is
promised the mutex. `SecureCall` and `XmssTraversal` state no liveness.

**Symmetry** is used for workers, identities, calls and bootstraps (with their names),
which are only compared for equality, and not in the runs with temporal properties of liveness.

## Proofs

`RegistryProofs` proves, for any sets of workers, identities and public keys and any bounds in `Nat`
(`RegistryAssumption`):

* `TypeCorrect`: `Spec => []TypeOK`, by the stronger `Types`, which gives records their exact
  fields and adds that a non-empty table has a latest root.
* `InvariantHolds`: `Spec => []IInv`.
* `SignedRootsSound`: `Spec => []SignedRootsAreSound`.
* `AcknowledgedCommitted`: `Spec => []AcknowledgedEntriesAreCommitted`.
* `HeadNeverRegresses`: `Spec => HeadVersionNeverRegresses`.
* `RegistryImplementsLog`: `Spec => ImplementsTransparencyLog`.

`SignedRootsAreSound` is not inductive: a root is built from what a worker read some statements
earlier. `IInv` says, of each worker, that its snapshot is still the leaf hashes of a prefix of
the table and reaches the entry it added; that the key it is to sign with exists; and that the root
it answers with is persisted and covers its entry. The argument rests on one fact, `TablesGrow`: a
step only appends, so prefixes, rows and what they cover stay as they were. `MovingWorker` has one step
per action for the worker that moves; `OtherWorker` shows that the others keep their invariant.
For the refinement, `InsertEntry` maps to `Register`, `SaveSignedRoot` to
`Publish` of a prefix (by `IInv`), and every other step to a stutter. These proofs never look
inside `MerkleRoot`: they hold for any tree algorithm, and `TransparencyLog` takes it as a parameter.

`RegistryAnswersProofs` goes on from `IInv`, under the same assumptions:

* `VersionsWithoutGaps`: `Spec => []VersionsHaveNoGaps`. A worker numbers its root by a version it
  read many statements earlier, and others have saved theirs since. What makes this inductive is
  `NotFarAhead`: whoever is to write a row is at most one version ahead of the head, which never
  goes back; so the head rises by one at most, and the version it rises to has a root.
* `ProofResponsesHold`: `Spec => []ProofResponsesVerify`. `AnswersInv` says that every row holds the
  leaf hash of its own assertion, that what a proof request has listed is still a prefix of the
  table with the identity in it, and what an answer promises. The root the handler reads later may be
  of a longer or a shorter prefix than the one it listed, and its size is not compared. When the
  comparison of `get_proof` succeeds, `InclusionProofVerifies` says that the proof verifies against
  the root, and `InclusionProofSound` that the entry is therefore among those the root is of.
* `AcknowledgedHeadComplete`, `RefusalsExplained`, `HeadNeverShrinksHolds` (an action property) and
  `VersionsReconstructHolds` have the hypothesis `OneWorker`, a condition on the constant `Workers`: requests
  come one at a time. With two workers they are false (`Registry_stale_head`). Entries, failures and
  restarts stay unbounded. `SequentialInv` says that the i-th root has version i and is of exactly the entries
  up to version i (`VersionsCutTheTable`), and that what the worker remembers is what the tables
  say now (`AloneInv`): an entry that a failure left without its root has the version that the next root
  will have, whoever asks for it.

The same module proves, for any number of readers beside the workers, `ConsistencyInvariant`
(`CSpec => []CInv`) and from it `ReadersTypeCorrect`, `ConsistencyResponsesHold` and, for one
worker, `NoFalseInconsistencyHolds`. `CInv` is the registry's invariant, which a reader's step leaves
alone, with what a reader remembers between its four reads: its two roots are still persisted with the versions
it was asked for, since tables only grow (`RightReader`); beside one worker its old leaves are
those that the old root is of, by `VersionsCutTheTable` (`RightReaderAlone`), so that the comparison
with both roots cannot fail.

`MerkleTreeProofs` proves what the tree algorithms compute for lists of any length, with any
elements:

* `TreeShape`: as many turns of the loop as there are leaves end with a single node.
* `RootAndSizeBind`: two lists with the same length and root are equal, though neither alone binds
  them. Trees over the same number of leaves have levels of the same sizes, so equal roots make
  equal levels, from the top down.
* `InclusionProofVerifies` and `InclusionProofSound`. The second one has no bound on the steps of the
  proof and no condition on the hashes in them: the hash a proof has come to is either a node of the tree or
  leads nowhere, by the prefixes of `hash_leaf` and `hash_node`.
* `ConsistencyProofVerifies` and `ConsistencyProofSound`, from `RootAndSizeBind`.

`MCMerkleTreeProofs` adds `ReferenceIsTheTree`, that the top-down reference definition and the
bottom-up loop agree on every node, and states the six properties of the run `MerkleTree` for any
`Data` and any `MaxLeaves` in `Nat` (`MaxLeavesAssumption`).

The levels of a tree and the hashes along a proof are folds of the community modules, which are
defined by `CHOOSE` on functions. `SequenceFolds` proves the recursion equation of `FoldLeft` from
that definition for an operator that is a parameter of the module (`FoldEquation`); each loop is an
instance of it. Induction is first-order: a property is given as the set of numbers that have it, and
`InductionOnNat` follows from the library's fact that finite subsets are well founded.

`StatefulKeyProofs` proves, for any set of threads, any height of the key and any faults
(`ConstantsAssumption`): `TypeCorrect`, `OneTimeKeysOnce`, `StoredKeyCovers`,
`ReturnedSignaturesVerify` and `StatefulKeyImplementsOneTimeKeys`. That no
one-time key is handed out twice is not inductive. `IInv` adds: both copies of the key are well formed
(`KeyOK`); the stored key is not past the one in memory; only the holder of the mutex is inside a
call (`LockHeld`); a signature in the buffer is behind the key in memory, and behind the stored key
once that was stored, with an index nobody was given (`SignaturesFresh`); a call has not succeeded before it
stored the key (`StatusSettled`); and the stored key is past all that was handed out. A crash then
restarts from a key that is past everything handed out. For the refinement, a successful store is `Reserve`,
the return of a signature `HandOut`, and everything else stutters. `SignaturesVerify` has its own
invariant: the cached path follows the index until an allocation failed late.

The same module proves of `RemainingQuery`, for any readers, any width of the index and either
order of the bytes (`QueryAssumption`): `QueryTypes` and `RemainingIsSafe`. The statement about the
remaining count cannot be had without a condition on XMSS queries: `RemainingQuery_torn` refutes it.
With the condition it rests on `QInv`, which is `IInv` with
what lies between memory and the bytes (`WritesOK`: what is still to be stored ends with the index of
the key, nothing is pending while an LMS mutex is free, and without it the bytes are those of the key)
and what a steady query has (`SteadyReading`): the higher part it loads is that of the key, the bytes
in memory and each number it may still put together are past everything that was handed out before it
began (`Past`). A store that changes only the lowest byte then makes the bytes those of the key, and
a usable key is past what was handed out (`UsableKeyPast`, from `IInv`). `FewBelow` turns this into the count.
Of a key that is used up nothing is claimed: `max - idx` wraps to 2^64 - 1 when the XMSS index is one past the
end, a wiped or overflowed index looks like that of a new key, and an LMS query that the last signature overtakes
between total and index answers one more than the total.

`SecureCallProofs` proves, for any bootstraps with any common names, any finite set of calls and
any faults (`CommonNameAssumption`, `FaultsAssumption`, `CallsAssumption`; `NamesAssumption` says
that answers and `None` are no bootstraps), all five invariants of the run:

* `TypeCorrect`, `CallsAuthenticated` and `SessionsSpent`, from `IInv`. Its parts are the order of
  a call and its handlers (`OrderAt`), what a handler past its check accepted (`ServerCheckedAt`) and
  what a call past its check accepted (`ClientCheckedAt`). A session is created once and before its
  request exists, so that no creation can follow an answer. Two frame lemmas carry the proof:
  `HandlerFrame`, a step of one handler leaves everything others have read or answered as it is, and
  `CallFrame`, the same for a call; each action only shows what it does to its own.
* `SettledAgree`, from `Written`: whoever writes alone has written every field it has come to.
* `CalmComplete`, from `CalmInv`: a calm call and its handlers have read the material of one
  bootstrap only, its session is in the table, neither used nor expired, and no loop of theirs
  has seen the table change. `CalmHandler` shows that a sweep of others takes nothing from it.

`XmssTraversalProofs` proves, for a key of one tree (`d = 1`) of any height the parameter sets may
have (`ParamsAssumption`), `TraversalSafe` (`Spec /\ d = 1 => []TraversalInvariant`), and from it
`AllSignaturesVerify`, `TraversalTypes` and `TraversalStackBound`. The hypothesis is about a
variable that no step changes: it selects the behaviours of `xmss_core_sign`. What must be shown is
that `tree_height \div 2` updates for each signature are enough. `TraversalInvariant` says, while
signature n is next (`Right`):

* `PathRight` and `KeptRight`: the cached path is that of leaf n, and the left siblings that later
  paths are built from are kept. `Above(n, i)` is the node over leaf n at level i, and `Ones(n, t)` says that
  the t lowest bits of n are set: a round changes the path up to the first zero.
* `InstanceRight`: treehash instance i has, or is on the way to, the node `Target(n, i)`, the right
  sibling that the path takes from it last, unless it lies beyond the tree (`Needed`).
* `Nested`: the stack holds, for each open instance, one node for each bit that is set in its next
  leaf below its level (`Own`, `Holds`), levels falling towards the top, the nodes of lower
  instances on top. This is what lets all instances share one stack: the instance with the least
  need is the one whose nodes are on top (`LeastNeed`, `OthersAbove`), and the stack never has
  more than `tree_height` nodes (`StackLevels`).
* `Budget`: `Total(h, s, n, i) <= 6 * 2 ^ i - 4 - 2 * (h \div 2)` for each open instance i. The total
  counts in half updates what instance i waits for: its own leaves, those of lower instances, and those
  that a higher one owes before i has its turn, with a share of the leaves signed since i started
  (`Cost`). An update lowers the total of every open instance by two (`TotalFalls`), a round raises it
  by `i + 2` at most (`TotalRises`), which is no more since only levels up to `h - 3` are restarted, and an instance that starts again has at most `6 * 2 ^ i - 4`
  (`FreshTotal`), because at most one higher instance can be in its way (`OneInTheWay`). In the
  round that takes the node of instance i, the share of the leaves signed alone exceeds the bound
  for an open instance, so that it is not open (`FinishedInTime`).

Key generation is part of it: `KeyGenerated` shows that growing the whole tree leaves the first
path and the first nodes of all instances, and `SignatureOpens` that a right path leads the verifier to the
root.

Only model-checked: `XmssTraversal` with several layers, and with it `UpperKeysSignRoots`, because whether
the updates left over by the lower layers are enough depends on the heights and the number of layers
(`XmssTraversal_deep` refutes it for some), so that no theorem holds for all of them; and liveness
(`EntriesEventuallyCommitted`, `MutexComesFree`: `ENABLED` and fairness are out of the prover's reach).
Every other property of a passing run is stated by a theorem.

## Not modelled

* api-merkle: `status` (no code changes it, every entry is active); the listing and verify
  endpoints keep no state, verification appears as operators in the properties. Serialisation of
  leaf data, Base64, JSON, timestamps, the `algorithm` string, HTTP itself. The metrics demo calls
  the registry's own operations. The connection pool is SQLAlchemy's: a request that waits for a
  second connection gets an exception when the pool's timeout is over, which `RequestRaises` has.
* api-mTLS: KEM, AEAD, KDF and openssl calls are abstracted to whose material they were made with;
  a response is decrypted with the key of its own session. The gateway's status and demo keep only
  their latest result; the client's handshake-only call is the first half of the modelled one. An expired
  session's lifetime is one event, and the server's clock is left out.
* Stateful signatures: an LMS lock callback that fails (its answer is ignored), an unlock callback
  that fails, the LMS trees, which are rebuilt for every
  signature. In `XmssTraversal`: allocations that fail inside the traversal, `bds_k > 0`, which no
  parameter set has, WOTS chains and the hash functions.
* internal-ca, api-mTLS-sim, api-interna and api-intranet: sequences of openssl processes over files
  that are named after a fresh identifier and never rewritten; a name is only known once the operation has
  succeeded. The one shared file is openssl's own serial file, written inside openssl. The
  verifications read and change nothing.
* pqc-base and the rest of liboqs: functions of their inputs. They are more than 95 % of the
  repository's lines, so the modelled lines are a small share of it.

## Plan

*Done*: the registry and its log, the consistency service, api-mTLS with its bootstrap, the stateful
keys with the query of what remains of them, and the XMSS traversal, with the theorems above, those about the traversal for keys of one tree.

*Left*: the parameters for which several layers of `XmssTraversal` keep up, as a condition that a
theorem could have; the hazards that no property covers yet.
Should the code change: a mutex around the registry's registration, with which `OneWorker` can be
dropped from the theorems that have it; the XMSS guard of a complete NEXT tree, after which
`XmssTraversal_deep` joins `XmssTraversal`.
