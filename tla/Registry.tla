------------------------------ MODULE Registry ------------------------------
(***************************************************************************)
(* The registry service: add_entry and get_signed_root of                  *)
(* src/api-merkle/API/app/services/registry_service.py, the inclusion-proof*)
(* handler of services/proof_service.py, and the endpoints of main.py that *)
(* call them.                                                              *)
(*                                                                         *)
(* The endpoints are plain functions, so each request runs on a thread of  *)
(* its own (a worker). A worker takes no lock. Between two statements on   *)
(* the database, or two accesses to the operator's key, the others run:    *)
(* each action below is the code from one such point to the next. Every    *)
(* database call uses a session and a connection of its own.               *)
(***************************************************************************)
EXTENDS RegistryRepository, FiniteSets

CONSTANTS Workers,
          MaxEntries,   \* bound: entries inserted or about to be
          MaxFailures,  \* bound: requests that raise
          MaxRestarts   \* bound: restarts of the process

ASSUME RegistryAssumption ==
    /\ MaxEntries \in Nat
    /\ MaxFailures \in Nat
    /\ MaxRestarts \in Nat

VARIABLES operatorKey,  \* _OPERATOR_KEYS; 0 stands for None
          keysMade,     \* how many key pairs were ever generated
          pc,           \* where each worker is
          frame,        \* the locals of the request each worker serves
          resp,         \* the response to the last request of each worker
          failures, restarts

tables == <<entries, roots>>
keys   == <<operatorKey, keysMade>>
bounds == <<failures, restarts>>
vars   == <<tables, keys, pc, frame, resp, bounds>>

Locations == {"idle", "insert", "rebuild", "keys", "keygen", "sign", "save",
              "latest", "return"}

(***************************************************************************)
(* What a request remembers: the endpoint it serves, its argument (the     *)
(* assertion to add or the identity to prove), the version and the id of   *)
(* the entry it adds, the entries its proof is about, the leaves its root  *)
(* is about, the key that signs it and the root it will answer with.       *)
(***************************************************************************)
IdleFrame == [op |-> "none", assertion |-> <<>>, identity |-> <<>>, version |-> 0,
              entry_id |-> 0, listed |-> <<>>, snapshot |-> <<>>, key |-> 0,
              signed |-> NoRoot]

NoResponse == [status |-> "none"]
Error      == [status |-> "error"]

Init ==
    /\ entries = <<>> /\ roots = <<>>
    /\ operatorKey = 0 /\ keysMade = 0
    /\ pc = [w \in Workers |-> "idle"]
    /\ frame = [w \in Workers |-> IdleFrame]
    /\ resp = [w \in Workers |-> NoResponse]
    /\ failures = 0 /\ restarts = 0

-----------------------------------------------------------------------------

Goto(w, location) == pc' = [pc EXCEPT ![w] = location]

\* The request of w ends with response r.
Finish(w, r) ==
    /\ Goto(w, "idle")
    /\ frame' = [frame EXCEPT ![w] = IdleFrame]
    /\ resp' = [resp EXCEPT ![w] = r]

Pending == {w \in Workers : pc[w] = "insert"}

\* Fault: the version is the number of entries plus one.
AddEntryByCount(w, a) ==
    /\ pc[w] = "idle"
    /\ Len(entries) + Cardinality(Pending) < MaxEntries
    /\ Goto(w, "insert")
    /\ frame' = [frame EXCEPT ![w] = [IdleFrame EXCEPT
                    !.op = "add", !.assertion = a, !.version = Len(entries) + 1]]
    /\ resp' = [resp EXCEPT ![w] = NoResponse]
    /\ UNCHANGED <<tables, keys, bounds>>

(***************************************************************************)
(* POST /registry/entries up to the version read of add_entry, and then    *)
(* the insertion of the entry.                                             *)
(***************************************************************************)
AddEntry(w, a) ==
    /\ pc[w] = "idle"
    /\ Len(entries) + Cardinality(Pending) < MaxEntries
    /\ Goto(w, "insert")
    /\ frame' = [frame EXCEPT ![w] = [IdleFrame EXCEPT
                    !.op = "add", !.assertion = a, !.version = LatestTreeVersion + 1]]
    /\ resp' = [resp EXCEPT ![w] = NoResponse]
    /\ UNCHANGED <<tables, keys, bounds>>

InsertEntry(w) ==
    /\ pc[w] = "insert"
    /\ InsertEntryRow(frame[w].assertion, frame[w].version)
    /\ Goto(w, "rebuild")
    /\ frame' = [frame EXCEPT ![w].entry_id = Len(entries) + 1]
    /\ UNCHANGED <<roots, keys, resp, bounds>>

\* Faults: the root is rebuilt from the entries up to its version, from the
\* earlier ones only, or from those of its version alone.
RebuildFrom(w, rows) ==
    /\ pc[w] = "rebuild"
    /\ entries # <<>>
    /\ Goto(w, "keys")
    /\ frame' = [frame EXCEPT ![w].snapshot = LeafHashes(rows)]
    /\ UNCHANGED <<tables, keys, resp, bounds>>

RebuildTreeOfVersion(w) == RebuildFrom(w, EntriesUpToVersion(frame[w].version))

RebuildTreeEarlier(w) == RebuildFrom(w, EntriesUpToVersion(frame[w].version - 1))

RebuildTreeOwnVersion(w) ==
    RebuildFrom(w, SelectSeq(entries, LAMBDA e : e.tree_version = frame[w].version))

\* Fault: the level above the leaves is taken for the leaves.
RebuildTreeLevel(w) ==
    /\ pc[w] = "rebuild"
    /\ entries # <<>>
    /\ Goto(w, "keys")
    /\ frame' = [frame EXCEPT ![w].snapshot = NextLevel(LeafHashes(entries))]
    /\ UNCHANGED <<tables, keys, resp, bounds>>

(***************************************************************************)
(* _rebuild_and_store_signed_root: list the entries, obtain the operator's *)
(* keys, sign the root and save it.                                        *)
(***************************************************************************)
RebuildTree(w) ==
    /\ pc[w] = "rebuild"
    /\ entries # <<>>
    /\ Goto(w, "keys")
    /\ frame' = [frame EXCEPT ![w].snapshot = LeafHashes(entries)]
    /\ UNCHANGED <<tables, keys, resp, bounds>>

\* A registry without entries has no root to sign.
RebuildEmpty(w) ==
    /\ pc[w] = "rebuild"
    /\ entries = <<>>
    /\ Finish(w, Error)
    /\ UNCHANGED <<tables, keys, bounds>>

\* Fault: once the keys are there the root is never signed.
AfterKeysReturn(w) == "return"

(***************************************************************************)
(* _get_operator_keys: test the global and generate a pair when it is None.*)
(* The test and the assignment are apart. get_signed_root calls it too,    *)
(* for the algorithm's name, when it answers with a persisted root.        *)
(***************************************************************************)
AfterKeys(w) == IF frame[w].signed = NoRoot THEN "sign" ELSE "return"

CheckOperatorKeys(w) ==
    /\ pc[w] = "keys"
    /\ Goto(w, IF operatorKey = 0 THEN "keygen" ELSE AfterKeys(w))
    /\ UNCHANGED <<tables, keys, frame, resp, bounds>>

GenerateOperatorKeys(w) ==
    /\ pc[w] = "keygen"
    /\ keysMade' = keysMade + 1
    /\ operatorKey' = keysMade'
    /\ Goto(w, AfterKeys(w))
    /\ UNCHANGED <<tables, frame, resp, bounds>>

\* The keys that are returned are the ones the global holds by then.
SignRoot(w) ==
    /\ pc[w] = "sign"
    /\ frame' = [frame EXCEPT ![w].key = operatorKey]
    /\ Goto(w, "save")
    /\ UNCHANGED <<tables, keys, resp, bounds>>

\* Fault: the tree is said to end at the entry just added.
SignedRootOfEntry(f) ==
    [tree_version |-> f.version,
     tree_size    |-> f.entry_id,
     merkle_root  |-> MerkleRoot(f.snapshot),
     signature    |-> [signer |-> f.key, message |-> MerkleRoot(f.snapshot)],
     public_key   |-> f.key]

\* The row built from what the request remembers.
SignedRoot(f) ==
    [tree_version |-> f.version,
     tree_size    |-> Len(f.snapshot),
     merkle_root  |-> MerkleRoot(f.snapshot),
     signature    |-> [signer |-> f.key, message |-> MerkleRoot(f.snapshot)],
     public_key   |-> f.key]

\* Fault: the public key is read again from the global when the root is saved.
SaveSignedRootLateKey(w) ==
    LET row == [SignedRoot(frame[w]) EXCEPT !.public_key = operatorKey]
    IN  /\ pc[w] = "save"
        /\ InsertRootRow(row)
        /\ frame' = [frame EXCEPT ![w].signed = row]
        /\ Goto(w, "return")
        /\ UNCHANGED <<entries, keys, resp, bounds>>

SaveSignedRoot(w) ==
    /\ pc[w] = "save"
    /\ InsertRootRow(SignedRoot(frame[w]))
    /\ frame' = [frame EXCEPT ![w].signed = SignedRoot(frame[w])]
    /\ Goto(w, "return")
    /\ UNCHANGED <<entries, keys, resp, bounds>>

AddEntryReturns(w) ==
    /\ pc[w] = "return" /\ frame[w].op = "add"
    /\ Finish(w, [status |-> "added", entry_id |-> frame[w].entry_id,
                  tree_version |-> frame[w].version])
    /\ UNCHANGED <<tables, keys, bounds>>

-----------------------------------------------------------------------------
(* GET /registry/root: get_signed_root *)

GetRoot(w) ==
    /\ pc[w] = "idle"
    /\ Goto(w, "latest")
    /\ frame' = [frame EXCEPT ![w].op = "root"]
    /\ resp' = [resp EXCEPT ![w] = NoResponse]
    /\ UNCHANGED <<tables, keys, bounds>>

ReadLatestRoot(w) ==
    /\ pc[w] = "latest"
    /\ roots # <<>>
    /\ frame' = [frame EXCEPT ![w].signed = LatestRoot]
    /\ Goto(w, "keys")
    /\ UNCHANGED <<tables, keys, resp, bounds>>

\* No root yet: one is rebuilt, as version 1.
NoLatestRoot(w) ==
    /\ pc[w] = "latest"
    /\ roots = <<>>
    /\ frame' = [frame EXCEPT ![w].version = 1]
    /\ Goto(w, "rebuild")
    /\ UNCHANGED <<tables, keys, resp, bounds>>

GetRootReturns(w) ==
    /\ pc[w] = "return" /\ frame[w].op = "root"
    /\ Finish(w, [status |-> "root", root |-> frame[w].signed])
    /\ UNCHANGED <<tables, keys, bounds>>

-----------------------------------------------------------------------------
(* POST /registry/proof: get_inclusion_proof_for_identity *)

\* The positions of an identity among the rows listed.
PositionsOf(id, rows) == {i \in DOMAIN rows : rows[i].assertion.identity = id}

FirstPosition(id, rows) ==
    CHOOSE i \in PositionsOf(id, rows) : \A j \in PositionsOf(id, rows) : i <= j

\* Fault: only the entries of the identity are listed.
GetProofFiltered(w, id) ==
    /\ pc[w] = "idle"
    /\ PositionsOf(id, entries) # {}
    /\ Goto(w, "latest")
    /\ frame' = [frame EXCEPT ![w].op = "proof", ![w].identity = id,
                    ![w].listed = SelectSeq(entries, LAMBDA e : e.assertion.identity = id)]
    /\ resp' = [resp EXCEPT ![w] = NoResponse]
    /\ UNCHANGED <<tables, keys, bounds>>

\* Lists the entries; the signed root is read by a later step.
GetProof(w, id) ==
    /\ pc[w] = "idle"
    /\ PositionsOf(id, entries) # {}
    /\ Goto(w, "latest")
    /\ frame' = [frame EXCEPT ![w].op = "proof", ![w].identity = id,
                              ![w].listed = entries]
    /\ resp' = [resp EXCEPT ![w] = NoResponse]
    /\ UNCHANGED <<tables, keys, bounds>>

\* The registry is empty or holds no entry of that identity.
GetProofUnknown(w, id) ==
    /\ pc[w] = "idle"
    /\ PositionsOf(id, entries) = {}
    /\ Finish(w, Error)
    /\ UNCHANGED <<tables, keys, bounds>>

ProofResponse(f) ==
    LET first == FirstPosition(f.identity, f.listed)
    IN  [status   |-> "proof",
         identity |-> f.identity,
         entry    |-> f.listed[first],
         proof    |-> GenerateInclusionProof(LeafHashes(f.listed), first - 1),
         root     |-> f.signed]

\* Fault: no comparison.
ProofMatchesAlways(f) == TRUE

\* The defensive comparison of the listed entries with the signed root.
ProofMatches(f) == MerkleRoot(LeafHashes(f.listed)) = f.signed.merkle_root

GetProofReturns(w) ==
    /\ pc[w] = "return" /\ frame[w].op = "proof"
    /\ Finish(w, IF ProofMatches(frame[w]) THEN ProofResponse(frame[w])
                 ELSE [status |-> "inconsistent"])
    /\ UNCHANGED <<tables, keys, bounds>>

-----------------------------------------------------------------------------
(* What the environment may do to a request *)

(***************************************************************************)
(* Any statement may raise ("database is locked" after 5 s, no connection  *)
(* in the pool after 30 s, a failing liboqs call): the endpoint answers    *)
(* with an error and what was committed stays. At "return" it is the       *)
(* refresh after the commit of the root that failed.                       *)
(***************************************************************************)
RequestRaises(w) ==
    /\ pc[w] # "idle"
    /\ failures < MaxFailures
    /\ failures' = failures + 1
    /\ Finish(w, Error)
    /\ UNCHANGED <<tables, keys, restarts>>

\* The process restarts: the tables are on disk, the operator's keys are not.
Restart ==
    /\ restarts < MaxRestarts
    /\ restarts' = restarts + 1
    /\ operatorKey' = 0
    /\ pc' = [w \in Workers |-> "idle"]
    /\ frame' = [w \in Workers |-> IdleFrame]
    /\ resp' = [w \in Workers |-> NoResponse]
    /\ UNCHANGED <<tables, keysMade, failures>>

Step(w) ==
    \/ InsertEntry(w)
    \/ RebuildTree(w)
    \/ RebuildEmpty(w)
    \/ CheckOperatorKeys(w)
    \/ GenerateOperatorKeys(w)
    \/ SignRoot(w)
    \/ SaveSignedRoot(w)
    \/ ReadLatestRoot(w)
    \/ NoLatestRoot(w)
    \/ AddEntryReturns(w)
    \/ GetRootReturns(w)
    \/ GetProofReturns(w)

Request(w) ==
    \/ \E a \in Assertions : AddEntry(w, a)
    \/ GetRoot(w)
    \/ \E id \in Identities : GetProof(w, id) \/ GetProofUnknown(w, id)

Next ==
    \/ \E w \in Workers : Request(w) \/ Step(w) \/ RequestRaises(w)
    \/ Restart

Spec == Init /\ [][Next]_vars

-----------------------------------------------------------------------------
(* Types *)

\* A row of signed_roots, or NoRoot; the hash is a term of no fixed depth.
RootOK(r) ==
    /\ r.tree_version \in Nat
    /\ r.tree_size \in Nat
    /\ r.public_key \in Nat

FrameOK(f) ==
    /\ f.op \in {"none", "add", "root", "proof"}
    /\ f.assertion \in Assertions \cup {<<>>}
    /\ f.identity \in Identities \cup {<<>>}
    /\ f.version \in Nat
    /\ f.entry_id \in Nat
    /\ f.listed \in Seq(EntryRow)
    /\ f.snapshot \in Seq(LeafHash)
    /\ f.key \in Nat
    /\ RootOK(f.signed)

\* The type of every variable.
TypeOK ==
    /\ entries \in Seq(EntryRow)
    /\ \A i \in DOMAIN roots : RootOK(roots[i])
    /\ keysMade \in Nat /\ operatorKey \in Nat
    /\ pc \in [Workers -> Locations]
    /\ DOMAIN frame = Workers /\ \A w \in Workers : FrameOK(frame[w])
    /\ DOMAIN resp = Workers
    /\ failures \in 0 .. MaxFailures /\ restarts \in 0 .. MaxRestarts

-----------------------------------------------------------------------------
(* Safety, whatever the number of workers, the failures and the restarts *)

\* Root r commits to the first tree_size entries of the table.
CommitsToPrefix(r) ==
    /\ r.tree_size \in 1 .. Len(entries)
    /\ r.merkle_root = MerkleRoot(LeafHashes(SubSeq(entries, 1, r.tree_size)))

SoundRoot(r) ==
    /\ CommitsToPrefix(r)
    /\ r.public_key # 0
    /\ r.signature = [signer |-> r.public_key, message |-> r.merkle_root]

\* Every signed root commits to a prefix of the entries as they are now, and
\* its signature verifies under the key stored beside it, although the rebuild
\* reads the entries, the operator's key and the tables at different times.
SignedRootsAreSound == \A i \in DOMAIN roots : SoundRoot(roots[i])

\* An entry whose registration was acknowledged is covered by a signed root of
\* the version the client was given; no other writer's root can take its place.
AcknowledgedEntriesAreCommitted ==
    \A w \in Workers : resp[w].status = "added" =>
        \E i \in DOMAIN roots :
            /\ roots[i].tree_version = resp[w].tree_version
            /\ roots[i].tree_size >= resp[w].entry_id

\* Versions are published without gaps, so every version up to the latest one
\* can be asked for; an entry is at most one version ahead.
VersionsHaveNoGaps ==
    /\ \A v \in 1 .. LatestTreeVersion : RootByVersion(v) # NoRoot
    /\ \A i \in DOMAIN entries : entries[i].tree_version \in 1 .. LatestTreeVersion + 1

\* A proof that is returned verifies (as POST /registry/verify-proof does it,
\* from the entry) against a persisted root that covers the entry, although
\* the entries and the root were read at different times.
ProofResponsesVerify ==
    \A w \in Workers : resp[w].status = "proof" =>
        LET r == resp[w]
        IN  /\ r.entry.assertion.identity = r.identity
            /\ VerifyInclusionProof(HashLeaf(r.entry.assertion), r.proof, r.root.merkle_root)
            /\ \E i \in DOMAIN roots : roots[i] = r.root
            /\ \E i \in 1 .. r.root.tree_size : entries[i] = r.entry

\* The positions of the entries that some signed root covers.
CoveredEntries == {n \in 1 .. Len(entries) :
                      \E i \in DOMAIN roots : roots[i].tree_size >= n}

\* The version of the published head never goes back.
HeadVersionNeverRegresses == [][LatestTreeVersion' >= LatestTreeVersion]_tables

\* The registry is an append-only log with commitments that are never withdrawn.
Log == INSTANCE TransparencyLog WITH
           log <- LeafHashes(entries),
           commitments <- {[tree_size   |-> roots[i].tree_size,
                            merkle_root |-> roots[i].merkle_root] : i \in DOMAIN roots}

ImplementsTransparencyLog == Log!Spec

-----------------------------------------------------------------------------
(* Liveness, when no request raises and the process stays up *)

\* Every entry ends up covered by a signed root, even when the writers' rebuilds
\* overtake each other.
EntriesEventuallyCommitted ==
    \A n \in 1 .. MaxEntries :
        (n <= Len(entries)) ~> (n \in CoveredEntries)

-----------------------------------------------------------------------------
(* What holds when requests come one at a time, failures and restarts      *)
(* included: a single worker.                                              *)

\* A registration that is acknowledged leaves a head that covers the whole
\* table, the entries of earlier failed registrations included.
AcknowledgedHeadIsComplete ==
    \A w \in Workers : resp[w].status = "added" =>
        LatestRoot.tree_size = Len(entries)

\* Every published version can be rebuilt from the entries of that version and
\* the earlier ones: what a consistency proof needs. It must survive an entry
\* that was left without its root, whose version the next entry takes again.
VersionsReconstruct ==
    \A v \in 1 .. LatestTreeVersion :
        MerkleRoot(LeafHashes(EntriesUpToVersion(v))) = RootByVersion(v).merkle_root

\* The head never goes back to fewer entries.
HeadNeverShrinks == [][LatestRoot'.tree_size >= LatestRoot.tree_size]_tables

\* A proof is refused as inconsistent only while an entry has no root yet.
RefusalsAreExplained ==
    \A w \in Workers : resp[w].status = "inconsistent" =>
        LatestRoot.tree_size < Len(entries)

-----------------------------------------------------------------------------
(* What the code says of itself and does not keep *)

AllIdle == \A w \in Workers : pc[w] = "idle"

\* add_entry "updates the signed root of the Merkle tree": when every request is
\* over, the head covers every entry.
HeadIsCurrentWhenIdle == AllIdle => LatestRoot.tree_size = Len(entries)
=============================================================================
