--------------------------- MODULE RegistryProofs ---------------------------
(***************************************************************************)
(* Theorems about Registry.tla, for any number of workers, identities,     *)
(* entries, failures and restarts. The proofs never look inside a Merkle   *)
(* root: they hold whatever MerkleRoot computes from a list of leaves.     *)
(***************************************************************************)
EXTENDS Registry, TLAPS

-----------------------------------------------------------------------------
(* Lemmas on sequences and on the repository's operators *)

\* The leaf hashes of a list of rows: their type, number and order.
LEMMA LeafHashesType ==
    ASSUME NEW rows \in Seq(EntryRow)
    PROVE  /\ LeafHashes(rows) \in Seq(LeafHash)
           /\ Len(LeafHashes(rows)) = Len(rows)
           /\ \A i \in 1 .. Len(rows) : LeafHashes(rows)[i] = rows[i].leaf_hash
<1>0. \A i \in 1 .. Len(rows) : rows[i] \in EntryRow
    OBVIOUS
<1>1. \A i \in 1 .. Len(rows) : rows[i].leaf_hash \in LeafHash
    BY <1>0 DEF EntryRow
<1>2. LeafHashes(rows) \in [1 .. Len(rows) -> LeafHash]
    BY <1>1 DEF LeafHashes
<1>3. Len(rows) \in Nat
    OBVIOUS
<1>4. QED
    BY <1>2, <1>3 DEF LeafHashes

\* The leaf hashes of a prefix are a prefix of the leaf hashes.
LEMMA LeafHashesOfPrefix ==
    ASSUME NEW rows \in Seq(EntryRow), NEW n \in 0 .. Len(rows)
    PROVE  LeafHashes(SubSeq(rows, 1, n)) = SubSeq(LeafHashes(rows), 1, n)
BY DEF LeafHashes, EntryRow

\* A row appended appends its leaf hash.
LEMMA LeafHashesOfAppend ==
    ASSUME NEW rows \in Seq(EntryRow), NEW e \in EntryRow
    PROVE  LeafHashes(Append(rows, e)) = Append(LeafHashes(rows), e.leaf_hash)
BY DEF LeafHashes, EntryRow

-----------------------------------------------------------------------------
(* Types. A Merkle root is the root of some list of leaves. *)

HashTerm == {MerkleRoot(s) : s \in Seq(LeafHash)}

RootRow == [tree_version : Nat, tree_size : Nat, merkle_root : HashTerm,
            signature : [signer : Nat, message : HashTerm], public_key : Nat]

FrameRow == [op : {"none", "add", "root", "proof"},
             assertion : Assertions \cup {<<>>},
             identity : Identities \cup {<<>>},
             version : Nat, entry_id : Nat,
             listed : Seq(EntryRow), snapshot : Seq(LeafHash),
             key : Nat, signed : RootRow]

\* Some root is the latest one; then LatestRoot is one of the rows.
HasLatest == roots # <<>> => \E i \in DOMAIN roots : IsLatest(i)

\* A worker about to insert knows what.
InsertReady == \A w \in Workers : pc[w] = "insert" => frame[w].assertion \in Assertions

Types ==
    /\ entries \in Seq(EntryRow)
    /\ roots \in Seq(RootRow)
    /\ HasLatest
    /\ operatorKey \in Nat /\ keysMade \in Nat
    /\ pc \in [Workers -> Locations]
    /\ frame \in [Workers -> FrameRow]
    /\ InsertReady
    /\ resp = [w \in Workers |-> resp[w]]
    /\ failures \in 0 .. MaxFailures /\ restarts \in 0 .. MaxRestarts

\* The empty registry's root is the root of a list of leaves too.
LEMMA EmptyRootIsHash == EmptyRoot \in HashTerm
<1>1. <<>> \in Seq(LeafHash)
    OBVIOUS
<1>2. MerkleRoot(<<>>) = EmptyRoot
    BY DEF MerkleRoot
<1>3. QED
    BY <1>1, <1>2 DEF HashTerm

\* The null root and an idle worker's frame have their types.
LEMMA NullRecords == NoRoot \in RootRow /\ IdleFrame \in FrameRow
<1>1. NoRoot \in RootRow
    BY EmptyRootIsHash DEF NoRoot, NoSignature, RootRow
<1>2. QED
    BY <1>1 DEF IdleFrame, FrameRow

\* A row built from a frame is a row of signed_roots.
LEMMA SignedRootType ==
    ASSUME NEW f \in FrameRow
    PROVE  SignedRoot(f) \in RootRow
<1>1. f.snapshot \in Seq(LeafHash) /\ f.version \in Nat /\ f.key \in Nat
    BY DEF FrameRow
<1>2. MerkleRoot(f.snapshot) \in HashTerm
    BY <1>1 DEF HashTerm
<1>3. QED
    BY <1>1, <1>2 DEF SignedRoot, RootRow

\* The latest root is one of the rows, and none is later.
LEMMA LatestRootIsARow ==
    ASSUME Types
    PROVE  /\ LatestRoot \in RootRow
           /\ roots # <<>> => \E i \in DOMAIN roots : LatestRoot = roots[i] /\ IsLatest(i)
           /\ LatestTreeVersion \in Nat
<1>1. CASE roots = <<>>
    <2>1. LatestRoot = NoRoot
        BY <1>1 DEF LatestRoot
    <2>2. QED
        BY <1>1, <2>1, NullRecords DEF LatestTreeVersion, NoRoot
<1>2. CASE roots # <<>>
    <2>1. PICK i \in DOMAIN roots : IsLatest(i)
        BY <1>2 DEF Types, HasLatest
    <2>2. (CHOOSE j \in DOMAIN roots : IsLatest(j)) \in DOMAIN roots
             /\ IsLatest(CHOOSE j \in DOMAIN roots : IsLatest(j))
        BY <2>1
    <2>3. PICK k \in DOMAIN roots : LatestRoot = roots[k] /\ IsLatest(k)
        BY <1>2, <2>2 DEF LatestRoot
    <2>4. roots[k] \in RootRow
        BY DEF Types
    <2>5. roots[k].tree_version \in Nat
        BY <2>4 DEF RootRow
    <2>6. QED
        BY <2>3, <2>4, <2>5 DEF LatestTreeVersion
<1>3. QED
    BY <1>1, <1>2

\* After an insertion there is still a latest root.
LEMMA HasLatestAfterInsert ==
    ASSUME Types, NEW r \in RootRow, roots' = Append(roots, r)
    PROVE  HasLatest'
<1>1. /\ roots \in Seq(RootRow) /\ roots' \in Seq(RootRow)
      /\ DOMAIN roots = 1 .. Len(roots) /\ DOMAIN roots' = 1 .. Len(roots) + 1
      /\ Len(roots) \in Nat
    BY DEF Types
<1>2. \A j \in 1 .. Len(roots) : roots'[j] = roots[j] /\ roots[j].tree_version \in Nat
    <2>1. \A j \in 1 .. Len(roots) : roots[j] \in RootRow
        BY <1>1
    <2>2. QED
        BY <1>1, <2>1 DEF RootRow
<1>3. roots'[Len(roots) + 1] = r /\ r.tree_version \in Nat
    BY <1>1 DEF RootRow
<1>4. CASE roots = <<>>
    <2>1. IsLatest(1)'
        BY <1>1, <1>3, <1>4 DEF IsLatest
    <2>2. QED
        BY <1>1, <1>4, <2>1 DEF HasLatest
<1>5. CASE roots # <<>>
    <2>1. PICK i \in DOMAIN roots : IsLatest(i)
        BY <1>5 DEF Types, HasLatest
    <2>2. CASE roots[i].tree_version <= r.tree_version
        <3>1. PICK n \in 1 .. Len(roots) + 1 : n = Len(roots) + 1
            BY <1>1
        <3>2. ASSUME NEW j \in 1 .. Len(roots) + 1
              PROVE  \/ roots'[j].tree_version < roots'[n].tree_version
                     \/ roots'[j].tree_version = roots'[n].tree_version /\ j <= n
            <4>1. CASE j = n
                BY <4>1, <1>3, <3>1
            <4>2. CASE j \in 1 .. Len(roots)
                <5>1. /\ roots'[j] = roots[j] /\ roots'[n] = r
                      /\ roots[j].tree_version \in Nat
                      /\ roots[i].tree_version \in Nat
                    BY <4>2, <1>1, <1>2, <1>3, <2>1, <3>1
                <5>2. \/ roots[j].tree_version < roots[i].tree_version
                      \/ roots[j].tree_version = roots[i].tree_version /\ j <= i
                    BY <4>2, <1>1, <2>1 DEF IsLatest
                <5>3. QED
                    BY <4>2, <5>1, <5>2, <1>1, <1>3, <2>2, <3>1
            <4>3. QED
                BY <1>1, <3>1, <4>1, <4>2
        <3>3. \E k \in DOMAIN roots' : IsLatest(k)'
            BY <1>1, <3>1, <3>2 DEF IsLatest
        <3>4. QED
            BY <3>3 DEF HasLatest
    <2>3. CASE r.tree_version < roots[i].tree_version
        <3>1. IsLatest(i)'
            BY <1>1, <1>2, <1>3, <2>1, <2>3 DEF IsLatest
        <3>2. QED
            BY <1>1, <2>1, <3>1 DEF HasLatest
    <2>4. QED
        BY <1>1, <1>2, <1>3, <2>1, <2>2, <2>3
<1>6. QED
    BY <1>4, <1>5

-----------------------------------------------------------------------------
(* Every step preserves the types. *)

\* The initial state has its types.
LEMMA InitTypes == Init => Types
BY RegistryAssumption, NullRecords DEF Init, Types, HasLatest, InsertReady, Locations

\* What handlers assign to their locals keeps the type of the frame.
LEMMA FrameEdits ==
    ASSUME NEW f \in FrameRow
    PROVE  /\ \A n \in Nat : [f EXCEPT !.entry_id = n] \in FrameRow
           /\ \A n \in Nat : [f EXCEPT !.version = n] \in FrameRow
           /\ \A n \in Nat : [f EXCEPT !.key = n] \in FrameRow
           /\ \A s \in Seq(LeafHash) : [f EXCEPT !.snapshot = s] \in FrameRow
           /\ \A r \in RootRow : [f EXCEPT !.signed = r] \in FrameRow
           /\ [f EXCEPT !.op = "root"] \in FrameRow
           /\ \A id \in Identities, rows \in Seq(EntryRow) :
                 [f EXCEPT !.op = "proof", !.identity = id, !.listed = rows] \in FrameRow
           /\ \A a \in Assertions, n \in Nat :
                 [f EXCEPT !.op = "add", !.assertion = a, !.version = n] \in FrameRow
BY DEF FrameRow

\* An inserted entry is a row of registry_entries.
LEMMA NewEntryType ==
    ASSUME NEW a \in Assertions, NEW v \in Nat
    PROVE  [assertion |-> a, leaf_hash |-> HashLeaf(a), tree_version |-> v] \in EntryRow
<1>1. HashLeaf(a) \in LeafHash
    BY DEF LeafHash
<1>2. QED
    BY <1>1 DEF EntryRow

\* What a step that moves worker w must preserve.
WorkerTypes ==
    /\ pc \in [Workers -> Locations]
    /\ frame \in [Workers -> FrameRow]
    /\ InsertReady
    /\ resp = [v \in Workers |-> resp[v]]

\* A worker that moves on keeps the types of the workers' variables.
LEMMA MoveTypes ==
    ASSUME Types, NEW w \in Workers, NEW location \in Locations, NEW f \in FrameRow,
           location = "insert" => f.assertion \in Assertions,
           pc' = [pc EXCEPT ![w] = location],
           frame' = [frame EXCEPT ![w] = f],
           resp' = resp \/ \E r : resp' = [resp EXCEPT ![w] = r]
    PROVE  WorkerTypes'
BY DEF Types, WorkerTypes, InsertReady

\* So does a worker whose request ends.
LEMMA FinishTypes ==
    ASSUME Types, NEW w \in Workers, NEW r, Finish(w, r)
    PROVE  WorkerTypes'
<1>1. "idle" \in Locations
    BY DEF Locations
<1>2. QED
    BY <1>1, NullRecords, MoveTypes DEF Finish, Goto

\* The steps that leave the tables alone.
LEMMA QuietTypes ==
    ASSUME Types, WorkerTypes', UNCHANGED tables,
           operatorKey' \in Nat, keysMade' \in Nat,
           failures' \in 0 .. MaxFailures, restarts' \in 0 .. MaxRestarts
    PROVE  Types'
BY DEF Types, WorkerTypes, tables, HasLatest, IsLatest

\* Every step keeps the types.
LEMMA StepTypes == Types /\ [Next]_vars => Types'
<1> SUFFICES ASSUME Types, [Next]_vars
             PROVE  Types'
    OBVIOUS
<1>0. /\ operatorKey \in Nat /\ keysMade \in Nat
      /\ failures \in 0 .. MaxFailures /\ restarts \in 0 .. MaxRestarts
      /\ frame \in [Workers -> FrameRow]
      /\ entries \in Seq(EntryRow) /\ roots \in Seq(RootRow)
    BY DEF Types
<1> USE DEF keys, bounds
<1>1. ASSUME NEW w \in Workers, NEW a \in Assertions, AddEntry(w, a)
      PROVE  Types'
    <2> DEFINE f == [IdleFrame EXCEPT !.op = "add", !.assertion = a,
                                      !.version = LatestTreeVersion + 1]
    <2>1. LatestTreeVersion + 1 \in Nat
        BY LatestRootIsARow
    <2>2. f \in FrameRow /\ f.assertion = a
        BY <2>1, NullRecords, FrameEdits DEF IdleFrame
    <2>3. "insert" \in Locations
        BY DEF Locations
    <2>4. WorkerTypes'
        BY <1>1, <2>2, <2>3, MoveTypes DEF AddEntry, Goto
    <2>5. QED
        BY <1>0, <1>1, <2>4, QuietTypes DEF AddEntry
<1>2. ASSUME NEW w \in Workers, InsertEntry(w)
      PROVE  Types'
    <2>1. /\ frame[w].assertion \in Assertions /\ frame[w].version \in Nat
          /\ frame[w] \in FrameRow
        BY <1>0, <1>2 DEF InsertEntry, Types, InsertReady, FrameRow
    <2>2. entries' \in Seq(EntryRow)
        BY <1>0, <1>2, <2>1, NewEntryType DEF InsertEntry, InsertEntryRow
    <2>3. [frame[w] EXCEPT !.entry_id = Len(entries) + 1] \in FrameRow
        <3>1. Len(entries) + 1 \in Nat
            BY <1>0
        <3>2. QED
            BY <2>1, <3>1, FrameEdits
    <2>4. "rebuild" \in Locations
        BY DEF Locations
    <2>5. WorkerTypes'
        BY <1>2, <2>3, <2>4, MoveTypes DEF InsertEntry, Goto
    <2>6. QED
        BY <1>0, <1>2, <2>2, <2>5 DEF InsertEntry, Types, WorkerTypes, HasLatest, IsLatest
<1>3. ASSUME NEW w \in Workers, RebuildTree(w)
      PROVE  Types'
    <2>1. frame[w] \in FrameRow /\ LeafHashes(entries) \in Seq(LeafHash)
        BY <1>0, LeafHashesType
    <2>2. [frame[w] EXCEPT !.snapshot = LeafHashes(entries)] \in FrameRow
        BY <2>1, FrameEdits
    <2>3. "keys" \in Locations
        BY DEF Locations
    <2>4. WorkerTypes'
        BY <1>3, <2>2, <2>3, MoveTypes DEF RebuildTree, Goto
    <2>5. QED
        BY <1>0, <1>3, <2>4, QuietTypes DEF RebuildTree
<1>4. ASSUME NEW w \in Workers, RebuildEmpty(w)
      PROVE  Types'
    BY <1>0, <1>4, FinishTypes, QuietTypes DEF RebuildEmpty
<1>5. ASSUME NEW w \in Workers, CheckOperatorKeys(w) \/ GenerateOperatorKeys(w)
      PROVE  Types'
    <2>1. frame[w] \in FrameRow /\ frame = [frame EXCEPT ![w] = frame[w]]
        BY <1>0
    <2>2. PICK location \in Locations \ {"insert"} : pc' = [pc EXCEPT ![w] = location]
        BY <1>5 DEF CheckOperatorKeys, GenerateOperatorKeys, Goto, AfterKeys, Locations
    <2>3. UNCHANGED <<tables, frame, resp, bounds>>
        BY <1>5 DEF CheckOperatorKeys, GenerateOperatorKeys
    <2>4. WorkerTypes'
        BY <2>1, <2>2, <2>3, MoveTypes
    <2>5. operatorKey' \in Nat /\ keysMade' \in Nat
        BY <1>0, <1>5 DEF CheckOperatorKeys, GenerateOperatorKeys
    <2>6. QED
        BY <1>0, <2>3, <2>4, <2>5, QuietTypes
<1>6. ASSUME NEW w \in Workers, SignRoot(w)
      PROVE  Types'
    <2>1. [frame[w] EXCEPT !.key = operatorKey] \in FrameRow
        BY <1>0, FrameEdits
    <2>2. "save" \in Locations
        BY DEF Locations
    <2>3. WorkerTypes'
        BY <1>6, <2>1, <2>2, MoveTypes DEF SignRoot, Goto
    <2>4. QED
        BY <1>0, <1>6, <2>3, QuietTypes DEF SignRoot
<1>7. ASSUME NEW w \in Workers, SaveSignedRoot(w)
      PROVE  Types'
    <2>1. SignedRoot(frame[w]) \in RootRow
        BY <1>0, SignedRootType
    <2>2. roots' = Append(roots, SignedRoot(frame[w])) /\ roots' \in Seq(RootRow)
        BY <1>0, <1>7, <2>1 DEF SaveSignedRoot, InsertRootRow
    <2>3. HasLatest'
        BY <2>1, <2>2, HasLatestAfterInsert
    <2>4. [frame[w] EXCEPT !.signed = SignedRoot(frame[w])] \in FrameRow
        BY <1>0, <2>1, FrameEdits
    <2>5. "return" \in Locations
        BY DEF Locations
    <2>6. WorkerTypes'
        BY <1>7, <2>4, <2>5, MoveTypes DEF SaveSignedRoot, Goto
    <2>7. QED
        BY <1>0, <1>7, <2>2, <2>3, <2>6 DEF SaveSignedRoot, Types, WorkerTypes
<1>8. ASSUME NEW w \in Workers,
             AddEntryReturns(w) \/ GetRootReturns(w) \/ GetProofReturns(w)
      PROVE  Types'
    BY <1>0, <1>8, FinishTypes, QuietTypes
       DEF AddEntryReturns, GetRootReturns, GetProofReturns
<1>9. ASSUME NEW w \in Workers, GetRoot(w)
      PROVE  Types'
    <2>1. [frame[w] EXCEPT !.op = "root"] \in FrameRow
        BY <1>0, FrameEdits
    <2>2. "latest" \in Locations
        BY DEF Locations
    <2>3. WorkerTypes'
        BY <1>9, <2>1, <2>2, MoveTypes DEF GetRoot, Goto
    <2>4. QED
        BY <1>0, <1>9, <2>3, QuietTypes DEF GetRoot
<1>10. ASSUME NEW w \in Workers, ReadLatestRoot(w)
       PROVE  Types'
    <2>1. [frame[w] EXCEPT !.signed = LatestRoot] \in FrameRow
        BY <1>0, LatestRootIsARow, FrameEdits
    <2>2. "keys" \in Locations
        BY DEF Locations
    <2>3. WorkerTypes'
        BY <1>10, <2>1, <2>2, MoveTypes DEF ReadLatestRoot, Goto
    <2>4. QED
        BY <1>0, <1>10, <2>3, QuietTypes DEF ReadLatestRoot
<1>11. ASSUME NEW w \in Workers, NoLatestRoot(w)
       PROVE  Types'
    <2>1. [frame[w] EXCEPT !.version = 1] \in FrameRow
        BY <1>0, FrameEdits
    <2>2. "rebuild" \in Locations
        BY DEF Locations
    <2>3. WorkerTypes'
        BY <1>11, <2>1, <2>2, MoveTypes DEF NoLatestRoot, Goto
    <2>4. QED
        BY <1>0, <1>11, <2>3, QuietTypes DEF NoLatestRoot
<1>12. ASSUME NEW w \in Workers, NEW id \in Identities, GetProof(w, id)
       PROVE  Types'
    <2>1. PICK f \in FrameRow :
             f = [frame[w] EXCEPT !.op = "proof", !.identity = id, !.listed = entries]
        BY <1>0, FrameEdits
    <2>2. "latest" \in Locations /\ "latest" # "insert"
        BY DEF Locations
    <2>3. /\ pc' = [pc EXCEPT ![w] = "latest"]
          /\ frame' = [frame EXCEPT ![w] = f]
          /\ resp' = [resp EXCEPT ![w] = NoResponse]
        BY <1>12, <2>1 DEF GetProof, Goto
    <2>5. WorkerTypes'
        BY <1>0, <2>2, <2>3, MoveTypes
    <2>4. QED
        BY <1>0, <1>12, <2>5, QuietTypes DEF GetProof
<1>13. ASSUME NEW w \in Workers, NEW id \in Identities, GetProofUnknown(w, id)
       PROVE  Types'
    BY <1>0, <1>13, FinishTypes, QuietTypes DEF GetProofUnknown
<1>14. ASSUME NEW w \in Workers, RequestRaises(w)
       PROVE  Types'
    <2>1. failures' \in 0 .. MaxFailures
        BY <1>0, <1>14, RegistryAssumption DEF RequestRaises
    <2>2. QED
        BY <1>0, <1>14, <2>1, FinishTypes, QuietTypes DEF RequestRaises
<1>15. ASSUME Restart
       PROVE  Types'
    <2>1. restarts' \in 0 .. MaxRestarts
        BY <1>0, <1>15, RegistryAssumption DEF Restart
    <2>2. WorkerTypes'
        BY <1>15, NullRecords DEF Restart, WorkerTypes, InsertReady, Locations
    <2>3. QED
        BY <1>0, <1>15, <2>1, <2>2, QuietTypes DEF Restart
<1>16. CASE UNCHANGED vars
    BY <1>16 DEF vars, tables, Types, HasLatest, IsLatest, InsertReady
<1>17. QED
    BY <1>1, <1>2, <1>3, <1>4, <1>5, <1>6, <1>7, <1>8, <1>9, <1>10, <1>11, <1>12,
       <1>13, <1>14, <1>15, <1>16 DEF Next, Request, Step

\* The proof's types are stronger than TypeOK.
LEMMA TypesImplyTypeOK == Types => TypeOK
<1> SUFFICES ASSUME Types
             PROVE  TypeOK
    OBVIOUS
<1>1. ASSUME NEW r \in RootRow
      PROVE  RootOK(r)
    BY DEF RootRow, RootOK
<1>2. ASSUME NEW f \in FrameRow
      PROVE  FrameOK(f)
    BY <1>1 DEF FrameRow, FrameOK
<1>3. \A i \in DOMAIN roots : RootOK(roots[i])
    BY <1>1 DEF Types
<1>4. DOMAIN frame = Workers /\ \A w \in Workers : FrameOK(frame[w])
    BY <1>2 DEF Types
<1>5. DOMAIN resp = Workers
    BY DEF Types
<1>6. QED
    BY <1>3, <1>4, <1>5 DEF Types, TypeOK

\* Every variable keeps its type.
THEOREM TypeCorrect == Spec => []TypeOK
<1>1. Spec => []Types
    BY InitTypes, StepTypes, PTL DEF Spec
<1>2. QED
    BY <1>1, TypesImplyTypeOK, PTL

-----------------------------------------------------------------------------
(***************************************************************************)
(* The inductive invariant. SignedRootsAreSound alone is not inductive: it *)
(* needs to know, of each worker between the listing of the entries and the*)
(* saving of the root, that what it remembers is still a prefix of the     *)
(* table, that the key it is to sign with exists, and, of a worker about to*)
(* answer, that its root is persisted.                                     *)
(***************************************************************************)

Persisted(r) == \E i \in DOMAIN roots : roots[i] = r

\* Some root of version v covers the n-th entry.
Covered(n, v) ==
    \E i \in DOMAIN roots : roots[i].tree_version = v /\ roots[i].tree_size >= n

\* A worker that has listed the entries for a root it has yet to save.
Rebuilding(w) ==
    /\ pc[w] \in {"keys", "keygen", "sign", "save"}
    /\ frame[w].signed = NoRoot

RowsInv == \A i \in DOMAIN roots : SoundRoot(roots[i]) /\ roots[i].tree_version >= 1

SnapshotInv(w) ==
    LET n == Len(frame[w].snapshot)
    IN  /\ n \in 1 .. Len(entries)
        /\ frame[w].snapshot = LeafHashes(SubSeq(entries, 1, n))
        /\ frame[w].op = "add" => frame[w].entry_id <= n

WorkerInv(w) ==
    /\ pc[w] = "idle" => frame[w] = IdleFrame
    /\ pc[w] \in {"insert", "rebuild", "latest", "sign", "save"} => frame[w].signed = NoRoot
    /\ pc[w] = "latest" => frame[w].op # "add"
    /\ pc[w] = "rebuild" /\ frame[w].op = "add" => frame[w].entry_id \in 1 .. Len(entries)
    /\ pc[w] \in {"insert", "rebuild"} \/ Rebuilding(w) => frame[w].version >= 1
    /\ Rebuilding(w) => SnapshotInv(w)
    /\ pc[w] \in {"keys", "keygen"} /\ frame[w].signed # NoRoot =>
          frame[w].op # "add" /\ Persisted(frame[w].signed)
    /\ pc[w] = "sign" => operatorKey # 0
    /\ pc[w] = "save" => frame[w].key # 0
    /\ pc[w] = "return" =>
          /\ Persisted(frame[w].signed)
          /\ frame[w].op = "add" => Covered(frame[w].entry_id, frame[w].version)

ResponseInv(w) ==
    resp[w].status = "added" => Covered(resp[w].entry_id, resp[w].tree_version)

IInv ==
    /\ Types
    /\ RowsInv
    /\ \A w \in Workers : WorkerInv(w)
    /\ \A w \in Workers : ResponseInv(w)

-----------------------------------------------------------------------------
(* The tables only grow at their ends; what is true of their prefixes and of *)
(* their rows stays true.                                                    *)

TablesGrow ==
    /\ Len(entries) <= Len(entries') /\ Len(roots) <= Len(roots')
    /\ \A i \in 1 .. Len(entries) : entries'[i] = entries[i]
    /\ \A i \in 1 .. Len(roots) : roots'[i] = roots[i]

\* The steps that change the tables.
LEMMA TableSteps ==
    ASSUME [Next]_vars
    PROVE  \/ UNCHANGED tables
           \/ \E w \in Workers : InsertEntry(w) /\ roots' = roots
           \/ \E w \in Workers : SaveSignedRoot(w) /\ entries' = entries
<1>1. ASSUME NEW w \in Workers, Request(w)
      PROVE  UNCHANGED tables
    <2>1. ASSUME NEW a, AddEntry(w, a)
          PROVE  UNCHANGED tables
        BY <2>1 DEF AddEntry
    <2>2. ASSUME NEW id, GetProof(w, id) \/ GetProofUnknown(w, id)
          PROVE  UNCHANGED tables
        BY <2>2 DEF GetProof, GetProofUnknown
    <2>3. GetRoot(w) => UNCHANGED tables
        BY DEF GetRoot
    <2>4. QED
        BY <1>1, <2>1, <2>2, <2>3 DEF Request
<1>2. ASSUME NEW w \in Workers, Step(w), ~ (InsertEntry(w) \/ SaveSignedRoot(w))
      PROVE  UNCHANGED tables
    <2>1. ASSUME \/ RebuildTree(w) \/ RebuildEmpty(w) \/ CheckOperatorKeys(w)
                 \/ GenerateOperatorKeys(w) \/ SignRoot(w)
          PROVE  UNCHANGED tables
        BY <2>1 DEF RebuildTree, RebuildEmpty, CheckOperatorKeys, GenerateOperatorKeys, SignRoot
    <2>2. ASSUME \/ ReadLatestRoot(w) \/ NoLatestRoot(w) \/ AddEntryReturns(w)
                 \/ GetRootReturns(w) \/ GetProofReturns(w)
          PROVE  UNCHANGED tables
        BY <2>2 DEF ReadLatestRoot, NoLatestRoot, AddEntryReturns, GetRootReturns, GetProofReturns
    <2>3. QED
        BY <1>2, <2>1, <2>2 DEF Step
<1>3. (\E w \in Workers : RequestRaises(w)) \/ Restart \/ UNCHANGED vars => UNCHANGED tables
    BY DEF RequestRaises, Restart, vars, tables
<1>4. ASSUME NEW w \in Workers
      PROVE  /\ InsertEntry(w) => roots' = roots
             /\ SaveSignedRoot(w) => entries' = entries
    BY DEF InsertEntry, SaveSignedRoot
<1>5. QED
    BY <1>1, <1>2, <1>3, <1>4 DEF Next

\* The rows after an insertion are the old ones and the new one.
LEMMA AppendedRow ==
    ASSUME NEW S, NEW rows \in Seq(S), NEW row
    PROVE  \A i \in DOMAIN Append(rows, row) :
              i \in DOMAIN rows \/ Append(rows, row)[i] = row
<1>1. PICK n \in Nat : n = Len(rows)
    OBVIOUS
<1>2. /\ DOMAIN rows = 1 .. n /\ DOMAIN Append(rows, row) = 1 .. n + 1
      /\ Append(rows, row)[n + 1] = row
    BY <1>1
<1>3. \A i \in 1 .. n + 1 : i \in 1 .. n \/ i = n + 1
    OBVIOUS
<1>4. QED
    BY <1>2, <1>3, Zenon

\* A step only appends to the tables.
LEMMA StepGrows ==
    ASSUME Types, [Next]_vars
    PROVE  TablesGrow
<1>1. entries \in Seq(EntryRow) /\ roots \in Seq(RootRow)
    BY DEF Types
<1>2. ASSUME NEW e, entries' = Append(entries, e), roots' = roots
      PROVE  TablesGrow
    BY <1>1, <1>2 DEF TablesGrow
<1>3. ASSUME NEW r, roots' = Append(roots, r), entries' = entries
      PROVE  TablesGrow
    BY <1>1, <1>3 DEF TablesGrow
<1>4. ASSUME UNCHANGED tables
      PROVE  TablesGrow
    BY <1>1, <1>4 DEF TablesGrow, tables
<1>5. ASSUME NEW w \in Workers, InsertEntry(w)
      PROVE  TablesGrow
    BY <1>2, <1>5 DEF InsertEntry, InsertEntryRow
<1>6. ASSUME NEW w \in Workers, SaveSignedRoot(w)
      PROVE  TablesGrow
    BY <1>3, <1>6 DEF SaveSignedRoot, InsertRootRow
<1>7. \/ \E w \in Workers : InsertEntry(w) \/ SaveSignedRoot(w)
      \/ UNCHANGED tables
    BY TableSteps
<1>8. QED
    BY <1>4, <1>5, <1>6, <1>7

\* Two sequences that agree up to n have the same prefix of length n.
LEMMA SamePrefix ==
    ASSUME NEW S, NEW s \in Seq(S), NEW t \in Seq(S), NEW n \in 0 .. Len(s),
           Len(s) <= Len(t), \A i \in 1 .. Len(s) : t[i] = s[i]
    PROVE  SubSeq(t, 1, n) = SubSeq(s, 1, n)
OBVIOUS

\* A row of signed_roots is never changed or moved.
LEMMA RowsStay ==
    ASSUME Types, Types', TablesGrow, NEW i \in DOMAIN roots
    PROVE  i \in DOMAIN roots' /\ roots'[i] = roots[i]
<1>1. roots \in Seq(RootRow) /\ roots' \in Seq(RootRow)
    BY DEF Types
<1>2. /\ DOMAIN roots = 1 .. Len(roots) /\ DOMAIN roots' = 1 .. Len(roots')
      /\ Len(roots) \in Nat /\ Len(roots') \in Nat
    BY <1>1
<1>3. Len(roots) <= Len(roots') /\ \A j \in 1 .. Len(roots) : roots'[j] = roots[j]
    BY DEF TablesGrow
<1>4. QED
    BY <1>2, <1>3

\* A prefix of the entries stays what it is.
LEMMA PrefixStays ==
    ASSUME Types, Types', TablesGrow, NEW n \in 0 .. Len(entries)
    PROVE  /\ SubSeq(entries', 1, n) = SubSeq(entries, 1, n)
           /\ n \in 0 .. Len(entries')
<1>1. entries \in Seq(EntryRow) /\ entries' \in Seq(EntryRow)
    BY DEF Types
<1>2. /\ Len(entries) <= Len(entries')
      /\ \A i \in 1 .. Len(entries) : entries'[i] = entries[i]
    BY DEF TablesGrow
<1>3. Len(entries) \in Nat /\ Len(entries') \in Nat
    BY <1>1
<1>4. QED
    BY <1>1, <1>2, <1>3, SamePrefix

\* A sound root stays sound.
LEMMA SoundRootStays ==
    ASSUME Types, Types', TablesGrow, NEW r, SoundRoot(r)
    PROVE  SoundRoot(r)'
<1>0. Len(entries) \in Nat /\ Len(entries') \in Nat
    BY DEF Types
<1>1. r.tree_size \in 1 .. Len(entries) /\ r.tree_size \in 0 .. Len(entries)
    BY <1>0 DEF SoundRoot, CommitsToPrefix
<1>2. /\ SubSeq(entries', 1, r.tree_size) = SubSeq(entries, 1, r.tree_size)
      /\ r.tree_size \in 1 .. Len(entries')
    BY <1>0, <1>1, PrefixStays
<1>3. QED
    BY <1>2 DEF SoundRoot, CommitsToPrefix

\* A covered entry stays covered.
LEMMA CoveredStays ==
    ASSUME Types, Types', TablesGrow, NEW n, NEW v, Covered(n, v)
    PROVE  \E i \in DOMAIN roots' : roots'[i].tree_version = v /\ roots'[i].tree_size >= n
<1>1. PICK i \in DOMAIN roots : roots[i].tree_version = v /\ roots[i].tree_size >= n
    BY DEF Covered
<1>2. i \in DOMAIN roots' /\ roots'[i] = roots[i]
    BY RowsStay
<1>3. QED
    BY <1>1, <1>2

\* A persisted root stays persisted.
LEMMA PersistedStays ==
    ASSUME Types, Types', TablesGrow, NEW r, Persisted(r)
    PROVE  \E i \in DOMAIN roots' : roots'[i] = r
<1>1. PICK i \in DOMAIN roots : roots[i] = r
    BY DEF Persisted
<1>2. i \in DOMAIN roots' /\ roots'[i] = roots[i]
    BY RowsStay
<1>3. QED
    BY <1>1, <1>2

\* The leaves a worker remembers stay a prefix of the table's.
LEMMA SnapshotStays ==
    ASSUME Types, Types', TablesGrow, NEW w \in Workers,
           SnapshotInv(w), frame'[w].snapshot = frame[w].snapshot,
           frame'[w].op = frame[w].op, frame'[w].entry_id = frame[w].entry_id
    PROVE  SnapshotInv(w)'
<1> DEFINE n == Len(frame[w].snapshot)
<1>0. Len(entries) \in Nat /\ Len(entries') \in Nat
    BY DEF Types
<1>1. n \in 1 .. Len(entries) /\ n \in 0 .. Len(entries)
    BY <1>0 DEF SnapshotInv
<1>2. SubSeq(entries', 1, n) = SubSeq(entries, 1, n) /\ n \in 1 .. Len(entries')
    BY <1>0, <1>1, PrefixStays
<1>3. QED
    BY <1>2 DEF SnapshotInv

\* A step that does not move a worker keeps its invariant.
LEMMA OtherWorker ==
    ASSUME Types, Types', TablesGrow, NEW v \in Workers, WorkerInv(v),
           pc'[v] = pc[v], frame'[v] = frame[v],
           operatorKey # 0 => operatorKey' # 0
    PROVE  WorkerInv(v)'
<1>1. Persisted(frame[v].signed) => Persisted(frame[v].signed)'
    BY PersistedStays DEF Persisted
<1>2. Covered(frame[v].entry_id, frame[v].version)
        => Covered(frame[v].entry_id, frame[v].version)'
    BY CoveredStays DEF Covered
<1>3. SnapshotInv(v) => SnapshotInv(v)'
    BY SnapshotStays
<1>4. frame[v].entry_id \in 1 .. Len(entries) => frame[v].entry_id \in 1 .. Len(entries')
    <2>1. /\ Len(entries) \in Nat /\ Len(entries') \in Nat
          /\ Len(entries) <= Len(entries')
        BY DEF Types, TablesGrow
    <2>2. QED
        BY <2>1
<1>5. Rebuilding(v)' <=> Rebuilding(v)
    BY DEF Rebuilding
<1>6. QED
    BY <1>1, <1>2, <1>3, <1>4, <1>5 DEF WorkerInv

-----------------------------------------------------------------------------
(* Every step preserves the invariant: the rows, then the workers, then the *)
(* responses.                                                               *)

\* The step of a worker moves no other one, and does not lose the keys.
LEMMA StepMovesOne ==
    ASSUME Types, NEW w \in Workers, Request(w) \/ Step(w) \/ RequestRaises(w)
    PROVE  /\ \A v \in Workers \ {w} :
                 pc'[v] = pc[v] /\ frame'[v] = frame[v] /\ resp'[v] = resp[v]
           /\ operatorKey # 0 => operatorKey' # 0
<1>0. /\ pc \in [Workers -> Locations] /\ frame \in [Workers -> FrameRow]
      /\ resp = [v \in Workers |-> resp[v]] /\ keysMade \in Nat
    BY DEF Types
<1>1. \E location : pc' = [pc EXCEPT ![w] = location]
    BY DEF Request, Step, AddEntry, InsertEntry, RebuildTree, RebuildEmpty,
           CheckOperatorKeys, GenerateOperatorKeys, SignRoot, SaveSignedRoot,
           AddEntryReturns, GetRoot, ReadLatestRoot, NoLatestRoot, GetRootReturns,
           GetProof, GetProofUnknown, GetProofReturns, RequestRaises, Finish, Goto
<1>2. frame' = frame \/ \E f : frame' = [frame EXCEPT ![w] = f]
    BY DEF Request, Step, AddEntry, InsertEntry, RebuildTree, RebuildEmpty,
           CheckOperatorKeys, GenerateOperatorKeys, SignRoot, SaveSignedRoot,
           AddEntryReturns, GetRoot, ReadLatestRoot, NoLatestRoot, GetRootReturns,
           GetProof, GetProofUnknown, GetProofReturns, RequestRaises, Finish
<1>3. resp' = resp \/ \E r : resp' = [resp EXCEPT ![w] = r]
    BY DEF Request, Step, AddEntry, InsertEntry, RebuildTree, RebuildEmpty,
           CheckOperatorKeys, GenerateOperatorKeys, SignRoot, SaveSignedRoot,
           AddEntryReturns, GetRoot, ReadLatestRoot, NoLatestRoot, GetRootReturns,
           GetProof, GetProofUnknown, GetProofReturns, RequestRaises, Finish
<1>4. operatorKey' = operatorKey \/ operatorKey' = keysMade + 1
    BY DEF Request, Step, AddEntry, InsertEntry, RebuildTree, RebuildEmpty,
           CheckOperatorKeys, GenerateOperatorKeys, SignRoot, SaveSignedRoot,
           AddEntryReturns, GetRoot, ReadLatestRoot, NoLatestRoot, GetRootReturns,
           GetProof, GetProofUnknown, GetProofReturns, RequestRaises, keys
<1>5. \A v \in Workers \ {w} :
        pc'[v] = pc[v] /\ frame'[v] = frame[v] /\ resp'[v] = resp[v]
    BY <1>0, <1>1, <1>2, <1>3
<1>6. operatorKey # 0 => operatorKey' # 0
    BY <1>0, <1>4
<1>7. QED
    BY <1>5, <1>6

\* The root that a worker saves commits to a prefix and is signed.
LEMMA SavedRootIsSound ==
    ASSUME Types, NEW w \in Workers, WorkerInv(w), SaveSignedRoot(w)
    PROVE  \E row \in RootRow :
             /\ row = SignedRoot(frame[w])
             /\ SoundRoot(row)'
             /\ row.tree_version >= 1
<1> DEFINE n == Len(frame[w].snapshot)
<1>1. Rebuilding(w) /\ frame[w].key # 0
    BY DEF SaveSignedRoot, WorkerInv, Rebuilding
<1>2. frame[w].version >= 1 /\ SnapshotInv(w)
    BY <1>1 DEF WorkerInv
<1>3. n \in 1 .. Len(entries) /\ frame[w].snapshot = LeafHashes(SubSeq(entries, 1, n))
    BY <1>2 DEF SnapshotInv
<1>4. entries' = entries
    BY DEF SaveSignedRoot
<1>5. PICK row \in RootRow : row = SignedRoot(frame[w])
    BY SignedRootType DEF Types
<1>6. /\ row.tree_size = n /\ row.merkle_root = MerkleRoot(frame[w].snapshot)
      /\ row.public_key = frame[w].key /\ row.tree_version = frame[w].version
      /\ row.signature = [signer |-> row.public_key, message |-> row.merkle_root]
    BY <1>5 DEF SignedRoot
<1>7. SoundRoot(row)'
    BY <1>1, <1>3, <1>4, <1>6 DEF SoundRoot, CommitsToPrefix
<1>8. QED
    BY <1>2, <1>5, <1>6, <1>7

\* A row is added by SaveSignedRoot only, and it is sound.
LEMMA StepRows ==
    ASSUME IInv, Types', [Next]_vars
    PROVE  RowsInv'
<1>0. TablesGrow /\ Types
    BY StepGrows DEF IInv
<1>1. roots \in Seq(RootRow) /\ DOMAIN roots = 1 .. Len(roots) /\ Len(roots) \in Nat
    BY <1>0 DEF Types
<1>2. ASSUME NEW i \in DOMAIN roots
      PROVE  \E r \in RootRow : r = roots'[i] /\ SoundRoot(r)' /\ r.tree_version >= 1
    <2>1. PICK r \in RootRow : r = roots[i]
        BY <1>1
    <2>2. SoundRoot(r) /\ r.tree_version >= 1
        BY <2>1 DEF IInv, RowsInv
    <2>3. SoundRoot(r)'
        BY <1>0, <2>2, SoundRootStays
    <2>4. roots'[i] = r
        BY <1>0, <2>1, RowsStay
    <2>5. QED
        BY <2>2, <2>3, <2>4
<1>3. \A i \in DOMAIN roots' :
        \E r \in RootRow : r = roots'[i] /\ SoundRoot(r)' /\ r.tree_version >= 1
    <2>1. CASE roots' = roots
        BY <1>2, <2>1
    <2>2. ASSUME NEW w \in Workers, SaveSignedRoot(w)
          PROVE  \A i \in DOMAIN roots' :
                   \E r \in RootRow : r = roots'[i] /\ SoundRoot(r)' /\ r.tree_version >= 1
        <3>1. WorkerInv(w)
            BY DEF IInv
        <3>2. PICK row \in RootRow : /\ row = SignedRoot(frame[w])
                                    /\ SoundRoot(row)' /\ row.tree_version >= 1
            BY <1>0, <2>2, <3>1, SavedRootIsSound
        <3>3. roots' = Append(roots, row)
            BY <2>2, <3>2 DEF SaveSignedRoot, InsertRootRow
        <3>4. DOMAIN roots' = 1 .. Len(roots) + 1 /\ roots'[Len(roots) + 1] = row
            BY <1>1, <3>3
        <3>5. \A i \in DOMAIN roots' : i \in DOMAIN roots \/ roots'[i] = row
            BY <1>1, <3>3, AppendedRow
        <3>6. QED
            BY <1>2, <3>2, <3>5
    <2>3. roots' = roots \/ \E w \in Workers : SaveSignedRoot(w)
        BY TableSteps DEF tables
    <2>4. QED
        BY <2>1, <2>2, <2>3
<1>4. QED
    BY <1>3 DEF RowsInv, SoundRoot, CommitsToPrefix

\* A request that ends leaves its worker with nothing to remember.
LEMMA FinishedWorker ==
    ASSUME Types, NEW w \in Workers, NEW r, Finish(w, r)
    PROVE  WorkerInv(w)'
<1>1. pc'[w] = "idle" /\ frame'[w] = IdleFrame
    BY DEF Types, Finish, Goto
<1>2. QED
    BY <1>1 DEF WorkerInv, Rebuilding

\* A step within a request: where the worker gets, and what it remembers.
LEMMA MovedWorker ==
    ASSUME Types, NEW w \in Workers, NEW location, Goto(w, location), NEW f,
           frame' = [frame EXCEPT ![w] = f]
    PROVE  pc'[w] = location /\ frame'[w] = f
BY DEF Types, Goto

\* Reading the entries gives a snapshot of the table.
LEMMA RebuiltSnapshot ==
    ASSUME Types, Types', NEW w \in Workers, WorkerInv(w), RebuildTree(w)
    PROVE  WorkerInv(w)'
<1>0. /\ entries \in Seq(EntryRow) /\ Len(entries) \in Nat /\ entries # <<>>
      /\ frame[w] \in FrameRow
    BY DEF Types, RebuildTree
<1>1. PICK s : s = LeafHashes(entries)
    OBVIOUS
<1>2. PICK f : f = [frame[w] EXCEPT !.snapshot = s]
    OBVIOUS
<1>3. pc'[w] = "keys" /\ frame'[w] = f
    BY <1>1, <1>2, MovedWorker DEF RebuildTree
<1>4. /\ f.snapshot = s /\ f.signed = frame[w].signed /\ f.version = frame[w].version
      /\ f.op = frame[w].op /\ f.entry_id = frame[w].entry_id
    BY <1>0, <1>2 DEF FrameRow
<1>5. /\ frame[w].signed = NoRoot /\ frame[w].version >= 1
      /\ frame[w].op = "add" => frame[w].entry_id \in 1 .. Len(entries)
    BY DEF RebuildTree, WorkerInv
<1>6. Len(s) = Len(entries) /\ Len(entries) \in 1 .. Len(entries)
    BY <1>0, <1>1, LeafHashesType
<1>7. SubSeq(entries, 1, Len(entries)) = entries
    BY <1>0
<1>8. entries' = entries
    BY DEF RebuildTree, tables
<1>9. SnapshotInv(w)'
    <2>1. s = LeafHashes(SubSeq(entries', 1, Len(s)))
        BY <1>1, <1>6, <1>7, <1>8
    <2>2. Len(s) \in 1 .. Len(entries') /\ (f.op = "add" => f.entry_id <= Len(s))
        BY <1>0, <1>4, <1>5, <1>6, <1>8
    <2>3. QED
        BY <1>3, <1>4, <2>1, <2>2 DEF SnapshotInv
<1>10. QED
    BY <1>3, <1>4, <1>5, <1>9 DEF WorkerInv, Rebuilding

\* A root that is saved is persisted and, for an addition, covers its entry.
LEMMA SavedRoot ==
    ASSUME Types, Types', NEW w \in Workers, WorkerInv(w), SaveSignedRoot(w)
    PROVE  WorkerInv(w)'
<1>0. roots \in Seq(RootRow) /\ Len(roots) \in Nat /\ frame[w] \in FrameRow
    BY DEF Types
<1>1. PICK row \in RootRow : row = SignedRoot(frame[w])
    BY <1>0, SignedRootType
<1>2. PICK f : f = [frame[w] EXCEPT !.signed = row]
    OBVIOUS
<1>3. pc'[w] = "return" /\ frame'[w] = f
    BY <1>1, <1>2, MovedWorker DEF SaveSignedRoot
<1>4. /\ f.signed = row /\ f.version = frame[w].version
      /\ f.op = frame[w].op /\ f.entry_id = frame[w].entry_id
    BY <1>0, <1>2 DEF FrameRow
<1>5. Rebuilding(w)
    BY DEF SaveSignedRoot, WorkerInv, Rebuilding
<1>6. f.op = "add" => f.entry_id <= Len(frame[w].snapshot)
    BY <1>4, <1>5 DEF WorkerInv, SnapshotInv
<1>7. row.tree_version = f.version /\ row.tree_size = Len(frame[w].snapshot)
    BY <1>1, <1>4 DEF SignedRoot
<1>8. PICK n \in DOMAIN roots' : roots'[n] = row
    <2>1. roots' = Append(roots, row)
        BY <1>1 DEF SaveSignedRoot, InsertRootRow
    <2>2. Len(roots) + 1 \in DOMAIN roots' /\ roots'[Len(roots) + 1] = row
        BY <1>0, <2>1
    <2>3. QED
        BY <2>2
<1>9. Len(frame[w].snapshot) \in Nat /\ f.entry_id \in Nat
    BY <1>0, <1>4 DEF FrameRow
<1>10. f.op = "add" => roots'[n].tree_version = f.version /\ roots'[n].tree_size >= f.entry_id
    BY <1>6, <1>7, <1>8, <1>9
<1>11. Persisted(frame[w].signed)'
    BY <1>3, <1>4, <1>8 DEF Persisted
<1>12. frame'[w].op = "add" => Covered(frame[w].entry_id, frame[w].version)'
    BY <1>3, <1>8, <1>10 DEF Covered
<1>13. QED
    BY <1>3, <1>11, <1>12 DEF WorkerInv, Rebuilding

\* The steps around the operator's keys.
LEMMA KeysStep ==
    ASSUME Types, Types', TablesGrow, NEW w \in Workers, WorkerInv(w),
           CheckOperatorKeys(w) \/ GenerateOperatorKeys(w)
    PROVE  WorkerInv(w)'
<1>0. frame' = frame /\ keysMade \in Nat /\ pc \in [Workers -> Locations]
    BY DEF CheckOperatorKeys, GenerateOperatorKeys, Types
<1>1. \/ pc'[w] = "keygen"
      \/ pc'[w] = AfterKeys(w) /\ operatorKey' # 0
    BY <1>0 DEF CheckOperatorKeys, GenerateOperatorKeys, Goto, keys
<1>2. pc[w] \in {"keys", "keygen"}
    BY DEF CheckOperatorKeys, GenerateOperatorKeys
<1>3. CASE frame[w].signed = NoRoot
    <2>1. Rebuilding(w)
        BY <1>2, <1>3 DEF Rebuilding
    <2>2. frame[w].version >= 1 /\ SnapshotInv(w)
        BY <2>1 DEF WorkerInv
    <2>3. SnapshotInv(w)'
        BY <1>0, <2>2, SnapshotStays
    <2>4. pc'[w] = "keygen" \/ (pc'[w] = "sign" /\ operatorKey' # 0)
        BY <1>1, <1>3 DEF AfterKeys
    <2>5. /\ frame'[w].signed = NoRoot /\ frame'[w].version >= 1
          /\ SnapshotInv(w)'
        BY <1>0, <1>3, <2>2, <2>3
    <2>6. QED
        BY <2>4, <2>5 DEF WorkerInv
<1>4. CASE frame[w].signed # NoRoot
    <2>1. frame[w].op # "add" /\ Persisted(frame[w].signed)
        BY <1>2, <1>4 DEF WorkerInv
    <2>2. \E i \in DOMAIN roots' : roots'[i] = frame[w].signed
        BY <2>1, PersistedStays
    <2>3. pc'[w] = "keygen" \/ pc'[w] = "return"
        BY <1>1, <1>4 DEF AfterKeys
    <2>4. QED
        BY <1>0, <1>4, <2>1, <2>2, <2>3 DEF WorkerInv, Rebuilding, Persisted
<1>5. QED
    BY <1>3, <1>4

\* The worker that takes a step keeps its invariant.
LEMMA MovingWorker ==
    ASSUME IInv, Types', TablesGrow, NEW w \in Workers,
           Request(w) \/ Step(w) \/ RequestRaises(w)
    PROVE  WorkerInv(w)'
<1>0. Types /\ WorkerInv(w) /\ frame[w] \in FrameRow
    BY DEF IInv, Types
<1>1. ASSUME NEW a \in Assertions, AddEntry(w, a)
      PROVE  WorkerInv(w)'
    <2>1. PICK n \in Nat : n = LatestTreeVersion + 1 /\ n >= 1
        BY <1>0, LatestRootIsARow
    <2>2. PICK f : f = [IdleFrame EXCEPT !.op = "add", !.assertion = a, !.version = n]
        OBVIOUS
    <2>3. pc'[w] = "insert" /\ frame'[w] = f
        BY <1>0, <1>1, <2>1, <2>2, MovedWorker DEF AddEntry
    <2>4. f.signed = NoRoot /\ f.version >= 1
        BY <2>1, <2>2 DEF IdleFrame
    <2>5. QED
        BY <2>3, <2>4 DEF WorkerInv, Rebuilding
<1>2. ASSUME InsertEntry(w)
      PROVE  WorkerInv(w)'
    <2>1. PICK n \in Nat : n = Len(entries) + 1 /\ n \in 1 .. n
        BY <1>0 DEF Types
    <2>2. PICK f : f = [frame[w] EXCEPT !.entry_id = n]
        OBVIOUS
    <2>3. pc'[w] = "rebuild" /\ frame'[w] = f
        BY <1>0, <1>2, <2>1, <2>2, MovedWorker DEF InsertEntry
    <2>4. f.signed = NoRoot /\ f.version >= 1 /\ f.entry_id = n
        BY <1>0, <1>2, <2>2 DEF InsertEntry, WorkerInv, FrameRow
    <2>5. Len(entries') = n
        BY <1>0, <1>2, <2>1 DEF InsertEntry, InsertEntryRow, Types
    <2>6. QED
        BY <2>1, <2>3, <2>4, <2>5 DEF WorkerInv, Rebuilding
<1>3. ASSUME RebuildTree(w)
      PROVE  WorkerInv(w)'
    BY <1>0, <1>3, RebuiltSnapshot
<1>4. ASSUME CheckOperatorKeys(w) \/ GenerateOperatorKeys(w)
      PROVE  WorkerInv(w)'
    BY <1>0, <1>4, KeysStep
<1>5. ASSUME SignRoot(w)
      PROVE  WorkerInv(w)'
    <2>1. PICK f : f = [frame[w] EXCEPT !.key = operatorKey]
        OBVIOUS
    <2>2. pc'[w] = "save" /\ frame'[w] = f
        BY <1>0, <1>5, <2>1, MovedWorker DEF SignRoot
    <2>3. /\ f.key = operatorKey /\ f.signed = frame[w].signed
          /\ f.version = frame[w].version /\ f.snapshot = frame[w].snapshot
          /\ f.op = frame[w].op /\ f.entry_id = frame[w].entry_id
        BY <1>0, <2>1 DEF FrameRow
    <2>4. frame[w].signed = NoRoot /\ operatorKey # 0 /\ Rebuilding(w)
        BY <1>0, <1>5 DEF SignRoot, WorkerInv, Rebuilding
    <2>5. frame[w].version >= 1 /\ SnapshotInv(w)
        BY <1>0, <2>4 DEF WorkerInv
    <2>6. SnapshotInv(w)'
        BY <1>0, <2>2, <2>3, <2>5, SnapshotStays
    <2>7. QED
        BY <2>2, <2>3, <2>4, <2>5, <2>6 DEF WorkerInv, Rebuilding
<1>6. ASSUME SaveSignedRoot(w)
      PROVE  WorkerInv(w)'
    BY <1>0, <1>6, SavedRoot
<1>7. ASSUME GetRoot(w)
      PROVE  WorkerInv(w)'
    <2>1. PICK f : f = [frame[w] EXCEPT !.op = "root"]
        OBVIOUS
    <2>2. pc'[w] = "latest" /\ frame'[w] = f
        BY <1>0, <1>7, <2>1, MovedWorker DEF GetRoot
    <2>3. frame[w] = IdleFrame
        BY <1>0, <1>7 DEF GetRoot, WorkerInv
    <2>4. f.signed = NoRoot /\ f.op = "root"
        BY <2>1, <2>3 DEF IdleFrame
    <2>5. QED
        BY <2>2, <2>4 DEF WorkerInv, Rebuilding
<1>8. ASSUME ReadLatestRoot(w)
      PROVE  WorkerInv(w)'
    <2>1. PICK i \in DOMAIN roots : LatestRoot = roots[i]
        BY <1>0, <1>8, LatestRootIsARow DEF ReadLatestRoot
    <2>2. PICK r : r = roots[i]
        OBVIOUS
    <2>3. PICK f : f = [frame[w] EXCEPT !.signed = r]
        OBVIOUS
    <2>4. pc'[w] = "keys" /\ frame'[w] = f
        BY <1>0, <1>8, <2>1, <2>2, <2>3, MovedWorker DEF ReadLatestRoot
    <2>5. r.tree_version >= 1
        BY <2>2 DEF IInv, RowsInv
    <2>6. r # NoRoot
        BY <2>5 DEF NoRoot
    <2>7. frame[w].op # "add" /\ f.op = frame[w].op /\ f.signed = r
        BY <1>0, <1>8, <2>3 DEF ReadLatestRoot, WorkerInv, FrameRow
    <2>8. \E k \in DOMAIN roots' : roots'[k] = r
        BY <1>8, <2>2 DEF ReadLatestRoot, tables
    <2>9. QED
        BY <2>4, <2>6, <2>7, <2>8 DEF WorkerInv, Rebuilding, Persisted
<1>9. ASSUME NoLatestRoot(w)
      PROVE  WorkerInv(w)'
    <2>1. PICK f : f = [frame[w] EXCEPT !.version = 1]
        OBVIOUS
    <2>2. pc'[w] = "rebuild" /\ frame'[w] = f
        BY <1>0, <1>9, <2>1, MovedWorker DEF NoLatestRoot
    <2>3. f.signed = NoRoot /\ f.op # "add" /\ f.version = 1
        BY <1>0, <1>9, <2>1 DEF NoLatestRoot, WorkerInv, FrameRow
    <2>4. QED
        BY <2>2, <2>3 DEF WorkerInv, Rebuilding
<1>10. ASSUME NEW id \in Identities, GetProof(w, id)
       PROVE  WorkerInv(w)'
    <2>1. PICK f : f = [frame[w] EXCEPT !.op = "proof", !.identity = id, !.listed = entries]
        OBVIOUS
    <2>2. pc'[w] = "latest" /\ frame'[w] = f
        <3>1. frame \in [Workers -> FrameRow] /\ pc \in [Workers -> Locations]
            BY <1>0 DEF Types
        <3>2. QED
            BY <1>10, <2>1, <3>1 DEF GetProof, Goto
    <2>3. frame[w] = IdleFrame
        BY <1>0, <1>10 DEF GetProof, WorkerInv
    <2>4. f.signed = NoRoot /\ f.op = "proof"
        BY <2>1, <2>3 DEF IdleFrame
    <2>5. QED
        BY <2>2, <2>4 DEF WorkerInv, Rebuilding
<1>11. ASSUME \E r : Finish(w, r)
       PROVE  WorkerInv(w)'
    BY <1>0, <1>11, FinishedWorker
<1>12. QED
    BY <1>1, <1>2, <1>3, <1>4, <1>5, <1>6, <1>7, <1>8, <1>9, <1>10, <1>11
       DEF Request, Step, RebuildEmpty, AddEntryReturns, GetRootReturns, GetProofUnknown,
           GetProofReturns, RequestRaises

\* A response that acknowledges an addition is given by AddEntryReturns only.
LEMMA MovingResponse ==
    ASSUME IInv, Types', TablesGrow, NEW w \in Workers,
           Request(w) \/ Step(w) \/ RequestRaises(w)
    PROVE  ResponseInv(w)'
<1>0. /\ Types /\ WorkerInv(w) /\ ResponseInv(w)
      /\ resp = [v \in Workers |-> resp[v]]
    BY DEF IInv, Types
<1>1. CASE resp' = resp
    <2>1. PICK r : r = resp[w]
        OBVIOUS
    <2>2. r.status = "added" => \E i \in DOMAIN roots' :
             roots'[i].tree_version = r.tree_version /\ roots'[i].tree_size >= r.entry_id
        BY <1>0, <2>1, CoveredStays DEF ResponseInv
    <2>3. QED
        BY <1>1, <2>1, <2>2 DEF ResponseInv, Covered
<1>2. CASE AddEntryReturns(w)
    <2>1. PICK n, v : n = frame[w].entry_id /\ v = frame[w].version
        OBVIOUS
    <2>2. resp'[w] = [status |-> "added", entry_id |-> n, tree_version |-> v]
        BY <1>0, <1>2, <2>1 DEF AddEntryReturns, Finish
    <2>3. Covered(n, v)
        BY <1>0, <1>2, <2>1 DEF AddEntryReturns, WorkerInv
    <2>4. roots' = roots
        BY <1>2 DEF AddEntryReturns, tables
    <2>5. QED
        BY <2>2, <2>3, <2>4 DEF ResponseInv, Covered
<1>3. ASSUME NEW r, resp' = [resp EXCEPT ![w] = r], r.status # "added"
      PROVE  ResponseInv(w)'
    <2>1. resp'[w] = r
        BY <1>0, <1>3
    <2>2. QED
        BY <1>3, <2>1 DEF ResponseInv
<1>4. \/ resp' = resp
      \/ AddEntryReturns(w)
      \/ \E r : resp' = [resp EXCEPT ![w] = r] /\ r.status # "added"
    <2>1. CASE RebuildEmpty(w) \/ RequestRaises(w) \/ \E id \in Identities : GetProofUnknown(w, id)
        <3>1. Error.status # "added"
            BY DEF Error
        <3>2. Finish(w, Error)
            BY <2>1 DEF RebuildEmpty, RequestRaises, GetProofUnknown
        <3>3. QED
            BY <3>1, <3>2 DEF Finish
    <2>2. CASE GetRootReturns(w)
        <3>1. [status |-> "root", root |-> frame[w].signed].status # "added"
            OBVIOUS
        <3>2. QED
            BY <2>2, <3>1 DEF GetRootReturns, Finish
    <2>3. CASE GetProofReturns(w)
        <3>1. ProofResponse(frame[w]).status # "added"
            BY DEF ProofResponse
        <3>2. [status |-> "inconsistent"].status # "added"
            OBVIOUS
        <3>3. PICK r : r = IF ProofMatches(frame[w]) THEN ProofResponse(frame[w])
                           ELSE [status |-> "inconsistent"]
            OBVIOUS
        <3>4. r.status # "added"
            BY <3>1, <3>2, <3>3
        <3>5. QED
            BY <2>3, <3>3, <3>4 DEF GetProofReturns, Finish
    <2>4. CASE Request(w) /\ ~ \E id \in Identities : GetProofUnknown(w, id)
        <3>1. NoResponse.status # "added"
            BY DEF NoResponse
        <3>2. resp' = [resp EXCEPT ![w] = NoResponse]
            BY <2>4 DEF Request, AddEntry, GetRoot, GetProof
        <3>3. QED
            BY <3>1, <3>2
    <2>5. CASE \/ InsertEntry(w) \/ RebuildTree(w) \/ CheckOperatorKeys(w)
               \/ GenerateOperatorKeys(w) \/ SignRoot(w) \/ SaveSignedRoot(w)
               \/ ReadLatestRoot(w) \/ NoLatestRoot(w)
        BY <2>5 DEF InsertEntry, RebuildTree, CheckOperatorKeys, GenerateOperatorKeys,
                    SignRoot, SaveSignedRoot, ReadLatestRoot, NoLatestRoot
    <2>6. QED
        BY <2>1, <2>2, <2>3, <2>4, <2>5 DEF Step
<1>5. QED
    BY <1>1, <1>2, <1>3, <1>4

-----------------------------------------------------------------------------
(* The invariant and what it implies *)

\* The initial state satisfies the invariant.
LEMMA InitInv == Init => IInv
<1> SUFFICES ASSUME Init
             PROVE  IInv
    OBVIOUS
<1>1. Types
    BY InitTypes
<1>2. RowsInv
    BY DEF Init, RowsInv
<1>3. ASSUME NEW w \in Workers
      PROVE  WorkerInv(w) /\ ResponseInv(w)
    <2>1. pc[w] = "idle" /\ frame[w] = IdleFrame /\ resp[w] = NoResponse
        BY DEF Init
    <2>2. NoResponse.status # "added"
        BY DEF NoResponse
    <2>3. QED
        BY <2>1, <2>2 DEF WorkerInv, Rebuilding, ResponseInv
<1>4. QED
    BY <1>1, <1>2, <1>3 DEF IInv

\* Every step keeps the invariant: the rows, the worker that moves, the others.
LEMMA StepInv == IInv /\ [Next]_vars => IInv'
<1> SUFFICES ASSUME IInv, [Next]_vars
             PROVE  IInv'
    OBVIOUS
<1>0. Types /\ Types' /\ TablesGrow
    BY StepTypes, StepGrows DEF IInv
<1>1. RowsInv'
    BY <1>0, StepRows
<1>2. ASSUME NEW v \in Workers, pc'[v] = pc[v], frame'[v] = frame[v], resp'[v] = resp[v],
             operatorKey # 0 => operatorKey' # 0
      PROVE  WorkerInv(v)' /\ ResponseInv(v)'
    <2>1. WorkerInv(v) /\ ResponseInv(v)
        BY DEF IInv
    <2>2. WorkerInv(v)'
        BY <1>0, <1>2, <2>1, OtherWorker
    <2>3. PICK r : r = resp[v]
        OBVIOUS
    <2>4. r.status = "added" => \E i \in DOMAIN roots' :
             roots'[i].tree_version = r.tree_version /\ roots'[i].tree_size >= r.entry_id
        BY <1>0, <2>1, <2>3, CoveredStays DEF ResponseInv
    <2>5. QED
        BY <1>2, <2>2, <2>3, <2>4 DEF ResponseInv, Covered
<1>3. ASSUME NEW w \in Workers, Request(w) \/ Step(w) \/ RequestRaises(w)
      PROVE  \A v \in Workers : WorkerInv(v)' /\ ResponseInv(v)'
    <2>1. WorkerInv(w)' /\ ResponseInv(w)'
        BY <1>0, <1>3, MovingWorker, MovingResponse
    <2>2. ASSUME NEW v \in Workers \ {w}
          PROVE  WorkerInv(v)' /\ ResponseInv(v)'
        BY <1>0, <1>2, <1>3, StepMovesOne
    <2>3. QED
        BY <2>1, <2>2
<1>4. ASSUME Restart, NEW v \in Workers
      PROVE  WorkerInv(v)' /\ ResponseInv(v)'
    <2>1. pc'[v] = "idle" /\ frame'[v] = IdleFrame /\ resp'[v] = NoResponse
        BY <1>4 DEF Restart
    <2>2. NoResponse.status # "added"
        BY DEF NoResponse
    <2>3. QED
        BY <2>1, <2>2 DEF WorkerInv, Rebuilding, ResponseInv
<1>5. ASSUME UNCHANGED vars, NEW v \in Workers
      PROVE  WorkerInv(v)' /\ ResponseInv(v)'
    <2>1. pc' = pc /\ frame' = frame /\ resp' = resp /\ operatorKey' = operatorKey
        BY <1>5 DEF vars, keys
    <2>2. QED
        BY <1>2, <2>1
<1>6. \A v \in Workers : WorkerInv(v)' /\ ResponseInv(v)'
    BY <1>3, <1>4, <1>5 DEF Next
<1>7. QED
    BY <1>0, <1>1, <1>6 DEF IInv

\* The invariant holds in every reachable state.
THEOREM InvariantHolds == Spec => []IInv
BY InitInv, StepInv, PTL DEF Spec

\* Every signed root stored by _rebuild_and_store_signed_root commits to a prefix
\* of the entries and is signed under the key stored beside it, however many
\* requests, failures and restarts interleave.
THEOREM SignedRootsSound == Spec => []SignedRootsAreSound
<1>1. IInv => SignedRootsAreSound
    BY DEF IInv, RowsInv, SignedRootsAreSound
<1>2. QED
    BY <1>1, InvariantHolds, PTL

\* An entry that add_entry acknowledged is covered by a signed root of the version
\* given to the client.
THEOREM AcknowledgedCommitted == Spec => []AcknowledgedEntriesAreCommitted
<1>1. IInv => AcknowledgedEntriesAreCommitted
    BY DEF IInv, ResponseInv, Covered, AcknowledgedEntriesAreCommitted
<1>2. QED
    BY <1>1, InvariantHolds, PTL

-----------------------------------------------------------------------------
(* The head, and the abstract log *)

\* The version is a number and the head is one of the rows, the latest one.
HeadIsARow ==
    /\ LatestTreeVersion \in Nat
    /\ roots # <<>> => \E i \in DOMAIN roots : LatestRoot = roots[i] /\ IsLatest(i)

\* With the types, the head is one of the rows.
LEMMA TypesGiveHead == Types => HeadIsARow
BY LatestRootIsARow DEF HeadIsARow

\* When the tables grow the latest root's version stays or rises.
LEMMA StepHead ==
    ASSUME Types, Types', TablesGrow, HeadIsARow, HeadIsARow'
    PROVE  LatestTreeVersion' >= LatestTreeVersion
<1>0. LatestTreeVersion \in Nat /\ LatestTreeVersion' \in Nat
    BY DEF HeadIsARow
<1>1. CASE roots = <<>>
    <2>1. LatestTreeVersion = 0
        BY <1>1 DEF LatestTreeVersion, LatestRoot, NoRoot
    <2>2. QED
        BY <1>0, <2>1
<1>2. CASE roots # <<>>
    <2>1. PICK i \in DOMAIN roots : LatestRoot = roots[i]
        BY <1>2 DEF HeadIsARow
    <2>2. PICK v \in Nat : v = LatestTreeVersion
        BY <1>0
    <2>3. i \in DOMAIN roots' /\ roots'[i] = roots[i]
        BY RowsStay
    <2>4. roots'[i].tree_version = v
        BY <2>1, <2>2, <2>3 DEF LatestTreeVersion
    <2>5. roots' # <<>>
        BY <2>3
    <2>6. PICK k \in DOMAIN roots' : LatestRoot' = roots'[k] /\ IsLatest(k)'
        BY <2>5 DEF HeadIsARow
    <2>7. LatestTreeVersion' = roots'[k].tree_version
        BY <2>6 DEF LatestTreeVersion
    <2>8. \/ roots'[i].tree_version < roots'[k].tree_version
          \/ roots'[i].tree_version = roots'[k].tree_version
        BY <2>3, <2>6 DEF IsLatest
    <2>9. QED
        BY <1>0, <2>2, <2>4, <2>7, <2>8
<1>3. QED
    BY <1>1, <1>2

\* The version that get_latest_tree_version reads never goes back.
THEOREM HeadNeverRegresses == Spec => HeadVersionNeverRegresses
<1>1. /\ Types /\ HeadIsARow /\ Types' /\ HeadIsARow' /\ [Next]_vars
      => [LatestTreeVersion' >= LatestTreeVersion]_tables
    BY StepHead, StepGrows
<1>2. QED
    BY <1>1, InitTypes, StepTypes, TypesGiveHead, PTL DEF Spec, HeadVersionNeverRegresses

\* The initial registry is an empty log without commitments.
LEMMA InitRefines == Init => Log!Init
BY DEF Init, Log!Init, LeafHashes

\* An insertion registers an assertion in the log.
LEMMA InsertRefines ==
    ASSUME Types, NEW w \in Workers, InsertEntry(w)
    PROVE  Log!Next
<1>1. PICK a \in Assertions, v \in Nat : a = frame[w].assertion /\ v = frame[w].version
    <2>1. frame[w] \in FrameRow /\ frame[w].assertion \in Assertions
        BY DEF Types, InsertReady, InsertEntry
    <2>2. frame[w].version \in Nat
        BY <2>1 DEF FrameRow
    <2>3. QED
        BY <2>1, <2>2
<1>2. PICK e \in EntryRow :
        e = [assertion |-> a, leaf_hash |-> HashLeaf(a), tree_version |-> v]
    BY NewEntryType
<1>3. entries' = Append(entries, e) /\ roots' = roots /\ e.leaf_hash = HashLeaf(a)
    BY <1>1, <1>2 DEF InsertEntry, InsertEntryRow
<1>4. LeafHashes(entries') = Append(LeafHashes(entries), HashLeaf(a))
    BY <1>3, LeafHashesOfAppend DEF Types
<1>5. Log!Register(a)
    BY <1>3, <1>4 DEF Log!Register
<1>6. QED
    BY <1>5 DEF Log!Next

\* Saving a root publishes the commitment to a prefix of the log.
LEMMA SaveRefines ==
    ASSUME IInv, Types', NEW w \in Workers, SaveSignedRoot(w)
    PROVE  Log!Next
<1> DEFINE Pair(r) == [tree_size |-> r.tree_size, merkle_root |-> r.merkle_root]
<1>0. /\ Types /\ WorkerInv(w)
      /\ roots \in Seq(RootRow) /\ Len(roots) \in Nat /\ DOMAIN roots = 1 .. Len(roots)
      /\ entries \in Seq(EntryRow) /\ Len(entries) \in Nat
    BY DEF IInv, Types
<1>1. PICK row \in RootRow : row = SignedRoot(frame[w]) /\ SoundRoot(row)'
    BY <1>0, SavedRootIsSound
<1>2. roots' = Append(roots, row) /\ entries' = entries
    BY <1>1 DEF SaveSignedRoot, InsertRootRow
<1>3. PICK n \in 1 .. Len(entries) : n = row.tree_size /\ n \in 0 .. Len(entries)
    BY <1>0, <1>1, <1>2 DEF SoundRoot, CommitsToPrefix
<1>4. row.merkle_root = MerkleRoot(SubSeq(LeafHashes(entries), 1, n))
    <2>1. row.merkle_root = MerkleRoot(LeafHashes(SubSeq(entries, 1, n)))
        BY <1>1, <1>2, <1>3 DEF SoundRoot, CommitsToPrefix
    <2>2. QED
        BY <1>0, <1>3, <2>1, LeafHashesOfPrefix
<1>5. DOMAIN roots' = 1 .. Len(roots) + 1 /\ roots'[Len(roots) + 1] = row
    BY <1>0, <1>2
<1>6. \A i \in DOMAIN roots : i \in DOMAIN roots' /\ roots'[i] = roots[i]
    BY <1>0, <1>2
<1>7. {Pair(roots'[i]) : i \in DOMAIN roots'} = {Pair(roots[i]) : i \in DOMAIN roots} \cup {Pair(row)}
    <2>1. \A i \in DOMAIN roots' : i \in DOMAIN roots \/ roots'[i] = row
        BY <1>0, <1>5
    <2>2. Len(roots) + 1 \in DOMAIN roots'
        BY <1>0, <1>5
    <2>3. QED
        BY <1>5, <1>6, <2>1, <2>2
<1>8. Pair(row) = Log!Commitment(n)
    BY <1>3, <1>4 DEF Log!Commitment
<1>9. Log!Publish(n)
    BY <1>2, <1>7, <1>8 DEF Log!Publish
<1>10. Len(LeafHashes(entries)) = Len(entries)
    BY <1>0, LeafHashesType
<1>11. QED
    BY <1>9, <1>10 DEF Log!Next

\* An insertion and a save are steps of the log; every other step leaves it alone.
LEMMA StepRefines ==
    ASSUME IInv, Types', [Next]_vars
    PROVE  [Log!Next]_Log!logVars
<1>1. CASE UNCHANGED tables
    BY <1>1 DEF tables, Log!logVars
<1>2. ASSUME NEW w \in Workers, InsertEntry(w)
      PROVE  Log!Next
    BY <1>2, InsertRefines DEF IInv
<1>3. ASSUME NEW w \in Workers, SaveSignedRoot(w)
      PROVE  Log!Next
    BY <1>3, SaveRefines
<1>4. \/ \E w \in Workers : InsertEntry(w) \/ SaveSignedRoot(w)
      \/ UNCHANGED tables
    BY TableSteps
<1>5. QED
    BY <1>1, <1>2, <1>3, <1>4

\* The registry implements the append-only log of TransparencyLog.tla, whatever
\* the number of threads, failures and restarts.
THEOREM RegistryImplementsLog == Spec => ImplementsTransparencyLog
<1>1. IInv /\ Types' /\ [Next]_vars => [Log!Next]_Log!logVars
    BY StepRefines
<1>2. IInv => Types
    BY DEF IInv
<1>3. QED
    BY <1>1, <1>2, InitRefines, InvariantHolds, PTL
       DEF Spec, ImplementsTransparencyLog, Log!Spec
=============================================================================
