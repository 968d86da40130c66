----------------------- MODULE RegistryAnswersProofs -----------------------
(***************************************************************************)
(* Theorems about what Registry.tla promises to its clients: the versions  *)
(* a client may ask for, and the inclusion proofs it is given; and about   *)
(* the readers of ConsistencyService.tla beside it. They rest on the       *)
(* invariant of RegistryProofs.tla and, where a proof is verified, on the  *)
(* theorems about Merkle trees of MerkleTreeProofs.tla.                    *)
(***************************************************************************)
EXTENDS ConsistencyService, RegistryProofs, MerkleTreeProofs

-----------------------------------------------------------------------------
(***************************************************************************)
(* Versions. The number of a new root was read long before the root is     *)
(* saved; what keeps the versions without gaps is that no worker is ever   *)
(* more than one version ahead of the head.                                *)
(***************************************************************************)

\* The registry has a root with this version.
HasVersion(v) == \E i \in DOMAIN roots : roots[i].tree_version = v

\* An entry without its root yet is one version ahead of the head, at most.
EntryVersionsInv == \A i \in DOMAIN entries : entries[i].tree_version \in 1 .. LatestTreeVersion + 1

\* A worker that is to write a row with the version it remembers.
Writing(w) == pc[w] \in {"insert", "rebuild"} \/ Rebuilding(w)

\* What it read of the head is not later than the head is now.
NotFarAhead(w) == Writing(w) => frame[w].version <= LatestTreeVersion + 1

VersionsInv ==
    /\ \A v \in 1 .. LatestTreeVersion : HasVersion(v)
    /\ EntryVersionsInv
    /\ \A w \in Workers : NotFarAhead(w)

\* The head rises by one version at most: by the row of a worker that was not
\* more than one version ahead.
LEMMA HeadRisesByOne ==
    ASSUME IInv, VersionsInv, Types', [Next]_vars
    PROVE  /\ LatestTreeVersion \in Nat /\ LatestTreeVersion' \in Nat
           /\ LatestTreeVersion' >= LatestTreeVersion
           /\ LatestTreeVersion' <= LatestTreeVersion + 1
<1>0. Types /\ TablesGrow /\ HeadIsARow /\ HeadIsARow'
    <2>1. Types /\ TablesGrow
        BY StepGrows DEF IInv
    <2>2. HeadIsARow
        BY <2>1, TypesGiveHead
    <2>3. HeadIsARow'
        BY TypesGiveHead, PTL
    <2>4. QED
        BY <2>1, <2>2, <2>3
<1>1. PICK n \in Nat : n = LatestTreeVersion
    BY <1>0 DEF HeadIsARow
<1>2. LatestTreeVersion' >= n
    BY <1>0, <1>1, StepHead
<1>3. CASE roots' = roots
    BY <1>0, <1>1, <1>3 DEF LatestTreeVersion, LatestRoot, IsLatest
<1>4. ASSUME NEW w \in Workers, SaveSignedRoot(w)
      PROVE  LatestTreeVersion' <= n + 1
    <2>1. PICK row \in RootRow : row = SignedRoot(frame[w])
        BY <1>0, SignedRootType DEF Types
    <2>2. row.tree_version = frame[w].version
        BY <2>1 DEF SignedRoot
    <2>3. Writing(w)
        BY <1>4 DEF IInv, WorkerInv, SaveSignedRoot, Writing, Rebuilding
    <2>4. row.tree_version <= n + 1
        BY <1>1, <2>2, <2>3 DEF VersionsInv, NotFarAhead
    <2>5. roots \in Seq(RootRow) /\ Len(roots) \in Nat /\ roots' = Append(roots, row)
        BY <1>0, <1>4, <2>1 DEF Types, SaveSignedRoot, InsertRootRow
    <2>6. /\ DOMAIN roots = 1 .. Len(roots) /\ DOMAIN roots' = 1 .. Len(roots) + 1
          /\ roots'[Len(roots) + 1] = row
          /\ \A i \in DOMAIN roots : roots'[i] = roots[i]
        BY <2>5
    <2>7. PICK k \in DOMAIN roots' : LatestRoot' = roots'[k]
        BY <1>0, <2>6 DEF HeadIsARow
    <2>8. CASE k \in DOMAIN roots
        <3>1. PICK h \in DOMAIN roots : LatestRoot = roots[h] /\ IsLatest(h)
            BY <1>0, <2>8 DEF HeadIsARow
        <3>2. roots[h].tree_version = n
            BY <1>1, <3>1 DEF LatestTreeVersion
        <3>3. roots[k].tree_version < n \/ roots[k].tree_version = n
            BY <2>8, <3>1, <3>2 DEF IsLatest
        <3>4. roots[k] \in RootRow
            BY <2>5, <2>8
        <3>5. roots[k].tree_version \in Nat
            BY <3>4 DEF RootRow
        <3>6. LatestTreeVersion' = roots[k].tree_version
            BY <2>6, <2>7, <2>8 DEF LatestTreeVersion
        <3>7. QED
            BY <1>1, <3>3, <3>5, <3>6
    <2>9. CASE k \notin DOMAIN roots
        <3>1. roots'[k] = row
            BY <2>5, <2>9, AppendedRow
        <3>2. QED
            BY <2>4, <2>7, <3>1 DEF LatestTreeVersion
    <2>10. QED
        BY <2>8, <2>9
<1>5. roots' = roots \/ \E w \in Workers : SaveSignedRoot(w)
    BY TableSteps DEF tables
<1>6. LatestTreeVersion' \in Nat
    BY <1>0 DEF HeadIsARow
<1>7. LatestTreeVersion' <= n + 1
    BY <1>1, <1>3, <1>4, <1>5
<1>8. QED
    BY <1>1, <1>2, <1>6, <1>7

\* The worker that takes a step is not far ahead after it: it read the head's
\* version just now, or takes version 1, or keeps a version it had.
LEMMA MoverNotFarAhead ==
    ASSUME IInv, VersionsInv, Types', NEW w \in Workers,
           Request(w) \/ Step(w) \/ RequestRaises(w),
           NEW m \in Nat, m >= LatestTreeVersion
    PROVE  Writing(w)' => frame'[w].version <= m + 1
<1>0. /\ Types /\ WorkerInv(w) /\ frame[w] \in FrameRow
      /\ LatestTreeVersion \in Nat
    BY LatestRootIsARow DEF IInv, Types
<1>1. frame[w].version \in Nat
    BY <1>0 DEF FrameRow
<1>2. Writing(w) => frame[w].version <= m + 1
    BY <1>0, <1>1 DEF VersionsInv, NotFarAhead
<1>3. ASSUME NEW a \in Assertions, AddEntry(w, a)
      PROVE  frame'[w].version <= m + 1
    <2>1. PICK n \in Nat : n = LatestTreeVersion + 1 /\ n <= m + 1
        BY <1>0
    <2>2. PICK f : f = [IdleFrame EXCEPT !.op = "add", !.assertion = a, !.version = n]
        OBVIOUS
    <2>3. frame'[w] = f
        BY <1>0, <1>3, <2>1, <2>2, MovedWorker DEF AddEntry
    <2>4. f.version = n
        BY <2>2 DEF IdleFrame
    <2>5. QED
        BY <2>1, <2>3, <2>4
<1>4. ASSUME InsertEntry(w) \/ RebuildTree(w)
      PROVE  frame'[w].version <= m + 1
    <2>1. Writing(w)
        BY <1>4 DEF InsertEntry, RebuildTree, Writing
    <2>2. PICK f : frame' = [frame EXCEPT ![w] = f] /\ f.version = frame[w].version
        <3>1. PICK f, g : /\ f = [frame[w] EXCEPT !.entry_id = Len(entries) + 1]
                          /\ g = [frame[w] EXCEPT !.snapshot = LeafHashes(entries)]
            OBVIOUS
        <3>2. f.version = frame[w].version /\ g.version = frame[w].version
            BY <1>0, <3>1 DEF FrameRow
        <3>3. QED
            BY <1>4, <3>1, <3>2 DEF InsertEntry, RebuildTree
    <2>3. frame'[w] = f
        BY <1>0, <2>2 DEF Types
    <2>4. QED
        BY <1>2, <2>1, <2>2, <2>3
<1>5. ASSUME CheckOperatorKeys(w) \/ GenerateOperatorKeys(w), Writing(w)'
      PROVE  frame'[w].version <= m + 1
    <2>1. frame' = frame /\ pc[w] \in {"keys", "keygen"} /\ pc \in [Workers -> Locations]
        BY <1>0, <1>5 DEF CheckOperatorKeys, GenerateOperatorKeys, Types
    <2>2. pc'[w] \in {"keygen", "sign", "return"}
        BY <1>5, <2>1 DEF CheckOperatorKeys, GenerateOperatorKeys, Goto, AfterKeys
    <2>3. Rebuilding(w)
        BY <1>5, <2>1, <2>2 DEF Writing, Rebuilding
    <2>4. QED
        BY <1>2, <2>1, <2>3 DEF Writing
<1>6. ASSUME SignRoot(w)
      PROVE  frame'[w].version <= m + 1
    <2>1. Writing(w)
        BY <1>0, <1>6 DEF SignRoot, WorkerInv, Writing, Rebuilding
    <2>2. PICK f : f = [frame[w] EXCEPT !.key = operatorKey]
        OBVIOUS
    <2>3. frame'[w] = f /\ f.version = frame[w].version
        BY <1>0, <1>6, <2>2 DEF SignRoot, Types, FrameRow
    <2>4. QED
        BY <1>2, <2>1, <2>3
<1>7. ASSUME SaveSignedRoot(w) \/ GetRoot(w) \/ \E id \in Identities : GetProof(w, id)
      PROVE  ~ Writing(w)'
    <2>1. pc'[w] \in {"return", "latest"}
        BY <1>0, <1>7 DEF SaveSignedRoot, GetRoot, GetProof, Goto, Types
    <2>2. QED
        BY <2>1 DEF Writing, Rebuilding
<1>8. ASSUME ReadLatestRoot(w)
      PROVE  ~ Writing(w)'
    <2>1. PICK i \in DOMAIN roots : LatestRoot = roots[i]
        BY <1>0, <1>8, LatestRootIsARow DEF ReadLatestRoot
    <2>2. PICK r : r = roots[i]
        OBVIOUS
    <2>3. PICK f : f = [frame[w] EXCEPT !.signed = r]
        OBVIOUS
    <2>4. pc'[w] = "keys" /\ frame'[w] = f
        BY <1>0, <1>8, <2>1, <2>2, <2>3, MovedWorker DEF ReadLatestRoot
    <2>5. r.tree_version >= 1
        BY <2>2 DEF IInv, RowsInv
    <2>6. r # NoRoot
        BY <2>5 DEF NoRoot
    <2>7. f.signed = r
        BY <1>0, <2>3 DEF FrameRow
    <2>8. QED
        BY <2>4, <2>6, <2>7 DEF Writing, Rebuilding
<1>9. ASSUME NoLatestRoot(w)
      PROVE  frame'[w].version <= m + 1
    <2>1. PICK f : f = [frame[w] EXCEPT !.version = 1]
        OBVIOUS
    <2>2. frame'[w] = f /\ f.version = 1
        BY <1>0, <1>9, <2>1 DEF NoLatestRoot, Types, FrameRow
    <2>3. QED
        BY <2>2
<1>10. ASSUME \E r : Finish(w, r)
       PROVE  ~ Writing(w)'
    <2>1. pc'[w] = "idle"
        BY <1>0, <1>10 DEF Finish, Goto, Types
    <2>2. QED
        BY <2>1 DEF Writing, Rebuilding
<1>11. QED
    BY <1>3, <1>4, <1>5, <1>6, <1>7, <1>8, <1>9, <1>10
       DEF Request, Step, RebuildEmpty, AddEntryReturns, GetRootReturns, GetProofUnknown,
           GetProofReturns, RequestRaises

\* Every step keeps the versions without gaps.
LEMMA StepVersions ==
    ASSUME IInv, VersionsInv, Types', [Next]_vars
    PROVE  VersionsInv'
<1>0. Types /\ TablesGrow
    BY StepGrows DEF IInv
<1>1. PICK n, m \in Nat : /\ n = LatestTreeVersion /\ m = LatestTreeVersion'
                          /\ m >= n /\ m <= n + 1
    BY HeadRisesByOne
<1>2. ASSUME NEW v \in 1 .. m
      PROVE  HasVersion(v)'
    <2>1. CASE v <= n
        <3>1. v \in 1 .. n
            BY <1>1, <2>1
        <3>2. PICK i \in DOMAIN roots : roots[i].tree_version = v
            BY <1>1, <3>1 DEF VersionsInv, HasVersion
        <3>3. i \in DOMAIN roots' /\ roots'[i] = roots[i]
            BY <1>0, RowsStay
        <3>4. QED
            BY <3>2, <3>3 DEF HasVersion
    <2>2. CASE v > n
        <3>1. v = m /\ m # 0
            BY <1>1, <2>2
        <3>2. HeadIsARow'
            BY TypesGiveHead, PTL
        <3>3. roots' # <<>>
            BY <1>1, <3>1 DEF LatestTreeVersion, LatestRoot, NoRoot
        <3>4. PICK k \in DOMAIN roots' : LatestRoot' = roots'[k]
            BY <3>2, <3>3 DEF HeadIsARow
        <3>5. roots'[k].tree_version = v
            BY <1>1, <3>1, <3>4 DEF LatestTreeVersion
        <3>6. QED
            BY <3>5 DEF HasVersion
    <2>3. QED
        BY <1>1, <2>1, <2>2
<1>3. EntryVersionsInv'
    <2>0. entries \in Seq(EntryRow) /\ Len(entries) \in Nat /\ DOMAIN entries = 1 .. Len(entries)
        BY <1>0 DEF Types
    <2>1. \A i \in DOMAIN entries : entries[i].tree_version \in 1 .. m + 1
        <3>1. \A i \in DOMAIN entries : entries[i].tree_version \in 1 .. n + 1
            BY <1>1 DEF VersionsInv, EntryVersionsInv
        <3>2. QED
            BY <1>1, <3>1
    <2>2. CASE entries' = entries
        BY <1>1, <2>1, <2>2 DEF EntryVersionsInv
    <2>3. ASSUME NEW w \in Workers, InsertEntry(w)
          PROVE  EntryVersionsInv'
        <3>1. frame[w].version \in Nat
            BY <1>0 DEF Types, FrameRow
        <3>2. frame[w].version \in 1 .. m + 1
            <4>1. frame[w].version >= 1
                BY <2>3 DEF InsertEntry, IInv, WorkerInv
            <4>2. frame[w].version <= n + 1
                BY <1>1, <2>3 DEF InsertEntry, VersionsInv, NotFarAhead, Writing
            <4>3. QED
                BY <1>1, <3>1, <4>1, <4>2
        <3>3. PICK e : /\ entries' = Append(entries, e)
                       /\ e.tree_version = frame[w].version
            BY <2>3 DEF InsertEntry, InsertEntryRow
        <3>4. /\ DOMAIN entries' = 1 .. Len(entries) + 1
              /\ entries'[Len(entries) + 1] = e
              /\ \A i \in 1 .. Len(entries) : entries'[i] = entries[i]
            BY <2>0, <3>3
        <3>5. \A i \in DOMAIN entries' : i \in DOMAIN entries \/ entries'[i] = e
            BY <2>0, <3>3, AppendedRow
        <3>6. QED
            BY <1>1, <2>0, <2>1, <3>2, <3>3, <3>4, <3>5 DEF EntryVersionsInv
    <2>4. entries' = entries \/ \E w \in Workers : InsertEntry(w)
        BY TableSteps DEF tables
    <2>5. QED
        BY <2>2, <2>3, <2>4
<1>4. ASSUME NEW v \in Workers, pc'[v] = pc[v], frame'[v] = frame[v]
      PROVE  Writing(v)' => frame'[v].version <= m + 1
    <2>1. frame[v].version \in Nat
        BY <1>0 DEF Types, FrameRow
    <2>2. Writing(v)' => Writing(v)
        BY <1>4 DEF Writing, Rebuilding
    <2>3. Writing(v) => frame[v].version <= n + 1
        BY <1>1 DEF VersionsInv, NotFarAhead
    <2>4. QED
        BY <1>1, <1>4, <2>1, <2>2, <2>3
<1>5. ASSUME NEW v \in Workers
      PROVE  Writing(v)' => frame'[v].version <= m + 1
    <2>1. ASSUME NEW w \in Workers, Request(w) \/ Step(w) \/ RequestRaises(w)
          PROVE  Writing(v)' => frame'[v].version <= m + 1
        <3>1. CASE v = w
            BY <1>1, <2>1, <3>1, MoverNotFarAhead
        <3>2. CASE v # w
            BY <1>0, <1>4, <2>1, <3>2, StepMovesOne
        <3>3. QED
            BY <3>1, <3>2
    <2>2. CASE Restart
        <3>1. pc'[v] = "idle"
            BY <2>2 DEF Restart
        <3>2. QED
            BY <3>1 DEF Writing, Rebuilding
    <2>3. CASE UNCHANGED vars
        BY <1>4, <2>3 DEF vars
    <2>4. QED
        BY <2>1, <2>2, <2>3 DEF Next
<1>6. QED
    BY <1>1, <1>2, <1>3, <1>5 DEF VersionsInv, NotFarAhead

\* get_root_by_version finds a row of the version asked for, when there is one.
LEMMA RootOfVersion ==
    ASSUME Types, NEW v \in Nat, HasVersion(v)
    PROVE  \E i \in DOMAIN roots :
             /\ RootByVersion(v) = roots[i]
             /\ roots[i].tree_version = v
             /\ \A j \in i + 1 .. Len(roots) : roots[j].tree_version # v
<1>0. roots \in Seq(RootRow) /\ Len(roots) \in Nat /\ DOMAIN roots = 1 .. Len(roots)
    BY DEF Types
<1> DEFINE T == {i \in 1 .. Len(roots) : roots[i].tree_version = v}
           Is(i) == /\ roots[i].tree_version = v
                    /\ \A j \in i + 1 .. Len(roots) : roots[j].tree_version # v
<1>1. PICK k \in T : \A j \in T : j <= k
    <2>1. T # {} /\ T \in SUBSET (0 .. Len(roots))
        BY <1>0 DEF HasVersion
    <2> HIDE DEF T
    <2>2. QED
        BY <1>0, <2>1, Path!GreatestElement
<1>2. k \in DOMAIN roots /\ Is(k)
    BY <1>0, <1>1
<1>3. PICK i \in DOMAIN roots : i = (CHOOSE j \in DOMAIN roots : Is(j)) /\ Is(i)
    <2> HIDE DEF Is
    <2>1. QED
        BY <1>2
<1>4. ~ \A j \in DOMAIN roots : roots[j].tree_version # v
    BY <1>2
<1>5. RootByVersion(v) = roots[i]
    BY <1>3, <1>4 DEF RootByVersion
<1>6. QED
    BY <1>3, <1>5

\* The empty registry has no version.
LEMMA InitVersions == Init => VersionsInv
<1> SUFFICES ASSUME Init
             PROVE  VersionsInv
    OBVIOUS
<1>1. LatestTreeVersion = 0
    BY DEF Init, LatestTreeVersion, LatestRoot, NoRoot
<1>2. \A w \in Workers : ~ Writing(w)
    BY DEF Init, Writing, Rebuilding
<1>3. QED
    BY <1>1, <1>2 DEF Init, VersionsInv, EntryVersionsInv, NotFarAhead

\* No reachable state has a gap or a worker far ahead.
LEMMA VersionsInvariant == Spec => []VersionsInv
<1>1. IInv /\ VersionsInv /\ IInv' /\ [Next]_vars => VersionsInv'
    BY StepVersions DEF IInv
<1>2. QED
    BY <1>1, InitVersions, InvariantHolds, PTL DEF Spec

\* Every version up to the one get_latest_tree_version answers can be asked for,
\* and no entry is more than one version ahead, however many writers overtake
\* each other between reading that version and saving a root.
THEOREM VersionsWithoutGaps == Spec => []VersionsHaveNoGaps
<1>1. IInv /\ VersionsInv => VersionsHaveNoGaps
    <2> SUFFICES ASSUME IInv, VersionsInv
                 PROVE  VersionsHaveNoGaps
        OBVIOUS
    <2>1. Types /\ LatestTreeVersion \in Nat
        BY LatestRootIsARow DEF IInv
    <2>2. ASSUME NEW v \in 1 .. LatestTreeVersion
          PROVE  RootByVersion(v) # NoRoot
        <3>1. v \in Nat /\ v # 0 /\ HasVersion(v)
            BY <2>1 DEF VersionsInv
        <3>2. PICK i \in DOMAIN roots : RootByVersion(v) = roots[i] /\ roots[i].tree_version = v
            BY <2>1, <3>1, RootOfVersion
        <3>3. NoRoot.tree_version = 0
            BY DEF NoRoot
        <3>4. QED
            BY <3>1, <3>2, <3>3
    <2>3. QED
        BY <2>2 DEF VersionsInv, EntryVersionsInv, VersionsHaveNoGaps
<1>2. QED
    BY <1>1, InvariantHolds, VersionsInvariant, PTL

-----------------------------------------------------------------------------
(***************************************************************************)
(* Inclusion proofs. The handler lists the entries, and reads the signed   *)
(* root later: what it remembers is still a prefix of the table by then,   *)
(* and the root it compares with commits to a prefix that may be shorter or*)
(* longer.                                                                 *)
(***************************************************************************)

\* A row holds the leaf hash of its own assertion.
LeafRowsInv == \A i \in DOMAIN entries : entries[i].leaf_hash = HashLeaf(entries[i].assertion)

\* The entries that a proof request has listed are still a prefix of the table,
\* with the identity it is about among them.
ListedInv(w) ==
    LET n == Len(frame[w].listed)
    IN  pc[w] # "idle" /\ frame[w].op = "proof" =>
          /\ n \in 1 .. Len(entries)
          /\ frame[w].listed = SubSeq(entries, 1, n)
          /\ PositionsOf(frame[w].identity, frame[w].listed) # {}

\* What a client can check of its proof, and that the table and the roots back it.
ProofAnswerInv(r) ==
    /\ r.entry.assertion.identity = r.identity
    /\ VerifyInclusionProof(HashLeaf(r.entry.assertion), r.proof, r.root.merkle_root)
    /\ Persisted(r.root)
    /\ \E i \in 1 .. r.root.tree_size : entries[i] = r.entry

AnswersInv ==
    /\ LeafRowsInv
    /\ \A w \in Workers : ListedInv(w)
    /\ \A w \in Workers : resp[w].status = "proof" => ProofAnswerInv(resp[w])

\* A prefix of a list of rows.
LEMMA PrefixOfRows ==
    ASSUME NEW rows \in Seq(EntryRow), NEW n \in 1 .. Len(rows)
    PROVE  /\ SubSeq(rows, 1, n) \in Seq(EntryRow)
           /\ Len(SubSeq(rows, 1, n)) = n
           /\ \A i \in 1 .. n : SubSeq(rows, 1, n)[i] = rows[i]
OBVIOUS

\* The entry at the first position of an identity in a prefix of the table.
LEMMA FirstPositionIsLeast ==
    ASSUME NEW rows \in Seq(EntryRow), NEW id, PositionsOf(id, rows) # {}
    PROVE  /\ FirstPosition(id, rows) \in 1 .. Len(rows)
           /\ rows[FirstPosition(id, rows)].assertion.identity = id
           /\ \A i \in 1 .. Len(rows) :
                 rows[i].assertion.identity = id => FirstPosition(id, rows) <= i
<1> DEFINE T == PositionsOf(id, rows)
           Is(i) == \A j \in T : i <= j
<1>1. Len(rows) \in Nat /\ DOMAIN rows = 1 .. Len(rows)
    OBVIOUS
<1>2. T = {i \in 1 .. Len(rows) : rows[i].assertion.identity = id}
    BY <1>1 DEF PositionsOf
<1>3. T # {} /\ T \in SUBSET (0 .. Len(rows))
    BY <1>1, <1>2
<1>4. \E k \in T : Is(k)
    <2> HIDE DEF T
    <2>1. QED
        BY <1>1, <1>3, Path!LeastElement
<1>5. PICK k \in T : k = (CHOOSE i \in T : Is(i)) /\ Is(k)
    <2> HIDE DEF T, Is
    <2>1. QED
        BY <1>4
<1>6. FirstPosition(id, rows) = k
    BY <1>5 DEF FirstPosition
<1>7. QED
    BY <1>2, <1>5, <1>6

\* When the listed entries have the signed root, the answer is right: the root
\* covers the first entry of the identity even if it is about fewer entries
\* than were listed, since a proof that leads to it is about one of its own
\* entries.
LEMMA AnswerIsRight ==
    ASSUME IInv, AnswersInv, NEW w \in Workers, NEW f, f = frame[w],
           pc[w] = "return", f.op = "proof", ProofMatches(f)
    PROVE  ProofAnswerInv(ProofResponse(f))
<1>0. /\ entries \in Seq(EntryRow) /\ Len(entries) \in Nat
      /\ DOMAIN entries = 1 .. Len(entries)
    BY DEF IInv, Types
<1>1. PICK n \in 1 .. Len(entries) : n = Len(f.listed) /\ f.listed = SubSeq(entries, 1, n)
    BY DEF AnswersInv, ListedInv
<1>2. PICK rows \in Seq(EntryRow) : /\ rows = f.listed /\ Len(rows) = n
                                   /\ \A i \in 1 .. n : rows[i] = entries[i]
    BY <1>0, <1>1, PrefixOfRows
<1>3. PICK id : id = f.identity /\ PositionsOf(id, rows) # {}
    BY <1>2 DEF AnswersInv, ListedInv
<1>4. PICK first \in 1 .. n :
        /\ first = FirstPosition(id, rows)
        /\ rows[first].assertion.identity = id
        /\ \A i \in 1 .. n : rows[i].assertion.identity = id => first <= i
    BY <1>2, <1>3, FirstPositionIsLeast
<1>5. PICK leaves : leaves = LeafHashes(rows)
    OBVIOUS
<1>6. IsList(leaves) /\ Len(leaves) = n /\ leaves[first] = rows[first].leaf_hash
    BY <1>2, <1>5, LeafHashesType, SeqIsList
<1>7. PICK data : data = rows[first].assertion /\ rows[first].leaf_hash = HashLeaf(data)
    BY <1>0, <1>2 DEF AnswersInv, LeafRowsInv
<1>8. PICK proof : proof = GenerateInclusionProof(leaves, first - 1)
    OBVIOUS
<1>9. first - 1 \in 0 .. Len(leaves) - 1 /\ (first - 1) + 1 = first /\ leaves # <<>>
    BY <1>6, ListLength
<1>10. VerifyInclusionProof(HashLeaf(data), proof, MerkleRoot(leaves))
    BY <1>6, <1>7, <1>8, <1>9, InclusionProofVerifies
<1>11. IsList(proof)
    <2>1. PICK t : t = BuildMerkleTree(leaves) /\ IsTreeOf(t, leaves)
        BY <1>6, <1>9, TreeShape
    <2>2. PICK m \in Nat : m = Len(t) - 1
        BY <2>1, ListLength DEF IsTreeOf, IsStack
    <2>3. proof = [k \in 1 .. m |-> ProofStep(t[k], (first - 1) \div 2 ^ (k - 1))]
        BY <1>8, <2>1, <2>2 DEF GenerateInclusionProof
    <2>4. QED
        BY <2>3 DEF IsList
<1>12. PICK root : root = f.signed
    OBVIOUS
<1>13. Persisted(root) /\ SoundRoot(root)
    BY <1>12 DEF IInv, WorkerInv, RowsInv, Persisted
<1>14. MerkleRoot(leaves) = root.merkle_root
    BY <1>2, <1>5, <1>12 DEF ProofMatches
<1>15. PICK s \in 1 .. Len(entries) :
        /\ s = root.tree_size
        /\ root.merkle_root = MerkleRoot(LeafHashes(SubSeq(entries, 1, s)))
    BY <1>13 DEF SoundRoot, CommitsToPrefix
<1>16. first \in 1 .. s
    <2>1. PICK covered \in Seq(EntryRow) :
            /\ covered = SubSeq(entries, 1, s) /\ Len(covered) = s
            /\ \A i \in 1 .. s : covered[i] = entries[i]
        BY <1>0, <1>15, PrefixOfRows
    <2>2. PICK hashes : hashes = LeafHashes(covered)
        OBVIOUS
    <2>3. IsList(hashes) /\ Len(hashes) = s /\ \A i \in 1 .. s : hashes[i] = covered[i].leaf_hash
        BY <2>1, <2>2, LeafHashesType, SeqIsList
    <2>4. \A i \in 1 .. s : hashes[i] = HashLeaf(entries[i].assertion)
        BY <1>0, <2>1, <2>3 DEF AnswersInv, LeafRowsInv
    <2>5. hashes # <<>>
        BY <1>15, <2>3, ListLength
    <2>6. VerifyInclusionProof(HashLeaf(data), proof, MerkleRoot(hashes))
        BY <1>10, <1>14, <1>15, <2>1, <2>2
    <2>7. \A i \in 1 .. Len(hashes) : \E d : hashes[i] = HashLeaf(d)
        BY <2>3, <2>4
    <2>8. PICK i \in 1 .. Len(hashes) : hashes[i] = HashLeaf(data)
        BY <1>11, <2>3, <2>5, <2>6, <2>7, InclusionProofSound
    <2>9. entries[i].assertion = data
        BY <2>3, <2>4, <2>8 DEF HashLeaf
    <2>10. entries[i].assertion.identity = id
        BY <1>4, <1>7, <2>9
    <2>11. i <= n => first <= i
        BY <1>2, <1>4, <2>3, <2>8, <2>10
    <2>12. QED
        BY <1>4, <1>15, <2>3, <2>8, <2>11
<1>17. PICK r : r = ProofResponse(f)
    OBVIOUS
<1>18. /\ r.identity = id /\ r.entry = rows[first] /\ r.proof = proof /\ r.root = root
    BY <1>2, <1>3, <1>4, <1>5, <1>8, <1>12, <1>17 DEF ProofResponse
<1>19. VerifyInclusionProof(HashLeaf(r.entry.assertion), r.proof, r.root.merkle_root)
    BY <1>7, <1>10, <1>14, <1>18
<1>20. entries[first] = r.entry /\ first \in 1 .. r.root.tree_size
    BY <1>2, <1>15, <1>16, <1>18
<1>21. QED
    BY <1>4, <1>13, <1>17, <1>18, <1>19, <1>20 DEF ProofAnswerInv

\* An answer that is right stays right: its root stays persisted and its entry
\* stays where it is.
LEMMA AnswerStays ==
    ASSUME IInv, Types', TablesGrow, NEW r, ProofAnswerInv(r)
    PROVE  ProofAnswerInv(r)'
<1>0. /\ Types /\ entries \in Seq(EntryRow) /\ Len(entries) \in Nat
    BY DEF IInv, Types
<1>1. Persisted(r.root) /\ SoundRoot(r.root)
    BY DEF ProofAnswerInv, Persisted, IInv, RowsInv
<1>2. Persisted(r.root)'
    BY <1>0, <1>1, PersistedStays DEF Persisted
<1>3. PICK i \in 1 .. r.root.tree_size : entries[i] = r.entry
    BY DEF ProofAnswerInv
<1>4. i \in 1 .. Len(entries)
    BY <1>0, <1>1 DEF SoundRoot, CommitsToPrefix
<1>5. entries'[i] = r.entry
    BY <1>3, <1>4 DEF TablesGrow
<1>6. QED
    BY <1>2, <1>5 DEF ProofAnswerInv

\* Every inserted row holds the hash of its own assertion.
LEMMA StepLeafRows ==
    ASSUME IInv, AnswersInv, [Next]_vars
    PROVE  LeafRowsInv'
<1>0. Types /\ entries \in Seq(EntryRow) /\ Len(entries) \in Nat /\ DOMAIN entries = 1 .. Len(entries)
    BY DEF IInv, Types
<1>1. LeafRowsInv
    BY DEF AnswersInv
<1>2. CASE entries' = entries
    BY <1>1, <1>2 DEF LeafRowsInv
<1>3. ASSUME NEW w \in Workers, InsertEntry(w)
      PROVE  LeafRowsInv'
    <2>1. PICK e : entries' = Append(entries, e) /\ e.leaf_hash = HashLeaf(e.assertion)
        BY <1>3 DEF InsertEntry, InsertEntryRow
    <2>2. /\ DOMAIN entries' = 1 .. Len(entries) + 1
          /\ entries'[Len(entries) + 1] = e
          /\ \A i \in 1 .. Len(entries) : entries'[i] = entries[i]
        BY <1>0, <2>1
    <2>3. \A i \in DOMAIN entries' : i \in DOMAIN entries \/ entries'[i] = e
        BY <1>0, <2>1, AppendedRow
    <2>4. QED
        BY <1>0, <1>1, <2>1, <2>2, <2>3 DEF LeafRowsInv
<1>4. entries' = entries \/ \E w \in Workers : InsertEntry(w)
    BY TableSteps DEF tables
<1>5. QED
    BY <1>2, <1>3, <1>4

\* What a worker listed stays a prefix of the table.
LEMMA ListedStays ==
    ASSUME Types, Types', TablesGrow, NEW w \in Workers, ListedInv(w),
           NEW f, f = frame'[w], pc[w] # "idle",
           f.op = frame[w].op, f.identity = frame[w].identity, f.listed = frame[w].listed
    PROVE  ListedInv(w)'
<1>1. CASE f.op # "proof"
    BY <1>1 DEF ListedInv
<1>2. CASE f.op = "proof"
    <2>0. Len(entries) \in Nat /\ Len(entries') \in Nat
        BY DEF Types
    <2>1. PICK n \in 1 .. Len(entries) : n = Len(f.listed) /\ f.listed = SubSeq(entries, 1, n)
        BY <1>2 DEF ListedInv
    <2>2. SubSeq(entries', 1, n) = SubSeq(entries, 1, n) /\ n \in 1 .. Len(entries')
        <3>1. n \in 0 .. Len(entries)
            BY <2>0
        <3>2. /\ SubSeq(entries', 1, n) = SubSeq(entries, 1, n)
              /\ n \in 0 .. Len(entries')
            BY <3>1, PrefixStays
        <3>3. QED
            BY <2>0, <3>2
    <2>3. PositionsOf(f.identity, f.listed) # {}
        BY <1>2 DEF ListedInv
    <2>4. QED
        BY <2>1, <2>2, <2>3 DEF ListedInv, PositionsOf
<1>3. QED
    BY <1>1, <1>2

\* The worker that takes a step: GetProof lists the whole table, and every later
\* step of the request keeps the list.
LEMMA MoverListed ==
    ASSUME IInv, AnswersInv, Types', TablesGrow, NEW w \in Workers,
           Request(w) \/ Step(w) \/ RequestRaises(w)
    PROVE  ListedInv(w)'
<1>0. /\ Types /\ WorkerInv(w) /\ frame[w] \in FrameRow /\ ListedInv(w)
      /\ entries \in Seq(EntryRow) /\ Len(entries) \in Nat
      /\ frame \in [Workers -> FrameRow] /\ pc \in [Workers -> Locations]
    BY DEF IInv, AnswersInv, Types
<1>1. ASSUME NEW a \in Assertions, AddEntry(w, a)
      PROVE  ListedInv(w)'
    <2>1. PICK f : f = [IdleFrame EXCEPT !.op = "add", !.assertion = a,
                                         !.version = LatestTreeVersion + 1]
        OBVIOUS
    <2>2. frame'[w] = f /\ f.op = "add"
        <3>1. frame'[w] = f
            BY <1>0, <1>1, <2>1 DEF AddEntry
        <3>2. f.op = "add"
            BY <2>1 DEF IdleFrame
        <3>3. QED
            BY <3>1, <3>2
    <2>3. QED
        BY <2>2 DEF ListedInv
<1>2. ASSUME GetRoot(w)
      PROVE  ListedInv(w)'
    <2>1. frame'[w].op = "root"
        BY <1>0, <1>2 DEF GetRoot, FrameRow
    <2>2. QED
        BY <2>1 DEF ListedInv
<1>3. ASSUME NEW id \in Identities, GetProof(w, id)
      PROVE  ListedInv(w)'
    <2>1. PICK f : f = [frame[w] EXCEPT !.op = "proof", !.identity = id, !.listed = entries]
        OBVIOUS
    <2>2. frame'[w] = f
        BY <1>0, <1>3, <2>1 DEF GetProof
    <2>3. f.identity = id /\ f.listed = entries
        BY <1>0, <2>1 DEF FrameRow
    <2>4. PositionsOf(f.identity, f.listed) # {} /\ entries' = entries
        BY <1>3, <2>3 DEF GetProof, tables
    <2>5. Len(entries) \in 1 .. Len(entries) /\ entries = SubSeq(entries, 1, Len(entries))
        <3>1. PositionsOf(id, entries) # {}
            BY <1>3 DEF GetProof
        <3>2. Len(entries) # 0
            BY <1>0, <3>1 DEF PositionsOf
        <3>3. QED
            BY <1>0, <3>2
    <2>6. QED
        BY <2>2, <2>3, <2>4, <2>5 DEF ListedInv, PositionsOf
<1>4. ASSUME \/ InsertEntry(w) \/ RebuildTree(w) \/ CheckOperatorKeys(w)
             \/ GenerateOperatorKeys(w) \/ SignRoot(w) \/ SaveSignedRoot(w)
             \/ ReadLatestRoot(w) \/ NoLatestRoot(w)
      PROVE  ListedInv(w)'
    <2>1. pc[w] # "idle"
        BY <1>4 DEF InsertEntry, RebuildTree, CheckOperatorKeys, GenerateOperatorKeys,
                    SignRoot, SaveSignedRoot, ReadLatestRoot, NoLatestRoot
    <2>2. PICK f : f = frame'[w]
        OBVIOUS
    <2>3. /\ f.op = frame[w].op /\ f.identity = frame[w].identity
          /\ f.listed = frame[w].listed
        <3>1. /\ \A n : LET g == [frame[w] EXCEPT !.entry_id = n]
                        IN  g.op = frame[w].op /\ g.identity = frame[w].identity
                              /\ g.listed = frame[w].listed
              /\ \A n : LET g == [frame[w] EXCEPT !.version = n]
                        IN  g.op = frame[w].op /\ g.identity = frame[w].identity
                              /\ g.listed = frame[w].listed
              /\ \A n : LET g == [frame[w] EXCEPT !.key = n]
                        IN  g.op = frame[w].op /\ g.identity = frame[w].identity
                              /\ g.listed = frame[w].listed
              /\ \A s : LET g == [frame[w] EXCEPT !.snapshot = s]
                        IN  g.op = frame[w].op /\ g.identity = frame[w].identity
                              /\ g.listed = frame[w].listed
              /\ \A r : LET g == [frame[w] EXCEPT !.signed = r]
                        IN  g.op = frame[w].op /\ g.identity = frame[w].identity
                              /\ g.listed = frame[w].listed
            BY <1>0 DEF FrameRow
        <3>2. CASE InsertEntry(w)
            <4>1. f = [frame[w] EXCEPT !.entry_id = Len(entries) + 1]
                BY <1>0, <2>2, <3>2 DEF InsertEntry
            <4>2. QED
                BY <3>1, <4>1
        <3>3. CASE RebuildTree(w)
            <4>1. f = [frame[w] EXCEPT !.snapshot = LeafHashes(entries)]
                BY <1>0, <2>2, <3>3 DEF RebuildTree
            <4>2. QED
                BY <3>1, <4>1
        <3>4. CASE CheckOperatorKeys(w) \/ GenerateOperatorKeys(w)
            BY <2>2, <3>4 DEF CheckOperatorKeys, GenerateOperatorKeys
        <3>5. CASE SignRoot(w)
            <4>1. f = [frame[w] EXCEPT !.key = operatorKey]
                BY <1>0, <2>2, <3>5 DEF SignRoot
            <4>2. QED
                BY <3>1, <4>1
        <3>6. CASE SaveSignedRoot(w)
            <4>1. f = [frame[w] EXCEPT !.signed = SignedRoot(frame[w])]
                BY <1>0, <2>2, <3>6 DEF SaveSignedRoot
            <4>2. QED
                BY <3>1, <4>1
        <3>7. CASE ReadLatestRoot(w)
            <4>1. f = [frame[w] EXCEPT !.signed = LatestRoot]
                BY <1>0, <2>2, <3>7 DEF ReadLatestRoot
            <4>2. QED
                BY <3>1, <4>1
        <3>8. CASE NoLatestRoot(w)
            <4>1. f = [frame[w] EXCEPT !.version = 1]
                BY <1>0, <2>2, <3>8 DEF NoLatestRoot
            <4>2. QED
                BY <3>1, <4>1
        <3>9. QED
            BY <1>4, <3>2, <3>3, <3>4, <3>5, <3>6, <3>7, <3>8
    <2>4. QED
        BY <1>0, <2>1, <2>2, <2>3, ListedStays
<1>5. ASSUME \E r : Finish(w, r)
      PROVE  ListedInv(w)'
    <2>1. pc'[w] = "idle"
        BY <1>0, <1>5 DEF Finish, Goto
    <2>2. QED
        BY <2>1 DEF ListedInv
<1>6. QED
    BY <1>1, <1>2, <1>3, <1>4, <1>5
       DEF Request, Step, RebuildEmpty, AddEntryReturns, GetRootReturns, GetProofUnknown,
           GetProofReturns, RequestRaises

\* The answer of the worker that takes a step: the one it had, or a new one that
\* GetProofReturns gives, or one that is no proof.
LEMMA MoverAnswer ==
    ASSUME IInv, AnswersInv, Types', TablesGrow, NEW w \in Workers,
           Request(w) \/ Step(w) \/ RequestRaises(w), resp'[w].status = "proof"
    PROVE  ProofAnswerInv(resp[w])'
<1>0. Types /\ resp = [v \in Workers |-> resp[v]]
    BY DEF IInv, Types
<1>1. CASE resp' = resp
    <2>1. PICK r : r = resp[w] /\ r.status = "proof"
        BY <1>1
    <2>2. ProofAnswerInv(r)
        BY <2>1 DEF AnswersInv
    <2>3. ProofAnswerInv(r)'
        BY <2>2, AnswerStays
    <2>4. QED
        BY <1>1, <2>1, <2>3 DEF ProofAnswerInv
<1>2. CASE GetProofReturns(w)
    <2>1. PICK f : f = frame[w]
        OBVIOUS
    <2>2. resp'[w] = IF ProofMatches(f) THEN ProofResponse(f) ELSE [status |-> "inconsistent"]
        BY <1>0, <1>2, <2>1 DEF GetProofReturns, Finish
    <2>3. [status |-> "inconsistent"].status # "proof"
        OBVIOUS
    <2>4. ProofMatches(f) /\ resp'[w] = ProofResponse(f)
        BY <2>2, <2>3
    <2>5. PICK r : r = ProofResponse(f)
        OBVIOUS
    <2>6. ProofAnswerInv(r)
        BY <1>2, <2>1, <2>4, <2>5, AnswerIsRight DEF GetProofReturns
    <2>7. ProofAnswerInv(r)'
        BY <2>6, AnswerStays
    <2>8. QED
        BY <2>4, <2>5, <2>7 DEF ProofAnswerInv
<1>3. ASSUME NEW r, resp' = [resp EXCEPT ![w] = r], r.status # "proof"
      PROVE  FALSE
    BY <1>0, <1>3
<1>4. CASE \/ RebuildEmpty(w) \/ RequestRaises(w) \/ GetRootReturns(w) \/ AddEntryReturns(w)
           \/ Request(w)
    <2>1. NoResponse.status # "proof" /\ Error.status # "proof"
        BY DEF NoResponse, Error
    <2> DEFINE r == [status |-> "root", root |-> frame[w].signed]
               a == [status |-> "added", entry_id |-> frame[w].entry_id,
                     tree_version |-> frame[w].version]
    <2>2. r.status # "proof" /\ a.status # "proof"
        OBVIOUS
    <2>3. \E x \in {NoResponse, Error, r, a} : resp' = [resp EXCEPT ![w] = x]
        BY <1>4, Zenon DEF RebuildEmpty, RequestRaises, GetRootReturns, AddEntryReturns,
                          Request, AddEntry, GetRoot, GetProof, GetProofUnknown, Finish
    <2> HIDE DEF r, a
    <2>4. QED
        BY <1>3, <2>1, <2>2, <2>3
<1>5. CASE \/ InsertEntry(w) \/ RebuildTree(w) \/ CheckOperatorKeys(w)
           \/ GenerateOperatorKeys(w) \/ SignRoot(w) \/ SaveSignedRoot(w)
           \/ ReadLatestRoot(w) \/ NoLatestRoot(w)
    BY <1>1, <1>5 DEF InsertEntry, RebuildTree, CheckOperatorKeys, GenerateOperatorKeys,
                      SignRoot, SaveSignedRoot, ReadLatestRoot, NoLatestRoot
<1>6. QED
    BY <1>2, <1>4, <1>5 DEF Step

\* Every step keeps the rows, the lists and the answers right.
LEMMA StepAnswers ==
    ASSUME IInv, AnswersInv, Types', [Next]_vars
    PROVE  AnswersInv'
<1>0. Types /\ TablesGrow
    BY StepGrows DEF IInv
<1>1. LeafRowsInv'
    BY StepLeafRows
<1>2. ASSUME NEW v \in Workers, pc'[v] = pc[v], frame'[v] = frame[v], resp'[v] = resp[v]
      PROVE  ListedInv(v)' /\ (resp'[v].status = "proof" => ProofAnswerInv(resp[v])')
    <2>1. ListedInv(v)'
        <3>1. CASE pc[v] = "idle"
            BY <1>2, <3>1 DEF ListedInv
        <3>2. CASE pc[v] # "idle"
            BY <1>0, <1>2, <3>2, ListedStays DEF AnswersInv
        <3>3. QED
            BY <3>1, <3>2
    <2>2. ASSUME resp'[v].status = "proof"
          PROVE  ProofAnswerInv(resp[v])'
        <3>1. PICK r : r = resp[v]
            OBVIOUS
        <3>2. ProofAnswerInv(r)
            BY <1>2, <2>2, <3>1 DEF AnswersInv
        <3>3. ProofAnswerInv(r)'
            BY <1>0, <3>2, AnswerStays
        <3>4. QED
            BY <1>2, <3>1, <3>3 DEF ProofAnswerInv
    <2>3. QED
        BY <2>1, <2>2
<1>3. ASSUME NEW v \in Workers
      PROVE  ListedInv(v)' /\ (resp'[v].status = "proof" => ProofAnswerInv(resp[v])')
    <2>1. ASSUME NEW w \in Workers, Request(w) \/ Step(w) \/ RequestRaises(w)
          PROVE  ListedInv(v)' /\ (resp'[v].status = "proof" => ProofAnswerInv(resp[v])')
        <3>1. CASE v = w
            BY <1>0, <2>1, <3>1, MoverListed, MoverAnswer
        <3>2. CASE v # w
            BY <1>0, <1>2, <2>1, <3>2, StepMovesOne
        <3>3. QED
            BY <3>1, <3>2
    <2>2. CASE Restart
        <3>1. pc'[v] = "idle" /\ resp'[v].status # "proof"
            BY <2>2 DEF Restart, NoResponse
        <3>2. QED
            BY <3>1 DEF ListedInv
    <2>3. CASE UNCHANGED vars
        BY <1>2, <2>3 DEF vars
    <2>4. QED
        BY <2>1, <2>2, <2>3 DEF Next
<1>4. QED
    BY <1>1, <1>3 DEF AnswersInv

\* An inclusion proof that the registry returns is about the identity asked for,
\* verifies from the entry against the root it comes with, and that root is a
\* persisted one that covers the entry: whatever entries were inserted and roots
\* saved between the two reads of the handler, and whatever happened since.
THEOREM ProofResponsesHold == Spec => []ProofResponsesVerify
<1>1. Init => AnswersInv
    <2> SUFFICES ASSUME Init
                 PROVE  AnswersInv
        OBVIOUS
    <2>1. \A w \in Workers : pc[w] = "idle" /\ resp[w].status # "proof"
        BY DEF Init, NoResponse
    <2>2. QED
        BY <2>1 DEF Init, AnswersInv, LeafRowsInv, ListedInv
<1>2. IInv /\ AnswersInv /\ IInv' /\ [Next]_vars => AnswersInv'
    BY StepAnswers DEF IInv
<1>3. AnswersInv => ProofResponsesVerify
    BY DEF AnswersInv, ProofAnswerInv, Persisted, ProofResponsesVerify
<1>4. QED
    BY <1>1, <1>2, <1>3, InvariantHolds, PTL DEF Spec

-----------------------------------------------------------------------------
(***************************************************************************)
(* Requests that come one at a time, failures and restarts included. Then  *)
(* the version read at the start of a request is still the head's when the *)
(* root is saved, the root is about the whole table, and an entry left     *)
(* without its root has the version that the next root will have: the      *)
(* versions cut the table into the very prefixes that their roots are of.  *)
(***************************************************************************)

OneWorker == \A v, w \in Workers : v = w

HeadComplete == roots # <<>> /\ roots[Len(roots)].tree_size = Len(entries)

HeadBehind == roots # <<>> /\ roots[Len(roots)].tree_size < Len(entries)

\* The i-th root has version i, and its entries are those up to version i.
VersionsCutTheTable ==
    /\ \A i \in DOMAIN roots : roots[i].tree_version = i
    /\ \A i \in DOMAIN roots : \A k \in DOMAIN entries :
          entries[k].tree_version <= i <=> k <= roots[i].tree_size

\* What the only worker remembers is what the tables say now.
AloneInv(w) ==
    /\ Writing(w) => frame[w].version = Len(roots) + 1
    /\ Rebuilding(w) => Len(frame[w].snapshot) = Len(entries)
    /\ pc[w] = "insert" => frame[w].op = "add"
    /\ pc[w] # "idle" /\ frame[w].op = "proof" => frame[w].listed = entries
    /\ pc[w] \in {"keys", "keygen", "return"} /\ frame[w].signed # NoRoot =>
          roots # <<>> /\ frame[w].signed = roots[Len(roots)]
    /\ pc[w] = "return" /\ frame[w].op = "add" => HeadComplete
    /\ pc[w] # "idle" => resp[w] = NoResponse
    /\ resp[w].status = "added" => HeadComplete
    /\ resp[w].status = "inconsistent" => HeadBehind

SequentialInv == VersionsCutTheTable /\ \A w \in Workers : AloneInv(w)

\* The root saved last is the head.
LEMMA HeadIsLast ==
    ASSUME Types, VersionsCutTheTable
    PROVE  /\ LatestTreeVersion = Len(roots)
           /\ roots # <<>> => LatestRoot = roots[Len(roots)]
<1>0. roots \in Seq(RootRow) /\ Len(roots) \in Nat /\ DOMAIN roots = 1 .. Len(roots)
    BY DEF Types
<1>1. CASE roots = <<>>
    BY <1>1 DEF LatestTreeVersion, LatestRoot, NoRoot
<1>2. CASE roots # <<>>
    <2>1. PICK k \in DOMAIN roots : LatestRoot = roots[k] /\ IsLatest(k)
        BY <1>2, LatestRootIsARow
    <2>2. Len(roots) \in DOMAIN roots
        BY <1>0, <1>2
    <2>3. roots[k].tree_version = k /\ roots[Len(roots)].tree_version = Len(roots)
        BY <2>2 DEF VersionsCutTheTable
    <2>4. Len(roots) < k \/ Len(roots) = k
        BY <2>1, <2>2, <2>3 DEF IsLatest
    <2>5. k = Len(roots)
        BY <1>0, <2>4
    <2>6. QED
        BY <2>1, <2>3, <2>5 DEF LatestTreeVersion
<1>3. QED
    BY <1>1, <1>2

\* The root that the only worker saves has the next version and covers the table.
LEMMA SavedRootCoversTable ==
    ASSUME IInv, SequentialInv, NEW w \in Workers, SaveSignedRoot(w)
    PROVE  \E row \in RootRow :
             /\ row = SignedRoot(frame[w])
             /\ roots' = Append(roots, row) /\ entries' = entries
             /\ row.tree_version = Len(roots) + 1
             /\ row.tree_size = Len(entries)
<1>1. PICK row \in RootRow : row = SignedRoot(frame[w])
    BY SignedRootType DEF IInv, Types
<1>2. roots' = Append(roots, row) /\ entries' = entries
    BY <1>1 DEF SaveSignedRoot, InsertRootRow
<1>3. row.tree_version = frame[w].version /\ row.tree_size = Len(frame[w].snapshot)
    BY <1>1 DEF SignedRoot
<1>4. Rebuilding(w) /\ Writing(w)
    BY DEF IInv, WorkerInv, SaveSignedRoot, Writing, Rebuilding
<1>5. QED
    BY <1>1, <1>2, <1>3, <1>4 DEF SequentialInv, AloneInv

\* An entry is inserted above every version, and a root is saved over all of them.
LEMMA StepCuts ==
    ASSUME IInv, VersionsInv, SequentialInv, [Next]_vars
    PROVE  VersionsCutTheTable'
<1>0. /\ Types /\ VersionsCutTheTable
      /\ roots \in Seq(RootRow) /\ Len(roots) \in Nat /\ DOMAIN roots = 1 .. Len(roots)
      /\ entries \in Seq(EntryRow) /\ Len(entries) \in Nat
      /\ DOMAIN entries = 1 .. Len(entries)
    BY DEF IInv, Types, SequentialInv
<1>1. LatestTreeVersion = Len(roots)
    BY <1>0, HeadIsLast
<1>2. CASE UNCHANGED tables
    BY <1>0, <1>2 DEF tables, VersionsCutTheTable
<1>3. ASSUME NEW w \in Workers, InsertEntry(w)
      PROVE  VersionsCutTheTable'
    <2>1. PICK e : entries' = Append(entries, e) /\ e.tree_version = frame[w].version
        BY <1>3 DEF InsertEntry, InsertEntryRow
    <2>2. frame[w].version = Len(roots) + 1
        BY <1>3 DEF InsertEntry, SequentialInv, AloneInv, Writing
    <2>3. /\ DOMAIN entries' = 1 .. Len(entries) + 1
          /\ entries'[Len(entries) + 1] = e
          /\ \A k \in DOMAIN entries : entries'[k] = entries[k]
          /\ roots' = roots
        BY <1>0, <1>3, <2>1 DEF InsertEntry
    <2>4. ASSUME NEW i \in DOMAIN roots, NEW k \in DOMAIN entries'
          PROVE  entries'[k].tree_version <= i <=> k <= roots[i].tree_size
        <3>1. CASE k \in DOMAIN entries
            BY <1>0, <2>3, <3>1 DEF VersionsCutTheTable
        <3>2. CASE k \notin DOMAIN entries
            <4>1. k = Len(entries) + 1 /\ entries'[k].tree_version = Len(roots) + 1
                BY <1>0, <2>1, <2>2, <2>3, <3>2
            <4>2. roots[i].tree_size \in 1 .. Len(entries)
                BY DEF IInv, RowsInv, SoundRoot, CommitsToPrefix
            <4>3. QED
                BY <1>0, <4>1, <4>2
        <3>3. QED
            BY <3>1, <3>2
    <2>5. QED
        BY <1>0, <2>3, <2>4 DEF VersionsCutTheTable
<1>4. ASSUME NEW w \in Workers, SaveSignedRoot(w)
      PROVE  VersionsCutTheTable'
    <2>1. PICK row \in RootRow :
            /\ roots' = Append(roots, row) /\ entries' = entries
            /\ row.tree_version = Len(roots) + 1
            /\ row.tree_size = Len(entries)
        BY <1>4, SavedRootCoversTable
    <2>2. /\ DOMAIN roots' = 1 .. Len(roots) + 1
          /\ roots'[Len(roots) + 1] = row
          /\ \A i \in DOMAIN roots : roots'[i] = roots[i]
        BY <1>0, <2>1
    <2>3. \A i \in DOMAIN roots' : i \in DOMAIN roots \/ (i = Len(roots) + 1 /\ roots'[i] = row)
        BY <1>0, <2>2
    <2>4. ASSUME NEW k \in DOMAIN entries
          PROVE  entries[k].tree_version <= Len(roots) + 1 /\ k <= row.tree_size
        BY <1>0, <1>1, <2>1 DEF VersionsInv, EntryVersionsInv
    <2>5. QED
        BY <1>0, <2>1, <2>2, <2>3, <2>4 DEF VersionsCutTheTable
<1>5. QED
    BY <1>2, <1>3, <1>4, TableSteps

\* A refusal compares the whole table with the head: the head is behind.
LEMMA RefusalMeansBehind ==
    ASSUME IInv, SequentialInv, NEW w \in Workers, GetProofReturns(w), ~ ProofMatches(frame[w])
    PROVE  HeadBehind
<1>0. /\ entries \in Seq(EntryRow) /\ Len(entries) \in Nat
      /\ roots \in Seq(RootRow) /\ Len(roots) \in Nat /\ DOMAIN roots = 1 .. Len(roots)
    BY DEF IInv, Types
<1>1. PICK root : root = frame[w].signed
    OBVIOUS
<1>2. Persisted(root) /\ root # NoRoot
    <2>1. Persisted(root)
        BY <1>1 DEF GetProofReturns, IInv, WorkerInv
    <2>2. root.tree_version >= 1
        BY <2>1 DEF IInv, RowsInv, Persisted
    <2>3. QED
        BY <2>1, <2>2 DEF NoRoot
<1>3. /\ frame[w].listed = entries
      /\ roots # <<>> /\ root = roots[Len(roots)]
    BY <1>1, <1>2 DEF GetProofReturns, SequentialInv, AloneInv
<1>4. MerkleRoot(LeafHashes(entries)) # root.merkle_root
    BY <1>1, <1>3 DEF ProofMatches
<1>5. /\ root.tree_size \in 1 .. Len(entries)
      /\ root.merkle_root = MerkleRoot(LeafHashes(SubSeq(entries, 1, root.tree_size)))
    BY <1>2 DEF Persisted, IInv, RowsInv, SoundRoot, CommitsToPrefix
<1>6. root.tree_size # Len(entries)
    <2>1. SubSeq(entries, 1, Len(entries)) = entries
        BY <1>0
    <2>2. QED
        BY <1>4, <1>5, <2>1
<1>7. QED
    BY <1>0, <1>3, <1>5, <1>6 DEF HeadBehind

\* The step of the only worker.
LEMMA StepAlone ==
    ASSUME IInv, VersionsInv, SequentialInv, Types', NEW w \in Workers,
           Request(w) \/ Step(w) \/ RequestRaises(w)
    PROVE  AloneInv(w)'
<1>0. /\ Types /\ WorkerInv(w) /\ AloneInv(w) /\ frame[w] \in FrameRow
      /\ entries \in Seq(EntryRow) /\ Len(entries) \in Nat
      /\ roots \in Seq(RootRow) /\ Len(roots) \in Nat
      /\ frame \in [Workers -> FrameRow] /\ pc \in [Workers -> Locations]
      /\ resp = [v \in Workers |-> resp[v]]
      /\ NoResponse.status = "none"
    BY DEF IInv, SequentialInv, Types, NoResponse
<1>1. /\ LatestTreeVersion = Len(roots)
      /\ roots # <<>> => LatestRoot = roots[Len(roots)]
    BY <1>0, HeadIsLast DEF SequentialInv
<1>2. ASSUME NEW a \in Assertions, AddEntry(w, a)
      PROVE  AloneInv(w)'
    <2>1. PICK n \in Nat : n = LatestTreeVersion + 1 /\ n = Len(roots) + 1
        BY <1>0, <1>1
    <2>2. PICK f : f = [IdleFrame EXCEPT !.op = "add", !.assertion = a, !.version = n]
        OBVIOUS
    <2>3. pc'[w] = "insert" /\ frame'[w] = f
        BY <1>0, <1>2, <2>1, <2>2, MovedWorker DEF AddEntry
    <2>4. f.op = "add" /\ f.version = n
        BY <2>2 DEF IdleFrame
    <2>5. resp'[w] = NoResponse /\ roots' = roots
        BY <1>0, <1>2 DEF AddEntry, tables
    <2>6. QED
        BY <1>0, <2>1, <2>3, <2>4, <2>5 DEF AloneInv, Writing, Rebuilding
<1>3. ASSUME InsertEntry(w)
      PROVE  AloneInv(w)'
    <2>1. PICK f : f = [frame[w] EXCEPT !.entry_id = Len(entries) + 1]
        OBVIOUS
    <2>2. pc'[w] = "rebuild" /\ frame'[w] = f
        BY <1>0, <1>3, <2>1, MovedWorker DEF InsertEntry
    <2>3. f.version = frame[w].version /\ f.op = "add"
        BY <1>0, <1>3, <2>1 DEF FrameRow, AloneInv, InsertEntry
    <2>4. frame[w].version = Len(roots) + 1 /\ resp[w] = NoResponse
        BY <1>0, <1>3 DEF AloneInv, InsertEntry, Writing
    <2>5. roots' = roots /\ resp' = resp
        BY <1>3 DEF InsertEntry
    <2>6. QED
        BY <1>0, <2>2, <2>3, <2>4, <2>5 DEF AloneInv, Writing, Rebuilding
<1>4. ASSUME RebuildTree(w)
      PROVE  AloneInv(w)'
    <2>1. PICK s : s = LeafHashes(entries) /\ Len(s) = Len(entries)
        BY <1>0, LeafHashesType
    <2>2. PICK f : f = [frame[w] EXCEPT !.snapshot = s]
        OBVIOUS
    <2>3. pc'[w] = "keys" /\ frame'[w] = f
        BY <1>0, <1>4, <2>1, <2>2, MovedWorker DEF RebuildTree
    <2>4. /\ f.version = frame[w].version /\ f.op = frame[w].op /\ f.snapshot = s
          /\ f.listed = frame[w].listed /\ f.signed = NoRoot
        BY <1>0, <1>4, <2>2 DEF FrameRow, RebuildTree, WorkerInv
    <2>5. /\ frame[w].version = Len(roots) + 1 /\ resp[w] = NoResponse
          /\ frame[w].op = "proof" => frame[w].listed = entries
        BY <1>0, <1>4 DEF AloneInv, RebuildTree, Writing
    <2>6. roots' = roots /\ entries' = entries /\ resp' = resp
        BY <1>4 DEF RebuildTree, tables
    <2>7. QED
        BY <1>0, <2>1, <2>3, <2>4, <2>5, <2>6 DEF AloneInv, Writing, Rebuilding
<1>5. ASSUME CheckOperatorKeys(w) \/ GenerateOperatorKeys(w)
      PROVE  AloneInv(w)'
    <2>1. /\ frame' = frame /\ roots' = roots /\ entries' = entries /\ resp' = resp
          /\ pc[w] \in {"keys", "keygen"}
        BY <1>5 DEF CheckOperatorKeys, GenerateOperatorKeys, tables
    <2>2. /\ pc'[w] \in {"keygen", "sign", "return"}
          /\ pc'[w] = "return" => frame[w].signed # NoRoot
          /\ pc'[w] = "sign" => frame[w].signed = NoRoot
        BY <1>0, <1>5 DEF CheckOperatorKeys, GenerateOperatorKeys, Goto, AfterKeys
    <2>3. frame[w].signed # NoRoot => frame[w].op # "add"
        BY <1>0, <2>1 DEF WorkerInv
    <2>4. frame[w].signed = NoRoot => Rebuilding(w) /\ Writing(w)
        BY <2>1 DEF Rebuilding, Writing
    <2>5. Rebuilding(w)' \/ Writing(w)' => frame[w].signed = NoRoot
        BY <2>1, <2>2 DEF Rebuilding, Writing
    <2>6. resp[w] = NoResponse
        BY <1>0, <2>1 DEF AloneInv
    <2>7. QED
        BY <1>0, <2>1, <2>2, <2>3, <2>4, <2>5, <2>6 DEF AloneInv
<1>6. ASSUME SignRoot(w)
      PROVE  AloneInv(w)'
    <2>1. PICK f : f = [frame[w] EXCEPT !.key = operatorKey]
        OBVIOUS
    <2>2. pc'[w] = "save" /\ frame'[w] = f
        BY <1>0, <1>6, <2>1, MovedWorker DEF SignRoot
    <2>3. /\ f.version = frame[w].version /\ f.op = frame[w].op /\ f.snapshot = frame[w].snapshot
          /\ f.listed = frame[w].listed /\ f.signed = frame[w].signed
        BY <1>0, <2>1 DEF FrameRow
    <2>4. Rebuilding(w) /\ Writing(w)
        BY <1>0, <1>6 DEF SignRoot, WorkerInv, Rebuilding, Writing
    <2>5. /\ frame[w].version = Len(roots) + 1 /\ resp[w] = NoResponse
          /\ Len(frame[w].snapshot) = Len(entries)
          /\ frame[w].op = "proof" => frame[w].listed = entries
        BY <1>0, <1>6, <2>4 DEF AloneInv, SignRoot
    <2>6. roots' = roots /\ entries' = entries /\ resp' = resp
        BY <1>6 DEF SignRoot, tables
    <2>7. QED
        BY <1>0, <2>2, <2>3, <2>5, <2>6 DEF AloneInv, Writing, Rebuilding
<1>7. ASSUME SaveSignedRoot(w)
      PROVE  AloneInv(w)'
    <2>1. PICK row \in RootRow :
            /\ row = SignedRoot(frame[w])
            /\ roots' = Append(roots, row) /\ entries' = entries
            /\ row.tree_version = Len(roots) + 1
            /\ row.tree_size = Len(entries)
        BY <1>7, SavedRootCoversTable
    <2>2. PICK f : f = [frame[w] EXCEPT !.signed = row]
        OBVIOUS
    <2>3. pc'[w] = "return" /\ frame'[w] = f /\ resp' = resp
        BY <1>0, <1>7, <2>1, <2>2, MovedWorker DEF SaveSignedRoot
    <2>4. f.op = frame[w].op /\ f.listed = frame[w].listed /\ f.signed = row
        BY <1>0, <2>2 DEF FrameRow
    <2>5. /\ resp[w] = NoResponse
          /\ frame[w].op = "proof" => frame[w].listed = entries
        BY <1>0, <1>7 DEF AloneInv, SaveSignedRoot
    <2>6. roots' # <<>> /\ Len(roots') = Len(roots) + 1 /\ roots'[Len(roots')] = row
        <3>1. PICK m \in Nat : m = Len(roots) /\ roots \in Seq(RootRow)
            BY <1>0
        <3>2. roots' = Append(roots, row)
            BY <2>1
        <3>3. Len(roots') = m + 1 /\ roots'[m + 1] = row
            BY <3>1, <3>2
        <3>4. QED
            BY <3>1, <3>3
    <2>7. HeadComplete'
        BY <2>1, <2>6 DEF HeadComplete
    <2>8. QED
        BY <1>0, <2>1, <2>3, <2>4, <2>5, <2>6, <2>7 DEF AloneInv, Writing, Rebuilding
<1>8. ASSUME GetRoot(w)
      PROVE  AloneInv(w)'
    <2>1. PICK f : f = [frame[w] EXCEPT !.op = "root"]
        OBVIOUS
    <2>2. pc'[w] = "latest" /\ frame'[w] = f
        BY <1>0, <1>8, <2>1, MovedWorker DEF GetRoot
    <2>3. f.op = "root" /\ resp'[w] = NoResponse
        BY <1>0, <1>8, <2>1 DEF GetRoot, FrameRow
    <2>4. QED
        BY <1>0, <2>2, <2>3 DEF AloneInv, Writing, Rebuilding
<1>9. ASSUME ReadLatestRoot(w)
      PROVE  AloneInv(w)'
    <2>1. PICK r : r = LatestRoot /\ r = roots[Len(roots)] /\ roots # <<>>
        BY <1>1, <1>9 DEF ReadLatestRoot
    <2>2. PICK f : f = [frame[w] EXCEPT !.signed = r]
        OBVIOUS
    <2>3. pc'[w] = "keys" /\ frame'[w] = f
        BY <1>0, <1>9, <2>1, <2>2, MovedWorker DEF ReadLatestRoot
    <2>4. f.signed = r /\ f.op = frame[w].op /\ f.listed = frame[w].listed
        BY <1>0, <2>2 DEF FrameRow
    <2>5. r # NoRoot
        <3>1. Len(roots) \in DOMAIN roots
            BY <1>0, <2>1
        <3>2. r.tree_version >= 1
            BY <2>1, <3>1 DEF IInv, RowsInv
        <3>3. QED
            BY <3>2 DEF NoRoot
    <2>6. /\ resp[w] = NoResponse
          /\ frame[w].op = "proof" => frame[w].listed = entries
        BY <1>0, <1>9 DEF AloneInv, ReadLatestRoot
    <2>7. roots' = roots /\ entries' = entries /\ resp' = resp
        BY <1>9 DEF ReadLatestRoot, tables
    <2>8. QED
        BY <1>0, <2>1, <2>3, <2>4, <2>5, <2>6, <2>7 DEF AloneInv, Writing, Rebuilding
<1>10. ASSUME NoLatestRoot(w)
       PROVE  AloneInv(w)'
    <2>1. PICK f : f = [frame[w] EXCEPT !.version = 1]
        OBVIOUS
    <2>2. pc'[w] = "rebuild" /\ frame'[w] = f
        BY <1>0, <1>10, <2>1, MovedWorker DEF NoLatestRoot
    <2>3. f.version = 1 /\ f.op = frame[w].op /\ f.listed = frame[w].listed
        BY <1>0, <2>1 DEF FrameRow
    <2>4. Len(roots) = 0
        BY <1>10 DEF NoLatestRoot
    <2>5. /\ resp[w] = NoResponse
          /\ frame[w].op = "proof" => frame[w].listed = entries
        BY <1>0, <1>10 DEF AloneInv, NoLatestRoot
    <2>6. roots' = roots /\ entries' = entries /\ resp' = resp
        BY <1>10 DEF NoLatestRoot, tables
    <2>7. QED
        BY <1>0, <2>2, <2>3, <2>4, <2>5, <2>6 DEF AloneInv, Writing, Rebuilding
<1>11. ASSUME NEW id \in Identities, GetProof(w, id)
       PROVE  AloneInv(w)'
    <2>1. PICK f : f = [frame[w] EXCEPT !.op = "proof", !.identity = id, !.listed = entries]
        OBVIOUS
    <2>2. pc'[w] = "latest" /\ frame'[w] = f /\ resp'[w] = NoResponse
        BY <1>0, <1>11, <2>1 DEF GetProof, Goto
    <2>3. f.op = "proof" /\ f.listed = entries
        BY <1>0, <2>1 DEF FrameRow
    <2>4. entries' = entries
        BY <1>11 DEF GetProof, tables
    <2>5. QED
        BY <1>0, <2>2, <2>3, <2>4 DEF AloneInv, Writing, Rebuilding
<1>12. ASSUME NEW r, Finish(w, r), UNCHANGED tables,
              r.status = "added" => HeadComplete,
              r.status = "inconsistent" => HeadBehind
       PROVE  AloneInv(w)'
    <2>1. pc'[w] = "idle" /\ resp'[w] = r
        BY <1>0, <1>12 DEF Finish, Goto
    <2>2. (HeadComplete => HeadComplete') /\ (HeadBehind => HeadBehind')
        BY <1>12 DEF tables, HeadComplete, HeadBehind
    <2>3. QED
        BY <1>12, <2>1, <2>2 DEF AloneInv, Writing, Rebuilding
<1>13. CASE RebuildEmpty(w) \/ RequestRaises(w) \/ \E id \in Identities : GetProofUnknown(w, id)
    <2>1. Error.status = "error"
        BY DEF Error
    <2>2. Finish(w, Error) /\ UNCHANGED tables
        BY <1>13 DEF RebuildEmpty, RequestRaises, GetProofUnknown
    <2>3. QED
        BY <1>12, <2>1, <2>2
<1>14. CASE AddEntryReturns(w)
    <2> DEFINE r == [status |-> "added", entry_id |-> frame[w].entry_id,
                     tree_version |-> frame[w].version]
    <2>1. r.status = "added" /\ Finish(w, r) /\ UNCHANGED tables
        BY <1>14 DEF AddEntryReturns
    <2>2. HeadComplete
        BY <1>0, <1>14 DEF AddEntryReturns, AloneInv
    <2> HIDE DEF r
    <2>3. QED
        BY <1>12, <2>1, <2>2
<1>15. CASE GetRootReturns(w)
    <2> DEFINE r == [status |-> "root", root |-> frame[w].signed]
    <2>1. r.status = "root" /\ Finish(w, r) /\ UNCHANGED tables
        BY <1>15 DEF GetRootReturns
    <2> HIDE DEF r
    <2>2. QED
        BY <1>12, <2>1
<1>16. CASE GetProofReturns(w)
    <2>1. PICK r : r = IF ProofMatches(frame[w]) THEN ProofResponse(frame[w])
                       ELSE [status |-> "inconsistent"]
        OBVIOUS
    <2>2. Finish(w, r) /\ UNCHANGED tables
        BY <1>16, <2>1 DEF GetProofReturns
    <2>3. CASE ProofMatches(frame[w])
        <3>1. r.status = "proof"
            BY <2>1, <2>3 DEF ProofResponse
        <3>2. QED
            BY <1>12, <2>2, <3>1
    <2>4. CASE ~ ProofMatches(frame[w])
        <3>1. r.status = "inconsistent"
            BY <2>1, <2>4
        <3>2. HeadBehind
            BY <1>16, <2>4, RefusalMeansBehind
        <3>3. QED
            BY <1>12, <2>2, <3>1, <3>2
    <2>5. QED
        BY <2>3, <2>4
<1>17. QED
    BY <1>2, <1>3, <1>4, <1>5, <1>6, <1>7, <1>8, <1>9, <1>10, <1>11, <1>13, <1>14, <1>15, <1>16
       DEF Request, Step

\* Every step of a registry with one worker keeps its invariant.
LEMMA StepSequential ==
    ASSUME OneWorker, IInv, VersionsInv, SequentialInv, Types', [Next]_vars
    PROVE  SequentialInv'
<1>1. VersionsCutTheTable'
    BY StepCuts
<1>2. ASSUME NEW v \in Workers
      PROVE  AloneInv(v)'
    <2>1. ASSUME NEW w \in Workers, Request(w) \/ Step(w) \/ RequestRaises(w)
          PROVE  AloneInv(v)'
        <3>1. v = w
            BY DEF OneWorker
        <3>2. QED
            BY <2>1, <3>1, StepAlone
    <2>2. CASE Restart
        <3>1. pc'[v] = "idle" /\ resp'[v] = NoResponse /\ NoResponse.status = "none"
            BY <2>2 DEF Restart, NoResponse
        <3>2. QED
            BY <3>1 DEF AloneInv, Writing, Rebuilding
    <2>3. CASE UNCHANGED vars
        <3>1. AloneInv(v)
            BY DEF SequentialInv
        <3>2. QED
            BY <2>3, <3>1 DEF vars, tables, AloneInv, Writing, Rebuilding, HeadComplete, HeadBehind
    <2>4. QED
        BY <2>1, <2>2, <2>3 DEF Next
<1>3. QED
    BY <1>1, <1>2 DEF SequentialInv

\* The empty registry is cut into no versions.
LEMMA InitSequential == Init => SequentialInv
<1> SUFFICES ASSUME Init
             PROVE  SequentialInv
    OBVIOUS
<1>1. \A w \in Workers : pc[w] = "idle" /\ resp[w] = NoResponse /\ NoResponse.status = "none"
    BY DEF Init, NoResponse
<1>2. \A w \in Workers : AloneInv(w)
    BY <1>1 DEF AloneInv, Writing, Rebuilding
<1>3. QED
    BY <1>2 DEF Init, SequentialInv, VersionsCutTheTable

\* The invariant of a registry that serves one request at a time.
LEMMA SequentialInvariant == ASSUME OneWorker PROVE Spec => []SequentialInv
<1>1. IInv /\ VersionsInv /\ SequentialInv /\ IInv' /\ [Next]_vars => SequentialInv'
    BY StepSequential DEF IInv
<1>2. QED
    BY <1>1, InitSequential, InvariantHolds, VersionsInvariant, PTL DEF Spec

\* With requests one at a time, an addition that add_entry acknowledges leaves a
\* head that covers every entry, those of earlier failed additions included.
THEOREM AcknowledgedHeadComplete ==
    ASSUME OneWorker PROVE Spec => []AcknowledgedHeadIsComplete
<1>1. IInv /\ SequentialInv => AcknowledgedHeadIsComplete
    BY HeadIsLast DEF IInv, SequentialInv, AloneInv, HeadComplete, AcknowledgedHeadIsComplete
<1>2. QED
    BY <1>1, InvariantHolds, SequentialInvariant, PTL

\* With requests one at a time, the defensive comparison of the inclusion-proof
\* handler refuses only while the head does not cover every entry.
THEOREM RefusalsExplained ==
    ASSUME OneWorker PROVE Spec => []RefusalsAreExplained
<1>1. IInv /\ SequentialInv => RefusalsAreExplained
    BY HeadIsLast DEF IInv, SequentialInv, AloneInv, HeadBehind, RefusalsAreExplained
<1>2. QED
    BY <1>1, InvariantHolds, SequentialInvariant, PTL

\* With requests one at a time, the head never goes back to fewer entries.
THEOREM HeadNeverShrinksHolds ==
    ASSUME OneWorker PROVE Spec => HeadNeverShrinks
<1>1. ASSUME IInv, SequentialInv, Types', SequentialInv', [Next]_vars
      PROVE  [LatestRoot'.tree_size >= LatestRoot.tree_size]_tables
    <2>0. /\ Types /\ VersionsCutTheTable
          /\ roots \in Seq(RootRow) /\ Len(roots) \in Nat /\ DOMAIN roots = 1 .. Len(roots)
          /\ Len(entries) \in Nat
        BY <1>1 DEF IInv, Types, SequentialInv
    <2>1. roots # <<>> => LatestRoot = roots[Len(roots)]
        BY <2>0, HeadIsLast
    <2>2. roots' # <<>> => LatestRoot' = roots'[Len(roots')]
        <3>1. (Types /\ VersionsCutTheTable => (roots # <<>> => LatestRoot = roots[Len(roots)]))'
            BY HeadIsLast, PTL
        <3>2. QED
            BY <1>1, <3>1 DEF SequentialInv
    <2>3. LatestRoot.tree_size \in 0 .. Len(entries)
        <3>1. CASE roots = <<>>
            BY <2>0, <3>1 DEF LatestRoot, NoRoot
        <3>2. CASE roots # <<>>
            <4>1. Len(roots) \in DOMAIN roots
                BY <2>0, <3>2
            <4>2. roots[Len(roots)].tree_size \in 1 .. Len(entries)
                BY <1>1, <4>1 DEF IInv, RowsInv, SoundRoot, CommitsToPrefix
            <4>3. QED
                BY <2>0, <2>1, <3>2, <4>2
        <3>3. QED
            BY <3>1, <3>2
    <2>4. CASE roots' = roots
        <3>1. LatestRoot' = LatestRoot
            BY <2>4 DEF LatestRoot, IsLatest
        <3>2. QED
            BY <2>0, <2>3, <3>1
    <2>5. ASSUME NEW w \in Workers, SaveSignedRoot(w)
          PROVE  LatestRoot'.tree_size >= LatestRoot.tree_size
        <3>1. PICK row \in RootRow : /\ roots' = Append(roots, row)
                                     /\ row.tree_size = Len(entries)
            BY <1>1, <2>5, SavedRootCoversTable
        <3>2. roots' # <<>> /\ roots'[Len(roots')] = row
            BY <2>0, <3>1
        <3>3. QED
            BY <2>0, <2>2, <2>3, <3>1, <3>2
    <2>6. roots' = roots \/ \E w \in Workers : SaveSignedRoot(w)
        BY <1>1, TableSteps DEF tables, InsertEntry
    <2>7. QED
        BY <2>4, <2>5, <2>6
<1>2. IInv => Types
    BY DEF IInv
<1>3. QED
    BY <1>1, <1>2, InvariantHolds, SequentialInvariant, PTL DEF Spec, HeadNeverShrinks

-----------------------------------------------------------------------------
(* The entries up to a version: a fold over the table *)

\* One row of list_entries_up_to_version(v), and the rows kept along the table.
KeepOp(v, rows, e) == IF e.tree_version <= v THEN Append(rows, e) ELSE rows

Kept == INSTANCE SequenceFolds WITH op <- KeepOp

IsKept(fold, v) ==
    /\ fold[0] = <<>>
    /\ \A k \in 1 .. Len(entries) : fold[k] = KeepOp(v, fold[k - 1], entries[k])
    /\ EntriesUpToVersion(v) = fold[Len(entries)]

\* There are such rows for every version.
LEMMA KeptAlong ==
    ASSUME Types, NEW v
    PROVE  \E fold : IsKept(fold, v)
<1>1. EntriesUpToVersion(v) = Kept!Fold(v, <<>>, entries)
    BY DEF EntriesUpToVersion, KeepOp, FoldLeft, MapThenFoldSet, Max,
           Kept!Fold, Kept!FoldLeft, Kept!MapThenFoldSet, Kept!Max
<1>2. DOMAIN entries = 1 .. Len(entries) /\ Len(entries) \in Nat
    BY DEF Types
<1>3. QED
    BY <1>1, <1>2, Kept!FoldEquation DEF KeepOp, IsKept

\* Some entries are entries.
LEMMA EntriesUpToVersionType ==
    ASSUME Types, NEW v
    PROVE  EntriesUpToVersion(v) \in Seq(EntryRow)
<1>1. PICK fold : IsKept(fold, v)
    BY KeptAlong
<1>2. PICK n \in Nat : n = Len(entries) /\ \A k \in 1 .. n : entries[k] \in EntryRow
    BY DEF Types
<1> DEFINE S == {k \in Nat : k <= n => fold[k] \in Seq(EntryRow)}
<1>3. 0 \in S
    <2>1. <<>> \in Seq(EntryRow)
        OBVIOUS
    <2>2. fold[0] \in Seq(EntryRow)
        BY <1>1, <2>1 DEF IsKept
    <2>3. QED
        BY <2>2
<1>4. ASSUME NEW k \in Nat, k \in S
      PROVE  k + 1 \in S
    <2>1. ASSUME k + 1 <= n
          PROVE  fold[k + 1] \in Seq(EntryRow)
        <3>1. k + 1 \in 1 .. n /\ (k + 1) - 1 = k
            BY <2>1
        <3>2. fold[k + 1] = KeepOp(v, fold[k], entries[k + 1])
            BY <1>1, <1>2, <3>1 DEF IsKept
        <3>3. fold[k] \in Seq(EntryRow) /\ entries[k + 1] \in EntryRow
            BY <1>2, <1>4, <2>1, <3>1
        <3>4. Append(fold[k], entries[k + 1]) \in Seq(EntryRow)
            BY <3>3
        <3>5. QED
            BY <3>2, <3>3, <3>4 DEF KeepOp
    <2>2. QED
        BY <2>1
<1>5. n \in S
    <2> HIDE DEF S
    <2>1. QED
        BY <1>3, <1>4, Kept!InductionOnNat
<1>6. QED
    BY <1>1, <1>2, <1>5 DEF IsKept

\* The next element makes a prefix one longer.
LEMMA LongerPrefix ==
    ASSUME NEW S, NEW s \in Seq(S), NEW k \in 0 .. Len(s) - 1
    PROVE  Append(SubSeq(s, 1, k), s[k + 1]) = SubSeq(s, 1, k + 1)
OBVIOUS

\* When the entries up to a version are the first n ones, that is what is listed.
LEMMA EntriesOfPrefix ==
    ASSUME Types, NEW v, NEW n \in 0 .. Len(entries),
           \A k \in 1 .. Len(entries) : entries[k].tree_version <= v <=> k <= n
    PROVE  EntriesUpToVersion(v) = SubSeq(entries, 1, n)
<1>1. PICK fold : IsKept(fold, v)
    BY KeptAlong
<1>2. entries \in Seq(EntryRow)
    BY DEF Types
<1>3. PICK m \in Nat : m = Len(entries)
    BY <1>2
<1> DEFINE Upto(k) == IF k <= n THEN k ELSE n
           S == {k \in Nat : k <= m => fold[k] = SubSeq(entries, 1, Upto(k))}
<1>4. 0 \in S
    <2>1. SubSeq(entries, 1, 0) = <<>>
        BY <1>2
    <2>2. Upto(0) = 0
        BY <1>3
    <2>3. QED
        BY <1>1, <2>1, <2>2 DEF IsKept
<1>5. ASSUME NEW k \in Nat, k \in S
      PROVE  k + 1 \in S
    <2>1. ASSUME k + 1 <= m
          PROVE  fold[k + 1] = SubSeq(entries, 1, Upto(k + 1))
        <3>1. k + 1 \in 1 .. m /\ (k + 1) - 1 = k
            BY <2>1
        <3>2. fold[k + 1] = KeepOp(v, fold[k], entries[k + 1])
            BY <1>1, <1>3, <3>1 DEF IsKept
        <3>3. fold[k] = SubSeq(entries, 1, Upto(k))
            BY <1>5, <2>1
        <3>4. CASE k + 1 <= n
            <4>1. Upto(k) = k /\ Upto(k + 1) = k + 1 /\ k \in 0 .. Len(entries) - 1
                BY <1>3, <2>1, <3>4
            <4>2. entries[k + 1].tree_version <= v
                BY <1>3, <3>1, <3>4
            <4>3. QED
                BY <1>2, <3>2, <3>3, <4>1, <4>2, LongerPrefix DEF KeepOp
        <3>5. CASE ~ (k + 1 <= n)
            <4>1. Upto(k) = n /\ Upto(k + 1) = n
                BY <1>3, <3>5
            <4>2. ~ (entries[k + 1].tree_version <= v)
                BY <1>3, <3>1, <3>5
            <4>3. QED
                BY <3>2, <3>3, <4>1, <4>2 DEF KeepOp
        <3>6. QED
            BY <3>4, <3>5
    <2>2. QED
        BY <2>1
<1>6. m \in S
    <2> HIDE DEF S
    <2>1. QED
        BY <1>3, <1>4, <1>5, Kept!InductionOnNat
<1>7. Upto(m) = n
    BY <1>3
<1>8. QED
    BY <1>1, <1>3, <1>6, <1>7 DEF IsKept

\* What a published version is made of, when requests come one at a time.
LEMMA PublishedVersion ==
    ASSUME IInv, SequentialInv, NEW v \in 1 .. Len(roots)
    PROVE  /\ RootByVersion(v) = roots[v]
           /\ roots[v].tree_size \in 1 .. Len(entries)
           /\ EntriesUpToVersion(v) = SubSeq(entries, 1, roots[v].tree_size)
<1>0. /\ Types /\ VersionsCutTheTable
      /\ Len(roots) \in Nat /\ DOMAIN roots = 1 .. Len(roots)
      /\ Len(entries) \in Nat /\ DOMAIN entries = 1 .. Len(entries)
    BY DEF IInv, Types, SequentialInv
<1>1. HasVersion(v) /\ v \in Nat
    BY <1>0 DEF HasVersion, VersionsCutTheTable
<1>2. PICK i \in DOMAIN roots : RootByVersion(v) = roots[i] /\ roots[i].tree_version = v
    BY <1>0, <1>1, RootOfVersion
<1>3. i = v
    BY <1>0, <1>2 DEF VersionsCutTheTable
<1>4. PICK n \in 1 .. Len(entries) : n = roots[v].tree_size /\ n \in 0 .. Len(entries)
    <2>1. roots[v].tree_size \in 1 .. Len(entries)
        BY <1>0 DEF IInv, RowsInv, SoundRoot, CommitsToPrefix
    <2>2. QED
        BY <1>0, <2>1
<1>5. \A k \in 1 .. Len(entries) : entries[k].tree_version <= v <=> k <= n
    BY <1>0, <1>4 DEF VersionsCutTheTable
<1>6. EntriesUpToVersion(v) = SubSeq(entries, 1, n)
    BY <1>0, <1>4, <1>5, EntriesOfPrefix
<1>7. QED
    BY <1>2, <1>3, <1>4, <1>6

\* With requests one at a time, the entries up to any published version are those
\* its signed root is of: what get_consistency_proof_between_versions relies on.
\* An entry left without its root by a failure does not break it, although the
\* next entry takes the same version.
THEOREM VersionsReconstructHolds ==
    ASSUME OneWorker PROVE Spec => []VersionsReconstruct
<1>1. ASSUME IInv, SequentialInv
      PROVE  VersionsReconstruct
    <2>0. Types /\ VersionsCutTheTable /\ Len(roots) \in Nat /\ DOMAIN roots = 1 .. Len(roots)
        BY <1>1 DEF IInv, Types, SequentialInv
    <2>1. LatestTreeVersion = Len(roots)
        BY <2>0, HeadIsLast
    <2>2. ASSUME NEW v \in 1 .. Len(roots)
          PROVE  MerkleRoot(LeafHashes(EntriesUpToVersion(v))) = RootByVersion(v).merkle_root
        <3>1. /\ RootByVersion(v) = roots[v]
              /\ EntriesUpToVersion(v) = SubSeq(entries, 1, roots[v].tree_size)
            BY <1>1, PublishedVersion
        <3>2. roots[v].merkle_root
              = MerkleRoot(LeafHashes(SubSeq(entries, 1, roots[v].tree_size)))
            BY <1>1, <2>0 DEF IInv, RowsInv, SoundRoot, CommitsToPrefix
        <3>3. QED
            BY <3>1, <3>2
    <2>3. QED
        BY <2>1, <2>2 DEF VersionsReconstruct
<1>2. QED
    BY <1>1, InvariantHolds, SequentialInvariant, PTL

-----------------------------------------------------------------------------
(***************************************************************************)
(* Consistency proofs, for any number of readers beside the workers of the *)
(* registry: those that are returned verify, and a registry with one       *)
(* worker never refuses one.                                               *)
(***************************************************************************)

(* The registry beside the readers *)

RegistryInv == IInv /\ VersionsInv /\ (OneWorker => SequentialInv)

\* A reader that fails counts as a failed request; the registry is as it was.
LEMMA RaisingKeepsRegistry ==
    ASSUME RegistryInv, NEW r \in Readers, ReaderRaises(r)
    PROVE  RegistryInv' /\ TablesGrow
<1>0. /\ UNCHANGED <<entries, roots, operatorKey, keysMade, pc, frame, resp, restarts>>
      /\ failures' = failures + 1 /\ failures < MaxFailures
    BY DEF ReaderRaises, tables, keys
<1>1. Types /\ failures \in 0 .. MaxFailures /\ MaxFailures \in Nat
    BY RegistryAssumption DEF RegistryInv, IInv, Types
<1>2. failures' \in 0 .. MaxFailures
    BY <1>0, <1>1
<1>3. Types'
    BY <1>0, <1>1, <1>2 DEF Types, HasLatest, IsLatest, InsertReady
<1>4. RowsInv'
    BY <1>0 DEF RegistryInv, IInv, RowsInv, SoundRoot, CommitsToPrefix
<1>5. \A w \in Workers : WorkerInv(w)' /\ ResponseInv(w)'
    <2>1. ASSUME NEW w \in Workers
          PROVE  WorkerInv(w)' /\ ResponseInv(w)'
        <3>1. WorkerInv(w) /\ ResponseInv(w)
            BY DEF RegistryInv, IInv
        <3>2. Rebuilding(w)' <=> Rebuilding(w)
            BY <1>0 DEF Rebuilding
        <3>3. SnapshotInv(w) => SnapshotInv(w)'
            BY <1>0 DEF SnapshotInv
        <3>4. QED
            BY <1>0, <3>1, <3>2, <3>3 DEF WorkerInv, ResponseInv, Persisted, Covered
    <2>2. QED
        BY <2>1
<1>6. LatestTreeVersion' = LatestTreeVersion
    BY <1>0 DEF LatestTreeVersion, LatestRoot, IsLatest
<1>7. VersionsInv'
    BY <1>0, <1>6 DEF RegistryInv, VersionsInv, HasVersion, EntryVersionsInv, NotFarAhead,
                      Writing, Rebuilding
<1>8. SequentialInv => SequentialInv'
    <2>1. VersionsCutTheTable => VersionsCutTheTable'
        BY <1>0 DEF VersionsCutTheTable
    <2>2. ASSUME NEW w \in Workers, AloneInv(w)
          PROVE  AloneInv(w)'
        BY <1>0, <2>2 DEF AloneInv, Writing, Rebuilding, HeadComplete, HeadBehind
    <2>3. QED
        BY <2>1, <2>2 DEF SequentialInv
<1>9. TablesGrow
    <2>1. Len(entries) \in Nat /\ Len(roots) \in Nat
        BY <1>1 DEF Types
    <2>2. QED
        BY <1>0, <2>1 DEF TablesGrow
<1>10. QED
    BY <1>3, <1>4, <1>5, <1>7, <1>8, <1>9 DEF RegistryInv, IInv

\* Every other step is one of the registry, or leaves it alone.
LEMMA RegistryStep ==
    ASSUME RegistryInv, [CNext]_<<vars, rvars>>
    PROVE  RegistryInv' /\ TablesGrow
<1>1. CASE [Next]_vars
    <2>1. IInv' /\ Types' /\ TablesGrow
        BY <1>1, StepInv, StepGrows DEF RegistryInv, IInv
    <2>2. VersionsInv'
        BY <1>1, <2>1, StepVersions DEF RegistryInv
    <2>3. OneWorker => SequentialInv'
        BY <1>1, <2>1, StepSequential DEF RegistryInv
    <2>4. QED
        BY <2>1, <2>2, <2>3 DEF RegistryInv
<1>2. ASSUME NEW r \in Readers, ReaderRaises(r)
      PROVE  RegistryInv' /\ TablesGrow
    BY <1>2, RaisingKeepsRegistry, Zenon
<1>3. [Next]_vars \/ \E r \in Readers : ReaderRaises(r)
    BY Zenon DEF CNext, Next, ReaderNext, RejectVersions, RequestConsistency, ReadNewRoot,
           ReadOldLeaves, ReadNewLeaves, Continue, Answer
<1>4. QED
    BY <1>1, <1>2, <1>3

-----------------------------------------------------------------------------
(* The types of the readers' variables *)

ReaderRow == [old_version : Nat, new_version : Nat, old_root : RootRow, new_root : RootRow,
              old_leaves : Seq(LeafHash)]

ReaderTypes ==
    /\ rpc \in [Readers -> {"idle", "newroot", "oldleaves", "newleaves"}]
    /\ rframe \in [Readers -> ReaderRow]
    /\ rresp = [r \in Readers |-> rresp[r]]
    /\ \A r \in Readers : rresp[r].status \in {"none", "error", "consistent", "inconsistent"}

\* What get_root_by_version finds: the null root, or a persisted row of that version.
LEMMA RootByVersionCases ==
    ASSUME Types, NEW v \in Nat
    PROVE  /\ RootByVersion(v) \in RootRow
           /\ \/ RootByVersion(v) = NoRoot
              \/ Persisted(RootByVersion(v)) /\ RootByVersion(v).tree_version = v
<1>1. CASE HasVersion(v)
    <2>1. PICK i \in DOMAIN roots : RootByVersion(v) = roots[i] /\ roots[i].tree_version = v
        BY <1>1, RootOfVersion
    <2>2. roots[i] \in RootRow
        BY DEF Types
    <2>3. QED
        BY <2>1, <2>2 DEF Persisted
<1>2. CASE ~ HasVersion(v)
    <2>1. RootByVersion(v) = NoRoot
        BY <1>2 DEF RootByVersion, HasVersion
    <2>2. QED
        BY <2>1, NullRecords
<1>3. QED
    BY <1>1, <1>2

\* The leaves a reader lists.
LEMMA ListedLeaves ==
    ASSUME Types, NEW v
    PROVE  LeafHashes(EntriesUpToVersion(v)) \in Seq(LeafHash)
BY EntriesUpToVersionType, LeafHashesType

\* What a reader assigns to its locals.
LEMMA ReaderEdits ==
    /\ NoRoot \in RootRow /\ IdleReader \in ReaderRow
    /\ \A old, new \in Nat, q \in RootRow :
          LET f == [IdleReader EXCEPT !.old_version = old, !.new_version = new, !.old_root = q]
          IN  f \in ReaderRow /\ f.old_version = old /\ f.new_version = new /\ f.old_root = q
    /\ \A f \in ReaderRow, q \in RootRow :
          LET g == [f EXCEPT !.new_root = q]
          IN  /\ g \in ReaderRow /\ g.new_root = q
              /\ g.old_version = f.old_version /\ g.new_version = f.new_version
              /\ g.old_root = f.old_root
    /\ \A f \in ReaderRow, s \in Seq(LeafHash) :
          LET g == [f EXCEPT !.old_leaves = s]
          IN  /\ g \in ReaderRow /\ g.old_leaves = s
              /\ g.old_version = f.old_version /\ g.new_version = f.new_version
              /\ g.old_root = f.old_root /\ g.new_root = f.new_root
<1>1. NoRoot \in RootRow
    BY NullRecords
<1>2. <<>> \in Seq(LeafHash)
    OBVIOUS
<1>3. IdleReader \in ReaderRow
    BY <1>1, <1>2 DEF IdleReader, ReaderRow
<1>4. QED
    BY <1>1, <1>3 DEF ReaderRow

-----------------------------------------------------------------------------
(***************************************************************************)
(* The invariant of the readers. A reader remembers two roots and a list   *)
(* of leaves while the workers go on: the roots stay persisted, with the   *)
(* versions asked for. Beside a single worker the leaves it remembers are  *)
(* still those of the prefix that the old root is of.                      *)
(***************************************************************************)

\* A row of signed_roots with the version asked for.
Published(root, version) == Persisted(root) /\ root.tree_version = version

\* Some signed root of this version has this hash.
SignedAs(version, hash) ==
    \E i \in DOMAIN roots : roots[i].tree_version = version /\ roots[i].merkle_root = hash

\* A consistency proof that verifies, between signed roots of its versions.
ConsistentAnswer(a) ==
    /\ VerifyConsistencyProof(a.proof)
    /\ SignedAs(a.old_version, a.proof.old_root_hash)
    /\ SignedAs(a.new_version, a.proof.new_root_hash)

\* A reader with the locals f and the answer a, beside any workers.
RightReader(location, f, a) ==
    /\ location = "newroot" => f.old_root = NoRoot \/ Published(f.old_root, f.old_version)
    /\ location \in {"oldleaves", "newleaves"} =>
          Published(f.old_root, f.old_version) /\ Published(f.new_root, f.new_version)
    /\ a.status = "consistent" => ConsistentAnswer(a)

\* The same beside a single worker.
RightReaderAlone(location, f, a) ==
    /\ location # "idle" => f.old_version < f.new_version
    /\ location = "newleaves" =>
          f.old_leaves = LeafHashes(SubSeq(entries, 1, f.old_root.tree_size))
    /\ a.status # "inconsistent"

ReaderInv(r) == RightReader(rpc[r], rframe[r], rresp[r])

AloneReaderInv(r) == RightReaderAlone(rpc[r], rframe[r], rresp[r])

ReadersInv ==
    /\ ReaderTypes
    /\ \A r \in Readers : ReaderInv(r)
    /\ OneWorker => \A r \in Readers : AloneReaderInv(r)

CInv == RegistryInv /\ ReadersInv

\* What was published stays so.
LEMMA PublishedStays ==
    ASSUME Types, Types', TablesGrow
    PROVE  /\ \A root, v : Published(root, v) => Published(root, v)'
           /\ \A v, h : SignedAs(v, h) => SignedAs(v, h)'
           /\ \A a : ConsistentAnswer(a) => ConsistentAnswer(a)'
<1>1. ASSUME NEW root, NEW v, Published(root, v)
      PROVE  Published(root, v)'
    <2>1. \E i \in DOMAIN roots' : roots'[i] = root
        BY <1>1, PersistedStays DEF Published
    <2>2. QED
        BY <1>1, <2>1 DEF Published, Persisted
<1>2. ASSUME NEW v, NEW h, SignedAs(v, h)
      PROVE  SignedAs(v, h)'
    <2>1. PICK i \in DOMAIN roots : roots[i].tree_version = v /\ roots[i].merkle_root = h
        BY <1>2 DEF SignedAs
    <2>2. i \in DOMAIN roots' /\ roots'[i] = roots[i]
        BY RowsStay
    <2>3. QED
        BY <2>1, <2>2 DEF SignedAs
<1>3. QED
    BY <1>1, <1>2 DEF ConsistentAnswer

\* The prefix that a persisted root is of stays what it is.
LEMMA RootPrefixStays ==
    ASSUME IInv, Types', TablesGrow, NEW root, Persisted(root)
    PROVE  SubSeq(entries', 1, root.tree_size) = SubSeq(entries, 1, root.tree_size)
<1>1. SoundRoot(root) /\ Types /\ Len(entries) \in Nat
    BY DEF IInv, RowsInv, Persisted, Types
<1>2. root.tree_size \in 0 .. Len(entries)
    BY <1>1 DEF SoundRoot, CommitsToPrefix
<1>3. QED
    BY <1>1, <1>2, PrefixStays

\* A reader that does not move keeps its invariant while the tables grow.
LEMMA ReaderWaits ==
    ASSUME CInv, Types', TablesGrow, NEW r \in Readers,
           rpc'[r] = rpc[r], rframe'[r] = rframe[r], rresp'[r] = rresp[r]
    PROVE  ReaderInv(r)' /\ (OneWorker => AloneReaderInv(r)')
<1>0. IInv /\ Types /\ ReaderInv(r) /\ (OneWorker => AloneReaderInv(r))
    BY DEF CInv, RegistryInv, ReadersInv, IInv
<1>1. PICK f, a : f = rframe[r] /\ a = rresp[r]
    OBVIOUS
<1>2. /\ Published(f.old_root, f.old_version) => Published(f.old_root, f.old_version)'
      /\ Published(f.new_root, f.new_version) => Published(f.new_root, f.new_version)'
      /\ ConsistentAnswer(a) => ConsistentAnswer(a)'
    BY <1>0, PublishedStays
<1>3. ReaderInv(r)'
    <2>1. /\ rpc[r] = "newroot" => f.old_root = NoRoot \/ Published(f.old_root, f.old_version)'
          /\ rpc[r] \in {"oldleaves", "newleaves"} =>
                Published(f.old_root, f.old_version)' /\ Published(f.new_root, f.new_version)'
          /\ a.status = "consistent" => ConsistentAnswer(a)'
        BY <1>0, <1>1, <1>2 DEF ReaderInv, RightReader
    <2>2. QED
        BY <1>1, <2>1 DEF ReaderInv, RightReader, Published, Persisted, ConsistentAnswer, SignedAs
<1>4. ASSUME OneWorker
      PROVE  AloneReaderInv(r)'
    <2>1. rpc[r] = "newleaves" => Persisted(f.old_root)
        BY <1>0, <1>1 DEF ReaderInv, RightReader, Published
    <2>2. rpc[r] = "newleaves" => f.old_leaves = LeafHashes(SubSeq(entries', 1, f.old_root.tree_size))
        BY <1>0, <1>1, <1>4, <2>1, RootPrefixStays DEF AloneReaderInv, RightReaderAlone
    <2>3. QED
        BY <1>0, <1>1, <1>4, <2>2 DEF AloneReaderInv, RightReaderAlone
<1>5. QED
    BY <1>3, <1>4

\* Two prefixes of one list.
LEMMA PrefixesOfOne ==
    ASSUME NEW S, NEW s \in Seq(S), NEW n \in 1 .. Len(s), NEW m \in 1 .. n
    PROVE  IsPrefix(SubSeq(s, 1, m), SubSeq(s, 1, n)) /\ SubSeq(s, 1, m) # <<>>
BY DEF IsPrefix

\* Beside a single worker, what a reader finds of a published version.
LEMMA PublishedAlone ==
    ASSUME CInv, OneWorker, NEW root, NEW v \in Nat, Published(root, v)
    PROVE  /\ v \in 1 .. Len(roots) /\ root = roots[v]
           /\ root.tree_size \in 1 .. Len(entries)
           /\ root.merkle_root = MerkleRoot(LeafHashes(SubSeq(entries, 1, root.tree_size)))
           /\ EntriesUpToVersion(v) = SubSeq(entries, 1, root.tree_size)
<1>0. /\ IInv /\ SequentialInv /\ Len(roots) \in Nat /\ DOMAIN roots = 1 .. Len(roots)
    BY DEF CInv, RegistryInv, IInv, Types
<1>1. PICK i \in DOMAIN roots : roots[i] = root /\ root.tree_version = v
    BY DEF Published, Persisted
<1>2. i = v
    BY <1>0, <1>1 DEF SequentialInv, VersionsCutTheTable
<1>3. SoundRoot(root)
    BY <1>0, <1>1 DEF IInv, RowsInv
<1>4. QED
    BY <1>0, <1>1, <1>2, <1>3, PublishedVersion DEF SoundRoot, CommitsToPrefix

\* The versions are in the order of their sizes.
LEMMA SizesInOrder ==
    ASSUME CInv, OneWorker, NEW a \in 1 .. Len(roots), NEW b \in 1 .. Len(roots), a < b
    PROVE  roots[a].tree_size \in 1 .. roots[b].tree_size
<1>0. /\ IInv /\ VersionsCutTheTable
      /\ Len(roots) \in Nat /\ DOMAIN roots = 1 .. Len(roots)
      /\ entries \in Seq(EntryRow) /\ Len(entries) \in Nat /\ DOMAIN entries = 1 .. Len(entries)
    BY DEF CInv, RegistryInv, SequentialInv, IInv, Types
<1>1. PICK k \in 1 .. Len(entries) : k = roots[a].tree_size
    BY <1>0 DEF IInv, RowsInv, SoundRoot, CommitsToPrefix
<1>2. roots[b].tree_size \in 1 .. Len(entries)
    BY <1>0 DEF IInv, RowsInv, SoundRoot, CommitsToPrefix
<1>3. entries[k] \in EntryRow
    BY <1>0
<1>4. entries[k].tree_version \in Nat
    BY <1>3 DEF EntryRow
<1>5. entries[k].tree_version <= a
    BY <1>0, <1>1 DEF VersionsCutTheTable
<1>6. entries[k].tree_version <= b
    BY <1>0, <1>4, <1>5
<1>7. k <= roots[b].tree_size
    BY <1>0, <1>6 DEF VersionsCutTheTable
<1>8. QED
    BY <1>0, <1>1, <1>2, <1>7

\* The last read of a reader beside a single worker: nothing to refuse.
LEMMA NothingToRefuse ==
    ASSUME CInv, OneWorker, NEW r \in Readers, rpc[r] = "newleaves",
           NEW f, f = rframe[r], NEW s, s = LeafHashes(EntriesUpToVersion(f.new_version))
    PROVE  ReconstructionMatches(f, s) /\ ConsistencyProofExists(f.old_leaves, s)
<1>0. /\ ReaderInv(r) /\ AloneReaderInv(r) /\ f \in ReaderRow
      /\ entries \in Seq(EntryRow) /\ Len(entries) \in Nat
    BY DEF CInv, RegistryInv, ReadersInv, ReaderTypes, IInv, Types
<1>1. PICK old, new \in Nat : old = f.old_version /\ new = f.new_version /\ old < new
    BY <1>0 DEF AloneReaderInv, RightReaderAlone, ReaderRow
<1>2. Published(f.old_root, old) /\ Published(f.new_root, new)
    BY <1>0, <1>1 DEF ReaderInv, RightReader
<1>3. /\ old \in 1 .. Len(roots) /\ f.old_root = roots[old]
      /\ f.old_root.tree_size \in 1 .. Len(entries)
      /\ f.old_root.merkle_root = MerkleRoot(LeafHashes(SubSeq(entries, 1, f.old_root.tree_size)))
    BY <1>2, PublishedAlone
<1>4. /\ new \in 1 .. Len(roots) /\ f.new_root = roots[new]
      /\ f.new_root.tree_size \in 1 .. Len(entries)
      /\ f.new_root.merkle_root = MerkleRoot(LeafHashes(SubSeq(entries, 1, f.new_root.tree_size)))
      /\ EntriesUpToVersion(new) = SubSeq(entries, 1, f.new_root.tree_size)
    BY <1>2, PublishedAlone
<1>5. PICK n \in 1 .. Len(entries), m \in 1 .. Len(entries) :
        n = f.new_root.tree_size /\ m = f.old_root.tree_size
    BY <1>3, <1>4
<1>6. m \in 1 .. n
    BY <1>1, <1>3, <1>4, <1>5, SizesInOrder
<1>7. f.old_leaves = LeafHashes(SubSeq(entries, 1, m)) /\ s = LeafHashes(SubSeq(entries, 1, n))
    BY <1>0, <1>1, <1>4, <1>5 DEF AloneReaderInv, RightReaderAlone
<1>8. ReconstructionMatches(f, s)
    BY <1>3, <1>4, <1>5, <1>7 DEF ReconstructionMatches
<1>9. PICK all \in Seq(LeafHash) : all = LeafHashes(entries) /\ Len(all) = Len(entries)
    BY <1>0, LeafHashesType
<1>10. f.old_leaves = SubSeq(all, 1, m) /\ s = SubSeq(all, 1, n)
    <2>1. n \in 0 .. Len(entries) /\ m \in 0 .. Len(entries)
        BY <1>0
    <2>2. QED
        BY <1>0, <1>7, <1>9, <2>1, LeafHashesOfPrefix
<1>11. IsPrefix(f.old_leaves, s) /\ f.old_leaves # <<>>
    BY <1>5, <1>6, <1>9, <1>10, PrefixesOfOne
<1>12. s # <<>>
    <2>1. n \in 1 .. n
        BY <1>0
    <2>2. QED
        BY <1>9, <1>10, <2>1, PrefixesOfOne
<1>13. QED
    BY <1>8, <1>11, <1>12 DEF ConsistencyProofExists

\* What a reader answers is right: the proof verifies, because one exists, and its
\* two hashes are those of the roots it was compared with.
LEMMA ConsistentAnswerIsRight ==
    ASSUME CInv, NEW r \in Readers, rpc[r] = "newleaves", NEW f, f = rframe[r],
           NEW s \in Seq(LeafHash), ReconstructionMatches(f, s),
           ConsistencyProofExists(f.old_leaves, s),
           NEW a, a.old_version = f.old_version, a.new_version = f.new_version,
           a.proof = GenerateConsistencyProof(f.old_leaves, s)
    PROVE  ConsistentAnswer(a)
<1>1. ReaderInv(r) /\ f \in ReaderRow
    BY DEF CInv, ReadersInv, ReaderTypes
<1>2. f.old_leaves \in Seq(LeafHash)
    BY <1>1 DEF ReaderRow
<1>3. IsList(f.old_leaves) /\ IsList(s)
    BY <1>2, SeqIsList
<1>4. VerifyConsistencyProof(a.proof)
    BY <1>3, ConsistencyProofVerifies
<1>5. Published(f.old_root, f.old_version) /\ Published(f.new_root, f.new_version)
    BY <1>1 DEF ReaderInv, RightReader
<1>6. a.proof.old_root_hash = f.old_root.merkle_root /\ a.proof.new_root_hash = f.new_root.merkle_root
    BY DEF GenerateConsistencyProof, ReconstructionMatches
<1>7. QED
    BY <1>4, <1>5, <1>6 DEF ConsistentAnswer, SignedAs, Published, Persisted

-----------------------------------------------------------------------------
(* The steps of a reader *)

ReaderLocations == {"idle", "newroot", "oldleaves", "newleaves"}

Statuses == {"none", "error", "consistent", "inconsistent"}

\* Reader r gets to a location, remembers f, and its last answer is a.
Becomes(r, location, f, a) ==
    /\ rpc' = [rpc EXCEPT ![r] = location]
    /\ rframe' = [rframe EXCEPT ![r] = f]
    /\ rresp' = [rresp EXCEPT ![r] = a]

RightlyBecomes(r, location, f, a) ==
    /\ location \in ReaderLocations /\ f \in ReaderRow /\ a.status \in Statuses
    /\ Becomes(r, location, f, a)
    /\ RightReader(location, f, a)
    /\ OneWorker => RightReaderAlone(location, f, a)

\* A request ends with an answer that is no list of leaves, or none is made.
LEMMA AnswersError ==
    ASSUME NEW r \in Readers, Becomes(r, "idle", IdleReader, Error)
    PROVE  \E location, f, a : RightlyBecomes(r, location, f, a)
<1>1. Error.status = "error"
    BY DEF Error
<1>2. RightlyBecomes(r, "idle", IdleReader, Error)
    BY <1>1, ReaderEdits DEF RightlyBecomes, RightReader, RightReaderAlone,
                             ReaderLocations, Statuses
<1>3. QED
    BY <1>2

\* Every step of a reader makes it one whose invariant holds.
LEMMA ReaderActsRightly ==
    ASSUME CInv, NEW r \in Readers, ReaderNext(r)
    PROVE  \E location, f, a : RightlyBecomes(r, location, f, a)
<1>0. /\ IInv /\ Types /\ rframe[r] \in ReaderRow /\ rresp = [q \in Readers |-> rresp[q]]
      /\ rresp[r].status \in Statuses
      /\ ReaderInv(r) /\ (OneWorker => AloneReaderInv(r))
      /\ rframe[r].old_version \in Nat /\ rframe[r].new_version \in Nat
    BY DEF CInv, RegistryInv, ReadersInv, ReaderTypes, ReaderRow, IInv, Statuses
<1>1. Versions \subseteq Nat
    BY RegistryAssumption DEF Versions
<1>2. ASSUME NEW location \in ReaderLocations, NEW f \in ReaderRow, Continue(r, location, f),
             RightReader(location, f, rresp[r]),
             OneWorker => RightReaderAlone(location, f, rresp[r])
      PROVE  \E l, g, a : RightlyBecomes(r, l, g, a)
    <2>1. rresp' = [rresp EXCEPT ![r] = rresp[r]]
        BY <1>0, <1>2 DEF Continue
    <2>2. RightlyBecomes(r, location, f, rresp[r])
        BY <1>0, <1>2, <2>1 DEF Continue, RightlyBecomes, Becomes
    <2>3. QED
        BY <2>2
<1>3. ASSUME NEW old \in Versions, NEW new \in Versions, RequestConsistency(r, old, new)
      PROVE  \E location, f, a : RightlyBecomes(r, location, f, a)
    <2>1. PICK q \in RootRow : /\ q = RootByVersion(old)
                               /\ q = NoRoot \/ (Persisted(q) /\ q.tree_version = old)
        BY <1>0, <1>1, RootByVersionCases
    <2>2. PICK f : f = [IdleReader EXCEPT !.old_version = old, !.new_version = new, !.old_root = q]
        OBVIOUS
    <2>3. f \in ReaderRow /\ f.old_version = old /\ f.new_version = new /\ f.old_root = q
        <3>1. old \in Nat /\ new \in Nat
            BY <1>1
        <3>2. IdleReader \in ReaderRow
            BY ReaderEdits
        <3>3. QED
            BY <2>2, <3>1, <3>2 DEF ReaderRow
    <2>4. Becomes(r, "newroot", f, NoResponse) /\ old < new
        BY <1>3, <2>1, <2>2 DEF RequestConsistency, Becomes
    <2>5. NoResponse.status = "none"
        BY DEF NoResponse
    <2>6. RightReader("newroot", f, NoResponse) /\ RightReaderAlone("newroot", f, NoResponse)
        BY <2>1, <2>3, <2>4, <2>5 DEF RightReader, RightReaderAlone, Published
    <2>7. RightlyBecomes(r, "newroot", f, NoResponse)
        BY <2>3, <2>4, <2>5, <2>6 DEF RightlyBecomes, ReaderLocations, Statuses
    <2>8. QED
        BY <2>7
<1>4. ASSUME NEW old \in Versions, NEW new \in Versions, RejectVersions(r, old, new)
      PROVE  \E location, f, a : RightlyBecomes(r, location, f, a)
    BY <1>4, AnswersError DEF RejectVersions, Answer, Becomes
<1>5. CASE ReadNewRoot(r)
    <2>1. PICK q \in RootRow : /\ q = RootByVersion(rframe[r].new_version)
                               /\ q = NoRoot \/ (Persisted(q) /\ q.tree_version = rframe[r].new_version)
        BY <1>0, RootByVersionCases
    <2>2. PICK f : f = [rframe[r] EXCEPT !.new_root = q]
        OBVIOUS
    <2>3. /\ f \in ReaderRow /\ f.new_root = q /\ f.old_root = rframe[r].old_root
          /\ f.old_version = rframe[r].old_version /\ f.new_version = rframe[r].new_version
        <3>1. rframe[r] \in ReaderRow
            BY <1>0
        <3>2. QED
            BY <2>2, <3>1 DEF ReaderRow
    <2>4. CASE rframe[r].old_root = NoRoot \/ q = NoRoot
        <3>1. Answer(r, Error)
            BY <1>5, <2>1, <2>4 DEF ReadNewRoot
        <3>2. QED
            BY <3>1, AnswersError DEF Answer, Becomes
    <2>5. CASE ~ (rframe[r].old_root = NoRoot \/ q = NoRoot)
        <3>1. Continue(r, "oldleaves", f)
            BY <1>5, <2>1, <2>2, <2>5 DEF ReadNewRoot
        <3>2. RightReader("oldleaves", f, rresp[r])
            BY <1>0, <1>5, <2>1, <2>3, <2>5 DEF ReadNewRoot, ReaderInv, RightReader, Published
        <3>3. OneWorker => RightReaderAlone("oldleaves", f, rresp[r])
            BY <1>0, <1>5, <2>3 DEF ReadNewRoot, AloneReaderInv, RightReaderAlone
        <3>4. QED
            BY <1>2, <2>3, <3>1, <3>2, <3>3 DEF ReaderLocations
    <2>6. QED
        BY <2>4, <2>5
<1>6. CASE ReadOldLeaves(r)
    <2>1. PICK s \in Seq(LeafHash) : s = LeafHashes(EntriesUpToVersion(rframe[r].old_version))
        BY <1>0, ListedLeaves
    <2>2. PICK f : f = [rframe[r] EXCEPT !.old_leaves = s]
        OBVIOUS
    <2>3. /\ f \in ReaderRow /\ f.old_leaves = s
          /\ f.new_root = rframe[r].new_root /\ f.old_root = rframe[r].old_root
          /\ f.old_version = rframe[r].old_version /\ f.new_version = rframe[r].new_version
        <3>1. rframe[r] \in ReaderRow
            BY <1>0
        <3>2. QED
            BY <2>2, <3>1 DEF ReaderRow
    <2>4. Continue(r, "newleaves", f)
        BY <1>6, <2>1, <2>2 DEF ReadOldLeaves
    <2>5. Published(f.old_root, f.old_version)
        BY <1>0, <1>6, <2>3 DEF ReadOldLeaves, ReaderInv, RightReader
    <2>6. RightReader("newleaves", f, rresp[r])
        BY <1>0, <1>6, <2>3 DEF ReadOldLeaves, ReaderInv, RightReader
    <2>7. ASSUME OneWorker
          PROVE  RightReaderAlone("newleaves", f, rresp[r])
        <3>1. EntriesUpToVersion(f.old_version) = SubSeq(entries, 1, f.old_root.tree_size)
            BY <1>0, <2>3, <2>5, <2>7, PublishedAlone
        <3>2. QED
            BY <1>0, <1>6, <2>1, <2>3, <2>7, <3>1
               DEF ReadOldLeaves, AloneReaderInv, RightReaderAlone
    <2>8. QED
        BY <1>2, <2>3, <2>4, <2>6, <2>7 DEF ReaderLocations
<1>7. CASE ReadNewLeaves(r)
    <2>1. PICK f : f = rframe[r] /\ rpc[r] = "newleaves"
        BY <1>7 DEF ReadNewLeaves
    <2>2. PICK s \in Seq(LeafHash) : s = LeafHashes(EntriesUpToVersion(f.new_version))
        BY <1>0, ListedLeaves
    <2> DEFINE consistent == [status |-> "consistent", old_version |-> f.old_version,
                              new_version |-> f.new_version,
                              proof |-> GenerateConsistencyProof(f.old_leaves, s)]
               inconsistent == [status |-> "inconsistent"]
    <2>3. PICK a : a = IF ReconstructionMatches(f, s) /\ ConsistencyProofExists(f.old_leaves, s)
                       THEN consistent ELSE inconsistent
        OBVIOUS
    <2>4. Becomes(r, "idle", IdleReader, a)
        BY <1>7, <2>1, <2>2, <2>3 DEF ReadNewLeaves, Answer, Becomes
    <2>5. CASE ReconstructionMatches(f, s) /\ ConsistencyProofExists(f.old_leaves, s)
        <3>1. /\ a.status = "consistent"
              /\ a.old_version = f.old_version /\ a.new_version = f.new_version
              /\ a.proof = GenerateConsistencyProof(f.old_leaves, s)
            BY <2>3, <2>5
        <3>2. ConsistentAnswer(a)
            BY <2>1, <2>5, <3>1, ConsistentAnswerIsRight
        <3>3. RightlyBecomes(r, "idle", IdleReader, a)
            BY <2>4, <3>1, <3>2, ReaderEdits
               DEF RightlyBecomes, RightReader, RightReaderAlone, ReaderLocations, Statuses
        <3>4. QED
            BY <3>3
    <2>6. CASE ~ (ReconstructionMatches(f, s) /\ ConsistencyProofExists(f.old_leaves, s))
        <3>1. a.status = "inconsistent"
            BY <2>3, <2>6
        <3>2. ~ OneWorker
            BY <2>1, <2>2, <2>6, NothingToRefuse
        <3>3. RightlyBecomes(r, "idle", IdleReader, a)
            BY <2>4, <3>1, <3>2, ReaderEdits
               DEF RightlyBecomes, RightReader, ReaderLocations, Statuses
        <3>4. QED
            BY <3>3
    <2>7. QED
        BY <2>5, <2>6
<1>8. CASE ReaderRaises(r)
    BY <1>8, AnswersError DEF ReaderRaises, Becomes
<1>9. QED
    BY <1>3, <1>4, <1>5, <1>6, <1>7, <1>8 DEF ReaderNext

\* Every step keeps the invariant of the readers.
LEMMA StepReaders ==
    ASSUME CInv, [CNext]_<<vars, rvars>>
    PROVE  CInv'
<1>0. /\ RegistryInv' /\ TablesGrow /\ Types' /\ ReaderTypes
    <2>1. RegistryInv' /\ TablesGrow
        BY RegistryStep DEF CInv
    <2>2. QED
        BY <2>1 DEF RegistryInv, IInv, CInv, ReadersInv
<1>1. CASE UNCHANGED rvars
    <2>1. UNCHANGED <<rpc, rframe, rresp>>
        BY <1>1 DEF rvars
    <2>2. ReaderTypes'
        BY <1>0, <2>1 DEF ReaderTypes
    <2>3. \A r \in Readers : ReaderInv(r)' /\ (OneWorker => AloneReaderInv(r)')
        BY <1>0, <2>1, ReaderWaits
    <2>4. QED
        BY <1>0, <2>2, <2>3 DEF CInv, ReadersInv
<1>2. CASE ReadersRestart
    <2>1. NoResponse.status = "none"
        BY DEF NoResponse
    <2>2. ReaderTypes'
        BY <1>2, <2>1, ReaderEdits DEF ReadersRestart, ReaderTypes
    <2>3. \A r \in Readers : rpc'[r] = "idle" /\ rresp'[r] = NoResponse
        BY <1>2 DEF ReadersRestart
    <2>4. \A r \in Readers : ReaderInv(r)' /\ AloneReaderInv(r)'
        BY <2>1, <2>3 DEF ReaderInv, RightReader, AloneReaderInv, RightReaderAlone
    <2>5. QED
        BY <1>0, <2>2, <2>4 DEF CInv, ReadersInv
<1>3. ASSUME NEW r \in Readers, ReaderNext(r)
      PROVE  CInv'
    <2>1. PICK location, f, a : RightlyBecomes(r, location, f, a)
        BY <1>3, ReaderActsRightly
    <2>2. /\ rpc'[r] = location /\ rframe'[r] = f /\ rresp'[r] = a
          /\ \A q \in Readers \ {r} :
                rpc'[q] = rpc[q] /\ rframe'[q] = rframe[q] /\ rresp'[q] = rresp[q]
        BY <1>0, <2>1 DEF ReaderTypes, RightlyBecomes, Becomes
    <2>3. ReaderTypes'
        BY <1>0, <2>1 DEF ReaderTypes, RightlyBecomes, Becomes, ReaderLocations, Statuses
    <2>4. entries' = entries /\ roots' = roots
        BY <1>3 DEF ReaderNext, RejectVersions, RequestConsistency, ReadNewRoot, ReadOldLeaves,
                    ReadNewLeaves, ReaderRaises, Continue, Answer, vars, tables
    <2>5. ReaderInv(r)' /\ (OneWorker => AloneReaderInv(r)')
        BY <2>1, <2>2, <2>4 DEF RightlyBecomes, ReaderInv, RightReader, AloneReaderInv,
                                RightReaderAlone, ConsistentAnswer, SignedAs, Published, Persisted
    <2>6. ASSUME NEW q \in Readers \ {r}
          PROVE  ReaderInv(q)' /\ (OneWorker => AloneReaderInv(q)')
        BY <1>0, <2>2, ReaderWaits
    <2>7. QED
        BY <1>0, <2>3, <2>5, <2>6 DEF CInv, ReadersInv
<1>4. UNCHANGED rvars \/ ReadersRestart \/ \E r \in Readers : ReaderNext(r)
    BY DEF CNext, rvars
<1>5. QED
    BY <1>1, <1>2, <1>3, <1>4

\* The initial state satisfies the invariant.
LEMMA InitReaders == CInit => CInv
<1> SUFFICES ASSUME CInit
             PROVE  CInv
    OBVIOUS
<1>1. RegistryInv
    BY InitInv, InitVersions, InitSequential DEF CInit, RegistryInv
<1>2. NoResponse.status = "none"
    BY DEF NoResponse
<1>3. ReaderTypes
    BY <1>2, ReaderEdits DEF CInit, ReaderTypes
<1>4. \A r \in Readers : rpc[r] = "idle" /\ rresp[r] = NoResponse
    BY DEF CInit
<1>5. \A r \in Readers : ReaderInv(r) /\ AloneReaderInv(r)
    BY <1>2, <1>4 DEF ReaderInv, RightReader, AloneReaderInv, RightReaderAlone
<1>6. QED
    BY <1>1, <1>3, <1>5 DEF CInv, ReadersInv

\* The invariant holds in every reachable state, with any number of workers, and
\* says more when there is one.
THEOREM ConsistencyInvariant == CSpec => []CInv
BY InitReaders, StepReaders, PTL DEF CSpec

\* The readers' variables keep their types.
THEOREM ReadersTypeCorrect == CSpec => []ReadersTypeOK
<1>1. CInv => ReadersTypeOK
    <2> SUFFICES ASSUME ReaderTypes
                 PROVE  ReadersTypeOK
        BY DEF CInv, ReadersInv
    <2>1. \A q \in RootRow : RootOK(q)
        BY DEF RootRow, RootOK
    <2>2. \A r \in Readers : rframe[r] \in ReaderRow
        BY DEF ReaderTypes
    <2>3. QED
        BY <2>1, <2>2 DEF ReaderTypes, ReaderRow, ReadersTypeOK
<1>2. QED
    BY <1>1, ConsistencyInvariant, PTL

\* A consistency proof that get_consistency_proof_between_versions returns
\* verifies, and its two hashes are those of signed roots of the versions asked
\* for, whatever the workers did between the four reads of the handler and since.
THEOREM ConsistencyResponsesHold == CSpec => []ConsistencyResponsesVerify
<1>1. CInv => ConsistencyResponsesVerify
    BY DEF CInv, ReadersInv, ReaderInv, RightReader, ConsistentAnswer, SignedAs,
           ConsistencyResponsesVerify
<1>2. QED
    BY <1>1, ConsistencyInvariant, PTL

\* Beside a single worker no published pair of versions is reported inconsistent,
\* whatever that worker does between the four reads, failures and restarts
\* included.
THEOREM NoFalseInconsistencyHolds ==
    ASSUME OneWorker PROVE CSpec => []NoFalseInconsistency
<1>1. CInv => NoFalseInconsistency
    BY DEF CInv, ReadersInv, AloneReaderInv, RightReaderAlone, NoFalseInconsistency
<1>2. QED
    BY <1>1, ConsistencyInvariant, PTL
=============================================================================
