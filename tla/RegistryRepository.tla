------------------------- MODULE RegistryRepository -------------------------
(***************************************************************************)
(* The two tables of registry.db and the queries of                        *)
(* src/api-merkle/API/app/repositories/registry_repository.py. A row's id  *)
(* is its index. Each query is one SQLite statement and sees one state of  *)
(* the tables; each insertion commits by itself. No code changes `status`, *)
(* so every entry is active.                                               *)
(***************************************************************************)
EXTENDS Integers, Sequences, MerkleTree

CONSTANTS Identities,   \* the identities clients register
          PublicKeys    \* the rest of an assertion: key, metadata, validity

VARIABLES entries,      \* registry_entries
          roots         \* signed_roots

\* An assertion is exactly the data that goes into its leaf hash.
Assertions == [identity : Identities, public_key : PublicKeys]

LeafHash == {HashLeaf(a) : a \in Assertions}

EntryRow == [assertion : Assertions, leaf_hash : LeafHash, tree_version : Nat]

NoSignature == [signer |-> 0, message |-> EmptyRoot]

\* The null root: what a query that finds no row returns.
NoRoot == [tree_version |-> 0, tree_size |-> 0, merkle_root |-> EmptyRoot,
           signature |-> NoSignature, public_key |-> 0]

-----------------------------------------------------------------------------

\* Fault: each leaf is hashed once more, as the tree does with an odd last node.
LeafHashesPaired(rows) ==
    [i \in 1 .. Len(rows) |-> HashNode(rows[i].leaf_hash, rows[i].leaf_hash)]

LeafHashes(rows) == [i \in 1 .. Len(rows) |-> rows[i].leaf_hash]

\* Fault: the version itself is left out.
EntriesBeforeVersion(v) == SelectSeq(entries, LAMBDA e : e.tree_version < v)

\* list_entries_up_to_version(v), in the order of the ids
EntriesUpToVersion(v) ==
    FoldLeft(LAMBDA rows, e : IF e.tree_version <= v THEN Append(rows, e) ELSE rows,
             <<>>, entries)

\* Fault: the root inserted last is taken for the latest one.
IsLatestById(i) == \A j \in DOMAIN roots : j <= i

\* ORDER BY tree_version DESC, id DESC
IsLatest(i) ==
    \A j \in DOMAIN roots :
        \/ roots[j].tree_version < roots[i].tree_version
        \/ roots[j].tree_version = roots[i].tree_version /\ j <= i

\* get_latest_root
LatestRoot ==
    IF roots = <<>> THEN NoRoot ELSE roots[CHOOSE i \in DOMAIN roots : IsLatest(i)]

\* get_latest_tree_version: 0 when there is no root
LatestTreeVersion == LatestRoot.tree_version

\* get_root_by_version: the row of version v with the highest id
RootByVersion(v) ==
    IF \A i \in DOMAIN roots : roots[i].tree_version # v THEN NoRoot
    ELSE roots[CHOOSE i \in DOMAIN roots :
                 /\ roots[i].tree_version = v
                 /\ \A j \in i + 1 .. Len(roots) : roots[j].tree_version # v]

\* add_entry: the insertion and its commit
InsertEntryRow(a, v) ==
    entries' = Append(entries, [assertion    |-> a,
                                leaf_hash    |-> HashLeaf(a),
                                tree_version |-> v])

\* save_signed_root: the insertion and its commit
InsertRootRow(row) == roots' = Append(roots, row)
=============================================================================
