------------------------- MODULE ConsistencyService -------------------------
(***************************************************************************)
(* get_consistency_proof_between_versions of                               *)
(* src/api-merkle/API/app/services/consistency_service.py, served by       *)
(* threads of its own beside the workers of Registry.tla. The handler only *)
(* reads: the two signed roots, then the entries up to each version, in    *)
(* four statements between which the workers go on writing.                *)
(***************************************************************************)
EXTENDS Registry

CONSTANT Readers

VARIABLES rpc,     \* where each reader is
          rframe,  \* the locals of the request it serves
          rresp    \* the response to its last request

rvars == <<rpc, rframe, rresp>>

IdleReader == [old_version |-> 0, new_version |-> 0,
               old_root |-> NoRoot, new_root |-> NoRoot, old_leaves |-> <<>>]

CInit ==
    /\ Init
    /\ rpc = [r \in Readers |-> "idle"]
    /\ rframe = [r \in Readers |-> IdleReader]
    /\ rresp = [r \in Readers |-> NoResponse]

\* Reader r goes on to a location and remembers frame f.
Continue(r, location, f) ==
    /\ rpc' = [rpc EXCEPT ![r] = location]
    /\ rframe' = [rframe EXCEPT ![r] = f]
    /\ UNCHANGED <<vars, rresp>>

Answer(r, response) ==
    /\ rpc' = [rpc EXCEPT ![r] = "idle"]
    /\ rframe' = [rframe EXCEPT ![r] = IdleReader]
    /\ rresp' = [rresp EXCEPT ![r] = response]
    /\ UNCHANGED vars

\* The versions are compared before anything is read.
RejectVersions(r, old, new) ==
    /\ rpc[r] = "idle"
    /\ old >= new
    /\ Answer(r, Error)

RequestConsistency(r, old, new) ==
    /\ rpc[r] = "idle"
    /\ old < new
    /\ rpc' = [rpc EXCEPT ![r] = "newroot"]
    /\ rframe' = [rframe EXCEPT ![r] = [IdleReader EXCEPT
                     !.old_version = old, !.new_version = new,
                     !.old_root = RootByVersion(old)]]
    /\ rresp' = [rresp EXCEPT ![r] = NoResponse]
    /\ UNCHANGED vars

\* Both roots are read before either is tested for None.
ReadNewRoot(r) ==
    /\ rpc[r] = "newroot"
    /\ LET new_root == RootByVersion(rframe[r].new_version)
       IN  IF rframe[r].old_root = NoRoot \/ new_root = NoRoot
           THEN Answer(r, Error)
           ELSE Continue(r, "oldleaves", [rframe[r] EXCEPT !.new_root = new_root])

ReadOldLeaves(r) ==
    /\ rpc[r] = "oldleaves"
    /\ Continue(r, "newleaves", [rframe[r] EXCEPT
           !.old_leaves = LeafHashes(EntriesUpToVersion(rframe[r].old_version))])

(***************************************************************************)
(* The last read, the comparison of each rebuilt root with the signed one, *)
(* and the generation of the proof, which refuses leaves that are not a    *)
(* prefix.                                                                 *)
(***************************************************************************)
\* Fault: only the new version is compared with its signed root.
ReconstructionMatchesNew(f, new_leaves) ==
    MerkleRoot(new_leaves) = f.new_root.merkle_root

ReconstructionMatches(f, new_leaves) ==
    /\ MerkleRoot(f.old_leaves) = f.old_root.merkle_root
    /\ MerkleRoot(new_leaves) = f.new_root.merkle_root

ReadNewLeaves(r) ==
    /\ rpc[r] = "newleaves"
    /\ LET f          == rframe[r]
           new_leaves == LeafHashes(EntriesUpToVersion(f.new_version))
       IN  Answer(r,
             IF ReconstructionMatches(f, new_leaves) /\ ConsistencyProofExists(f.old_leaves, new_leaves)
             THEN [status      |-> "consistent",
                   old_version |-> f.old_version,
                   new_version |-> f.new_version,
                   proof       |-> GenerateConsistencyProof(f.old_leaves, new_leaves)]
             ELSE [status |-> "inconsistent"])

\* A statement may raise here too.
ReaderRaises(r) ==
    /\ rpc[r] # "idle"
    /\ failures < MaxFailures
    /\ failures' = failures + 1
    /\ rpc' = [rpc EXCEPT ![r] = "idle"]
    /\ rframe' = [rframe EXCEPT ![r] = IdleReader]
    /\ rresp' = [rresp EXCEPT ![r] = Error]
    /\ UNCHANGED <<tables, keys, pc, frame, resp, restarts>>

\* A restart of the process ends the readers' requests as well.
ReadersRestart ==
    /\ rpc' = [r \in Readers |-> "idle"]
    /\ rframe' = [r \in Readers |-> IdleReader]
    /\ rresp' = [r \in Readers |-> NoResponse]

Versions == 1 .. MaxEntries

ReaderNext(r) ==
    \/ \E old, new \in Versions : RejectVersions(r, old, new) \/ RequestConsistency(r, old, new)
    \/ ReadNewRoot(r)
    \/ ReadOldLeaves(r)
    \/ ReadNewLeaves(r)
    \/ ReaderRaises(r)

CNext ==
    \/ (\E w \in Workers : Request(w) \/ Step(w) \/ RequestRaises(w)) /\ UNCHANGED rvars
    \/ Restart /\ ReadersRestart
    \/ \E r \in Readers : ReaderNext(r)

CSpec == CInit /\ [][CNext]_<<vars, rvars>>

\* A running worker is scheduled: nothing in a handler waits for another one.
\* No reader is promised anything.
CFairSpec == CSpec /\ \A w \in Workers : WF_vars(Step(w))

-----------------------------------------------------------------------------

\* The types of the readers' variables.
ReadersTypeOK ==
    /\ rpc \in [Readers -> {"idle", "newroot", "oldleaves", "newleaves"}]
    /\ \A r \in Readers :
          /\ rframe[r].old_version \in Nat /\ rframe[r].new_version \in Nat
          /\ RootOK(rframe[r].old_root) /\ RootOK(rframe[r].new_root)
          /\ rframe[r].old_leaves \in Seq(LeafHash)
          /\ rresp[r].status \in {"none", "error", "consistent", "inconsistent"}

\* A consistency proof that is returned verifies (as the verify endpoint does it)
\* and its two hashes are signed roots of the versions asked for, although the
\* roots and the leaves are read at four different times.
ConsistencyResponsesVerify ==
    \A r \in Readers : rresp[r].status = "consistent" =>
        LET p == rresp[r].proof
            Signed(version, hash) ==
                \E i \in DOMAIN roots : /\ roots[i].tree_version = version
                                        /\ roots[i].merkle_root = hash
        IN  /\ VerifyConsistencyProof(p)
            /\ Signed(rresp[r].old_version, p.old_root_hash)
            /\ Signed(rresp[r].new_version, p.new_root_hash)

\* With a single writer no published pair of versions is ever reported as
\* inconsistent, whatever the writer does between the four reads.
NoFalseInconsistency ==
    \A r \in Readers : rresp[r].status # "inconsistent"
=============================================================================
