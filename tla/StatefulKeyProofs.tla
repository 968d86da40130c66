------------------------- MODULE StatefulKeyProofs -------------------------
(***************************************************************************)
(* Theorems about StatefulKey.tla and RemainingQuery.tla, for any threads  *)
(* and readers, any height of the key, any width of its index and any      *)
(* number of failures and crashes.                                         *)
(***************************************************************************)
EXTENDS RemainingQuery, FiniteSetTheorems, TLAPS

(* A key the program can hold: a generated key is never past its last      *)
(* index, and the cached path is never ahead of the index.                 *)
KeyOK(k) == /\ k \in Keys
            /\ k.path <= k.idx
            /\ k.seed = "real" => k.idx <= MaxIndex

(* A thread inside a call holds the mutex.                                 *)
LockHeld == \A t \in Threads : pc[t] # "idle" => lock = t

(* A signature not stored yet was made by a one-time key that the store    *)
(* still counts as unused and memory no longer does; a stored one by a key *)
(* the store is past and nobody was handed.                                *)
Pending(t) == pc[t] = "store" /\ sig[t].seed = "real"
Stored(t)  == pc[t] = "unlock" /\ status[t] = "ok" /\ sig[t].seed = "real"
SignaturesFresh ==
  \A t \in Threads :
    /\ Pending(t) => sig[t].idx <= MaxIndex /\ Position(disk) <= sig[t].idx
                                            /\ sig[t].idx < Position(mem)
    /\ Stored(t)  => /\ sig[t].idx <= MaxIndex
                     /\ sig[t].idx < Position(disk)
                     /\ handed[sig[t].idx] = 0

(* The call that is under way has not succeeded before it stored the key.  *)
StatusSettled == \A t \in Threads : pc[t] \in {"sign", "store"} => status[t] = "error"

IInv == /\ TypeOK
        /\ KeyOK(mem)
        /\ KeyOK(disk)
        /\ Position(disk) <= Position(mem) \/ mem.seed = "none"
        /\ LockHeld
        /\ mem.seed = "none" => \A t \in Threads : pc[t] = "idle"
        /\ SignaturesFresh
        /\ StatusSettled
        /\ StoredKeyCoversHandedOut
        /\ OneTimeKeysHandedOutOnce

-----------------------------------------------------------------------------
(* Lemmas on keys *)

\* The keys that signing, wiping and restarting make are keys.
LEMMA KeyType ==
  ASSUME NEW i \in 0 .. MaxIndex + 1, NEW s \in Seeds, NEW p \in 0 .. i,
         s = "real" => i <= MaxIndex
  PROVE  KeyOK(Key(i, s, p)) /\ Key(i, s, p).idx = i /\ Key(i, s, p).seed = s
                             /\ Key(i, s, p).path = p
BY ConstantsAssumption DEF KeyOK, Keys, Key

\* The keys without a one-time key are keys too.
LEMMA SpecialKeys ==
  /\ KeyOK(NoKey) /\ NoKey.seed = "none" /\ NoKey.idx = 0
  /\ KeyOK(Wiped) /\ Wiped.seed = "zero"
  /\ KeyOK(Ended) /\ Ended.seed = "end"
BY ConstantsAssumption, KeyType DEF NoKey, Wiped, Ended, Key, KeyOK, Keys, Seeds

\* A position is a number up to one past the last index.
LEMMA PositionType ==
  ASSUME NEW k, KeyOK(k)
  PROVE  /\ Position(k) \in 0 .. MaxIndex + 1
         /\ k.seed = "real" => Position(k) = k.idx
         /\ k.seed = "none" => Position(k) = 0
         /\ k.seed \in {"zero", "end"} => Position(k) = MaxIndex + 1
         /\ k.idx \in Nat /\ k.path \in Nat
BY ConstantsAssumption DEF Position, KeyOK, Keys, Seeds

\* Counting a fault keeps the counters' type.
LEMMA FaultType ==
  ASSUME TypeOK, NEW k, Fault(k)
  PROVE  faults' \in [FaultKinds -> 0 .. MaxFaults]
<1>1. faults[k] + 1 \in 0 .. MaxFaults
    BY ConstantsAssumption DEF TypeOK, Fault
<1>2. QED
    BY <1>1 DEF TypeOK, Fault

\* While a thread is inside a call, no other is, and there is a key.
LEMMA Alone ==
  ASSUME IInv, NEW t \in Threads, pc[t] # "idle"
  PROVE  lock = t /\ mem.seed # "none" /\ \A u \in Threads : u # t => pc[u] = "idle"
BY DEF IInv, LockHeld

-----------------------------------------------------------------------------
(* Every action preserves the invariant *)

\* The invariant holds initially.
LEMMA InitInvariant == Init => IInv
<1> SUFFICES ASSUME Init PROVE IInv
    OBVIOUS
<1>1. KeyOK(mem) /\ KeyOK(disk) /\ disk.seed = "none" /\ mem.seed = "real"
    BY SpecialKeys, KeyType, ConstantsAssumption DEF Init, Seeds
<1>2. Position(disk) = 0 /\ Position(mem) \in Nat
    BY <1>1, PositionType
<1>3. TypeOK
    BY <1>1, SpecialKeys, ConstantsAssumption DEF Init, TypeOK, KeyOK
<1>4. QED
    BY <1>1, <1>2, <1>3, ConstantsAssumption
    DEF Init, IInv, LockHeld, SignaturesFresh, Pending, Stored, StatusSettled,
        StoredKeyCoversHandedOut, OneTimeKeysHandedOutOnce, Indices

\* A call that is refused changes its own answer only.
LEMMA RefuseStep ==
  ASSUME IInv, NEW t \in Threads, Refuse(t) PROVE IInv'
<1>1. TypeOK'
    BY DEF IInv, TypeOK, Refuse
<1>2. QED
    BY <1>1 DEF IInv, TypeOK, Refuse, KeyOK, Position, LockHeld, SignaturesFresh,
        Pending, Stored, StatusSettled, StoredKeyCoversHandedOut, OneTimeKeysHandedOutOnce

\* A call that starts has no signature yet.
LEMMA BeginStep ==
  ASSUME IInv, NEW t \in Threads, BeginSign(t) PROVE IInv'
<1>1. TypeOK'
    BY SpecialKeys DEF IInv, TypeOK, BeginSign, KeyOK
<1>2. LockHeld' /\ StatusSettled'
    BY ConstantsAssumption DEF IInv, TypeOK, BeginSign, LockHeld, StatusSettled
<1>3. SignaturesFresh'
    BY SpecialKeys DEF IInv, TypeOK, BeginSign, SignaturesFresh, Pending, Stored
<1>4. QED
    BY <1>1, <1>2, <1>3 DEF IInv, BeginSign, StoredKeyCoversHandedOut, OneTimeKeysHandedOutOnce

\* Neither has one whose lock failed.
LEMMA LockFailsStep ==
  ASSUME IInv, NEW t \in Threads, LockFails(t) PROVE IInv'
<1>1. TypeOK'
    BY SpecialKeys, FaultType DEF IInv, TypeOK, LockFails, KeyOK
<1>2. LockHeld' /\ StatusSettled'
    BY DEF IInv, TypeOK, LockFails, LockHeld, StatusSettled
<1>3. SignaturesFresh'
    BY SpecialKeys DEF IInv, TypeOK, LockFails, SignaturesFresh, Pending, Stored
<1>4. QED
    BY <1>1, <1>2, <1>3 DEF IInv, LockFails, StoredKeyCoversHandedOut, OneTimeKeysHandedOutOnce

\* What is left to prove of a signature made in memory: it comes from the
\* old key, and the new key is past it.
LEMMA SignWithStep ==
  ASSUME IInv, NEW t \in Threads, pc[t] = "sign",
         NEW k, NEW next, SignWith(t, k, next),
         faults' \in [FaultKinds -> 0 .. MaxFaults],
         KeyOK(k), KeyOK(next), next.seed # "none",
         Position(mem) <= Position(next),
         k.seed = "real" => Position(mem) <= k.idx /\ k.idx < Position(next)
  PROVE  IInv'
<1>1. mem' = next /\ disk' = disk /\ handed' = handed
    BY DEF SignWith
<1>2. TypeOK'
    BY DEF IInv, TypeOK, SignWith, KeyOK
<1>3. KeyOK(mem)' /\ KeyOK(disk)'
    BY <1>1 DEF IInv, KeyOK
<1>4. Position(disk)' = Position(disk) /\ Position(mem)' = Position(next)
    BY <1>1 DEF Position
<1>5. /\ Position(mem) \in Nat /\ Position(next) \in Nat /\ Position(disk) \in Nat
      /\ k.idx \in Nat /\ (k.seed = "real" => k.idx <= MaxIndex)
    BY PositionType, ConstantsAssumption DEF IInv, KeyOK
<1>6. Position(disk) <= Position(mem)
    BY Alone DEF IInv
<1>7. LockHeld' /\ StatusSettled' /\ (mem.seed # "none")'
    BY <1>1, Alone DEF IInv, TypeOK, SignWith, LockHeld, StatusSettled
<1>8. SignaturesFresh'
  <2> SUFFICES ASSUME NEW u \in Threads
               PROVE  /\ Pending(u)' => sig'[u].idx <= MaxIndex /\ Position(disk') <= sig'[u].idx
                                                               /\ sig'[u].idx < Position(mem')
                      /\ ~ Stored(u)'
      BY DEF SignaturesFresh
  <2>1. CASE u = t
      BY <2>1, <1>1, <1>5, <1>6 DEF IInv, TypeOK, SignWith, Pending, Stored
  <2>2. CASE u # t
      BY <2>2, Alone DEF IInv, TypeOK, SignWith, Pending, Stored
  <2>3. QED
      BY <2>1, <2>2
<1>9. QED
    BY <1>1, <1>2, <1>3, <1>4, <1>5, <1>6, <1>7, <1>8
    DEF IInv, StoredKeyCoversHandedOut, OneTimeKeysHandedOutOnce

\* A call that gives up leaves a key that is no less advanced.
LEMMA GiveUpStep ==
  ASSUME IInv, NEW t \in Threads, pc[t] = "sign", GiveUp(t),
         faults' \in [FaultKinds -> 0 .. MaxFaults],
         KeyOK(mem'), mem'.seed # "none", Position(mem) <= Position(mem')
  PROVE  IInv'
<1>1. disk' = disk /\ handed' = handed
    BY DEF GiveUp
<1>2. TypeOK'
    BY DEF IInv, TypeOK, GiveUp, KeyOK
<1>3. KeyOK(disk)' /\ Position(disk)' = Position(disk)
    BY <1>1 DEF IInv, KeyOK, Position
<1>4. Position(mem) \in Nat /\ Position(mem') \in Nat /\ Position(disk) \in Nat
    BY PositionType, ConstantsAssumption DEF IInv
<1>5. LockHeld' /\ StatusSettled'
    BY Alone DEF IInv, TypeOK, GiveUp, LockHeld, StatusSettled
<1>6. SignaturesFresh'
    BY Alone DEF IInv, TypeOK, GiveUp, SignaturesFresh, Pending, Stored, StatusSettled
<1>7. Position(disk)' <= Position(mem)'
    BY <1>1, <1>3, <1>4, Alone DEF IInv
<1>8. QED
    BY <1>1, <1>2, <1>3, <1>5, <1>6, <1>7
    DEF IInv, StoredKeyCoversHandedOut, OneTimeKeysHandedOutOnce

\* The next key of XMSS is past the old one.
LEMMA SuccessorKey ==
  ASSUME IInv, mem.seed # "none", mem.idx < MaxIndex
  PROVE  /\ KeyOK(Successor(mem)) /\ Successor(mem).seed = mem.seed
         /\ Position(mem) <= Position(Successor(mem))
         /\ mem.seed = "real" => /\ Position(mem) = mem.idx
                                 /\ mem.idx < Position(Successor(mem))
<1>1. mem.idx \in Nat /\ mem.path \in Nat /\ mem.path <= mem.idx /\ mem.seed \in Seeds
    BY PositionType DEF IInv, KeyOK, Keys
<1>2. /\ mem.idx + 1 \in 0 .. MaxIndex + 1 /\ mem.idx + 1 <= MaxIndex
      /\ (IF mem.seed = "real" THEN mem.path + 1 ELSE 0) \in 0 .. mem.idx + 1
    BY <1>1, ConstantsAssumption
<1>3. /\ KeyOK(Successor(mem)) /\ Successor(mem).idx = mem.idx + 1
      /\ Successor(mem).seed = mem.seed
    BY <1>1, <1>2, KeyType DEF Successor
<1>4. QED
    BY <1>1, <1>3, PositionType, ConstantsAssumption DEF IInv, Seeds

\* The keys left after the last one-time key.
LEMMA LastKeys ==
  ASSUME IInv, NEW i \in {0, MaxIndex + 1}
  PROVE  /\ KeyOK(Key(i, "zero", 0)) /\ Key(i, "zero", 0).seed = "zero"
         /\ Position(Key(i, "zero", 0)) = MaxIndex + 1
         /\ Position(Wiped) = MaxIndex + 1
         /\ Position(Ended) = MaxIndex + 1
         /\ Position(mem) \in 0 .. MaxIndex + 1
<1>1. KeyOK(Key(i, "zero", 0)) /\ Key(i, "zero", 0).seed = "zero"
    BY KeyType, ConstantsAssumption DEF Seeds
<1>2. QED
    BY <1>1, PositionType, SpecialKeys DEF IInv

\* XMSS signs, on the last index with the wiped key, past it not at all.
LEMMA SignXmssStep ==
  ASSUME IInv, NEW t \in Threads, SignXmss(t) PROVE IInv'
<1>0. pc[t] = "sign" /\ mem.seed # "none" /\ faults' \in [FaultKinds -> 0 .. MaxFaults]
    BY Alone DEF SignXmss, Signing, IInv, TypeOK
<1>1. CASE mem.idx < MaxIndex /\ SignWith(t, mem, Successor(mem))
  <2>1. /\ KeyOK(Successor(mem)) /\ Successor(mem).seed # "none"
        /\ Position(mem) <= Position(Successor(mem))
        /\ mem.seed = "real" => /\ Position(mem) <= mem.idx
                                /\ mem.idx < Position(Successor(mem))
      BY <1>0, <1>1, SuccessorKey, PositionType DEF IInv
  <2>2. KeyOK(mem)
      BY DEF IInv
  <2>3. QED
      BY <1>0, <1>1, <2>1, <2>2, SignWithStep
<1>2. CASE /\ mem.idx = MaxIndex
           /\ SignWith(t, Key(mem.idx, "zero", 0), Key(MaxIndex + 1, "zero", 0))
  <2>1. KeyOK(Key(mem.idx, "zero", 0)) /\ Key(mem.idx, "zero", 0).seed = "zero"
      BY <1>2, KeyType, ConstantsAssumption DEF Seeds
  <2>2. QED
      BY <1>0, <1>2, <2>1, LastKeys, SignWithStep
<1>3. CASE mem' = Wiped /\ GiveUp(t)
    BY <1>0, <1>3, LastKeys, SpecialKeys, GiveUpStep
<1>4. QED
    BY <1>1, <1>2, <1>3 DEF SignXmss

\* So does XMSS^MT.
LEMMA SignXmssMtStep ==
  ASSUME IInv, NEW t \in Threads, SignXmssMt(t) PROVE IInv'
<1>0. pc[t] = "sign" /\ mem.seed # "none" /\ faults' \in [FaultKinds -> 0 .. MaxFaults]
    BY Alone DEF SignXmssMt, Signing, IInv, TypeOK
<1>1. CASE mem.idx < MaxIndex /\ SignWith(t, mem, Successor(mem))
  <2>1. /\ KeyOK(Successor(mem)) /\ Successor(mem).seed # "none"
        /\ Position(mem) <= Position(Successor(mem))
        /\ mem.seed = "real" => /\ Position(mem) <= mem.idx
                                /\ mem.idx < Position(Successor(mem))
      BY <1>0, <1>1, SuccessorKey, PositionType DEF IInv
  <2>2. KeyOK(mem)
      BY DEF IInv
  <2>3. QED
      BY <1>0, <1>1, <2>1, <2>2, SignWithStep
<1>2. CASE /\ mem.idx = MaxIndex
           /\ \E i \in PastTheEnd : SignWith(t, Key(mem.idx, "zero", 0), Key(i, "zero", 0))
  <2>1. KeyOK(Key(mem.idx, "zero", 0)) /\ Key(mem.idx, "zero", 0).seed = "zero"
      BY <1>2, KeyType, ConstantsAssumption DEF Seeds
  <2>2. PICK i \in {0, MaxIndex + 1} : SignWith(t, Key(mem.idx, "zero", 0), Key(i, "zero", 0))
      BY <1>2 DEF PastTheEnd
  <2>3. QED
      BY <1>0, <2>1, <2>2, LastKeys, SignWithStep
<1>3. CASE mem' = Wiped /\ GiveUp(t)
    BY <1>0, <1>3, LastKeys, SpecialKeys, GiveUpStep
<1>4. QED
    BY <1>1, <1>2, <1>3 DEF SignXmssMt

\* XMSS without a message buffer loses the index.
LEMMA SignXmssFailsLateStep ==
  ASSUME IInv, NEW t \in Threads, SignXmssFailsLate(t) PROVE IInv'
<1>0. pc[t] = "sign" /\ mem.seed # "none" /\ faults' \in [FaultKinds -> 0 .. MaxFaults]
    BY Alone, FaultType DEF SignXmssFailsLate, Signing, IInv
<1>1. CASE mem.idx < MaxIndex
  <2> DEFINE next == Key(mem.idx + 1, mem.seed, mem.path)
  <2>1. mem.idx \in Nat /\ mem.path \in Nat /\ mem.path <= mem.idx /\ mem.seed \in Seeds
      BY PositionType DEF IInv, KeyOK, Keys
  <2>2. mem' = next
      BY <1>1, <2>1 DEF SignXmssFailsLate, IInv, KeyOK, Keys, Key
  <2>3. KeyOK(next) /\ next.idx = mem.idx + 1 /\ next.seed = mem.seed
      BY <1>1, <2>1, KeyType, ConstantsAssumption
  <2>4. Position(mem) <= Position(next)
      BY <2>1, <2>3, PositionType, ConstantsAssumption DEF IInv, Seeds
  <2> HIDE DEF next
  <2>5. QED
      BY <1>0, <2>2, <2>3, <2>4, GiveUpStep DEF SignXmssFailsLate
<1>2. CASE ~ (mem.idx < MaxIndex)
    BY <1>0, <1>2, LastKeys, GiveUpStep DEF SignXmssFailsLate
<1>3. QED
    BY <1>1, <1>2

\* A call that fails before it touched the key.
LEMMA SignXmssFailsEarlyStep ==
  ASSUME IInv, NEW t \in Threads, SignXmssFailsEarly(t) PROVE IInv'
<1>1. faults' \in [FaultKinds -> 0 .. MaxFaults] /\ pc[t] = "sign" /\ mem.seed # "none"
    BY Alone, FaultType DEF SignXmssFailsEarly, IInv
<1>2. KeyOK(mem') /\ Position(mem) <= Position(mem')
    BY PositionType DEF SignXmssFailsEarly, IInv
<1>3. QED
    BY <1>1, <1>2, GiveUpStep DEF SignXmssFailsEarly

\* The next key of LMS is past the old one.
LEMMA NextLms ==
  ASSUME IInv, mem.seed = "real"
  PROVE  LET next == IF mem.idx = MaxIndex THEN Ended
                     ELSE Key(mem.idx + 1, "real", mem.idx + 1)
         IN  /\ KeyOK(next) /\ next.seed # "none"
             /\ Position(mem) = mem.idx /\ mem.idx < Position(next)
<1>1. mem.idx \in Nat /\ mem.idx <= MaxIndex /\ Position(mem) = mem.idx
    BY PositionType DEF IInv, KeyOK
<1>2. CASE mem.idx = MaxIndex
    BY <1>1, <1>2, LastKeys, SpecialKeys, ConstantsAssumption
<1>3. CASE mem.idx # MaxIndex
  <2>1. mem.idx + 1 \in 0 .. MaxIndex + 1 /\ mem.idx + 1 <= MaxIndex
        /\ mem.idx + 1 \in 0 .. mem.idx + 1
      BY <1>1, <1>3, ConstantsAssumption
  <2>2. /\ KeyOK(Key(mem.idx + 1, "real", mem.idx + 1))
        /\ Key(mem.idx + 1, "real", mem.idx + 1).idx = mem.idx + 1
        /\ Key(mem.idx + 1, "real", mem.idx + 1).seed = "real"
      BY <2>1, KeyType DEF Seeds
  <2>3. QED
      BY <1>1, <1>3, <2>2, PositionType
<1>4. QED
    BY <1>2, <1>3

\* LMS signs.
LEMMA SignLmsStep ==
  ASSUME IInv, NEW t \in Threads, SignLms(t) PROVE IInv'
<1> DEFINE next == IF mem.idx = MaxIndex THEN Ended
                   ELSE Key(mem.idx + 1, "real", mem.idx + 1)
<1>1. /\ pc[t] = "sign" /\ mem.seed = "real" /\ SignWith(t, mem, next)
      /\ faults' \in [FaultKinds -> 0 .. MaxFaults]
    BY DEF SignLms, Signing, IInv, TypeOK
<1>2. /\ KeyOK(next) /\ next.seed # "none"
      /\ Position(mem) = mem.idx /\ mem.idx < Position(next)
    BY <1>1, NextLms
<1>3. mem.idx \in Nat /\ Position(next) \in Nat
    BY <1>2, PositionType, ConstantsAssumption DEF IInv
<1> HIDE DEF next
<1>4. QED
    BY <1>1, <1>2, <1>3, SignWithStep DEF IInv

\* LMS reports a success without a signature.
LEMMA LoadLmsFailsStep ==
  ASSUME IInv, NEW t \in Threads, LoadLmsFails(t) PROVE IInv'
<1>1. /\ pc[t] = "sign" /\ mem.seed # "none"
      /\ faults' \in [FaultKinds -> 0 .. MaxFaults]
    BY Alone, FaultType DEF LoadLmsFails, Signing, IInv, TypeOK
<1>2. Position(mem) \in Nat
    BY PositionType, ConstantsAssumption DEF IInv
<1>3. QED
    BY <1>1, <1>2, SpecialKeys, SignWithStep DEF LoadLmsFails, IInv

\* LMS loses the index when it cannot finish.
LEMMA SignLmsFailsLateStep ==
  ASSUME IInv, NEW t \in Threads, SignLmsFailsLate(t) PROVE IInv'
<1>1. /\ pc[t] = "sign" /\ mem.seed = "real" /\ GiveUp(t)
      /\ faults' \in [FaultKinds -> 0 .. MaxFaults]
    BY FaultType DEF SignLmsFailsLate, Signing, IInv
<1>2. /\ KeyOK(mem') /\ mem'.seed # "none"
      /\ Position(mem) = mem.idx /\ mem.idx < Position(mem')
    BY <1>1, NextLms DEF SignLmsFailsLate
<1>3. mem.idx \in Nat /\ Position(mem') \in Nat
    BY <1>2, PositionType, ConstantsAssumption DEF IInv
<1>4. QED
    BY <1>1, <1>2, <1>3, GiveUpStep

\* A key that reaches the store takes the signature's one-time key with it.
LEMMA DiskStep ==
  ASSUME IInv, NEW t \in Threads, pc[t] = "store",
         NEW answer \in {"ok", "error"}, NEW left \in Keys,
         pc' = [pc EXCEPT ![t] = "unlock"],
         status' = [status EXCEPT ![t] = answer],
         sig' = [sig EXCEPT ![t] = left],
         disk' \in {disk, mem},
         answer = "ok" => disk' = mem /\ left = sig[t],
         faults' \in [FaultKinds -> 0 .. MaxFaults],
         UNCHANGED <<scheme, mem, lock, handed>>
  PROVE  IInv'
<1>1. TypeOK' /\ KeyOK(mem)' /\ KeyOK(disk)'
    BY DEF IInv, TypeOK, KeyOK
<1>2. Position(mem)' = Position(mem) /\ mem.seed # "none" /\ Position(disk) <= Position(mem)
    BY Alone DEF Position, IInv
<1>3. /\ Position(disk) \in Nat /\ Position(mem) \in Nat /\ Position(disk') \in Nat
      /\ Position(disk) <= Position(disk') /\ Position(disk') <= Position(mem)
      /\ disk' = mem => Position(disk') = Position(mem)
    BY <1>2, PositionType, ConstantsAssumption DEF IInv
<1>4. LockHeld' /\ StatusSettled' /\ (mem.seed # "none")'
    BY <1>2, Alone DEF IInv, TypeOK, LockHeld, StatusSettled
<1>5. StoredKeyCoversHandedOut' /\ OneTimeKeysHandedOutOnce'
    BY <1>3, ConstantsAssumption
    DEF IInv, TypeOK, StoredKeyCoversHandedOut, OneTimeKeysHandedOutOnce, Indices
<1>6. SignaturesFresh'
  <2> SUFFICES ASSUME NEW u \in Threads
               PROVE  /\ ~ Pending(u)'
                      /\ Stored(u)' => /\ sig'[u].idx <= MaxIndex
                                       /\ sig'[u].idx < Position(disk')
                                       /\ handed'[sig'[u].idx] = 0
      BY DEF SignaturesFresh
  <2>1. CASE u = t /\ Stored(u)'
    <3>1. Pending(t) /\ sig'[t] = sig[t] /\ disk' = mem
        BY <2>1 DEF Pending, Stored, IInv, TypeOK
    <3>2. /\ sig[t].idx <= MaxIndex /\ Position(disk) <= sig[t].idx
          /\ sig[t].idx < Position(mem) /\ sig[t].idx \in Nat
        BY <3>1, ConstantsAssumption DEF IInv, SignaturesFresh, TypeOK, Keys
    <3>3. sig[t].idx \in Indices /\ handed[sig[t].idx] \in Nat
        BY <3>2, ConstantsAssumption DEF IInv, TypeOK, Indices
    <3>4. handed[sig[t].idx] = 0
        BY <1>3, <3>2, <3>3 DEF IInv, StoredKeyCoversHandedOut
    <3>5. QED
        BY <2>1, <1>3, <3>1, <3>2, <3>4 DEF Pending, IInv, TypeOK
  <2>2. CASE u = t /\ ~ Stored(u)'
      BY <2>2 DEF Pending, IInv, TypeOK
  <2>3. CASE u # t
      BY <2>3, Alone DEF IInv, TypeOK, Pending, Stored
  <2>4. QED
      BY <2>1, <2>2, <2>3
<1>7. QED
    BY <1>1, <1>2, <1>3, <1>4, <1>5, <1>6 DEF IInv

\* The store succeeds.
LEMMA StoreStep ==
  ASSUME IInv, NEW t \in Threads, Store(t) PROVE IInv'
<1>1. sig[t] \in Keys /\ sig' = [sig EXCEPT ![t] = sig[t]]
    BY DEF IInv, TypeOK, Store
<1>2. QED
    BY <1>1, DiskStep DEF Store, IInv, TypeOK

\* The store fails, before or after the key got there.
LEMMA StoreFailsStep ==
  ASSUME IInv, NEW t \in Threads, StoreFails(t) PROVE IInv'
<1> DEFINE left == IF scheme = "LMS" THEN NoKey ELSE sig[t]
<1>1. left \in Keys /\ sig' = [sig EXCEPT ![t] = left]
    BY SpecialKeys DEF IInv, TypeOK, StoreFails, KeyOK
<1>2. status[t] = "error" /\ status' = [status EXCEPT ![t] = "error"]
    BY DEF IInv, TypeOK, StatusSettled, StoreFails
<1>3. faults' \in [FaultKinds -> 0 .. MaxFaults]
    BY FaultType DEF StoreFails, IInv
<1> HIDE DEF left
<1>4. QED
    BY <1>1, <1>2, <1>3, DiskStep DEF StoreFails

\* The call returns: the one-time key it hands out was never handed out.
LEMMA EndStep ==
  ASSUME IInv, NEW t \in Threads, EndSign(t) PROVE IInv'
<1>0. Stored(t) => /\ sig[t].idx \in Indices /\ sig[t].idx < Position(disk)
                   /\ handed[sig[t].idx] = 0
    BY ConstantsAssumption
    DEF IInv, SignaturesFresh, TypeOK, Keys, Indices
<1>1. /\ Stored(t) => handed' = [handed EXCEPT ![sig[t].idx] = 1]
      /\ ~ Stored(t) => handed' = handed
  <2>1. CASE Stored(t)
    <3>1. handed' = [handed EXCEPT ![sig[t].idx] = @ + 1]
        BY <2>1 DEF EndSign, Stored
    <3>2. handed[sig[t].idx] + 1 = 1
        BY <1>0, <2>1
    <3>3. QED
        BY <2>1, <3>1, <3>2
  <2>2. CASE ~ Stored(t)
      BY <2>2 DEF EndSign, Stored
  <2>3. QED
      BY <2>1, <2>2
<1>2. TypeOK'
  <2>1. handed' \in [Indices -> Nat]
      BY <1>0, <1>1 DEF IInv, TypeOK
  <2>2. sig' \in [Threads -> Keys]
      BY SpecialKeys DEF IInv, TypeOK, EndSign, KeyOK
  <2>3. QED
      BY <2>1, <2>2 DEF IInv, TypeOK, EndSign
<1>3. UNCHANGED <<mem, disk>> /\ mem.seed # "none"
    BY Alone DEF EndSign
<1>4. LockHeld' /\ StatusSettled'
    BY Alone, ConstantsAssumption DEF IInv, TypeOK, EndSign, LockHeld, StatusSettled
<1>5. SignaturesFresh'
    BY <1>3, Alone DEF IInv, TypeOK, EndSign, SignaturesFresh, Pending, Stored
<1>6. StoredKeyCoversHandedOut' /\ OneTimeKeysHandedOutOnce'
  <2>1. Position(disk)' = Position(disk)
      BY <1>3 DEF Position
  <2>2. QED
      BY <1>0, <1>1, <2>1 DEF IInv, TypeOK, StoredKeyCoversHandedOut, OneTimeKeysHandedOutOnce
<1>7. QED
    BY <1>2, <1>3, <1>4, <1>5, <1>6 DEF IInv, KeyOK, Position

\* An export that fails keeps the mutex, which stops everyone.
LEMMA ExportFailsStep ==
  ASSUME IInv, NEW t \in Threads, ExportFails(t) PROVE IInv'
<1>1. TypeOK'
    BY FaultType DEF IInv, TypeOK, ExportFails
<1>2. LockHeld' /\ StatusSettled'
    BY ConstantsAssumption DEF IInv, TypeOK, ExportFails, LockHeld, StatusSettled
<1>3. SignaturesFresh'
    BY DEF IInv, ExportFails, SignaturesFresh, Pending, Stored
<1>4. QED
    BY <1>1, <1>2, <1>3
    DEF IInv, ExportFails, KeyOK, StoredKeyCoversHandedOut, OneTimeKeysHandedOutOnce

\* Reading the stored key back while nobody signs.
LEMMA ReloadStep ==
  ASSUME IInv, Reload PROVE IInv'
<1>1. \A t \in Threads : pc[t] = "idle"
    BY ConstantsAssumption DEF IInv, LockHeld, Reload
<1>2. TypeOK' /\ KeyOK(mem)' /\ KeyOK(disk)'
    BY DEF IInv, TypeOK, Reload, KeyOK
<1>3. Position(disk)' <= Position(mem)'
    BY <1>2, PositionType, ConstantsAssumption DEF Reload, IInv
<1>4. LockHeld' /\ StatusSettled' /\ SignaturesFresh'
    BY <1>1 DEF Reload, LockHeld, StatusSettled, SignaturesFresh, Pending, Stored
<1>5. QED
    BY <1>1, <1>2, <1>3, <1>4
    DEF IInv, Reload, StoredKeyCoversHandedOut, OneTimeKeysHandedOutOnce

\* A new process starts from the stored key.
LEMMA RestartStep ==
  ASSUME IInv, Restart PROVE IInv'
<1>1. \A t \in Threads : pc'[t] = "idle"
    BY DEF Restart
<1>2. TypeOK' /\ KeyOK(mem)' /\ KeyOK(disk)'
    BY SpecialKeys, FaultType DEF IInv, TypeOK, Restart, KeyOK
<1>3. Position(disk)' <= Position(mem)' \/ mem'.seed = "none"
    BY <1>2, SpecialKeys, PositionType, ConstantsAssumption DEF Restart, IInv
<1>4. LockHeld' /\ StatusSettled' /\ SignaturesFresh'
    BY <1>1 DEF LockHeld, StatusSettled, SignaturesFresh, Pending, Stored
<1>5. QED
    BY <1>1, <1>2, <1>3, <1>4
    DEF IInv, Restart, StoredKeyCoversHandedOut, OneTimeKeysHandedOutOnce

\* Every step preserves the invariant.
LEMMA StepInvariant == IInv /\ [Next]_vars => IInv'
<1> SUFFICES ASSUME IInv, [Next]_vars PROVE IInv'
    OBVIOUS
<1>1. ASSUME NEW t \in Threads, Refuse(t) \/ BeginSign(t) \/ LockFails(t) \/ ExportFails(t)
      PROVE  IInv'
    BY <1>1, RefuseStep, BeginStep, LockFailsStep, ExportFailsStep
<1>2. ASSUME NEW t \in Threads, InLock(t) PROVE IInv'
    BY <1>2, SignXmssStep, SignXmssMtStep, SignLmsStep, LoadLmsFailsStep,
       SignXmssFailsEarlyStep, SignXmssFailsLateStep, SignLmsFailsLateStep,
       StoreStep, StoreFailsStep, EndStep DEF InLock
<1>3. CASE Reload
    BY <1>3, ReloadStep
<1>4. CASE Restart
    BY <1>4, RestartStep
<1>5. CASE UNCHANGED vars
    BY <1>5
    DEF IInv, vars, TypeOK, KeyOK, Position, LockHeld, SignaturesFresh, Pending, Stored,
        StatusSettled, StoredKeyCoversHandedOut, OneTimeKeysHandedOutOnce
<1>6. QED
    BY <1>1, <1>2, <1>3, <1>4, <1>5 DEF Next, Call

-----------------------------------------------------------------------------
(* The cached path follows the index while no message buffer was short *)

KeyFollows(k) == LateFaults = 0 /\ k.seed = "real" => k.path = k.idx
PathsFollow == /\ KeyFollows(mem)
               /\ KeyFollows(disk)
               /\ \A t \in Threads : KeyFollows(sig[t])

\* A fault of another kind is not a late one, and none is forgotten.
LEMMA LateFaultsCount ==
  ASSUME TypeOK, NEW k, Fault(k)
  PROVE  /\ LateFaults \in Nat
         /\ k # "late" => LateFaults' = LateFaults
         /\ k = "late" => LateFaults' # 0
<1>1. "late" \in FaultKinds => faults["late"] \in Nat
    BY ConstantsAssumption DEF TypeOK
<1>2. k \in FaultKinds /\ faults' = [faults EXCEPT ![k] = @ + 1]
    BY DEF Fault
<1>3. CASE k = "late"
  <2>1. "late" \in FaultKinds /\ faults'["late"] = faults["late"] + 1
      BY <1>2, <1>3 DEF TypeOK
  <2>2. QED
      BY <1>1, <1>3, <2>1 DEF LateFaults
<1>4. CASE k # "late"
  <2>1. "late" \in FaultKinds => faults'["late"] = faults["late"]
      BY <1>2, <1>4 DEF TypeOK
  <2>2. QED
      BY <1>1, <1>4, <2>1 DEF LateFaults
<1>5. QED
    BY <1>3, <1>4

\* Every step keeps the paths on their leaves.
LEMMA StepPaths == IInv /\ PathsFollow /\ [Next]_vars => PathsFollow'
<1> SUFFICES ASSUME IInv, PathsFollow, [Next]_vars PROVE PathsFollow'
    OBVIOUS
<1>0. /\ TypeOK /\ KeyOK(mem) /\ NoKey.seed = "none"
      /\ Ended.seed = "end" /\ Wiped.seed = "zero"
    BY SpecialKeys DEF IInv
<1>1. ASSUME NEW t \in Threads, Refuse(t) \/ BeginSign(t) PROVE PathsFollow'
    BY <1>0, <1>1 DEF PathsFollow, KeyFollows, LateFaults, Refuse, BeginSign, TypeOK
<1>2. ASSUME NEW t \in Threads, LockFails(t) PROVE PathsFollow'
    BY <1>0, <1>2, LateFaultsCount DEF PathsFollow, KeyFollows, LockFails, TypeOK
<1>3. ASSUME NEW t \in Threads, ExportFails(t) PROVE PathsFollow'
    BY <1>0, <1>3, LateFaultsCount DEF PathsFollow, KeyFollows, ExportFails
<1>4. ASSUME NEW t \in Threads, NEW k, NEW next, SignWith(t, k, next),
             LateFaults' = LateFaults, KeyFollows(k), KeyFollows(next)
      PROVE  PathsFollow'
    BY <1>0, <1>4 DEF PathsFollow, KeyFollows, SignWith, TypeOK
<1>5. ASSUME NEW t \in Threads, GiveUp(t), LateFaults' = LateFaults, KeyFollows(mem')
      PROVE  PathsFollow'
    BY <1>0, <1>5 DEF PathsFollow, KeyFollows, GiveUp
<1>6. ASSUME NEW i, NEW p PROVE KeyFollows(Key(i, "zero", p))
    BY DEF KeyFollows, Key
<1>7. KeyFollows(Successor(mem)) /\ KeyFollows(mem)
    BY DEF PathsFollow, KeyFollows, Successor, Key
<1>8. KeyFollows(IF mem.idx = MaxIndex THEN Ended ELSE Key(mem.idx + 1, "real", mem.idx + 1))
    BY <1>0 DEF KeyFollows, Key
<1>9. KeyFollows(Wiped) /\ KeyFollows(NoKey)
    BY <1>0 DEF KeyFollows
<1>10. (UNCHANGED faults) => LateFaults' = LateFaults
    BY DEF LateFaults
<1>11. ASSUME NEW t \in Threads, SignXmss(t) PROVE PathsFollow'
    BY <1>11, <1>4, <1>5, <1>6, <1>7, <1>9, <1>10 DEF SignXmss
<1>12. ASSUME NEW t \in Threads, SignXmssMt(t) PROVE PathsFollow'
    BY <1>12, <1>4, <1>5, <1>6, <1>7, <1>9, <1>10 DEF SignXmssMt
<1>13. ASSUME NEW t \in Threads, SignLms(t) PROVE PathsFollow'
    BY <1>13, <1>4, <1>7, <1>8, <1>10 DEF SignLms
<1>14. ASSUME NEW t \in Threads, LoadLmsFails(t) PROVE PathsFollow'
    BY <1>0, <1>14, <1>4, <1>7, <1>9, <1>10, LateFaultsCount DEF LoadLmsFails
<1>15. ASSUME NEW t \in Threads, SignXmssFailsEarly(t) PROVE PathsFollow'
    BY <1>0, <1>15, <1>5, <1>7, LateFaultsCount DEF SignXmssFailsEarly
<1>16. ASSUME NEW t \in Threads, SignXmssFailsLate(t) \/ SignLmsFailsLate(t) PROVE PathsFollow'
    BY <1>0, <1>16, LateFaultsCount
    DEF SignXmssFailsLate, SignLmsFailsLate, PathsFollow, KeyFollows
<1>17. ASSUME NEW t \in Threads, Store(t) \/ EndSign(t) PROVE PathsFollow'
    BY <1>0, <1>17, <1>10 DEF Store, EndSign, PathsFollow, KeyFollows, TypeOK
<1>18. ASSUME NEW t \in Threads, StoreFails(t) PROVE PathsFollow'
    BY <1>0, <1>18, LateFaultsCount DEF StoreFails, PathsFollow, KeyFollows, TypeOK
<1>19. CASE Reload
    BY <1>19, <1>10 DEF Reload, PathsFollow, KeyFollows
<1>20. CASE Restart
    BY <1>0, <1>20, LateFaultsCount DEF Restart, PathsFollow, KeyFollows
<1>21. CASE UNCHANGED vars
    BY <1>21, <1>10 DEF vars, PathsFollow, KeyFollows
<1>22. QED
    BY <1>1, <1>2, <1>3, <1>11, <1>12, <1>13, <1>14, <1>15, <1>16, <1>17, <1>18,
       <1>19, <1>20, <1>21 DEF Next, Call, InLock

-----------------------------------------------------------------------------
(* Theorems *)

\* The invariant holds of every behaviour.
THEOREM InvariantHolds == Spec => []IInv
BY InitInvariant, StepInvariant, PTL DEF Spec

\* Every variable keeps its type: no index, path or counter leaves its range.
THEOREM TypeCorrect == Spec => []TypeOK
<1>1. IInv => TypeOK
    BY DEF IInv
<1>2. QED
    BY <1>1, InvariantHolds, PTL

\* No one-time key is handed out twice, whichever thread, failure or crash
\* comes between two signatures.
THEOREM OneTimeKeysOnce == Spec => []OneTimeKeysHandedOutOnce
<1>1. IInv => OneTimeKeysHandedOutOnce
    BY DEF IInv
<1>2. QED
    BY <1>1, InvariantHolds, PTL

\* The stored key is always past every one-time key that was handed out.
THEOREM StoredKeyCovers == Spec => []StoredKeyCoversHandedOut
<1>1. IInv => StoredKeyCoversHandedOut
    BY DEF IInv
<1>2. QED
    BY <1>1, InvariantHolds, PTL

\* A returned signature carries the path of its own leaf while no message
\* buffer was short.
THEOREM ReturnedSignaturesVerify == Spec => []SignaturesVerify
<1>1. Init => PathsFollow
    BY SpecialKeys DEF Init, PathsFollow, KeyFollows, Key
<1>2. IInv /\ PathsFollow => SignaturesVerify
  <2>1. IInv => LateFaults \in Nat
      BY ConstantsAssumption DEF IInv, TypeOK, LateFaults
  <2>2. QED
      BY <2>1 DEF PathsFollow, KeyFollows, SignaturesVerify
<1>3. QED
    BY <1>1, <1>2, StepPaths, InvariantHolds, PTL DEF Spec

\* The stored bound and the handed-out keys behave as OneTimeKeys says: the
\* bound only grows, and a key is handed out once, below the bound.
THEOREM StatefulKeyImplementsOneTimeKeys == Spec => ImplementsOneTimeKeys
<1>1. Init => OTK!Init
    BY SpecialKeys, PositionType, ConstantsAssumption
    DEF Init, OTK!Init, HandedOut, Indices
<1>2. IInv /\ [Next]_vars => [OTK!Next]_OTK!vars
  <2> SUFFICES ASSUME IInv, [Next]_vars PROVE [OTK!Next]_OTK!vars
      OBVIOUS
  <2>1. Position(disk) \in 0 .. MaxIndex + 1 /\ Position(mem) \in 0 .. MaxIndex + 1
      BY PositionType DEF IInv
  <2>2. (UNCHANGED <<disk, handed>>) => UNCHANGED OTK!vars
      BY DEF OTK!vars, Position, HandedOut
  <2>3. ASSUME NEW t \in Threads, Store(t) \/ StoreFails(t) PROVE [OTK!Next]_OTK!vars
    <3>1. disk' \in {disk, mem} /\ handed' = handed /\ Position(disk) <= Position(mem)
        BY <2>3, Alone DEF Store, StoreFails, IInv
    <3>2. HandedOut' = HandedOut
        BY <3>1 DEF HandedOut
    <3>3. Position(disk)' = Position(disk)
          \/ Position(disk)' \in (Position(disk) + 1) .. (MaxIndex + 1)
        BY <2>1, <3>1, ConstantsAssumption DEF Position
    <3>4. QED
        BY <3>2, <3>3 DEF OTK!vars, OTK!Next, OTK!Reserve
  <2>4. ASSUME NEW t \in Threads, EndSign(t) PROVE [OTK!Next]_OTK!vars
    <3>1. CASE Stored(t)
      <4>1. /\ sig[t].idx \in Indices /\ sig[t].idx < Position(disk) /\ handed[sig[t].idx] = 0
          BY <3>1, ConstantsAssumption DEF IInv, SignaturesFresh, TypeOK, Keys, Indices
      <4>2. disk' = disk /\ handed' = [handed EXCEPT ![sig[t].idx] = @ + 1]
          BY <2>4, <3>1 DEF EndSign, Stored
      <4>3. HandedOut' = HandedOut \cup {sig[t].idx} /\ sig[t].idx \notin HandedOut
          BY <4>1, <4>2 DEF HandedOut, IInv, TypeOK
      <4>4. Position(disk)' = Position(disk)
          BY <4>2 DEF Position
      <4>5. QED
          BY <4>1, <4>3, <4>4 DEF OTK!Next, OTK!HandOut, Indices
    <3>2. CASE ~ Stored(t)
        BY <2>2, <2>4, <3>2 DEF EndSign, Stored
    <3>3. QED
        BY <3>1, <3>2
  <2>5. CASE UNCHANGED vars
      BY <2>2, <2>5 DEF vars
  <2>6. QED
      BY <2>2, <2>3, <2>4, <2>5
      DEF Next, Call, InLock, Refuse, BeginSign, LockFails, ExportFails, Reload, Restart,
          SignXmss, SignXmssMt, SignLms, LoadLmsFails, SignXmssFailsEarly,
          SignXmssFailsLate, SignLmsFailsLate, SignWith, GiveUp
<1>3. QED
    BY <1>1, <1>2, InvariantHolds, PTL DEF Spec, ImplementsOneTimeKeys, OTK!Spec

-----------------------------------------------------------------------------
(* The count of remaining signatures *)

\* A number of the index is taken apart into its parts and put together again.
LEMMA PartsOfIndex ==
  ASSUME NEW i \in 0 .. Word - 1
  PROVE  /\ Bytes(i) \in ByteValues
         /\ Bytes(i)["high"] = i \div Base
         /\ Number(Bytes(i)) = i
<1>1. /\ Base \in Nat \ {0} /\ Word \in Nat /\ Word % Base = 0
      /\ i \in Nat /\ i < Word
    BY QueryAssumption
<1>2. /\ i \div Base \in Nat /\ i % Base \in 0 .. Base - 1
      /\ i = Base * (i \div Base) + (i % Base)
    BY <1>1
<1>3. Word \div Base \in Nat /\ Word = Base * (Word \div Base)
    BY <1>1
<1>4. i \div Base < Word \div Base
    BY <1>1, <1>2, <1>3
<1>5. i \div Base \in 0 .. Word - 1 /\ i % Base \in 0 .. Word - 1
    BY <1>1, <1>2, <1>3, <1>4
<1>6. /\ Bytes(i) \in [Parts -> 0 .. Word - 1]
      /\ Bytes(i)["high"] = i \div Base /\ Bytes(i)["low"] = i % Base
    BY <1>5 DEF Bytes, Parts
<1>7. QED
    BY <1>1, <1>2, <1>4, <1>6 DEF ByteValues, Number

\* Parts of two numbers make a number of the same width.
LEMMA NumberWidth ==
  ASSUME NEW b \in ByteValues
  PROVE  /\ b["high"] \in Nat /\ b["low"] \in Nat
         /\ Number(b) \in 0 .. Word - 1
<1> DEFINE w == Word \div Base
           h == b["high"]
           l == b["low"]
<1>1. /\ Base \in Nat \ {0} /\ Word \in Nat /\ Word % Base = 0
    BY QueryAssumption
<1>2. w \in Nat /\ Word = w * Base
    BY <1>1
<1>3. h \in Nat /\ l \in Nat /\ h < w /\ l < Base /\ Number(b) = h * Base + l
    BY DEF ByteValues, Parts, Number
<1> HIDE DEF w, h, l
<1>4. h * Base + Base <= w * Base
    BY <1>1, <1>2, <1>3
<1>5. h * Base \in Nat
    BY <1>1, <1>3
<1>6. QED
    BY <1>1, <1>2, <1>3, <1>4, <1>5 DEF h, l

\* The answer keeps the width of the arithmetic.
LEMMA RemainingWidth ==
  ASSUME NEW i \in 0 .. Word - 1
  PROVE  /\ SigsRemaining(i) \in 0 .. Word - 1
         /\ i <= MaxIndex => SigsRemaining(i) = MaxIndex - i
BY QueryAssumption, ConstantsAssumption DEF SigsRemaining, SigsTotal

\* A set of indices below a number has no more elements than the number.
LEMMA FewBelow ==
  ASSUME NEW n \in Nat, NEW S, S \subseteq Nat, \A i \in S : i < n
  PROVE  Cardinality(S) \in Nat /\ Cardinality(S) <= n
<1>1. S \subseteq 0 .. (n - 1)
    OBVIOUS
<1>2. 0 \in Int /\ n - 1 \in Int
    OBVIOUS
<1>3. /\ IsFiniteSet(0 .. (n - 1))
      /\ Cardinality(0 .. (n - 1)) = IF 0 > n - 1 THEN 0 ELSE n - 1 - 0 + 1
    BY <1>2, FS_Interval, Zenon
<1>4. Cardinality(0 .. (n - 1)) = n
    BY <1>3
<1>5. QED
    BY <1>1, <1>3, <1>4, FS_Subset, FS_CardinalityType

\* The bytes of a key are an index, and of a usable key its own.
LEMMA BytesOfKey ==
  ASSUME NEW k, KeyOK(k)
  PROVE  /\ IndexBytes(k) \in ByteValues
         /\ k.seed = "real" => /\ k.idx \in 0 .. MaxIndex
                               /\ IndexBytes(k)["high"] = k.idx \div Base
                               /\ Number(IndexBytes(k)) = k.idx
<1>1. /\ k.idx \in 0 .. Word - 1 /\ Word - 1 \in 0 .. Word - 1
      /\ k.seed = "real" => k.idx \in 0 .. MaxIndex
    BY PositionType, QueryAssumption, ConstantsAssumption DEF KeyOK, Keys
<1>2. QED
    BY <1>1, PartsOfIndex DEF IndexBytes

(* What is still to be stored ends with the index of the key, and comes    *)
(* after zeros only where the key is wiped.                                *)
WritesOK ==
  /\ writes \in {<<>>, <<IndexBytes(mem)>>, <<Bytes(0), IndexBytes(mem)>>}
  /\ mem.seed = "real" => writes \in {<<>>, <<IndexBytes(mem)>>}
  /\ writes = <<>> => bytes = IndexBytes(mem)
  /\ scheme = "LMS" /\ lock = NoThread => writes = <<>>

(* A steady query finds its parts as memory has them, and every number it  *)
(* may put together is past what was handed out before.                    *)
Past(q, n) == n <= MaxIndex /\ \A i \in before[q] : i < n
SteadyReading(q) ==
  rpc[q] = "reading" /\ steady[q]
    => /\ scheme # "LMS"
       /\ mem.seed = "real"
       /\ bytes["high"] = mem.idx \div Base
       /\ Past(q, Number(bytes))
       /\ "high" \notin unread[q] => seen[q]["high"] = bytes["high"]
       /\ "low" \notin unread[q] => Past(q, bytes["high"] * Base + seen[q]["low"])
SteadyChecked(q) == rpc[q] = "checked" => scheme = "LMS" /\ (steady[q] => mem.seed = "real")
Queries == \A q \in Readers : /\ Asking(q) => before[q] \subseteq HandedOut
                              /\ SteadyReading(q)
                              /\ SteadyChecked(q)

QInv == IInv /\ QTypeOK /\ WritesOK /\ Queries /\ RemainingNeverOverstated

\* A usable key is past everything that was handed out.
LEMMA UsableKeyPast ==
  ASSUME IInv, mem.seed = "real"
  PROVE  mem.idx <= MaxIndex /\ \A i \in HandedOut : i \in Nat /\ i < mem.idx
<1>1. /\ mem.idx \in Nat /\ mem.idx <= MaxIndex /\ Position(mem) = mem.idx
      /\ Position(disk) \in Nat /\ Position(disk) <= mem.idx
    BY PositionType, ConstantsAssumption DEF IInv, KeyOK
<1>2. QED
    BY <1>1, ConstantsAssumption DEF HandedOut, IInv, TypeOK, StoredKeyCoversHandedOut, Indices

\* What was handed out stays handed out.
LEMMA HandedOutGrows == IInv /\ [Next]_vars => HandedOut \subseteq HandedOut'
<1> SUFFICES ASSUME IInv, [Next]_vars PROVE HandedOut \subseteq HandedOut'
    OBVIOUS
<1>1. ASSUME NEW t \in Threads, EndSign(t) PROVE HandedOut \subseteq HandedOut'
    BY <1>1 DEF EndSign, HandedOut, IInv, TypeOK
<1>2. (UNCHANGED handed) => HandedOut' = HandedOut
    BY DEF HandedOut
<1>3. QED
    BY <1>1, <1>2
    DEF Next, Call, InLock, Refuse, BeginSign, LockFails, ExportFails, Reload, Restart,
        Store, StoreFails, SignXmss, SignXmssMt, SignLms, LoadLmsFails, SignXmssFailsEarly,
        SignXmssFailsLate, SignLmsFailsLate, SignWith, GiveUp, vars

\* No query is under way initially.
LEMMA QInitInvariant == QInit => QInv
<1> SUFFICES ASSUME QInit PROVE QInv
    OBVIOUS
<1>1. IInv /\ mem.seed = "real" /\ mem.idx = 0
    BY InitInvariant, KeyType, ConstantsAssumption DEF QInit, Init, Seeds
<1>2. 0 \in 0 .. Word - 1
    BY QueryAssumption, ConstantsAssumption
<1>3. Bytes(0) \in ByteValues /\ IndexBytes(mem) = Bytes(0)
    BY <1>1, <1>2, PartsOfIndex DEF IndexBytes
<1>4. QTypeOK
    BY <1>2, <1>3 DEF QInit, QTypeOK, Parts
<1>5. WritesOK
    BY <1>3 DEF QInit, WritesOK
<1>6. Queries /\ RemainingNeverOverstated
    BY DEF QInit, Queries, SteadyReading, SteadyChecked, Asking, RemainingNeverOverstated
<1>7. QED
    BY <1>1, <1>4, <1>5, <1>6 DEF QInv

\* A call that changes a key whose index is the last one wipes it, and only
\* the holder of the mutex changes the key of LMS.
LEMMA CallChangesKey ==
  ASSUME IInv, NEW t \in Threads, Call(t), mem' # mem
  PROVE  /\ scheme' = scheme /\ mem.seed # "none"
         /\ scheme # "LMS" /\ mem.idx >= MaxIndex => mem'.seed # "real"
         /\ lock' # NoThread
         /\ mem'.seed = "real" => mem.seed = "real"
<1>1. lock = t => lock # NoThread
    BY ConstantsAssumption
<1>2. /\ Wiped.seed = "zero" /\ Ended.seed = "end" /\ mem.idx \in Nat
      /\ \A i, p : Key(i, "zero", p).seed = "zero"
      /\ \A i, p, s : Key(i, s, p).seed = s
    BY SpecialKeys, PositionType DEF IInv, Key
<1>3. pc[t] = "sign" /\ lock' = lock /\ scheme' = scheme
    BY DEF Call, InLock, Refuse, BeginSign, LockFails, ExportFails, Store, StoreFails, EndSign,
        SignXmss, SignXmssMt, SignLms, LoadLmsFails, SignXmssFailsEarly,
        SignXmssFailsLate, SignLmsFailsLate, SignWith, GiveUp, Signing
<1>4. lock = t /\ mem.seed # "none"
    BY <1>3, Alone
<1>5. \/ SignXmss(t) \/ SignXmssMt(t) \/ SignXmssFailsLate(t)
      \/ scheme = "LMS" /\ mem.seed = "real"
    BY DEF Call, InLock, Refuse, BeginSign, LockFails, ExportFails, Store, StoreFails, EndSign,
        SignLms, LoadLmsFails, SignXmssFailsEarly, SignLmsFailsLate, SignWith, Signing
<1>6. CASE SignXmss(t) \/ SignXmssMt(t)
  <2>1. \/ mem.idx < MaxIndex /\ mem' = Successor(mem)
        \/ mem'.seed = "zero"
      BY <1>2, <1>6 DEF SignXmss, SignXmssMt, SignWith
  <2>2. Successor(mem).seed = mem.seed
      BY <1>2 DEF Successor
  <2>3. QED
      BY <1>1, <1>2, <1>3, <1>4, <2>1, <2>2, ConstantsAssumption
<1>7. CASE SignXmssFailsLate(t)
  <2>1. \/ mem.idx < MaxIndex /\ mem' = [mem EXCEPT !.idx = @ + 1]
        \/ mem'.seed = "zero"
      BY <1>2, <1>7 DEF SignXmssFailsLate
  <2>2. [mem EXCEPT !.idx = @ + 1].seed = mem.seed
      BY DEF IInv, KeyOK, Keys
  <2>3. CASE mem.idx < MaxIndex /\ mem'.seed = mem.seed
      BY <1>1, <1>2, <1>3, <1>4, <2>3, ConstantsAssumption
  <2>4. CASE mem'.seed = "zero"
      BY <1>1, <1>3, <1>4, <2>4
  <2>5. QED
      BY <2>1, <2>2, <2>3, <2>4
<1>8. QED
    BY <1>1, <1>3, <1>4, <1>5, <1>6, <1>7

\* A reader that is still asking after a step of the others was asking before,
\* with the same parts.
LEMMA QueriesWatched ==
  ASSUME QInv, IInv', [Next]_vars, Watch, scheme' = scheme, bytes' = bytes, writes = <<>>,
         UNCHANGED <<rpc, unread, seen, remain, before>>
  PROVE  Queries' /\ RemainingNeverOverstated'
<1>1. HandedOut \subseteq HandedOut'
    BY HandedOutGrows DEF QInv
<1>2. SUFFICES ASSUME NEW q \in Readers
               PROVE  /\ Asking(q)' => before'[q] \subseteq HandedOut'
                      /\ SteadyReading(q)' /\ SteadyChecked(q)'
                      /\ rpc'[q] = "answered" /\ steady'[q] => NotOverstated(q)'
    BY DEF Queries, RemainingNeverOverstated
<1>3. /\ Asking(q)' = Asking(q) /\ Past(q, Number(bytes))' = Past(q, Number(bytes))
      /\ Past(q, bytes["high"] * Base + seen[q]["low"])'
           = Past(q, bytes["high"] * Base + seen[q]["low"])
      /\ NotOverstated(q)' = NotOverstated(q)
    BY DEF Asking, Past, NotOverstated, Number
<1>4. Asking(q)' => before'[q] \subseteq HandedOut'
    BY <1>1, <1>3 DEF QInv, Queries
<1>5. Asking(q) /\ steady'[q]
        => /\ steady[q] /\ mem'.seed = "real"
           /\ scheme = "LMS" \/ mem'.idx \div Base = mem.idx \div Base
    BY DEF Watch
<1>6. SteadyReading(q)'
    BY <1>3, <1>5 DEF SteadyReading, QInv, Queries, Asking
<1>7. SteadyChecked(q)'
    BY <1>5 DEF SteadyChecked, QInv, Queries, Asking
<1>8. ~ Asking(q) => steady'[q] = steady[q]
    BY DEF Watch
<1>9. rpc'[q] = "answered" /\ steady'[q] => NotOverstated(q)'
    BY <1>3, <1>8 DEF QInv, RemainingNeverOverstated, Asking
<1>10. QED
    BY <1>4, <1>6, <1>7, <1>9

\* The types after such a step.
LEMMA TypesWatched ==
  ASSUME QTypeOK, Watch, bytes' = bytes, writes' \in Seq(ByteValues),
         UNCHANGED <<rpc, unread, seen, remain, before>>
  PROVE  QTypeOK'
<1>1. steady' \in [Readers -> BOOLEAN]
  <2>1. ASSUME NEW q \in Readers
        PROVE  (IF Asking(q)
                THEN /\ steady[q] /\ mem'.seed = "real"
                     /\ scheme = "LMS" \/ mem'.idx \div Base = mem.idx \div Base
                ELSE steady[q]) \in BOOLEAN
      BY DEF QTypeOK
  <2>2. QED
      BY <2>1, Zenon DEF Watch
<1>2. QED
    BY <1>1 DEF QTypeOK

\* A step of a call.
LEMMA CallQueries ==
  ASSUME QInv, NEW t \in Threads, CallStep(t) PROVE QInv'
<1>1. Call(t) /\ Next
    BY DEF CallStep, Next
<1>2. IInv /\ IInv' /\ writes = <<>> /\ bytes = IndexBytes(mem)
    BY <1>1, StepInvariant DEF QInv, WritesOK, CallStep
<1>3. IndexBytes(mem)' \in ByteValues /\ Bytes(0) \in ByteValues
  <2>1. IndexBytes(mem') \in ByteValues
      BY <1>2, BytesOfKey DEF IInv
  <2>2. 0 \in 0 .. Word - 1
      BY QueryAssumption, ConstantsAssumption
  <2>3. QED
      BY <2>1, <2>2, PartsOfIndex DEF IndexBytes
<1>4. IndexBytes(mem)' = IndexBytes(mem')
    BY DEF IndexBytes
<1>5. scheme' = scheme
    BY <1>1 DEF Call, InLock, Refuse, BeginSign, LockFails, ExportFails, Store, StoreFails,
        EndSign, SignXmss, SignXmssMt, SignLms, LoadLmsFails, SignXmssFailsEarly,
        SignXmssFailsLate, SignLmsFailsLate, SignWith, GiveUp
<1>6. \/ mem' = mem /\ writes' = <<>>
      \/ mem' # mem /\ scheme # "LMS" /\ mem.idx >= MaxIndex
            /\ writes' = <<Bytes(0), IndexBytes(mem')>>
      \/ mem' # mem /\ writes' = <<IndexBytes(mem')>>
    BY DEF CallStep, KeyWrites
<1>7. WritesOK'
    BY <1>1, <1>2, <1>4, <1>5, <1>6, CallChangesKey DEF WritesOK, CallStep, IndexBytes
<1>8. writes' \in Seq(ByteValues)
  <2>1. ASSUME NEW a \in ByteValues, NEW b \in ByteValues
        PROVE  <<>> \in Seq(ByteValues) /\ <<b>> \in Seq(ByteValues)
               /\ <<a, b>> \in Seq(ByteValues)
      OBVIOUS
  <2>2. writes' \in {<<>>, <<IndexBytes(mem')>>, <<Bytes(0), IndexBytes(mem')>>}
      BY <1>6
  <2>3. IndexBytes(mem') \in ByteValues /\ Bytes(0) \in ByteValues
      BY <1>3, <1>4
  <2>4. QED
      BY <2>1, <2>2, <2>3, Zenon
<1>9. QTypeOK'
    BY <1>8, TypesWatched DEF QInv, CallStep
<1>10. Queries' /\ RemainingNeverOverstated'
    BY <1>1, <1>2, <1>5, QueriesWatched DEF CallStep
<1>11. QED
    BY <1>2, <1>7, <1>9, <1>10 DEF QInv

\* The stored key is reloaded.
LEMMA ReloadQueries == ASSUME QInv, ReloadKey PROVE QInv'
<1>1. Reload /\ Next /\ scheme' = scheme /\ scheme # "LMS"
    BY DEF ReloadKey, Next, Reload
<1>2. IInv /\ IInv' /\ writes = <<>>
    BY <1>1, StepInvariant DEF QInv, ReloadKey
<1>3. IndexBytes(mem') \in ByteValues /\ IndexBytes(mem)' = IndexBytes(mem')
    BY <1>2, BytesOfKey DEF IInv, IndexBytes
<1>4. WritesOK'
    BY <1>1, <1>3 DEF WritesOK, ReloadKey
<1>5. QTypeOK'
    BY <1>3, TypesWatched DEF QInv, ReloadKey
<1>6. Queries' /\ RemainingNeverOverstated'
    BY <1>1, <1>2, QueriesWatched DEF ReloadKey
<1>7. QED
    BY <1>2, <1>4, <1>5, <1>6 DEF QInv

\* A restart ends the queries.
LEMMA RestartQueries == ASSUME QInv, RestartProcess PROVE QInv'
<1>1. IInv' /\ IndexBytes(mem') \in ByteValues
    BY StepInvariant, BytesOfKey DEF QInv, RestartProcess, Next, IInv
<1>2. QTypeOK'
    BY <1>1 DEF QInv, QTypeOK, RestartProcess
<1>3. WritesOK'
    BY DEF WritesOK, RestartProcess, IndexBytes
<1>4. Queries' /\ RemainingNeverOverstated'
    BY DEF Queries, SteadyReading, SteadyChecked, Asking, RemainingNeverOverstated, RestartProcess
<1>5. QED
    BY <1>1, <1>2, <1>3, <1>4 DEF QInv

\* While the key is usable, what was handed out is behind its index.
LEMMA UsableKeyIsPast ==
  ASSUME QInv, NEW q \in Readers, before[q] \subseteq HandedOut, mem.seed = "real"
  PROVE  Past(q, mem.idx)
BY UsableKeyPast DEF QInv, Past

\* One part of the index is stored. A steady query sees only the lowest one
\* change, and then the index is the one memory has.
LEMMA StorePartQueries ==
  ASSUME QInv, NEW p \in Parts, StorePart(p) PROVE QInv'
<1>1. /\ writes # <<>> /\ bytes' = [bytes EXCEPT ![p] = Head(writes)[p]]
      /\ bytes[p] # Head(writes)[p]
      /\ UNCHANGED <<vars, writes, rpc, unread, seen, remain, before, steady>>
    BY DEF StorePart
<1>2. IInv /\ IInv'
    BY <1>1, StepInvariant DEF QInv
<1>3. Head(writes) \in ByteValues
    BY <1>1 DEF QInv, QTypeOK
<1>4. bytes \in ByteValues /\ bytes' \in ByteValues
    BY <1>1, <1>3 DEF QInv, QTypeOK, ByteValues, Parts
<1>5. QTypeOK'
    BY <1>1, <1>4 DEF QInv, QTypeOK
<1>6. WritesOK'
    BY <1>1 DEF QInv, WritesOK, IndexBytes, vars
<1>7. ASSUME NEW q \in Readers, rpc[q] = "reading", steady[q]
      PROVE  bytes'["high"] = bytes["high"] /\ Past(q, Number(bytes'))
  <2>1. /\ mem.seed = "real" /\ bytes["high"] = mem.idx \div Base
        /\ before[q] \subseteq HandedOut
      BY <1>7 DEF QInv, Queries, SteadyReading, Asking
  <2>2. Head(writes) = IndexBytes(mem)
      BY <1>1, <2>1 DEF QInv, WritesOK
  <2>3. Head(writes)["high"] = bytes["high"] /\ Number(IndexBytes(mem)) = mem.idx
      BY <1>2, <2>1, <2>2, BytesOfKey DEF IInv
  <2>4. p = "low"
      BY <1>1, <2>3 DEF Parts
  <2>5. bytes'["high"] = bytes["high"] /\ bytes'["low"] = Head(writes)["low"]
      BY <1>1, <1>4, <2>4 DEF ByteValues, Parts
  <2>6. Number(bytes') = mem.idx
      BY <2>2, <2>3, <2>5 DEF Number
  <2>7. QED
      BY <2>1, <2>5, <2>6, UsableKeyIsPast
<1>8. ASSUME NEW q \in Readers PROVE SteadyReading(q)' /\ SteadyChecked(q)'
  <2>1. Past(q, Number(bytes))' = Past(q, Number(bytes'))
      BY <1>1 DEF Past, Number
  <2>2. Past(q, bytes["high"] * Base + seen[q]["low"])'
          = Past(q, bytes'["high"] * Base + seen[q]["low"])
      BY <1>1 DEF Past
  <2>3. SteadyReading(q)'
      BY <1>1, <1>7, <2>1, <2>2 DEF SteadyReading, QInv, Queries, vars
  <2>4. SteadyChecked(q)'
      BY <1>1 DEF SteadyChecked, QInv, Queries, vars
  <2>5. QED
      BY <2>3, <2>4
<1>9. Queries' /\ RemainingNeverOverstated'
    BY <1>1, <1>8 DEF Queries, Asking, HandedOut, QInv, RemainingNeverOverstated,
        NotOverstated, vars
<1>10. QED
    BY <1>2, <1>5, <1>6, <1>9 DEF QInv

\* The index is stored.
LEMMA StoreDoneQueries == ASSUME QInv, StoreDone PROVE QInv'
<1>1. /\ writes # <<>> /\ bytes = Head(writes) /\ writes' = Tail(writes)
      /\ UNCHANGED <<vars, bytes, rpc, unread, seen, remain, before, steady>>
    BY DEF StoreDone
<1>2. IInv'
    BY <1>1, StepInvariant DEF QInv
<1>3. IndexBytes(mem)' = IndexBytes(mem)
    BY <1>1 DEF IndexBytes, vars
<1>4. WritesOK'
  <2>1. ASSUME NEW a, NEW b
        PROVE  /\ Tail(<<b>>) = <<>> /\ Head(<<b>>) = b /\ Tail(<<a, b>>) = <<b>>
               /\ <<b>> # <<>> /\ <<a, b>> # <<>>
      OBVIOUS
  <2>2. \/ writes = <<IndexBytes(mem)>> /\ writes' = <<>> /\ bytes = IndexBytes(mem)
        \/ /\ writes = <<Bytes(0), IndexBytes(mem)>> /\ writes' = <<IndexBytes(mem)>>
           /\ mem.seed # "real" /\ ~ (scheme = "LMS" /\ lock = NoThread)
    <3>1. CASE writes = <<IndexBytes(mem)>>
        BY <1>1, <2>1, <3>1
    <3>2. CASE writes = <<Bytes(0), IndexBytes(mem)>> /\ writes # <<IndexBytes(mem)>>
        BY <1>1, <2>1, <3>2, Zenon DEF QInv, WritesOK
    <3>3. QED
        BY <1>1, <3>1, <3>2 DEF QInv, WritesOK
  <2>3. mem' = mem /\ bytes' = bytes /\ lock' = lock /\ scheme' = scheme
      BY <1>1 DEF vars
  <2>4. QED
      BY <1>3, <2>1, <2>2, <2>3 DEF WritesOK
<1>5. QTypeOK'
  <2>1. writes \in Seq(ByteValues)
      BY DEF QInv, QTypeOK
  <2>2. writes' \in Seq(ByteValues)
      BY <1>1, <2>1
  <2>3. QED
      BY <1>1, <2>2 DEF QInv, QTypeOK
<1>6. Queries' /\ RemainingNeverOverstated'
    BY <1>1 DEF Queries, SteadyReading, SteadyChecked, Past, Number, Asking, HandedOut,
        QInv, RemainingNeverOverstated, NotOverstated, vars
<1>7. QED
    BY <1>2, <1>4, <1>5, <1>6 DEF QInv

\* A query that ends without an answer, and steps that change nothing here.
LEMMA QuietQueries ==
  ASSUME QInv, \/ \E q \in Readers : QueryFails(q)
               \/ UNCHANGED <<vars, qvars>>
  PROVE  QInv'
<1>1. UNCHANGED <<vars, bytes, writes, unread, seen, remain, before, steady>>
    BY DEF QueryFails, qvars
<1>2. \/ rpc' = rpc
      \/ \E q \in Readers : rpc' = [rpc EXCEPT ![q] = "failed"]
    BY DEF QueryFails, qvars
<1>3. rpc \in [Readers -> {"idle", "reading", "checked", "answered", "failed"}]
    BY DEF QInv, QTypeOK
<1>4. /\ rpc' \in [Readers -> {"idle", "reading", "checked", "answered", "failed"}]
      /\ \A q \in Readers : rpc'[q] \in {rpc[q], "failed"}
    BY <1>2, <1>3
<1>5. IInv'
    BY <1>1, StepInvariant DEF QInv
<1>6. QTypeOK'
    BY <1>1, <1>4 DEF QInv, QTypeOK
<1>7. WritesOK'
    BY <1>1 DEF QInv, WritesOK, IndexBytes, vars
<1>8. Queries' /\ RemainingNeverOverstated'
    BY <1>1, <1>4 DEF Queries, SteadyReading, SteadyChecked, Past, Number, Asking,
        HandedOut, QInv, RemainingNeverOverstated, NotOverstated, vars
<1>9. QED
    BY <1>5, <1>6, <1>7, <1>8 DEF QInv

\* A query begins: what it may answer is past what was handed out so far.
LEMMA BeginQueries ==
  ASSUME QInv, NEW r \in Readers, BeginXmss(r) \/ BeginLms(r) PROVE QInv'
<1>1. PICK location \in {"reading", "checked"}, parts \in SUBSET Parts, quiet \in BOOLEAN :
        /\ BeginQuery(r, location, parts, quiet)
        /\ \/ /\ location = "reading" /\ scheme # "LMS" /\ parts = Parts
              /\ quiet = (writes = <<>>)
           \/ location = "checked" /\ scheme = "LMS" /\ mem.seed = "real"
    BY DEF BeginXmss, BeginLms
<1>2. /\ UNCHANGED <<vars, bytes, writes, seen>> /\ ~ Asking(r)
      /\ rpc' = [rpc EXCEPT ![r] = location] /\ unread' = [unread EXCEPT ![r] = parts]
      /\ remain' = [remain EXCEPT ![r] = 0] /\ before' = [before EXCEPT ![r] = HandedOut]
      /\ steady' = [steady EXCEPT ![r] = mem.seed = "real" /\ quiet]
    BY <1>1 DEF BeginQuery
<1>3. IInv'
    BY <1>2, StepInvariant DEF QInv
<1>4. QTypeOK'
  <2>1. 0 \in 0 .. Word - 1 /\ HandedOut \in SUBSET Indices
        /\ (mem.seed = "real" /\ quiet) \in BOOLEAN
      BY QueryAssumption, ConstantsAssumption DEF HandedOut
  <2>2. steady' \in [Readers -> BOOLEAN]
      BY <1>2, <2>1, Zenon DEF QInv, QTypeOK
  <2>3. QED
      BY <1>2, <2>1, <2>2 DEF QInv, QTypeOK
<1>5. WritesOK'
    BY <1>2 DEF QInv, WritesOK, IndexBytes, vars
<1>6. HandedOut' = HandedOut
    BY <1>2 DEF HandedOut, vars
<1>7. ASSUME NEW q \in Readers, q # r
      PROVE  /\ Asking(q)' => before'[q] \subseteq HandedOut'
             /\ SteadyReading(q)' /\ SteadyChecked(q)'
             /\ rpc'[q] = "answered" /\ steady'[q] => NotOverstated(q)'
  <2>1. /\ rpc'[q] = rpc[q] /\ unread'[q] = unread[q] /\ before'[q] = before[q]
        /\ (steady'[q] <=> steady[q]) /\ remain'[q] = remain[q]
      BY <1>2, <1>7 DEF QInv, QTypeOK
  <2>2. QED
      BY <1>2, <1>6, <2>1 DEF QInv, Queries, RemainingNeverOverstated, Asking, SteadyReading,
          SteadyChecked, Past, Number, NotOverstated, vars
<1>8. /\ rpc'[r] = location /\ unread'[r] = parts /\ before'[r] = HandedOut
      /\ steady'[r] <=> mem.seed = "real" /\ quiet
    BY <1>2 DEF QInv, QTypeOK
<1>9. SteadyReading(r)'
  <2> SUFFICES ASSUME location = "reading", mem.seed = "real", quiet
               PROVE  /\ scheme # "LMS" /\ bytes["high"] = mem.idx \div Base
                      /\ Past(r, Number(bytes))' /\ parts = Parts
      BY <1>2, <1>8 DEF SteadyReading, Parts, vars
  <2>1. bytes = IndexBytes(mem) /\ scheme # "LMS" /\ parts = Parts
      BY <1>1 DEF QInv, WritesOK
  <2>2. bytes["high"] = mem.idx \div Base /\ Number(bytes) = mem.idx
      BY <2>1, BytesOfKey DEF QInv, IInv
  <2>3. Number(bytes)' = mem.idx
      BY <1>2, <2>2 DEF Number
  <2>4. Past(r, Number(bytes))'
      BY <1>8, <2>3, UsableKeyPast DEF QInv, Past
  <2>5. QED
      BY <2>1, <2>2, <2>4
<1>10. SteadyChecked(r)'
    BY <1>1, <1>2, <1>8 DEF SteadyChecked, vars
<1>11. Queries' /\ RemainingNeverOverstated'
    BY <1>1, <1>6, <1>7, <1>8, <1>9, <1>10 DEF Queries, RemainingNeverOverstated
<1>12. QED
    BY <1>3, <1>4, <1>5, <1>11 DEF QInv

\* A part is loaded.
LEMMA LoadQueries ==
  ASSUME QInv, NEW r \in Readers, NEW p \in Parts, LoadPart(r, p) PROVE QInv'
<1>1. /\ UNCHANGED <<vars, bytes, writes, rpc, remain, before, steady>> /\ rpc[r] = "reading"
      /\ unread' = [unread EXCEPT ![r] = @ \ {p}]
      /\ seen' = [seen EXCEPT ![r][p] = bytes[p]]
    BY DEF LoadPart
<1>2. IInv'
    BY <1>1, StepInvariant DEF QInv
<1>3. /\ seen \in [Readers -> ByteValues] /\ bytes \in ByteValues
      /\ unread \in [Readers -> SUBSET Parts]
    BY DEF QInv, QTypeOK
<1>4. /\ seen'[r] = [seen[r] EXCEPT ![p] = bytes[p]]
      /\ unread'[r] = unread[r] \ {p}
      /\ \A q \in Readers \ {r} : seen'[q] = seen[q] /\ unread'[q] = unread[q]
    BY <1>1, <1>3
<1>5. QTypeOK'
  <2>1. seen'[r] \in ByteValues
      BY <1>3, <1>4 DEF ByteValues, Parts
  <2>2. seen' \in [Readers -> ByteValues]
      BY <1>1, <1>3, <1>4, <2>1
  <2>3. unread' \in [Readers -> SUBSET Parts]
      BY <1>1, <1>3
  <2>4. QED
      BY <1>1, <2>2, <2>3 DEF QInv, QTypeOK
<1>6. WritesOK'
    BY <1>1 DEF QInv, WritesOK, IndexBytes, vars
<1>7. SteadyReading(r)'
  <2> SUFFICES ASSUME steady[r] PROVE SteadyReading(r)'
      BY <1>1 DEF SteadyReading
  <2>1. /\ scheme # "LMS" /\ mem.seed = "real" /\ bytes["high"] = mem.idx \div Base
        /\ Past(r, bytes["high"] * Base + bytes["low"])
        /\ "high" \notin unread[r] => seen[r]["high"] = bytes["high"]
        /\ "low" \notin unread[r] => Past(r, bytes["high"] * Base + seen[r]["low"])
      BY <1>1 DEF QInv, Queries, SteadyReading, Number
  <2>2. /\ "high" \notin unread'[r] => seen'[r]["high"] = bytes["high"]
        /\ seen'[r]["low"] \in {seen[r]["low"], bytes["low"]}
        /\ "low" \notin unread'[r] => "low" \notin unread[r] \/ seen'[r]["low"] = bytes["low"]
      BY <1>3, <1>4, <2>1 DEF ByteValues, Parts
  <2>3. /\ Past(r, Number(bytes))' = Past(r, bytes["high"] * Base + bytes["low"])
        /\ Past(r, bytes["high"] * Base + seen[r]["low"])'
             = Past(r, bytes["high"] * Base + seen'[r]["low"])
      BY <1>1 DEF Past, Number
  <2>4. "low" \notin unread'[r] => Past(r, bytes["high"] * Base + seen'[r]["low"])
    <3>1. CASE "low" \notin unread[r] /\ p # "low"
      <4>1. seen'[r]["low"] = seen[r]["low"]
          BY <1>3, <1>4, <3>1 DEF ByteValues, Parts
      <4>2. QED
          BY <2>1, <3>1, <4>1
    <3>2. CASE p = "low"
      <4>1. seen'[r]["low"] = bytes["low"]
          BY <1>3, <1>4, <3>2 DEF ByteValues, Parts
      <4>2. QED
          BY <2>1, <4>1
    <3>3. CASE "low" \in unread[r] /\ p # "low"
        BY <1>4, <3>3
    <3>4. QED
        BY <3>1, <3>2, <3>3
  <2>5. QED
      BY <1>1, <2>1, <2>2, <2>3, <2>4 DEF SteadyReading, vars
<1>8. ASSUME NEW q \in Readers, q # r PROVE SteadyReading(q)'
    BY <1>1, <1>4, <1>8 DEF QInv, Queries, SteadyReading, Past, Number, vars
<1>9. Queries' /\ RemainingNeverOverstated'
    BY <1>1, <1>7, <1>8 DEF QInv, Queries, SteadyChecked, Asking, HandedOut,
        RemainingNeverOverstated, NotOverstated, vars
<1>10. QED
    BY <1>2, <1>5, <1>6, <1>9 DEF QInv

\* An answer that counts from a number past what was handed out.
LEMMA PastAnswers ==
  ASSUME QInv, NEW q \in Readers, NEW n \in 0 .. Word - 1, Past(q, n)
  PROVE  SigsRemaining(n) + Cardinality(before[q]) <= SigsTotal
<1>1. n \in Nat /\ n <= MaxIndex /\ before[q] \subseteq Nat /\ \A i \in before[q] : i < n
    BY QueryAssumption, ConstantsAssumption DEF Past, QInv, QTypeOK, Indices
<1>2. Cardinality(before[q]) \in Nat /\ Cardinality(before[q]) <= n
    BY <1>1, FewBelow
<1>3. SigsRemaining(n) = MaxIndex - n
    BY <1>1, RemainingWidth
<1>4. QED
    BY <1>1, <1>2, <1>3, ConstantsAssumption DEF SigsTotal

\* A query answers with the number it read.
LEMMA AnswerQueries ==
  ASSUME QInv, NEW r \in Readers, AnswerXmss(r) \/ AnswerLms(r) PROVE QInv'
<1>1. PICK b \in ByteValues :
        /\ Asking(r) /\ rpc' = [rpc EXCEPT ![r] = "answered"]
        /\ remain' = [remain EXCEPT ![r] = SigsRemaining(Number(b))]
        /\ seen' \in [Readers -> ByteValues]
        /\ \A q \in Readers : q # r => seen'[q] = seen[q]
        /\ steady[r] => Past(r, Number(b))
        /\ UNCHANGED <<vars, bytes, writes, unread, before, steady>>
  <2>1. CASE AnswerXmss(r)
    <3>1. seen[r] \in ByteValues /\ Bytes(0) \in ByteValues
      <4>1. 0 \in 0 .. Word - 1
          BY QueryAssumption, ConstantsAssumption
      <4>2. QED
          BY <4>1, PartsOfIndex DEF QInv, QTypeOK
    <3>2. seen' = [seen EXCEPT ![r] = Bytes(0)] /\ seen \in [Readers -> ByteValues]
        BY <2>1 DEF AnswerXmss, QInv, QTypeOK
    <3>3. seen' \in [Readers -> ByteValues] /\ \A q \in Readers : q # r => seen'[q] = seen[q]
        BY <3>1, <3>2
    <3>4. steady[r] => Past(r, Number(seen[r]))
        BY <2>1 DEF AnswerXmss, QInv, Queries, SteadyReading, Number
    <3>5. QED
        BY <2>1, <3>1, <3>3, <3>4 DEF AnswerXmss, Asking
  <2>2. CASE AnswerLms(r)
    <3>1. lock = NoThread /\ rpc[r] = "checked" /\ scheme = "LMS"
        BY <2>2 DEF AnswerLms, QInv, Queries, SteadyChecked
    <3>2. bytes = IndexBytes(mem)
        BY <3>1 DEF QInv, WritesOK
    <3>3. steady[r] => Past(r, Number(bytes))
      <4> SUFFICES ASSUME steady[r] PROVE Past(r, Number(bytes))
          OBVIOUS
      <4>1. mem.seed = "real" /\ before[r] \subseteq HandedOut
          BY <3>1 DEF QInv, Queries, SteadyChecked, Asking
      <4>2. Number(bytes) = mem.idx
          BY <3>2, <4>1, BytesOfKey DEF QInv, IInv
      <4>3. QED
          BY <4>1, <4>2, UsableKeyIsPast
    <3>4. bytes \in ByteValues /\ seen \in [Readers -> ByteValues]
        BY DEF QInv, QTypeOK
    <3>5. QED
        BY <2>2, <3>1, <3>3, <3>4 DEF AnswerLms, Asking
  <2>3. QED
      BY <2>1, <2>2
<1>2. IInv'
    BY <1>1, StepInvariant DEF QInv
<1>3. Number(b) \in 0 .. Word - 1 /\ SigsRemaining(Number(b)) \in 0 .. Word - 1
  <2>1. Number(b) \in 0 .. Word - 1
      BY NumberWidth
  <2>2. QED
      BY <2>1, RemainingWidth
<1>4. QTypeOK'
    BY <1>1, <1>3 DEF QInv, QTypeOK
<1>5. WritesOK'
    BY <1>1 DEF QInv, WritesOK, IndexBytes, vars
<1>6. ASSUME NEW q \in Readers, q # r
      PROVE  /\ Asking(q)' => before'[q] \subseteq HandedOut'
             /\ SteadyReading(q)' /\ SteadyChecked(q)'
             /\ rpc'[q] = "answered" /\ steady'[q] => NotOverstated(q)'
  <2>1. rpc'[q] = rpc[q] /\ remain'[q] = remain[q] /\ seen'[q] = seen[q]
      BY <1>1, <1>6 DEF QInv, QTypeOK
  <2>2. QED
      BY <1>1, <2>1 DEF QInv, Queries, RemainingNeverOverstated, Asking, SteadyReading,
          SteadyChecked, Past, Number, NotOverstated, HandedOut, vars
<1>7. rpc'[r] = "answered" /\ remain'[r] = SigsRemaining(Number(b))
    BY <1>1 DEF QInv, QTypeOK
<1>8. ~ Asking(r)' /\ SteadyReading(r)' /\ SteadyChecked(r)'
    BY <1>7 DEF Asking, SteadyReading, SteadyChecked
<1>9. steady'[r] => NotOverstated(r)'
  <2>1. steady[r] => SigsRemaining(Number(b)) + Cardinality(before[r]) <= SigsTotal
      BY <1>1, <1>3, PastAnswers
  <2>2. QED
      BY <1>1, <1>7, <2>1 DEF NotOverstated, SigsTotal
<1>10. Queries' /\ RemainingNeverOverstated'
    BY <1>6, <1>8, <1>9 DEF Queries, RemainingNeverOverstated
<1>11. QED
    BY <1>2, <1>4, <1>5, <1>10 DEF QInv

\* Every step keeps the invariant of the queries.
LEMMA QStepInvariant == QInv /\ [QNext]_<<vars, qvars>> => QInv'
BY CallQueries, ReloadQueries, RestartQueries, StorePartQueries, StoreDoneQueries,
   QuietQueries, BeginQueries, LoadQueries, AnswerQueries DEF QNext

-----------------------------------------------------------------------------
(* Theorems on the queries *)

\* The bytes of the index and the parts a query reads keep their range however
\* they are torn, and no answer, wrapped or not, exceeds the machine word.
THEOREM QueryTypes == QSpec => []QTypeOK
<1>1. QInv => QTypeOK
    BY DEF QInv
<1>2. QED
    BY <1>1, QInitInvariant, QStepInvariant, PTL DEF QSpec

\* Whatever the order of loads and stores, an answer never counts a one-time key
\* that was handed out before the query began, as long as the key stays usable
\* and, for XMSS, no store reaches above the lowest byte of the index while the
\* query is under way.
THEOREM RemainingIsSafe == QSpec => []RemainingNeverOverstated
<1>1. QInv => RemainingNeverOverstated
    BY DEF QInv
<1>2. QED
    BY <1>1, QInitInvariant, QStepInvariant, PTL DEF QSpec
=============================================================================
