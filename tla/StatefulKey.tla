---------------------------- MODULE StatefulKey ----------------------------
(***************************************************************************)
(* A stateful signature key of liboqs (src/sig_stfl): threads of one       *)
(* process sign with one secret key object, each signature advances the    *)
(* object's index, hands the advanced key to the application's secure      *)
(* store and only then counts as a success. The store may fail, memory may *)
(* run out, the process may crash and reload the key it stored last.       *)
(*                                                                         *)
(* A key, in memory, in the store or behind a signature, is the index, the *)
(* seed it derives its one-time keys from, and the leaf its cached         *)
(* authentication path (XMSS) belongs to. Messages and hashes are left     *)
(* out: a signature is the key it was made with.                           *)
(***************************************************************************)
EXTENDS Naturals

CONSTANTS Threads,      \* threads that share the secret key object
          MaxIndex,     \* 2^height - 1, the last one-time key
          MaxFaults,    \* bound: occurrences of each kind of fault
          FaultKinds,   \* the kinds of fault of a run
          NoThread      \* nobody holds the key's mutex

Kinds == {"lock",       \* the application's lock callback fails
          "early",      \* an allocation fails before the index is written
          "late",       \* an allocation fails after it
          "store",      \* serialisation or the store callback fails
          "export",     \* an exported copy cannot be allocated
          "crash"}      \* the process dies

ASSUME ConstantsAssumption ==
  /\ MaxIndex \in Nat
  /\ MaxFaults \in Nat
  /\ FaultKinds \subseteq Kinds
  /\ NoThread \notin Threads

VARIABLES scheme,    \* the algorithm of the key, fixed
          mem,       \* secret_key_data of the secret key object
          disk,      \* what the secure store callback wrote last
          lock,      \* holder of the object's mutex
          pc,        \* thread -> where its call of OQS_SIG_STFL_sign stands
          sig,       \* thread -> the signature in the caller's buffer
          status,    \* thread -> the OQS_STATUS its call will return
          handed,    \* one-time key -> signatures returned with OQS_SUCCESS
          faults     \* kind -> occurrences so far
vars == <<scheme, mem, disk, lock, pc, sig, status, handed, faults>>

Schemes == {"LMS", "XMSS", "XMSSMT"}
Seeds   == {"real",    \* the generated seed
            "zero",    \* wiped by OQS_MEM_cleanse (XMSS)
            "end",     \* overwritten with PARM_SET_END (LMS)
            "none"}    \* no key, no signature
Indices == 0 .. MaxIndex
Keys    == [idx : 0 .. MaxIndex + 1, seed : Seeds, path : 0 .. MaxIndex + 1]

Key(i, s, p) == [idx |-> i, seed |-> s, path |-> p]
NoKey == Key(0, "none", 0)
Wiped == Key(0, "zero", 0)
Ended == Key(0, "end", 0)

(* How far a key has advanced. A wiped key is past every one-time key.     *)
Position(k) == IF k.seed = "real" THEN k.idx
               ELSE IF k.seed = "none" THEN 0 ELSE MaxIndex + 1

Init == /\ scheme \in Schemes
        /\ mem = Key(0, "real", 0)
        /\ disk = NoKey
        /\ lock = NoThread
        /\ pc = [t \in Threads |-> "idle"]
        /\ sig = [t \in Threads |-> NoKey]
        /\ status = [t \in Threads |-> "ok"]
        /\ handed = [i \in Indices |-> 0]
        /\ faults = [k \in FaultKinds |-> 0]

Fault(k) == /\ k \in FaultKinds
            /\ faults[k] < MaxFaults
            /\ faults' = [faults EXCEPT ![k] = @ + 1]

-----------------------------------------------------------------------------
(* Without key data OQS_SIG_STFL_sign refuses; with it, it takes the mutex.*)
Refuse(t) ==
  /\ pc[t] = "idle"
  /\ mem.seed = "none"
  /\ status' = [status EXCEPT ![t] = "error"]
  /\ UNCHANGED <<scheme, mem, disk, lock, pc, sig, handed, faults>>

BeginSign(t) ==
  /\ pc[t] = "idle"
  /\ lock = NoThread
  /\ mem.seed # "none"
  /\ lock' = t
  /\ pc' = [pc EXCEPT ![t] = "sign"]
  /\ sig' = [sig EXCEPT ![t] = NoKey]
  /\ status' = [status EXCEPT ![t] = "error"]
  /\ UNCHANGED <<scheme, mem, disk, handed, faults>>

(* XMSS gives up when the lock callback fails; LMS ignores its answer,     *)
(* which is left out here: the mutex of an LMS key does not fail.          *)
LockFails(t) ==
  /\ pc[t] = "idle"
  /\ scheme # "LMS"
  /\ mem.seed # "none"
  /\ Fault("lock")
  /\ sig' = [sig EXCEPT ![t] = NoKey]
  /\ status' = [status EXCEPT ![t] = "error"]
  /\ UNCHANGED <<scheme, mem, disk, lock, pc, handed>>

(* The signature made from key k of thread t, and the key left in memory.  *)
SignWith(t, k, next) ==
  /\ mem' = next
  /\ sig' = [sig EXCEPT ![t] = k]
  /\ pc' = [pc EXCEPT ![t] = "store"]
  /\ UNCHANGED <<scheme, disk, lock, status, handed>>

(* Fault: an error path returns without releasing the mutex.               *)
GiveUpLocked(t) ==
  /\ pc' = [pc EXCEPT ![t] = "idle"]
  /\ UNCHANGED <<scheme, disk, lock, sig, status, handed>>

GiveUp(t) ==
  /\ pc' = [pc EXCEPT ![t] = "unlock"]
  /\ UNCHANGED <<scheme, disk, lock, sig, status, handed>>

Signing(t, s) == pc[t] = "sign" /\ scheme = s

(* Fault: the index moves on and the cached path stays.                    *)
SuccessorSamePath(k) == Key(k.idx + 1, k.seed, k.path)

(* xmss_core_sign and xmssmt_core_sign before the last index: the index    *)
(* goes up first, the cached path follows the signature.                   *)
Successor(k) == Key(k.idx + 1, k.seed, IF k.seed = "real" THEN k.path + 1 ELSE 0)

(* On the last index the key is wiped before the seeds are read, so the    *)
(* signature is made from zero seeds and the key is left one past the end  *)
(* (or at 0 where the height fills the index bytes: XMSS^MT of height 40). *)
PastTheEnd == IF scheme = "XMSS" THEN {MaxIndex + 1} ELSE {0, MaxIndex + 1}

(* Fault: an index past the end is not refused.                            *)
SignXmssPastEnd(t) ==
  /\ Signing(t, "XMSS")
  /\ SignWith(t, mem, IF mem.idx = MaxIndex THEN Key(MaxIndex + 1, "zero", 0)
                      ELSE Successor(mem))
  /\ UNCHANGED faults

(* Fault: only the lowest bit of the index reaches the signature.          *)
SignXmssTruncated(t) ==
  /\ Signing(t, "XMSS")
  /\ mem.idx <= MaxIndex
  /\ SignWith(t, [mem EXCEPT !.idx = @ % 2, !.path = @ % 2],
              IF mem.idx < MaxIndex THEN Successor(mem)
              ELSE Key(MaxIndex + 1, "zero", 0))
  /\ UNCHANGED faults

SignXmss(t) ==
  /\ Signing(t, "XMSS")
  /\ \/ /\ mem.idx < MaxIndex
        /\ SignWith(t, mem, Successor(mem))
     \/ /\ mem.idx = MaxIndex
        /\ SignWith(t, Key(mem.idx, "zero", 0), Key(MaxIndex + 1, "zero", 0))
     \/ /\ mem.idx > MaxIndex            \* -2, and the index is wiped too
        /\ mem' = Wiped
        /\ GiveUp(t)
  /\ UNCHANGED faults

SignXmssMt(t) ==
  /\ Signing(t, "XMSSMT")
  /\ \/ /\ mem.idx < MaxIndex
        /\ SignWith(t, mem, Successor(mem))
     \/ /\ mem.idx = MaxIndex
        /\ \E i \in PastTheEnd :
             SignWith(t, Key(mem.idx, "zero", 0), Key(i, "zero", 0))
     \/ /\ mem.idx > MaxIndex
        /\ mem' = Wiped
        /\ GiveUp(t)
  /\ UNCHANGED faults

(* The buffer for the message is allocated by XMSS after the new index is  *)
(* in the key, by XMSS^MT before: -1 with the index advanced and the       *)
(* cached path left behind.                                                *)
SignXmssFailsLate(t) ==
  /\ Signing(t, "XMSS")
  /\ mem.idx <= MaxIndex
  /\ Fault("late")
  /\ mem' = IF mem.idx < MaxIndex THEN [mem EXCEPT !.idx = @ + 1]
            ELSE Key(MaxIndex + 1, "zero", 0)
  /\ GiveUp(t)

SignXmssFailsEarly(t) ==
  /\ pc[t] = "sign"
  /\ scheme # "LMS"
  /\ Fault("early")
  /\ UNCHANGED mem
  /\ GiveUp(t)

(* hss_load_private_key, hss_sign_init and hss_sign_finalize. The last     *)
(* index still signs, and the key is then overwritten.                     *)
SignLms(t) ==
  /\ Signing(t, "LMS")
  /\ mem.seed = "real"
  /\ SignWith(t, mem, IF mem.idx = MaxIndex THEN Ended
                      ELSE Key(mem.idx + 1, "real", mem.idx + 1))
  /\ UNCHANGED faults

(* The working key cannot be loaded, because it is used up or memory is    *)
(* short: oqs_sig_stfl_lms_sign returns 0 all the same, without signature. *)
LoadLmsFails(t) ==
  /\ Signing(t, "LMS")
  /\ \/ mem.seed # "real" /\ UNCHANGED faults
     \/ mem.seed = "real" /\ Fault("early")
  /\ SignWith(t, NoKey, mem)

(* hss_sign_finalize fails after hss_advance_count: -1.                    *)
SignLmsFailsLate(t) ==
  /\ Signing(t, "LMS")
  /\ mem.seed = "real"
  /\ Fault("late")
  /\ mem' = IF mem.idx = MaxIndex THEN Ended
            ELSE Key(mem.idx + 1, "real", mem.idx + 1)
  /\ GiveUp(t)

-----------------------------------------------------------------------------
(* The updated key is serialised and handed to secure_store_scrt_key.      *)
Store(t) ==
  /\ pc[t] = "store"
  /\ disk' = mem
  /\ status' = [status EXCEPT ![t] = "ok"]
  /\ pc' = [pc EXCEPT ![t] = "unlock"]
  /\ UNCHANGED <<scheme, mem, lock, sig, handed, faults>>

(* The copy cannot be allocated or the callback reports an error, before   *)
(* or after the key reached the store. LMS wipes the caller's buffer, XMSS *)
(* leaves the signature there.                                             *)
StoreFails(t) ==
  /\ pc[t] = "store"
  /\ Fault("store")
  /\ disk' \in {disk, mem}
  /\ sig' = [sig EXCEPT ![t] = IF scheme = "LMS" THEN NoKey ELSE @]
  /\ pc' = [pc EXCEPT ![t] = "unlock"]
  /\ UNCHANGED <<scheme, mem, lock, status, handed>>

(* Fault: the status of the store is not looked at.                        *)
EndSignUnchecked(t) ==
  /\ pc[t] = "unlock"
  /\ lock' = NoThread
  /\ pc' = [pc EXCEPT ![t] = "idle"]
  /\ handed' = IF sig[t].seed = "real" THEN [handed EXCEPT ![sig[t].idx] = @ + 1]
               ELSE handed
  /\ sig' = [sig EXCEPT ![t] = NoKey]
  /\ UNCHANGED <<scheme, mem, disk, status, faults>>

(* The mutex is released and the call returns; a signature of the real key *)
(* that is returned with OQS_SUCCESS is out of the library's hands.        *)
EndSign(t) ==
  /\ pc[t] = "unlock"
  /\ lock' = NoThread
  /\ pc' = [pc EXCEPT ![t] = "idle"]
  /\ handed' = IF status[t] = "ok" /\ sig[t].seed = "real"
               THEN [handed EXCEPT ![sig[t].idx] = @ + 1]
               ELSE handed
  /\ sig' = [sig EXCEPT ![t] = NoKey]
  /\ UNCHANGED <<scheme, mem, disk, status, faults>>

(* OQS_SIG_STFL_SECRET_KEY_serialize copies the key under the mutex. The   *)
(* XMSS one returns without releasing it when the copy cannot be           *)
(* allocated.                                                              *)
ExportFails(t) ==
  /\ pc[t] = "idle"
  /\ lock = NoThread
  /\ mem.seed # "none"
  /\ scheme # "LMS"
  /\ Fault("export")
  /\ lock' = t
  /\ UNCHANGED <<scheme, mem, disk, pc, sig, status, handed>>

(* OQS_SIG_STFL_SECRET_KEY_deserialize into the live object: LMS refuses,  *)
(* XMSS overwrites the key without taking the mutex. The application calls *)
(* it while nobody signs.                                                  *)
Reload ==
  /\ scheme # "LMS"
  /\ lock = NoThread
  /\ disk.seed # "none"
  /\ mem' = disk
  /\ UNCHANGED <<scheme, disk, lock, pc, sig, status, handed, faults>>

(* The process dies; the next one deserialises the stored key into a new   *)
(* object. LMS refuses a key that is used up.                              *)
Restart ==
  /\ Fault("crash")
  /\ mem' = IF disk.seed = "end" THEN NoKey ELSE disk
  /\ lock' = NoThread
  /\ pc' = [t \in Threads |-> "idle"]
  /\ sig' = [t \in Threads |-> NoKey]
  /\ status' = [t \in Threads |-> "ok"]
  /\ UNCHANGED <<scheme, disk, handed>>

InLock(t) == \/ SignXmss(t) \/ SignXmssMt(t) \/ SignLms(t) \/ LoadLmsFails(t)
             \/ SignXmssFailsEarly(t) \/ SignXmssFailsLate(t)
             \/ SignLmsFailsLate(t)
             \/ Store(t) \/ StoreFails(t) \/ EndSign(t)

Call(t) == Refuse(t) \/ BeginSign(t) \/ LockFails(t) \/ InLock(t) \/ ExportFails(t)

Next == \/ \E t \in Threads : Call(t)
        \/ Reload
        \/ Restart

(* A thread that holds the mutex keeps running: the library never waits    *)
(* while it holds it.                                                      *)
Fairness == \A t \in Threads : WF_vars(InLock(t))

Spec == Init /\ [][Next]_vars /\ Fairness
-----------------------------------------------------------------------------
TypeOK ==
  /\ scheme \in Schemes
  /\ mem \in Keys
  /\ disk \in Keys
  /\ lock \in Threads \cup {NoThread}
  /\ pc \in [Threads -> {"idle", "sign", "store", "unlock"}]
  /\ sig \in [Threads -> Keys]
  /\ status \in [Threads -> {"ok", "error"}]
  /\ handed \in [Indices -> Nat]
  /\ faults \in [FaultKinds -> 0 .. MaxFaults]

(* No one-time key of the generated key signs two messages the callers were*)
(* given with OQS_SUCCESS, whichever thread, failure or restart comes      *)
(* between the two calls.                                                  *)
OneTimeKeysHandedOutOnce == \A i \in Indices : handed[i] <= 1

(* The stored key is past every one-time key that was handed out: a crash  *)
(* at any moment restarts behind none of them.                             *)
StoredKeyCoversHandedOut ==
  \A i \in Indices : handed[i] > 0 => i < Position(disk)

(* A signature of the generated key that is returned with OQS_SUCCESS      *)
(* carries the authentication path of its own leaf, unless a message buffer*)
(* could not be allocated before: that call took an index and left the     *)
(* cached path behind for good.                                            *)
LateFaults == IF "late" \in FaultKinds THEN faults["late"] ELSE 0
SignaturesVerify ==
  \A t \in Threads :
    (pc[t] = "unlock" /\ status[t] = "ok" /\ sig[t].seed = "real")
      => (sig[t].path = sig[t].idx \/ LateFaults > 0)

(* The mutex always comes free again, on every error path of a call, so    *)
(* that the threads waiting for it can go on. The exception is an export   *)
(* that could not allocate its copy: it keeps the mutex for good.          *)
ExportFaults == IF "export" \in FaultKinds THEN faults["export"] ELSE 0
MutexComesFree == []<>(lock = NoThread \/ ExportFaults > 0)

(* The durable bound and the handed-out keys behave as OneTimeKeys says.   *)
HandedOut == {i \in Indices : handed[i] > 0}
OTK == INSTANCE OneTimeKeys WITH durable <- Position(disk), spent <- HandedOut
ImplementsOneTimeKeys == OTK!Spec

(* "When the signature counter reaches the maximum number of available     *)
(* signatures, the signature generation always fails" (sig_stfl.h): a      *)
(* success answer means a signature of the generated key.                  *)
ExhaustedKeyNeverSigns ==
  \A t \in Threads :
    (pc[t] = "unlock" /\ status[t] = "ok") => sig[t].seed = "real"
=============================================================================
