--------------------------- MODULE RemainingQuery ---------------------------
(***************************************************************************)
(* OQS_SIG_STFL_sigs_remaining, called by readers beside the threads of    *)
(* StatefulKey.tla that sign with the same secret key object. The XMSS     *)
(* query reads the index one byte after the other and takes no mutex,      *)
(* while a signature may be storing the next index, also one byte after    *)
(* the other. The LMS query reads the index under the mutex, but loads     *)
(* the key without it before.                                              *)
(*                                                                         *)
(* StatefulKey's mem is what the thread in the call has computed, bytes    *)
(* what an unlocked reader finds. Two parts stand for the bytes: the       *)
(* lowest one, and those above it. Both loops go from the highest byte     *)
(* down; a compiler is free to do otherwise, as nothing orders the two.    *)
(***************************************************************************)
EXTENDS StatefulKey, FiniteSets, Sequences

CONSTANTS Readers,   \* callers of OQS_SIG_STFL_sigs_remaining
          Base,      \* values of the lowest byte
          Word,      \* 2^w: the count of remaining signatures is unsigned
          Reordered  \* the build loads and stores the bytes in any order

ASSUME QueryAssumption ==
  /\ Base \in Nat \ {0}
  /\ Word \in Nat
  /\ MaxIndex + 1 < Word
  /\ Word % Base = 0
  /\ Reordered \in BOOLEAN

VARIABLES bytes,     \* the index in secret_key_data, part by part
          writes,    \* values of the index that are still to be stored
          rpc,       \* reader -> where its query stands
          unread,    \* reader -> the parts it has not loaded
          seen,      \* reader -> the parts it has loaded
          remain,    \* reader -> the answer to its last query
          before,    \* reader -> what was handed out when its query began
          steady     \* reader -> nothing was stored above the lowest byte
qvars == <<bytes, writes, rpc, unread, seen, remain, before, steady>>

Parts == {"high", "low"}
Bytes(i) == [p \in Parts |-> IF p = "high" THEN i \div Base ELSE i % Base]

(* bytes_to_ull.                                                           *)
Number(b) == b["high"] * Base + b["low"]

(* memset(PARM_SET_END) leaves every byte of an LMS index at 0xff.         *)
IndexBytes(k) == Bytes(IF k.seed = "end" THEN Word - 1 ELSE k.idx)

(* Fault: the difference is taken as signed.                               *)
SigsRemainingSigned(i) == IF i <= MaxIndex THEN MaxIndex - i ELSE 0 - 1

(* sigs_remaining: 2^height - 1 less the index, unsigned.                  *)
SigsTotal == MaxIndex
SigsRemaining(i) == IF i <= SigsTotal THEN SigsTotal - i ELSE Word + SigsTotal - i

QInit == /\ Init
         /\ bytes = Bytes(0)
         /\ writes = <<>>
         /\ rpc = [q \in Readers |-> "idle"]
         /\ unread = [q \in Readers |-> {}]
         /\ seen = [q \in Readers |-> Bytes(0)]
         /\ remain = [q \in Readers |-> 0]
         /\ before = [q \in Readers |-> {}]
         /\ steady = [q \in Readers |-> FALSE]

Asking(q) == rpc[q] \in {"reading", "checked"}

-----------------------------------------------------------------------------
(* History of the queries under way: has the key stayed usable, and has    *)
(* nobody stored above the lowest byte? The LMS query need not care for    *)
(* the latter.                                                             *)
Watch ==
  steady' = [q \in Readers |->
               IF Asking(q)
               THEN /\ steady[q]
                    /\ mem'.seed = "real"
                    /\ scheme = "LMS" \/ mem'.idx \div Base = mem.idx \div Base
               ELSE steady[q]]

(* XMSS cleanses the index before it stores the one past the end. *)
KeyWrites ==
  CASE mem' = mem -> <<>>
    [] mem' # mem /\ scheme # "LMS" /\ mem.idx >= MaxIndex
         -> <<Bytes(0), IndexBytes(mem')>>
    [] OTHER -> <<IndexBytes(mem')>>

(* A step of a call; the index it leaves is stored before the call goes on.*)
CallStep(t) ==
  /\ writes = <<>>
  /\ Call(t)
  /\ writes' = KeyWrites
  /\ Watch
  /\ UNCHANGED <<bytes, rpc, unread, seen, remain, before>>

ReloadKey ==
  /\ writes = <<>>
  /\ Reload
  /\ writes' = <<IndexBytes(mem')>>
  /\ Watch
  /\ UNCHANGED <<bytes, rpc, unread, seen, remain, before>>

(* The highest byte first, unless the build reorders.                      *)
InTurn(p, highDone) == p = "high" \/ highDone \/ Reordered

StorePart(p) ==
  /\ writes # <<>>
  /\ InTurn(p, bytes["high"] = Head(writes)["high"])
  /\ bytes[p] # Head(writes)[p]
  /\ bytes' = [bytes EXCEPT ![p] = Head(writes)[p]]
  /\ UNCHANGED <<vars, writes, rpc, unread, seen, remain, before, steady>>

StoreDone ==
  /\ writes # <<>>
  /\ bytes = Head(writes)
  /\ writes' = Tail(writes)
  /\ UNCHANGED <<vars, bytes, rpc, unread, seen, remain, before, steady>>

(* The queries die with the process.                                       *)
RestartProcess ==
  /\ Restart
  /\ writes' = <<>>
  /\ bytes' = IndexBytes(mem')
  /\ rpc' = [q \in Readers |-> "idle"]
  /\ UNCHANGED <<unread, seen, remain, before, steady>>

-----------------------------------------------------------------------------
(* Without key data the query fails. So it does when the working key of an *)
(* LMS key cannot be loaded: it is used up, memory is short, or its bytes  *)
(* are just being changed.                                                 *)
QueryFails(q) ==
  /\ ~ Asking(q)
  /\ mem.seed = "none" \/ scheme = "LMS"
  /\ rpc' = [rpc EXCEPT ![q] = "failed"]
  /\ UNCHANGED <<vars, bytes, writes, unread, seen, remain, before, steady>>

BeginQuery(q, location, parts, quiet) ==
  /\ ~ Asking(q)
  /\ rpc' = [rpc EXCEPT ![q] = location]
  /\ unread' = [unread EXCEPT ![q] = parts]
  /\ remain' = [remain EXCEPT ![q] = 0]
  /\ before' = [before EXCEPT ![q] = HandedOut]
  /\ steady' = [steady EXCEPT ![q] = mem.seed = "real" /\ quiet]
  /\ UNCHANGED <<vars, bytes, writes, seen>>

BeginXmss(q) ==
  /\ scheme # "LMS"
  /\ mem.seed # "none"
  /\ BeginQuery(q, "reading", Parts, writes = <<>>)

LoadPart(q, p) ==
  /\ rpc[q] = "reading"
  /\ p \in unread[q]
  /\ InTurn(p, "high" \notin unread[q])
  /\ unread' = [unread EXCEPT ![q] = @ \ {p}]
  /\ seen' = [seen EXCEPT ![q][p] = bytes[p]]
  /\ UNCHANGED <<vars, bytes, writes, rpc, remain, before, steady>>

AnswerXmss(q) ==
  /\ rpc[q] = "reading"
  /\ unread[q] = {}
  /\ rpc' = [rpc EXCEPT ![q] = "answered"]
  /\ remain' = [remain EXCEPT ![q] = SigsRemaining(Number(seen[q]))]
  /\ seen' = [seen EXCEPT ![q] = Bytes(0)]
  /\ UNCHANGED <<vars, bytes, writes, unread, before, steady>>

(* OQS_SIG_STFL_lms_sigs_total loads the key, before the mutex is taken.   *)
BeginLms(q) ==
  /\ scheme = "LMS"
  /\ mem.seed = "real"
  /\ BeginQuery(q, "checked", {}, TRUE)

(* Fault: the mutex is not taken.                                          *)
AnswerLmsUnlocked(q) ==
  /\ rpc[q] = "checked"
  /\ rpc' = [rpc EXCEPT ![q] = "answered"]
  /\ remain' = [remain EXCEPT ![q] = SigsRemaining(Number(bytes))]
  /\ UNCHANGED <<vars, bytes, writes, unread, seen, before, steady>>

(* Locked, read and unlocked in one step: nobody sees the key in between.  *)
AnswerLms(q) ==
  /\ rpc[q] = "checked"
  /\ lock = NoThread
  /\ rpc' = [rpc EXCEPT ![q] = "answered"]
  /\ remain' = [remain EXCEPT ![q] = SigsRemaining(Number(bytes))]
  /\ UNCHANGED <<vars, bytes, writes, unread, seen, before, steady>>

QNext == \/ \E t \in Threads : CallStep(t)
         \/ ReloadKey
         \/ RestartProcess
         \/ \E p \in Parts : StorePart(p)
         \/ StoreDone
         \/ \E q \in Readers : \/ QueryFails(q)
                               \/ BeginXmss(q) \/ AnswerXmss(q)
                               \/ \E p \in Parts : LoadPart(q, p)
                               \/ BeginLms(q) \/ AnswerLms(q)

QSpec == QInit /\ [][QNext]_<<vars, qvars>>
-----------------------------------------------------------------------------
(* Every part and every answer keeps its width, however an index is torn.  *)
ByteValues == {b \in [Parts -> 0 .. Word - 1] :
                 b["high"] < Word \div Base /\ b["low"] < Base}
QTypeOK ==
  /\ bytes \in ByteValues
  /\ writes \in Seq(ByteValues)
  /\ rpc \in [Readers -> {"idle", "reading", "checked", "answered", "failed"}]
  /\ unread \in [Readers -> SUBSET Parts]
  /\ seen \in [Readers -> ByteValues]
  /\ remain \in [Readers -> 0 .. Word - 1]
  /\ before \in [Readers -> SUBSET Indices]
  /\ steady \in [Readers -> BOOLEAN]

(* The answer and what had been handed out before the query began are      *)
(* together no more than the key has: nobody is promised a one-time key    *)
(* that is gone. An LMS query, which takes the mutex, holds this as long   *)
(* as the key is not used up while it runs; an XMSS query, which does not, *)
(* only if no index was being stored when it began and none that differs   *)
(* above the lowest byte is while it runs.                                 *)
NotOverstated(q) == remain[q] + Cardinality(before[q]) <= SigsTotal
RemainingNeverOverstated ==
  \A q \in Readers : rpc[q] = "answered" /\ steady[q] => NotOverstated(q)

(* "The remaining signatures are the number of signatures available before *)
(* the private key runs out" (sig_stfl.h): the same of every answer, for a *)
(* key that can still sign.                                                *)
RemainingIsAvailable ==
  \A q \in Readers : rpc[q] = "answered" /\ mem.seed = "real" => NotOverstated(q)
=============================================================================
