-------------------------- MODULE SecureCallProofs --------------------------
(***************************************************************************)
(* Theorems about SecureCall.tla, for any finite set of calls, any         *)
(* bootstraps with any common names, and any number of faults.             *)
(***************************************************************************)
EXTENDS SecureCall, FiniteSetTheorems, TLAPS

(* How far a handler of a call can be, given how far the call is: none     *)
(* before its handshake, no request before the handshake was answered, no  *)
(* session before it was created.                                          *)
OrderAt(h) ==
  /\ h[2] = "handshake" =>
       threads[h].pc \in {"none", "new", "sweep", "create", "certificate", "done"}
  /\ h[2] # "handshake" =>
       threads[h].pc \in {"none", "new", "expected", "sweep", "decrypt", "resweep", "done"}
  /\ calls[h[1]].pc \in {"idle", "own", "expected"} => threads[h].pc = "none"
  /\ h[2] # "handshake" /\ calls[h[1]].pc = "handshake" => threads[h].pc = "none"
  /\ h[2] # "handshake" /\ threads[h].pc # "none"
       => threads[<<h[1], "handshake">>].pc = "done"
  /\ threads[h].answer # None => threads[h].pc = "done"
  /\ threads[h].answer \in {"response", "rejected"} => h[2] # "handshake"
  /\ h[2] # "handshake" /\ threads[h].pc = "done"
       => threads[h].answer \in {"response", "rejected", "error"}
  /\ h[2] = "handshake" /\ h[1] \in sessions.live
       => threads[h].pc \in {"certificate", "done"}

Order == \A h \in Handlers : OrderAt(h)

(* The client's certificate that a handler accepted.                       *)
Accepted(h) ==
  /\ threads[h].expected # None
  /\ calls[h[1]].own = threads[h].ca
  /\ CommonName[calls[h[1]].own] = CommonName[threads[h].expected]

ServerCheckedAt(h) ==
  h[2] # "handshake" /\ (threads[h].pc \in {"sweep", "decrypt", "resweep"}
                         \/ threads[h].answer = "response") => Accepted(h)

ServerChecked == \A h \in Handlers : ServerCheckedAt(h)

(* The server's certificate that a call accepted, and the answer it waits  *)
(* for or got.                                                             *)
ClientCheckedAt(c) ==
  /\ calls[c].pc \in {"sent", "completed"} =>
       /\ calls[c].expected # None
       /\ calls[c].peer = calls[c].ca
       /\ CommonName[calls[c].peer] = CommonName[calls[c].expected]
       /\ threads[<<c, "handshake">>].pc = "done"
       /\ threads[<<c, "handshake">>].answer = calls[c].peer
  /\ calls[c].pc = "completed" => threads[<<c, "request">>].answer = "response"

ClientChecked == \A c \in Calls : ClientCheckedAt(c)

SpentAt(h) == threads[h].answer = "response" => h[1] \notin sessions.live \ sessions.used

IInv == TypeOK /\ Order /\ ServerChecked /\ ClientChecked /\ AnsweredSessionsAreSpent

(* What the bootstrap that writes alone has assigned so far.               *)
Written ==
  \A b \in Bootstraps : writer = b =>
    \A i \in 1..8 : boots[b] \in 1..Done /\ i < boots[b]
                      => identity[Writes[i][1]][Writes[i][2]] = b

(* A calm call and its two handlers have read one bootstrap's material     *)
(* only, its session is there, and no loop of theirs was disturbed.        *)
CalmCall(c, b) ==
  LET hs == threads[<<c, "handshake">>]
      rq == threads[<<c, "request">>]
  IN  /\ calls[c].pc \in {"own", "expected", "handshake", "sent", "completed"}
      /\ calls[c].ca = b
      /\ calls[c].pc # "own" => calls[c].own = b
      /\ calls[c].pc \in {"handshake", "sent", "completed"} => calls[c].expected = b
      /\ c \notin sessions.old
      /\ threads[<<c, "again">>].pc = "none"
      /\ hs.pc = "sweep" => hs.size = Cardinality(sessions.live)
      /\ hs.pc \in {"certificate", "done"} => c \in sessions.live
      /\ hs.pc = "done" => hs.answer = b
      /\ rq.pc \notin {"none", "new"} => rq.ca = b
      /\ rq.pc \in {"sweep", "resweep"} => rq.size = Cardinality(sessions.live)
      /\ rq.pc = "done" => rq.answer = "response"
      /\ rq.pc # "done" => c \notin sessions.used

CalmInv == \A c \in calm : \E b \in Bootstraps : writer = b /\ boots[b] = Done /\ CalmCall(c, b)

-----------------------------------------------------------------------------
(* Lemmas on handlers and on the number of sessions *)

\* A handler is a call and what it runs for it.
LEMMA HandlerPair ==
  /\ \A h \in Handlers : /\ h[1] \in Calls /\ h[2] \in {"handshake", "request", "again"}
                         /\ h = <<h[1], h[2]>>
  /\ \A c \in Calls, k \in {"handshake", "request", "again"} :
       <<c, k>> \in Handlers /\ <<c, k>>[1] = c /\ <<c, k>>[2] = k
BY DEF Handlers

\* The table of sessions never has more of them than there are calls.
LEMMA TableSize ==
  ASSUME TypeOK
  PROVE  Cardinality(sessions.live) \in 0 .. Cardinality(Calls)
<1>1. sessions.live \subseteq Calls
    BY DEF TypeOK
<1>2. /\ IsFiniteSet(sessions.live)
      /\ Cardinality(sessions.live) <= Cardinality(Calls)
    BY <1>1, CallsAssumption, FS_Subset
<1>3. Cardinality(sessions.live) \in Nat /\ Cardinality(Calls) \in Nat
    BY <1>2, CallsAssumption, FS_CardinalityType
<1>4. QED
    BY <1>2, <1>3

\* The table after a loop over it: a part of what it was.
LEMMA SweptType ==
  ASSUME TypeOK
  PROVE  /\ Swept \in [live : SUBSET Calls, used : SUBSET Calls, old : SUBSET Calls]
         /\ Swept.live \subseteq sessions.live /\ Swept.used \subseteq sessions.used
         /\ Swept.old = {} /\ Swept.used \subseteq Swept.live
         /\ Swept.live \ Swept.used \subseteq sessions.live \ sessions.used
BY DEF TypeOK, Swept

ThreadPcs == {"none", "new", "sweep", "create", "certificate", "expected",
              "decrypt", "resweep", "done"}
Answers   == Material \cup {"error", "rejected", "response"}
ThreadType == [pc : ThreadPcs, size : 0..Cardinality(Calls), ca : Material,
               expected : Material, answer : Answers]

\* A handler moves on, and what it knows stays or is the given answer.
Moved(new, h, pcs) ==
  /\ new \in [Handlers -> ThreadType]
  /\ \A g \in Handlers : g # h => new[g] = threads[g]
  /\ new[h].pc \in pcs

\* A handler that only moves on keeps what it has read.
LEMMA ThreadMoves ==
  ASSUME TypeOK, NEW h \in Handlers, NEW p \in ThreadPcs
  PROVE  /\ Moved(To(h, p), h, {p})
         /\ To(h, p)[h].answer = threads[h].answer /\ To(h, p)[h].size = threads[h].size
         /\ To(h, p)[h].ca = threads[h].ca /\ To(h, p)[h].expected = threads[h].expected
<1>1. threads \in [Handlers -> ThreadType]
    BY DEF TypeOK, ThreadType, ThreadPcs, Answers
<1>2. [threads[h] EXCEPT !.pc = p] \in ThreadType
    BY <1>1 DEF ThreadType
<1>3. To(h, p) = [threads EXCEPT ![h] = [threads[h] EXCEPT !.pc = p]]
    BY <1>1 DEF To
<1>4. QED
    BY <1>1, <1>2, <1>3 DEF Moved, ThreadType

\* A handler that enters a loop keeps the size of the table in mind.
LEMMA ThreadSweeps ==
  ASSUME TypeOK, NEW h \in Handlers, NEW p \in ThreadPcs
  PROVE  /\ Moved(ToSweep(h, p), h, {p})
         /\ ToSweep(h, p)[h].answer = threads[h].answer
         /\ ToSweep(h, p)[h].size = Cardinality(sessions.live)
         /\ ToSweep(h, p)[h].ca = threads[h].ca
         /\ ToSweep(h, p)[h].expected = threads[h].expected
<1> DEFINE t == [threads[h] EXCEPT !.pc = p, !.size = Cardinality(sessions.live)]
<1>1. threads \in [Handlers -> ThreadType]
    BY DEF TypeOK, ThreadType, ThreadPcs, Answers
<1>2. t \in ThreadType /\ t.answer = threads[h].answer /\ t.pc = p
      /\ t.size = Cardinality(sessions.live)
      /\ t.ca = threads[h].ca /\ t.expected = threads[h].expected
    BY <1>1, TableSize DEF ThreadType
<1>3. ToSweep(h, p) = [threads EXCEPT ![h] = t]
    BY <1>1 DEF ToSweep
<1> HIDE DEF t
<1>4. QED
    BY <1>1, <1>2, <1>3 DEF Moved

\* A handler that answers is done.
LEMMA ThreadAnswers ==
  ASSUME TypeOK, NEW h \in Handlers, NEW a \in Answers
  PROVE  /\ Moved(Answer(h, a), h, {"done"})
         /\ Answer(h, a)[h].answer = a
         /\ Answer(h, a)[h].ca = threads[h].ca
         /\ Answer(h, a)[h].expected = threads[h].expected
<1> DEFINE t == [threads[h] EXCEPT !.pc = "done", !.answer = a]
<1>1. threads \in [Handlers -> ThreadType]
    BY DEF TypeOK, ThreadType, ThreadPcs, Answers
<1>2. t \in ThreadType /\ t.answer = a /\ t.pc = "done"
      /\ t.ca = threads[h].ca /\ t.expected = threads[h].expected
    BY <1>1 DEF ThreadType, ThreadPcs
<1>3. Answer(h, a) = [threads EXCEPT ![h] = t]
    BY <1>1 DEF Answer
<1> HIDE DEF t
<1>4. QED
    BY <1>1, <1>2, <1>3 DEF Moved

-----------------------------------------------------------------------------
(* What the steps of one handler have in common *)

\* A handler that has begun and not answered is not waited for: what the
\* others have read, answered and used stays as it is, and the invariant is
\* about this handler alone.
LEMMA HandlerFrame ==
  ASSUME IInv, NEW h \in Handlers,
         threads[h].pc \notin {"none", "done"},
         UNCHANGED <<identity, boots, calls, faults, writer>>, calm' \subseteq calm,
         Moved(threads', h, ThreadPcs),
         sessions' \in [live : SUBSET Calls, used : SUBSET Calls, old : SUBSET Calls],
         sessions'.used \cup sessions'.old \subseteq sessions'.live,
         \A c \in sessions'.live :
           c \in sessions.live \/ (c = h[1] /\ h[2] = "handshake"),
         \A c \in sessions'.live \ sessions'.used :
           c \in sessions.live \ sessions.used \/ (c = h[1] /\ h[2] = "handshake"),
         h[2] = "handshake" =>
           /\ threads'[h].pc \in {"sweep", "create", "certificate", "done"}
           /\ threads'[h].answer \notin {"response", "rejected"}
           /\ h[1] \in sessions'.live => threads'[h].pc \in {"certificate", "done"},
         h[2] # "handshake" =>
           /\ threads'[h].pc \in {"expected", "sweep", "decrypt", "resweep", "done"}
           /\ threads'[h].pc = "done" =>
                threads'[h].answer \in {"response", "rejected", "error"},
         threads'[h].answer # None => threads'[h].pc = "done",
         ServerCheckedAt(h)',
         threads'[h].answer = "response" => h[1] \notin sessions'.live \ sessions'.used
  PROVE  IInv'
<1>1. TypeOK'
    BY DEF IInv, TypeOK, Moved, ThreadType, ThreadPcs, Answers
<1>2. /\ \A g \in Handlers : g # h => threads'[g] = threads[g]
      /\ \A g \in Handlers : OrderAt(g) /\ ServerCheckedAt(g) /\ SpentAt(g)
      /\ \A c \in Calls : ClientCheckedAt(c)
      /\ calls' = calls
    BY DEF Moved, IInv, Order, ServerChecked, ClientChecked, AnsweredSessionsAreSpent, SpentAt
<1>3. "response" # None
    BY NamesAssumption
<1>4. \A g \in Handlers : OrderAt(g)'
  <2> SUFFICES ASSUME NEW g \in Handlers PROVE OrderAt(g)'
      OBVIOUS
  <2>1. h[2] # "handshake" => /\ threads[<<h[1], "handshake">>].pc = "done"
                              /\ threads'[<<h[1], "handshake">>].pc = "done"
    <3>1. <<h[1], "handshake">> \in Handlers /\ OrderAt(h)
        BY <1>2, HandlerPair
    <3>2. QED
        BY <3>1, <1>2 DEF OrderAt
  <2>2. CASE g = h
      BY <2>1, <2>2, <1>2 DEF OrderAt
  <2>3. CASE g # h
    <3>1. threads'[g] = threads[g]
        BY <1>2, <2>3
    <3>2. threads[<<g[1], "handshake">>].pc = "done"
          => threads'[<<g[1], "handshake">>].pc = "done"
      <4>1. <<g[1], "handshake">> \in Handlers
          BY HandlerPair
      <4>2. QED
          BY <4>1, <1>2
    <3>3. g[2] = "handshake" /\ g[1] \in sessions'.live => g[1] \in sessions.live
        BY <2>3, HandlerPair
    <3>4. OrderAt(g)
        BY <1>2
    <3>5. QED
        BY <3>1, <3>2, <3>3, <3>4, <1>2 DEF OrderAt
  <2>4. QED
      BY <2>2, <2>3
<1>5. \A g \in Handlers : ServerCheckedAt(g)'
    BY <1>2 DEF ServerCheckedAt, Accepted
<1>6. \A c \in Calls : ClientCheckedAt(c)'
  <2> SUFFICES ASSUME NEW c \in Calls PROVE ClientCheckedAt(c)'
      OBVIOUS
  <2>1. <<c, "handshake">> \in Handlers /\ <<c, "request">> \in Handlers
      BY HandlerPair
  <2>2. threads[<<c, "handshake">>].pc = "done"
        => threads'[<<c, "handshake">>] = threads[<<c, "handshake">>]
      BY <1>2, <2>1
  <2>3. threads[<<c, "request">>].answer = "response"
        => threads'[<<c, "request">>] = threads[<<c, "request">>]
      BY <1>2, <1>3, <2>1 DEF OrderAt
  <2>4. ClientCheckedAt(c)
      BY <1>2
  <2>5. QED
      BY <2>2, <2>3, <2>4, <1>2 DEF ClientCheckedAt
<1>7. \A g \in Handlers : SpentAt(g)'
  <2> SUFFICES ASSUME NEW g \in Handlers, threads'[g].answer = "response"
               PROVE  g[1] \notin sessions'.live \ sessions'.used
      BY DEF SpentAt
  <2>1. CASE g = h
      BY <2>1
  <2>2. CASE g # h
    <3>1. threads[g].answer = "response" /\ threads[g].pc = "done" /\ g[2] # "handshake"
        BY <2>2, <1>2, <1>3 DEF OrderAt
    <3>2. threads[<<g[1], "handshake">>].pc = "done" /\ g[1] \notin sessions.live \ sessions.used
        BY <3>1, <1>2 DEF OrderAt, SpentAt
    <3>3. ~ (g[1] = h[1] /\ h[2] = "handshake")
        BY <3>2, HandlerPair
    <3>4. QED
        BY <3>2, <3>3
  <2>3. QED
      BY <2>1, <2>2
<1>8. QED
    BY <1>1, <1>4, <1>5, <1>6, <1>7
    DEF IInv, Order, ServerChecked, ClientChecked, AnsweredSessionsAreSpent, SpentAt

-----------------------------------------------------------------------------
(* Every action preserves the invariant *)

\* The invariant holds initially.
LEMMA InitInvariant == Init => IInv
<1> SUFFICES ASSUME Init PROVE IInv
    OBVIOUS
<1>1. TypeOK
  <2>1. Cardinality(Calls) \in Nat
      BY CallsAssumption, FS_CardinalityType
  <2>2. QED
      BY <2>1, FaultsAssumption DEF Init, TypeOK, Material, Unconfigured, NewCall, NewThread, Failed, Services
<1>2. Order /\ AnsweredSessionsAreSpent /\ ServerChecked
    BY HandlerPair, NamesAssumption
    DEF Init, NewCall, NewThread, Order, OrderAt, AnsweredSessionsAreSpent,
        ServerChecked, ServerCheckedAt
<1>3. ClientChecked
    BY DEF Init, NewCall, ClientChecked, ClientCheckedAt
<1>4. QED
    BY <1>1, <1>2, <1>3 DEF IInv

\* The assignments of a bootstrap are those of every field of both services.
LEMMA WritesAll ==
  /\ \A i \in 1..8 : Writes[i][1] \in Services /\ Writes[i][2] \in DOMAIN Unconfigured
  /\ \A s \in Services, f \in DOMAIN Unconfigured :
       \E i \in 1..8 : Writes[i][1] = s /\ Writes[i][2] = f
<1>1. /\ Writes[1] = <<"client", "configured">> /\ Writes[5] = <<"server", "configured">>
      /\ Writes[2] = <<"client", "ca">>         /\ Writes[6] = <<"server", "ca">>
      /\ Writes[3] = <<"client", "own">>        /\ Writes[7] = <<"server", "own">>
      /\ Writes[4] = <<"client", "expected">>   /\ Writes[8] = <<"server", "expected">>
    BY DEF Writes
<1>2. Services = {"client", "server"}
      /\ DOMAIN Unconfigured = {"configured", "ca", "own", "expected"}
    BY DEF Services, Unconfigured
<1>3. \A i \in 1..8 : i \in {1, 2, 3, 4, 5, 6, 7, 8}
    OBVIOUS
<1>4. \A i \in 1..8 : Writes[i][1] \in Services /\ Writes[i][2] \in DOMAIN Unconfigured
    BY <1>1, <1>2, <1>3
<1>5. ASSUME NEW f \in DOMAIN Unconfigured
      PROVE  \E i \in 1..4 : Writes[i][1] = "client" /\ Writes[i][2] = f
  <2>1. CASE f = "configured"  BY <1>1, <2>1
  <2>2. CASE f = "ca"          BY <1>1, <2>2
  <2>3. CASE f = "own"         BY <1>1, <2>3
  <2>4. CASE f = "expected"    BY <1>1, <2>4
  <2>5. QED                    BY <1>2, <2>1, <2>2, <2>3, <2>4
<1>6. ASSUME NEW f \in DOMAIN Unconfigured
      PROVE  \E i \in 5..8 : Writes[i][1] = "server" /\ Writes[i][2] = f
  <2>1. CASE f = "configured"  BY <1>1, <2>1
  <2>2. CASE f = "ca"          BY <1>1, <2>2
  <2>3. CASE f = "own"         BY <1>1, <2>3
  <2>4. CASE f = "expected"    BY <1>1, <2>4
  <2>5. QED                    BY <1>2, <2>1, <2>2, <2>3, <2>4
<1>7. ASSUME NEW s \in Services, NEW f \in DOMAIN Unconfigured
      PROVE  \E i \in 1..8 : Writes[i][1] = s /\ Writes[i][2] = f
  <2>1. s = "client" \/ s = "server"
      BY <1>2
  <2>2. 1..4 \subseteq 1..8 /\ 5..8 \subseteq 1..8
      OBVIOUS
  <2>3. QED
      BY <1>5, <1>6, <2>1, <2>2
<1>8. QED
    BY <1>4, <1>7

\* An assignment of a bootstrap only changes an identity.
LEMMA ConfigureStep ==
  ASSUME IInv, NEW b \in Bootstraps, ConfigureField(b) PROVE IInv'
<1>1. TypeOK'
  <2>1. /\ identity' \in [Services -> [configured : Material, ca : Material,
                                      own : Material, expected : Material]]
        /\ boots' \in [Bootstraps -> 1..Failed]
        /\ writer' \in Material /\ calm' \subseteq Calls
    <3>1. boots[b] \in 1..8
        BY DEF ConfigureField
    <3>2. PICK s \in Services, f \in DOMAIN Unconfigured :
            identity' = [identity EXCEPT ![s][f] = b]
        BY <3>1, WritesAll DEF ConfigureField
    <3>3. identity' \in [Services -> [configured : Material, ca : Material,
                                     own : Material, expected : Material]]
      <4>1. identity[s] \in [configured : Material, ca : Material,
                             own : Material, expected : Material]
          BY DEF IInv, TypeOK
      <4>2. b \in Material /\ f \in {"configured", "ca", "own", "expected"}
          BY DEF Material, Unconfigured
      <4>3. [identity[s] EXCEPT ![f] = b] \in [configured : Material, ca : Material,
                                               own : Material, expected : Material]
          BY <4>1, <4>2
      <4>4. QED
          BY <3>2, <4>3 DEF IInv, TypeOK
    <3>4. boots' \in [Bootstraps -> 1..Failed]
        BY <3>1 DEF IInv, TypeOK, ConfigureField, Failed
    <3>5. writer' \in Material /\ calm' \subseteq Calls
        BY DEF ConfigureField, Material
    <3>6. QED
        BY <3>3, <3>4, <3>5
  <2>2. QED
      BY <2>1 DEF IInv, TypeOK, ConfigureField
<1>2. QED
    BY <1>1 DEF IInv, ConfigureField, Order, OrderAt, ServerChecked, ServerCheckedAt,
        Accepted, ClientChecked, ClientCheckedAt, AnsweredSessionsAreSpent

\* A bootstrap that fails leaves everything else alone.
LEMMA BootstrapFailsStep ==
  ASSUME IInv, NEW b \in Bootstraps, BootstrapFails(b) PROVE IInv'
<1>1. TypeOK'
    BY DEF IInv, TypeOK, BootstrapFails, Failed
<1>2. QED
    BY <1>1 DEF IInv, BootstrapFails, Order, OrderAt, ServerChecked, ServerCheckedAt,
        Accepted, ClientChecked, ClientCheckedAt, AnsweredSessionsAreSpent

\* A handshake starts its loop over the table, or is refused.
LEMMA StartHandshakeStep ==
  ASSUME IInv, NEW c \in Calls, StartHandshake(c) PROVE IInv'
<1>1. PICK h \in Handlers : h = <<c, "handshake">>
    BY HandlerPair
<1>2. h[1] = c /\ h[2] = "handshake" /\ threads[h].pc = "new" /\ OrderAt(h)
    BY <1>1 DEF StartHandshake, IInv, Order
<1>3. threads' = Answer(h, "error") \/ threads' = ToSweep(h, "sweep")
    BY <1>1 DEF StartHandshake
<1>4. "error" \in Answers /\ "sweep" \in ThreadPcs /\ {"done", "sweep"} \subseteq ThreadPcs
    BY DEF Answers, ThreadPcs
<1>5. /\ Moved(threads', h, ThreadPcs) /\ threads'[h].pc \in {"done", "sweep"}
      /\ threads'[h].answer \in {threads[h].answer, "error"}
      /\ threads'[h].answer # threads[h].answer => threads'[h].pc = "done"
    BY <1>2, <1>3, <1>4, ThreadSweeps, ThreadAnswers DEF IInv, Moved
<1>6. sessions' = sessions /\ h[1] \notin sessions.live /\ threads[h].answer = None
    BY <1>2 DEF StartHandshake, OrderAt
<1>7. ServerCheckedAt(h)'
    BY <1>2 DEF ServerCheckedAt
<1>8. QED
    BY <1>2, <1>5, <1>6, <1>7, HandlerFrame, NamesAssumption DEF StartHandshake, IInv, TypeOK

\* The loop for a handshake ends, or the table changed under it.
LEMMA SweepForHandshakeStep ==
  ASSUME IInv, NEW c \in Calls, SweepForHandshake(c) PROVE IInv'
<1>1. PICK h \in Handlers : h = <<c, "handshake">>
    BY HandlerPair
<1>2. h[1] = c /\ h[2] = "handshake" /\ threads[h].pc = "sweep" /\ OrderAt(h)
    BY <1>1 DEF SweepForHandshake, IInv, Order
<1>3. \/ threads' = Answer(h, "error") /\ sessions' = sessions
      \/ threads' = To(h, "create") /\ sessions' = Swept
    BY <1>1 DEF SweepForHandshake
<1>4. "error" \in Answers /\ "create" \in ThreadPcs /\ {"done", "create"} \subseteq ThreadPcs
    BY DEF Answers, ThreadPcs
<1>5. /\ Moved(threads', h, ThreadPcs) /\ threads'[h].pc \in {"done", "create"}
      /\ threads'[h].answer \in {threads[h].answer, "error"}
      /\ threads'[h].answer # threads[h].answer => threads'[h].pc = "done"
    BY <1>2, <1>3, <1>4, ThreadMoves, ThreadAnswers DEF IInv, Moved
<1>6. h[1] \notin sessions.live /\ threads[h].answer = None /\ ServerCheckedAt(h)'
    BY <1>2 DEF OrderAt, ServerCheckedAt
<1>7. /\ sessions' \in [live : SUBSET Calls, used : SUBSET Calls, old : SUBSET Calls]
      /\ sessions'.used \cup sessions'.old \subseteq sessions'.live
      /\ sessions'.live \subseteq sessions.live
      /\ sessions'.live \ sessions'.used \subseteq sessions.live \ sessions.used
    BY <1>3, SweptType DEF IInv, TypeOK
<1>8. UNCHANGED <<identity, boots, calls, faults, writer>> /\ calm' \subseteq calm
    BY DEF SweepForHandshake
<1>9. QED
    BY <1>2, <1>5, <1>6, <1>7, <1>8, HandlerFrame, NamesAssumption

\* A handshake stores its session.
LEMMA CreateSessionStep ==
  ASSUME IInv, NEW c \in Calls, CreateSession(c) PROVE IInv'
<1>1. PICK h \in Handlers : h = <<c, "handshake">>
    BY HandlerPair
<1>2. h[1] = c /\ h[2] = "handshake" /\ threads[h].pc = "create" /\ OrderAt(h)
    BY <1>1 DEF CreateSession, IInv, Order
<1>3. threads' = To(h, "certificate") /\ "certificate" \in ThreadPcs
    BY <1>1 DEF CreateSession, ThreadPcs
<1>4. /\ Moved(threads', h, ThreadPcs) /\ threads'[h].pc = "certificate"
      /\ threads'[h].answer = threads[h].answer
    BY <1>2, <1>3, ThreadMoves DEF IInv, Moved
<1>5. threads[h].answer = None /\ ServerCheckedAt(h)'
    BY <1>2 DEF OrderAt, ServerCheckedAt
<1>6. /\ sessions' \in [live : SUBSET Calls, used : SUBSET Calls, old : SUBSET Calls]
      /\ sessions'.used \cup sessions'.old \subseteq sessions'.live
      /\ sessions'.live = sessions.live \cup {c} /\ sessions'.used = sessions.used
    BY DEF CreateSession, IInv, TypeOK
<1>7. UNCHANGED <<identity, boots, calls, faults, writer>> /\ calm' \subseteq calm
    BY DEF CreateSession
<1>8. QED
    BY <1>2, <1>4, <1>5, <1>6, <1>7, HandlerFrame, NamesAssumption

\* A handshake answers with the certificate it reads now.
LEMMA AnswerHandshakeStep ==
  ASSUME IInv, NEW c \in Calls, AnswerHandshake(c) PROVE IInv'
<1>1. PICK h \in Handlers : h = <<c, "handshake">>
    BY HandlerPair
<1>2. h[1] = c /\ h[2] = "handshake" /\ threads[h].pc = "certificate"
    BY <1>1 DEF AnswerHandshake
<1>3. PICK a \in Material \cup {"error"} : threads' = Answer(h, a)
  <2>1. identity["server"].own \in Material
      BY DEF IInv, TypeOK, Services
  <2>2. QED
      BY <2>1, <1>1 DEF AnswerHandshake
<1>4. a \in Answers /\ a \notin {"response", "rejected"} /\ "done" \in ThreadPcs
    BY NamesAssumption DEF Answers, Material, ThreadPcs
<1>5. /\ Moved(threads', h, ThreadPcs) /\ threads'[h].pc = "done" /\ threads'[h].answer = a
    BY <1>2, <1>3, <1>4, ThreadAnswers DEF IInv, Moved
<1>6. ServerCheckedAt(h)'
    BY <1>2 DEF ServerCheckedAt
<1>7. UNCHANGED <<identity, sessions, boots, calls, faults, writer, calm>>
    BY DEF AnswerHandshake
<1>8. QED
    BY <1>2, <1>4, <1>5, <1>6, <1>7, HandlerFrame, NamesAssumption DEF IInv, TypeOK

\* A request is refused by a server nobody configured, or reads its CA.
LEMMA StartRequestStep ==
  ASSUME IInv, NEW h \in Handlers, StartRequest(h) PROVE IInv'
<1> DEFINE t == [threads[h] EXCEPT !.pc = "expected", !.ca = identity["server"].ca]
<1>1. h[2] # "handshake" /\ threads[h].pc = "new" /\ OrderAt(h)
    BY DEF StartRequest, IInv, Order
<1>2. threads \in [Handlers -> ThreadType] /\ identity["server"].ca \in Material
    BY DEF IInv, TypeOK, ThreadType, ThreadPcs, Answers, Services
<1>3. t \in ThreadType /\ t.pc = "expected" /\ t.answer = threads[h].answer
    BY <1>2 DEF ThreadType, ThreadPcs
<1>4. \/ threads' = Answer(h, "error")
      \/ threads' = [threads EXCEPT ![h] = t]
    BY <1>2 DEF StartRequest
<1> HIDE DEF t
<1>5. "error" \in Answers /\ {"done", "expected"} \subseteq ThreadPcs
    BY DEF Answers, ThreadPcs
<1>6. /\ Moved(threads', h, ThreadPcs) /\ threads'[h].pc \in {"done", "expected"}
      /\ threads'[h].answer \in {threads[h].answer, "error"}
      /\ threads'[h].answer # threads[h].answer => threads'[h].pc = "done"
      /\ threads'[h].pc = "done" => threads'[h].answer = "error"
    BY <1>2, <1>3, <1>4, <1>5, ThreadAnswers DEF IInv, Moved
<1>7. threads[h].answer = None
    BY <1>1 DEF OrderAt
<1>8. threads'[h].answer # "response" /\ threads'[h].pc \notin {"sweep", "decrypt", "resweep"}
    BY <1>6, <1>7, NamesAssumption
<1>9. ServerCheckedAt(h)'
    BY <1>8 DEF ServerCheckedAt
<1>10. UNCHANGED <<identity, sessions, boots, calls, faults, writer, calm>>
    BY DEF StartRequest
<1>11. QED
    BY <1>1, <1>6, <1>7, <1>8, <1>9, <1>10, HandlerFrame, NamesAssumption DEF IInv, TypeOK

\* A request is rejected, or its certificate accepted with what was read.
LEMMA VerifyClientStep ==
  ASSUME IInv, NEW h \in Handlers, VerifyClient(h) PROVE IInv'
<1> DEFINE e == identity["server"].expected
           t == [threads[h] EXCEPT !.expected = e, !.pc = "sweep",
                                   !.size = Cardinality(sessions.live)]
<1>1. h[2] # "handshake" /\ threads[h].pc = "expected" /\ threads[h].answer = None
    BY NamesAssumption DEF VerifyClient, IInv, Order, OrderAt
<1>2. threads \in [Handlers -> ThreadType] /\ e \in Material
    BY DEF IInv, TypeOK, ThreadType, ThreadPcs, Answers, Services
<1>3. t \in ThreadType /\ t.pc = "sweep" /\ t.answer = None /\ t.expected = e
      /\ t.ca = threads[h].ca
    BY <1>1, <1>2, TableSize DEF IInv, ThreadType, ThreadPcs
<1>4. \/ \E a \in {"error", "rejected"} : threads' = Answer(h, a)
      \/ /\ threads' = [threads EXCEPT ![h] = t]
         /\ VerifyCertificate(calls[h[1]].own, threads[h].ca, e) /\ e # None
    BY <1>2 DEF VerifyClient
<1> HIDE DEF t
<1>5. {"error", "rejected"} \subseteq Answers /\ {"done", "sweep"} \subseteq ThreadPcs
    BY DEF Answers, ThreadPcs
<1>6. CASE \E a \in {"error", "rejected"} : threads' = Answer(h, a)
  <2>1. /\ Moved(threads', h, ThreadPcs) /\ threads'[h].pc = "done"
        /\ threads'[h].answer \in {"error", "rejected"}
      BY <1>5, <1>6, ThreadAnswers DEF IInv, Moved
  <2>2. ServerCheckedAt(h)'
      BY <2>1 DEF ServerCheckedAt
  <2>3. UNCHANGED <<identity, sessions, boots, calls, faults, writer, calm>>
      BY DEF VerifyClient
  <2>4. QED
      BY <1>1, <2>1, <2>2, <2>3, HandlerFrame DEF IInv, TypeOK
<1>7. CASE /\ threads' = [threads EXCEPT ![h] = t]
           /\ VerifyCertificate(calls[h[1]].own, threads[h].ca, e) /\ e # None
  <2>1. /\ Moved(threads', h, ThreadPcs) /\ threads'[h] = t
      BY <1>2, <1>3, <1>5, <1>7 DEF Moved
  <2>2. UNCHANGED <<identity, sessions, boots, calls, faults, writer, calm>>
      BY DEF VerifyClient
  <2>3. ServerCheckedAt(h)'
      BY <1>3, <1>7, <2>1, <2>2 DEF ServerCheckedAt, Accepted, VerifyCertificate
  <2>4. QED
      BY <1>1, <1>3, <2>1, <2>2, <2>3, HandlerFrame, NamesAssumption DEF IInv, TypeOK
<1>8. QED
    BY <1>4, <1>6, <1>7

\* The loop for a request ends and its session is looked up.
LEMMA GetSessionStep ==
  ASSUME IInv, NEW h \in Handlers, GetSession(h) PROVE IInv'
<1>1. h[2] # "handshake" /\ threads[h].pc = "sweep" /\ threads[h].answer = None
      /\ ServerCheckedAt(h)
    BY NamesAssumption DEF GetSession, IInv, Order, OrderAt, ServerChecked
<1>2. threads' = Answer(h, "error") \/ threads' = To(h, "decrypt")
    BY DEF GetSession
<1>3. "error" \in Answers /\ "decrypt" \in ThreadPcs /\ {"done", "decrypt"} \subseteq ThreadPcs
    BY DEF Answers, ThreadPcs
<1>4. /\ Moved(threads', h, ThreadPcs) /\ threads'[h].pc \in {"done", "decrypt"}
      /\ threads'[h].answer \in {threads[h].answer, "error"}
      /\ threads'[h].answer # threads[h].answer => threads'[h].pc = "done"
      /\ threads'[h].pc = "done" => threads'[h].answer = "error"
      /\ threads'[h].ca = threads[h].ca /\ threads'[h].expected = threads[h].expected
    BY <1>2, <1>3, ThreadMoves, ThreadAnswers DEF IInv, Moved
<1>5. sessions' = sessions \/ sessions' = Swept
    BY DEF GetSession
<1>6. /\ sessions' \in [live : SUBSET Calls, used : SUBSET Calls, old : SUBSET Calls]
      /\ sessions'.used \cup sessions'.old \subseteq sessions'.live
      /\ sessions'.live \subseteq sessions.live
      /\ sessions'.live \ sessions'.used \subseteq sessions.live \ sessions.used
    BY <1>5, SweptType DEF IInv, TypeOK
<1>7. UNCHANGED <<identity, boots, calls, faults, writer>> /\ calm' \subseteq calm
    BY DEF GetSession
<1>8. ServerCheckedAt(h)'
    BY <1>1, <1>4, <1>7 DEF ServerCheckedAt, Accepted
<1>9. QED
    BY <1>1, <1>4, <1>6, <1>7, <1>8, HandlerFrame, NamesAssumption

\* A request is decrypted and its response made.
LEMMA DecryptAndProcessStep ==
  ASSUME IInv, NEW h \in Handlers, DecryptAndProcess(h) PROVE IInv'
<1>1. h[2] # "handshake" /\ threads[h].pc = "decrypt" /\ threads[h].answer = None
      /\ ServerCheckedAt(h)
    BY NamesAssumption DEF DecryptAndProcess, IInv, Order, OrderAt, ServerChecked
<1>2. threads' = ToSweep(h, "resweep") /\ "resweep" \in ThreadPcs
    BY DEF DecryptAndProcess, ThreadPcs
<1>3. /\ Moved(threads', h, ThreadPcs) /\ threads'[h].pc = "resweep"
      /\ threads'[h].answer = threads[h].answer
      /\ threads'[h].ca = threads[h].ca /\ threads'[h].expected = threads[h].expected
    BY <1>2, ThreadSweeps DEF IInv, Moved
<1>4. UNCHANGED <<identity, sessions, boots, calls, faults, writer, calm>>
    BY DEF DecryptAndProcess
<1>5. ServerCheckedAt(h)'
    BY <1>1, <1>3, <1>4 DEF ServerCheckedAt, Accepted
<1>6. QED
    BY <1>1, <1>3, <1>4, <1>5, HandlerFrame, NamesAssumption DEF IInv, TypeOK

\* A request is answered only when its session was found and marked.
LEMMA MarkUsedStep ==
  ASSUME IInv, NEW h \in Handlers, MarkUsed(h) PROVE IInv'
<1>1. h[2] # "handshake" /\ threads[h].pc = "resweep" /\ threads[h].answer = None
      /\ ServerCheckedAt(h) /\ h[1] \in Calls
    BY NamesAssumption, HandlerPair DEF MarkUsed, IInv, Order, OrderAt, ServerChecked
<1>2. \/ threads' = Answer(h, "error") /\ sessions' \in {sessions, Swept}
      \/ /\ threads' = Answer(h, "response") /\ h[1] \in Swept.live
         /\ sessions' = [Swept EXCEPT !.used = @ \cup {h[1]}]
  <2>1. h[1] \notin Swept.live => [Swept EXCEPT !.used = @] = Swept
      BY DEF Swept
  <2>2. QED
      BY <2>1 DEF MarkUsed
<1>3. {"error", "response"} \subseteq Answers /\ "done" \in ThreadPcs
    BY DEF Answers, ThreadPcs
<1>4. /\ Moved(threads', h, ThreadPcs) /\ threads'[h].pc = "done"
      /\ threads'[h].answer \in {"error", "response"}
      /\ threads'[h].answer = "response" =>
           h[1] \in Swept.live /\ sessions' = [Swept EXCEPT !.used = @ \cup {h[1]}]
      /\ threads'[h].ca = threads[h].ca /\ threads'[h].expected = threads[h].expected
    BY <1>2, <1>3, ThreadAnswers DEF IInv, Moved
<1>5. /\ sessions' \in [live : SUBSET Calls, used : SUBSET Calls, old : SUBSET Calls]
      /\ sessions'.used \cup sessions'.old \subseteq sessions'.live
      /\ sessions'.live \subseteq sessions.live
      /\ sessions'.live \ sessions'.used \subseteq sessions.live \ sessions.used
    BY <1>1, <1>2, SweptType DEF IInv, TypeOK
<1>6. threads'[h].answer = "response" => h[1] \notin sessions'.live \ sessions'.used
    BY <1>1, <1>4, SweptType DEF IInv
<1>7. UNCHANGED <<identity, boots, calls, faults, writer>> /\ calm' \subseteq calm
    BY DEF MarkUsed
<1>8. ServerCheckedAt(h)'
    BY <1>1, <1>4, <1>7 DEF ServerCheckedAt, Accepted
<1>9. QED
    BY <1>1, <1>4, <1>5, <1>6, <1>7, <1>8, HandlerFrame, NamesAssumption

-----------------------------------------------------------------------------
(* What the steps of one call have in common *)

CallPcs  == {"idle", "own", "expected", "handshake", "sent", "completed",
             "refused", "error"}
CallType == [pc : CallPcs, ca : Material, own : Material, expected : Material,
             peer : Material]

\* A call that only moves on keeps what it has read.
LEMMA CallMoves ==
  ASSUME TypeOK, NEW c \in Calls, NEW p \in CallPcs
  PROVE  /\ Call(c, p) \in [Calls -> CallType]
         /\ \A d \in Calls : d # c => Call(c, p)[d] = calls[d]
         /\ Call(c, p)[c].pc = p /\ Call(c, p)[c].own = calls[c].own
         /\ Call(c, p)[c].ca = calls[c].ca /\ Call(c, p)[c].expected = calls[c].expected
         /\ Call(c, p)[c].peer = calls[c].peer
<1> DEFINE r == [calls[c] EXCEPT !.pc = p]
<1>1. calls \in [Calls -> CallType]
    BY DEF TypeOK, CallType, CallPcs
<1>2. r \in CallType /\ r.pc = p /\ r.own = calls[c].own /\ r.ca = calls[c].ca
      /\ r.expected = calls[c].expected /\ r.peer = calls[c].peer
    BY <1>1 DEF CallType
<1>3. Call(c, p) = [calls EXCEPT ![c] = r]
    BY <1>1 DEF Call
<1> HIDE DEF r
<1>4. QED
    BY <1>1, <1>2, <1>3

\* A step of a call is about this call and its handlers alone.
LEMMA CallFrame ==
  ASSUME IInv, NEW c \in Calls,
         UNCHANGED <<identity, sessions, boots, writer>>, calm' \subseteq Calls,
         calls' \in [Calls -> CallType], \A d \in Calls : d # c => calls'[d] = calls[d],
         threads' \in [Handlers -> ThreadType],
         \A g \in Handlers : /\ g[1] # c => threads'[g] = threads[g]
                             /\ threads'[g].answer = threads[g].answer,
         \A g \in Handlers : g[1] = c => OrderAt(g)' /\ ServerCheckedAt(g)',
         ClientCheckedAt(c)'
  PROVE  IInv'
<1>1. TypeOK'
    BY DEF IInv, TypeOK, CallType, CallPcs, ThreadType, ThreadPcs, Answers
<1>2. \A g \in Handlers : OrderAt(g)' /\ ServerCheckedAt(g)'
  <2> SUFFICES ASSUME NEW g \in Handlers, g[1] # c PROVE OrderAt(g)' /\ ServerCheckedAt(g)'
      OBVIOUS
  <2>1. /\ g[1] \in Calls /\ <<g[1], "handshake">> \in Handlers
        /\ <<g[1], "handshake">>[1] = g[1]
      BY HandlerPair
  <2>2. /\ threads'[g] = threads[g] /\ calls'[g[1]] = calls[g[1]]
        /\ threads'[<<g[1], "handshake">>] = threads[<<g[1], "handshake">>]
      BY <2>1
  <2>3. OrderAt(g) /\ ServerCheckedAt(g)
      BY DEF IInv, Order, ServerChecked
  <2>4. QED
      BY <2>2, <2>3 DEF OrderAt, ServerCheckedAt, Accepted
<1>3. \A d \in Calls : ClientCheckedAt(d)'
  <2> SUFFICES ASSUME NEW d \in Calls, d # c PROVE ClientCheckedAt(d)'
      OBVIOUS
  <2>1. /\ <<d, "handshake">> \in Handlers /\ <<d, "handshake">>[1] = d
        /\ <<d, "request">> \in Handlers /\ <<d, "request">>[1] = d
      BY HandlerPair
  <2>2. ClientCheckedAt(d)
      BY DEF IInv, ClientChecked
  <2>3. QED
      BY <2>1, <2>2 DEF ClientCheckedAt
<1>4. AnsweredSessionsAreSpent'
    BY DEF IInv, AnsweredSessionsAreSpent
<1>5. QED
    BY <1>1, <1>2, <1>3, <1>4 DEF IInv, Order, ServerChecked, ClientChecked

\* The handlers of a call that has not asked for its handshake do not run.
LEMMA NoHandlersYet ==
  ASSUME IInv, NEW c \in Calls, calls[c].pc \in {"idle", "own", "expected"}
  PROVE  \A g \in Handlers : g[1] = c =>
           /\ threads[g].pc = "none" /\ threads[g].answer = None
           /\ g[2] = "handshake" => c \notin sessions.live
BY NamesAssumption DEF IInv, Order, OrderAt

-----------------------------------------------------------------------------
(* Every action of a call preserves the invariant *)

\* A call begins with the client's configuration, or is refused.
LEMMA BeginCallStep ==
  ASSUME IInv, NEW c \in Calls, BeginCall(c) PROVE IInv'
<1> DEFINE r == [calls[c] EXCEPT !.pc = "own", !.ca = identity["client"].ca]
<1>1. calls \in [Calls -> CallType] /\ identity["client"].ca \in Material
    BY DEF IInv, TypeOK, CallType, CallPcs, Services
<1>2. r \in CallType /\ r.pc = "own"
    BY <1>1 DEF CallType, CallPcs
<1>3. calls' = Call(c, "error") \/ calls' = [calls EXCEPT ![c] = r]
    BY <1>1 DEF BeginCall
<1> HIDE DEF r
<1>4. "error" \in CallPcs
    BY DEF CallPcs
<1>5. /\ calls' \in [Calls -> CallType] /\ \A d \in Calls : d # c => calls'[d] = calls[d]
      /\ calls'[c].pc \in {"own", "error"}
    BY <1>1, <1>2, <1>3, <1>4, CallMoves DEF IInv
<1>6. threads' = threads /\ threads \in [Handlers -> ThreadType] /\ calm' \subseteq Calls
      /\ UNCHANGED <<identity, sessions, boots, writer>> /\ calls[c].pc = "idle"
    BY DEF BeginCall, IInv, TypeOK, ThreadType, ThreadPcs, Answers
<1>7. \A g \in Handlers : g[1] = c => OrderAt(g)' /\ ServerCheckedAt(g)'
    BY <1>5, <1>6, NoHandlersYet, NamesAssumption DEF OrderAt, ServerCheckedAt
<1>8. ClientCheckedAt(c)'
    BY <1>5 DEF ClientCheckedAt
<1>9. QED
    BY <1>5, <1>6, <1>7, <1>8, CallFrame

\* A call reads the client's certificate.
LEMMA ReadOwnStep ==
  ASSUME IInv, NEW c \in Calls, ReadOwn(c) PROVE IInv'
<1> DEFINE r == [calls[c] EXCEPT !.pc = "expected", !.own = identity["client"].own]
<1>1. calls \in [Calls -> CallType] /\ identity["client"].own \in Material
    BY DEF IInv, TypeOK, CallType, CallPcs, Services
<1>2. r \in CallType /\ r.pc = "expected"
    BY <1>1 DEF CallType, CallPcs
<1>3. calls' = [calls EXCEPT ![c] = r]
    BY <1>1 DEF ReadOwn
<1> HIDE DEF r
<1>4. /\ calls' \in [Calls -> CallType] /\ \A d \in Calls : d # c => calls'[d] = calls[d]
      /\ calls'[c].pc = "expected"
    BY <1>1, <1>2, <1>3
<1>5. threads' = threads /\ threads \in [Handlers -> ThreadType] /\ calm' \subseteq Calls
      /\ UNCHANGED <<identity, sessions, boots, writer>> /\ calls[c].pc = "own"
    BY DEF ReadOwn, IInv, TypeOK, ThreadType, ThreadPcs, Answers
<1>6. \A g \in Handlers : g[1] = c => OrderAt(g)' /\ ServerCheckedAt(g)'
    BY <1>4, <1>5, NoHandlersYet, NamesAssumption DEF OrderAt, ServerCheckedAt
<1>7. ClientCheckedAt(c)'
    BY <1>4 DEF ClientCheckedAt
<1>8. QED
    BY <1>4, <1>5, <1>6, <1>7, CallFrame

\* A call reads the name it expects and asks for its handshake.
LEMMA RequestHandshakeStep ==
  ASSUME IInv, NEW c \in Calls, RequestHandshake(c) PROVE IInv'
<1> DEFINE r == [calls[c] EXCEPT !.pc = "handshake", !.expected = identity["client"].expected]
<1>1. calls \in [Calls -> CallType] /\ identity["client"].expected \in Material
    BY DEF IInv, TypeOK, CallType, CallPcs, Services
<1>2. r \in CallType /\ r.pc = "handshake"
    BY <1>1 DEF CallType, CallPcs
<1>3. calls' = [calls EXCEPT ![c] = r]
    BY <1>1 DEF RequestHandshake
<1> HIDE DEF r
<1>4. /\ calls' \in [Calls -> CallType] /\ \A d \in Calls : d # c => calls'[d] = calls[d]
      /\ calls'[c].pc = "handshake"
    BY <1>1, <1>2, <1>3
<1>5. PICK h \in Handlers : h = <<c, "handshake">>
    BY HandlerPair
<1>6. threads' = To(h, "new") /\ calm' \subseteq Calls
      /\ UNCHANGED <<identity, sessions, boots, writer>> /\ calls[c].pc = "expected"
    BY <1>5 DEF RequestHandshake, IInv, TypeOK
<1>7. h[1] = c /\ h[2] = "handshake" /\ "new" \in ThreadPcs
    BY <1>5 DEF ThreadPcs
<1>8. /\ threads' \in [Handlers -> ThreadType]
      /\ \A g \in Handlers : g # h => threads'[g] = threads[g]
      /\ threads'[h].pc = "new" /\ threads'[h].answer = threads[h].answer
    BY <1>6, <1>7, ThreadMoves DEF IInv, Moved
<1>9. \A g \in Handlers : g[1] = c => OrderAt(g)' /\ ServerCheckedAt(g)'
  <2> SUFFICES ASSUME NEW g \in Handlers, g[1] = c PROVE OrderAt(g)' /\ ServerCheckedAt(g)'
      OBVIOUS
  <2>1. g[2] # "handshake" => g # h
      BY <1>7
  <2>2. g[2] = "handshake" => g = h
      BY <1>5, HandlerPair
  <2>3. threads[g].pc = "none" /\ threads[g].answer = None
        /\ (g[2] = "handshake" => c \notin sessions.live)
      BY <1>6, NoHandlersYet
  <2>4. QED
      BY <2>1, <2>2, <2>3, <1>4, <1>6, <1>8, NamesAssumption DEF OrderAt, ServerCheckedAt
<1>10. ClientCheckedAt(c)'
    BY <1>4 DEF ClientCheckedAt
<1>11. \A g \in Handlers : /\ g[1] # c => threads'[g] = threads[g]
                           /\ threads'[g].answer = threads[g].answer
    BY <1>7, <1>8
<1>12. QED
    BY <1>4, <1>6, <1>8, <1>9, <1>10, <1>11, CallFrame

\* A call checks the server's certificate, and sends its request or ends.
LEMMA SendRequestStep ==
  ASSUME IInv, NEW c \in Calls, SendRequest(c) PROVE IInv'
<1> DEFINE p == threads[<<c, "handshake">>].answer
           r == [calls[c] EXCEPT !.pc = "sent", !.peer = p]
<1>1. PICK h \in Handlers : h = <<c, "request">>
    BY HandlerPair
<1>2. h[1] = c /\ h[2] = "request" /\ "new" \in ThreadPcs
    BY <1>1 DEF ThreadPcs
<1>3. calls \in [Calls -> CallType] /\ threads \in [Handlers -> ThreadType]
    BY DEF IInv, TypeOK, CallType, CallPcs, ThreadType, ThreadPcs, Answers
<1>4. /\ calls[c].pc = "handshake" /\ threads[<<c, "handshake">>].pc = "done"
      /\ UNCHANGED <<identity, sessions, boots, writer>> /\ calm' \subseteq Calls
    BY DEF SendRequest, IInv, TypeOK
<1>5. \A g \in Handlers : g[1] = c =>
        /\ OrderAt(g) /\ ServerCheckedAt(g)
        /\ g[2] # "handshake" => threads[g].pc = "none" /\ threads[g].answer = None
    BY <1>4 DEF IInv, Order, OrderAt, ServerChecked
<1>6. \/ threads' = threads /\ (calls' = Call(c, "error") \/ calls' = Call(c, "refused"))
      \/ /\ VerifyCertificate(p, calls[c].ca, calls[c].expected) /\ calls[c].expected # None
         /\ calls' = [calls EXCEPT ![c] = r] /\ threads' = To(h, "new")
    BY <1>1, <1>3 DEF SendRequest
<1>7. CASE threads' = threads /\ (calls' = Call(c, "error") \/ calls' = Call(c, "refused"))
  <2>1. "error" \in CallPcs /\ "refused" \in CallPcs
      BY DEF CallPcs
  <2>2. /\ calls' \in [Calls -> CallType] /\ \A d \in Calls : d # c => calls'[d] = calls[d]
        /\ calls'[c].pc \in {"error", "refused"} /\ calls'[c].own = calls[c].own
      BY <1>7, <2>1, CallMoves DEF IInv
  <2>3. \A g \in Handlers : g[1] = c => OrderAt(g)' /\ ServerCheckedAt(g)'
      BY <1>4, <1>5, <1>7, <2>2 DEF OrderAt, ServerCheckedAt, Accepted
  <2>4. ClientCheckedAt(c)'
      BY <2>2 DEF ClientCheckedAt
  <2>5. QED
      BY <1>3, <1>4, <1>7, <2>2, <2>3, <2>4, CallFrame
<1>8. CASE /\ VerifyCertificate(p, calls[c].ca, calls[c].expected) /\ calls[c].expected # None
           /\ calls' = [calls EXCEPT ![c] = r] /\ threads' = To(h, "new")
  <2>1. /\ r \in CallType /\ r.pc = "sent" /\ r.peer = p /\ r.ca = calls[c].ca
        /\ r.expected = calls[c].expected /\ r.own = calls[c].own /\ p = calls[c].ca
      BY <1>3, <1>8 DEF CallType, CallPcs, VerifyCertificate
  <2>2. /\ calls' \in [Calls -> CallType] /\ \A d \in Calls : d # c => calls'[d] = calls[d]
        /\ calls'[c] = r
      BY <1>3, <1>8, <2>1
  <2>3. /\ threads' \in [Handlers -> ThreadType]
        /\ \A g \in Handlers : g # h => threads'[g] = threads[g]
        /\ threads'[h].pc = "new" /\ threads'[h].answer = threads[h].answer
      BY <1>2, <1>8, ThreadMoves DEF IInv, Moved
  <2>4. <<c, "handshake">> \in Handlers /\ <<c, "handshake">> # h
      BY <1>1, HandlerPair
  <2>5. threads'[<<c, "handshake">>] = threads[<<c, "handshake">>]
      BY <2>3, <2>4
  <2>6. \A g \in Handlers : g[1] = c => OrderAt(g)' /\ ServerCheckedAt(g)'
    <3> SUFFICES ASSUME NEW g \in Handlers, g[1] = c PROVE OrderAt(g)' /\ ServerCheckedAt(g)'
        OBVIOUS
    <3>1. CASE g = h
        BY <3>1, <1>2, <1>4, <1>5, <2>1, <2>2, <2>3, <2>5, NamesAssumption
        DEF OrderAt, ServerCheckedAt
    <3>2. CASE g # h
        BY <3>2, <1>4, <1>5, <2>1, <2>2, <2>3, <2>5 DEF OrderAt, ServerCheckedAt, Accepted
    <3>3. QED
        BY <3>1, <3>2
  <2>7. ClientCheckedAt(c)'
      BY <1>4, <1>8, <2>1, <2>2, <2>5 DEF ClientCheckedAt, VerifyCertificate
  <2>8. \A g \in Handlers : /\ g[1] # c => threads'[g] = threads[g]
                            /\ threads'[g].answer = threads[g].answer
      BY <1>2, <2>3
  <2>9. QED
      BY <1>4, <2>2, <2>3, <2>6, <2>7, <2>8, CallFrame
<1>9. QED
    BY <1>6, <1>7, <1>8

\* A call takes the answer to its request.
LEMMA ReceiveResponseStep ==
  ASSUME IInv, NEW c \in Calls, ReceiveResponse(c) PROVE IInv'
<1> DEFINE a == threads[<<c, "request">>].answer
<1>1. /\ calls[c].pc = "sent" /\ threads[<<c, "request">>].pc = "done"
      /\ UNCHANGED <<identity, sessions, boots, writer, threads>> /\ calm' \subseteq Calls
    BY DEF ReceiveResponse, IInv, TypeOK
<1>2. <<c, "request">> \in Handlers /\ <<c, "request">>[2] # "handshake"
    BY HandlerPair
<1>3. a \in {"response", "rejected", "error"}
    BY <1>1, <1>2 DEF IInv, Order, OrderAt
<1>4. \/ calls' = Call(c, "completed") /\ a = "response"
      \/ calls' = Call(c, "refused") \/ calls' = Call(c, "error")
    BY <1>3 DEF ReceiveResponse
<1>5. {"completed", "refused", "error"} \subseteq CallPcs
    BY DEF CallPcs
<1>6. /\ calls' \in [Calls -> CallType] /\ \A d \in Calls : d # c => calls'[d] = calls[d]
      /\ calls'[c].pc \in {"completed", "error", "refused"}
      /\ calls'[c].pc = "completed" => a = "response"
      /\ calls'[c].own = calls[c].own /\ calls'[c].ca = calls[c].ca
      /\ calls'[c].peer = calls[c].peer /\ calls'[c].expected = calls[c].expected
    BY <1>4, <1>5, CallMoves DEF IInv
<1>7. \A g \in Handlers : g[1] = c => OrderAt(g) /\ ServerCheckedAt(g)
    BY DEF IInv, Order, ServerChecked
<1>8. \A g \in Handlers : g[1] = c => OrderAt(g)' /\ ServerCheckedAt(g)'
    BY <1>1, <1>6, <1>7 DEF OrderAt, ServerCheckedAt, Accepted
<1>9. ClientCheckedAt(c)'
  <2>1. ClientCheckedAt(c)
      BY DEF IInv, ClientChecked
  <2>2. QED
      BY <1>1, <1>6, <2>1 DEF ClientCheckedAt
<1>10. threads \in [Handlers -> ThreadType]
    BY DEF IInv, TypeOK, ThreadType, ThreadPcs, Answers
<1>11. QED
    BY <1>1, <1>6, <1>8, <1>9, <1>10, CallFrame

\* A call gives up waiting.
LEMMA CallTimesOutStep ==
  ASSUME IInv, NEW c \in Calls, CallTimesOut(c) PROVE IInv'
<1>1. /\ calls[c].pc \in {"handshake", "sent"} /\ calls' = Call(c, "error")
      /\ UNCHANGED <<identity, sessions, boots, writer, threads>> /\ calm' \subseteq Calls
    BY DEF CallTimesOut, IInv, TypeOK
<1>2. "error" \in CallPcs
    BY DEF CallPcs
<1>3. /\ calls' \in [Calls -> CallType] /\ \A d \in Calls : d # c => calls'[d] = calls[d]
      /\ calls'[c].pc = "error" /\ calls'[c].own = calls[c].own
    BY <1>1, <1>2, CallMoves DEF IInv
<1>4. \A g \in Handlers : g[1] = c => OrderAt(g) /\ ServerCheckedAt(g)
    BY DEF IInv, Order, ServerChecked
<1>5. \A g \in Handlers : g[1] = c => OrderAt(g)' /\ ServerCheckedAt(g)'
    BY <1>1, <1>3, <1>4 DEF OrderAt, ServerCheckedAt, Accepted
<1>6. ClientCheckedAt(c)'
    BY <1>3 DEF ClientCheckedAt
<1>7. threads \in [Handlers -> ThreadType]
    BY DEF IInv, TypeOK, ThreadType, ThreadPcs, Answers
<1>8. QED
    BY <1>1, <1>3, <1>5, <1>6, <1>7, CallFrame

\* A request arrives once more.
LEMMA DuplicateRequestStep ==
  ASSUME IInv, NEW c \in Calls, DuplicateRequest(c) PROVE IInv'
<1>1. PICK h \in Handlers : h = <<c, "again">>
    BY HandlerPair
<1>2. PICK q \in Handlers : q = <<c, "request">>
    BY HandlerPair
<1>3. h[1] = c /\ h[2] = "again" /\ q[1] = c /\ q[2] = "request" /\ "new" \in ThreadPcs
    BY <1>1, <1>2 DEF ThreadPcs
<1>4. /\ threads[q].pc # "none" /\ threads[h].pc = "none" /\ threads' = To(h, "new")
      /\ UNCHANGED <<identity, sessions, boots, writer, calls>> /\ calm' \subseteq Calls
    BY <1>1, <1>2 DEF DuplicateRequest, IInv, TypeOK
<1>5. /\ threads' \in [Handlers -> ThreadType]
      /\ \A g \in Handlers : g # h => threads'[g] = threads[g]
      /\ threads'[h].pc = "new" /\ threads'[h].answer = threads[h].answer
    BY <1>3, <1>4, ThreadMoves DEF IInv, Moved
<1>6. <<c, "handshake">> \in Handlers /\ <<c, "handshake">> # h
    BY <1>1, HandlerPair
<1>7. /\ threads[<<c, "handshake">>].pc = "done"
      /\ threads'[<<c, "handshake">>] = threads[<<c, "handshake">>]
      /\ calls[c].pc \notin {"idle", "own", "expected", "handshake"}
    BY <1>3, <1>4, <1>5, <1>6 DEF IInv, Order, OrderAt
<1>8. \A g \in Handlers : g[1] = c => OrderAt(g) /\ ServerCheckedAt(g)
    BY DEF IInv, Order, ServerChecked
<1>9. \A g \in Handlers : g[1] = c => OrderAt(g)' /\ ServerCheckedAt(g)'
  <2> SUFFICES ASSUME NEW g \in Handlers, g[1] = c PROVE OrderAt(g)' /\ ServerCheckedAt(g)'
      OBVIOUS
  <2>1. CASE g = h
      BY <2>1, <1>3, <1>4, <1>5, <1>7, <1>8, NamesAssumption DEF OrderAt, ServerCheckedAt
  <2>2. CASE g # h
      BY <2>2, <1>4, <1>5, <1>7, <1>8 DEF OrderAt, ServerCheckedAt, Accepted
  <2>3. QED
      BY <2>1, <2>2
<1>10. ClientCheckedAt(c)'
  <2>1. ClientCheckedAt(c) /\ q # h
      BY <1>3 DEF IInv, ClientChecked
  <2>2. QED
      BY <1>2, <1>4, <1>5, <1>7, <2>1 DEF ClientCheckedAt
<1>11. \A g \in Handlers : /\ g[1] # c => threads'[g] = threads[g]
                           /\ threads'[g].answer = threads[g].answer
    BY <1>3, <1>5
<1>12. calls' \in [Calls -> CallType]
    BY <1>4 DEF IInv, TypeOK, CallType, CallPcs
<1>13. QED
    BY <1>4, <1>5, <1>9, <1>10, <1>11, <1>12, CallFrame

-----------------------------------------------------------------------------
(* Time and restarts *)

\* A session that has expired is still in the table.
LEMMA SessionExpiresStep ==
  ASSUME IInv, NEW c \in Calls, SessionExpires(c) PROVE IInv'
<1>1. /\ sessions' \in [live : SUBSET Calls, used : SUBSET Calls, old : SUBSET Calls]
      /\ sessions'.used \cup sessions'.old \subseteq sessions'.live
      /\ sessions'.live = sessions.live /\ sessions'.used = sessions.used
      /\ UNCHANGED <<identity, boots, calls, threads, writer>> /\ calm' \subseteq Calls
    BY DEF SessionExpires, IInv, TypeOK
<1>2. TypeOK'
    BY <1>1 DEF IInv, TypeOK
<1>3. Order'
    BY <1>1 DEF IInv, Order, OrderAt
<1>4. QED
    BY <1>1, <1>2, <1>3 DEF IInv, ServerChecked, ServerCheckedAt, Accepted, ClientChecked,
        ClientCheckedAt, AnsweredSessionsAreSpent

\* A server that goes away answers nobody and forgets its sessions.
LEMMA RestartServerStep ==
  ASSUME IInv, RestartServer PROVE IInv'
<1>1. /\ sessions' = [live |-> {}, used |-> {}, old |-> {}]
      /\ writer' = None /\ calm' = {} /\ calls' = calls
      /\ identity' = [identity EXCEPT !["server"] = Unconfigured]
      /\ boots' = Interrupted(6, 8)
    BY DEF RestartServer
<1>2. threads \in [Handlers -> ThreadType]
    BY DEF IInv, TypeOK, ThreadType, ThreadPcs, Answers
<1>3. /\ threads' \in [Handlers -> ThreadType]
      /\ \A h \in Handlers :
           \/ threads[h].pc \in {"none", "done"} /\ threads'[h] = threads[h]
           \/ /\ threads[h].pc \notin {"none", "done"}
              /\ threads'[h].pc = "done" /\ threads'[h].answer = "error"
  <2> DEFINE t(h) == [threads[h] EXCEPT !.pc = "done", !.answer = "error"]
  <2>1. \A h \in Handlers : t(h) \in ThreadType /\ t(h).pc = "done" /\ t(h).answer = "error"
      BY <1>2 DEF ThreadType, ThreadPcs, Answers
  <2>2. threads' = [h \in Handlers |-> IF threads[h].pc \in {"none", "done"} THEN threads[h]
                                       ELSE t(h)]
      BY DEF RestartServer
  <2> HIDE DEF t
  <2>3. QED
      BY <1>2, <2>1, <2>2
<1>4. TypeOK'
  <2>1. identity' \in [Services -> [configured : Material, ca : Material,
                                    own : Material, expected : Material]]
      BY <1>1 DEF IInv, TypeOK, Services, Unconfigured, Material
  <2>2. boots' \in [Bootstraps -> 1..Failed]
      BY <1>1 DEF IInv, TypeOK, Interrupted, Failed
  <2>3. QED
      BY <1>1, <1>3, <2>1, <2>2
      DEF IInv, TypeOK, ThreadType, ThreadPcs, Answers, Material
<1>5. \A h \in Handlers : OrderAt(h) /\ ServerCheckedAt(h) /\ h[1] \in Calls
        /\ <<h[1], "handshake">> \in Handlers
    BY HandlerPair DEF IInv, Order, ServerChecked
<1>6. \A h \in Handlers : OrderAt(h)'
  <2> SUFFICES ASSUME NEW h \in Handlers PROVE OrderAt(h)'
      OBVIOUS
  <2>1. threads[<<h[1], "handshake">>].pc = "done" => threads'[<<h[1], "handshake">>].pc = "done"
      BY <1>3, <1>5
  <2>2. OrderAt(h)
      BY <1>5
  <2>3. CASE threads[h].pc \in {"none", "done"} /\ threads'[h] = threads[h]
      BY <1>1, <2>1, <2>2, <2>3 DEF OrderAt
  <2>4. CASE threads[h].pc \notin {"none", "done"}
             /\ threads'[h].pc = "done" /\ threads'[h].answer = "error"
      BY <1>1, <2>1, <2>2, <2>4 DEF OrderAt
  <2>5. QED
      BY <1>3, <2>3, <2>4
<1>7. \A h \in Handlers : ServerCheckedAt(h)'
  <2> SUFFICES ASSUME NEW h \in Handlers PROVE ServerCheckedAt(h)'
      OBVIOUS
  <2>1. ServerCheckedAt(h)
      BY <1>5
  <2>2. CASE threads'[h] = threads[h]
      BY <1>1, <2>1, <2>2 DEF ServerCheckedAt, Accepted
  <2>3. CASE threads'[h].pc = "done" /\ threads'[h].answer = "error"
      BY <2>3 DEF ServerCheckedAt
  <2>4. QED
      BY <1>3, <2>2, <2>3
<1>8. \A c \in Calls : ClientCheckedAt(c)'
  <2> SUFFICES ASSUME NEW c \in Calls PROVE ClientCheckedAt(c)'
      OBVIOUS
  <2>1. <<c, "handshake">> \in Handlers /\ <<c, "request">> \in Handlers
      BY HandlerPair
  <2>2. threads[<<c, "handshake">>].pc = "done"
        => threads'[<<c, "handshake">>] = threads[<<c, "handshake">>]
      BY <1>3, <2>1
  <2>3. threads[<<c, "request">>].answer = "response"
        => threads'[<<c, "request">>] = threads[<<c, "request">>]
      BY <1>3, <1>5, <2>1, NamesAssumption DEF OrderAt
  <2>4. ClientCheckedAt(c)
      BY DEF IInv, ClientChecked
  <2>5. QED
      BY <1>1, <2>2, <2>3, <2>4 DEF ClientCheckedAt
<1>9. AnsweredSessionsAreSpent'
    BY <1>1 DEF AnsweredSessionsAreSpent
<1>10. QED
    BY <1>4, <1>6, <1>7, <1>8, <1>9 DEF IInv, Order, ServerChecked, ClientChecked

\* A client that goes away ends its calls.
LEMMA RestartClientStep ==
  ASSUME IInv, RestartClient PROVE IInv'
<1>1. /\ writer' = None /\ calm' = {} /\ UNCHANGED <<sessions, threads>>
      /\ identity' = [identity EXCEPT !["client"] = Unconfigured]
      /\ boots' = Interrupted(2, 4)
    BY DEF RestartClient
<1>2. calls \in [Calls -> CallType]
    BY DEF IInv, TypeOK, CallType, CallPcs
<1>3. /\ calls' \in [Calls -> CallType]
      /\ \A c \in Calls :
           \/ calls'[c] = calls[c]
           \/ /\ calls[c].pc # "idle" /\ calls'[c].pc = "error"
              /\ calls'[c].own = calls[c].own
      /\ \A c \in Calls : calls'[c].pc \in {"sent", "completed"} => calls'[c] = calls[c]
  <2> DEFINE r(c) == [calls[c] EXCEPT !.pc = "error"]
  <2>1. \A c \in Calls : r(c) \in CallType /\ r(c).pc = "error" /\ r(c).own = calls[c].own
      BY <1>2 DEF CallType, CallPcs
  <2>2. calls' = [c \in Calls |-> IF Active(c) THEN r(c) ELSE calls[c]]
      BY DEF RestartClient
  <2>3. \A c \in Calls : Active(c) => calls[c].pc # "idle"
      BY DEF Active
  <2> HIDE DEF r
  <2>4. QED
      BY <1>2, <2>1, <2>2, <2>3
<1>4. TypeOK'
  <2>1. identity' \in [Services -> [configured : Material, ca : Material,
                                    own : Material, expected : Material]]
      BY <1>1 DEF IInv, TypeOK, Services, Unconfigured, Material
  <2>2. boots' \in [Bootstraps -> 1..Failed]
      BY <1>1 DEF IInv, TypeOK, Interrupted, Failed
  <2>3. QED
      BY <1>1, <1>3, <2>1, <2>2
      DEF IInv, TypeOK, CallType, CallPcs, Material
<1>5. \A h \in Handlers : OrderAt(h) /\ ServerCheckedAt(h) /\ h[1] \in Calls
    BY HandlerPair DEF IInv, Order, ServerChecked
<1>6. \A h \in Handlers : OrderAt(h)' /\ ServerCheckedAt(h)'
  <2> SUFFICES ASSUME NEW h \in Handlers PROVE OrderAt(h)' /\ ServerCheckedAt(h)'
      OBVIOUS
  <2>1. OrderAt(h) /\ ServerCheckedAt(h) /\ h[1] \in Calls
      BY <1>5
  <2>2. calls'[h[1]].own = calls[h[1]].own
      BY <1>3, <2>1
  <2>3. threads' = threads /\ sessions' = sessions
      BY <1>1
  <2>4. ServerCheckedAt(h)'
      BY <2>1, <2>2, <2>3 DEF ServerCheckedAt, Accepted
  <2>5. OrderAt(h)
      BY <2>1
  <2>6. \/ calls'[h[1]].pc = calls[h[1]].pc
        \/ calls'[h[1]].pc \notin {"idle", "own", "expected", "handshake"}
      BY <1>3, <2>1
  <2>7. OrderAt(h)'
      BY <2>3, <2>5, <2>6 DEF OrderAt
  <2>8. QED
      BY <2>4, <2>7
<1>7. \A c \in Calls : ClientCheckedAt(c)'
  <2> SUFFICES ASSUME NEW c \in Calls PROVE ClientCheckedAt(c)'
      OBVIOUS
  <2>1. ClientCheckedAt(c) /\ threads' = threads
      BY <1>1 DEF IInv, ClientChecked
  <2>2. CASE calls'[c] = calls[c]
      BY <2>1, <2>2 DEF ClientCheckedAt
  <2>3. CASE calls'[c].pc \notin {"sent", "completed"}
      BY <2>3 DEF ClientCheckedAt
  <2>4. QED
      BY <1>3, <2>2, <2>3
<1>8. AnsweredSessionsAreSpent'
    BY <1>1 DEF IInv, AnsweredSessionsAreSpent
<1>9. QED
    BY <1>4, <1>6, <1>7, <1>8 DEF IInv, Order, ServerChecked, ClientChecked

-----------------------------------------------------------------------------
(* The theorems *)

\* Every step preserves the invariant.
LEMMA NextInvariant == IInv /\ [Next]_vars => IInv'
<1> SUFFICES ASSUME IInv, [Next]_vars PROVE IInv'
    OBVIOUS
<1>1. CASE \E b \in Bootstraps : Gateway(b)
    BY <1>1, ConfigureStep, BootstrapFailsStep DEF Gateway
<1>2. CASE \E c \in Calls : \/ BeginCall(c) \/ Client(c) \/ CallTimesOut(c)
                            \/ DuplicateRequest(c) \/ SessionExpires(c)
    BY <1>2, BeginCallStep, ReadOwnStep, RequestHandshakeStep, SendRequestStep,
       ReceiveResponseStep, CallTimesOutStep, DuplicateRequestStep, SessionExpiresStep
    DEF Client
<1>3. CASE \E h \in Handlers : Handler(h)
    BY <1>3, HandlerPair, StartHandshakeStep, SweepForHandshakeStep, CreateSessionStep,
       AnswerHandshakeStep, StartRequestStep, VerifyClientStep, GetSessionStep,
       DecryptAndProcessStep, MarkUsedStep
    DEF Handler
<1>4. CASE RestartServer \/ RestartClient
    BY <1>4, RestartServerStep, RestartClientStep
<1>5. CASE UNCHANGED vars
    BY <1>5 DEF vars, IInv, TypeOK, Order, OrderAt, ServerChecked, ServerCheckedAt, Accepted,
        ClientChecked, ClientCheckedAt, AnsweredSessionsAreSpent
<1>6. QED
    BY <1>1, <1>2, <1>3, <1>4, <1>5 DEF Next

\* The invariant holds in every reachable state.
LEMMA Invariant == Spec => []IInv
BY InitInvariant, NextInvariant, PTL DEF Spec

\* The identities, sessions, calls and handlers are always of their types, and
\* a used or expired session is one of the table.
THEOREM TypeCorrect == Spec => []TypeOK
<1>1. IInv => TypeOK
    BY DEF IInv
<1>2. QED
    BY <1>1, Invariant, PTL

\* A call that completes was checked by both sides with material each of them
\* held, for any bootstraps, overlaps, restarts and repeated requests.
THEOREM CallsAuthenticated == Spec => []CompletedCallsAreAuthenticated
<1>1. IInv => CompletedCallsAreAuthenticated
  <2> SUFFICES ASSUME IInv, NEW c \in Calls, calls[c].pc = "completed"
               PROVE  /\ None \notin {calls[c].expected, threads[<<c, "request">>].expected}
                      /\ calls[c].peer = calls[c].ca
                      /\ CommonName[calls[c].peer] = CommonName[calls[c].expected]
                      /\ calls[c].own = threads[<<c, "request">>].ca
                      /\ CommonName[calls[c].own]
                           = CommonName[threads[<<c, "request">>].expected]
                      /\ threads[<<c, "request">>].answer = "response"
                      /\ threads[<<c, "handshake">>].answer = calls[c].peer
      BY DEF CompletedCallsAreAuthenticated
  <2>1. PICK h \in Handlers : h = <<c, "request">>
      BY HandlerPair
  <2>2. h[1] = c /\ h[2] # "handshake"
      BY <2>1
  <2>3. ClientCheckedAt(c) /\ ServerCheckedAt(h)
      BY DEF IInv, ClientChecked, ServerChecked
  <2>4. threads[h].answer = "response"
      BY <2>1, <2>3 DEF ClientCheckedAt
  <2>5. Accepted(h)
      BY <2>2, <2>3, <2>4 DEF ServerCheckedAt
  <2>6. QED
      BY <2>1, <2>2, <2>3, <2>4, <2>5 DEF ClientCheckedAt, Accepted
<1>2. QED
    BY <1>1, Invariant, PTL

\* A session whose request was answered serves no later one, whatever threads
\* of the server run.
THEOREM SessionsSpent == Spec => []AnsweredSessionsAreSpent
<1>1. IInv => AnsweredSessionsAreSpent
    BY DEF IInv
<1>2. QED
    BY <1>1, Invariant, PTL

-----------------------------------------------------------------------------
(* What bootstraps write *)

\* An assignment adds to what the bootstrap that writes alone has written; an
\* assignment of another one ends its being alone.
LEMMA ConfigureWrites ==
  ASSUME IInv, Written, NEW b \in Bootstraps, ConfigureField(b) PROVE Written'
<1> DEFINE w == Writes[boots[b]]
<1>1. SUFFICES ASSUME NEW d \in Bootstraps, writer' = d, NEW i \in 1..8,
                      boots'[d] \in 1..Done, i < boots'[d]
               PROVE  identity'[Writes[i][1]][Writes[i][2]] = d
    BY DEF Written
<1>2. d = b /\ (boots[b] = 1 \/ writer = b)
    BY <1>1, NamesAssumption DEF ConfigureField
<1>3. boots[b] \in 1..8 /\ boots'[b] = boots[b] + 1
    BY DEF ConfigureField, IInv, TypeOK
<1>4. /\ identity \in [Services -> [configured : Material, ca : Material,
                                    own : Material, expected : Material]]
      /\ identity' = [identity EXCEPT ![w[1]][w[2]] = b]
      /\ w[1] \in Services /\ w[2] \in DOMAIN Unconfigured
      /\ Writes[i][1] \in Services /\ Writes[i][2] \in DOMAIN Unconfigured
    BY <1>3, WritesAll DEF ConfigureField, IInv, TypeOK
<1>5. CASE i = boots[b]
    BY <1>2, <1>4, <1>5 DEF Unconfigured
<1>6. CASE i < boots[b]
  <2>1. identity[Writes[i][1]][Writes[i][2]] = b
      BY <1>2, <1>3, <1>6 DEF Written, Done
  <2>2. QED
      BY <1>2, <1>4, <2>1 DEF Unconfigured
<1>7. QED
    BY <1>1, <1>2, <1>3, <1>5, <1>6 DEF Done

\* Whoever writes alone has written what it has come to.
LEMMA WrittenInvariant == Spec => []Written
<1>1. Init => Written
    BY NamesAssumption DEF Init, Written
<1>2. IInv /\ Written /\ [Next]_vars => Written'
  <2> SUFFICES ASSUME IInv, Written, [Next]_vars PROVE Written'
      OBVIOUS
  <2>1. CASE \E b \in Bootstraps : ConfigureField(b)
      BY <2>1, ConfigureWrites
  <2>2. ASSUME NEW a \in Bootstraps, BootstrapFails(a)
        PROVE  Written'
    <3>1. boots \in [Bootstraps -> 1..Failed] /\ Failed \notin 1..Done
        BY DEF IInv, TypeOK, Failed, Done
    <3>2. /\ boots' = [boots EXCEPT ![a] = Failed]
          /\ identity' = identity /\ writer' = writer
        BY <2>2 DEF BootstrapFails
    <3>3. \A b \in Bootstraps : boots'[b] = boots[b] \/ boots'[b] \notin 1..Done
        BY <3>1, <3>2
    <3>4. QED
        BY <3>2, <3>3 DEF Written
  <2>3. CASE RestartServer \/ RestartClient
    <3>1. writer' = None
        BY <2>3 DEF RestartServer, RestartClient
    <3>2. QED
        BY <3>1, NamesAssumption DEF Written
  <2>4. CASE UNCHANGED <<identity, boots, writer>>
      BY <2>4 DEF Written
  <2>5. (\E c \in Calls : \/ BeginCall(c) \/ Client(c) \/ CallTimesOut(c)
                          \/ DuplicateRequest(c) \/ SessionExpires(c))
        => UNCHANGED <<identity, boots, writer>>
      BY DEF Client, BeginCall, ReadOwn, RequestHandshake, SendRequest, ReceiveResponse,
          CallTimesOut, DuplicateRequest, SessionExpires
  <2>6. (\E h \in Handlers : Handler(h)) => UNCHANGED <<identity, boots, writer>>
      BY DEF Handler, StartHandshake, SweepForHandshake, CreateSession, AnswerHandshake,
          StartRequest, VerifyClient, GetSession, DecryptAndProcess, MarkUsed
  <2>7. UNCHANGED vars => UNCHANGED <<identity, boots, writer>>
      BY DEF vars
  <2>8. QED
      BY <2>1, <2>2, <2>3, <2>4, <2>5, <2>6, <2>7 DEF Next, Gateway
<1>3. QED
    BY <1>1, <1>2, Invariant, PTL DEF Spec

\* What a bootstrap that is done and wrote alone has left.
LEMMA SettledMaterial ==
  ASSUME Written, NEW b \in Bootstraps, writer = b, boots[b] = Done
  PROVE  \A s \in Services, f \in DOMAIN Unconfigured : identity[s][f] = b
<1>1. \A i \in 1..8 : identity[Writes[i][1]][Writes[i][2]] = b
    BY DEF Written, Done
<1>2. ASSUME NEW s \in Services, NEW f \in DOMAIN Unconfigured
      PROVE  identity[s][f] = b
  <2>1. PICK i \in 1..8 : Writes[i][1] = s /\ Writes[i][2] = f
      BY WritesAll
  <2>2. QED
      BY <1>1, <2>1
<1>3. QED
    BY <1>2

\* A bootstrap nobody overlapped or undid leaves both services with its
\* material, whichever others came before it.
THEOREM SettledAgree == Spec => []SettledIdentitiesAgree
<1>1. Written => SettledIdentitiesAgree
    BY SettledMaterial DEF Settled, SettledIdentitiesAgree
<1>2. QED
    BY <1>1, WrittenInvariant, PTL

-----------------------------------------------------------------------------
(* What disturbs a call *)

\* A call stays calm through a step that is not its own: the table keeps its
\* session, marks it for nobody else and has its size when a loop of the call
\* goes over it.
LEMMA CalmFrame ==
  ASSUME NEW c \in Calls, NEW b, CalmCall(c, b), calls'[c] = calls[c],
         \A k \in {"handshake", "request", "again"} : threads'[<<c, k>>] = threads[<<c, k>>],
         c \in sessions.live => c \in sessions'.live,
         c \in sessions'.old => c \in sessions.old,
         c \in sessions'.used => c \in sessions.used,
         threads[<<c, "handshake">>].pc = "sweep"
           => Cardinality(sessions'.live) = Cardinality(sessions.live),
         threads[<<c, "request">>].pc \in {"sweep", "resweep"}
           => Cardinality(sessions'.live) = Cardinality(sessions.live)
  PROVE  CalmCall(c, b)'
BY DEF CalmCall

\* A handler's step leaves the calm calls calm if it leaves its own call calm:
\* the calls in whose loop it changes the table are no longer among them.
LEMMA CalmHandler ==
  ASSUME CalmInv, NEW h \in Handlers, NEW c \in Calls, h[1] = c, calm \subseteq Calls,
         UNCHANGED <<boots, calls, writer>>,
         \A g \in Handlers : g # h => threads'[g] = threads[g],
         calm' = calm \ Disturbed(h, sessions'),
         \A d \in sessions.live \ sessions.old : d \in sessions'.live,
         sessions'.old \subseteq sessions.old,
         \A d \in sessions'.used : d \in sessions.used \/ d = c,
         \A b \in Bootstraps : c \in calm' /\ writer = b /\ boots[b] = Done /\ CalmCall(c, b)
                                 => CalmCall(c, b)'
  PROVE  CalmInv'
<1> SUFFICES ASSUME NEW d \in calm', d # c
             PROVE  \E b \in Bootstraps : writer = b /\ boots[b] = Done /\ CalmCall(d, b)'
    BY DEF CalmInv
<1>1. PICK b \in Bootstraps : writer = b /\ boots[b] = Done /\ CalmCall(d, b)
    BY DEF CalmInv
<1>2. d \in Calls /\ d \in calm
    OBVIOUS
<1>3. \A k \in {"handshake", "request", "again"} : <<d, k>> \in Handlers /\ <<d, k>>[1] = d
    BY <1>2, HandlerPair
<1>4. \A k \in {"handshake", "request", "again"} : threads'[<<d, k>>] = threads[<<d, k>>]
    BY <1>3
<1>5. \A k \in {"handshake", "request", "again"} :
        Sweeping(<<d, k>>) => Cardinality(sessions'.live) = Cardinality(sessions.live)
    BY <1>3 DEF Disturbed
<1>6. d \notin sessions.old
    BY <1>1 DEF CalmCall
<1>7. CalmCall(d, b)'
    BY <1>1, <1>2, <1>4, <1>5, <1>6, CalmFrame DEF Sweeping
<1>8. QED
    BY <1>1, <1>7

\* A step of a call that leaves the table alone leaves the calm calls calm if
\* it leaves its own call calm.
LEMMA CalmClient ==
  ASSUME CalmInv, NEW c \in Calls, calm \subseteq Calls,
         UNCHANGED <<boots, writer, sessions>>,
         \A d \in Calls : d # c => calls'[d] = calls[d],
         \A g \in Handlers : g[1] # c => threads'[g] = threads[g],
         calm' \subseteq calm \cup {c},
         c \in calm' => \E b \in Bootstraps : writer = b /\ boots[b] = Done /\ CalmCall(c, b)'
  PROVE  CalmInv'
<1> SUFFICES ASSUME NEW d \in calm', d # c
             PROVE  \E b \in Bootstraps : writer = b /\ boots[b] = Done /\ CalmCall(d, b)'
    BY DEF CalmInv
<1>1. PICK b \in Bootstraps : writer = b /\ boots[b] = Done /\ CalmCall(d, b)
    BY DEF CalmInv
<1>2. \A k \in {"handshake", "request", "again"} : threads'[<<d, k>>] = threads[<<d, k>>]
  <2>1. \A k \in {"handshake", "request", "again"} :
           <<d, k>> \in Handlers /\ <<d, k>>[1] # c
      BY HandlerPair
  <2>2. QED
      BY <2>1
<1>3. d \in Calls /\ calls'[d] = calls[d] /\ sessions' = sessions
    OBVIOUS
<1>4. CalmCall(d, b)'
    BY <1>1, <1>2, <1>3, CalmFrame
<1>5. QED
    BY <1>1, <1>4

-----------------------------------------------------------------------------
(* The handlers leave the calm calls calm *)

\* The server a calm call talks to has the material of its bootstrap.
LEMMA CalmServer ==
  ASSUME Written, NEW b \in Bootstraps, writer = b, boots[b] = Done
  PROVE  /\ identity["server"].configured = b /\ identity["server"].ca = b
         /\ identity["server"].own = b /\ identity["server"].expected = b
         /\ identity["client"].configured = b /\ identity["client"].ca = b
         /\ identity["client"].own = b /\ identity["client"].expected = b
         /\ b # None /\ b \notin {"error", "rejected", "response"}
BY SettledMaterial, NamesAssumption DEF Services, Unconfigured

\* The handshake of a calm call starts its loop.
LEMMA StartHandshakeCalm ==
  ASSUME IInv, Written, CalmInv, NEW c \in Calls, StartHandshake(c) PROVE CalmInv'
<1>1. PICK h \in Handlers : h = <<c, "handshake">>
    BY HandlerPair
<1>2. h[1] = c /\ "error" \in Answers /\ "sweep" \in ThreadPcs
    BY <1>1 DEF Answers, ThreadPcs
<1>3. threads' = Answer(h, "error") \/ threads' = ToSweep(h, "sweep")
    BY <1>1 DEF StartHandshake
<1>4. \A g \in Handlers : g # h => threads'[g] = threads[g]
    BY <1>2, <1>3, ThreadSweeps, ThreadAnswers DEF IInv, Moved
<1>5. UNCHANGED <<identity, sessions, boots, calls, writer, calm>> /\ calm \subseteq Calls
    BY DEF StartHandshake, IInv, TypeOK
<1>6. ASSUME NEW b \in Bootstraps, writer = b, boots[b] = Done, CalmCall(c, b)
      PROVE  CalmCall(c, b)'
  <2>1. threads' = ToSweep(h, "sweep")
      BY <1>1, <1>6, CalmServer DEF StartHandshake
  <2>2. threads'[h].pc = "sweep" /\ threads'[h].size = Cardinality(sessions.live)
      BY <1>2, <2>1, ThreadSweeps DEF IInv, Moved
  <2>3. <<c, "request">> \in Handlers /\ <<c, "again">> \in Handlers
        /\ <<c, "request">> # h /\ <<c, "again">> # h
      BY <1>1, HandlerPair
  <2>4. QED
      BY <1>1, <1>4, <1>5, <1>6, <2>2, <2>3 DEF CalmCall
<1>7. calm' = calm \ Disturbed(h, sessions')
    BY <1>5 DEF Disturbed
<1>8. QED
    BY <1>2, <1>4, <1>5, <1>6, <1>7, CalmHandler

\* The table that a loop leaves has every session that has not expired.
LEMMA SweptCalm ==
  ASSUME IInv
  PROVE  /\ \A d \in sessions.live \ sessions.old : d \in Swept.live
         /\ \A d \in Swept.live : d \in sessions.live
         /\ \A d \in Swept.used : d \in sessions.used
         /\ \A d \in sessions.used \ sessions.old : d \in Swept.used
         /\ Swept.old = {}
BY DEF Swept

\* The loop of a calm call ends.
LEMMA SweepForHandshakeCalm ==
  ASSUME IInv, CalmInv, NEW c \in Calls, SweepForHandshake(c) PROVE CalmInv'
<1>1. PICK h \in Handlers : h = <<c, "handshake">>
    BY HandlerPair
<1>2. h[1] = c /\ threads[h].pc = "sweep" /\ "error" \in Answers /\ "create" \in ThreadPcs
    BY <1>1 DEF SweepForHandshake, Answers, ThreadPcs
<1>3. \/ threads' = Answer(h, "error") /\ SizeChanged(h) /\ UNCHANGED <<sessions, calm>>
      \/ /\ threads' = To(h, "create") /\ sessions' = Swept
         /\ calm' = calm \ Disturbed(h, sessions')
    BY <1>1 DEF SweepForHandshake
<1>4. /\ \A g \in Handlers : g # h => threads'[g] = threads[g]
      /\ threads' = To(h, "create") => threads'[h].pc = "create"
    BY <1>2, <1>3, ThreadMoves, ThreadAnswers DEF IInv, Moved
<1>5. UNCHANGED <<identity, boots, calls, writer>> /\ calm \subseteq Calls
    BY DEF SweepForHandshake, IInv, TypeOK
<1>6. ASSUME NEW b \in Bootstraps, CalmCall(c, b) PROVE CalmCall(c, b)'
  <2>1. threads' = To(h, "create") /\ sessions' = Swept
      BY <1>1, <1>2, <1>3, <1>6 DEF CalmCall, SizeChanged
  <2>2. <<c, "request">> \in Handlers /\ <<c, "again">> \in Handlers
        /\ <<c, "request">> # h /\ <<c, "again">> # h
      BY <1>1, HandlerPair
  <2>3. threads[<<c, "request">>].pc \notin {"sweep", "resweep"}
      BY <1>1, <1>2, <2>2, HandlerPair DEF IInv, Order, OrderAt
  <2>4. QED
      BY <1>1, <1>4, <1>5, <1>6, <2>1, <2>2, <2>3, SweptCalm DEF CalmCall
<1>7. calm' = calm \ Disturbed(h, sessions')
    BY <1>3 DEF Disturbed
<1>8. \A d \in sessions.live \ sessions.old : d \in sessions'.live
    BY <1>3, SweptCalm
<1>9. sessions'.old \subseteq sessions.old /\ \A d \in sessions'.used : d \in sessions.used
    BY <1>3, SweptCalm
<1>10. QED
    BY <1>2, <1>4, <1>5, <1>6, <1>7, <1>8, <1>9, CalmHandler

\* The session of a calm call is in the table from here on.
LEMMA CreateSessionCalm ==
  ASSUME IInv, CalmInv, NEW c \in Calls, CreateSession(c) PROVE CalmInv'
<1>1. PICK h \in Handlers : h = <<c, "handshake">>
    BY HandlerPair
<1>2. h[1] = c /\ threads[h].pc = "create" /\ "certificate" \in ThreadPcs
    BY <1>1 DEF CreateSession, ThreadPcs
<1>3. threads' = To(h, "certificate") /\ calm' = calm \ Disturbed(h, sessions')
    BY <1>1 DEF CreateSession
<1>4. /\ \A g \in Handlers : g # h => threads'[g] = threads[g]
      /\ threads'[h].pc = "certificate"
    BY <1>2, <1>3, ThreadMoves DEF IInv, Moved
<1>5. /\ sessions'.live = sessions.live \cup {c} /\ sessions'.used = sessions.used
      /\ sessions'.old = sessions.old
    BY DEF CreateSession, IInv, TypeOK
<1>6. UNCHANGED <<identity, boots, calls, writer>> /\ calm \subseteq Calls
    BY DEF CreateSession, IInv, TypeOK
<1>7. ASSUME NEW b \in Bootstraps, CalmCall(c, b) PROVE CalmCall(c, b)'
  <2>1. <<c, "request">> \in Handlers /\ <<c, "again">> \in Handlers
        /\ <<c, "request">> # h /\ <<c, "again">> # h
      BY <1>1, HandlerPair
  <2>2. threads[<<c, "request">>].pc = "none"
      BY <1>1, <1>2, <2>1, HandlerPair DEF IInv, Order, OrderAt
  <2>3. QED
      BY <1>1, <1>4, <1>5, <1>6, <1>7, <2>1, <2>2 DEF CalmCall
<1>8. QED
    BY <1>2, <1>3, <1>4, <1>5, <1>6, <1>7, CalmHandler

\* The handshake of a calm call answers with the certificate of its bootstrap.
LEMMA AnswerHandshakeCalm ==
  ASSUME IInv, Written, CalmInv, NEW c \in Calls, AnswerHandshake(c) PROVE CalmInv'
<1> DEFINE a == IF identity["server"].own = None THEN "error" ELSE identity["server"].own
<1>1. PICK h \in Handlers : h = <<c, "handshake">>
    BY HandlerPair
<1>2. h[1] = c /\ threads[h].pc = "certificate" /\ threads' = Answer(h, a)
    BY <1>1 DEF AnswerHandshake
<1>3. a \in Answers
    BY DEF Answers, IInv, TypeOK, Services
<1> HIDE DEF a
<1>4. /\ \A g \in Handlers : g # h => threads'[g] = threads[g]
      /\ threads'[h].pc = "done" /\ threads'[h].answer = a
    BY <1>2, <1>3, ThreadAnswers DEF IInv, Moved
<1>5. UNCHANGED <<identity, sessions, boots, calls, writer, calm>> /\ calm \subseteq Calls
    BY DEF AnswerHandshake, IInv, TypeOK
<1>6. ASSUME NEW b \in Bootstraps, writer = b, boots[b] = Done, CalmCall(c, b)
      PROVE  CalmCall(c, b)'
  <2>1. a = b
      BY <1>6, CalmServer DEF a
  <2>2. <<c, "request">> \in Handlers /\ <<c, "again">> \in Handlers
        /\ <<c, "request">> # h /\ <<c, "again">> # h
      BY <1>1, HandlerPair
  <2>3. QED
      BY <1>1, <1>2, <1>4, <1>5, <1>6, <2>1, <2>2 DEF CalmCall
<1>7. calm' = calm \ Disturbed(h, sessions')
    BY <1>5 DEF Disturbed
<1>8. QED
    BY <1>2, <1>4, <1>5, <1>6, <1>7, CalmHandler

\* A handler that runs the request of a calm call is the first delivery of it,
\* and its session is there and unused.
LEMMA CalmRequest ==
  ASSUME IInv, NEW b, NEW h \in Handlers, NEW c \in Calls, h[1] = c, h[2] # "handshake",
         threads[h].pc \notin {"none", "done"}, CalmCall(c, b)
  PROVE  /\ h = <<c, "request">> /\ <<c, "handshake">> # h /\ <<c, "again">> # h
         /\ <<c, "handshake">> \in Handlers /\ <<c, "again">> \in Handlers
         /\ threads[<<c, "handshake">>].pc = "done"
         /\ c \in sessions.live /\ c \notin sessions.used /\ c \notin sessions.old
         /\ c \in Swept.live /\ c \notin Swept.used /\ calls[c].own = b
<1>1. h = <<c, "request">> \/ h = <<c, "again">>
    BY HandlerPair
<1>2. h = <<c, "request">>
    BY <1>1 DEF CalmCall
<1>3. <<c, "handshake">> # h /\ <<c, "again">> # h
      /\ <<c, "handshake">> \in Handlers /\ <<c, "again">> \in Handlers
    BY <1>2, HandlerPair
<1>4. threads[<<c, "handshake">>].pc = "done"
      /\ calls[c].pc \notin {"idle", "own", "expected"}
    BY DEF IInv, Order, OrderAt
<1>5. c \in sessions.live /\ c \notin sessions.used /\ c \notin sessions.old
      /\ calls[c].own = b
    BY <1>2, <1>4 DEF CalmCall
<1>6. c \in Swept.live /\ c \notin Swept.used
    BY <1>5, SweptCalm
<1>7. QED
    BY <1>2, <1>3, <1>4, <1>5, <1>6

\* The request of a calm call reads the CA of its bootstrap.
LEMMA StartRequestCalm ==
  ASSUME IInv, Written, CalmInv, NEW h \in Handlers, StartRequest(h) PROVE CalmInv'
<1> DEFINE c == h[1]
           t == [threads[h] EXCEPT !.pc = "expected", !.ca = identity["server"].ca]
<1>1. c \in Calls /\ h[2] # "handshake" /\ threads[h].pc = "new" /\ "error" \in Answers
    BY HandlerPair DEF StartRequest, Answers
<1>2. threads \in [Handlers -> ThreadType] /\ identity["server"].ca \in Material
    BY DEF IInv, TypeOK, ThreadType, ThreadPcs, Answers, Services
<1>3. t.pc = "expected" /\ t.ca = identity["server"].ca
    BY <1>2 DEF ThreadType
<1>4. threads' = Answer(h, "error") \/ threads' = [threads EXCEPT ![h] = t]
    BY <1>2 DEF StartRequest
<1>5. identity["server"].configured # None => threads' = [threads EXCEPT ![h] = t]
    BY <1>2 DEF StartRequest
<1> HIDE DEF t, c
<1>6. \A g \in Handlers : g # h => threads'[g] = threads[g]
    BY <1>1, <1>2, <1>4, ThreadAnswers DEF IInv, Moved
<1>7. UNCHANGED <<identity, sessions, boots, calls, writer, calm>> /\ calm \subseteq Calls
    BY DEF StartRequest, IInv, TypeOK
<1>8. PICK d \in Calls : d = c
    BY <1>1
<1>9. h[1] = d
    BY <1>8 DEF c
<1>10. ASSUME NEW b \in Bootstraps, writer = b, boots[b] = Done, CalmCall(d, b)
       PROVE  CalmCall(d, b)'
  <2>1. threads'[h] = t /\ t.ca = b
      BY <1>2, <1>3, <1>5, <1>10, CalmServer
  <2>2. /\ h = <<d, "request">> /\ <<d, "handshake">> # h /\ <<d, "again">> # h
        /\ <<d, "handshake">> \in Handlers /\ <<d, "again">> \in Handlers
        /\ d \notin sessions.used
      BY <1>1, <1>9, <1>10, CalmRequest
  <2>3. QED
      BY <1>3, <1>6, <1>7, <1>10, <2>1, <2>2 DEF CalmCall
<1>11. calm' = calm \ Disturbed(h, sessions')
    BY <1>7 DEF Disturbed
<1>12. QED
    BY <1>6, <1>7, <1>9, <1>10, <1>11, CalmHandler

\* The certificate of a calm call is accepted.
LEMMA VerifyClientCalm ==
  ASSUME IInv, Written, CalmInv, NEW h \in Handlers, VerifyClient(h) PROVE CalmInv'
<1> DEFINE e == identity["server"].expected
           t == [threads[h] EXCEPT !.expected = e, !.pc = "sweep",
                                   !.size = Cardinality(sessions.live)]
<1>1. /\ h[1] \in Calls /\ h[2] # "handshake" /\ threads[h].pc = "expected"
      /\ {"error", "rejected"} \subseteq Answers
    BY HandlerPair DEF VerifyClient, Answers, IInv, Order, OrderAt
<1>2. threads \in [Handlers -> ThreadType] /\ e \in Material
    BY DEF IInv, TypeOK, ThreadType, ThreadPcs, Answers, Services
<1>3. t.pc = "sweep" /\ t.size = Cardinality(sessions.live) /\ t.ca = threads[h].ca
    BY <1>2 DEF ThreadType
<1>4. \/ \E a \in {"error", "rejected"} : threads' = Answer(h, a)
      \/ threads' = [threads EXCEPT ![h] = t]
    BY <1>2 DEF VerifyClient
<1>5. None \notin {threads[h].ca, e, calls[h[1]].own}
        /\ VerifyCertificate(calls[h[1]].own, threads[h].ca, e)
        => threads' = [threads EXCEPT ![h] = t]
    BY <1>2 DEF VerifyClient
<1> HIDE DEF t
<1>6. \A g \in Handlers : g # h => threads'[g] = threads[g]
    BY <1>1, <1>2, <1>4, ThreadAnswers DEF IInv, Moved
<1>7. UNCHANGED <<identity, sessions, boots, calls, writer, calm>> /\ calm \subseteq Calls
    BY DEF VerifyClient, IInv, TypeOK
<1>8. PICK d \in Calls : h[1] = d
    BY <1>1
<1>9. ASSUME NEW b \in Bootstraps, writer = b, boots[b] = Done, CalmCall(d, b)
      PROVE  CalmCall(d, b)'
  <2>1. /\ h = <<d, "request">> /\ <<d, "handshake">> # h /\ <<d, "again">> # h
        /\ <<d, "handshake">> \in Handlers /\ <<d, "again">> \in Handlers
        /\ d \notin sessions.used /\ calls[d].own = b
      BY <1>1, <1>8, <1>9, CalmRequest
  <2>2. threads[h].ca = b
      BY <1>1, <1>9, <2>1 DEF CalmCall
  <2>3. e = b /\ b # None
      BY <1>9, CalmServer
  <2>4. threads'[h] = t
      BY <1>2, <1>5, <1>8, <2>1, <2>2, <2>3 DEF VerifyCertificate
  <2>5. QED
      BY <1>3, <1>6, <1>7, <1>9, <2>1, <2>2, <2>4 DEF CalmCall
<1>10. calm' = calm \ Disturbed(h, sessions')
    BY <1>7 DEF Disturbed
<1>11. QED
    BY <1>6, <1>7, <1>8, <1>9, <1>10, CalmHandler

\* The session of a calm call is found unused.
LEMMA GetSessionCalm ==
  ASSUME IInv, CalmInv, NEW h \in Handlers, GetSession(h) PROVE CalmInv'
<1>1. /\ h[1] \in Calls /\ h[2] # "handshake" /\ threads[h].pc = "sweep"
      /\ "error" \in Answers /\ "decrypt" \in ThreadPcs
    BY HandlerPair DEF GetSession, Answers, ThreadPcs
<1>2. \/ SizeChanged(h) /\ threads' = Answer(h, "error") /\ UNCHANGED <<sessions, calm>>
      \/ /\ threads' = Answer(h, "error") \/ threads' = To(h, "decrypt")
         /\ h[1] \in Swept.live \ Swept.used => threads' = To(h, "decrypt")
         /\ sessions' = Swept /\ calm' = calm \ Disturbed(h, sessions')
    BY DEF GetSession
<1>3. /\ \A g \in Handlers : g # h => threads'[g] = threads[g]
      /\ threads' = To(h, "decrypt")
           => threads'[h].pc = "decrypt" /\ threads'[h].ca = threads[h].ca
    BY <1>1, <1>2, ThreadMoves, ThreadAnswers DEF IInv, Moved
<1>4. UNCHANGED <<identity, boots, calls, writer>> /\ calm \subseteq Calls
    BY DEF GetSession, IInv, TypeOK
<1>5. PICK d \in Calls : h[1] = d
    BY <1>1
<1>6. ASSUME NEW b \in Bootstraps, CalmCall(d, b) PROVE CalmCall(d, b)'
  <2>1. /\ h = <<d, "request">> /\ <<d, "handshake">> # h /\ <<d, "again">> # h
        /\ <<d, "handshake">> \in Handlers /\ <<d, "again">> \in Handlers
        /\ threads[<<d, "handshake">>].pc = "done"
        /\ d \in Swept.live /\ d \notin Swept.used
      BY <1>1, <1>5, <1>6, CalmRequest
  <2>2. threads' = To(h, "decrypt") /\ sessions' = Swept
      BY <1>1, <1>2, <1>5, <1>6, <2>1 DEF CalmCall, SizeChanged
  <2>3. QED
      BY <1>1, <1>3, <1>4, <1>6, <2>1, <2>2, SweptCalm DEF CalmCall
<1>7. calm' = calm \ Disturbed(h, sessions')
    BY <1>2 DEF Disturbed
<1>8. \A e \in sessions.live \ sessions.old : e \in sessions'.live
    BY <1>2, SweptCalm
<1>9. sessions'.old \subseteq sessions.old /\ \A e \in sessions'.used : e \in sessions.used
    BY <1>2, SweptCalm
<1>10. QED
    BY <1>3, <1>4, <1>5, <1>6, <1>7, <1>8, <1>9, CalmHandler

\* The request of a calm call enters its second loop.
LEMMA DecryptAndProcessCalm ==
  ASSUME IInv, CalmInv, NEW h \in Handlers, DecryptAndProcess(h) PROVE CalmInv'
<1>1. /\ h[1] \in Calls /\ h[2] # "handshake" /\ threads[h].pc = "decrypt"
      /\ "resweep" \in ThreadPcs /\ threads' = ToSweep(h, "resweep")
    BY HandlerPair DEF DecryptAndProcess, ThreadPcs, IInv, Order, OrderAt
<1>2. /\ \A g \in Handlers : g # h => threads'[g] = threads[g]
      /\ threads'[h].pc = "resweep" /\ threads'[h].size = Cardinality(sessions.live)
      /\ threads'[h].ca = threads[h].ca
    BY <1>1, ThreadSweeps DEF IInv, Moved
<1>3. UNCHANGED <<identity, sessions, boots, calls, writer, calm>> /\ calm \subseteq Calls
    BY DEF DecryptAndProcess, IInv, TypeOK
<1>4. PICK d \in Calls : h[1] = d
    BY <1>1
<1>5. ASSUME NEW b \in Bootstraps, CalmCall(d, b) PROVE CalmCall(d, b)'
  <2>1. /\ h = <<d, "request">> /\ <<d, "handshake">> # h /\ <<d, "again">> # h
        /\ <<d, "handshake">> \in Handlers /\ <<d, "again">> \in Handlers
        /\ d \notin sessions.used
      BY <1>1, <1>4, <1>5, CalmRequest
  <2>2. QED
      BY <1>1, <1>2, <1>3, <1>5, <2>1 DEF CalmCall
<1>6. calm' = calm \ Disturbed(h, sessions')
    BY <1>3 DEF Disturbed
<1>7. QED
    BY <1>2, <1>3, <1>4, <1>5, <1>6, CalmHandler

\* The request of a calm call is answered.
LEMMA MarkUsedCalm ==
  ASSUME IInv, CalmInv, NEW h \in Handlers, MarkUsed(h) PROVE CalmInv'
<1> DEFINE Marked == [Swept EXCEPT !.used = @ \cup {h[1]}]
<1>1. /\ h[1] \in Calls /\ h[2] # "handshake" /\ threads[h].pc = "resweep"
      /\ {"error", "response"} \subseteq Answers
    BY HandlerPair DEF MarkUsed, Answers, IInv, Order, OrderAt
<1>2. \/ SizeChanged(h) /\ threads' = Answer(h, "error") /\ UNCHANGED <<sessions, calm>>
      \/ /\ threads' = Answer(h, "error") /\ h[1] \notin Swept.live
         /\ sessions' = Swept /\ calm' = calm \ Disturbed(h, sessions')
      \/ /\ threads' = Answer(h, "response") /\ h[1] \in Swept.live
         /\ sessions' = Marked /\ calm' = calm \ Disturbed(h, sessions')
  <2>1. [Swept EXCEPT !.used = @] = Swept
      BY DEF Swept
  <2>2. QED
      BY <2>1 DEF MarkUsed
<1>3. /\ Marked.live = Swept.live /\ Marked.old = {}
      /\ \A d \in Marked.used : d \in Swept.used \/ d = h[1]
    BY DEF Swept
<1> HIDE DEF Marked
<1>4. /\ \A g \in Handlers : g # h => threads'[g] = threads[g]
      /\ threads'[h].pc = "done" /\ threads'[h].ca = threads[h].ca
      /\ threads' = Answer(h, "response") => threads'[h].answer = "response"
    BY <1>1, <1>2, ThreadAnswers DEF IInv, Moved
<1>5. UNCHANGED <<identity, boots, calls, writer>> /\ calm \subseteq Calls
    BY DEF MarkUsed, IInv, TypeOK
<1>6. PICK d \in Calls : h[1] = d
    BY <1>1
<1>7. ASSUME NEW b \in Bootstraps, CalmCall(d, b) PROVE CalmCall(d, b)'
  <2>1. /\ h = <<d, "request">> /\ <<d, "handshake">> # h /\ <<d, "again">> # h
        /\ <<d, "handshake">> \in Handlers /\ <<d, "again">> \in Handlers
        /\ threads[<<d, "handshake">>].pc = "done" /\ d \in Swept.live
      BY <1>1, <1>6, <1>7, CalmRequest
  <2>2. threads' = Answer(h, "response") /\ sessions' = Marked
      BY <1>1, <1>2, <1>6, <1>7, <2>1 DEF CalmCall, SizeChanged
  <2>3. QED
      BY <1>1, <1>3, <1>4, <1>5, <1>7, <2>1, <2>2 DEF CalmCall
<1>8. calm' = calm \ Disturbed(h, sessions')
    BY <1>2 DEF Disturbed
<1>9. \A e \in sessions.live \ sessions.old : e \in sessions'.live
    BY <1>2, <1>3, SweptCalm
<1>10. sessions'.old \subseteq sessions.old
       /\ \A e \in sessions'.used : e \in sessions.used \/ e = d
    BY <1>2, <1>3, <1>6, SweptCalm
<1>11. QED
    BY <1>4, <1>5, <1>6, <1>7, <1>8, <1>9, <1>10, CalmHandler

-----------------------------------------------------------------------------
(* Calls leave the calm calls calm *)

\* A call that begins with the services settled is calm.
LEMMA BeginCallCalm ==
  ASSUME IInv, Written, CalmInv, NEW c \in Calls, BeginCall(c) PROVE CalmInv'
<1>1. calls \in [Calls -> CallType] /\ calm \subseteq Calls /\ calls[c].pc = "idle"
    BY DEF BeginCall, IInv, TypeOK, CallType, CallPcs
<1>2. UNCHANGED <<identity, boots, writer, sessions, threads>> /\ calm' \subseteq calm \cup {c}
      /\ \A d \in Calls : d # c => calls'[d] = calls[d]
    BY <1>1 DEF BeginCall, Call
<1>3. c \notin calm
    BY <1>1 DEF CalmInv, CalmCall
<1>4. ASSUME c \in calm'
      PROVE  \E b \in Bootstraps : writer = b /\ boots[b] = Done /\ CalmCall(c, b)'
  <2>1. PICK b \in Bootstraps : writer = b /\ boots[b] = Done
      BY <1>3, <1>4 DEF BeginCall, Settled
  <2>2. calls'[c].pc = "own" /\ calls'[c].ca = b
      BY <1>1, <2>1, CalmServer DEF BeginCall, CallType
  <2>3. /\ \A k \in {"handshake", "request", "again"} : threads[<<c, k>>].pc = "none"
        /\ c \notin sessions.live
    <3>1. \A g \in Handlers : g[1] = c =>
            threads[g].pc = "none" /\ (g[2] = "handshake" => c \notin sessions.live)
        BY <1>1, NoHandlersYet
    <3>2. c \notin sessions.live
      <4>1. PICK h \in Handlers : h = <<c, "handshake">>
          BY HandlerPair
      <4>2. h[1] = c /\ h[2] = "handshake"
          BY <4>1
      <4>3. QED
          BY <4>2, <3>1
    <3>3. ASSUME NEW k \in {"handshake", "request", "again"} PROVE threads[<<c, k>>].pc = "none"
      <4>1. PICK h \in Handlers : h = <<c, k>>
          BY HandlerPair
      <4>2. h[1] = c
          BY <4>1
      <4>3. QED
          BY <4>1, <4>2, <3>1
    <3>4. QED
        BY <3>2, <3>3
  <2>4. c \notin sessions.old /\ c \notin sessions.used
      BY <2>3 DEF IInv, TypeOK
  <2>5. CalmCall(c, b)'
      BY <1>2, <2>2, <2>3, <2>4 DEF CalmCall
  <2>6. QED
      BY <2>1, <2>5
<1>5. QED
    BY <1>1, <1>2, <1>4, CalmClient

\* A calm call reads the certificate of its bootstrap.
LEMMA ReadOwnCalm ==
  ASSUME IInv, Written, CalmInv, NEW c \in Calls, ReadOwn(c) PROVE CalmInv'
<1>1. calls \in [Calls -> CallType] /\ calm \subseteq Calls /\ calls[c].pc = "own"
    BY DEF ReadOwn, IInv, TypeOK, CallType, CallPcs
<1>2. UNCHANGED <<identity, boots, writer, sessions, threads, calm>>
      /\ \A d \in Calls : d # c => calls'[d] = calls[d]
    BY <1>1 DEF ReadOwn
<1>3. calls'[c].pc = "expected" /\ calls'[c].own = identity["client"].own
      /\ calls'[c].ca = calls[c].ca
    BY <1>1 DEF ReadOwn, CallType
<1>4. ASSUME c \in calm
      PROVE  \E b \in Bootstraps : writer = b /\ boots[b] = Done /\ CalmCall(c, b)'
  <2>1. PICK b \in Bootstraps : writer = b /\ boots[b] = Done /\ CalmCall(c, b)
      BY <1>4 DEF CalmInv
  <2>2. identity["client"].own = b
      BY <2>1, CalmServer
  <2>3. CalmCall(c, b)'
      BY <1>2, <1>3, <2>1, <2>2 DEF CalmCall
  <2>4. QED
      BY <2>1, <2>3
<1>5. QED
    BY <1>1, <1>2, <1>4, CalmClient

\* A calm call expects the name of its bootstrap.
LEMMA RequestHandshakeCalm ==
  ASSUME IInv, Written, CalmInv, NEW c \in Calls, RequestHandshake(c) PROVE CalmInv'
<1>1. calls \in [Calls -> CallType] /\ calm \subseteq Calls /\ calls[c].pc = "expected"
    BY DEF RequestHandshake, IInv, TypeOK, CallType, CallPcs
<1>2. PICK h \in Handlers : h = <<c, "handshake">>
    BY HandlerPair
<1>3. h[1] = c /\ "new" \in ThreadPcs /\ threads' = To(h, "new")
    BY <1>2 DEF ThreadPcs, RequestHandshake
<1>4. /\ \A g \in Handlers : g # h => threads'[g] = threads[g]
      /\ threads'[h].pc = "new"
    BY <1>3, ThreadMoves DEF IInv, Moved
<1>5. UNCHANGED <<identity, boots, writer, sessions, calm>>
      /\ \A d \in Calls : d # c => calls'[d] = calls[d]
    BY <1>1 DEF RequestHandshake
<1>6. calls'[c].pc = "handshake" /\ calls'[c].own = calls[c].own
      /\ calls'[c].ca = calls[c].ca /\ calls'[c].expected = identity["client"].expected
    BY <1>1 DEF RequestHandshake, CallType
<1>7. ASSUME c \in calm
      PROVE  \E b \in Bootstraps : writer = b /\ boots[b] = Done /\ CalmCall(c, b)'
  <2>1. PICK b \in Bootstraps : writer = b /\ boots[b] = Done /\ CalmCall(c, b)
      BY <1>7 DEF CalmInv
  <2>2. identity["client"].expected = b
      BY <2>1, CalmServer
  <2>3. <<c, "request">> \in Handlers /\ <<c, "again">> \in Handlers
        /\ <<c, "request">> # h /\ <<c, "again">> # h
      BY <1>2, HandlerPair
  <2>4. CalmCall(c, b)'
      BY <1>1, <1>2, <1>4, <1>5, <1>6, <2>1, <2>2, <2>3 DEF CalmCall
  <2>5. QED
      BY <2>1, <2>4
<1>8. \A g \in Handlers : g[1] # c => threads'[g] = threads[g]
    BY <1>3, <1>4
<1>9. QED
    BY <1>1, <1>5, <1>7, <1>8, CalmClient

\* A calm call accepts the certificate and sends its request.
LEMMA SendRequestCalm ==
  ASSUME IInv, Written, CalmInv, NEW c \in Calls, SendRequest(c) PROVE CalmInv'
<1> DEFINE p == threads[<<c, "handshake">>].answer
           r == [calls[c] EXCEPT !.pc = "sent", !.peer = p]
<1>1. /\ calls \in [Calls -> CallType] /\ calm \subseteq Calls
      /\ calls[c].pc = "handshake" /\ threads[<<c, "handshake">>].pc = "done"
    BY DEF SendRequest, IInv, TypeOK, CallType, CallPcs
<1>2. PICK h \in Handlers : h = <<c, "request">>
    BY HandlerPair
<1>3. h[1] = c /\ "new" \in ThreadPcs
    BY <1>2 DEF ThreadPcs
<1>4. UNCHANGED <<identity, boots, writer, sessions, calm>>
      /\ (\A d \in Calls : d # c => calls'[d] = calls[d])
      /\ (threads' = threads \/ threads' = To(h, "new"))
    BY <1>1, <1>2 DEF SendRequest, Call
<1>5. /\ \A g \in Handlers : g # h => threads'[g] = threads[g]
      /\ threads' = To(h, "new") => threads'[h].pc = "new"
    BY <1>3, <1>4, ThreadMoves DEF IInv, Moved
<1>6. ASSUME c \in calm
      PROVE  \E b \in Bootstraps : writer = b /\ boots[b] = Done /\ CalmCall(c, b)'
  <2>1. PICK b \in Bootstraps : writer = b /\ boots[b] = Done /\ CalmCall(c, b)
      BY <1>6 DEF CalmInv
  <2>2. b # None /\ b \notin {"error", "rejected", "response"}
      BY <2>1, CalmServer
  <2>3. p = b /\ calls[c].ca = b /\ calls[c].expected = b /\ calls[c].own = b
      BY <1>1, <2>1 DEF CalmCall
  <2>4. calls' = [calls EXCEPT ![c] = r] /\ threads' = To(h, "new")
      BY <1>1, <1>2, <2>2, <2>3 DEF SendRequest, VerifyCertificate
  <2>5. r.pc = "sent" /\ r.ca = b /\ r.expected = b /\ r.own = b
      BY <1>1, <2>3 DEF CallType
  <2>6. calls'[c] = r
      BY <1>1, <2>4
  <2>7. <<c, "handshake">> \in Handlers /\ <<c, "again">> \in Handlers
        /\ <<c, "handshake">> # h /\ <<c, "again">> # h
      BY <1>2, HandlerPair
  <2>8. threads[h].pc = "none"
      BY <1>1, <1>2, <1>3 DEF IInv, Order, OrderAt
  <2> HIDE DEF r
  <2>9. CalmCall(c, b)'
      BY <1>1, <1>2, <1>4, <1>5, <2>1, <2>4, <2>5, <2>6, <2>7, <2>8 DEF CalmCall
  <2>10. QED
      BY <2>1, <2>9
<1>7. \A g \in Handlers : g[1] # c => threads'[g] = threads[g]
    BY <1>3, <1>5
<1>8. QED
    BY <1>1, <1>4, <1>6, <1>7, CalmClient

\* A calm call completes.
LEMMA ReceiveResponseCalm ==
  ASSUME IInv, CalmInv, NEW c \in Calls, ReceiveResponse(c) PROVE CalmInv'
<1>1. /\ calls \in [Calls -> CallType] /\ calm \subseteq Calls
      /\ calls[c].pc = "sent" /\ threads[<<c, "request">>].pc = "done"
    BY DEF ReceiveResponse, IInv, TypeOK, CallType, CallPcs
<1>2. UNCHANGED <<identity, boots, writer, sessions, calm, threads>>
      /\ (\A d \in Calls : d # c => calls'[d] = calls[d])
    BY <1>1 DEF ReceiveResponse, Call
<1>3. ASSUME c \in calm
      PROVE  \E b \in Bootstraps : writer = b /\ boots[b] = Done /\ CalmCall(c, b)'
  <2>1. PICK b \in Bootstraps : writer = b /\ boots[b] = Done /\ CalmCall(c, b)
      BY <1>3 DEF CalmInv
  <2>2. threads[<<c, "request">>].answer = "response"
      BY <1>1, <2>1 DEF CalmCall
  <2>3. calls' = Call(c, "completed") /\ "completed" \in CallPcs
      BY <2>2 DEF ReceiveResponse, CallPcs
  <2>4. calls'[c].pc = "completed" /\ calls'[c].ca = calls[c].ca
        /\ calls'[c].own = calls[c].own /\ calls'[c].expected = calls[c].expected
      BY <2>3, CallMoves DEF IInv
  <2>5. CalmCall(c, b)'
      BY <1>1, <1>2, <2>1, <2>4 DEF CalmCall
  <2>6. QED
      BY <2>1, <2>5
<1>4. QED
    BY <1>1, <1>2, <1>3, CalmClient

\* A call that gives up waiting, or whose request is repeated, is calm no more,
\* and the others stay so.
LEMMA CallDisturbed ==
  ASSUME IInv, CalmInv, NEW c \in Calls, CallTimesOut(c) \/ DuplicateRequest(c) PROVE CalmInv'
<1>1. calls \in [Calls -> CallType] /\ calm \subseteq Calls
    BY DEF IInv, TypeOK, CallType, CallPcs
<1>2. UNCHANGED <<boots, writer, sessions>> /\ calm' = calm \ {c}
      /\ \A d \in Calls : d # c => calls'[d] = calls[d]
    BY <1>1 DEF CallTimesOut, DuplicateRequest, Call
<1>3. PICK h \in Handlers : h = <<c, "again">> /\ h[1] = c
    BY HandlerPair
<1>4. threads' = threads \/ (threads' = To(h, "new") /\ "new" \in ThreadPcs)
    BY <1>3 DEF CallTimesOut, DuplicateRequest, ThreadPcs
<1>5. \A g \in Handlers : g[1] # c => threads'[g] = threads[g]
    BY <1>3, <1>4, ThreadMoves DEF IInv, Moved
<1>6. QED
    BY <1>1, <1>2, <1>5, CalmClient

\* A session that expires is of a call that is calm no more.
LEMMA SessionExpiresCalm ==
  ASSUME IInv, CalmInv, NEW c \in Calls, SessionExpires(c) PROVE CalmInv'
<1>1. /\ sessions'.live = sessions.live /\ sessions'.used = sessions.used
      /\ sessions'.old = sessions.old \cup {c} /\ calm' = calm \ {c}
      /\ UNCHANGED <<boots, calls, threads, writer>>
    BY DEF SessionExpires, IInv, TypeOK
<1> SUFFICES ASSUME NEW d \in calm'
             PROVE  \E b \in Bootstraps : writer = b /\ boots[b] = Done /\ CalmCall(d, b)'
    BY <1>1 DEF CalmInv
<1>2. PICK b \in Bootstraps : writer = b /\ boots[b] = Done /\ CalmCall(d, b)
    BY <1>1 DEF CalmInv
<1>3. CalmCall(d, b)'
    BY <1>1, <1>2 DEF CalmCall
<1>4. QED
    BY <1>2, <1>3

\* A call is calm when nothing has disturbed it, and then all it has read is
\* the material of one bootstrap.
LEMMA CalmInvariant == Spec => []CalmInv
<1>1. Init => CalmInv
    BY DEF Init, CalmInv
<1>2. IInv /\ Written /\ CalmInv /\ [Next]_vars => CalmInv'
  <2> SUFFICES ASSUME IInv, Written, CalmInv, [Next]_vars PROVE CalmInv'
      OBVIOUS
  <2>1. CASE \E b \in Bootstraps : Gateway(b)
    <3>1. CASE \E b \in Bootstraps : ConfigureField(b)
        BY <3>1 DEF ConfigureField, CalmInv
    <3>2. ASSUME NEW b \in Bootstraps, BootstrapFails(b) PROVE CalmInv'
      <4>1. /\ UNCHANGED <<sessions, calls, threads, writer, calm>> /\ boots[b] # Done
            /\ \A d \in Bootstraps : d # b => boots'[d] = boots[d]
          BY <3>2 DEF BootstrapFails, Done, IInv, TypeOK
      <4> SUFFICES ASSUME NEW c \in calm
                   PROVE  \E d \in Bootstraps : writer = d /\ boots'[d] = Done /\ CalmCall(c, d)'
          BY <4>1 DEF CalmInv
      <4>2. PICK d \in Bootstraps : writer = d /\ boots[d] = Done /\ CalmCall(c, d)
          BY DEF CalmInv
      <4>3. CalmCall(c, d)'
          BY <4>1, <4>2 DEF CalmCall
      <4>4. QED
          BY <4>1, <4>2, <4>3
    <3>3. QED
        BY <2>1, <3>1, <3>2 DEF Gateway
  <2>2. CASE \E c \in Calls : \/ BeginCall(c) \/ Client(c) \/ CallTimesOut(c)
                              \/ DuplicateRequest(c) \/ SessionExpires(c)
      BY <2>2, BeginCallCalm, ReadOwnCalm, RequestHandshakeCalm, SendRequestCalm,
         ReceiveResponseCalm, CallDisturbed, SessionExpiresCalm
      DEF Client
  <2>3. CASE \E h \in Handlers : Handler(h)
      BY <2>3, HandlerPair, StartHandshakeCalm, SweepForHandshakeCalm, CreateSessionCalm,
         AnswerHandshakeCalm, StartRequestCalm, VerifyClientCalm, GetSessionCalm,
         DecryptAndProcessCalm, MarkUsedCalm
      DEF Handler
  <2>4. CASE RestartServer \/ RestartClient
      BY <2>4 DEF RestartServer, RestartClient, CalmInv
  <2>5. CASE UNCHANGED vars
      BY <2>5 DEF vars, CalmInv, CalmCall
  <2>6. QED
      BY <2>1, <2>2, <2>3, <2>4, <2>5 DEF Next
<1>3. QED
    BY <1>1, <1>2, Invariant, WrittenInvariant, PTL DEF Spec

\* A call that nothing disturbed ends only by completing, however many other
\* calls run at the same time.
THEOREM CalmComplete == Spec => []CalmCallsComplete
<1>1. CalmInv => CalmCallsComplete
    BY DEF CalmInv, CalmCall, CalmCallsComplete, Ended
<1>2. QED
    BY <1>1, CalmInvariant, PTL
=============================================================================
