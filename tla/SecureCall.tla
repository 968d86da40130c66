----------------------------- MODULE SecureCall -----------------------------
(***************************************************************************)
(* api-mTLS: the gateway's bootstrap configures a client and a server      *)
(* service, and the client then makes secure calls to the server: it asks  *)
(* for a handshake session, checks the server's certificate, encrypts its  *)
(* request for that session and decrypts the answer.                       *)
(*                                                                         *)
(* Handlers that are plain functions run in the thread pool, so that the   *)
(* identity a bootstrap writes field by field, and the table of sessions,  *)
(* are read and written by several threads without a lock.  A bootstrap    *)
(* stands for what it issues: its CA and the certificates that CA signed.  *)
(***************************************************************************)
EXTENDS Naturals, Sequences, FiniteSets

CONSTANTS Bootstraps,     \* bootstraps the gateway is asked for, each once
          Calls,          \* secure calls the client is asked for, each once
          CommonName,     \* the common names a bootstrap asks certificates for
          None,           \* a Python None
          MaxRequests,    \* bound: bootstraps and calls that are begun
          FaultKinds,     \* what may go wrong, of the kinds below
          MaxFaults       \* bound: how often something goes wrong

ASSUME CommonNameAssumption == DOMAIN CommonName = Bootstraps
ASSUME FaultsAssumption ==
  /\ FaultKinds \subseteq {"http", "twice", "expiry", "server", "client"}
  /\ MaxFaults \in Nat /\ MaxRequests \in Nat
ASSUME CallsAssumption == IsFiniteSet(Calls)
ASSUME NamesAssumption ==
  /\ None \notin Bootstraps
  /\ {"error", "rejected", "response"} \cap (Bootstraps \cup {None}) = {}

VARIABLES identity,   \* CLIENT_IDENTITY_STATE and SERVER_IDENTITY_STATE
          sessions,   \* SERVER_HANDSHAKE_SESSIONS: live, used, past their TTL
          boots,      \* the assignment each bootstrap makes next
          calls,      \* run_client_encrypted_request, one record per call
          threads,    \* the server's handlers
          faults,     \* how often something went wrong
          writer,     \* history: who alone wrote the identities since it began
          calm        \* history: calls that nothing has disturbed

vars == <<identity, sessions, boots, calls, threads, faults, writer, calm>>

Services == {"client", "server"}
Material == Bootstraps \cup {None}

\* The handlers the server may run for a call; the last is a second delivery.
Handlers == Calls \X {"handshake", "request", "again"}

\* Fault: the server's expected_client_subject is not assigned.
WritesWithoutSubject ==
  LET Fields == <<"configured", "ca", "own", "expected">>
  IN  [i \in 1..8 |-> IF i <= 4 THEN <<"client", Fields[i]>>
                      ELSE <<"server", Fields[IF i = 8 THEN 3 ELSE i - 4]>>]

\* The assignments of configure_client_identity and configure_server_identity
\* in order.  A bootstrap configures the client first.  The fields left out
\* (service_id, service_role, server_service_url) are the same every time.
Writes == LET Fields == <<"configured", "ca", "own", "expected">>
          IN  [i \in 1..8 |-> IF i <= 4 THEN <<"client", Fields[i]>>
                                        ELSE <<"server", Fields[i - 4]>>]

Done   == 9      \* a bootstrap has made them all
Failed == 10     \* it was cut short

Unconfigured == [configured |-> None, ca |-> None, own |-> None, expected |-> None]
NewCall      == [pc |-> "idle", ca |-> None, own |-> None, expected |-> None,
                 peer |-> None]
NewThread    == [pc |-> "none", size |-> 0, ca |-> None, expected |-> None,
                 answer |-> None]

Ended(c)   == calls[c].pc \in {"completed", "refused", "error"}
Active(c)  == calls[c].pc # "idle" /\ ~ Ended(c)

\* openssl verify against the CA, and the expected fragment in the subject.
VerifyCertificate(cert, ca, expected) ==
  cert = ca /\ CommonName[cert] = CommonName[expected]

Init ==
  /\ identity = [s \in Services |-> Unconfigured]
  /\ sessions = [live |-> {}, used |-> {}, old |-> {}]
  /\ boots    = [b \in Bootstraps |-> 1]
  /\ calls    = [c \in Calls |-> NewCall]
  /\ threads  = [h \in Handlers |-> NewThread]
  /\ faults   = 0
  /\ writer   = None
  /\ calm     = {}

Begun == {b \in Bootstraps : boots[b] # 1} \cup {c \in Calls : calls[c].pc # "idle"}
MayBegin == Cardinality(Begun) < MaxRequests

Fault(kind) == kind \in FaultKinds /\ faults < MaxFaults /\ faults' = faults + 1

(***************************************************************************)
(* The gateway: bootstrap_from_internal_ca.                                *)
(***************************************************************************)

\* One assignment of configure_*_identity, in a thread of the service.
ConfigureField(b) ==
  /\ boots[b] \in 1..8 /\ (boots[b] = 1 => MayBegin)
  /\ LET w == Writes[boots[b]]
     IN  identity' = [identity EXCEPT ![w[1]][w[2]] = b]
  /\ boots' = [boots EXCEPT ![b] = @ + 1]
  /\ writer' = IF boots[b] = 1 \/ writer = b THEN b ELSE None
  /\ calm' = {}
  /\ UNCHANGED <<sessions, calls, threads, faults>>

\* An exception after the client's configuration, which stays as it is.  One
\* before it, while the certificates are issued, leaves no trace.
BootstrapFails(b) ==
  /\ boots[b] = 5
  /\ Fault("http")
  /\ boots' = [boots EXCEPT ![b] = Failed]
  /\ UNCHANGED <<identity, sessions, calls, threads, writer, calm>>

(***************************************************************************)
(* The server's table of sessions.  A session is named after its call.     *)
(***************************************************************************)

\* A thread at "sweep" or "resweep" is inside the loop of
\* _cleanup_expired_sessions; Python notices when the size has changed.
Sweeping(h)   == threads[h].pc \in {"sweep", "resweep"}
SizeChanged(h) == Cardinality(sessions.live) # threads[h].size

\* Fault: the flag of a session outlives the session.
SweptKeepsUsed == [live |-> sessions.live \ sessions.old, used |-> sessions.used, old |-> {}]

\* Fault: every session is taken for an expired one.
SweptAll == [live |-> {}, used |-> {}, old |-> {}]

\* What the loop and the pops that follow it leave.
Swept == [live |-> sessions.live \ sessions.old,
          used |-> sessions.used \ sessions.old, old |-> {}]

\* Calls whose handlers would see the table change under their loop.
Disturbed(h, table) ==
  IF Cardinality(table.live) = Cardinality(sessions.live) THEN {}
  ELSE {g[1] : g \in {g \in Handlers : g # h /\ Sweeping(g)}}

To(h, pc)     == [threads EXCEPT ![h].pc = pc]
ToSweep(h, pc) == [threads EXCEPT ![h].pc = pc,
                                  ![h].size = Cardinality(sessions.live)]
Answer(h, a)  == [threads EXCEPT ![h].pc = "done", ![h].answer = a]

(***************************************************************************)
(* start_server_handshake.                                                 *)
(***************************************************************************)

StartHandshake(c) ==
  LET h == <<c, "handshake">>
  IN  /\ threads[h].pc = "new"
      /\ threads' = IF identity["server"].configured = None THEN Answer(h, "error")
                                                  ELSE ToSweep(h, "sweep")
      /\ UNCHANGED <<identity, sessions, boots, calls, faults, writer, calm>>

\* _cleanup_expired_sessions ends, or raises because the table changed.
SweepForHandshake(c) ==
  LET h == <<c, "handshake">>
  IN  /\ threads[h].pc = "sweep"
      /\ IF SizeChanged(h)
           THEN threads' = Answer(h, "error") /\ UNCHANGED <<sessions, calm>>
           ELSE /\ threads' = To(h, "create")
                /\ sessions' = Swept
                /\ calm' = calm \ Disturbed(h, Swept)
      /\ UNCHANGED <<identity, boots, calls, faults, writer>>

CreateSession(c) ==
  LET h     == <<c, "handshake">>
      table == [sessions EXCEPT !.live = @ \cup {c}]
  IN  /\ threads[h].pc = "create"
      /\ threads' = To(h, "certificate")
      /\ sessions' = table
      /\ calm' = calm \ Disturbed(h, table)
      /\ UNCHANGED <<identity, boots, calls, faults, writer>>

\* The certificate is read after the session exists; None is no valid answer.
AnswerHandshake(c) ==
  LET h == <<c, "handshake">>
  IN  /\ threads[h].pc = "certificate"
      /\ threads' = Answer(h, IF identity["server"].own = None THEN "error"
                              ELSE identity["server"].own)
      /\ UNCHANGED <<identity, sessions, boots, calls, faults, writer, calm>>

(***************************************************************************)
(* process_encrypted_request.                                              *)
(***************************************************************************)

StartRequest(h) ==
  /\ h[2] # "handshake" /\ threads[h].pc = "new"
  /\ threads' = IF identity["server"].configured = None THEN Answer(h, "error")
                ELSE [threads EXCEPT ![h].pc = "expected", ![h].ca = identity["server"].ca]
  /\ UNCHANGED <<identity, sessions, boots, calls, faults, writer, calm>>

\* The expected subject is read, and the certificate verified with what was
\* read.  A rejected request leaves its session alone.
VerifyClient(h) ==
  LET ca == threads[h].ca
      expected == identity["server"].expected
      cert == calls[h[1]].own
      checked == [threads EXCEPT ![h].expected = expected, ![h].pc = "sweep",
                                 ![h].size = Cardinality(sessions.live)]
  IN  /\ threads[h].pc = "expected"
      /\ threads' = IF None \in {ca, expected, cert} THEN Answer(h, "error")
                    ELSE IF VerifyCertificate(cert, ca, expected) THEN checked
                    ELSE Answer(h, "rejected")
      /\ UNCHANGED <<identity, sessions, boots, calls, faults, writer, calm>>

\* get_handshake_session and the test of its used flag.
GetSession(h) ==
  /\ h[2] # "handshake" /\ threads[h].pc = "sweep"
  /\ IF SizeChanged(h)
       THEN threads' = Answer(h, "error") /\ UNCHANGED <<sessions, calm>>
       ELSE /\ threads' = IF h[1] \in Swept.live \ Swept.used THEN To(h, "decrypt")
                                                              ELSE Answer(h, "error")
            /\ sessions' = Swept
            /\ calm' = calm \ Disturbed(h, Swept)
  /\ UNCHANGED <<identity, boots, calls, faults, writer>>

\* Decapsulation, decryption and the encrypted response; the session object
\* is still at hand even if the table has lost it.
DecryptAndProcess(h) ==
  /\ threads[h].pc = "decrypt"
  /\ threads' = ToSweep(h, "resweep")
  /\ UNCHANGED <<identity, sessions, boots, calls, faults, writer, calm>>

\* Fault: the session that is marked is a copy of the stored one.
MarkCopyUsed(h) ==
  /\ threads[h].pc = "resweep"
  /\ threads' = Answer(h, IF SizeChanged(h) \/ h[1] \notin Swept.live THEN "error"
                          ELSE "response")
  /\ sessions' = IF SizeChanged(h) THEN sessions ELSE Swept
  /\ calm' = calm \ Disturbed(h, sessions')
  /\ UNCHANGED <<identity, boots, calls, faults, writer>>

\* mark_handshake_session_used looks the session up again.
MarkUsed(h) ==
  /\ threads[h].pc = "resweep"
  /\ IF SizeChanged(h)
       THEN threads' = Answer(h, "error") /\ UNCHANGED <<sessions, calm>>
       ELSE LET found == h[1] \in Swept.live
                table == [Swept EXCEPT !.used = IF found THEN @ \cup {h[1]} ELSE @]
            IN  /\ threads' = Answer(h, IF found THEN "response" ELSE "error")
                /\ sessions' = table
                /\ calm' = calm \ Disturbed(h, table)
  /\ UNCHANGED <<identity, boots, calls, faults, writer>>

(***************************************************************************)
(* run_client_encrypted_request.                                           *)
(***************************************************************************)

\* Every identity the last bootstrap wrote, and nobody else since it began.
Settled == \E b \in Bootstraps : writer = b /\ boots[b] = Done

Call(c, pc) == [calls EXCEPT ![c].pc = pc]

BeginCall(c) ==
  /\ calls[c].pc = "idle" /\ MayBegin
  /\ calls' = IF identity["client"].configured = None THEN Call(c, "error")
              ELSE [calls EXCEPT ![c].pc = "own", ![c].ca = identity["client"].ca]
  /\ calm' = IF Settled THEN calm \cup {c} ELSE calm
  /\ UNCHANGED <<identity, sessions, boots, threads, faults, writer>>

ReadOwn(c) ==
  /\ calls[c].pc = "own"
  /\ calls' = [calls EXCEPT ![c].pc = "expected", ![c].own = identity["client"].own]
  /\ UNCHANGED <<identity, sessions, boots, threads, faults, writer, calm>>

\* The last field is read and the handshake requested.
RequestHandshake(c) ==
  /\ calls[c].pc = "expected"
  /\ calls' = [calls EXCEPT ![c].pc = "handshake",
                            ![c].expected = identity["client"].expected]
  /\ threads' = To(<<c, "handshake">>, "new")
  /\ UNCHANGED <<identity, sessions, boots, faults, writer, calm>>

\* Fault: the certificate is verified with the identity of this moment.
SendRequestLateRead(c) ==
  LET hs   == threads[<<c, "handshake">>]
      mine == identity["client"]
  IN  /\ calls[c].pc = "handshake" /\ hs.pc = "done"
      /\ IF hs.answer = "error" \/ None \in {mine.ca, mine.expected}
           THEN calls' = Call(c, "error") /\ UNCHANGED threads
         ELSE IF VerifyCertificate(hs.answer, mine.ca, mine.expected)
           THEN /\ calls' = [calls EXCEPT ![c].pc = "sent", ![c].peer = hs.answer]
                /\ threads' = To(<<c, "request">>, "new")
         ELSE calls' = Call(c, "refused") /\ UNCHANGED threads
      /\ UNCHANGED <<identity, sessions, boots, faults, writer, calm>>

\* raise_for_status, then the server's certificate is verified with the
\* material read at the start, and the request is encrypted and sent.
SendRequest(c) ==
  LET hs   == threads[<<c, "handshake">>]
      mine == calls[c]
  IN  /\ mine.pc = "handshake" /\ hs.pc = "done"
      /\ IF hs.answer = "error" \/ None \in {mine.ca, mine.expected}
           THEN calls' = Call(c, "error") /\ UNCHANGED threads
         ELSE IF VerifyCertificate(hs.answer, mine.ca, mine.expected)
           THEN /\ calls' = [calls EXCEPT ![c].pc = "sent", ![c].peer = hs.answer]
                /\ threads' = To(<<c, "request">>, "new")
         ELSE calls' = Call(c, "refused") /\ UNCHANGED threads
      /\ UNCHANGED <<identity, sessions, boots, faults, writer, calm>>

\* The answer is decrypted with the key of the call's own session.
ReceiveResponse(c) ==
  LET answer == threads[<<c, "request">>].answer
  IN  /\ calls[c].pc = "sent" /\ threads[<<c, "request">>].pc = "done"
      /\ calls' = Call(c, CASE answer = "response" -> "completed"
                            [] answer = "rejected" -> "refused"
                            [] answer = "error"    -> "error")
      /\ UNCHANGED <<identity, sessions, boots, threads, faults, writer, calm>>

(***************************************************************************)
(* What may go wrong around them.                                          *)
(***************************************************************************)

\* The HTTP client gives up after its timeout; the server's thread goes on.
CallTimesOut(c) ==
  /\ calls[c].pc \in {"handshake", "sent"}
  /\ Fault("http")
  /\ calls' = Call(c, "error")
  /\ calm' = calm \ {c}
  /\ UNCHANGED <<identity, sessions, boots, threads, writer>>

\* A request that was sent arrives once more.
DuplicateRequest(c) ==
  /\ threads[<<c, "request">>].pc # "none" /\ threads[<<c, "again">>].pc = "none"
  /\ Fault("twice")
  /\ threads' = To(<<c, "again">>, "new")
  /\ calm' = calm \ {c}
  /\ UNCHANGED <<identity, sessions, boots, calls, writer>>

\* HANDSHAKE_SESSION_TTL_SECONDS go by.
SessionExpires(c) ==
  /\ c \in sessions.live \ sessions.old
  /\ Fault("expiry")
  /\ sessions' = [sessions EXCEPT !.old = @ \cup {c}]
  /\ calm' = calm \ {c}
  /\ UNCHANGED <<identity, boots, calls, threads, writer>>

\* Bootstraps that were talking to a service when it went away.
Interrupted(first, last) ==
  [b \in Bootstraps |-> IF boots[b] \in first..last THEN Failed ELSE boots[b]]

RestartServer ==
  /\ Fault("server")
  /\ identity' = [identity EXCEPT !["server"] = Unconfigured]
  /\ sessions' = [live |-> {}, used |-> {}, old |-> {}]
  /\ boots' = Interrupted(6, 8)
  /\ threads' = [h \in Handlers |->
       IF threads[h].pc \in {"none", "done"} THEN threads[h]
       ELSE [threads[h] EXCEPT !.pc = "done", !.answer = "error"]]
  /\ writer' = None
  /\ calm' = {}
  /\ UNCHANGED calls

RestartClient ==
  /\ Fault("client")
  /\ identity' = [identity EXCEPT !["client"] = Unconfigured]
  /\ boots' = Interrupted(2, 4)
  /\ calls' = [c \in Calls |-> IF Active(c) THEN [calls[c] EXCEPT !.pc = "error"]
                               ELSE calls[c]]
  /\ writer' = None
  /\ calm' = {}
  /\ UNCHANGED <<sessions, threads>>

Gateway(b) == ConfigureField(b) \/ BootstrapFails(b)

Handler(h) ==
  \/ /\ h[2] = "handshake"
     /\ \/ StartHandshake(h[1]) \/ SweepForHandshake(h[1])
        \/ CreateSession(h[1]) \/ AnswerHandshake(h[1])
  \/ StartRequest(h) \/ VerifyClient(h) \/ GetSession(h)
  \/ DecryptAndProcess(h) \/ MarkUsed(h)

Client(c) == \/ ReadOwn(c) \/ RequestHandshake(c)
             \/ SendRequest(c) \/ ReceiveResponse(c)

Next ==
  \/ \E b \in Bootstraps : Gateway(b)
  \/ \E c \in Calls : \/ BeginCall(c) \/ Client(c) \/ CallTimesOut(c)
                      \/ DuplicateRequest(c) \/ SessionExpires(c)
  \/ \E h \in Handlers : Handler(h)
  \/ RestartServer \/ RestartClient

Spec == Init /\ [][Next]_vars
-----------------------------------------------------------------------------
\* The types: the material comes from bootstraps, sessions are of calls.
TypeOK ==
  /\ identity \in [Services -> [configured : Material, ca : Material,
                                own : Material, expected : Material]]
  /\ sessions \in [live : SUBSET Calls, used : SUBSET Calls, old : SUBSET Calls]
  /\ sessions.used \cup sessions.old \subseteq sessions.live
  /\ boots \in [Bootstraps -> 1..Failed]
  /\ calls \in [Calls ->
       [pc : {"idle", "own", "expected", "handshake", "sent", "completed",
              "refused", "error"},
        ca : Material, own : Material, expected : Material, peer : Material]]
  /\ threads \in [Handlers ->
       [pc : {"none", "new", "sweep", "create", "certificate", "expected",
              "decrypt", "resweep", "done"},
        size : 0..Cardinality(Calls), ca : Material, expected : Material,
        answer : Material \cup {"error", "rejected", "response"}]]
  /\ writer \in Material /\ calm \subseteq Calls

\* A completed call was checked on both sides: the server's certificate by the
\* CA and the name the client held, the client's by those the server held, and
\* it was answered by the server that made its session
\* (client_encrypted_request_service.py:278).  No mixture of bootstraps, torn
\* identity, restart or repeated request gets around that.
CompletedCallsAreAuthenticated ==
  \A c \in Calls : calls[c].pc = "completed" =>
    LET server == threads[<<c, "request">>]
    IN  /\ None \notin {calls[c].expected, server.expected}
        /\ calls[c].peer = calls[c].ca
        /\ CommonName[calls[c].peer] = CommonName[calls[c].expected]
        /\ calls[c].own = server.ca
        /\ CommonName[calls[c].own] = CommonName[server.expected]
        /\ server.answer = "response"
        /\ threads[<<c, "handshake">>].answer = calls[c].peer

\* Once a request was answered its session serves no request that comes later,
\* whatever threads run at that moment (server_session_service.py:116): the
\* session is marked, has been removed, or is gone with the process.
AnsweredSessionsAreSpent ==
  \A h \in Handlers : threads[h].answer = "response" =>
    h[1] \notin sessions.live \ sessions.used

\* A bootstrap that no other one overlaps, and that loses no service to a
\* restart, leaves both services with its material and nothing else
\* (bootstrap_service.py:243): each service trusts the CA of its peer.
SettledIdentitiesAgree ==
  Settled => \A s \in Services, f \in DOMAIN Unconfigured : identity[s][f] = writer

\* A call that begins when such a bootstrap is done, and during which nobody
\* configures or restarts a service, gives up waiting, repeats its request,
\* lets its session expire or changes the table under its loop, completes: other
\* calls do not make it fail in any other way (server_session_service.py:21).
CalmCallsComplete ==
  \A c \in calm : Ended(c) => calls[c].pc = "completed"

=============================================================================
