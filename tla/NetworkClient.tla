--------------------------- MODULE NetworkClient ---------------------------
(***************************************************************************)
(* The network client, kafka/client_async.py, with the connections of       *)
(* kafka/conn.py, the pairing of requests and answers of                    *)
(* kafka/protocol/parser.py and the metadata of kafka/cluster.py.           *)
(*                                                                          *)
(* poll() runs under the client's lock; its parts are the actions of the    *)
(* middle sections, which any thread that polls takes in turn. Sending does *)
(* not take that lock: a request is checked and queued in two steps. The    *)
(* futures of answers are completed after the lock is released. The tokens  *)
(* of kafka/sasl are exchanged by blocking calls under the lock, so nothing *)
(* else of poll() goes on meanwhile.                                        *)
(***************************************************************************)
EXTENDS Naturals, Sequences, FiniteSets, SequencesExt

CONSTANTS
  Broker,      \* the brokers of the cluster
  Boot,        \* bootstrap-0, bootstrap-1, ...
  Request,     \* the requests that are sent in a run
  Topic,       \* the topics whose metadata is asked for
  Senders,     \* threads that send
  MaxInFlight, \* max_in_flight_requests_per_connection
  Addresses,   \* addresses a host name resolves to
  Security,    \* security_protocol
  Mechanism,   \* the values of sasl_mechanism
  MaxFaults    \* bound: failures of connections, brokers and answers

Node == Broker \cup Boot
META == "metadata"                   \* the client's own requests
API  == "api_versions"
AUTH == "sasl_handshake"

ASSUME NodeAssumption ==
  /\ IsFiniteSet(Node) /\ Boot # {} /\ Broker # {} /\ Broker \cap Boot = {}
  /\ IsFiniteSet(Request) /\ Request \cap {META, API, AUTH} = {}
ASSUME BoundAssumption ==
  /\ Senders \in Nat \ {0} /\ MaxInFlight \in Nat \ {0}
  /\ Addresses \in Nat \ {0} /\ MaxFaults \in Nat
  /\ Security \in {"PLAINTEXT", "SSL", "SASL_PLAINTEXT", "SASL_SSL"}
  /\ Mechanism \subseteq {"PLAIN", "SCRAM", "OAUTHBEARER", "GSSAPI"}
  /\ Mechanism # {}

Tls  == Security \in {"SSL", "SASL_SSL"}
Sasl == Security \in {"SASL_PLAINTEXT", "SASL_SSL"}

VARIABLES
  conn,        \* _conns: the connection to each node
  connecting,  \* _connecting: nodes to which connections are under way
  version,     \* whether the version of the brokers is known
  req,         \* what has become of each request; its future fails or succeeds
  meta,        \* cluster metadata and its refresh
  promise,     \* the future of add_topic, for each topic
  faults       \* failures so far

vars == <<conn, connecting, version, req, meta, promise, faults>>
others == <<version, req, meta, promise>>

\* A connection: its state, the addresses it has yet to try, whether it waits
\* before it reconnects, its quota, whether it has to find out the version and
\* how far it has got, and the requests in flight, of which so many are
\* answered. A silent one gets no answers any more. `sasl` is the mechanism's
\* object and what was `said` last in the exchange; `granted` is what the broker
\* thinks of this connection.
FreshSasl == [mech |-> "none", step |-> 0, done |-> FALSE, ok |-> FALSE,
              said |-> "nothing"]
Probes == 6                          \* ApiVersions v4 and v0, VERSION_CHECKS
NewConn ==
  [st |-> "disconnected", left |-> 0, blocked |-> FALSE, throttled |-> FALSE,
   auto |-> ~version, probe |-> 0, ifr |-> <<>>, answered |-> 0,
   silent |-> FALSE, sasl |-> FreshSasl, granted |-> FALSE]
Absent ==
  [st |-> "absent", left |-> 0, blocked |-> FALSE, throttled |-> FALSE,
   auto |-> FALSE, probe |-> 0, ifr |-> <<>>, answered |-> 0,
   silent |-> FALSE, sasl |-> FreshSasl, granted |-> FALSE]

Init ==
  /\ conn = [n \in Node |-> Absent]
  /\ connecting = {}
  /\ version = FALSE
  /\ req \in [Request -> {[st |-> "new", at |-> n] : n \in Broker}]
  /\ meta = [need |-> TRUE, busy |-> FALSE, arrived |-> FALSE, known |-> {}]
  /\ promise = [t \in Topic |-> "none"]
  /\ faults = 0

SpendFault == faults < MaxFaults /\ faults' = faults + 1
InFlight(n) == ToSet(conn[n].ifr)
Put(n, c)   == conn' = [conn EXCEPT ![n] = c]

-----------------------------------------------------------------------------
(* Connections                                                             *)

\* Faulty variant: the limit is taken for the number that may be exceeded.
CanSendMoreOff(n) == ~conn[n].throttled /\ Len(conn[n].ifr) <= MaxInFlight
CanSendMore(n)    == ~conn[n].throttled /\ Len(conn[n].ifr) < MaxInFlight
CanSend(n)        == conn[n].st = "connected" /\ CanSendMore(n)

Has(n) == n \in Boot \/ n \in meta.known                 \* broker_metadata
BlackedOut(n) == conn[n].st = "disconnected" /\ conn[n].blocked
CanConnect(n) ==
  \/ conn[n].st = "absent" /\ Has(n)
  \/ conn[n].st = "disconnected" /\ ~conn[n].blocked

\* Faulty variant: the object of the mechanism is used again.
ShutKeeping(c) ==
  [c EXCEPT !.st = "disconnected", !.ifr = <<>>, !.answered = 0,
            !.silent = FALSE, !.blocked = @ \/ c.left = 0, !.granted = FALSE,
            !.probe = IF API \in ToSet(c.ifr) THEN @ + 1 ELSE @]
\* close(): every request in flight fails. With an error the connection waits
\* before the next attempt, unless there is an address left to try; a version
\* probe moves on. The next connection authenticates anew.
Shut(c) ==
  [c EXCEPT !.st = "disconnected", !.ifr = <<>>, !.answered = 0,
            !.silent = FALSE, !.blocked = @ \/ c.left = 0,
            !.sasl = FreshSasl, !.granted = FALSE,
            !.probe = IF API \in ToSet(c.ifr) THEN @ + 1 ELSE @]

\* The thread that polls is in an exchange of tokens with another node, and
\* holds the lock.
Blocked(n) == \E m \in Node \ {n} : conn[m].st = "tokens"

\* Faulty variant: the requests are forgotten.
FailedQuietly(ns) == req
Failed(ns) ==
  [r \in Request |->
     IF \E n \in ns : r \in InFlight(n) THEN [req[r] EXCEPT !.st = "settled"]
     ELSE req[r]]

\* Faulty variant: the client takes the refresh for one that goes on.
FailedUpdateBusy(m) == m
\* failed_update, and the client is ready for another refresh.
FailedUpdate(m)     == [m EXCEPT !.busy = FALSE]
PromisesSettled ==
  [t \in Topic |-> IF promise[t] = "waiting" THEN "settled" ELSE promise[t]]

\* What the end of connections does to the rest: the metadata is asked for
\* again if a connection to a broker has failed.
Lost(ns, stale) ==
  LET broken == \E n \in ns : META \in InFlight(n)
      m      == [meta EXCEPT !.need = @ \/ stale]
  IN  /\ req' = Failed(ns)
      /\ meta' = IF broken THEN FailedUpdate(m) ELSE m
      /\ promise' = IF broken THEN PromisesSettled ELSE promise

Close(n) ==
  /\ Put(n, Shut(conn[n])) /\ connecting' = connecting \ {n}
  /\ Lost({n}, n \notin Boot /\ conn[n].left = 0)
  /\ UNCHANGED version

-----------------------------------------------------------------------------
(* connect(), and the states it goes through                               *)

\* ready(), send() and the rest, in any thread.
MaybeConnect(n) ==
  /\ CanConnect(n) /\ n \notin connecting /\ version /\ ~Blocked(n)
  /\ connecting' = connecting \cup {n}
  /\ UNCHANGED <<conn, others, faults>>

\* The next address is tried; the name is looked up when there is none.
Attempt(c) ==
  [c EXCEPT !.st = "connecting", !.left = IF @ = 0 THEN Addresses - 1 ELSE @ - 1]
Current(n) == IF conn[n].st = "absent" THEN NewConn ELSE conn[n]

\* poll() takes up the connections that are asked for, or drops them.
InitConnect(n) ==
  /\ n \in connecting /\ conn[n].st \in {"absent", "disconnected"} /\ ~Blocked(n)
  /\ \/ CanConnect(n) /\ Put(n, Attempt(Current(n))) /\ UNCHANGED connecting
     \/ ~CanConnect(n) /\ connecting' = connecting \ {n} /\ UNCHANGED conn
  /\ UNCHANGED <<others, faults>>

\* The name cannot be looked up.
DnsFails(n) ==
  /\ n \in connecting /\ CanConnect(n) /\ conn[n].left = 0 /\ ~Blocked(n) /\ SpendFault
  /\ Put(n, Shut(Current(n))) /\ connecting' = connecting \ {n}
  /\ meta' = [meta EXCEPT !.need = @ \/ n \notin Boot]
  /\ UNCHANGED <<version, req, promise>>

\* The delay before the next attempt is over, as the thread that polls sees it.
BackoffOver(n) ==
  /\ conn[n].blocked /\ ~Blocked(n) /\ Put(n, [conn[n] EXCEPT !.blocked = FALSE])
  /\ UNCHANGED <<connecting, others, faults>>

\* A connection is ready. The first one to a broker closes those to the
\* bootstrap nodes, with what is in flight there. Of the mechanism it matters only
\* that it is done.
Ready(n, s) ==
  LET gone == IF n \in Boot THEN {} ELSE {b \in Boot : conn[b].st # "absent"}
  IN  /\ conn' = [m \in Node |->
           IF m = n THEN [conn[n] EXCEPT !.st = "connected", !.blocked = FALSE,
                            !.ifr = <<>>, !.answered = 0,
                            !.sasl = [FreshSasl EXCEPT !.done = s.done, !.ok = s.ok]]
           ELSE IF m \in gone THEN Absent ELSE conn[m]]
      /\ connecting' = connecting \ ({n} \cup {b \in gone : conn[b].st # "disconnected"})
      /\ Lost(gone, FALSE)

\* The client's own requests are written at once.
Ask(n, st, what) ==
  /\ Put(n, [conn[n] EXCEPT !.st = st, !.ifr = <<what>>, !.answered = 0])
  /\ UNCHANGED <<connecting, req, meta, promise>>
Proceed(n) == IF Sasl THEN Ask(n, "auth", AUTH) ELSE Ready(n, FreshSasl)

\* A connection that does not know the version asks for it, in one way after
\* the other each time it connects.
AskVersion(n) ==
  IF ~conn[n].auto THEN Proceed(n) /\ UNCHANGED version
  ELSE IF conn[n].probe < Probes THEN Ask(n, "versions", API) /\ UNCHANGED version
  ELSE Close(n)
\* _wrap_ssl: the handshake is begun.
Wrap(n) ==
  /\ Put(n, [conn[n] EXCEPT !.st = "handshake"]) /\ UNCHANGED <<connecting, others>>

\* The TCP connection is there, or the TLS connection above it.
Established(n) ==
  /\ conn[n].st = "connecting" /\ ~conn[n].silent /\ ~Blocked(n)
  /\ IF Tls THEN Wrap(n) ELSE AskVersion(n)
  /\ UNCHANGED faults
Handshaked(n) ==
  /\ conn[n].st = "handshake" /\ ~conn[n].silent /\ ~Blocked(n)
  /\ AskVersion(n) /\ UNCHANGED faults

\* The answer gives the version, or the broker does not know this request.
VersionFound(n) ==
  /\ conn[n].st = "versions" /\ conn[n].answered = 1 /\ ~Blocked(n)
  /\ version' = TRUE /\ Proceed(n) /\ UNCHANGED faults
VersionUnsupported(n) ==
  /\ conn[n].st = "versions" /\ conn[n].answered = 1 /\ conn[n].probe = 0
  /\ ~Blocked(n) /\ SpendFault
  /\ Put(n, [conn[n] EXCEPT !.probe = 1, !.answered = 0])
  /\ UNCHANGED <<connecting, others>>

-----------------------------------------------------------------------------
(* The exchange of tokens                                                  *)

\* receive() of each mechanism.
ReceivePlain(s) == [s EXCEPT !.done = TRUE, !.ok = s.said = "empty"]
ReceiveOAuth(s) == IF s.said = "empty" THEN [s EXCEPT !.done = TRUE, !.ok = TRUE]
                   ELSE [s EXCEPT !.step = 1]            \* an error to acknowledge
ReceiveScram(s) == [s EXCEPT !.step = @ + 1, !.done = s.step = 1, !.ok = s.step = 1]
\* The context is complete, then the level of protection is agreed on.
ReceiveGssapi(s) ==
  IF s.done THEN s ELSE [s EXCEPT !.step = @ + 1, !.ok = s.step = 1]
Receive(s) ==
  CASE s.mech = "PLAIN"       -> ReceivePlain(s)
    [] s.mech = "OAUTHBEARER" -> ReceiveOAuth(s)
    [] s.mech = "SCRAM"       -> ReceiveScram(s)
    [] OTHER                  -> ReceiveGssapi(s)

\* The server's nonce or its signature is not the right one.
Forged(s)  == s.mech = "SCRAM" /\ s.said = "forged"
Refused(s) == s.mech = "GSSAPI" /\ (s.said = "forged" \/ (s.done /\ s.said # "empty"))

\* GSSAPI knows by the token that it is the last one.
AuthBytes(s) == IF s.mech = "GSSAPI" /\ s.ok THEN [s EXCEPT !.done = TRUE] ELSE s

\* What the broker says to the right token, and whether it is content then. To
\* the last one of GSSAPI it says nothing, or nothing of substance.
Reply(s)   == IF s.mech \in {"PLAIN", "OAUTHBEARER"} \/ s.done THEN "empty" ELSE "data"
Content(s) == IF s.mech = "SCRAM" THEN s.step = 1 ELSE s.mech = "GSSAPI" => s.done
\* What it says to a bad token of OAUTHBEARER, or somebody else in its place to any.
Odd(s)     == IF s.mech \in {"SCRAM", "GSSAPI"} THEN "forged" ELSE "data"
\* A token to the broker and its answer: _send_, _recv_sasl_authenticate.
RoundTrip(n, s) ==
  /\ UNCHANGED <<connecting, others>>
  /\ \/ /\ Put(n, [conn[n] EXCEPT !.st = "tokens", !.ifr = <<>>, !.answered = 0,
                     !.sasl = [s EXCEPT !.said = Reply(s)], !.granted = Content(s)])
        /\ UNCHANGED faults
     \/ /\ SpendFault
        /\ Put(n, [conn[n] EXCEPT !.st = "tokens", !.ifr = <<>>, !.answered = 0,
                     !.sasl = [s EXCEPT !.said = Odd(s)]])

\* _sasl_authenticate: once more round the loop, unless the mechanism is done.
\* The broker refuses who has acknowledged an error.
Authenticate(n, s) ==
  IF s.done THEN (IF s.ok THEN Ready(n, s) /\ UNCHANGED version ELSE Close(n)) /\ UNCHANGED faults
  ELSE IF s.mech = "OAUTHBEARER" /\ s.step = 1 THEN Close(n) /\ UNCHANGED faults
  ELSE RoundTrip(n, AuthBytes(s))

\* The broker knows the mechanism.
HandshakeAnswered(n) ==
  /\ conn[n].st = "auth" /\ conn[n].answered = 1 /\ ~Blocked(n)
  /\ \E m \in Mechanism : Authenticate(n, [conn[n].sasl EXCEPT !.mech = m])

\* The answer is taken. Where receive() raises nobody completes the future; the
\* object is of no use any more, and the attempt to connect times out.
TokenAnswered(n) ==
  /\ conn[n].st = "tokens" /\ ~conn[n].silent
  /\ IF Forged(conn[n].sasl) \/ Refused(conn[n].sasl)
     THEN /\ Put(n, [conn[n] EXCEPT !.st = "auth", !.silent = TRUE, !.sasl = FreshSasl])
          /\ UNCHANGED <<connecting, others, faults>>
     ELSE Authenticate(n, Receive(conn[n].sasl))

-----------------------------------------------------------------------------
(* Reading and writing                                                     *)

Open(n) == conn[n].st \notin {"absent", "disconnected"}

\* The socket takes a request, and the broker answers in order.
Answer(n) ==
  /\ Open(n) /\ ~conn[n].silent /\ conn[n].answered < Len(conn[n].ifr)
  /\ Put(n, [conn[n] EXCEPT !.answered = @ + 1])
  /\ UNCHANGED <<connecting, others, faults>>

\* The requests that the answers received belong to: the oldest ones.
Received(n) == SubSeq(conn[n].ifr, 1, conn[n].answered)
\* recv(): the answers that are there are paired with the requests in flight,
\* and wait to be completed. One of them may say that a quota is exceeded.
Read(n) ==
  LET got  == Received(n)
      rest == SubSeq(conn[n].ifr, conn[n].answered + 1, Len(conn[n].ifr))
  IN  /\ conn[n].st = "connected" /\ got # <<>> /\ ~Blocked(n)
      /\ \E over \in BOOLEAN :
           /\ IF over THEN SpendFault ELSE UNCHANGED faults
           /\ Put(n, [conn[n] EXCEPT !.ifr = rest, !.answered = 0, !.throttled = over])
      /\ req' = [r \in Request |-> IF r \in ToSet(got)
                   THEN [req[r] EXCEPT !.st = "pending"] ELSE req[r]]
      /\ meta' = [meta EXCEPT !.arrived = @ \/ META \in ToSet(got)]
      /\ UNCHANGED <<connecting, version, promise>>

QuotaOver(n) ==
  /\ conn[n].throttled /\ Put(n, [conn[n] EXCEPT !.throttled = FALSE])
  /\ UNCHANGED <<connecting, others, faults>>

\* The connection breaks, or what is read makes no sense: bytes nobody has
\* asked for, a wrong correlation id, an answer that cannot be decoded, tokens
\* that are refused.
Breaks(n) == Open(n) /\ ~Blocked(n) /\ SpendFault /\ Close(n)

\* The broker falls silent.
Silent(n) ==
  /\ Open(n) /\ ~conn[n].silent /\ SpendFault
  /\ Put(n, [conn[n] EXCEPT !.silent = TRUE]) /\ UNCHANGED <<connecting, others>>

\* Faulty variant: only attempts to connect time out.
TimeoutAttempt(n) ==
  /\ conn[n].silent /\ ~Blocked(n) /\ conn[n].st # "connected"
  /\ Close(n) /\ UNCHANGED faults
\* The oldest request times out, or the attempt to connect does, or a blocking
\* call in the exchange.
Timeout(n) ==
  /\ conn[n].silent /\ ~Blocked(n) /\ (conn[n].ifr # <<>> \/ conn[n].st # "connected")
  /\ Close(n) /\ UNCHANGED faults

\* A connection on which nothing was received for connections_max_idle_ms is
\* closed, whatever is in flight on it.
CloseIdle(n) ==
  /\ conn[n].st = "connected" /\ ~Blocked(n) /\ SpendFault
  /\ Put(n, Absent) /\ connecting' = connecting \ {n}
  /\ Lost({n}, FALSE) /\ UNCHANGED version

-----------------------------------------------------------------------------
(* Metadata                                                                *)

\* Faulty variant: only nodes that are connected are thought of.
LeastLoadedReady ==
  LET nodes == IF meta.known = {} THEN Boot ELSE meta.known
  IN  {n \in nodes : CanSend(n) /\ conn[n].ifr = <<>>}
\* least_loaded_node: one that is ready and has nothing to do, or one with the
\* fewest requests that is not held up.
LeastLoaded ==
  LET nodes == IF meta.known = {} THEN Boot ELSE meta.known
      idle  == {n \in nodes : CanSend(n) /\ conn[n].ifr = <<>>}
      can   == {n \in nodes : ~BlackedOut(n) /\ ~(conn[n].st = "connected" /\ conn[n].throttled)}
  IN  IF idle # {} THEN idle
      ELSE {n \in can : \A m \in can : Len(conn[n].ifr) <= Len(conn[m].ifr)}

Due == meta.need /\ ~meta.busy
SendRefresh(n) ==
  /\ Due /\ n \in LeastLoaded /\ CanSend(n) /\ version /\ ~Blocked(n)
  /\ Put(n, [conn[n] EXCEPT !.ifr = Append(@, META)])
  /\ meta' = [meta EXCEPT !.busy = TRUE]
  /\ UNCHANGED <<connecting, version, req, promise, faults>>

\* check_version, as the client starts: it connects to one node after the other
\* until one tells the version.
CheckVersion(n) ==
  /\ ~version /\ n \in LeastLoaded /\ connecting = {} /\ CanConnect(n)
  /\ Put(n, Attempt(Current(n))) /\ connecting' = {n}
  /\ UNCHANGED <<others, faults>>

\* Any connection that is under way is waited for first.
ConnectForRefresh(n) ==
  /\ Due /\ version /\ n \in LeastLoaded /\ ~CanSend(n) /\ connecting = {} /\ CanConnect(n)
  /\ Put(n, Attempt(Current(n))) /\ connecting' = {n}
  /\ UNCHANGED <<others, faults>>

\* metadata_max_age_ms has passed, which poll() looks at.
Aged ==
  /\ ~meta.need /\ (\A n \in Node : conn[n].st # "tokens")
  /\ meta' = [meta EXCEPT !.need = TRUE]
  /\ UNCHANGED <<conn, connecting, version, req, promise, faults>>

\* add_topic, or set_topics with a new one, in any thread.
AddTopic(t) ==
  /\ version /\ promise[t] = "none"
  /\ meta' = [meta EXCEPT !.need = TRUE]
  /\ promise' = [promise EXCEPT ![t] = "waiting"]
  /\ UNCHANGED <<conn, connecting, version, req, faults>>

\* update_metadata. An answer without brokers counts as failed.
UpdateMetadata ==
  /\ meta.arrived
  /\ \/ /\ \E brokers \in SUBSET Broker \ {{}} :
             meta' = [meta EXCEPT !.need = FALSE, !.busy = FALSE, !.arrived = FALSE,
                        !.known = brokers]
        /\ promise' = PromisesSettled /\ UNCHANGED faults
     \/ /\ SpendFault
        /\ meta' = FailedUpdate([meta EXCEPT !.arrived = FALSE])
        /\ promise' = PromisesSettled
  /\ UNCHANGED <<conn, connecting, version, req>>

-----------------------------------------------------------------------------
(* Requests of the client's users                                          *)

Checked == {r \in Request : req[r].st = "checked"}
Check(r, n) ==
  /\ req[r].st = "new" /\ CanSend(n) /\ Cardinality(Checked) < Senders
  /\ req' = [req EXCEPT ![r] = [st |-> "checked", at |-> n]]
  /\ UNCHANGED <<conn, connecting, version, meta, promise, faults>>
Queue(r) ==
  LET n == req[r].at
  IN  /\ req[r].st = "checked"
      /\ IF conn[n].st = "connected"
         THEN /\ Put(n, [conn[n] EXCEPT !.ifr = Append(@, r)])
              /\ req' = [req EXCEPT ![r].st = "queued"]
         ELSE req' = [req EXCEPT ![r].st = "settled"] /\ UNCHANGED conn
      /\ UNCHANGED <<connecting, version, meta, promise, faults>>

\* _fire_pending_completed_requests, in any thread and without the lock.
Fire(r) ==
  /\ req[r].st = "pending" /\ req' = [req EXCEPT ![r].st = "settled"]
  /\ UNCHANGED <<conn, connecting, version, meta, promise, faults>>

-----------------------------------------------------------------------------
Connect(n) ==
  \/ MaybeConnect(n) \/ InitConnect(n) \/ DnsFails(n) \/ BackoffOver(n)
  \/ Established(n) \/ Handshaked(n) \/ VersionFound(n) \/ VersionUnsupported(n)
  \/ HandshakeAnswered(n) \/ TokenAnswered(n)
Use(n) ==
  \/ Answer(n) \/ Read(n) \/ QuotaOver(n) \/ Timeout(n)
  \/ Breaks(n) \/ Silent(n) \/ CloseIdle(n)
Refresh ==
  \/ \E n \in Node : CheckVersion(n) \/ SendRefresh(n) \/ ConnectForRefresh(n)
  \/ Aged \/ UpdateMetadata
Serve(r) == (\E n \in Node : Check(r, n)) \/ Queue(r) \/ Fire(r)

Next ==
  \/ \E n \in Node : Connect(n) \/ Use(n)
  \/ Refresh
  \/ \E t \in Topic : AddTopic(t)
  \/ \E r \in Request : Serve(r)

Spec == Init /\ [][Next]_vars

\* Somebody polls, brokers that are not silent answer, time passes and threads
\* run. Nothing says that a request is ever sent.
FairSpec ==
  /\ Spec
  /\ \A n \in Node :
       /\ WF_vars(InitConnect(n)) /\ WF_vars(Established(n) \/ Handshaked(n))
       /\ WF_vars(HandshakeAnswered(n)) /\ WF_vars(TokenAnswered(n))
       /\ WF_vars(VersionFound(n)) /\ WF_vars(Answer(n))
       /\ WF_vars(Read(n)) /\ WF_vars(Timeout(n)) /\ WF_vars(BackoffOver(n))
       /\ WF_vars(QuotaOver(n))
  /\ \A r \in Request : WF_vars(Queue(r) \/ Fire(r))
  /\ WF_vars(UpdateMetadata)
  /\ WF_vars(\E n \in Node : SendRefresh(n))
  /\ WF_vars(\E n \in Node : CheckVersion(n) \/ ConnectForRefresh(n))

-----------------------------------------------------------------------------
(* Properties                                                              *)

\* Types; no more answers than requests; and max_in_flight_requests_per_connection
\* is passed by at most one request for each thread that sends: can_send_more is
\* asked without the lock that send takes (a comment there calls it a very small
\* race).
TypeOK ==
  /\ \A n \in Node :
       /\ conn[n].st \in {"absent", "disconnected", "connecting", "handshake",
                          "versions", "auth", "tokens", "connected"}
       /\ conn[n].sasl.step \in 0 .. 2
       /\ conn[n].left \in 0 .. Addresses - 1 /\ conn[n].probe \in 0 .. Probes
       /\ conn[n].answered <= Len(conn[n].ifr) /\ Len(conn[n].ifr) <= MaxInFlight + Senders
  /\ connecting \subseteq Node
  /\ \A r \in Request :
       req[r] \in [st : {"new", "checked", "queued", "pending", "settled"},
                   at : Node]
  /\ faults \in 0 .. MaxFaults

Times(r, n) == Cardinality({i \in 1 .. Len(conn[n].ifr) : conn[n].ifr[i] = r})

\* A request whose future is open is in flight on the connection it was sent
\* on, once, and no other request is: neither a connection that closes or is
\* dropped (close, _close_bootstrap, the idle close) nor the pairing of answers
\* leaves a future that nobody will complete, or completes one twice.
EveryRequestTracked ==
  \A r \in Request : \A n \in Node :
    Times(r, n) = IF req[r].st = "queued" /\ req[r].at = n THEN 1 ELSE 0

\* _metadata_refresh_in_progress says exactly whether a metadata request is
\* in flight or its answer waits to be applied: a flag that stays up after its
\* connection was closed would end all refreshes.
RefreshUnderWay ==
  meta.busy <=> meta.arrived \/ \E n \in Node : META \in InFlight(n)

\* A connection takes requests only after the broker has accepted it, this one
\* and not one before it to the same node; a mechanism that proves the broker is
\* not content with somebody else (connect: "initiating SASL authentication").
ConnectedIsGranted ==
  Sasl => \A n \in Node : conn[n].st = "connected" => conn[n].granted

\* The future of a request that has been accepted is completed, whatever
\* happens to its connection.
RequestsSettle ==
  \A r \in Request :
    req[r].st \in {"checked", "queued", "pending"} ~> req[r].st = "settled"

\* Metadata that is asked for arrives, once nothing fails any more: through
\* backoffs, version probes, authentication and the change from the bootstrap
\* nodes to the brokers. The futures of add_topic are completed with it.
MetadataArrives ==
  /\ meta.need ~> ~meta.need
  /\ \A t \in Topic : promise[t] = "waiting" ~> promise[t] # "waiting"
=============================================================================
