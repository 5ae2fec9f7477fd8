------------------------ MODULE NetworkClientProofs ------------------------
(***************************************************************************)
(* For every set of nodes and requests, every limit, every mechanism and    *)
(* any number of failures: a request has one place, a refresh is noticed    *)
(* when it ends, no connection is used that was not accepted, and limits    *)
(* are kept, or passed as far as the comment in the code expects.           *)
(***************************************************************************)
EXTENDS NetworkClient, SequenceTheorems, FiniteSetTheorems, TLAPS

Item == Request \cup {META, API, AUTH}
SaslType ==
  [mech : {"none", "PLAIN", "SCRAM", "OAUTHBEARER", "GSSAPI"}, step : Nat,
   done : BOOLEAN, ok : BOOLEAN, said : {"nothing", "empty", "data", "forged"}]
ConnType ==
  [st : {"absent", "disconnected", "connecting", "handshake", "versions", "auth",
         "tokens", "connected"},
   left : Nat, blocked : BOOLEAN, throttled : BOOLEAN, auto : BOOLEAN,
   probe : Nat, ifr : Seq(Item), answered : Nat, silent : BOOLEAN,
   sasl : SaslType, granted : BOOLEAN]

\* Only the client's own requests, before the connection is ready.
Clear(s) == \A i \in 1 .. Len(s) : s[i] \in {API, AUTH}

\* How far the exchange of tokens has got, and what the broker thinks then.
Exchange(c) ==
  /\ c.st = "connected" => c.granted
  /\ c.st = "tokens" =>
       /\ c.sasl.mech \in {"PLAIN", "OAUTHBEARER"} /\ c.sasl.said = "empty" => c.granted
       /\ c.sasl.mech = "SCRAM" /\ c.sasl.step = 1 /\ c.sasl.said # "forged" => c.granted
       /\ c.sasl.mech = "GSSAPI" /\ c.sasl.done /\ c.sasl.said = "empty" => c.granted
       /\ c.sasl.done => c.sasl.mech = "GSSAPI"
  /\ c.st \notin {"tokens", "connected"} => ~c.sasl.done

\* What holds of each connection by itself.
Sound(c) ==
  /\ c \in ConnType
  /\ c.answered <= Len(c.ifr)
  /\ c.st # "connected" => Clear(c.ifr)
  /\ Sasl => Exchange(c)

TypeInv ==
  /\ DOMAIN conn = Node /\ conn = [n \in Node |-> conn[n]]
  /\ \A n \in Node : Sound(conn[n])
  /\ version \in BOOLEAN
  /\ req \in [Request -> [st : {"new", "checked", "queued", "pending", "settled"}, at : Node]]
  /\ meta \in [need : BOOLEAN, busy : BOOLEAN, arrived : BOOLEAN, known : SUBSET Broker]

At(x, n) == \E i \in 1 .. Len(conn[n].ifr) : conn[n].ifr[i] = x

\* Each request is at the one place that its state tells.
Placed ==
  /\ \A r \in Request : \A n \in Node : At(r, n) <=> req[r].st = "queued" /\ req[r].at = n
  /\ \A n \in Node : \A i, j \in 1 .. Len(conn[n].ifr) :
       conn[n].ifr[i] = conn[n].ifr[j] /\ conn[n].ifr[i] \in Request => i = j

\* There is one refresh at most, and it is in flight or has arrived.
OneRefresh ==
  /\ meta.busy <=> meta.arrived \/ \E n \in Node : At(META, n)
  /\ meta.arrived => \A n \in Node : ~At(META, n)
  /\ \A m, n \in Node : At(META, m) /\ At(META, n) => m = n
  /\ \A n \in Node : \A i, j \in 1 .. Len(conn[n].ifr) :
       conn[n].ifr[i] = META /\ conn[n].ifr[j] = META => i = j

IInv == TypeInv /\ Placed /\ OneRefresh

----------------------------------------------------------------------------
\* What InFlight says of a sequence.
LEMMA InFlightAt ==
  ASSUME TypeInv, NEW n \in Node, NEW x
  PROVE  x \in InFlight(n) <=> At(x, n)
<1>1. conn[n].ifr \in Seq(Item) BY DEF TypeInv, Sound, ConnType
<1> QED BY <1>1 DEF InFlight, ToSet, At

\* A connection that is closed, dropped or begun is sound.
LEMMA ShutSound ==
  ASSUME NEW c, Sound(c)
  PROVE  Sound(Shut(c)) /\ Shut(c).ifr = <<>>
<1>1. c \in ConnType BY DEF Sound
<1>2. FreshSasl \in SaslType BY DEF FreshSasl, SaslType
<1>3. <<>> \in Seq(Item) /\ Len(<<>>) = 0 OBVIOUS
<1>4. Shut(c) \in ConnType
  <2> DEFINE held  == c.blocked \/ c.left = 0
             probe == IF API \in ToSet(c.ifr) THEN c.probe + 1 ELSE c.probe
             empty == <<>>
  <2>1. held \in BOOLEAN /\ probe \in Nat /\ empty \in Seq(Item) BY <1>1, <1>3 DEF ConnType
  <2>2. Shut(c) = [c EXCEPT !.st = "disconnected", !.ifr = empty, !.answered = 0,
                     !.silent = FALSE, !.blocked = held, !.sasl = FreshSasl,
                     !.granted = FALSE, !.probe = probe]
    BY DEF Shut
  <2> HIDE DEF held, probe, empty
  <2>3. Shut(c) = [st |-> "disconnected", left |-> c.left, blocked |-> held,
                   throttled |-> c.throttled, auto |-> c.auto, probe |-> probe,
                   ifr |-> empty, answered |-> 0, silent |-> FALSE,
                   sasl |-> FreshSasl, granted |-> FALSE]
    BY <1>1, <2>2 DEF ConnType
  <2>4. /\ c.left \in Nat /\ c.throttled \in BOOLEAN /\ c.auto \in BOOLEAN BY <1>1 DEF ConnType
  <2> QED BY <1>2, <2>1, <2>3, <2>4 DEF ConnType
<1>5. /\ Shut(c).ifr = <<>> /\ Shut(c).answered = 0 /\ Shut(c).st = "disconnected"
      /\ Shut(c).sasl.done = FALSE
  BY <1>1 DEF Shut, ConnType, FreshSasl
<1> QED BY <1>3, <1>4, <1>5 DEF Sound, Clear, Exchange

LEMMA AbsentSound == Sound(Absent) /\ Absent.ifr = <<>>
<1>1. FreshSasl \in SaslType BY DEF FreshSasl, SaslType
<1>2. <<>> \in Seq(Item) /\ Len(<<>>) = 0 OBVIOUS
<1>3. Absent \in ConnType BY <1>1, <1>2 DEF Absent, ConnType
<1> QED BY <1>2, <1>3 DEF Absent, Sound, Clear, Exchange, FreshSasl

LEMMA CurrentSound ==
  ASSUME TypeInv, NEW n \in Node
  PROVE  Sound(Current(n)) /\ (Current(n).ifr = conn[n].ifr \/ Current(n).ifr = <<>>)
<1>1. CASE conn[n].st = "absent"
  <2>1. FreshSasl \in SaslType BY DEF FreshSasl, SaslType
  <2>2. <<>> \in Seq(Item) /\ Len(<<>>) = 0 OBVIOUS
  <2>3. NewConn \in ConnType BY <2>1, <2>2 DEF NewConn, ConnType, TypeInv
  <2> QED BY <1>1, <2>2, <2>3 DEF Current, NewConn, Sound, Clear, Exchange, FreshSasl
<1>2. CASE conn[n].st # "absent" BY <1>2 DEF Current, TypeInv
<1> QED BY <1>1, <1>2

LEMMA AttemptSound ==
  ASSUME NEW c, Sound(c), c.st \in {"absent", "disconnected"}
  PROVE  Sound(Attempt(c)) /\ Attempt(c).ifr = c.ifr
<1>1. c \in ConnType BY DEF Sound
<1>2. Addresses - 1 \in Nat BY BoundAssumption
<1>3. Attempt(c) \in ConnType
  <2> DEFINE left == IF c.left = 0 THEN Addresses - 1 ELSE c.left - 1
  <2>1. left \in Nat BY <1>1, <1>2 DEF ConnType
  <2>2. Attempt(c) = [c EXCEPT !.st = "connecting", !.left = left] BY DEF Attempt
  <2> HIDE DEF left
  <2> QED BY <1>1, <2>1, <2>2 DEF ConnType
<1>4. /\ Attempt(c).ifr = c.ifr /\ Attempt(c).answered = c.answered
      /\ Attempt(c).st = "connecting" /\ Attempt(c).sasl = c.sasl
  BY <1>1 DEF Attempt, ConnType
<1> QED BY <1>3, <1>4 DEF Sound, Exchange

----------------------------------------------------------------------------
\* The requests of a connection stay, or there were none and are none but the
\* client's own.
Same(c, d) == d.ifr = c.ifr \/ (Clear(c.ifr) /\ Clear(d.ifr))

LEMMA ClearAt ==
  ASSUME TypeInv, NEW n \in Node, Clear(conn[n].ifr)
  PROVE  ~At(META, n) /\ \A r \in Request : ~At(r, n)
BY NodeAssumption DEF Clear, At, META, API, AUTH

LEMMA SameAt ==
  ASSUME TypeInv, TypeInv', NEW n \in Node, Same(conn[n], conn'[n])
  PROVE  \A x \in Request \cup {META} : At(x, n)' <=> At(x, n)
BY NodeAssumption DEF Same, Clear, At, META, API, AUTH

LEMMA SameOnce ==
  ASSUME TypeInv, TypeInv', NEW n \in Node, Same(conn[n], conn'[n]),
         NEW S \in SUBSET (Request \cup {META}),
         \A i, j \in 1 .. Len(conn[n].ifr) :
           conn[n].ifr[i] = conn[n].ifr[j] /\ conn[n].ifr[i] \in S => i = j
  PROVE  \A i, j \in 1 .. Len(conn'[n].ifr) :
           conn'[n].ifr[i] = conn'[n].ifr[j] /\ conn'[n].ifr[i] \in S => i = j
BY NodeAssumption DEF Same, Clear, META, API, AUTH

\* A step that leaves the requests alone.
LEMMA QuietKeeps ==
  ASSUME IInv, TypeInv', \A n \in Node : Same(conn[n], conn'[n]),
         req' = req, meta'.busy = meta.busy, meta'.arrived = meta.arrived
  PROVE  IInv'
<1>1. \A n \in Node : \A x \in Request \cup {META} : At(x, n)' <=> At(x, n)
  BY SameAt DEF IInv
<1>2. Placed'
  <2>1. \A n \in Node : \A i, j \in 1 .. Len(conn'[n].ifr) :
          conn'[n].ifr[i] = conn'[n].ifr[j] /\ conn'[n].ifr[i] \in Request => i = j
    <3> TAKE n \in Node
    <3>1. \A i, j \in 1 .. Len(conn[n].ifr) :
            conn[n].ifr[i] = conn[n].ifr[j] /\ conn[n].ifr[i] \in Request => i = j
      BY DEF IInv, Placed
    <3> QED BY <3>1, SameOnce, Request \in SUBSET (Request \cup {META}) DEF IInv
  <2>2. \A r \in Request : \A n \in Node : At(r, n)' <=> (req[r].st = "queued" /\ req[r].at = n)
    BY <1>1 DEF IInv, Placed
  <2> QED BY <2>1, <2>2 DEF Placed
<1>3. OneRefresh'
  <2>1. \A n \in Node : \A i, j \in 1 .. Len(conn'[n].ifr) :
          conn'[n].ifr[i] = META /\ conn'[n].ifr[j] = META => i = j
    <3> TAKE n \in Node
    <3>1. \A i, j \in 1 .. Len(conn[n].ifr) :
            conn[n].ifr[i] = conn[n].ifr[j] /\ conn[n].ifr[i] \in {META} => i = j
      BY DEF IInv, OneRefresh
    <3>2. {META} \in SUBSET (Request \cup {META}) OBVIOUS
    <3>3. \A i, j \in 1 .. Len(conn'[n].ifr) :
            conn'[n].ifr[i] = conn'[n].ifr[j] /\ conn'[n].ifr[i] \in {META} => i = j
      BY <3>1, <3>2, SameOnce DEF IInv
    <3> QED BY <3>3
  <2> QED BY <1>1, <2>1 DEF IInv, OneRefresh
<1> QED BY <1>2, <1>3 DEF IInv

\* One connection changes, and with it nothing else.
LEMMA PutKeeps ==
  ASSUME IInv, NEW n \in Node, NEW c, Sound(c), Put(n, c), Same(conn[n], c),
         version' \in BOOLEAN, req' = req, meta' = meta
  PROVE  IInv'
<1>1. /\ conn' = [m \in Node |-> conn'[m]] /\ DOMAIN conn' = Node
      /\ \A m \in Node : conn'[m] = IF m = n THEN c ELSE conn[m]
  BY DEF IInv, TypeInv, Put
<1>2. TypeInv' BY <1>1 DEF IInv, TypeInv
<1>3. \A m \in Node : Same(conn[m], conn'[m]) BY <1>1 DEF Same
<1> QED BY <1>2, <1>3, QuietKeeps

\* Connections end, with the requests in flight there.
LEMMA LostKeeps ==
  ASSUME IInv, NEW ns \in SUBSET Node, NEW stale \in BOOLEAN, Lost(ns, stale),
         conn' = [m \in Node |-> conn'[m]], DOMAIN conn' = Node,
         \A m \in Node : Sound(conn'[m]), version' \in BOOLEAN,
         \A m \in ns : conn'[m].ifr = <<>>,
         \A m \in Node \ ns : Same(conn[m], conn'[m])
  PROVE  IInv'
<1> DEFINE broken == \E n \in ns : At(META, n)
<1>1. /\ req' = [r \in Request |-> IF \E n \in ns : At(r, n)
                   THEN [req[r] EXCEPT !.st = "settled"] ELSE req[r]]
      /\ meta'.arrived = meta.arrived
      /\ meta'.busy = IF broken THEN FALSE ELSE meta.busy
      /\ meta' \in [need : BOOLEAN, busy : BOOLEAN, arrived : BOOLEAN, known : SUBSET Broker]
  <2>1. \A n \in ns : \A x : x \in InFlight(n) <=> At(x, n) BY InFlightAt DEF IInv
  <2>2. (\E n \in ns : META \in InFlight(n)) <=> broken BY <2>1
  <2>3. Failed(ns) = [r \in Request |-> IF \E n \in ns : At(r, n)
                        THEN [req[r] EXCEPT !.st = "settled"] ELSE req[r]]
    BY <2>1 DEF Failed
  <2>4. meta \in [need : BOOLEAN, busy : BOOLEAN, arrived : BOOLEAN, known : SUBSET Broker]
    BY DEF IInv, TypeInv
  <2> DEFINE need == meta.need \/ stale
  <2>5. need \in BOOLEAN BY <2>4
  <2>6. meta' = IF broken THEN [[meta EXCEPT !.need = need] EXCEPT !.busy = FALSE]
                ELSE [meta EXCEPT !.need = need]
    BY <2>2 DEF Lost, FailedUpdate
  <2> HIDE DEF need, broken
  <2>7. /\ meta'.arrived = meta.arrived /\ meta'.busy = IF broken THEN FALSE ELSE meta.busy
        /\ meta' \in [need : BOOLEAN, busy : BOOLEAN, arrived : BOOLEAN, known : SUBSET Broker]
    BY <2>4, <2>5, <2>6
  <2> QED BY <2>3, <2>7 DEF Lost
<1>2. req' \in [Request -> [st : {"new", "checked", "queued", "pending", "settled"}, at : Node]]
  BY <1>1 DEF IInv, TypeInv
<1>3. TypeInv' BY <1>1, <1>2 DEF TypeInv
<1>4. \A m \in ns : \A x : ~At(x, m)' BY DEF At
<1>5. \A m \in Node \ ns : \A x \in Request \cup {META} : At(x, m)' <=> At(x, m)
  BY <1>3, SameAt DEF IInv
<1>6. Placed'
  <2>1. ASSUME NEW r \in Request, NEW m \in Node
        PROVE  At(r, m)' <=> (req'[r].st = "queued" /\ req'[r].at = m)
    <3>1. \A k \in Node : At(r, k) <=> (req[r].st = "queued" /\ req[r].at = k)
      BY DEF IInv, Placed
    <3>2. req[r] \in [st : {"new", "checked", "queued", "pending", "settled"}, at : Node]
      BY DEF IInv, TypeInv
    <3>3. req'[r] = IF \E k \in ns : At(r, k) THEN [req[r] EXCEPT !.st = "settled"] ELSE req[r]
      BY <1>1
    <3>4. (\E k \in ns : At(r, k)) <=> (req[r].st = "queued" /\ req[r].at \in ns)
      BY <3>1, <3>2
    <3>5. CASE m \in ns
      <4>1. ~(req'[r].st = "queued" /\ req'[r].at = m) BY <3>2, <3>3, <3>4, <3>5
      <4> QED BY <1>4, <3>5, <4>1
    <3>6. CASE m \notin ns
      <4>1. At(r, m)' <=> (req[r].st = "queued" /\ req[r].at = m) BY <1>5, <3>1, <3>6
      <4>2. (req'[r].st = "queued" /\ req'[r].at = m) <=> (req[r].st = "queued" /\ req[r].at = m)
        BY <3>2, <3>3, <3>4, <3>6
      <4> QED BY <4>1, <4>2
    <3> QED BY <3>5, <3>6
  <2>2. ASSUME NEW m \in Node
        PROVE  \A i, j \in 1 .. Len(conn'[m].ifr) :
                 conn'[m].ifr[i] = conn'[m].ifr[j] /\ conn'[m].ifr[i] \in Request => i = j
    <3>1. CASE m \in ns BY <3>1
    <3>2. CASE m \notin ns
      <4>1. \A i, j \in 1 .. Len(conn[m].ifr) :
              conn[m].ifr[i] = conn[m].ifr[j] /\ conn[m].ifr[i] \in Request => i = j
        BY DEF IInv, Placed
      <4> QED BY <1>3, <3>2, <4>1, SameOnce, Request \in SUBSET (Request \cup {META}) DEF IInv
    <3> QED BY <3>1, <3>2
  <2> QED BY <2>1, <2>2 DEF Placed
<1>7. OneRefresh'
  <2>1. ASSUME NEW m \in Node
        PROVE  \A i, j \in 1 .. Len(conn'[m].ifr) :
                 conn'[m].ifr[i] = META /\ conn'[m].ifr[j] = META => i = j
    <3>1. CASE m \in ns BY <3>1
    <3>2. CASE m \notin ns
      <4>1. \A i, j \in 1 .. Len(conn[m].ifr) :
              conn[m].ifr[i] = conn[m].ifr[j] /\ conn[m].ifr[i] \in {META} => i = j
        BY DEF IInv, OneRefresh
      <4>2. {META} \in SUBSET (Request \cup {META}) OBVIOUS
      <4>3. \A i, j \in 1 .. Len(conn'[m].ifr) :
              conn'[m].ifr[i] = conn'[m].ifr[j] /\ conn'[m].ifr[i] \in {META} => i = j
        BY <1>3, <3>2, <4>1, <4>2, SameOnce DEF IInv
      <4> QED BY <4>3
    <3> QED BY <3>1, <3>2
  <2>2. \A m \in Node : At(META, m)' <=> (m \notin ns /\ At(META, m)) BY <1>4, <1>5
  <2>3. OneRefresh BY DEF IInv
  <2>4. meta'.busy <=> (meta'.arrived \/ \E n \in Node : At(META, n)')
    BY <1>1, <2>2, <2>3 DEF OneRefresh
  <2>5. /\ meta'.arrived => \A n \in Node : ~At(META, n)'
        /\ \A m, n \in Node : At(META, m)' /\ At(META, n)' => m = n
    BY <1>1, <2>2, <2>3 DEF OneRefresh
  <2> QED BY <2>1, <2>4, <2>5 DEF OneRefresh
<1> QED BY <1>3, <1>6, <1>7 DEF IInv

----------------------------------------------------------------------------
(* The parts that several actions are made of.                             *)

LEMMA CloseKeeps ==
  ASSUME IInv, NEW n \in Node, Close(n)
  PROVE  IInv'
<1>1. Sound(conn[n]) BY DEF IInv, TypeInv
<1>2. Sound(Shut(conn[n])) /\ Shut(conn[n]).ifr = <<>> BY <1>1, ShutSound
<1>3. /\ conn' = [m \in Node |-> conn'[m]] /\ DOMAIN conn' = Node
      /\ \A m \in Node : conn'[m] = IF m = n THEN Shut(conn[n]) ELSE conn[m]
  BY DEF IInv, TypeInv, Close, Put
<1>4. \A m \in Node : Sound(conn'[m]) BY <1>2, <1>3 DEF IInv, TypeInv
<1>5. \A m \in Node \ {n} : Same(conn[m], conn'[m]) BY <1>3 DEF Same
<1>6. version' \in BOOLEAN BY DEF IInv, TypeInv, Close
<1> DEFINE stale == n \notin Boot /\ conn[n].left = 0
<1>7. Lost({n}, stale) /\ stale \in BOOLEAN BY DEF Close
<1>8. conn'[n].ifr = <<>> BY <1>2, <1>3
<1> HIDE DEF stale
<1> QED BY <1>3, <1>4, <1>5, <1>6, <1>7, <1>8, LostKeeps

LEMMA ReadyKeeps ==
  ASSUME IInv, NEW n \in Node, NEW s \in SaslType, Ready(n, s), version' \in BOOLEAN,
         conn[n].st # "connected", Sasl => conn[n].granted
  PROVE  IInv'
<1> DEFINE gone == IF n \in Boot THEN {} ELSE {b \in Boot : conn[b].st # "absent"}
           sasl == [FreshSasl EXCEPT !.done = s.done, !.ok = s.ok]
           c    == [conn[n] EXCEPT !.st = "connected", !.blocked = FALSE,
                      !.ifr = <<>>, !.answered = 0, !.sasl = sasl]
<1>1. gone \in SUBSET Node /\ n \notin gone BY DEF Node
<1>2. /\ conn' = [m \in Node |-> IF m = n THEN c ELSE IF m \in gone THEN Absent ELSE conn[m]]
      /\ Lost(gone, FALSE)
  BY DEF Ready
<1>3. sasl \in SaslType BY DEF FreshSasl, SaslType
<1>4. Sound(conn[n]) BY DEF IInv, TypeInv
<1>5. <<>> \in Seq(Item) /\ Len(<<>>) = 0 OBVIOUS
<1>6. Sound(c) /\ c.ifr = <<>>
  <2> HIDE DEF sasl
  <2>1. conn[n] \in ConnType BY <1>4 DEF Sound
  <2>2. c \in ConnType BY <1>3, <1>5, <2>1 DEF ConnType
  <2>3. /\ c.st = "connected" /\ c.granted = conn[n].granted /\ c.ifr = <<>> /\ c.answered = 0
    BY <2>1 DEF ConnType
  <2> QED BY <1>5, <2>2, <2>3 DEF Sound, Exchange
<1>7. Clear(conn[n].ifr) /\ Clear(<<>>) BY <1>4, <1>5 DEF Sound, Clear
<1> HIDE DEF gone, c
<1>8. \A m \in Node : Sound(conn'[m]) BY <1>2, <1>6, AbsentSound DEF IInv, TypeInv
<1>9. \A m \in gone : conn'[m].ifr = <<>> BY <1>1, <1>2, AbsentSound
<1>10. \A m \in Node \ gone : Same(conn[m], conn'[m]) BY <1>2, <1>6, <1>7 DEF Same
<1>11. conn' = [m \in Node |-> conn'[m]] /\ DOMAIN conn' = Node BY <1>2
<1> QED BY <1>1, <1>2, <1>8, <1>9, <1>10, <1>11, LostKeeps

LEMMA AskKeeps ==
  ASSUME IInv, NEW n \in Node, NEW st \in {"versions", "auth"}, NEW what \in {API, AUTH},
         Ask(n, st, what), version' \in BOOLEAN,
         conn[n].st \in {"connecting", "handshake", "versions"}
  PROVE  IInv'
<1> DEFINE c == [conn[n] EXCEPT !.st = st, !.ifr = <<what>>, !.answered = 0]
<1>1. Sound(conn[n]) BY DEF IInv, TypeInv
<1>2. <<what>> \in Seq(Item) /\ Len(<<what>>) = 1 /\ <<what>>[1] = what BY DEF Item
<1>3. Clear(<<what>>) BY <1>2 DEF Clear
<1>4. Sound(c) /\ c.ifr = <<what>>
  <2>1. conn[n] \in ConnType BY <1>1 DEF Sound
  <2>2. c \in ConnType BY <1>2, <2>1 DEF ConnType
  <2>3. c.st = st /\ c.ifr = <<what>> /\ c.answered = 0 /\ c.sasl = conn[n].sasl
    BY <2>1 DEF ConnType
  <2>4. Sasl => ~conn[n].sasl.done BY <1>1 DEF Sound, Exchange
  <2> QED BY <1>2, <1>3, <2>2, <2>3, <2>4 DEF Sound, Exchange
<1>5. Clear(conn[n].ifr) BY <1>1 DEF Sound
<1>6. Put(n, c) /\ req' = req /\ meta' = meta BY DEF Ask
<1>7. Same(conn[n], c) BY <1>3, <1>4, <1>5 DEF Same
<1> HIDE DEF c
<1> QED BY <1>4, <1>6, <1>7, PutKeeps

LEMMA ProceedKeeps ==
  ASSUME IInv, NEW n \in Node, Proceed(n), version' \in BOOLEAN,
         conn[n].st \in {"connecting", "handshake", "versions"}
  PROVE  IInv'
<1>1. CASE Sasl BY <1>1, AskKeeps DEF Proceed
<1>2. CASE ~Sasl
  <2>1. FreshSasl \in SaslType BY DEF FreshSasl, SaslType
  <2> QED BY <1>2, <2>1, ReadyKeeps DEF Proceed
<1> QED BY <1>1, <1>2

LEMMA AskVersionKeeps ==
  ASSUME IInv, NEW n \in Node, AskVersion(n),
         conn[n].st \in {"connecting", "handshake"}
  PROVE  IInv'
<1>1. version \in BOOLEAN BY DEF IInv, TypeInv
<1>2. CASE Proceed(n) /\ UNCHANGED version BY <1>1, <1>2, ProceedKeeps
<1>3. CASE Ask(n, "versions", API) /\ UNCHANGED version BY <1>1, <1>3, AskKeeps
<1>4. CASE Close(n) BY <1>4, CloseKeeps
<1> QED BY <1>2, <1>3, <1>4 DEF AskVersion

LEMMA ReceiveType ==
  ASSUME NEW s \in SaslType
  PROVE  Receive(s) \in SaslType
<1>1. ReceivePlain(s) \in SaslType
  <2> DEFINE ok == s.said = "empty"
  <2>1. ok \in BOOLEAN /\ ReceivePlain(s) = [s EXCEPT !.done = TRUE, !.ok = ok]
    BY DEF ReceivePlain
  <2> HIDE DEF ok
  <2> QED BY <2>1 DEF SaslType
<1>2. ReceiveOAuth(s) \in SaslType BY DEF ReceiveOAuth, SaslType
<1>3. ReceiveScram(s) \in SaslType
  <2> DEFINE last == s.step = 1
             step == s.step + 1
  <2>1. last \in BOOLEAN /\ step \in Nat BY DEF SaslType
  <2>2. ReceiveScram(s) = [s EXCEPT !.step = step, !.done = last, !.ok = last] BY DEF ReceiveScram
  <2> HIDE DEF last, step
  <2> QED BY <2>1, <2>2 DEF SaslType
<1>4. ReceiveGssapi(s) \in SaslType
  <2> DEFINE last == s.step = 1
             step == s.step + 1
  <2>1. last \in BOOLEAN /\ step \in Nat BY DEF SaslType
  <2>2. ReceiveGssapi(s) = IF s.done THEN s ELSE [s EXCEPT !.step = step, !.ok = last]
    BY DEF ReceiveGssapi
  <2> HIDE DEF last, step
  <2> QED BY <2>1, <2>2 DEF SaslType
<1> QED BY <1>1, <1>2, <1>3, <1>4 DEF Receive

\* A token and its answer: who is content has said so.
LEMMA RoundTripKeeps ==
  ASSUME IInv, NEW n \in Node, NEW s \in SaslType, RoundTrip(n, s),
         conn[n].st \in {"auth", "tokens"}, s.done => s.mech = "GSSAPI"
  PROVE  IInv'
<1>1. Sound(conn[n]) BY DEF IInv, TypeInv
<1>2. conn[n] \in ConnType /\ Clear(conn[n].ifr) BY <1>1 DEF Sound
<1>3. <<>> \in Seq(Item) /\ Len(<<>>) = 0 /\ Clear(<<>>) BY DEF Clear
<1>4. version' \in BOOLEAN /\ req' = req /\ meta' = meta
  BY DEF RoundTrip, others, IInv, TypeInv
<1>5. ASSUME NEW said \in {"nothing", "empty", "data", "forged"}, NEW g \in BOOLEAN,
             Put(n, [conn[n] EXCEPT !.st = "tokens", !.ifr = <<>>, !.answered = 0,
                       !.sasl = [s EXCEPT !.said = said], !.granted = g]),
             s.mech \in {"PLAIN", "OAUTHBEARER"} /\ said = "empty" => g,
             s.mech = "SCRAM" /\ s.step = 1 /\ said # "forged" => g,
             s.mech = "GSSAPI" /\ s.done /\ said = "empty" => g
      PROVE  IInv'
  <2> DEFINE t == [s EXCEPT !.said = said]
             c == [conn[n] EXCEPT !.st = "tokens", !.ifr = <<>>, !.answered = 0,
                     !.sasl = t, !.granted = g]
  <2>1. t \in SaslType /\ t.said = said /\ t.mech = s.mech /\ t.step = s.step /\ t.done = s.done
    BY DEF SaslType
  <2>2. Put(n, c) BY <1>5
  <2> HIDE DEF t
  <2>3. c \in ConnType BY <1>2, <1>3, <2>1 DEF ConnType
  <2>4. c.st = "tokens" /\ c.ifr = <<>> /\ c.answered = 0 /\ c.sasl = t /\ c.granted = g
    BY <1>2 DEF ConnType
  <2> HIDE DEF c
  <2>5. Exchange(c) BY <1>5, <2>1, <2>4 DEF Exchange
  <2>6. Sound(c) BY <1>3, <2>3, <2>4, <2>5 DEF Sound
  <2>7. Same(conn[n], c) BY <1>2, <1>3, <2>4 DEF Same
  <2> QED BY <1>4, <2>2, <2>6, <2>7, PutKeeps
<1>6. CASE Put(n, [conn[n] EXCEPT !.st = "tokens", !.ifr = <<>>, !.answered = 0,
                     !.sasl = [s EXCEPT !.said = Reply(s)], !.granted = Content(s)])
  <2>1. Reply(s) \in {"nothing", "empty", "data", "forged"} BY DEF Reply
  <2>2. Content(s) \in BOOLEAN BY DEF Content, SaslType
  <2>3. /\ s.mech \in {"PLAIN", "OAUTHBEARER"} => Content(s)
        /\ s.mech = "SCRAM" /\ s.step = 1 => Content(s)
        /\ s.mech = "GSSAPI" /\ s.done => Content(s)
    BY DEF Content
  <2> QED BY <1>5, <1>6, <2>1, <2>2, <2>3
<1>7. CASE Put(n, [conn[n] EXCEPT !.st = "tokens", !.ifr = <<>>, !.answered = 0,
                     !.sasl = [s EXCEPT !.said = Odd(s)]])
  <2>1. Odd(s) \in {"nothing", "empty", "data", "forged"} BY DEF Odd
  <2>2. conn[n].granted \in BOOLEAN BY <1>2 DEF ConnType
  <2> DEFINE t == [s EXCEPT !.said = Odd(s)]
  <2>3. [conn[n] EXCEPT !.st = "tokens", !.ifr = <<>>, !.answered = 0, !.sasl = t]
        = [conn[n] EXCEPT !.st = "tokens", !.ifr = <<>>, !.answered = 0, !.sasl = t,
             !.granted = conn[n].granted]
    <3> HIDE DEF t
    <3> QED BY <1>2 DEF ConnType
  <2>4. /\ s.mech \in {"PLAIN", "OAUTHBEARER"} => Odd(s) # "empty"
        /\ s.mech \in {"SCRAM", "GSSAPI"} => Odd(s) = "forged"
    BY DEF Odd
  <2>5. Put(n, [conn[n] EXCEPT !.st = "tokens", !.ifr = <<>>, !.answered = 0,
                  !.sasl = [s EXCEPT !.said = Odd(s)], !.granted = conn[n].granted])
    BY <1>7, <2>3 DEF Put
  <2> QED BY <1>5, <2>1, <2>2, <2>4, <2>5
<1> QED BY <1>6, <1>7 DEF RoundTrip

LEMMA AuthenticateKeeps ==
  ASSUME IInv, NEW n \in Node, NEW s \in SaslType, Authenticate(n, s),
         conn[n].st \in {"auth", "tokens"}, Sasl /\ s.done /\ s.ok => conn[n].granted
  PROVE  IInv'
<1>1. version \in BOOLEAN BY DEF IInv, TypeInv
<1>2. CASE s.done /\ s.ok BY <1>1, <1>2, ReadyKeeps DEF Authenticate
<1>3. CASE Close(n) BY <1>3, CloseKeeps
<1>4. CASE ~s.done /\ RoundTrip(n, AuthBytes(s))
  <2>1. AuthBytes(s) \in SaslType BY DEF AuthBytes, SaslType
  <2>2. AuthBytes(s).done => AuthBytes(s).mech = "GSSAPI" BY <1>4 DEF AuthBytes, SaslType
  <2> QED BY <1>4, <2>1, <2>2, RoundTripKeeps
<1> QED BY <1>2, <1>3, <1>4 DEF Authenticate

----------------------------------------------------------------------------
(* The actions.                                                            *)

\* One connection changes in its state, with the requests it has.
LEMMA InitConnectKeeps ==
  ASSUME IInv, NEW n \in Node,
         Put(n, Attempt(Current(n))), conn[n].st \in {"absent", "disconnected"},
         UNCHANGED others
  PROVE  IInv'
<1>1. Sound(Current(n)) /\ (Current(n).ifr = conn[n].ifr \/ Current(n).ifr = <<>>)
  BY CurrentSound DEF IInv
<1>2. Current(n).st \in {"absent", "disconnected"} BY DEF Current, NewConn
<1>3. Sound(Attempt(Current(n))) /\ Attempt(Current(n)).ifr = Current(n).ifr
  BY <1>1, <1>2, AttemptSound
<1>4. Clear(conn[n].ifr) BY DEF IInv, TypeInv, Sound
<1>5. Same(conn[n], Attempt(Current(n))) BY <1>1, <1>3, <1>4 DEF Same, Clear
<1>6. version' \in BOOLEAN /\ req' = req /\ meta' = meta BY DEF others, IInv, TypeInv
<1> QED BY <1>3, <1>5, <1>6, PutKeeps

LEMMA DnsFailsKeeps ==
  ASSUME IInv, NEW n \in Node, DnsFails(n)
  PROVE  IInv'
<1> DEFINE c == Shut(Current(n))
<1>1. Sound(Current(n)) BY CurrentSound DEF IInv
<1>2. Sound(c) /\ c.ifr = <<>> BY <1>1, ShutSound
<1>3. conn[n].st \in {"absent", "disconnected"} BY DEF DnsFails, CanConnect
<1>4. Clear(conn[n].ifr) /\ Clear(<<>>) BY <1>3 DEF IInv, TypeInv, Sound, Clear
<1>5. Same(conn[n], c) BY <1>2, <1>4 DEF Same
<1>6. Put(n, c) /\ version' = version /\ req' = req BY DEF DnsFails
<1>7. /\ meta' \in [need : BOOLEAN, busy : BOOLEAN, arrived : BOOLEAN, known : SUBSET Broker]
      /\ meta'.busy = meta.busy /\ meta'.arrived = meta.arrived
  <2> DEFINE need == meta.need \/ n \notin Boot
  <2>1. meta' = [meta EXCEPT !.need = need] BY DEF DnsFails
  <2>2. need \in BOOLEAN /\ meta \in [need : BOOLEAN, busy : BOOLEAN, arrived : BOOLEAN, known : SUBSET Broker]
    BY DEF IInv, TypeInv
  <2> HIDE DEF need
  <2> QED BY <2>1, <2>2
<1> HIDE DEF c
<1>8. /\ conn' = [m \in Node |-> conn'[m]] /\ DOMAIN conn' = Node
      /\ \A m \in Node : conn'[m] = IF m = n THEN c ELSE conn[m]
  BY <1>6 DEF IInv, TypeInv, Put
<1>9. TypeInv' BY <1>2, <1>6, <1>7, <1>8 DEF IInv, TypeInv
<1>10. \A m \in Node : Same(conn[m], conn'[m]) BY <1>5, <1>8 DEF Same
<1> QED BY <1>6, <1>7, <1>9, <1>10, QuietKeeps

\* A field of a connection changes that has nothing to do with its requests.
LEMMA FieldKeeps ==
  ASSUME IInv, NEW n \in Node, NEW c \in ConnType, Put(n, c),
         c.ifr = conn[n].ifr, c.answered <= Len(c.ifr),
         c.st = "connected" <=> conn[n].st = "connected", Sasl => Exchange(c),
         version' \in BOOLEAN, req' = req, meta' = meta
  PROVE  IInv'
<1>1. Sound(c) BY DEF IInv, TypeInv, Sound
<1>2. Same(conn[n], c) BY DEF Same
<1> QED BY <1>1, <1>2, PutKeeps

LEMMA ConnectKeeps ==
  ASSUME IInv, NEW n \in Node, Connect(n)
  PROVE  IInv'
<1> version \in BOOLEAN BY DEF IInv, TypeInv
<1>0. Sound(conn[n]) /\ conn[n] \in ConnType /\ conn[n].answered <= Len(conn[n].ifr)
      /\ (Sasl => Exchange(conn[n]))
  BY DEF IInv, TypeInv, Sound
<1>a. ASSUME conn' = conn, UNCHANGED others PROVE IInv'
  <2>1. TypeInv' BY <1>a DEF IInv, TypeInv, others
  <2>2. \A m \in Node : Same(conn[m], conn'[m]) BY <1>a DEF Same
  <2> QED BY <1>a, <2>1, <2>2, QuietKeeps DEF others
<1>1. CASE MaybeConnect(n) BY <1>1, <1>a DEF MaybeConnect
<1>2. CASE InitConnect(n)
  <2>1. CASE Put(n, Attempt(Current(n))) BY <1>2, <2>1, InitConnectKeeps DEF InitConnect
  <2>2. CASE UNCHANGED conn BY <1>2, <2>2, <1>a DEF InitConnect
  <2> QED BY <1>2, <2>1, <2>2 DEF InitConnect
<1>3. CASE DnsFails(n) BY <1>3, DnsFailsKeeps
<1>4. CASE BackoffOver(n)
  <2> DEFINE c == [conn[n] EXCEPT !.blocked = FALSE]
  <2>1. c \in ConnType /\ c.ifr = conn[n].ifr /\ c.answered = conn[n].answered
        /\ c.st = conn[n].st /\ c.sasl = conn[n].sasl /\ c.granted = conn[n].granted
    BY <1>0 DEF ConnType
  <2>2. Put(n, c) /\ version' = version /\ req' = req /\ meta' = meta
    BY <1>4 DEF BackoffOver, others
  <2> HIDE DEF c
  <2>3. Sasl => Exchange(c) BY <1>0, <2>1 DEF Exchange
  <2> QED BY <1>0, <2>1, <2>2, <2>3, FieldKeeps
<1>5. CASE Established(n)
  <2>1. CASE Wrap(n)
    <3> DEFINE c == [conn[n] EXCEPT !.st = "handshake"]
    <3>1. c \in ConnType /\ c.ifr = conn[n].ifr /\ c.answered = conn[n].answered
          /\ c.st = "handshake" /\ c.sasl = conn[n].sasl
      BY <1>0 DEF ConnType
    <3>2. Put(n, c) /\ version' = version /\ req' = req /\ meta' = meta
      BY <2>1 DEF Wrap, others
    <3>3. conn[n].st = "connecting" BY <1>5 DEF Established
    <3> HIDE DEF c
    <3>4. Sasl => Exchange(c) BY <1>0, <3>1, <3>3 DEF Exchange
    <3> QED BY <1>0, <3>1, <3>2, <3>3, <3>4, FieldKeeps
  <2>2. CASE AskVersion(n) BY <1>5, <2>2, AskVersionKeeps DEF Established
  <2> QED BY <1>5, <2>1, <2>2 DEF Established
<1>6. CASE Handshaked(n) BY <1>6, AskVersionKeeps DEF Handshaked
<1>7. CASE VersionFound(n) BY <1>7, ProceedKeeps DEF VersionFound
<1>8. CASE VersionUnsupported(n)
  <2> DEFINE c == [conn[n] EXCEPT !.probe = 1, !.answered = 0]
  <2>1. c \in ConnType /\ c.ifr = conn[n].ifr /\ c.answered = 0
        /\ c.st = conn[n].st /\ c.sasl = conn[n].sasl /\ c.granted = conn[n].granted
    BY <1>0 DEF ConnType
  <2>2. Put(n, c) /\ version' = version /\ req' = req /\ meta' = meta
    BY <1>8 DEF VersionUnsupported, others
  <2> HIDE DEF c
  <2>3. Sasl => Exchange(c) BY <1>0, <2>1 DEF Exchange
  <2>4. c.answered <= Len(c.ifr) BY <2>1 DEF ConnType
  <2> QED BY <1>0, <2>1, <2>2, <2>3, <2>4, FieldKeeps
<1>9. CASE HandshakeAnswered(n)
  <2>1. PICK m \in Mechanism : Authenticate(n, [conn[n].sasl EXCEPT !.mech = m])
    BY <1>9 DEF HandshakeAnswered
  <2>2. m \in {"PLAIN", "SCRAM", "OAUTHBEARER", "GSSAPI"} BY BoundAssumption
  <2> DEFINE s == [conn[n].sasl EXCEPT !.mech = m]
  <2>3. s \in SaslType /\ s.done = conn[n].sasl.done BY <1>0, <2>2 DEF ConnType, SaslType
  <2>4. conn[n].st = "auth" BY <1>9 DEF HandshakeAnswered
  <2>5. Sasl => ~s.done BY <1>0, <2>3, <2>4 DEF Exchange
  <2>6. Authenticate(n, s) BY <2>1
  <2> HIDE DEF s
  <2> QED BY <2>3, <2>4, <2>5, <2>6, AuthenticateKeeps
<1>10. CASE TokenAnswered(n)
  <2> DEFINE s == conn[n].sasl
  <2>0. s \in SaslType BY <1>0 DEF ConnType
  <2>1. conn[n].st = "tokens" BY <1>10 DEF TokenAnswered
  <2>2. CASE Forged(s) \/ Refused(s)
    <3> DEFINE c == [conn[n] EXCEPT !.st = "auth", !.silent = TRUE, !.sasl = FreshSasl]
    <3>1. FreshSasl \in SaslType /\ FreshSasl.done = FALSE BY DEF FreshSasl, SaslType
    <3>2. c \in ConnType /\ c.ifr = conn[n].ifr /\ c.answered = conn[n].answered
          /\ c.st = "auth" /\ c.sasl = FreshSasl
      BY <1>0, <3>1 DEF ConnType
    <3>3. Put(n, c) /\ version' = version /\ req' = req /\ meta' = meta
      BY <1>10, <2>2 DEF TokenAnswered, others
    <3> HIDE DEF c
    <3>4. Exchange(c) BY <3>1, <3>2 DEF Exchange
    <3> QED BY <1>0, <2>1, <3>2, <3>3, <3>4, FieldKeeps
  <2>3. CASE ~(Forged(s) \/ Refused(s))
    <3>1. Authenticate(n, Receive(s)) BY <1>10, <2>3 DEF TokenAnswered
    <3>2. Receive(s) \in SaslType BY <2>0, ReceiveType
    <3>3. ASSUME Sasl, Receive(s).done, Receive(s).ok PROVE conn[n].granted
      <4>0. Exchange(conn[n]) BY <1>0, <3>3
      <4>1. CASE s.mech = "PLAIN"
        <5>1. s.said = "empty" BY <2>0, <3>3, <4>1 DEF Receive, ReceivePlain, SaslType
        <5> QED BY <2>1, <4>0, <4>1, <5>1 DEF Exchange
      <4>2. CASE s.mech = "OAUTHBEARER"
        <5>1. s.said = "empty" \/ s.done
          BY <2>0, <3>3, <4>2 DEF Receive, ReceiveOAuth, SaslType
        <5> QED BY <2>1, <4>0, <4>2, <5>1 DEF Exchange
      <4>3. CASE s.mech = "SCRAM"
        <5>1. s.step = 1 BY <2>0, <3>3, <4>3 DEF Receive, ReceiveScram, SaslType
        <5>2. s.said # "forged" BY <2>3, <4>3 DEF Forged
        <5> QED BY <2>1, <4>0, <4>3, <5>1, <5>2 DEF Exchange
      <4>4. CASE s.mech \notin {"PLAIN", "OAUTHBEARER", "SCRAM"}
        <5>1. s.done BY <2>0, <3>3, <4>4 DEF Receive, ReceiveGssapi, SaslType
        <5>2. s.mech = "GSSAPI" BY <2>1, <4>0, <5>1 DEF Exchange
        <5>3. s.said = "empty" BY <2>3, <5>1, <5>2 DEF Refused
        <5> QED BY <2>1, <4>0, <5>1, <5>2, <5>3 DEF Exchange
      <4> QED BY <4>1, <4>2, <4>3, <4>4
    <3> HIDE DEF s
    <3> QED BY <2>1, <3>1, <3>2, <3>3, AuthenticateKeeps
  <2> QED BY <2>2, <2>3
<1> QED BY <1>1, <1>2, <1>3, <1>4, <1>5, <1>6, <1>7, <1>8, <1>9, <1>10 DEF Connect

\* The socket takes a request, a broker falls silent, a connection ends.
LEMMA UseKeeps ==
  ASSUME IInv, NEW n \in Node, Use(n), ~Read(n)
  PROVE  IInv'
<1> version \in BOOLEAN BY DEF IInv, TypeInv
<1>0. Sound(conn[n]) /\ conn[n] \in ConnType /\ conn[n].answered <= Len(conn[n].ifr)
      /\ (Sasl => Exchange(conn[n]))
  BY DEF IInv, TypeInv, Sound
<1>1. CASE Answer(n)
  <2> DEFINE c == [conn[n] EXCEPT !.answered = conn[n].answered + 1]
  <2>1. c \in ConnType /\ c.ifr = conn[n].ifr /\ c.answered = conn[n].answered + 1
        /\ c.st = conn[n].st /\ c.sasl = conn[n].sasl /\ c.granted = conn[n].granted
    BY <1>0 DEF ConnType
  <2>2. Put(n, c) /\ version' = version /\ req' = req /\ meta' = meta
    BY <1>1 DEF Answer, others
  <2>3. conn[n].answered < Len(conn[n].ifr) BY <1>1 DEF Answer
  <2>4. conn[n].answered \in Nat /\ Len(conn[n].ifr) \in Nat BY <1>0 DEF ConnType
  <2> HIDE DEF c
  <2>5. Sasl => Exchange(c) BY <1>0, <2>1 DEF Exchange
  <2>6. c.answered <= Len(c.ifr) BY <2>1, <2>3, <2>4
  <2> QED BY <2>1, <2>2, <2>5, <2>6, FieldKeeps
<1>2. CASE QuotaOver(n)
  <2> DEFINE c == [conn[n] EXCEPT !.throttled = FALSE]
  <2>1. c \in ConnType /\ c.ifr = conn[n].ifr /\ c.answered = conn[n].answered
        /\ c.st = conn[n].st /\ c.sasl = conn[n].sasl /\ c.granted = conn[n].granted
    BY <1>0 DEF ConnType
  <2>2. Put(n, c) /\ version' = version /\ req' = req /\ meta' = meta
    BY <1>2 DEF QuotaOver, others
  <2> HIDE DEF c
  <2>3. Sasl => Exchange(c) BY <1>0, <2>1 DEF Exchange
  <2> QED BY <1>0, <2>1, <2>2, <2>3, FieldKeeps
<1>3. CASE Timeout(n) BY <1>3, CloseKeeps DEF Timeout
<1>4. CASE Breaks(n) BY <1>4, CloseKeeps DEF Breaks
<1>5. CASE Silent(n)
  <2> DEFINE c == [conn[n] EXCEPT !.silent = TRUE]
  <2>1. c \in ConnType /\ c.ifr = conn[n].ifr /\ c.answered = conn[n].answered
        /\ c.st = conn[n].st /\ c.sasl = conn[n].sasl /\ c.granted = conn[n].granted
    BY <1>0 DEF ConnType
  <2>2. Put(n, c) /\ version' = version /\ req' = req /\ meta' = meta
    BY <1>5 DEF Silent, others
  <2> HIDE DEF c
  <2>3. Sasl => Exchange(c) BY <1>0, <2>1 DEF Exchange
  <2> QED BY <1>0, <2>1, <2>2, <2>3, FieldKeeps
<1>6. CASE CloseIdle(n)
  <2>1. /\ conn' = [m \in Node |-> conn'[m]] /\ DOMAIN conn' = Node
        /\ \A m \in Node : conn'[m] = IF m = n THEN Absent ELSE conn[m]
    BY <1>6 DEF IInv, TypeInv, CloseIdle, Put
  <2>2. \A m \in Node : Sound(conn'[m]) BY <2>1, AbsentSound DEF IInv, TypeInv
  <2>3. \A m \in Node \ {n} : Same(conn[m], conn'[m]) BY <2>1 DEF Same
  <2>4. conn'[n].ifr = <<>> BY <2>1, AbsentSound
  <2>5. Lost({n}, FALSE) /\ version' = version BY <1>6 DEF CloseIdle
  <2>6. {n} \in SUBSET Node /\ FALSE \in BOOLEAN /\ \A m \in {n} : conn'[m].ifr = <<>> BY <2>4
  <2>7. version' \in BOOLEAN /\ conn' = [m \in Node |-> conn'[m]] BY <2>1, <2>5
  <2>8. DOMAIN conn' = Node BY <2>1
  <2> QED BY <2>2, <2>3, <2>5, <2>6, <2>7, <2>8, LostKeeps
<1> QED BY <1>1, <1>2, <1>3, <1>4, <1>5, <1>6 DEF Use

\* What is left when the first ones of a sequence are taken.
LEMMA Taken ==
  ASSUME NEW S, NEW s \in Seq(S), NEW k \in Nat, k <= Len(s)
  PROVE  /\ SubSeq(s, 1, k) \in Seq(S) /\ Len(SubSeq(s, 1, k)) = k
         /\ SubSeq(s, k + 1, Len(s)) \in Seq(S) /\ Len(SubSeq(s, k + 1, Len(s))) = Len(s) - k
         /\ \A i \in 1 .. k : SubSeq(s, 1, k)[i] = s[i]
         /\ \A i \in 1 .. Len(s) - k : SubSeq(s, k + 1, Len(s))[i] = s[k + i]
<1>1. Len(s) \in Nat OBVIOUS
<1>2. SubSeq(s, 1, k) = [i \in 1 .. k |-> s[i]] BY <1>1
<1>3. SubSeq(s, k + 1, Len(s)) = [i \in 1 .. Len(s) - k |-> s[k + i]]
  BY <1>1
<1> QED BY <1>1, <1>2, <1>3

\* Everything is in one of the two parts; what is there once is in one only.
Parts(s, got, rest) ==
  /\ \A x : (\E i \in 1 .. Len(s) : s[i] = x) <=>
              x \in ToSet(got) \/ \E i \in 1 .. Len(rest) : rest[i] = x
  /\ \A x : (\A i, j \in 1 .. Len(s) : s[i] = x /\ s[j] = x => i = j) =>
       /\ ~(x \in ToSet(got) /\ \E i \in 1 .. Len(rest) : rest[i] = x)
       /\ \A i, j \in 1 .. Len(rest) : rest[i] = x /\ rest[j] = x => i = j

LEMMA Parted ==
  ASSUME NEW S, NEW s \in Seq(S), NEW k \in Nat, k <= Len(s)
  PROVE  /\ SubSeq(s, k + 1, Len(s)) \in Seq(S)
         /\ Parts(s, SubSeq(s, 1, k), SubSeq(s, k + 1, Len(s)))
<1> DEFINE got == SubSeq(s, 1, k)
           rest == SubSeq(s, k + 1, Len(s))
<1>1. /\ got \in Seq(S) /\ Len(got) = k /\ rest \in Seq(S) /\ Len(rest) = Len(s) - k
      /\ \A i \in 1 .. k : got[i] = s[i]
      /\ \A i \in 1 .. Len(s) - k : rest[i] = s[k + i]
  BY Taken
<1> HIDE DEF got, rest
<1>2. Len(s) \in Nat /\ DOMAIN got = 1 .. k BY <1>1
<1>3. \A x : x \in ToSet(got) <=> \E i \in 1 .. k : s[i] = x
  <2>1. ToSet(got) = {got[i] : i \in 1 .. k} BY <1>2 DEF ToSet
  <2> QED BY <1>1, <2>1
<1> HIDE DEF ToSet
<1>4. ASSUME NEW x, NEW i \in 1 .. Len(s), s[i] = x
      PROVE  x \in ToSet(got) \/ \E l \in 1 .. Len(rest) : rest[l] = x
  <2>1. CASE i <= k BY <1>2, <1>3, <1>4, <2>1
  <2>2. CASE i > k
    <3>1. i - k \in 1 .. Len(rest) /\ rest[i - k] = s[k + (i - k)] /\ k + (i - k) = i
      BY <1>1, <1>2, <2>2
    <3> QED BY <1>4, <3>1
  <2>3. i <= k \/ i > k BY <1>2
  <2> QED BY <2>1, <2>2, <2>3
<1>5. ASSUME NEW i \in 1 .. Len(rest) PROVE k + i \in 1 .. Len(s) /\ k + i > k /\ rest[i] = s[k + i]
  BY <1>1, <1>2
<1>6. ASSUME NEW x, x \in ToSet(got) PROVE \E i \in 1 .. Len(s) : s[i] = x /\ i <= k
  BY <1>2, <1>3, <1>6
<1>7. ASSUME NEW x, \A i, j \in 1 .. Len(s) : s[i] = x /\ s[j] = x => i = j
      PROVE  /\ ~(x \in ToSet(got) /\ \E i \in 1 .. Len(rest) : rest[i] = x)
             /\ \A i, j \in 1 .. Len(rest) : rest[i] = x /\ rest[j] = x => i = j
  <2>1. ASSUME x \in ToSet(got), NEW i \in 1 .. Len(rest), rest[i] = x PROVE FALSE
    <3>1. PICK j \in 1 .. Len(s) : s[j] = x /\ j <= k BY <1>6, <2>1
    <3>2. k + i \in 1 .. Len(s) /\ k + i > k /\ s[k + i] = x BY <1>5, <2>1
    <3>3. j = k + i BY <1>7, <3>1, <3>2
    <3> QED BY <1>2, <3>1, <3>2, <3>3
  <2>2. ASSUME NEW i \in 1 .. Len(rest), NEW j \in 1 .. Len(rest), rest[i] = x, rest[j] = x PROVE i = j
    <3>1. k + i = k + j BY <1>5, <1>7, <2>2
    <3> QED BY <3>1
  <2> QED BY <2>1, <2>2
<1>8. \A x : (\E i \in 1 .. Len(s) : s[i] = x) <=>
               x \in ToSet(got) \/ \E i \in 1 .. Len(rest) : rest[i] = x
  <2> TAKE x
  <2>1. (\E i \in 1 .. Len(s) : s[i] = x) => x \in ToSet(got) \/ \E i \in 1 .. Len(rest) : rest[i] = x
    BY <1>4
  <2>2. (\E i \in 1 .. Len(rest) : rest[i] = x) => \E i \in 1 .. Len(s) : s[i] = x BY <1>5
  <2>3. x \in ToSet(got) => \E i \in 1 .. Len(s) : s[i] = x BY <1>6
  <2> QED BY <2>1, <2>2, <2>3
<1> QED BY <1>1, <1>7, <1>8 DEF Parts, got, rest

\* recv() takes the oldest requests off the connection.
LEMMA ReadKeeps ==
  ASSUME IInv, NEW n \in Node, Read(n)
  PROVE  IInv'
<1>0. Sound(conn[n]) /\ conn[n] \in ConnType /\ (Sasl => Exchange(conn[n]))
  BY DEF IInv, TypeInv, Sound
<1> DEFINE got  == SubSeq(conn[n].ifr, 1, conn[n].answered)
           rest == SubSeq(conn[n].ifr, conn[n].answered + 1, Len(conn[n].ifr))
           InGot(x)  == x \in ToSet(got)
           InRest(x) == \E i \in 1 .. Len(rest) : rest[i] = x
<1>1. conn[n].ifr \in Seq(Item) /\ conn[n].answered \in Nat /\ conn[n].answered <= Len(conn[n].ifr)
  BY <1>0 DEF Sound, ConnType
<1>2. got = SubSeq(conn[n].ifr, 1, conn[n].answered)
      /\ rest = SubSeq(conn[n].ifr, conn[n].answered + 1, Len(conn[n].ifr))
  OBVIOUS
<1>4. PICK over \in BOOLEAN :
        Put(n, [conn[n] EXCEPT !.ifr = rest, !.answered = 0, !.throttled = over])
  BY DEF Read, Received
<1> DEFINE c == [conn[n] EXCEPT !.ifr = rest, !.answered = 0, !.throttled = over]
<1>5. /\ conn[n].st = "connected" /\ version' = version
      /\ req' = [r \in Request |-> IF InGot(r) THEN [req[r] EXCEPT !.st = "pending"] ELSE req[r]]
      /\ meta' = [meta EXCEPT !.arrived = meta.arrived \/ InGot(META)]
  BY DEF Read, Received
<1>c. c = [conn[n] EXCEPT !.ifr = rest, !.answered = 0, !.throttled = over] /\ Put(n, c)
  BY <1>4
<1> HIDE DEF c, got, rest
<1>3. /\ rest \in Seq(Item)
      /\ \A x : At(x, n) <=> InGot(x) \/ InRest(x)
      /\ \A x : (\A i, j \in 1 .. Len(conn[n].ifr) : conn[n].ifr[i] = x /\ conn[n].ifr[j] = x => i = j) =>
           ~(InGot(x) /\ InRest(x)) /\ \A i, j \in 1 .. Len(rest) : rest[i] = x /\ rest[j] = x => i = j
  <2> DEFINE s == conn[n].ifr
             k == conn[n].answered
  <2>1. s \in Seq(Item) /\ k \in Nat /\ k <= Len(s) BY <1>1
  <2>2. got = SubSeq(s, 1, k) /\ rest = SubSeq(s, k + 1, Len(s)) BY <1>2
  <2>3. \A x : At(x, n) <=> \E i \in 1 .. Len(s) : s[i] = x BY DEF At
  <2> HIDE DEF s, k
  <2>4. /\ rest \in Seq(Item)
        /\ \A x : (\E i \in 1 .. Len(s) : s[i] = x) <=> InGot(x) \/ InRest(x)
        /\ \A x : (\A i, j \in 1 .. Len(s) : s[i] = x /\ s[j] = x => i = j) =>
             ~(InGot(x) /\ InRest(x)) /\ \A i, j \in 1 .. Len(rest) : rest[i] = x /\ rest[j] = x => i = j
    <3>1. rest \in Seq(Item) /\ Parts(s, got, rest) BY <2>1, <2>2, Parted
    <3> QED BY <3>1 DEF Parts
  <2> QED BY <2>3, <2>4 DEF s
<1>6. c \in ConnType /\ c.ifr = rest /\ c.answered = 0 /\ c.st = "connected"
      /\ c.granted = conn[n].granted
  BY <1>0, <1>3, <1>5, <1>c DEF ConnType
<1>7. Sound(c)
  <2>1. Sasl => Exchange(c) BY <1>0, <1>5, <1>6 DEF Exchange
  <2>2. Len(c.ifr) \in Nat BY <1>3, <1>6
  <2> QED BY <1>6, <2>1, <2>2 DEF Sound
<1>8. /\ conn' = [m \in Node |-> conn'[m]] /\ DOMAIN conn' = Node
      /\ \A m \in Node : conn'[m] = IF m = n THEN c ELSE conn[m]
  BY <1>c DEF IInv, TypeInv, Put
<1>9. TypeInv'
  <2>1. \A m \in Node : Sound(conn'[m]) BY <1>7, <1>8 DEF IInv, TypeInv
  <2>2. req' \in [Request -> [st : {"new", "checked", "queued", "pending", "settled"}, at : Node]]
    BY <1>5 DEF IInv, TypeInv
  <2>3. meta' \in [need : BOOLEAN, busy : BOOLEAN, arrived : BOOLEAN, known : SUBSET Broker]
    <3> DEFINE arrived == meta.arrived \/ InGot(META)
    <3>1. arrived \in BOOLEAN /\ meta' = [meta EXCEPT !.arrived = arrived]
      BY <1>5 DEF IInv, TypeInv
    <3> HIDE DEF arrived
    <3> QED BY <3>1 DEF IInv, TypeInv
  <2> QED BY <1>5, <1>8, <2>1, <2>2, <2>3 DEF IInv, TypeInv
<1> HIDE DEF InGot, InRest
<1>10. \A x : At(x, n) <=> InGot(x) \/ InRest(x) BY <1>3
<1>a. \A x \in Request \cup {META} : \A l \in Node : \A i, j \in 1 .. Len(conn[l].ifr) :
        conn[l].ifr[i] = x /\ conn[l].ifr[j] = x => i = j
  <2> TAKE x \in Request \cup {META}
  <2>1. CASE x \in Request BY <2>1 DEF IInv, Placed
  <2>2. CASE x = META BY <2>2 DEF IInv, OneRefresh
  <2> QED BY <2>1, <2>2
<1>11. \A x \in Request \cup {META} :
         ~(InGot(x) /\ InRest(x)) /\ \A i, j \in 1 .. Len(rest) : rest[i] = x /\ rest[j] = x => i = j
  BY <1>3, <1>a
<1>12. \A x : At(x, n)' <=> InRest(x) BY <1>6, <1>8 DEF At, InRest
<1>13. \A m \in Node \ {n} : \A x : At(x, m)' <=> At(x, m) BY <1>8 DEF At
<1>14. \A x \in Request \cup {META} : \A m \in Node : \A i, j \in 1 .. Len(conn'[m].ifr) :
         conn'[m].ifr[i] = x /\ conn'[m].ifr[j] = x => i = j
  <2> TAKE x \in Request \cup {META}
  <2> TAKE m \in Node
  <2>1. CASE m # n BY <1>8, <1>a, <2>1
  <2>2. CASE m = n
    <3>1. conn'[m].ifr = rest BY <1>6, <1>8, <2>2
    <3> QED BY <1>11, <3>1
  <2> QED BY <2>1, <2>2
<1>15. Placed'
  <2>1. ASSUME NEW r \in Request, NEW m \in Node
        PROVE  At(r, m)' <=> (req'[r].st = "queued" /\ req'[r].at = m)
    <3>1. \A l \in Node : At(r, l) <=> (req[r].st = "queued" /\ req[r].at = l)
      BY DEF IInv, Placed
    <3>2. req[r] \in [st : {"new", "checked", "queued", "pending", "settled"}, at : Node]
      BY DEF IInv, TypeInv
    <3>3. req'[r] = IF InGot(r) THEN [req[r] EXCEPT !.st = "pending"] ELSE req[r] BY <1>5
    <3>4. CASE InGot(r)
      <4>1. req'[r].st = "pending" BY <3>2, <3>3, <3>4
      <4>2. At(r, n) /\ ~At(r, n)' BY <1>10, <1>11, <1>12, <3>4
      <4>3. m # n => ~At(r, m) BY <3>1, <4>2
      <4> QED BY <1>13, <4>1, <4>2, <4>3
    <3>5. CASE ~InGot(r)
      <4>1. At(r, m)' <=> At(r, m) BY <1>10, <1>12, <1>13, <3>5
      <4> QED BY <3>1, <3>3, <3>5, <4>1
    <3> QED BY <3>4, <3>5
  <2>2. \A m \in Node : \A i, j \in 1 .. Len(conn'[m].ifr) :
          conn'[m].ifr[i] = conn'[m].ifr[j] /\ conn'[m].ifr[i] \in Request => i = j
    BY <1>14
  <2> QED BY <2>1, <2>2 DEF Placed
<1>16. OneRefresh'
  <2>0. meta \in [need : BOOLEAN, busy : BOOLEAN, arrived : BOOLEAN, known : SUBSET Broker]
    BY DEF IInv, TypeInv
  <2>1. meta'.busy = meta.busy /\ (meta'.arrived <=> meta.arrived \/ InGot(META))
    BY <1>5, <2>0
  <2>2. \A m \in Node : At(META, m)' => At(META, m) BY <1>10, <1>12, <1>13
  <2>3. OneRefresh BY DEF IInv
  <2>4. CASE InGot(META)
    <3>1. At(META, n) /\ ~At(META, n)' BY <1>10, <1>11, <1>12, <2>4
    <3>2. \A m \in Node : ~At(META, m)' BY <2>2, <2>3, <3>1 DEF OneRefresh
    <3>3. meta'.busy BY <2>1, <2>3, <3>1 DEF OneRefresh
    <3> QED BY <1>14, <2>1, <2>4, <3>2, <3>3 DEF OneRefresh
  <2>5. CASE ~InGot(META)
    <3>1. \A m \in Node : At(META, m)' <=> At(META, m) BY <1>10, <1>12, <1>13, <2>5
    <3> QED BY <1>14, <2>1, <2>3, <2>5, <3>1 DEF OneRefresh
  <2> QED BY <2>4, <2>5
<1> QED BY <1>9, <1>15, <1>16 DEF IInv

\* A request is added to a connection that is ready.
LEMMA Added ==
  ASSUME IInv, NEW n \in Node, NEW x \in Request \cup {META}, conn[n].st = "connected",
         \A m \in Node : ~At(x, m),
         Put(n, [conn[n] EXCEPT !.ifr = Append(conn[n].ifr, x)]), version' = version,
         req' \in [Request -> [st : {"new", "checked", "queued", "pending", "settled"}, at : Node]],
         meta' \in [need : BOOLEAN, busy : BOOLEAN, arrived : BOOLEAN, known : SUBSET Broker]
  PROVE  /\ TypeInv'
         /\ \A y : \A m \in Node : At(y, m)' <=> At(y, m) \/ (y = x /\ m = n)
         /\ \A y \in Request \cup {META} : \A m \in Node : \A i, j \in 1 .. Len(conn'[m].ifr) :
              conn'[m].ifr[i] = y /\ conn'[m].ifr[j] = y => i = j
<1>1. Sound(conn[n]) /\ conn[n] \in ConnType /\ (Sasl => Exchange(conn[n]))
  BY DEF IInv, TypeInv, Sound
<1> DEFINE s    == conn[n].ifr
           more == Append(s, x)
           c    == [conn[n] EXCEPT !.ifr = more]
<1>2. s \in Seq(Item) /\ x \in Item /\ Len(s) \in Nat BY <1>1 DEF ConnType, Item
<1>3. /\ more \in Seq(Item) /\ Len(more) = Len(s) + 1 /\ more[Len(s) + 1] = x
      /\ \A i \in 1 .. Len(s) : more[i] = s[i]
  BY <1>2, AppendProperties
<1>4. Put(n, c) OBVIOUS
<1> HIDE DEF more
<1>5. c \in ConnType /\ c.ifr = more /\ c.answered = conn[n].answered /\ c.st = "connected"
      /\ c.granted = conn[n].granted
  BY <1>1, <1>3 DEF ConnType
<1> HIDE DEF c
<1>6. Sound(c)
  <2>1. Sasl => Exchange(c) BY <1>1, <1>5 DEF Exchange
  <2>2. c.answered <= Len(c.ifr)
    <3>1. conn[n].answered \in Nat /\ conn[n].answered <= Len(s) BY <1>1 DEF Sound, ConnType
    <3> QED BY <1>2, <1>3, <1>5, <3>1
  <2> QED BY <1>5, <2>1, <2>2 DEF Sound
<1>7. /\ conn' = [m \in Node |-> conn'[m]] /\ DOMAIN conn' = Node
      /\ \A m \in Node : conn'[m] = IF m = n THEN c ELSE conn[m]
  <2>1. conn' = [conn EXCEPT ![n] = c] BY <1>4 DEF Put
  <2>2. conn = [m \in Node |-> conn[m]] /\ DOMAIN conn = Node BY DEF IInv, TypeInv
  <2> QED BY <2>1, <2>2
<1>8. TypeInv' BY <1>6, <1>7 DEF IInv, TypeInv
<1>9. \A i \in 1 .. Len(more) : (i \in 1 .. Len(s) /\ more[i] = s[i]) \/ (i = Len(s) + 1 /\ more[i] = x)
  BY <1>2, <1>3
<1>10. \A y : \A m \in Node : At(y, m)' <=> At(y, m) \/ (y = x /\ m = n)
  <2> TAKE y
  <2> TAKE m \in Node
  <2>1. CASE m # n BY <1>7, <2>1 DEF At
  <2>2. CASE m = n
    <3>1. At(y, m)' <=> \E i \in 1 .. Len(more) : more[i] = y BY <1>5, <1>7, <2>2 DEF At
    <3>2. At(y, m) <=> \E i \in 1 .. Len(s) : s[i] = y BY <2>2 DEF At
    <3>3. ASSUME At(y, m) PROVE \E i \in 1 .. Len(more) : more[i] = y
      <4>1. PICK i \in 1 .. Len(s) : s[i] = y BY <3>2, <3>3
      <4>2. i \in 1 .. Len(more) /\ more[i] = y BY <1>2, <1>3, <4>1
      <4> QED BY <4>2
    <3>4. Len(s) + 1 \in 1 .. Len(more) BY <1>2, <1>3
    <3> QED BY <1>3, <1>9, <2>2, <3>1, <3>2, <3>3, <3>4
  <2> QED BY <2>1, <2>2
<1>11. \A y \in Request \cup {META} : \A m \in Node : \A i, j \in 1 .. Len(conn'[m].ifr) :
         conn'[m].ifr[i] = y /\ conn'[m].ifr[j] = y => i = j
  <2> TAKE y \in Request \cup {META}
  <2>0. \A l \in Node : \A i, j \in 1 .. Len(conn[l].ifr) :
          conn[l].ifr[i] = y /\ conn[l].ifr[j] = y => i = j
    <3>1. CASE y \in Request BY <3>1 DEF IInv, Placed
    <3>2. CASE y = META BY <3>2 DEF IInv, OneRefresh
    <3> QED BY <3>1, <3>2
  <2> TAKE m \in Node
  <2>1. CASE m # n BY <1>7, <2>0, <2>1
  <2>2. CASE m = n
    <3>1. conn'[m].ifr = more BY <1>5, <1>7, <2>2
    <3>2. \A i \in 1 .. Len(s) : s[i] # x BY DEF At
    <3>3. \A i, j \in 1 .. Len(s) : s[i] = y /\ s[j] = y => i = j BY <2>0
    <3> HIDE DEF s
    <3> QED BY <1>9, <3>1, <3>2, <3>3
  <2> QED BY <2>1, <2>2
<1> QED BY <1>8, <1>10, <1>11

LEMMA SendRefreshKeeps ==
  ASSUME IInv, NEW n \in Node, SendRefresh(n)
  PROVE  IInv'
<1>1. OneRefresh /\ Placed /\ TypeInv BY DEF IInv
<1>2. ~meta.busy /\ conn[n].st = "connected" BY DEF SendRefresh, Due, CanSend
<1>3. \A m \in Node : ~At(META, m) BY <1>1, <1>2 DEF OneRefresh
<1>4. meta'.busy /\ meta'.arrived = meta.arrived
      /\ meta' \in [need : BOOLEAN, busy : BOOLEAN, arrived : BOOLEAN, known : SUBSET Broker]
  BY <1>1 DEF SendRefresh, TypeInv
<1>5. req' = req /\ version' = version BY DEF SendRefresh
<1>6. /\ TypeInv'
      /\ \A y : \A m \in Node : At(y, m)' <=> At(y, m) \/ (y = META /\ m = n)
      /\ \A y \in Request \cup {META} : \A m \in Node : \A i, j \in 1 .. Len(conn'[m].ifr) :
           conn'[m].ifr[i] = y /\ conn'[m].ifr[j] = y => i = j
  <2>1. Put(n, [conn[n] EXCEPT !.ifr = Append(conn[n].ifr, META)]) BY DEF SendRefresh
  <2>2. req' \in [Request -> [st : {"new", "checked", "queued", "pending", "settled"}, at : Node]]
    BY <1>1, <1>5 DEF TypeInv
  <2> QED BY <1>2, <1>3, <1>4, <1>5, <2>1, <2>2, Added
<1>7. Placed'
  <2>1. \A r \in Request : \A m \in Node : At(r, m)' <=> At(r, m) BY <1>6, NodeAssumption
  <2> QED BY <1>1, <1>5, <1>6, <2>1 DEF Placed
<1>8. OneRefresh'
  <2>1. ~meta.arrived BY <1>1, <1>2 DEF OneRefresh
  <2>2. \A m \in Node : At(META, m)' <=> m = n BY <1>3, <1>6
  <2> QED BY <1>4, <1>6, <2>1, <2>2 DEF OneRefresh
<1> QED BY <1>6, <1>7, <1>8 DEF IInv

\* Steps that leave the connections alone.
LEMMA StillAt ==
  ASSUME conn' = conn
  PROVE  \A x, n : At(x, n)' <=> At(x, n)
BY DEF At

LEMMA RequestKeeps ==
  ASSUME IInv, NEW r \in Request, NEW n \in Node, NEW st \in {"checked", "settled"},
         conn' = conn, version' = version, meta' = meta, req[r].st # "queued",
         req' = [req EXCEPT ![r] = [st |-> st, at |-> n]]
  PROVE  IInv'
<1>1. TypeInv /\ Placed /\ OneRefresh BY DEF IInv
<1>2. TypeInv' BY <1>1 DEF TypeInv
<1>3. \A x, m : At(x, m)' <=> At(x, m) BY StillAt
<1>4. \A q \in Request : req'[q] = IF q = r THEN [st |-> st, at |-> n] ELSE req[q]
  BY <1>1 DEF TypeInv
<1>5. Placed'
  <2>1. ASSUME NEW q \in Request, NEW m \in Node
        PROVE  At(q, m)' <=> (req'[q].st = "queued" /\ req'[q].at = m)
    <3>1. At(q, m) <=> (req[q].st = "queued" /\ req[q].at = m) BY <1>1 DEF Placed
    <3> QED BY <1>3, <1>4, <3>1
  <2> QED BY <1>1, <2>1 DEF Placed
<1>6. OneRefresh' BY <1>1, <1>3 DEF OneRefresh
<1> QED BY <1>2, <1>5, <1>6 DEF IInv

LEMMA QueueKeeps ==
  ASSUME IInv, NEW r \in Request, Queue(r)
  PROVE  IInv'
<1> DEFINE n == req[r].at
<1>1. TypeInv /\ Placed /\ OneRefresh BY DEF IInv
<1>2. req[r] \in [st : {"new", "checked", "queued", "pending", "settled"}, at : Node] /\ n \in Node
  BY <1>1 DEF TypeInv
<1>3. req[r].st = "checked" /\ version' = version /\ meta' = meta BY DEF Queue
<1>4. CASE conn[n].st = "connected"
  <2>1. Put(n, [conn[n] EXCEPT !.ifr = Append(conn[n].ifr, r)]) /\ req' = [req EXCEPT ![r].st = "queued"]
    BY <1>4 DEF Queue
  <2>2. req' \in [Request -> [st : {"new", "checked", "queued", "pending", "settled"}, at : Node]]
    BY <1>1, <1>2, <2>1 DEF TypeInv
  <2>3. \A m \in Node : ~At(r, m) BY <1>1, <1>3 DEF Placed
  <2>4. meta' \in [need : BOOLEAN, busy : BOOLEAN, arrived : BOOLEAN, known : SUBSET Broker]
    BY <1>1, <1>3 DEF TypeInv
  <2> HIDE DEF n
  <2>5. /\ TypeInv'
        /\ \A y : \A m \in Node : At(y, m)' <=> At(y, m) \/ (y = r /\ m = n)
        /\ \A y \in Request \cup {META} : \A m \in Node : \A i, j \in 1 .. Len(conn'[m].ifr) :
             conn'[m].ifr[i] = y /\ conn'[m].ifr[j] = y => i = j
    BY <1>2, <1>3, <1>4, <2>1, <2>2, <2>3, <2>4, Added
  <2>6. Placed'
    <3>1. ASSUME NEW q \in Request, NEW m \in Node
          PROVE  At(q, m)' <=> (req'[q].st = "queued" /\ req'[q].at = m)
      <4>1. At(q, m) <=> (req[q].st = "queued" /\ req[q].at = m) BY <1>1 DEF Placed
      <4>2. CASE q # r
        <5>1. req'[q] = req[q] BY <1>1, <2>1, <4>2 DEF TypeInv
        <5> QED BY <2>5, <4>1, <4>2, <5>1
      <4>3. CASE q = r
        <5>1. req'[r].st = "queued" /\ req'[r].at = n BY <1>1, <1>2, <2>1 DEF TypeInv, n
        <5> QED BY <2>3, <2>5, <4>3, <5>1
      <4> QED BY <4>2, <4>3
    <3> QED BY <2>5, <3>1 DEF Placed
  <2>7. OneRefresh'
    <3>1. \A m \in Node : At(META, m)' <=> At(META, m) BY <2>5, NodeAssumption
    <3> QED BY <1>1, <1>3, <2>5, <3>1 DEF OneRefresh
  <2> QED BY <2>5, <2>6, <2>7 DEF IInv
<1>5. CASE conn[n].st # "connected"
  <2>1. req' = [req EXCEPT ![r].st = "settled"] /\ conn' = conn BY <1>5 DEF Queue
  <2>2. req' = [req EXCEPT ![r] = [st |-> "settled", at |-> n]]
    <3>1. [req[r] EXCEPT !.st = "settled"] = [st |-> "settled", at |-> n] BY <1>2
    <3>2. req' = [req EXCEPT ![r] = [req[r] EXCEPT !.st = "settled"]] BY <2>1
    <3> QED BY <3>1, <3>2
  <2> QED BY <1>2, <1>3, <2>1, <2>2, RequestKeeps
<1> QED BY <1>4, <1>5

\* What is known of the metadata changes, and with it no request.
LEMMA MetaKeeps ==
  ASSUME IInv, conn' = conn, version' = version, req' = req,
         meta' \in [need : BOOLEAN, busy : BOOLEAN, arrived : BOOLEAN, known : SUBSET Broker],
         \/ meta'.busy = meta.busy /\ meta'.arrived = meta.arrived
         \/ meta.arrived /\ ~meta'.busy /\ ~meta'.arrived
  PROVE  IInv'
<1>1. TypeInv /\ Placed /\ OneRefresh BY DEF IInv
<1>2. TypeInv' BY <1>1 DEF TypeInv
<1>3. \A x, n : At(x, n)' <=> At(x, n) BY StillAt
<1>4. Placed' BY <1>1, <1>3 DEF Placed
<1>5. OneRefresh' BY <1>1, <1>3 DEF OneRefresh
<1> QED BY <1>2, <1>4, <1>5 DEF IInv

LEMMA UpdateKeeps ==
  ASSUME IInv, UpdateMetadata
  PROVE  IInv'
<1>1. meta \in [need : BOOLEAN, busy : BOOLEAN, arrived : BOOLEAN, known : SUBSET Broker]
  BY DEF IInv, TypeInv
<1>2. meta.arrived /\ conn' = conn /\ version' = version /\ req' = req BY DEF UpdateMetadata
<1>3. /\ meta' \in [need : BOOLEAN, busy : BOOLEAN, arrived : BOOLEAN, known : SUBSET Broker]
      /\ ~meta'.busy /\ ~meta'.arrived
  <2>1. ASSUME NEW brokers \in SUBSET Broker,
               meta' = [meta EXCEPT !.need = FALSE, !.busy = FALSE, !.arrived = FALSE,
                          !.known = brokers]
        PROVE  /\ meta' \in [need : BOOLEAN, busy : BOOLEAN, arrived : BOOLEAN, known : SUBSET Broker]
               /\ ~meta'.busy /\ ~meta'.arrived
    BY <1>1, <2>1
  <2>2. ASSUME meta' = [[meta EXCEPT !.arrived = FALSE] EXCEPT !.busy = FALSE]
        PROVE  /\ meta' \in [need : BOOLEAN, busy : BOOLEAN, arrived : BOOLEAN, known : SUBSET Broker]
               /\ ~meta'.busy /\ ~meta'.arrived
    BY <1>1, <2>2
  <2> QED BY <2>1, <2>2 DEF UpdateMetadata, FailedUpdate
<1> QED BY <1>2, <1>3, MetaKeeps

----------------------------------------------------------------------------
LEMMA Initially == Init => IInv
<1> SUFFICES ASSUME Init PROVE IInv OBVIOUS
<1>1. TypeInv
  <2>1. conn = [n \in Node |-> conn[n]] /\ DOMAIN conn = Node /\ \A n \in Node : conn[n] = Absent
    BY DEF Init
  <2>2. \A n \in Node : Sound(conn[n]) BY <2>1, AbsentSound
  <2>3. req \in [Request -> [st : {"new", "checked", "queued", "pending", "settled"}, at : Node]]
    <3>1. \A n \in Broker : [st |-> "new", at |-> n] \in
            [st : {"new", "checked", "queued", "pending", "settled"}, at : Node]
      BY DEF Node
    <3> QED BY <3>1 DEF Init
  <2>4. meta \in [need : BOOLEAN, busy : BOOLEAN, arrived : BOOLEAN, known : SUBSET Broker]
    BY DEF Init
  <2> QED BY <2>1, <2>2, <2>3, <2>4 DEF TypeInv, Init
<1>2. \A n \in Node : conn[n].ifr = <<>> BY AbsentSound DEF Init
<1>3. \A n \in Node : \A x : ~At(x, n) BY <1>2 DEF At
<1>4. \A r \in Request : req[r].st = "new" BY DEF Init
<1>5. Placed BY <1>2, <1>3, <1>4 DEF Placed
<1>6. OneRefresh BY <1>2, <1>3 DEF OneRefresh, Init
<1> QED BY <1>1, <1>5, <1>6 DEF IInv

LEMMA NextKeeps == IInv /\ [Next]_vars => IInv'
<1> SUFFICES ASSUME IInv, [Next]_vars PROVE IInv' OBVIOUS
<1>0. meta \in [need : BOOLEAN, busy : BOOLEAN, arrived : BOOLEAN, known : SUBSET Broker]
  BY DEF IInv, TypeInv
<1>1. ASSUME NEW n \in Node, Connect(n) PROVE IInv' BY <1>1, ConnectKeeps
<1>2. ASSUME NEW n \in Node, Use(n) PROVE IInv'
  <2>1. CASE Read(n) BY <2>1, ReadKeeps
  <2>2. CASE ~Read(n) BY <1>2, <2>2, UseKeeps
  <2> QED BY <2>1, <2>2
<1>3. CASE Refresh
  <2>1. ASSUME NEW n \in Node, CheckVersion(n) \/ ConnectForRefresh(n) PROVE IInv'
    <3>1. Put(n, Attempt(Current(n))) /\ CanConnect(n) /\ UNCHANGED others
      BY <2>1 DEF CheckVersion, ConnectForRefresh
    <3>2. conn[n].st \in {"absent", "disconnected"} BY <3>1 DEF CanConnect
    <3> QED BY <3>1, <3>2, InitConnectKeeps
  <2>2. ASSUME NEW n \in Node, SendRefresh(n) PROVE IInv' BY <2>2, SendRefreshKeeps
  <2>3. CASE Aged
    <3>1. /\ meta' \in [need : BOOLEAN, busy : BOOLEAN, arrived : BOOLEAN, known : SUBSET Broker]
          /\ meta'.busy = meta.busy /\ meta'.arrived = meta.arrived
      BY <1>0, <2>3 DEF Aged
    <3> QED BY <2>3, <3>1, MetaKeeps DEF Aged
  <2>4. CASE UpdateMetadata BY <2>4, UpdateKeeps
  <2> QED BY <1>3, <2>1, <2>2, <2>3, <2>4 DEF Refresh
<1>4. ASSUME NEW t \in Topic, AddTopic(t) PROVE IInv'
  <2>1. /\ meta' \in [need : BOOLEAN, busy : BOOLEAN, arrived : BOOLEAN, known : SUBSET Broker]
        /\ meta'.busy = meta.busy /\ meta'.arrived = meta.arrived
    BY <1>0, <1>4 DEF AddTopic
  <2> QED BY <1>4, <2>1, MetaKeeps DEF AddTopic
<1>5. ASSUME NEW r \in Request, Serve(r) PROVE IInv'
  <2>1. ASSUME NEW n \in Node, Check(r, n) PROVE IInv'
    BY <2>1, RequestKeeps DEF Check
  <2>2. CASE Queue(r) BY <2>2, QueueKeeps
  <2>3. CASE Fire(r)
    <3>1. req[r] \in [st : {"new", "checked", "queued", "pending", "settled"}, at : Node]
      BY DEF IInv, TypeInv
    <3>2. [req[r] EXCEPT !.st = "settled"] = [st |-> "settled", at |-> req[r].at] BY <3>1
    <3>3. req' = [req EXCEPT ![r] = [req[r] EXCEPT !.st = "settled"]] BY <2>3 DEF Fire
    <3>4. req' = [req EXCEPT ![r] = [st |-> "settled", at |-> req[r].at]] BY <3>2, <3>3
    <3> QED BY <2>3, <3>1, <3>4, RequestKeeps DEF Fire
  <2> QED BY <1>5, <2>1, <2>2, <2>3 DEF Serve
<1>6. CASE UNCHANGED vars
  <2>1. conn' = conn /\ version' = version /\ req' = req /\ meta' = meta BY <1>6 DEF vars
  <2> QED BY <1>0, <2>1, MetaKeeps
<1> QED BY <1>1, <1>2, <1>3, <1>4, <1>5, <1>6 DEF Next

LEMMA Inductive == Spec => []IInv
<1> QED BY Initially, NextKeeps, PTL DEF Spec

\* A connection takes requests only after the broker has accepted this very
\* connection, whatever the mechanism and whoever answers (BrokerConnection.close
\* and _sasl_authenticate).
THEOREM Granted == Spec => []ConnectedIsGranted
<1>1. IInv => ConnectedIsGranted BY DEF IInv, TypeInv, Sound, Exchange, ConnectedIsGranted
<1> QED BY <1>1, Inductive, PTL

\* A request whose future is open is in flight on one connection, once, and no
\* other request is: closing, dropping, reading and racing with send() neither
\* lose a future nor complete one twice (close, _close_bootstrap, recv, send).
THEOREM Tracked == Spec => []EveryRequestTracked
<1>1. IInv => EveryRequestTracked
  <2> SUFFICES ASSUME IInv, NEW r \in Request, NEW n \in Node
               PROVE  Times(r, n) = IF req[r].st = "queued" /\ req[r].at = n THEN 1 ELSE 0
    BY DEF EveryRequestTracked
  <2> DEFINE S == {i \in 1 .. Len(conn[n].ifr) : conn[n].ifr[i] = r}
  <2>1. At(r, n) <=> req[r].st = "queued" /\ req[r].at = n BY DEF IInv, Placed
  <2>2. CASE At(r, n)
    <3>1. PICK i \in 1 .. Len(conn[n].ifr) : conn[n].ifr[i] = r BY <2>2 DEF At
    <3>2. S = {i} BY <3>1 DEF IInv, Placed
    <3>3. Cardinality(S) = 1 BY <3>2, FS_Singleton
    <3> QED BY <2>1, <2>2, <3>3 DEF Times
  <2>3. CASE ~At(r, n)
    <3>1. S = {} BY <2>3 DEF At
    <3>2. Cardinality(S) = 0 BY <3>1, FS_EmptySet
    <3> QED BY <2>1, <2>3, <3>2 DEF Times
  <2> QED BY <2>2, <2>3
<1> QED BY <1>1, Inductive, PTL

\* The flag of a refresh is up exactly while a metadata request is in flight or
\* its answer waits: no end of a connection leaves it up for ever
\* (_maybe_refresh_metadata, failed_update, update_metadata).
THEOREM RefreshNoticed == Spec => []RefreshUnderWay
<1>1. IInv => RefreshUnderWay
  <2> SUFFICES ASSUME IInv PROVE RefreshUnderWay OBVIOUS
  <2>1. \A n \in Node : META \in InFlight(n) <=> At(META, n) BY InFlightAt DEF IInv
  <2> QED BY <2>1 DEF IInv, OneRefresh, RefreshUnderWay
<1> QED BY <1>1, Inductive, PTL

----------------------------------------------------------------------------
(* The bounds.                                                             *)

\* What a connection has used up of its addresses, of the ways to find the
\* version and of its exchange of tokens.
Exchanging(s) ==
  /\ s.mech # "none"
  /\ s.step <= 1 \/ (s.mech = "GSSAPI" /\ s.step = 2 /\ s.done)
Limited(c) ==
  /\ c.left <= Addresses - 1
  /\ c.probe <= Probes
  /\ \A i \in 1 .. Len(c.ifr) : c.ifr[i] = API => c.probe < Probes
  /\ c.st # "tokens" => c.sasl.step = 0
  /\ c.st = "tokens" => Exchanging(c.sasl)

\* Requests that have passed the check count as if they were in flight.
CheckedAt(n) == {r \in Checked : req[r].at = n}
Load ==
  /\ Cardinality(Checked) <= Senders
  /\ \A n \in Node :
       Len(conn[n].ifr) + Cardinality(CheckedAt(n)) <= MaxInFlight + Senders

Bounds == connecting \subseteq Node /\ faults \in 0 .. MaxFaults
LimitInv == Bounds /\ (\A n \in Node : Limited(conn[n])) /\ Load

\* A connection within its limits that has no more requests than it had, or one.
Tame(c, d) == Limited(d) /\ (Len(d.ifr) <= Len(c.ifr) \/ Len(d.ifr) <= 1)
AllTame == \A n \in Node : Tame(conn[n], conn'[n])
\* No request is checked.
NoneChecked == \A r \in Request : req'[r].st = "checked" => req'[r] = req[r]

LEMMA ShutTame ==
  ASSUME NEW c \in ConnType, Limited(c), NEW b
  PROVE  Tame(b, Shut(c))
<1>1. /\ Shut(c).ifr = <<>> /\ Shut(c).st = "disconnected" /\ Shut(c).left = c.left
      /\ Shut(c).sasl = FreshSasl
      /\ Shut(c).probe = IF API \in ToSet(c.ifr) THEN c.probe + 1 ELSE c.probe
  BY DEF Shut, ConnType
<1>2. ASSUME API \in ToSet(c.ifr) PROVE c.probe < Probes
  <2>1. c.ifr \in Seq(Item) BY DEF ConnType
  <2>2. PICK i \in 1 .. Len(c.ifr) : c.ifr[i] = API BY <1>2, <2>1 DEF ToSet
  <2> QED BY <2>2 DEF Limited
<1>3. c.probe \in Nat /\ Probes \in Nat BY DEF ConnType, Probes
<1>4. Shut(c).probe <= Probes BY <1>1, <1>2, <1>3 DEF Limited
<1>5. Len(<<>>) = 0 /\ FreshSasl.step = 0 BY DEF FreshSasl
<1> QED BY <1>1, <1>4, <1>5 DEF Tame, Limited

LEMMA AbsentTame == \A b : Tame(b, Absent)
<1>1. /\ Absent.ifr = <<>> /\ Absent.st = "absent" /\ Absent.left = 0 /\ Absent.probe = 0
      /\ Absent.sasl.step = 0
  BY DEF Absent, FreshSasl
<1>2. Len(<<>>) = 0 /\ 0 <= Addresses - 1 /\ 0 <= Probes BY BoundAssumption DEF Probes
<1> QED BY <1>1, <1>2 DEF Tame, Limited

LEMMA CurrentLimited ==
  ASSUME IInv, NEW n \in Node, Limited(conn[n])
  PROVE  /\ Current(n) \in ConnType /\ Limited(Current(n))
         /\ Current(n).ifr = conn[n].ifr \/ Current(n).ifr = <<>>
<1>1. /\ Sound(Current(n))
      /\ Current(n).ifr = conn[n].ifr \/ Current(n).ifr = <<>>
  BY CurrentSound DEF IInv
<1>2. Limited(NewConn)
  <2>1. /\ NewConn.ifr = <<>> /\ NewConn.st = "disconnected" /\ NewConn.left = 0
        /\ NewConn.probe = 0 /\ NewConn.sasl.step = 0
    BY DEF NewConn, FreshSasl
  <2>2. Len(<<>>) = 0 /\ 0 <= Addresses - 1 /\ 0 <= Probes BY BoundAssumption DEF Probes
  <2> QED BY <2>1, <2>2 DEF Limited
<1> QED BY <1>1, <1>2 DEF Current, Sound

LEMMA AttemptTame ==
  ASSUME NEW c \in ConnType, Limited(c), c.st # "tokens", NEW b,
         c.ifr = b.ifr \/ c.ifr = <<>>
  PROVE  Tame(b, Attempt(c))
<1>1. /\ Attempt(c).ifr = c.ifr /\ Attempt(c).st = "connecting" /\ Attempt(c).sasl = c.sasl
      /\ Attempt(c).probe = c.probe
      /\ Attempt(c).left = IF c.left = 0 THEN Addresses - 1 ELSE c.left - 1
  BY DEF Attempt, ConnType
<1>2. c.left \in Nat /\ Addresses \in Nat \ {0} BY BoundAssumption DEF ConnType
<1>3. Attempt(c).left <= Addresses - 1 BY <1>1, <1>2 DEF Limited
<1>4. Limited(Attempt(c)) BY <1>1, <1>3 DEF Limited
<1>5. Len(<<>>) = 0 /\ Len(c.ifr) \in Nat BY DEF ConnType
<1> QED BY <1>1, <1>4, <1>5 DEF Tame

\* What limits a connection stays.
LEMMA FieldTame ==
  ASSUME NEW c \in ConnType, Limited(c), NEW d,
         d.left = c.left, d.probe = c.probe, d.ifr = c.ifr,
         \/ d.st = c.st /\ d.sasl = c.sasl
         \/ d.st # "tokens" /\ d.sasl.step = 0
  PROVE  Tame(c, d)
<1>1. Len(c.ifr) \in Nat BY DEF ConnType
<1> QED BY <1>1 DEF Tame, Limited

\* One connection changes.
LEMMA PutTame ==
  ASSUME IInv, LimitInv, NEW n \in Node, NEW c, Put(n, c), Tame(conn[n], c)
  PROVE  AllTame
<1>1. \A m \in Node : conn'[m] = IF m = n THEN c ELSE conn[m] BY DEF IInv, TypeInv, Put
<1>2. \A m \in Node : Tame(conn[m], conn[m])
  <2> TAKE m \in Node
  <2>1. Len(conn[m].ifr) \in Nat BY DEF IInv, TypeInv, Sound, ConnType
  <2> QED BY <2>1 DEF LimitInv, Tame
<1> QED BY <1>1, <1>2 DEF AllTame

LEMMA CloseTame ==
  ASSUME IInv, LimitInv, NEW n \in Node, Close(n)
  PROVE  AllTame
<1>1. conn[n] \in ConnType /\ Limited(conn[n]) BY DEF IInv, TypeInv, Sound, LimitInv
<1>2. Tame(conn[n], Shut(conn[n])) BY <1>1, ShutTame
<1> QED BY <1>2, PutTame DEF Close

LEMMA ReadyTame ==
  ASSUME IInv, LimitInv, NEW n \in Node, NEW s, Ready(n, s)
  PROVE  AllTame
<1> DEFINE gone == IF n \in Boot THEN {} ELSE {b \in Boot : conn[b].st # "absent"}
           sasl == [FreshSasl EXCEPT !.done = s.done, !.ok = s.ok]
           c    == [conn[n] EXCEPT !.st = "connected", !.blocked = FALSE,
                      !.ifr = <<>>, !.answered = 0, !.sasl = sasl]
<1>1. conn' = [m \in Node |-> IF m = n THEN c ELSE IF m \in gone THEN Absent ELSE conn[m]]
  BY DEF Ready
<1>2. sasl.step = 0 BY DEF FreshSasl
<1>3. conn[n] \in ConnType /\ Limited(conn[n]) BY DEF IInv, TypeInv, Sound, LimitInv
<1> HIDE DEF sasl, gone
<1>4. /\ c.ifr = <<>> /\ c.st = "connected" /\ c.left = conn[n].left /\ c.probe = conn[n].probe
      /\ c.sasl = sasl
  BY <1>3 DEF ConnType
<1> HIDE DEF c
<1>5. Len(<<>>) = 0 OBVIOUS
<1>6. Tame(conn[n], c) BY <1>2, <1>3, <1>4, <1>5 DEF Tame, Limited
<1>7. \A m \in Node : Tame(conn[m], conn[m])
  <2> TAKE m \in Node
  <2>1. Len(conn[m].ifr) \in Nat BY DEF IInv, TypeInv, Sound, ConnType
  <2> QED BY <2>1 DEF LimitInv, Tame
<1> QED BY <1>1, <1>6, <1>7, AbsentTame DEF AllTame

LEMMA AskTame ==
  ASSUME IInv, LimitInv, NEW n \in Node, NEW st \in {"versions", "auth"},
         NEW what \in {API, AUTH}, Ask(n, st, what), what = API => conn[n].probe < Probes,
         conn[n].st \in {"connecting", "handshake", "versions"}
  PROVE  AllTame
<1> DEFINE c == [conn[n] EXCEPT !.st = st, !.ifr = <<what>>, !.answered = 0]
<1>1. conn[n] \in ConnType /\ Limited(conn[n]) BY DEF IInv, TypeInv, Sound, LimitInv
<1>2. /\ c.ifr = <<what>> /\ c.st = st /\ c.left = conn[n].left /\ c.probe = conn[n].probe
      /\ c.sasl = conn[n].sasl
  BY <1>1 DEF ConnType
<1>3. Put(n, c) BY DEF Ask
<1> HIDE DEF c
<1>4. Len(<<what>>) = 1 /\ <<what>>[1] = what OBVIOUS
<1>5. Tame(conn[n], c) BY <1>1, <1>2, <1>4 DEF Tame, Limited
<1> QED BY <1>3, <1>5, PutTame

LEMMA ProceedTame ==
  ASSUME IInv, LimitInv, NEW n \in Node, Proceed(n),
         conn[n].st \in {"connecting", "handshake", "versions"}
  PROVE  AllTame
<1>1. CASE Sasl
  <2>1. AUTH # API BY DEF AUTH, API
  <2> QED BY <1>1, <2>1, AskTame DEF Proceed
<1>2. CASE ~Sasl BY <1>2, ReadyTame DEF Proceed
<1> QED BY <1>1, <1>2

LEMMA AskVersionTame ==
  ASSUME IInv, LimitInv, NEW n \in Node, AskVersion(n),
         conn[n].st \in {"connecting", "handshake"}
  PROVE  AllTame
<1>1. CASE Proceed(n) BY <1>1, ProceedTame
<1>2. CASE Ask(n, "versions", API) /\ conn[n].probe < Probes BY <1>2, AskTame
<1>3. CASE Close(n) BY <1>3, CloseTame
<1> QED BY <1>1, <1>2, <1>3 DEF AskVersion

LEMMA RoundTripTame ==
  ASSUME IInv, LimitInv, NEW n \in Node, NEW s \in SaslType, RoundTrip(n, s), Exchanging(s)
  PROVE  AllTame
<1>1. conn[n] \in ConnType /\ Limited(conn[n]) BY DEF IInv, TypeInv, Sound, LimitInv
<1>2. ASSUME NEW said, NEW g,
             Put(n, [conn[n] EXCEPT !.st = "tokens", !.ifr = <<>>, !.answered = 0,
                       !.sasl = [s EXCEPT !.said = said], !.granted = g])
      PROVE  AllTame
  <2> DEFINE t == [s EXCEPT !.said = said]
             c == [conn[n] EXCEPT !.st = "tokens", !.ifr = <<>>, !.answered = 0,
                     !.sasl = t, !.granted = g]
  <2>1. t.mech = s.mech /\ t.step = s.step /\ t.done = s.done BY DEF SaslType
  <2>2. Put(n, c) BY <1>2
  <2> HIDE DEF t
  <2>3. /\ c.ifr = <<>> /\ c.st = "tokens" /\ c.left = conn[n].left /\ c.probe = conn[n].probe
        /\ c.sasl = t
    BY <1>1 DEF ConnType
  <2> HIDE DEF c
  <2>4. Len(<<>>) = 0 OBVIOUS
  <2>5. Exchanging(t) BY <2>1 DEF Exchanging
  <2>6. Tame(conn[n], c) BY <1>1, <2>3, <2>4, <2>5 DEF Tame, Limited
  <2> QED BY <2>2, <2>6, PutTame
<1>3. CASE Put(n, [conn[n] EXCEPT !.st = "tokens", !.ifr = <<>>, !.answered = 0,
                     !.sasl = [s EXCEPT !.said = Reply(s)], !.granted = Content(s)])
  BY <1>2, <1>3
<1>4. CASE Put(n, [conn[n] EXCEPT !.st = "tokens", !.ifr = <<>>, !.answered = 0,
                     !.sasl = [s EXCEPT !.said = Odd(s)]])
  <2> DEFINE t == [s EXCEPT !.said = Odd(s)]
  <2>1. [conn[n] EXCEPT !.st = "tokens", !.ifr = <<>>, !.answered = 0, !.sasl = t]
        = [conn[n] EXCEPT !.st = "tokens", !.ifr = <<>>, !.answered = 0, !.sasl = t,
             !.granted = conn[n].granted]
    <3> HIDE DEF t
    <3> QED BY <1>1 DEF ConnType
  <2>2. Put(n, [conn[n] EXCEPT !.st = "tokens", !.ifr = <<>>, !.answered = 0,
                  !.sasl = [s EXCEPT !.said = Odd(s)], !.granted = conn[n].granted])
    BY <1>4, <2>1 DEF Put
  <2> QED BY <1>2, <2>2
<1> QED BY <1>3, <1>4 DEF RoundTrip

\* The loop over the tokens ends: the one after the last is never sent.
LEMMA AuthenticateTame ==
  ASSUME IInv, LimitInv, NEW n \in Node, NEW s \in SaslType, Authenticate(n, s),
         ~s.done => Exchanging(AuthBytes(s)) \/ (s.mech = "OAUTHBEARER" /\ s.step = 1)
  PROVE  AllTame
<1>1. CASE Ready(n, s) BY <1>1, ReadyTame
<1>2. CASE Close(n) BY <1>2, CloseTame
<1>3. CASE ~s.done /\ ~(s.mech = "OAUTHBEARER" /\ s.step = 1) /\ RoundTrip(n, AuthBytes(s))
  <2>1. AuthBytes(s) \in SaslType BY DEF AuthBytes, SaslType
  <2> QED BY <1>3, <2>1, RoundTripTame
<1> QED BY <1>1, <1>2, <1>3 DEF Authenticate

LEMMA ReceiveExchanging ==
  ASSUME NEW s \in SaslType, Exchanging(s), ~Receive(s).done
  PROVE  Exchanging(AuthBytes(Receive(s)))
<1>1. s.step \in Nat /\ s.mech \in {"PLAIN", "SCRAM", "OAUTHBEARER", "GSSAPI"}
  BY DEF SaslType, Exchanging
<1>2. CASE s.mech = "PLAIN"
  <2>1. Receive(s).done BY <1>2 DEF Receive, ReceivePlain, SaslType
  <2> QED BY <2>1
<1>3. CASE s.mech = "OAUTHBEARER"
  <2>1. s.said # "empty" BY <1>3 DEF Receive, ReceiveOAuth, SaslType
  <2>2. Receive(s) = [s EXCEPT !.step = 1] BY <1>3, <2>1 DEF Receive, ReceiveOAuth
  <2>3. Receive(s).step = 1 /\ Receive(s).mech = "OAUTHBEARER" BY <1>3, <2>2 DEF SaslType
  <2> QED BY <2>3 DEF AuthBytes, Exchanging
<1>4. CASE s.mech = "SCRAM"
  <2>0. Receive(s) = ReceiveScram(s) BY <1>4 DEF Receive
  <2>1. /\ Receive(s).step = s.step + 1 /\ Receive(s).mech = "SCRAM"
        /\ s.step = 1 => Receive(s).done
    BY <1>4, <2>0 DEF ReceiveScram, SaslType
  <2>2. s.step <= 1 BY <1>4 DEF Exchanging
  <2>3. s.step = 0 BY <1>1, <2>1, <2>2
  <2> QED BY <2>1, <2>3 DEF AuthBytes, Exchanging
<1>5. CASE s.mech = "GSSAPI"
  <2>0. Receive(s) = ReceiveGssapi(s) BY <1>5 DEF Receive
  <2>1. ~s.done BY <2>0 DEF ReceiveGssapi
  <2>2. /\ Receive(s).step = s.step + 1 /\ Receive(s).mech = "GSSAPI"
        /\ Receive(s).ok <=> s.step = 1
        /\ Receive(s) \in SaslType
    BY <1>5, <2>0, <2>1, ReceiveType DEF ReceiveGssapi, SaslType
  <2>3. s.step <= 1 BY <2>1 DEF Exchanging
  <2>4. CASE s.step = 0
    <3>1. ~Receive(s).ok /\ Receive(s).step = 1 BY <2>2, <2>4
    <3> QED BY <2>2, <3>1 DEF AuthBytes, Exchanging
  <2>5. CASE s.step = 1
    <3>1. Receive(s).ok /\ Receive(s).step = 2 BY <2>2, <2>5
    <3>2. AuthBytes(Receive(s)) = [Receive(s) EXCEPT !.done = TRUE] BY <2>2, <3>1 DEF AuthBytes
    <3>3. /\ AuthBytes(Receive(s)).done /\ AuthBytes(Receive(s)).step = 2
          /\ AuthBytes(Receive(s)).mech = "GSSAPI"
      BY <2>2, <3>1, <3>2 DEF SaslType
    <3> QED BY <3>3 DEF Exchanging
  <2> QED BY <1>1, <2>3, <2>4, <2>5
<1> QED BY <1>1, <1>2, <1>3, <1>4, <1>5

\* The actions that touch no limit but those of a connection.
LEMMA ConnectTame ==
  ASSUME IInv, LimitInv, NEW n \in Node, Connect(n)
  PROVE  AllTame
<1>0. /\ conn[n] \in ConnType /\ Limited(conn[n]) /\ conn[n].sasl \in SaslType
      /\ conn[n].ifr = conn[n].ifr \/ conn[n].ifr = <<>>
  BY DEF IInv, TypeInv, Sound, LimitInv, ConnType
<1>i. \A m \in Node : Tame(conn[m], conn[m])
  <2> TAKE m \in Node
  <2>1. conn[m] \in ConnType /\ Limited(conn[m]) BY DEF IInv, TypeInv, Sound, LimitInv
  <2> QED BY <2>1, FieldTame
<1>c. Current(n).st # "tokens" <=> conn[n].st # "tokens" BY DEF Current, NewConn
<1>a. ASSUME Put(n, Attempt(Current(n))), conn[n].st \in {"absent", "disconnected"}
      PROVE  AllTame
  <2> DEFINE c == Current(n)
  <2>1. /\ c \in ConnType /\ Limited(c)
        /\ c.ifr = conn[n].ifr \/ c.ifr = <<>>
    BY <1>0, CurrentLimited
  <2>2. c.st # "tokens" BY <1>a, <1>c
  <2> HIDE DEF c
  <2>3. Tame(conn[n], Attempt(c)) BY <2>1, <2>2, AttemptTame
  <2> QED BY <1>a, <2>3, PutTame DEF c
<1>1. CASE MaybeConnect(n) BY <1>1, <1>i DEF MaybeConnect, AllTame
<1>2. CASE InitConnect(n) BY <1>2, <1>a, <1>i DEF InitConnect, AllTame
<1>3. CASE DnsFails(n)
  <2>1. Tame(conn[n], Shut(Current(n))) BY <1>0, CurrentLimited, ShutTame
  <2> QED BY <1>3, <2>1, PutTame DEF DnsFails
<1>4. CASE BackoffOver(n)
  <2> DEFINE c == [conn[n] EXCEPT !.blocked = FALSE]
  <2>1. /\ c.left = conn[n].left /\ c.probe = conn[n].probe /\ c.ifr = conn[n].ifr
        /\ c.st = conn[n].st /\ c.sasl = conn[n].sasl
    BY <1>0 DEF ConnType
  <2>2. Put(n, c) BY <1>4 DEF BackoffOver
  <2> HIDE DEF c
  <2>3. Tame(conn[n], c) BY <1>0, <2>1, FieldTame
  <2> QED BY <2>2, <2>3, PutTame
<1>5. CASE Established(n)
  <2>1. CASE Wrap(n)
    <3> DEFINE c == [conn[n] EXCEPT !.st = "handshake"]
    <3>1. /\ c.left = conn[n].left /\ c.probe = conn[n].probe /\ c.ifr = conn[n].ifr
          /\ c.st = "handshake" /\ c.sasl = conn[n].sasl
      BY <1>0 DEF ConnType
    <3>2. Put(n, c) BY <2>1 DEF Wrap
    <3>3. conn[n].sasl.step = 0 BY <1>0, <1>5 DEF Established, Limited
    <3> HIDE DEF c
    <3>4. Tame(conn[n], c) BY <1>0, <3>1, <3>3, FieldTame
    <3> QED BY <3>2, <3>4, PutTame
  <2>2. CASE AskVersion(n) BY <1>5, <2>2, AskVersionTame DEF Established
  <2> QED BY <1>5, <2>1, <2>2 DEF Established
<1>6. CASE Handshaked(n) BY <1>6, AskVersionTame DEF Handshaked
<1>7. CASE VersionFound(n) BY <1>7, ProceedTame DEF VersionFound
<1>8. CASE VersionUnsupported(n)
  <2> DEFINE c == [conn[n] EXCEPT !.probe = 1, !.answered = 0]
  <2>1. /\ c.left = conn[n].left /\ c.probe = 1 /\ c.ifr = conn[n].ifr
        /\ c.st = conn[n].st /\ c.sasl = conn[n].sasl
    BY <1>0 DEF ConnType
  <2>2. Put(n, c) BY <1>8 DEF VersionUnsupported
  <2> HIDE DEF c
  <2>3. Len(conn[n].ifr) \in Nat BY <1>0 DEF ConnType
  <2>4. Tame(conn[n], c) BY <1>0, <2>1, <2>3 DEF Tame, Limited, Probes
  <2> QED BY <2>2, <2>4, PutTame
<1>9. CASE HandshakeAnswered(n)
  <2>1. PICK m \in Mechanism : Authenticate(n, [conn[n].sasl EXCEPT !.mech = m])
    BY <1>9 DEF HandshakeAnswered
  <2>2. m \in {"PLAIN", "SCRAM", "OAUTHBEARER", "GSSAPI"} BY BoundAssumption
  <2> DEFINE s == [conn[n].sasl EXCEPT !.mech = m]
  <2>3. conn[n].sasl.step = 0 BY <1>0, <1>9 DEF HandshakeAnswered, Limited
  <2>4. s \in SaslType /\ s.step = 0 /\ s.mech = m BY <1>0, <2>2, <2>3 DEF SaslType
  <2>5. Authenticate(n, s) BY <2>1
  <2> HIDE DEF s
  <2>6. AuthBytes(s).step = 0 /\ AuthBytes(s).mech = m BY <2>4 DEF AuthBytes, SaslType
  <2>7. Exchanging(AuthBytes(s)) BY <2>2, <2>6 DEF Exchanging
  <2> QED BY <2>4, <2>5, <2>7, AuthenticateTame
<1>10. CASE TokenAnswered(n)
  <2> DEFINE s == conn[n].sasl
  <2>1. conn[n].st = "tokens" /\ Exchanging(s) BY <1>0, <1>10 DEF TokenAnswered, Limited
  <2>2. CASE Forged(s) \/ Refused(s)
    <3> DEFINE c == [conn[n] EXCEPT !.st = "auth", !.silent = TRUE, !.sasl = FreshSasl]
    <3>1. /\ c.left = conn[n].left /\ c.probe = conn[n].probe /\ c.ifr = conn[n].ifr
          /\ c.st = "auth" /\ c.sasl = FreshSasl
      BY <1>0 DEF ConnType
    <3>2. Put(n, c) BY <1>10, <2>2 DEF TokenAnswered
    <3>3. FreshSasl.step = 0 BY DEF FreshSasl
    <3> HIDE DEF c
    <3>4. Tame(conn[n], c) BY <1>0, <3>1, <3>3, FieldTame
    <3> QED BY <3>2, <3>4, PutTame
  <2>3. CASE ~(Forged(s) \/ Refused(s))
    <3>1. Authenticate(n, Receive(s)) BY <1>10, <2>3 DEF TokenAnswered
    <3>2. s \in SaslType BY <1>0
    <3> HIDE DEF s
    <3>3. Receive(s) \in SaslType BY <3>2, ReceiveType
    <3>4. ~Receive(s).done => Exchanging(AuthBytes(Receive(s)))
      BY <2>1, <3>2, ReceiveExchanging
    <3> QED BY <3>1, <3>3, <3>4, AuthenticateTame
  <2> QED BY <2>2, <2>3
<1> QED BY <1>1, <1>2, <1>3, <1>4, <1>5, <1>6, <1>7, <1>8, <1>9, <1>10 DEF Connect

LEMMA UseTame ==
  ASSUME IInv, LimitInv, NEW n \in Node, Use(n)
  PROVE  AllTame
<1>0. /\ conn[n] \in ConnType /\ Limited(conn[n])
      /\ conn[n].ifr \in Seq(Item) /\ conn[n].answered \in Nat
      /\ conn[n].answered <= Len(conn[n].ifr)
  BY DEF IInv, TypeInv, Sound, LimitInv, ConnType
<1>a. ASSUME NEW c, Put(n, c), c.left = conn[n].left, c.probe = conn[n].probe,
             c.ifr = conn[n].ifr, c.st = conn[n].st, c.sasl = conn[n].sasl
      PROVE  AllTame
  BY <1>0, <1>a, FieldTame, PutTame
<1>1. CASE Answer(n)
  <2> DEFINE c == [conn[n] EXCEPT !.answered = conn[n].answered + 1]
  <2>1. /\ c.left = conn[n].left /\ c.probe = conn[n].probe /\ c.ifr = conn[n].ifr
        /\ c.st = conn[n].st /\ c.sasl = conn[n].sasl
    BY <1>0 DEF ConnType
  <2>2. Put(n, c) BY <1>1 DEF Answer
  <2> HIDE DEF c
  <2> QED BY <1>a, <2>1, <2>2
<1>2. CASE Read(n)
  <2> DEFINE k    == conn[n].answered
             rest == SubSeq(conn[n].ifr, k + 1, Len(conn[n].ifr))
  <2>1. PICK over \in BOOLEAN :
          Put(n, [conn[n] EXCEPT !.ifr = rest, !.answered = 0, !.throttled = over])
    BY <1>2 DEF Read
  <2> DEFINE c == [conn[n] EXCEPT !.ifr = rest, !.answered = 0, !.throttled = over]
  <2>2. /\ Len(rest) = Len(conn[n].ifr) - k
        /\ \A i \in 1 .. Len(conn[n].ifr) - k : rest[i] = conn[n].ifr[k + i]
    BY <1>0, Taken
  <2> HIDE DEF rest
  <2>3. /\ c.left = conn[n].left /\ c.probe = conn[n].probe /\ c.ifr = rest
        /\ c.st = conn[n].st /\ c.sasl = conn[n].sasl
    BY <1>0 DEF ConnType
  <2>4. Put(n, c) BY <2>1
  <2> HIDE DEF c
  <2>5. Len(conn[n].ifr) \in Nat BY <1>0
  <2>6. Len(rest) <= Len(conn[n].ifr) BY <1>0, <2>2, <2>5
  <2>7. \A i \in 1 .. Len(rest) : rest[i] = API => conn[n].probe < Probes
    <3> TAKE i \in 1 .. Len(rest)
    <3>1. k + i \in 1 .. Len(conn[n].ifr) BY <1>0, <2>2, <2>5
    <3>2. rest[i] = conn[n].ifr[k + i] BY <2>2
    <3> QED BY <1>0, <3>1, <3>2 DEF Limited
  <2>8. Tame(conn[n], c) BY <1>0, <2>3, <2>6, <2>7 DEF Tame, Limited
  <2> QED BY <2>4, <2>8, PutTame
<1>3. CASE QuotaOver(n)
  <2> DEFINE c == [conn[n] EXCEPT !.throttled = FALSE]
  <2>1. /\ c.left = conn[n].left /\ c.probe = conn[n].probe /\ c.ifr = conn[n].ifr
        /\ c.st = conn[n].st /\ c.sasl = conn[n].sasl
    BY <1>0 DEF ConnType
  <2>2. Put(n, c) BY <1>3 DEF QuotaOver
  <2> HIDE DEF c
  <2> QED BY <1>a, <2>1, <2>2
<1>4. CASE Timeout(n) BY <1>4, CloseTame DEF Timeout
<1>5. CASE Breaks(n) BY <1>5, CloseTame DEF Breaks
<1>6. CASE Silent(n)
  <2> DEFINE c == [conn[n] EXCEPT !.silent = TRUE]
  <2>1. /\ c.left = conn[n].left /\ c.probe = conn[n].probe /\ c.ifr = conn[n].ifr
        /\ c.st = conn[n].st /\ c.sasl = conn[n].sasl
    BY <1>0 DEF ConnType
  <2>2. Put(n, c) BY <1>6 DEF Silent
  <2> HIDE DEF c
  <2> QED BY <1>a, <2>1, <2>2
<1>7. CASE CloseIdle(n)
  <2>1. Tame(conn[n], Absent) BY AbsentTame
  <2> QED BY <1>7, <2>1, PutTame DEF CloseIdle
<1> QED BY <1>1, <1>2, <1>3, <1>4, <1>5, <1>6, <1>7 DEF Use

----------------------------------------------------------------------------
(* What is checked.                                                        *)

\* The end of connections checks no request.
LEMMA LostChecksNone ==
  ASSUME IInv, NEW ns, NEW stale, Lost(ns, stale)
  PROVE  NoneChecked
<1>1. req' = Failed(ns) BY DEF Lost
<1> SUFFICES ASSUME NEW r \in Request PROVE req'[r].st = "checked" => req'[r] = req[r]
  BY DEF NoneChecked
<1>2. req[r] \in [st : {"new", "checked", "queued", "pending", "settled"}, at : Node]
  BY DEF IInv, TypeInv
<1>3. req'[r] = req[r] \/ req'[r] = [req[r] EXCEPT !.st = "settled"] BY <1>1 DEF Failed
<1> QED BY <1>2, <1>3

LEMMA ConnectChecksNone ==
  ASSUME IInv, NEW n \in Node, Connect(n) \/ Use(n)
  PROVE  NoneChecked
<1>0. ASSUME req' = req PROVE NoneChecked BY <1>0 DEF NoneChecked
<1>1. \/ req' = req
      \/ \E ns, stale : Lost(ns, stale)
      \/ Read(n)
  <2>1. ASSUME NEW s, Ready(n, s) PROVE \E ns, stale : Lost(ns, stale) BY <2>1 DEF Ready
  <2>2. ASSUME Close(n) PROVE \E ns, stale : Lost(ns, stale) BY <2>2 DEF Close
  <2>3. ASSUME Proceed(n) PROVE req' = req \/ \E ns, stale : Lost(ns, stale)
    BY <2>1, <2>3 DEF Proceed, Ask
  <2>4. ASSUME AskVersion(n) PROVE req' = req \/ \E ns, stale : Lost(ns, stale)
    BY <2>2, <2>3, <2>4 DEF AskVersion, Ask
  <2>5. ASSUME NEW s, Authenticate(n, s) PROVE req' = req \/ \E ns, stale : Lost(ns, stale)
    BY <2>1, <2>2, <2>5 DEF Authenticate, RoundTrip, others
  <2>6. CASE Connect(n)
    BY <2>3, <2>4, <2>5, <2>6, ZenonT(40)
    DEF Connect, MaybeConnect, InitConnect, DnsFails, BackoffOver, Established, Wrap,
        Handshaked, VersionFound, VersionUnsupported, HandshakeAnswered, TokenAnswered, others
  <2>7. CASE Use(n)
    <3>1. ASSUME CloseIdle(n) PROVE \E ns, stale : Lost(ns, stale) BY <3>1 DEF CloseIdle
    <3> QED BY <2>2, <2>7, <3>1, ZenonT(40)
        DEF Use, Answer, QuotaOver, Timeout, Breaks, Silent, others
  <2> QED BY <2>6, <2>7
<1>2. CASE Read(n)
  <2> SUFFICES ASSUME NEW r \in Request PROVE req'[r].st = "checked" => req'[r] = req[r]
    BY DEF NoneChecked
  <2>1. req[r] \in [st : {"new", "checked", "queued", "pending", "settled"}, at : Node]
    BY DEF IInv, TypeInv
  <2>2. req'[r] = req[r] \/ req'[r] = [req[r] EXCEPT !.st = "pending"] BY <1>2 DEF Read
  <2> QED BY <2>1, <2>2
<1> QED BY <1>0, <1>1, <1>2, LostChecksNone

\* Connections that are asked for, and failures.
LEMMA NextBounds ==
  ASSUME Bounds, [Next]_vars
  PROVE  Bounds'
<1>s. faults' = faults \/ SpendFault => faults' \in 0 .. MaxFaults
  BY BoundAssumption DEF Bounds, SpendFault
<1>1. ASSUME NEW n \in Node, Connect(n)
      PROVE  connecting' \in SUBSET (connecting \cup {n}) /\ (faults' = faults \/ SpendFault)
  <2>1. ASSUME NEW s, Ready(n, s) PROVE connecting' \in SUBSET (connecting \cup {n})
    BY <2>1 DEF Ready
  <2>2. ASSUME Close(n) PROVE connecting' \in SUBSET (connecting \cup {n})
    BY <2>2 DEF Close
  <2>3. ASSUME Proceed(n) PROVE connecting' \in SUBSET (connecting \cup {n})
    BY <2>1, <2>3 DEF Proceed, Ask
  <2>4. ASSUME AskVersion(n) PROVE connecting' \in SUBSET (connecting \cup {n})
    BY <2>2, <2>3, <2>4 DEF AskVersion, Ask
  <2>5. ASSUME NEW s, Authenticate(n, s)
        PROVE  connecting' \in SUBSET (connecting \cup {n}) /\ (faults' = faults \/ SpendFault)
    BY <2>1, <2>2, <2>5 DEF Authenticate, RoundTrip
  <2>6. connecting' \in SUBSET (connecting \cup {n})
    BY <1>1, <2>3, <2>4, <2>5
    DEF Connect, MaybeConnect, InitConnect, DnsFails, BackoffOver, Established, Wrap,
        Handshaked, VersionFound, VersionUnsupported, HandshakeAnswered, TokenAnswered, others
  <2>7. faults' = faults \/ SpendFault
    BY <1>1, <2>5, ZenonT(40)
    DEF Connect, MaybeConnect, InitConnect, DnsFails, BackoffOver, Established,
        Handshaked, VersionFound, VersionUnsupported, HandshakeAnswered, TokenAnswered
  <2> QED BY <2>6, <2>7
<1>2. ASSUME NEW n \in Node, Use(n)
      PROVE  connecting' \in SUBSET (connecting \cup {n}) /\ (faults' = faults \/ SpendFault)
  <2>1. connecting' = connecting \/ connecting' = connecting \ {n}
    BY <1>2, ZenonT(40)
    DEF Use, Answer, Read, QuotaOver, Timeout, Breaks, Silent, CloseIdle, Close, others
  <2>2. faults' = faults \/ SpendFault
    BY <1>2, ZenonT(40)
    DEF Use, Answer, Read, QuotaOver, Timeout, Breaks, Silent, CloseIdle
  <2> QED BY <2>1, <2>2
<1>3. CASE Refresh
  <2>1. connecting' = connecting \/ \E n \in Node : connecting' = {n}
    BY <1>3 DEF Refresh, CheckVersion, SendRefresh, ConnectForRefresh, Aged, UpdateMetadata
  <2>2. faults' = faults \/ SpendFault
    BY <1>3, ZenonT(40)
    DEF Refresh, CheckVersion, SendRefresh, ConnectForRefresh, Aged, UpdateMetadata
  <2> QED BY <1>s, <2>1, <2>2 DEF Bounds
<1>4. ASSUME NEW t \in Topic, AddTopic(t) PROVE Bounds' BY <1>4 DEF AddTopic, Bounds
<1>5. ASSUME NEW r \in Request, Serve(r) PROVE Bounds'
  BY <1>5 DEF Serve, Check, Queue, Fire, Bounds
<1>6. CASE UNCHANGED vars BY <1>6 DEF vars, Bounds
<1> QED BY <1>s, <1>1, <1>2, <1>3, <1>4, <1>5, <1>6 DEF Next, Bounds

\* Sets of requests can be counted.
LEMMA Counted ==
  ASSUME NEW T \in SUBSET Request, NEW S \in SUBSET T
  PROVE  /\ IsFiniteSet(S) /\ Cardinality(S) \in Nat /\ Cardinality(T) \in Nat
         /\ Cardinality(S) <= Cardinality(T)
<1>1. IsFiniteSet(T) BY NodeAssumption, FS_Subset
<1> QED BY <1>1, FS_Subset, FS_CardinalityType

\* Fewer are checked, and no connection has more than it had, or than one.
LEMMA TameKeeps ==
  ASSUME IInv, IInv', LimitInv, Bounds', AllTame, NoneChecked
  PROVE  LimitInv'
<1>1. \A r \in Request : req'[r].st = "checked" => req[r].st = "checked" /\ req'[r] = req[r]
  BY DEF NoneChecked
<1>2. Checked' \in SUBSET Checked /\ \A n \in Node : CheckedAt(n)' \in SUBSET CheckedAt(n)
  BY <1>1 DEF Checked, CheckedAt
<1>3. Checked \in SUBSET Request /\ \A n \in Node : CheckedAt(n) \in SUBSET Checked
  BY DEF Checked, CheckedAt
<1>4. MaxInFlight \in Nat \ {0} /\ Senders \in Nat \ {0} BY BoundAssumption
<1>5. /\ Cardinality(Checked') \in Nat /\ Cardinality(Checked) \in Nat
      /\ Cardinality(Checked') <= Cardinality(Checked)
  BY <1>2, <1>3, Counted
<1>6. Cardinality(Checked)' <= Senders BY <1>4, <1>5 DEF LimitInv, Load
<1>7. ASSUME NEW n \in Node
      PROVE  Limited(conn'[n]) /\
             Len(conn'[n].ifr) + Cardinality(CheckedAt(n)') <= MaxInFlight + Senders
  <2>1. PICK a \in Nat : a = Cardinality(CheckedAt(n)) BY <1>3, Counted
  <2>2. CheckedAt(n) \in SUBSET Request /\ CheckedAt(n)' \in SUBSET CheckedAt(n) BY <1>2, <1>3
  <2>3. PICK b \in Nat : b = Cardinality(CheckedAt(n)') /\ b <= a BY <2>1, <2>2, Counted
  <2>4. a <= Senders
    <3>1. Cardinality(CheckedAt(n)) <= Cardinality(Checked) BY <1>3, Counted
    <3> QED BY <1>4, <1>5, <2>1, <3>1 DEF LimitInv, Load
  <2>0. conn[n].ifr \in Seq(Item) BY DEF IInv, TypeInv, Sound, ConnType
  <2>5. PICK k \in Nat : k = Len(conn[n].ifr) BY <2>0
  <2>6. conn'[n].ifr \in Seq(Item) BY DEF IInv, TypeInv, Sound, ConnType
  <2>7. PICK l \in Nat : l = Len(conn'[n].ifr) BY <2>6
  <2>8. Limited(conn'[n]) /\ (l <= k \/ l <= 1) BY <2>5, <2>7 DEF AllTame, Tame
  <2>9. k + a <= MaxInFlight + Senders BY <2>1, <2>5 DEF LimitInv, Load
  <2>10. l + b <= MaxInFlight + Senders BY <1>4, <2>3, <2>4, <2>8, <2>9
  <2> QED BY <2>3, <2>7, <2>8, <2>10
<1> QED BY <1>6, <1>7 DEF LimitInv, Load

\* A refresh is sent where there is room.
LEMMA SendRefreshLimited ==
  ASSUME IInv, LimitInv, Bounds', NEW n \in Node, SendRefresh(n)
  PROVE  LimitInv'
<1> DEFINE s == conn[n].ifr
           c == [conn[n] EXCEPT !.ifr = Append(s, META)]
<1>1. Put(n, c) /\ req' = req /\ Len(s) < MaxInFlight BY DEF SendRefresh, CanSend, CanSendMore
<1>2. conn[n] \in ConnType /\ Limited(conn[n]) /\ s \in Seq(Item)
  BY DEF IInv, TypeInv, Sound, LimitInv, ConnType
<1>3. /\ c.ifr = Append(s, META) /\ c.left = conn[n].left /\ c.probe = conn[n].probe
      /\ c.st = conn[n].st /\ c.sasl = conn[n].sasl
  BY <1>2 DEF ConnType
<1> HIDE DEF c
<1>4. \A m \in Node : conn'[m] = IF m = n THEN c ELSE conn[m] BY <1>1 DEF IInv, TypeInv, Put
<1>5. /\ Len(Append(s, META)) = Len(s) + 1 /\ Append(s, META)[Len(s) + 1] = META
      /\ \A i \in 1 .. Len(s) : Append(s, META)[i] = s[i]
  BY <1>2, META \in Item DEF Item
<1>6. Limited(c)
  <2>1. Len(s) \in Nat BY <1>2
  <2>2. \A i \in 1 .. Len(c.ifr) : c.ifr[i] = API => c.probe < Probes
    <3> SUFFICES ASSUME NEW i \in 1 .. Len(c.ifr), c.ifr[i] = API PROVE c.probe < Probes OBVIOUS
    <3>1. i \in 1 .. Len(s) \/ i = Len(s) + 1 BY <1>3, <1>5, <2>1
    <3>2. i # Len(s) + 1 BY <1>3, <1>5 DEF META, API
    <3> QED BY <1>2, <1>3, <1>5, <3>1, <3>2 DEF Limited
  <2> QED BY <1>2, <1>3, <2>2 DEF Limited
<1>7. Checked' = Checked /\ \A m \in Node : CheckedAt(m)' = CheckedAt(m)
  BY <1>1 DEF Checked, CheckedAt
<1>8. CheckedAt(n) \in SUBSET Checked /\ Checked \in SUBSET Request BY DEF Checked, CheckedAt
<1>9. PICK a \in Nat : a = Cardinality(CheckedAt(n)) /\ a <= Senders
  <2>1. /\ Cardinality(CheckedAt(n)) \in Nat /\ Cardinality(Checked) \in Nat
        /\ Cardinality(CheckedAt(n)) <= Cardinality(Checked)
    BY <1>8, Counted
  <2> QED BY <2>1, BoundAssumption DEF LimitInv, Load
<1>10. Len(Append(s, META)) + a <= MaxInFlight + Senders
  <2>1. PICK k \in Nat : k = Len(s) BY <1>2
  <2> QED BY <1>1, <1>5, <1>9, <2>1, BoundAssumption
<1>11. \A m \in Node : Len(conn'[m].ifr) + Cardinality(CheckedAt(m)') <= MaxInFlight + Senders
  BY <1>3, <1>4, <1>7, <1>9, <1>10 DEF LimitInv, Load
<1>12. \A m \in Node : Limited(conn'[m]) BY <1>4, <1>6 DEF LimitInv
<1> QED BY <1>7, <1>11, <1>12 DEF LimitInv, Load

\* A request that is checked takes one of the places of the senders.
LEMMA CheckLimited ==
  ASSUME IInv, LimitInv, Bounds', NEW r \in Request, NEW n \in Node, Check(r, n)
  PROVE  LimitInv'
<1>1. /\ req[r].st = "new" /\ conn' = conn /\ Len(conn[n].ifr) < MaxInFlight
      /\ Cardinality(Checked) < Senders
      /\ req' = [req EXCEPT ![r] = [st |-> "checked", at |-> n]]
  BY DEF Check, CanSend, CanSendMore
<1>2. \A q \in Request : req'[q] = IF q = r THEN [st |-> "checked", at |-> n] ELSE req[q]
  BY <1>1 DEF IInv, TypeInv
<1>3. Checked' = Checked \cup {r} /\ r \notin Checked BY <1>1, <1>2 DEF Checked
<1>4. \A m \in Node : CheckedAt(m)' \in SUBSET (Checked \cup {r})
  BY <1>3 DEF CheckedAt
<1>5. \A m \in Node \ {n} : CheckedAt(m)' = CheckedAt(m)
  BY <1>1, <1>2, <1>3 DEF CheckedAt, Checked
<1>6. Checked \in SUBSET Request /\ Checked \cup {r} \in SUBSET Request BY DEF Checked
<1>7. /\ Cardinality(Checked) \in Nat /\ Cardinality(Checked \cup {r}) = Cardinality(Checked) + 1
  <2>1. IsFiniteSet(Checked) BY <1>6, Counted
  <2> QED BY <1>3, <2>1, FS_AddElement, FS_CardinalityType
<1>8. Cardinality(Checked)' <= Senders BY <1>1, <1>3, <1>7, BoundAssumption
<1>9. Len(conn'[n].ifr) + Cardinality(CheckedAt(n)') <= MaxInFlight + Senders
  <2>1. PICK b \in Nat : b = Cardinality(CheckedAt(n)') /\ b <= Cardinality(Checked \cup {r})
    BY <1>4, <1>6, Counted
  <2>0. conn[n].ifr \in Seq(Item) BY DEF IInv, TypeInv, Sound, ConnType
  <2>2. PICK k \in Nat : k = Len(conn[n].ifr) BY <2>0
  <2>3. b <= Senders BY <1>1, <1>7, <2>1, BoundAssumption
  <2>4. k + b <= MaxInFlight + Senders BY <1>1, <2>2, <2>3, BoundAssumption
  <2> QED BY <1>1, <2>1, <2>2, <2>4
<1>10. \A m \in Node : Len(conn'[m].ifr) + Cardinality(CheckedAt(m)') <= MaxInFlight + Senders
  BY <1>1, <1>5, <1>9 DEF LimitInv, Load
<1>11. \A m \in Node : Limited(conn'[m]) BY <1>1 DEF LimitInv
<1> QED BY <1>8, <1>10, <1>11 DEF LimitInv, Load

\* It moves from the one count to the other when it is queued.
LEMMA QueueLimited ==
  ASSUME IInv, IInv', LimitInv, Bounds', NEW r \in Request, Queue(r)
  PROVE  LimitInv'
<1>0. PICK n \in Node : n = req[r].at BY DEF IInv, TypeInv
<1> DEFINE s == conn[n].ifr
           c == [conn[n] EXCEPT !.ifr = Append(s, r)]
<1>1. req[r].at = n /\ req[r].st = "checked" BY <1>0 DEF Queue
<1>2. \A q \in Request : req[q] \in [st : {"new", "checked", "queued", "pending", "settled"}, at : Node]
  BY DEF IInv, TypeInv
<1>3. CASE conn[n].st # "connected"
  <2>1. req' = [req EXCEPT ![r].st = "settled"] /\ conn' = conn BY <1>1, <1>3 DEF Queue
  <2>2. req'[r].st = "settled" /\ \A q \in Request \ {r} : req'[q] = req[q]
    BY <1>2, <2>1 DEF IInv, TypeInv
  <2>3. NoneChecked BY <2>2 DEF NoneChecked
  <2>4. AllTame
    <3> SUFFICES ASSUME NEW m \in Node PROVE Tame(conn[m], conn[m]) BY <2>1 DEF AllTame
    <3>1. conn[m] \in ConnType /\ Limited(conn[m]) BY DEF IInv, TypeInv, Sound, LimitInv
    <3> QED BY <3>1, FieldTame
  <2> QED BY <2>3, <2>4, TameKeeps
<1>4. CASE conn[n].st = "connected"
  <2>1. Put(n, c) /\ req' = [req EXCEPT ![r].st = "queued"] BY <1>1, <1>4 DEF Queue
  <2>2. req'[r].st = "queued" /\ \A q \in Request \ {r} : req'[q] = req[q]
    BY <1>2, <2>1 DEF IInv, TypeInv
  <2>3. conn[n] \in ConnType /\ Limited(conn[n]) /\ s \in Seq(Item)
    BY <1>1 DEF IInv, TypeInv, Sound, LimitInv, ConnType
  <2>4. /\ c.ifr = Append(s, r) /\ c.left = conn[n].left /\ c.probe = conn[n].probe
        /\ c.st = conn[n].st /\ c.sasl = conn[n].sasl
    BY <2>3 DEF ConnType
  <2>6. Checked' = Checked \ {r} /\ r \in Checked BY <1>1, <2>2 DEF Checked
  <2>7. CheckedAt(n)' = CheckedAt(n) \ {r} /\ r \in CheckedAt(n)
    BY <1>1, <2>2 DEF Checked, CheckedAt
  <2>8. \A m \in Node \ {n} : CheckedAt(m)' = CheckedAt(m)
    BY <1>1, <2>2 DEF Checked, CheckedAt
  <2> HIDE DEF c
  <2>9. \A m \in Node : conn'[m] = IF m = n THEN c ELSE conn[m] BY <2>1 DEF IInv, TypeInv, Put
  <2>10. /\ Len(Append(s, r)) = Len(s) + 1 /\ Append(s, r)[Len(s) + 1] = r
         /\ \A i \in 1 .. Len(s) : Append(s, r)[i] = s[i]
    BY <2>3, r \in Item DEF Item
  <2>11. Limited(c)
    <3>1. Len(s) \in Nat BY <2>3
    <3>2. \A i \in 1 .. Len(c.ifr) : c.ifr[i] = API => c.probe < Probes
      <4> SUFFICES ASSUME NEW i \in 1 .. Len(c.ifr), c.ifr[i] = API PROVE c.probe < Probes OBVIOUS
      <4>1. i \in 1 .. Len(s) \/ i = Len(s) + 1 BY <2>4, <2>10, <3>1
      <4>2. i # Len(s) + 1 BY <2>4, <2>10, NodeAssumption
      <4> QED BY <2>3, <2>4, <2>10, <4>1, <4>2 DEF Limited
    <3> QED BY <2>3, <2>4, <3>2 DEF Limited
  <2>12. Checked \in SUBSET Request /\ CheckedAt(n) \in SUBSET Checked BY DEF Checked, CheckedAt
  <2>13. PICK a \in Nat : a = Cardinality(CheckedAt(n)) BY <2>12, Counted
  <2>14. IsFiniteSet(CheckedAt(n)) BY <2>12, Counted
  <2>15. Cardinality(CheckedAt(n)') = a - 1 BY <2>7, <2>13, <2>14, FS_RemoveElement
  <2>16. Cardinality(Checked)' <= Senders
    <3>1. Checked' \in SUBSET Checked BY <2>6
    <3>2. /\ Cardinality(Checked') <= Cardinality(Checked)
          /\ Cardinality(Checked') \in Nat /\ Cardinality(Checked) \in Nat
      BY <2>12, <3>1, Counted
    <3> QED BY <3>2, BoundAssumption DEF LimitInv, Load
  <2>17. Len(conn'[n].ifr) + Cardinality(CheckedAt(n)') <= MaxInFlight + Senders
    <3>1. PICK k \in Nat : k = Len(s) BY <2>3
    <3>2. k + a <= MaxInFlight + Senders BY <1>1, <2>13, <3>1 DEF LimitInv, Load
    <3>3. Len(conn'[n].ifr) = k + 1 BY <1>1, <2>4, <2>9, <2>10, <3>1
    <3> QED BY <2>15, <3>2, <3>3, BoundAssumption
  <2>18. \A m \in Node : Len(conn'[m].ifr) + Cardinality(CheckedAt(m)') <= MaxInFlight + Senders
    BY <2>8, <2>9, <2>17 DEF LimitInv, Load
  <2>19. \A m \in Node : Limited(conn'[m]) BY <2>9, <2>11 DEF LimitInv
  <2> QED BY <2>16, <2>18, <2>19 DEF LimitInv, Load
<1> QED BY <1>3, <1>4

LEMMA InitiallyLimited == Init => LimitInv
<1> SUFFICES ASSUME Init PROVE LimitInv OBVIOUS
<1>1. \A n \in Node : conn[n] = Absent BY DEF Init
<1>2. \A n \in Node : Limited(conn[n]) BY <1>1, AbsentTame DEF Tame
<1>3. \A n \in Node : conn[n].ifr = <<>> BY <1>1 DEF Absent
<1>4. Checked = {} /\ \A n \in Node : CheckedAt(n) = {} BY DEF Init, Checked, CheckedAt
<1>5. Cardinality({}) = 0 /\ Len(<<>>) = 0 BY FS_EmptySet
<1>6. Load
  <2>1. Cardinality(Checked) = 0 BY <1>4, <1>5
  <2>2. \A n \in Node : Len(conn[n].ifr) = 0 /\ Cardinality(CheckedAt(n)) = 0
    BY <1>3, <1>4, <1>5
  <2> HIDE DEF Checked
  <2> QED BY <2>1, <2>2, BoundAssumption DEF Load
<1>7. Bounds BY BoundAssumption DEF Init, Bounds
<1> QED BY <1>2, <1>6, <1>7 DEF LimitInv

LEMMA NextLimited == IInv /\ IInv' /\ LimitInv /\ [Next]_vars => LimitInv'
<1> SUFFICES ASSUME IInv, IInv', LimitInv, [Next]_vars PROVE LimitInv' OBVIOUS
<1>0. Bounds' BY NextBounds DEF LimitInv
<1>i. \A m \in Node : Tame(conn[m], conn[m])
  <2> TAKE m \in Node
  <2>1. conn[m] \in ConnType /\ Limited(conn[m]) BY DEF IInv, TypeInv, Sound, LimitInv
  <2> QED BY <2>1, FieldTame
<1>a. ASSUME conn' = conn, NoneChecked PROVE LimitInv'
  <2>1. AllTame BY <1>a, <1>i DEF AllTame
  <2> QED BY <1>0, <1>a, <2>1, TameKeeps
<1>b. ASSUME req' = req PROVE NoneChecked BY <1>b DEF NoneChecked
<1>1. ASSUME NEW n \in Node, Connect(n) \/ Use(n) PROVE LimitInv'
  BY <1>0, <1>1, ConnectTame, UseTame, ConnectChecksNone, TameKeeps
<1>2. CASE Refresh
  <2>1. ASSUME NEW n \in Node, CheckVersion(n) \/ ConnectForRefresh(n) PROVE LimitInv'
    <3>1. Put(n, Attempt(Current(n))) /\ CanConnect(n) /\ req' = req
      BY <2>1 DEF CheckVersion, ConnectForRefresh, others
    <3> DEFINE c == Current(n)
    <3>2. c.st # "tokens" BY <3>1 DEF CanConnect, Current, NewConn
    <3>3. /\ c \in ConnType /\ Limited(c)
          /\ c.ifr = conn[n].ifr \/ c.ifr = <<>>
      BY CurrentLimited DEF LimitInv
    <3> HIDE DEF c
    <3>4. Tame(conn[n], Attempt(c)) BY <3>2, <3>3, AttemptTame
    <3>5. AllTame BY <3>1, <3>4, PutTame DEF c
    <3> QED BY <1>0, <1>b, <3>1, <3>5, TameKeeps
  <2>2. ASSUME NEW n \in Node, SendRefresh(n) PROVE LimitInv' BY <1>0, <2>2, SendRefreshLimited
  <2>3. CASE Aged BY <1>a, <1>b, <2>3 DEF Aged
  <2>4. CASE UpdateMetadata BY <1>a, <1>b, <2>4 DEF UpdateMetadata
  <2> QED BY <1>2, <2>1, <2>2, <2>3, <2>4 DEF Refresh
<1>3. ASSUME NEW t \in Topic, AddTopic(t) PROVE LimitInv' BY <1>3, <1>a, <1>b DEF AddTopic
<1>4. ASSUME NEW r \in Request, Serve(r) PROVE LimitInv'
  <2>1. ASSUME NEW n \in Node, Check(r, n) PROVE LimitInv' BY <1>0, <2>1, CheckLimited
  <2>2. CASE Queue(r) BY <1>0, <2>2, QueueLimited
  <2>3. CASE Fire(r)
    <3>1. req' = [req EXCEPT ![r].st = "settled"] /\ conn' = conn BY <2>3 DEF Fire
    <3>2. req'[r].st = "settled" /\ \A q \in Request \ {r} : req'[q] = req[q]
      BY <3>1 DEF IInv, TypeInv
    <3>3. NoneChecked BY <3>2 DEF NoneChecked
    <3> QED BY <1>a, <3>1, <3>3
  <2> QED BY <1>4, <2>1, <2>2, <2>3 DEF Serve
<1>5. CASE UNCHANGED vars BY <1>5, <1>a, <1>b DEF vars
<1> QED BY <1>1, <1>2, <1>3, <1>4, <1>5 DEF Next

\* Types, and the limit of requests in flight: can_send_more is asked without the
\* lock that send takes, and that lets at most one request for each thread that
\* sends pass the limit; addresses, probes of the version and the exchange of
\* tokens are bounded as well (can_send_more, send, _sasl_authenticate).
THEOREM WithinLimits == Spec => []TypeOK
<1>1. IInv /\ LimitInv => TypeOK
  <2> SUFFICES ASSUME IInv, LimitInv PROVE TypeOK OBVIOUS
  <2>1. ASSUME NEW n \in Node
        PROVE  /\ conn[n].st \in {"absent", "disconnected", "connecting", "handshake",
                                  "versions", "auth", "tokens", "connected"}
               /\ conn[n].sasl.step \in 0 .. 2
               /\ conn[n].left \in 0 .. Addresses - 1 /\ conn[n].probe \in 0 .. Probes
               /\ conn[n].answered <= Len(conn[n].ifr)
               /\ Len(conn[n].ifr) <= MaxInFlight + Senders
    <3>1. /\ conn[n] \in ConnType /\ conn[n].answered <= Len(conn[n].ifr) /\ Limited(conn[n])
          /\ conn[n].sasl \in SaslType
      BY DEF IInv, TypeInv, Sound, LimitInv, ConnType
    <3>2. conn[n].left \in Nat /\ conn[n].probe \in Nat /\ conn[n].sasl.step \in Nat
      BY <3>1 DEF ConnType, SaslType
    <3>3. conn[n].left \in 0 .. Addresses - 1 /\ conn[n].probe \in 0 .. Probes
      BY <3>1, <3>2, BoundAssumption DEF Limited, Probes
    <3>4. conn[n].sasl.step \in 0 .. 2 BY <3>1, <3>2 DEF Limited, Exchanging
    <3>5. Len(conn[n].ifr) <= MaxInFlight + Senders
      <4>1. CheckedAt(n) \in SUBSET Request BY DEF Checked, CheckedAt
      <4>2. PICK a \in Nat : a = Cardinality(CheckedAt(n)) BY <4>1, Counted
      <4>3. PICK k \in Nat : k = Len(conn[n].ifr) BY <3>1 DEF ConnType
      <4>4. k + a <= MaxInFlight + Senders BY <4>2, <4>3 DEF LimitInv, Load
      <4> QED BY <4>2, <4>3, <4>4, BoundAssumption
    <3> QED BY <3>1, <3>3, <3>4, <3>5 DEF ConnType
  <2>2. \A r \in Request :
          req[r] \in [st : {"new", "checked", "queued", "pending", "settled"}, at : Node]
    BY DEF IInv, TypeInv
  <2>3. connecting \subseteq Node /\ faults \in 0 .. MaxFaults BY DEF LimitInv, Bounds
  <2> QED BY <2>1, <2>2, <2>3 DEF TypeOK
<1>2. Spec => []LimitInv BY Inductive, InitiallyLimited, NextLimited, PTL DEF Spec
<1> QED BY <1>1, <1>2, Inductive, PTL

=============================================================================
