--------------------------- MODULE ProducerProofs ---------------------------
(***************************************************************************)
(* For any partitions, batch size, retries, number of records and of        *)
(* faults: flush keeps its promise; and a producer without idempotence, or  *)
(* one that is not taken where the code loses track of a batch (Gap), keeps *)
(* every batch in one place, acknowledges only what is in the log, keeps    *)
(* the order with one request in flight and, when it is idempotent, writes  *)
(* no record twice.                                                         *)
(***************************************************************************)
EXTENDS Producer, SequenceTheorems, FiniteSetTheorems, TLAPS


Finals  == {"none", "ok", "failed", "aborted"}
Results == {"none", "ok", "retriable", "fatal", "lost", "unknown_producer", "out_of_order"}
BatchRec ==
  [tp : Partition, recs : Seq(Nat), final : Finals, base : Nat, attempts : Nat,
   pid : Nat, seq : Nat, closed : BOOLEAN]
RequestRec == [id : Nat, tp : Partition, res : Results, base : Nat]
NumberRec  == [first : Nat, next : Nat, base : Nat]

Types ==
  /\ mode \in Mode /\ sent \in Nat /\ batch \in Seq(BatchRec) /\ dq \in [Partition -> Seq(Nat)]
  /\ flight \subseteq RequestRec /\ IsFiniteSet(flight)
  /\ pid \in Nat /\ fresh \in Nat /\ horizon \in Nat /\ pid < fresh
  /\ seqno \in [Partition -> Nat] /\ log \in [Partition -> Seq(Nat)]
  /\ DOMAIN known = Partition
  /\ \A p \in Partition : \A id \in DOMAIN known[p] : known[p][id] \in NumberRec

In(s, x) == \E i \in 1 .. Len(s) : s[i] = x

QueuesHold ==
  \A p \in Partition : \A i \in 1 .. Len(dq[p]) :
    /\ dq[p][i] \in All /\ batch[dq[p][i]].tp = p /\ ~Done(dq[p][i])
    /\ \A j \in 1 .. Len(dq[p]) : dq[p][j] = dq[p][i] => i = j
RequestsHold ==
  \A f \in flight :
    /\ f.id \in All /\ batch[f.id].tp = f.tp /\ batch[f.id].closed /\ ~In(dq[f.tp], f.id)
    /\ \A g \in flight : g.id = f.id => f = g
OpenUntouched ==
  \A b \in All : ~batch[b].closed => batch[b].attempts = 0 /\ batch[b].pid = 0
Pending == incomplete \subseteq All /\ \A b \in All : ~Done(b) => b \in incomplete

RecordsHold ==
  \A b \in All :
    /\ Len(batch[b].recs) >= 1
    /\ \A i \in 1 .. Len(batch[b].recs) : batch[b].recs[i] <= sent
    /\ \A i, j \in 1 .. Len(batch[b].recs) : i < j => batch[b].recs[i] < batch[b].recs[j]
Apart ==
  \A b, c \in All : b < c =>
    \A i \in 1 .. Len(batch[b].recs), j \in 1 .. Len(batch[c].recs) :
      /\ batch[b].recs[i] # batch[c].recs[j]
      /\ batch[b].tp = batch[c].tp => batch[b].recs[i] < batch[c].recs[j]
RoomIsLast ==
  \A b \in All : HasRoom(b) =>
    LET q == dq[batch[b].tp] IN Len(q) > 0 /\ q[Len(q)] = b
NewestHasRoom ==
  \A b, c \in All : b < c /\ batch[b].tp = batch[c].tp => ~HasRoom(b)

LogIsOfBatches ==
  \A p \in Partition : \A i \in 1 .. Len(log[p]) :
    \E b \in All : batch[b].tp = p /\ batch[b].closed /\ In(batch[b].recs, log[p][i])
LiesAt(l, base, recs) ==
  \A k \in 1 .. Len(recs) : base + k <= Len(l) /\ l[base + k] = recs[k]
AnswersTrue ==
  /\ \A f \in flight : f.res = "ok" => LiesAt(log[f.tp], f.base, batch[f.id].recs)
  /\ \A b \in All : batch[b].final = "ok" =>
       batch[b].closed /\ LiesAt(log[batch[b].tp], batch[b].base, batch[b].recs)

OneInFlight ==
  Ordered =>
    /\ \A p \in Partition : \A i, j \in 1 .. Len(dq[p]) : i < j => dq[p][i] < dq[p][j]
    /\ \A p \in Partition : p \in muted <=> \E f \in flight : f.tp = p
    /\ \A f, g \in flight : f.tp = g.tp => f = g
    /\ \A f \in flight : \A i \in 1 .. Len(dq[f.tp]) : f.id < dq[f.tp][i]
LogInOrder ==
  Ordered => \A p \in Partition : \A i \in 1 .. Len(log[p]) : \A b \in All :
    In(batch[b].recs, log[p][i]) =>
      /\ \A j \in 1 .. Len(log[p]) : \A c \in All :
           i < j /\ In(batch[c].recs, log[p][j]) => b <= c
      /\ \A j \in 1 .. Len(dq[p]) : b <= dq[p][j]
      /\ \A f \in flight : f.tp = p => b <= f.id

Num(p) == Numbers(p, pid)
Unwritten(l, recs) == \A i \in 1 .. Len(l), k \in 1 .. Len(recs) : l[i] # recs[k]
Fits(n, s) == n = Fresh \/ n.next = s
Written(l, n, b) == n.first = b.seq /\ n.next = b.seq + Len(b.recs) /\ LiesAt(l, n.base, b.recs)
Trace(l, n, s, b) == b.seq = s /\ (Written(l, n, b) \/ (Unwritten(l, b.recs) /\ Fits(n, s)))

OneId ==
  /\ \A b \in All : batch[b].pid \in {0, pid}
  /\ \A p \in Partition : \A id \in DOMAIN known[p] : id = pid /\ pid # 0
\* Of the i-th batch of a queue.
Waits(p, i) ==
  LET b == batch[dq[p][i]]
  IN  /\ b.attempts = 0 => b.pid = 0 /\ Unwritten(log[p], b.recs)
      /\ b.attempts # 0 =>
           /\ i = 1 /\ b.pid = pid /\ pid # 0 /\ b.closed /\ dq[p][i] > horizon
           /\ \A f \in flight : f.tp # p
           /\ Trace(log[p], Num(p), seqno[p], b)
QueueTrace == \A p \in Partition : \A i \in 1 .. Len(dq[p]) : Waits(p, i)
\* Of a request with the batch b: the log, the broker's numbers, the code's
\* number, its producer id, and the batches that have reached their timeout.
Answer(f, b, l, n, s, id, h) ==
  /\ b.pid = id /\ id # 0 /\ f.res # "out_of_order"
  /\ b.attempts # 0 => b.final = "none" /\ f.id > h
  /\ f.res \in {"none", "retriable"} =>
       Trace(l, n, s, b) /\ (b.attempts = 0 => Unwritten(l, b.recs))
  /\ f.res = "retriable" /\ b.attempts # 0 => b.attempts < Retries
  /\ f.res = "ok" => b.seq = s /\ (Written(l, n, b) \/ (b.final # "none" /\ n = Fresh))
  /\ f.res = "lost" => Trace(l, n, s, b) /\ b.attempts < Retries /\ f.id > h /\ b.final = "none"
  /\ f.res = "fatal" => b.seq = s /\ Unwritten(l, b.recs) /\ Fits(n, s) /\ b.attempts = 0
  /\ f.res = "unknown_producer" => Unwritten(l, b.recs) /\ n = Fresh
FlightTrace ==
  \A f \in flight :
    Answer(f, batch[f.id], log[f.tp], Num(f.tp), seqno[f.tp], pid, horizon)
Rises(p) == \A i, j \in 1 .. Len(log[p]) : i < j => log[p][i] < log[p][j]
Rising   == \A p \in Partition : Rises(p)
\* With nothing under way the next number is the one the broker waits for.
Rests(p) ==
  (\A f \in flight : f.tp # p) /\ (dq[p] = <<>> \/ batch[dq[p][1]].attempts = 0)
    => Fits(Num(p), seqno[p])
AtRest == Runs => \A p \in Partition : Rests(p)

Promise ==
  flush.on => flush.upto \in 0 .. sent /\ \A b \in All :
    ~Done(b) /\ batch[b].recs[1] <= flush.upto => b \in flush.waits

-----------------------------------------------------------------------------
(* Sequences                                                               *)

LEMMA WellOrdered ==
  ASSUME NEW T, T \subseteq Nat, T # {}
  PROVE  \E x \in T : \A y \in T : x <= y
<1> DEFINE R == {ss \in Nat \X Nat : ss[1] < ss[2]}
<1>1. IsWellFoundedOn(R, Nat) BY NatLessThanWellFounded DEF OpToRel
<1>2. \A x, y \in Nat : y < x => <<y, x>> \in R OBVIOUS
<1> HIDE DEF R
<1>3. \E x \in T : \A y \in T : ~ (<<y, x>> \in R) BY <1>1, WFMin
<1>4. PICK x \in T : \A y \in T : ~ (<<y, x>> \in R) BY <1>3
<1>5. \A y \in T : ~ (y < x) BY <1>4, <1>2
<1> QED BY <1>5

\* Of a sequence the first elements have expired, up to the first that has not.
LEMMA Prefix ==
  ASSUME NEW q \in Seq(Nat), horizon \in Nat
  PROVE  \E n \in 0 .. Len(q) :
           /\ Overdue(q) = 1 .. n
           /\ \A i \in 1 .. n : q[i] <= horizon
           /\ n < Len(q) => q[n + 1] > horizon
           /\ ExpiredHead(q) = {q[i] : i \in 1 .. n}
           /\ Unexpired(q) \in Seq(Nat) /\ Len(Unexpired(q)) = Len(q) - n
           /\ \A i \in 1 .. Len(q) - n : Unexpired(q)[i] = q[i + n]
<1>1. Len(q) \in Nat /\ \A i \in 1 .. Len(q) : q[i] \in Nat OBVIOUS
<1> DEFINE T == {j \in 1 .. Len(q) : q[j] > horizon} \cup {Len(q) + 1}
<1>2. PICK m \in T : \A j \in T : m <= j
  <2>1. T \subseteq Nat /\ T # {} BY <1>1
  <2> QED BY <2>1, WellOrdered
<1>3. m \in 1 .. Len(q) + 1 BY <1>1
<1>4. \A i \in 1 .. Len(q) : i < m => q[i] <= horizon BY <1>1, <1>2, <1>3
<1>5. m <= Len(q) => q[m] > horizon BY <1>1, <1>3
<1> DEFINE n == m - 1
<1>6. n \in 0 .. Len(q) BY <1>1, <1>3
<1>7. Overdue(q) = 1 .. n
  <2>1. \A i \in 1 .. n : i \in Overdue(q) BY <1>1, <1>3, <1>4 DEF Overdue
  <2>2. \A i \in Overdue(q) : i \in 1 .. n BY <1>1, <1>3, <1>5 DEF Overdue
  <2> QED BY <2>1, <2>2
<1>8. Cardinality(Overdue(q)) = n BY <1>6, <1>7, FS_Interval
<1>9. ExpiredHead(q) = {q[i] : i \in 1 .. n} BY <1>7 DEF ExpiredHead
<1>10. /\ Unexpired(q) \in Seq(Nat) /\ Len(Unexpired(q)) = Len(q) - n
       /\ \A i \in 1 .. Len(q) - n : Unexpired(q)[i] = q[i + n]
  <2>1. Unexpired(q) = SubSeq(q, m, Len(q)) BY <1>1, <1>3, <1>8 DEF Unexpired
  <2>2. \A i \in m .. Len(q) : q[i] \in Nat BY <1>1, <1>3
  <2>3. m \in Int /\ Len(q) \in Int BY <1>1, <1>3
  <2>4. /\ SubSeq(q, m, Len(q)) \in Seq(Nat)
        /\ Len(SubSeq(q, m, Len(q))) = IF m <= Len(q) THEN Len(q) - m + 1 ELSE 0
        /\ \A i \in 1 .. Len(q) - m + 1 : SubSeq(q, m, Len(q))[i] = q[m + i - 1]
    BY <2>2, <2>3, SubSeqProperties
  <2> QED BY <2>1, <2>4, <1>1, <1>3
<1> QED BY SMTT(40), <1>3, <1>4, <1>5, <1>6, <1>7, <1>9, <1>10

\* What holds of queues, requests, batches and records, whatever happens.
SInv ==
  /\ Types /\ QueuesHold /\ RequestsHold /\ OpenUntouched /\ Pending /\ RecordsHold /\ Apart
  /\ RoomIsLast /\ NewestHasRoom /\ LogIsOfBatches

LEMMA Typed ==
  ASSUME Types
  PROVE  /\ Len(batch) \in Nat /\ All = 1 .. Len(batch) /\ \A b \in All : batch[b] \in BatchRec
         /\ \A b \in All : /\ batch[b].tp \in Partition /\ batch[b].recs \in Seq(Nat)
                           /\ Len(batch[b].recs) \in Nat
                           /\ \A i \in 1 .. Len(batch[b].recs) : batch[b].recs[i] \in Nat
                           /\ batch[b].final \in Finals /\ batch[b].base \in Nat
                           /\ batch[b].attempts \in Nat /\ batch[b].pid \in Nat
                           /\ batch[b].seq \in Nat /\ batch[b].closed \in BOOLEAN
         /\ \A p \in Partition : /\ dq[p] \in Seq(Nat) /\ Len(dq[p]) \in Nat
                                 /\ \A i \in 1 .. Len(dq[p]) : dq[p][i] \in Nat
                                 /\ seqno[p] \in Nat /\ log[p] \in Seq(Nat) /\ Len(log[p]) \in Nat
                                 /\ \A i \in 1 .. Len(log[p]) : log[p][i] \in Nat
         /\ \A f \in flight : f \in RequestRec /\ f.id \in Nat /\ f.tp \in Partition
                              /\ f.res \in Results /\ f.base \in Nat
<1>1. Len(batch) \in Nat /\ All = 1 .. Len(batch) /\ \A b \in All : batch[b] \in BatchRec
  BY DEF Types, All
<1>2. \A b \in All : batch[b].tp \in Partition /\ batch[b].recs \in Seq(Nat)
                     /\ batch[b].final \in Finals /\ batch[b].base \in Nat
                     /\ batch[b].attempts \in Nat /\ batch[b].pid \in Nat
                     /\ batch[b].seq \in Nat /\ batch[b].closed \in BOOLEAN
  BY <1>1 DEF BatchRec
<1>3. \A s \in Seq(Nat) : Len(s) \in Nat /\ \A i \in 1 .. Len(s) : s[i] \in Nat OBVIOUS
<1>4. \A p \in Partition : dq[p] \in Seq(Nat) /\ seqno[p] \in Nat /\ log[p] \in Seq(Nat)
  BY DEF Types
<1>5. \A f \in flight : f \in RequestRec /\ f.id \in Nat /\ f.tp \in Partition
                        /\ f.res \in Results /\ f.base \in Nat
  BY DEF Types, RequestRec
<1>6. \A b \in All : Len(batch[b].recs) \in Nat
                     /\ \A i \in 1 .. Len(batch[b].recs) : batch[b].recs[i] \in Nat
  BY <1>2, <1>3
<1>7. \A p \in Partition : /\ Len(dq[p]) \in Nat /\ \A i \in 1 .. Len(dq[p]) : dq[p][i] \in Nat
                           /\ Len(log[p]) \in Nat /\ \A i \in 1 .. Len(log[p]) : log[p][i] \in Nat
  BY <1>3, <1>4
<1> QED BY <1>1, <1>2, <1>4, <1>5, <1>6, <1>7

\* A step that leaves records and queues alone keeps what holds of them.
LEMMA QuietKeeps ==
  ASSUME SInv, Types', UNCHANGED <<mode, sent, batch, dq, incomplete, log>>, RequestsHold'
  PROVE  SInv'
<1>1. All' = All /\ \A b : Done(b)' = Done(b) /\ HasRoom(b)' = HasRoom(b)
  BY DEF All, Done, HasRoom
<1>2. QueuesHold' BY <1>1 DEF SInv, QueuesHold
<1>3. OpenUntouched' /\ Pending' BY <1>1 DEF SInv, OpenUntouched, Pending
<1>4. RecordsHold' /\ Apart' BY <1>1 DEF SInv, RecordsHold, Apart
<1>5. RoomIsLast' /\ NewestHasRoom' BY <1>1 DEF SInv, RoomIsLast, NewestHasRoom
<1>6. LogIsOfBatches' BY <1>1 DEF SInv, LogIsOfBatches
<1> QED BY <1>2, <1>3, <1>4, <1>5, <1>6 DEF SInv

LEMMA SameRequests ==
  ASSUME RequestsHold, UNCHANGED <<batch, dq, flight>>
  PROVE  RequestsHold'
BY DEF RequestsHold, All

\* An answer takes the place of the request.
LEMMA AnsweredKeeps ==
  ASSUME Types, RequestsHold, NEW f \in flight, NEW res \in Results, NEW base \in Nat,
         Answered(f, res, base), UNCHANGED <<batch, dq>>
  PROVE  \E g \in RequestRec :
           /\ g.id = f.id /\ g.tp = f.tp /\ g.res = res /\ g.base = base
           /\ flight' = (flight \ {f}) \cup {g}
           /\ flight' \subseteq RequestRec /\ IsFiniteSet(flight') /\ RequestsHold'
<1>1. f \in RequestRec BY DEF Types
<1>2. PICK g : g = [f EXCEPT !.res = res, !.base = base] OBVIOUS
<1>3. g \in RequestRec /\ g.id = f.id /\ g.tp = f.tp /\ g.res = res /\ g.base = base
  BY <1>1, <1>2 DEF RequestRec
<1>4. flight' = (flight \ {f}) \cup {g} BY <1>2 DEF Answered
<1>5. flight' \subseteq RequestRec BY <1>3, <1>4 DEF Types
<1>6. IsFiniteSet(flight')
  <2>1. IsFiniteSet(flight \ {f}) BY FS_Subset DEF Types
  <2> QED BY <2>1, <1>4, FS_AddElement
<1>7. RequestsHold'
  <2>1. All' = All BY DEF All
  <2>2. \A h \in flight' : \E k \in flight : k.id = h.id /\ k.tp = h.tp /\ (h = k \/ (h = g /\ k = f))
    BY <1>3, <1>4
  <2>3. \A h \in flight' : h.id \in All' /\ batch'[h.id].tp = h.tp /\ batch'[h.id].closed
                           /\ ~In(dq'[h.tp], h.id)
    BY <2>1, <2>2 DEF RequestsHold
  <2>4. \A h, k \in flight' : h.id = k.id => h = k
    BY <1>3, <1>4 DEF RequestsHold
  <2> QED BY <2>3, <2>4 DEF RequestsHold
<1> QED BY <1>3, <1>4, <1>5, <1>6, <1>7

-----------------------------------------------------------------------------
(* A record is sent                                                        *)

\* A batch has one more record.
Longer(bs, cs, t, r) ==
  /\ cs \in Seq(BatchRec) /\ Len(cs) = Len(bs)
  /\ \A b \in 1 .. Len(bs) :
       /\ b # t => cs[b] = bs[b]
       /\ cs[b].tp = bs[b].tp /\ cs[b].final = bs[b].final /\ cs[b].base = bs[b].base
       /\ cs[b].attempts = bs[b].attempts /\ cs[b].pid = bs[b].pid /\ cs[b].seq = bs[b].seq
       /\ cs[b].closed = bs[b].closed
  /\ Len(cs[t].recs) = Len(bs[t].recs) + 1
  /\ \A i \in 1 .. Len(bs[t].recs) : cs[t].recs[i] = bs[t].recs[i]
  /\ cs[t].recs[Len(bs[t].recs) + 1] = r

LEMMA RoomTaken ==
  ASSUME NEW bs \in Seq(BatchRec), NEW t \in 1 .. Len(bs), NEW x \in Nat
  PROVE  Longer(bs, [bs EXCEPT ![t].recs = Append(@, x)], t, x)
<1>0. bs[t] \in BatchRec OBVIOUS
<1>1. bs[t] \in BatchRec /\ bs[t].recs \in Seq(Nat) BY <1>0 DEF BatchRec
<1>s. PICK s : s = Append(bs[t].recs, x) OBVIOUS
<1>2. /\ s \in Seq(Nat) /\ Len(s) = Len(bs[t].recs) + 1
      /\ \A i \in 1 .. Len(bs[t].recs) : s[i] = bs[t].recs[i]
      /\ s[Len(bs[t].recs) + 1] = x
  BY <1>s, <1>1, AppendProperties
<1>a. PICK r : r = [bs[t] EXCEPT !.recs = s] OBVIOUS
<1>3. /\ r \in BatchRec /\ r.recs = s /\ r.tp = bs[t].tp /\ r.final = bs[t].final
      /\ r.base = bs[t].base /\ r.attempts = bs[t].attempts
      /\ r.pid = bs[t].pid /\ r.seq = bs[t].seq /\ r.closed = bs[t].closed
  BY <1>a, <1>1, <1>2 DEF BatchRec
<1>b. PICK cs : cs = [bs EXCEPT ![t] = r] OBVIOUS
<1>4. /\ cs \in Seq(BatchRec) /\ Len(cs) = Len(bs)
      /\ \A b \in 1 .. Len(bs) : cs[b] = IF b = t THEN r ELSE bs[b]
  <2>1. r \in BatchRec BY <1>3
  <2> QED BY <1>b, <2>1, ExceptSeq
<1>5. Longer(bs, cs, t, x) BY <1>2, <1>3, <1>4 DEF Longer
<1>6. cs = [bs EXCEPT ![t].recs = Append(@, x)] BY <1>a, <1>b, <1>s
<1> QED BY <1>5, <1>6

LEMMA RoomTakenKeeps ==
  ASSUME SInv, NEW t \in All, NEW p \in Partition,
         Len(dq[p]) > 0, t = dq[p][Len(dq[p])], HasRoom(t),
         Longer(batch, batch', t, sent + 1), sent' = sent + 1,
         UNCHANGED <<dq, incomplete, mode, flight, log, known, pid, fresh, horizon, seqno>>
  PROVE  SInv'
<1>1. /\ batch[t].tp = p
      /\ batch' \in Seq(BatchRec) /\ Len(batch') = Len(batch)
      /\ \A b \in All :
           /\ b # t => batch'[b] = batch[b]
           /\ batch'[b].tp = batch[b].tp /\ batch'[b].final = batch[b].final
           /\ batch'[b].base = batch[b].base /\ batch'[b].attempts = batch[b].attempts
           /\ batch'[b].pid = batch[b].pid /\ batch'[b].seq = batch[b].seq
           /\ batch'[b].closed = batch[b].closed
      /\ Len(batch'[t].recs) = Len(batch[t].recs) + 1
      /\ \A i \in 1 .. Len(batch[t].recs) : batch'[t].recs[i] = batch[t].recs[i]
      /\ batch'[t].recs[Len(batch[t].recs) + 1] = sent + 1
  <2>1. Len(dq[p]) \in 1 .. Len(dq[p]) BY Typed DEF SInv
  <2>2. batch[t].tp = p BY <2>1 DEF SInv, QueuesHold
  <2> QED BY <2>2 DEF Longer, All
<1>2. All' = All /\ All = 1 .. Len(batch) /\ Len(batch) \in Nat
  BY <1>1, Typed DEF All, SInv
<1>3. \A b \in All : Done(b)' <=> Done(b) BY <1>1 DEF Done
<1>4. \A b \in All : Len(batch[b].recs) \in Nat
                     /\ \A i \in 1 .. Len(batch[b].recs) : batch[b].recs[i] \in Nat
  BY Typed DEF SInv
<1>5. sent \in Nat BY DEF SInv, Types
<1>n. PICK n : n = Len(batch[t].recs) OBVIOUS
<1>a. n \in Nat BY <1>n, <1>4
<1>b. \A b \in All : b # t => batch'[b] = batch[b] BY <1>1
<1>c. /\ Len(batch'[t].recs) = n + 1 /\ batch'[t].recs[n + 1] = sent + 1
      /\ \A i \in 1 .. n : batch'[t].recs[i] = batch[t].recs[i]
  BY <1>1, <1>n
<1>t. \A b \in All : batch'[b].tp = batch[b].tp /\ batch'[b].closed = batch[b].closed BY <1>1
\* What is new in a batch is larger than all that was sent before.
<1>6. \A b \in All : \A i \in 1 .. Len(batch'[b].recs) :
        \/ i \in 1 .. Len(batch[b].recs) /\ batch'[b].recs[i] = batch[b].recs[i]
        \/ b = t /\ i = n + 1 /\ batch'[b].recs[i] = sent + 1
  <2>1. \A i \in 1 .. n + 1 : i \in 1 .. n \/ i = n + 1 BY <1>a
  <2>2. \A i \in 1 .. Len(batch'[t].recs) :
          \/ i \in 1 .. n /\ batch'[t].recs[i] = batch[t].recs[i]
          \/ i = n + 1 /\ batch'[t].recs[i] = sent + 1
    BY <1>c, <2>1
  <2> QED BY <2>2, <1>b, <1>n
<1>7. \A b \in All : \A i \in 1 .. Len(batch[b].recs) :
        i \in 1 .. Len(batch'[b].recs) /\ batch'[b].recs[i] = batch[b].recs[i]
  <2>1. \A i \in 1 .. n : i \in 1 .. n + 1 BY <1>a
  <2> QED BY <2>1, <1>b, <1>c, <1>n
<1>8. \A b \in All : Len(batch'[b].recs) >= Len(batch[b].recs)
  <2>1. Len(batch'[t].recs) >= Len(batch[t].recs) BY <1>a, <1>c, <1>n
  <2> QED BY <2>1, <1>b, <1>4
<1>9. Types'
  <2>1. Types BY DEF SInv
  <2>2. batch' \in Seq(BatchRec) BY <1>1
  <2>3. sent' \in Nat BY <1>5
  <2> QED BY <2>1, <2>2, <2>3 DEF Types
<1>10. QueuesHold'
  <2>1. \A q \in Partition : \A i \in 1 .. Len(dq[q]) :
          /\ dq[q][i] \in All /\ batch[dq[q][i]].tp = q /\ ~Done(dq[q][i])
          /\ \A j \in 1 .. Len(dq[q]) : dq[q][j] = dq[q][i] => i = j
    BY DEF SInv, QueuesHold
  <2>2. dq' = dq OBVIOUS
  <2>3. \A q \in Partition : \A i \in 1 .. Len(dq[q]) :
          /\ dq[q][i] \in All' /\ batch'[dq[q][i]].tp = q /\ ~Done(dq[q][i])'
    BY ZenonT(40), <2>1, <2>2, <1>2, <1>3, <1>t
  <2> QED BY <2>1, <2>2, <2>3 DEF QueuesHold
<1>11. RequestsHold' BY ZenonT(40), <1>1, <1>2 DEF SInv, RequestsHold
<1>12. OpenUntouched' /\ Pending'
  <2>1. OpenUntouched /\ Pending BY DEF SInv
  <2>2. incomplete' = incomplete OBVIOUS
  <2>3. \A b \in All : batch'[b].attempts = batch[b].attempts /\ batch'[b].pid = batch[b].pid
    BY <1>1
  <2>4. OpenUntouched' BY <2>1, <2>3, <1>2, <1>t DEF OpenUntouched
  <2> QED BY <2>1, <2>2, <2>4, <1>2, <1>3 DEF Pending
<1>m. \A b \in All : \A i \in 1 .. Len(batch[b].recs) : batch[b].recs[i] \in Nat /\ batch[b].recs[i] <= sent
  BY <1>4 DEF SInv, RecordsHold
<1>13. RecordsHold'
  <2>1. \A b \in All : Len(batch'[b].recs) >= 1
    <3>1. Len(batch'[t].recs) >= 1 BY <1>a, <1>c
    <3>2. \A b \in All : Len(batch[b].recs) >= 1 BY DEF SInv, RecordsHold
    <3> QED BY <3>1, <3>2, <1>b
  <2>3. \A b \in All : \A i \in 1 .. Len(batch'[b].recs) : batch'[b].recs[i] <= sent + 1
    <3>1. \A x \in Nat : x <= sent => x <= sent + 1 BY <1>5
    <3>2. sent + 1 <= sent + 1 BY <1>5
    <3> QED BY <1>6, <1>m, <3>1, <3>2
  <2>4. \A b \in All : \A i, j \in 1 .. Len(batch'[b].recs) : i < j =>
          batch'[b].recs[i] < batch'[b].recs[j]
    <3>1. \A b \in All : b # t => \A i, j \in 1 .. Len(batch'[b].recs) : i < j =>
            batch'[b].recs[i] < batch'[b].recs[j]
      BY <1>b DEF SInv, RecordsHold
    <3>2. \A i, j \in 1 .. n : i < j => batch'[t].recs[i] < batch'[t].recs[j]
      <4>1. \A i, j \in 1 .. n : i < j => batch[t].recs[i] < batch[t].recs[j]
        BY <1>n DEF SInv, RecordsHold
      <4> QED BY <4>1, <1>c
    <3>3. \A i \in 1 .. n : batch'[t].recs[i] < batch'[t].recs[n + 1]
      <4>1. \A i \in 1 .. n : batch'[t].recs[i] \in Nat /\ batch'[t].recs[i] <= sent
        BY <1>c, <1>m, <1>n
      <4>2. batch'[t].recs[n + 1] = sent + 1 BY <1>c
      <4> QED BY <4>1, <4>2, <1>5
    <3>4. \A i, j \in 1 .. n + 1 : i < j => i \in 1 .. n /\ (j \in 1 .. n \/ j = n + 1) BY <1>a
    <3>5. \A i, j \in 1 .. Len(batch'[t].recs) : i < j => batch'[t].recs[i] < batch'[t].recs[j]
      <4>1. Len(batch'[t].recs) = n + 1 BY <1>c
      <4> QED BY <4>1, <3>2, <3>3, <3>4
    <3> QED BY <3>1, <3>5
  <2> QED BY <1>2, <2>1, <2>3, <2>4 DEF RecordsHold
<1>14. Apart'
  <2> SUFFICES ASSUME NEW b \in All, NEW c \in All, b < c,
                      NEW i \in 1 .. Len(batch'[b].recs), NEW j \in 1 .. Len(batch'[c].recs)
               PROVE  /\ batch'[b].recs[i] # batch'[c].recs[j]
                      /\ batch'[b].tp = batch'[c].tp => batch'[b].recs[i] < batch'[c].recs[j]
    BY <1>2 DEF Apart
  <2>0. batch'[b].tp = batch[b].tp /\ batch'[c].tp = batch[c].tp BY <1>t
  <2> DEFINE x == batch'[b].recs[i]
             y == batch'[c].recs[j]
  <2>1. CASE i \in 1 .. Len(batch[b].recs) /\ x = batch[b].recs[i]
             /\ j \in 1 .. Len(batch[c].recs) /\ y = batch[c].recs[j]
    BY <2>0, <2>1 DEF SInv, Apart
  <2>2. CASE c = t /\ y = sent + 1
    <3>1. b # t BY <2>2, <1>2
    <3>2. x \in Nat /\ x <= sent BY <3>1, <1>6, <1>m
    <3> HIDE DEF x, y
    <3>3. x # y /\ x < y BY <3>2, <2>2, <1>5
    <3> QED BY <3>3 DEF x, y
  <2>3. CASE b = t /\ x = sent + 1
    <3>1. c # t BY <2>3, <1>2
    <3>2. y \in Nat /\ y <= sent BY <3>1, <1>6, <1>m
    <3>3. batch'[b].tp # batch'[c].tp BY <2>0, <2>3 DEF SInv, NewestHasRoom
    <3> HIDE DEF x, y
    <3>4. x # y BY <3>2, <2>3, <1>5
    <3> QED BY <3>3, <3>4 DEF x, y
  <2> QED BY <2>1, <2>2, <2>3, <1>6
<1>15. \A b \in All : HasRoom(b)' => HasRoom(b)
  <2>1. BatchSize \in Nat BY BoundAssumption
  <2>2. \A b \in All : Len(batch'[b].recs) \in Nat BY <1>4, <1>a, <1>b, <1>c
  <2> QED BY <1>t, <1>4, <1>8, <2>1, <2>2 DEF HasRoom
<1>16. RoomIsLast' BY <1>t, <1>2, <1>15 DEF SInv, RoomIsLast
<1>17. NewestHasRoom' BY <1>t, <1>2, <1>15 DEF SInv, NewestHasRoom
<1>18. LogIsOfBatches'
  <2>1. \A b \in All : \A x : In(batch[b].recs, x) => In(batch'[b].recs, x)
    BY <1>7 DEF In
  <2>2. log' = log BY DEF vars
  <2> SUFFICES ASSUME NEW q \in Partition, NEW i \in 1 .. Len(log[q])
               PROVE  \E b \in All : batch'[b].tp = q /\ batch'[b].closed /\ In(batch'[b].recs, log[q][i])
    BY <1>2, <2>2 DEF LogIsOfBatches
  <2>3. PICK b \in All : batch[b].tp = q /\ batch[b].closed /\ In(batch[b].recs, log[q][i])
    BY DEF SInv, LogIsOfBatches
  <2> QED BY <2>1, <2>3, <1>t
<1> QED BY <1>9, <1>10, <1>11, <1>12, <1>13, <1>14, <1>16, <1>17, <1>18 DEF SInv

\* There is one more batch, at the end of its queue.
Created(bs, cs, p, r) ==
  /\ cs \in Seq(BatchRec) /\ Len(cs) = Len(bs) + 1
  /\ \A b \in 1 .. Len(bs) : cs[b] = bs[b]
  /\ cs[Len(bs) + 1].tp = p /\ cs[Len(bs) + 1].final = "none"
  /\ cs[Len(bs) + 1].attempts = 0 /\ cs[Len(bs) + 1].pid = 0
  /\ ~cs[Len(bs) + 1].closed
  /\ Len(cs[Len(bs) + 1].recs) = 1 /\ cs[Len(bs) + 1].recs[1] = r
Enqueued(ds, es, p, b) ==
  /\ es \in [Partition -> Seq(Nat)]
  /\ \A q \in Partition : q # p => es[q] = ds[q]
  /\ Len(es[p]) = Len(ds[p]) + 1 /\ es[p][Len(ds[p]) + 1] = b
  /\ \A i \in 1 .. Len(ds[p]) : es[p][i] = ds[p][i]

LEMMA BatchCreated ==
  ASSUME NEW bs \in Seq(BatchRec), NEW p \in Partition, NEW r \in Nat
  PROVE  Created(bs, Append(bs, NewBatch(p, r)), p, r)
<1>1. PICK c : c = NewBatch(p, r) OBVIOUS
<1>2. <<r>> \in Seq(Nat) /\ Len(<<r>>) = 1 /\ <<r>>[1] = r OBVIOUS
<1>3. /\ c.tp = p /\ c.final = "none" /\ c.attempts = 0 /\ c.pid = 0 /\ c.closed = FALSE
      /\ c.recs = <<r>> /\ c \in BatchRec
  BY <1>1, <1>2 DEF NewBatch, BatchRec, Finals
<1>4. PICK cs : cs = Append(bs, c) OBVIOUS
<1>5. /\ cs \in Seq(BatchRec) /\ Len(cs) = Len(bs) + 1
      /\ \A b \in 1 .. Len(bs) : cs[b] = bs[b]
      /\ cs[Len(bs) + 1] = c
  <2>1. c \in BatchRec BY <1>3
  <2> QED BY <1>4, <2>1, AppendProperties
<1>6. Created(bs, cs, p, r) BY <1>2, <1>3, <1>5 DEF Created
<1> QED BY <1>1, <1>4, <1>6

LEMMA QueueExtended ==
  ASSUME NEW ds \in [Partition -> Seq(Nat)], NEW p \in Partition, NEW b \in Nat
  PROVE  Enqueued(ds, [ds EXCEPT ![p] = Append(@, b)], p, b)
<1>1. ds[p] \in Seq(Nat) OBVIOUS
<1>2. PICK s : s = Append(ds[p], b) OBVIOUS
<1>3. /\ s \in Seq(Nat) /\ Len(s) = Len(ds[p]) + 1 /\ s[Len(ds[p]) + 1] = b
      /\ \A i \in 1 .. Len(ds[p]) : s[i] = ds[p][i]
  BY <1>1, <1>2, AppendProperties
<1>4. PICK es : es = [ds EXCEPT ![p] = s] OBVIOUS
<1>5. es \in [Partition -> Seq(Nat)] /\ es[p] = s /\ \A q \in Partition : q # p => es[q] = ds[q]
  BY <1>3, <1>4
<1>6. Enqueued(ds, es, p, b) BY <1>3, <1>5 DEF Enqueued
<1> QED BY <1>2, <1>4, <1>6

LEMMA CreatedKeeps ==
  ASSUME SInv, NEW p \in Partition, NEW c, c = Len(batch) + 1,
         dq[p] # <<>> => ~HasRoom(Last(dq[p])),
         Created(batch, batch', p, sent + 1), Enqueued(dq, dq', p, c),
         incomplete' = incomplete \cup {c}, sent' = sent + 1,
         UNCHANGED <<mode, flight, log, known, pid, fresh, horizon, seqno>>
  PROVE  SInv'
<1>1. Len(batch) \in Nat /\ All = 1 .. Len(batch) BY Typed DEF SInv
<1>2. /\ batch' \in Seq(BatchRec) /\ Len(batch') = c
      /\ \A b \in All : batch'[b] = batch[b]
  BY <1>1 DEF Created
<1>3. /\ batch'[c].tp = p /\ batch'[c].final = "none" /\ batch'[c].attempts = 0
      /\ batch'[c].pid = 0 /\ ~batch'[c].closed
      /\ Len(batch'[c].recs) = 1 /\ batch'[c].recs[1] = sent + 1
  BY DEF Created
<1>4. All' = 1 .. c /\ c \in Nat BY <1>1, <1>2 DEF All
<1>5. \A b \in All' : b \in All \/ b = c BY <1>1, <1>4
<1>6. \A b \in All : b \in All' /\ b # c /\ b < c BY <1>1, <1>4
<1>7. c \in All' BY <1>1, <1>4
<1>8. /\ dq' \in [Partition -> Seq(Nat)] /\ \A q \in Partition : q # p => dq'[q] = dq[q]
      /\ Len(dq'[p]) = Len(dq[p]) + 1 /\ dq'[p][Len(dq[p]) + 1] = c
      /\ \A i \in 1 .. Len(dq[p]) : dq'[p][i] = dq[p][i]
  BY DEF Enqueued
<1>n. PICK n : n = Len(dq[p]) OBVIOUS
<1>a. n \in Nat BY <1>n, Typed DEF SInv
<1>b. \A i \in 1 .. Len(dq'[p]) : (i \in 1 .. n /\ dq'[p][i] = dq[p][i]) \/ (i = n + 1 /\ dq'[p][i] = c)
  <2>1. \A i \in 1 .. n + 1 : i \in 1 .. n \/ i = n + 1 BY <1>a
  <2> QED BY <2>1, <1>8, <1>n
<1>s. sent \in Nat BY DEF SInv, Types
<1>9. Types' BY <1>2, <1>8, <1>s DEF SInv, Types
<1>10. \A b \in All : Done(b)' <=> Done(b) BY <1>2 DEF Done
<1>11. ~Done(c)' BY <1>3 DEF Done
<1>12. QueuesHold'
  <2> SUFFICES ASSUME NEW q \in Partition, NEW i \in 1 .. Len(dq'[q])
               PROVE  /\ dq'[q][i] \in All' /\ batch'[dq'[q][i]].tp = q
                      /\ batch'[dq'[q][i]].final = "none"
                      /\ \A j \in 1 .. Len(dq'[q]) : dq'[q][j] = dq'[q][i] => i = j
    BY DEF QueuesHold, Done
  <2>0. \A r \in Partition : \A j \in 1 .. Len(dq[r]) :
          dq[r][j] \in All /\ batch[dq[r][j]].tp = r /\ batch[dq[r][j]].final = "none"
    BY DEF SInv, QueuesHold, Done
  <2>1. CASE q # p
    <3>1. dq'[q] = dq[q] BY <2>1, <1>8
    <3>2. \A j \in 1 .. Len(dq[q]) : dq[q][j] = dq[q][i] => i = j
      BY <3>1 DEF SInv, QueuesHold
    <3> QED BY <3>1, <3>2, <2>0, <1>2, <1>6
  <2>2. CASE q = p /\ i \in 1 .. n /\ dq'[p][i] = dq[p][i]
    <3>1. dq[p][i] \in All /\ batch[dq[p][i]].tp = p /\ batch[dq[p][i]].final = "none"
      BY <2>0, <2>2, <1>n
    <3>2. \A j \in 1 .. Len(dq[p]) : dq[p][j] = dq[p][i] => i = j
      BY <2>2, <1>n DEF SInv, QueuesHold
    <3>3. \A j \in 1 .. Len(dq'[p]) : dq'[p][j] = dq[p][i] => i = j
      BY <3>1, <3>2, <1>6, <1>b, <1>n
    <3> QED BY <3>1, <3>3, <2>2, <1>2, <1>6
  <2>3. CASE q = p /\ i = n + 1 /\ dq'[p][i] = c
    <3>1. \A j \in 1 .. Len(dq'[p]) : dq'[p][j] = c => j = n + 1
      BY <2>0, <1>6, <1>b, <1>n
    <3> QED BY <3>1, <2>3, <1>3, <1>7
  <2> QED BY <2>1, <2>2, <2>3, <1>b
<1>13. RequestsHold'
  <2> SUFFICES ASSUME NEW f \in flight
               PROVE  /\ f.id \in All' /\ batch'[f.id].tp = f.tp /\ batch'[f.id].closed
                      /\ ~In(dq'[f.tp], f.id) /\ \A g \in flight : g.id = f.id => f = g
    BY DEF RequestsHold
  <2>1. /\ f.id \in All /\ batch[f.id].tp = f.tp /\ batch[f.id].closed
        /\ ~In(dq[f.tp], f.id) /\ \A g \in flight : g.id = f.id => f = g
    BY DEF SInv, RequestsHold
  <2>2. f.tp \in Partition BY Typed DEF SInv
  <2>3. ~In(dq'[f.tp], f.id)
    <3>1. CASE f.tp # p BY <3>1, <2>1, <2>2, <1>8
    <3>2. CASE f.tp = p BY <3>2, <2>1, <1>b, <1>n, <1>6 DEF In
    <3> QED BY <3>1, <3>2
  <2> QED BY <2>1, <2>3, <1>2, <1>6
<1>14. OpenUntouched' BY <1>2, <1>3, <1>5 DEF SInv, OpenUntouched
<1>15. Pending' BY <1>5, <1>6, <1>7, <1>10 DEF SInv, Pending
<1>m. \A b \in All : \A i \in 1 .. Len(batch[b].recs) : batch[b].recs[i] \in Nat /\ batch[b].recs[i] <= sent
  BY Typed DEF SInv, RecordsHold
<1>16. RecordsHold'
  <2>1. \A b \in All : /\ Len(batch[b].recs) >= 1
                       /\ \A i, j \in 1 .. Len(batch[b].recs) : i < j => batch[b].recs[i] < batch[b].recs[j]
    BY DEF SInv, RecordsHold
  <2>2. \A b \in All : \A i \in 1 .. Len(batch[b].recs) : batch[b].recs[i] <= sent + 1
    BY <1>m, <1>s
  <2>3. 1 >= 1 /\ \A i \in 1 .. 1 : i = 1 OBVIOUS
  <2>4. sent + 1 <= sent + 1 BY <1>s
  <2>5. /\ Len(batch'[c].recs) >= 1
        /\ \A i \in 1 .. Len(batch'[c].recs) : batch'[c].recs[i] <= sent + 1
        /\ \A i, j \in 1 .. Len(batch'[c].recs) : i < j => batch'[c].recs[i] < batch'[c].recs[j]
    BY <2>3, <2>4, <1>3
  <2> QED BY <2>1, <2>2, <2>5, <1>2, <1>5 DEF RecordsHold
<1>17. Apart'
  <2> SUFFICES ASSUME NEW b \in All', NEW d \in All', b < d,
                      NEW i \in 1 .. Len(batch'[b].recs), NEW j \in 1 .. Len(batch'[d].recs)
               PROVE  /\ batch'[b].recs[i] # batch'[d].recs[j]
                      /\ batch'[b].tp = batch'[d].tp => batch'[b].recs[i] < batch'[d].recs[j]
    BY DEF Apart
  <2>1. b \in All BY <1>4, <1>5
  <2>2. CASE d \in All
    <3>1. batch'[b] = batch[b] /\ batch'[d] = batch[d] BY <2>1, <2>2, <1>2
    <3> QED BY <3>1, <2>1, <2>2 DEF SInv, Apart
  <2>3. CASE d = c
    <3>1. j = 1 BY <2>3, <1>3
    <3>2. batch'[d].recs[j] = sent + 1 BY <2>3, <3>1, <1>3
    <3>3. batch'[b].recs[i] \in Nat /\ batch'[b].recs[i] <= sent BY <2>1, <1>2, <1>m
    <3> QED BY <3>2, <3>3, <1>s
  <2> QED BY <2>2, <2>3, <1>5
<1>18. \A b \in All : HasRoom(b)' <=> HasRoom(b) BY <1>2 DEF HasRoom
\* Before the new batch was made, no batch of the partition had room.
<1>19. \A b \in All : batch[b].tp = p => ~HasRoom(b)
  <2> SUFFICES ASSUME NEW b \in All, batch[b].tp = p, HasRoom(b) PROVE FALSE OBVIOUS
  <2>1. Len(dq[p]) > 0 /\ dq[p][Len(dq[p])] = b BY DEF SInv, RoomIsLast
  <2>2. dq[p] # <<>> BY <2>1, <1>a, <1>n
  <2> QED BY <2>1, <2>2 DEF Last
<1>20. RoomIsLast'
  <2> SUFFICES ASSUME NEW b \in All', HasRoom(b)'
               PROVE  Len(dq'[batch'[b].tp]) > 0
                      /\ dq'[batch'[b].tp][Len(dq'[batch'[b].tp])] = b
    BY DEF RoomIsLast
  <2>1. CASE b = c
    <3>1. Len(dq'[p]) = n + 1 /\ dq'[p][n + 1] = c BY <1>8, <1>n
    <3> QED BY <2>1, <3>1, <1>3, <1>a
  <2>2. CASE b \in All
    <3>1. HasRoom(b) /\ batch'[b].tp = batch[b].tp BY <2>2, <1>18, <1>2
    <3>2. batch[b].tp # p /\ batch[b].tp \in Partition BY <2>2, <3>1, <1>19, Typed DEF SInv
    <3> QED BY <3>1, <3>2, <2>2, <1>8 DEF SInv, RoomIsLast
  <2> QED BY <2>1, <2>2, <1>5
<1>21. NewestHasRoom'
  <2> SUFFICES ASSUME NEW b \in All', NEW d \in All', b < d, batch'[b].tp = batch'[d].tp
               PROVE  ~HasRoom(b)'
    BY DEF NewestHasRoom
  <2>1. b \in All BY <1>4, <1>5
  <2>2. CASE d \in All BY <2>1, <2>2, <1>2, <1>18 DEF SInv, NewestHasRoom
  <2>3. CASE d = c BY <2>1, <2>3, <1>2, <1>3, <1>18, <1>19
  <2> QED BY <2>2, <2>3, <1>5
<1>22. LogIsOfBatches' BY <1>2, <1>6 DEF SInv, LogIsOfBatches
<1> QED BY <1>9, <1>12, <1>13, <1>14, <1>15, <1>16, <1>17, <1>20, <1>21, <1>22 DEF SInv

LEMMA SendKeeps ==
  ASSUME SInv, NEW p \in Partition, Send(p)
  PROVE  SInv'
<1>1. /\ AppendRecord(p, sent + 1) /\ sent' = sent + 1
      /\ UNCHANGED <<mode, flight, log, known, pid, fresh, horizon, seqno>>
  BY DEF Send, ids, broker
<1>2. batch \in Seq(BatchRec) /\ dq \in [Partition -> Seq(Nat)] /\ sent + 1 \in Nat
  BY DEF SInv, Types
<1>3. CASE dq[p] # <<>> /\ HasRoom(Last(dq[p]))
  <2>1. PICK t : t = dq[p][Len(dq[p])] OBVIOUS
  <2>2. Len(dq[p]) > 0 /\ Len(dq[p]) \in 1 .. Len(dq[p]) BY <1>2, <1>3, EmptySeq
  <2>3. t \in All BY <2>1, <2>2 DEF SInv, QueuesHold
  <2>4. Last(dq[p]) = t BY <2>1 DEF Last
  <2>5. Longer(batch, [batch EXCEPT ![t].recs = Append(@, sent + 1)], t, sent + 1)
    BY <2>3, <1>2, RoomTaken DEF All
  <2>6. Longer(batch, batch', t, sent + 1) /\ UNCHANGED <<dq, incomplete>>
    BY <1>1, <1>3, <2>4, <2>5 DEF AppendRecord
  <2>7. HasRoom(t) BY <1>3, <2>4
  <2> QED BY <2>1, <2>2, <2>3, <2>6, <2>7, <1>1, RoomTakenKeeps
<1>4. CASE ~(dq[p] # <<>> /\ HasRoom(Last(dq[p])))
  <2>1. PICK c : c = Len(batch) + 1 OBVIOUS
  <2>2. c \in Nat BY <2>1, <1>2
  <2>3. Created(batch, Append(batch, NewBatch(p, sent + 1)), p, sent + 1) BY <1>2, BatchCreated
  <2>4. Enqueued(dq, [dq EXCEPT ![p] = Append(@, c)], p, c) BY <1>2, <2>2, QueueExtended
  <2>5. /\ Created(batch, batch', p, sent + 1) /\ Enqueued(dq, dq', p, c)
        /\ incomplete' = incomplete \cup {c}
    BY <1>1, <1>4, <2>1, <2>3, <2>4 DEF AppendRecord
  <2>6. dq[p] # <<>> => ~HasRoom(Last(dq[p])) BY <1>4
  <2> QED BY <2>1, <2>5, <2>6, <1>1, CreatedKeeps
<1> QED BY <1>3, <1>4

-----------------------------------------------------------------------------
(* Steps that leave the records of the batches alone                       *)

Framed(bs, cs) ==
  /\ cs \in Seq(BatchRec) /\ Len(cs) = Len(bs)
  /\ \A b \in 1 .. Len(bs) :
       /\ cs[b].tp = bs[b].tp /\ cs[b].recs = bs[b].recs
       /\ bs[b].closed => cs[b].closed
       /\ ~cs[b].closed => cs[b].attempts = bs[b].attempts /\ cs[b].pid = bs[b].pid

LEMMA FramedKeeps ==
  ASSUME SInv, Framed(batch, batch'), UNCHANGED <<sent, log>>
  PROVE  /\ All' = All /\ OpenUntouched' /\ RecordsHold' /\ Apart' /\ NewestHasRoom'
         /\ LogIsOfBatches' /\ \A b \in All : HasRoom(b)' => HasRoom(b)
<1>1. /\ All' = All
      /\ \A b \in All : batch'[b].tp = batch[b].tp /\ batch'[b].recs = batch[b].recs
  BY DEF Framed, All
<1>2. \A b \in All :
        /\ batch[b].closed => batch'[b].closed
        /\ ~batch'[b].closed => batch'[b].attempts = batch[b].attempts /\ batch'[b].pid = batch[b].pid
  BY DEF Framed, All
<1>3. \A b \in All : HasRoom(b)' => HasRoom(b) BY <1>1, <1>2 DEF HasRoom
<1>4. OpenUntouched' BY <1>1, <1>2 DEF SInv, OpenUntouched
<1>5. RecordsHold' BY <1>1 DEF SInv, RecordsHold
<1>6. Apart'
  <2> SUFFICES ASSUME NEW b \in All, NEW d \in All, b < d,
                      NEW i \in 1 .. Len(batch'[b].recs), NEW j \in 1 .. Len(batch'[d].recs)
               PROVE  /\ batch'[b].recs[i] # batch'[d].recs[j]
                      /\ batch'[b].tp = batch'[d].tp => batch'[b].recs[i] < batch'[d].recs[j]
    BY <1>1 DEF Apart
  <2>1. /\ batch'[b].recs = batch[b].recs /\ batch'[d].recs = batch[d].recs
        /\ batch'[b].tp = batch[b].tp /\ batch'[d].tp = batch[d].tp
    BY <1>1
  <2> QED BY <2>1 DEF SInv, Apart
<1>7. NewestHasRoom' BY <1>1, <1>3 DEF SInv, NewestHasRoom
<1>8. LogIsOfBatches'
  <2> SUFFICES ASSUME NEW q \in Partition, NEW i \in 1 .. Len(log[q])
               PROVE  \E b \in All : batch'[b].tp = q /\ batch'[b].closed /\ In(batch'[b].recs, log[q][i])
    BY <1>1 DEF LogIsOfBatches
  <2>1. PICK b \in All : batch[b].tp = q /\ batch[b].closed /\ In(batch[b].recs, log[q][i])
    BY DEF SInv, LogIsOfBatches
  <2> QED BY <2>1, <1>1, <1>2
<1> QED BY <1>1, <1>3, <1>4, <1>5, <1>6, <1>7, <1>8

\* reenqueue: one more attempt.
Retried(bs, cs, b) ==
  /\ cs \in Seq(BatchRec) /\ Len(cs) = Len(bs)
  /\ \A c \in 1 .. Len(bs) : c # b => cs[c] = bs[c]
  /\ cs[b].tp = bs[b].tp /\ cs[b].recs = bs[b].recs /\ cs[b].final = bs[b].final
  /\ cs[b].base = bs[b].base /\ cs[b].attempts = bs[b].attempts + 1
  /\ cs[b].pid = bs[b].pid /\ cs[b].seq = bs[b].seq /\ cs[b].closed = bs[b].closed
\* A batch has an end, and perhaps a base offset.
Ended(bs, cs, b, final, base, closed) ==
  /\ cs \in Seq(BatchRec) /\ Len(cs) = Len(bs)
  /\ \A c \in 1 .. Len(bs) : c # b => cs[c] = bs[c]
  /\ cs[b].tp = bs[b].tp /\ cs[b].recs = bs[b].recs /\ cs[b].final = final
  /\ cs[b].base = base /\ cs[b].attempts = bs[b].attempts
  /\ cs[b].pid = bs[b].pid /\ cs[b].seq = bs[b].seq /\ cs[b].closed = closed

LEMMA RetryIs ==
  ASSUME NEW bs \in Seq(BatchRec), NEW b \in 1 .. Len(bs)
  PROVE  Retried(bs, [bs EXCEPT ![b].attempts = @ + 1], b)
<1>1. bs[b] \in BatchRec OBVIOUS
<1>n. PICK n : n = bs[b].attempts + 1 OBVIOUS
<1>m. n \in Nat BY SMTT(40), <1>1, <1>n DEF BatchRec
<1>2. PICK r : r = [bs[b] EXCEPT !.attempts = n] OBVIOUS
<1>3. /\ r \in BatchRec /\ r.tp = bs[b].tp /\ r.recs = bs[b].recs /\ r.final = bs[b].final
      /\ r.base = bs[b].base /\ r.attempts = n
      /\ r.pid = bs[b].pid /\ r.seq = bs[b].seq /\ r.closed = bs[b].closed
  BY <1>1, <1>2, <1>m DEF BatchRec
<1>4. PICK cs : cs = [bs EXCEPT ![b] = r] OBVIOUS
<1>5. /\ cs \in Seq(BatchRec) /\ Len(cs) = Len(bs)
      /\ \A c \in 1 .. Len(bs) : cs[c] = IF c = b THEN r ELSE bs[c]
  <2>1. r \in BatchRec BY <1>3
  <2> QED BY <1>4, <2>1, ExceptSeq
<1>6. Retried(bs, cs, b) BY <1>3, <1>5, <1>n DEF Retried
<1>7. cs = [bs EXCEPT ![b].attempts = @ + 1] BY <1>2, <1>4, <1>n
<1> QED BY <1>6, <1>7

LEMMA EndIs ==
  ASSUME NEW bs \in Seq(BatchRec), NEW b \in 1 .. Len(bs), NEW final \in Finals, NEW base \in Nat
  PROVE  Ended(bs, [bs EXCEPT ![b].final = final, ![b].base = base], b, final, base, bs[b].closed)
<1>1. bs[b] \in BatchRec OBVIOUS
<1>2. PICK r : r = [bs[b] EXCEPT !.final = final, !.base = base] OBVIOUS
<1>3. /\ r \in BatchRec /\ r.tp = bs[b].tp /\ r.recs = bs[b].recs /\ r.final = final
      /\ r.base = base /\ r.attempts = bs[b].attempts
      /\ r.pid = bs[b].pid /\ r.seq = bs[b].seq /\ r.closed = bs[b].closed
  BY <1>1, <1>2 DEF BatchRec
<1>4. PICK cs : cs = [bs EXCEPT ![b] = r] OBVIOUS
<1>5. /\ cs \in Seq(BatchRec) /\ Len(cs) = Len(bs)
      /\ \A c \in 1 .. Len(bs) : cs[c] = IF c = b THEN r ELSE bs[c]
  <2>1. r \in BatchRec BY <1>3
  <2> QED BY <1>4, <2>1, ExceptSeq
<1>6. Ended(bs, cs, b, final, base, bs[b].closed) BY <1>3, <1>5 DEF Ended
<1>7. cs = [bs EXCEPT ![b].final = final, ![b].base = base] BY <1>1, <1>2, <1>4
<1> QED BY <1>6, <1>7

LEMMA AbortIs ==
  ASSUME NEW bs \in Seq(BatchRec), NEW b \in 1 .. Len(bs)
  PROVE  Ended(bs, [bs EXCEPT ![b].final = "aborted", ![b].closed = TRUE], b,
               "aborted", bs[b].base, TRUE)
<1>1. bs[b] \in BatchRec OBVIOUS
<1>2. PICK r : r = [bs[b] EXCEPT !.final = "aborted", !.closed = TRUE] OBVIOUS
<1>3. /\ r \in BatchRec /\ r.tp = bs[b].tp /\ r.recs = bs[b].recs /\ r.final = "aborted"
      /\ r.base = bs[b].base /\ r.attempts = bs[b].attempts
      /\ r.pid = bs[b].pid /\ r.seq = bs[b].seq /\ r.closed = TRUE
  BY <1>1, <1>2 DEF BatchRec, Finals
<1>4. PICK cs : cs = [bs EXCEPT ![b] = r] OBVIOUS
<1>5. /\ cs \in Seq(BatchRec) /\ Len(cs) = Len(bs)
      /\ \A c \in 1 .. Len(bs) : cs[c] = IF c = b THEN r ELSE bs[c]
  <2>1. r \in BatchRec BY <1>3
  <2> QED BY <1>4, <2>1, ExceptSeq
<1>6. Ended(bs, cs, b, "aborted", bs[b].base, TRUE) BY <1>3, <1>5 DEF Ended
<1>7. cs = [bs EXCEPT ![b].final = "aborted", ![b].closed = TRUE] BY <1>1, <1>2, <1>4
<1> QED BY <1>6, <1>7

LEMMA EndedFrames ==
  ASSUME NEW bs, NEW cs, NEW b \in 1 .. Len(bs), NEW final, NEW base, NEW closed,
         Ended(bs, cs, b, final, base, closed), bs[b].closed => closed
  PROVE  Framed(bs, cs)
<1>1. \A c \in 1 .. Len(bs) : c # b => cs[c] = bs[c] BY DEF Ended
<1> QED BY <1>1 DEF Ended, Framed

LEMMA RetriedFrames ==
  ASSUME NEW bs, NEW cs, NEW b \in 1 .. Len(bs), Retried(bs, cs, b), bs[b].closed
  PROVE  Framed(bs, cs)
<1>1. \A c \in 1 .. Len(bs) : c # b => cs[c] = bs[c] BY DEF Retried
<1> QED BY <1>1 DEF Retried, Framed

\* A batch is put back at the head of its queue.
Prepended(ds, es, p, b) ==
  /\ es \in [Partition -> Seq(Nat)]
  /\ \A q \in Partition : q # p => es[q] = ds[q]
  /\ Len(es[p]) = Len(ds[p]) + 1 /\ es[p][1] = b
  /\ \A i \in 1 .. Len(ds[p]) : es[p][i + 1] = ds[p][i]

LEMMA PrependIs ==
  ASSUME NEW ds \in [Partition -> Seq(Nat)], NEW p \in Partition, NEW b \in Nat
  PROVE  Prepended(ds, [ds EXCEPT ![p] = <<b>> \o @], p, b)
<1>1. ds[p] \in Seq(Nat) /\ <<b>> \in Seq(Nat) /\ Len(<<b>>) = 1 /\ <<b>>[1] = b OBVIOUS
<1>n. PICK n : n = Len(ds[p]) OBVIOUS
<1>m. n \in Nat BY <1>1, <1>n
<1>2. PICK s : s = <<b>> \o ds[p] OBVIOUS
<1>3. /\ s \in Seq(Nat) /\ Len(s) = 1 + n
      /\ \A i \in 1 .. 1 + n : s[i] = IF i <= 1 THEN <<b>>[i] ELSE ds[p][i - 1]
  BY <1>1, <1>2, <1>n, ConcatProperties
<1>a. 1 \in 1 .. 1 + n /\ \A i \in 1 .. n : i + 1 \in 1 .. 1 + n /\ ~ (i + 1 <= 1) /\ (i + 1) - 1 = i
  BY <1>m
<1>b. s[1] = b BY <1>1, <1>3, <1>a
<1>c. \A i \in 1 .. n : s[i + 1] = ds[p][i] BY <1>3, <1>a
<1>4. s[1] = b /\ \A i \in 1 .. n : s[i + 1] = ds[p][i] BY <1>b, <1>c
<1>5. PICK es : es = [ds EXCEPT ![p] = s] OBVIOUS
<1>6. es \in [Partition -> Seq(Nat)] /\ es[p] = s /\ \A q \in Partition : q # p => es[q] = ds[q]
  BY <1>3, <1>5
<1>7. Len(s) = n + 1 BY <1>3, <1>m
<1>8. Prepended(ds, es, p, b) BY <1>4, <1>6, <1>7, <1>n DEF Prepended
<1> QED BY <1>2, <1>5, <1>8

\* What the end of a request does to queues, batches and requests.
Again(f) ==
  /\ ~Done(f.id) /\ Retried(batch, batch', f.id) /\ Prepended(dq, dq', f.tp, f.id)
  /\ flight' = flight \ {f}
  /\ UNCHANGED <<incomplete, mode, sent, log, known, horizon, pid, fresh, seqno, flush>>
Over(f) ==
  /\ \/ Done(f.id) /\ batch' = batch
     \/ ~Done(f.id) /\ \E final \in {"ok", "failed"} : \E base \in Nat :
          /\ final = "ok" => f.res = "ok" /\ base = f.base
          /\ Ended(batch, batch', f.id, final, base, batch[f.id].closed)
  /\ incomplete' = incomplete \ {f.id} /\ flight' = flight \ {f}
  /\ pid' \in {0, pid} /\ seqno' \in [Partition -> Nat]
  /\ UNCHANGED <<dq, mode, sent, log, known, horizon, fresh, flush>>

LEMMA CompleteIs ==
  ASSUME SInv, NEW f \in flight, Complete(f)
  PROVE  Runs /\ life' = life /\ muted' = muted \ {f.tp} /\ (Again(f) \/ Over(f))
<1>1. Runs /\ life' = life /\ muted' = muted \ {f.tp} /\ flight' = flight \ {f}
      /\ UNCHANGED <<mode, log, known, horizon, sent, flush>>
  BY DEF Complete, broker, app
<1>2. f.id \in All /\ batch[f.id].tp = f.tp /\ f.tp \in Partition /\ f.base \in Nat /\ f.id \in Nat
  BY Typed DEF SInv, RequestsHold
<1>3. batch \in Seq(BatchRec) /\ f.id \in 1 .. Len(batch) /\ dq \in [Partition -> Seq(Nat)]
      /\ seqno \in [Partition -> Nat] /\ pid \in Nat
  BY <1>2 DEF SInv, Types, All
<1>s. \A final \in {"ok", "failed"} : \A base \in Nat : batch' = Settled(f.id, final, base) =>
        \/ Done(f.id) /\ batch' = batch
        \/ ~Done(f.id) /\ Ended(batch, batch', f.id, final, base, batch[f.id].closed)
  <2> SUFFICES ASSUME NEW final \in {"ok", "failed"}, NEW base \in Nat,
                      batch' = Settled(f.id, final, base), ~Done(f.id)
               PROVE  Ended(batch, batch', f.id, final, base, batch[f.id].closed)
    BY DEF Settled
  <2>1. final \in Finals BY DEF Finals
  <2>2. Ended(batch, [batch EXCEPT ![f.id].final = final, ![f.id].base = base],
              f.id, final, base, batch[f.id].closed)
    BY <1>3, <2>1, EndIs
  <2> QED BY <2>2 DEF Settled
<1>4. CASE CompleteError(f) /\ CanRetry(f.id, f.res) /\ (Idempotent => pid = batch[f.id].pid)
  <2>1. ~Done(f.id) BY <1>4 DEF CanRetry
  <2>2. Reenqueue(f.id) /\ UNCHANGED <<incomplete, pid, fresh, seqno>>
    BY <1>4 DEF CompleteError, ids
  <2>3. Retried(batch, [batch EXCEPT ![f.id].attempts = @ + 1], f.id) BY <1>3, RetryIs
  <2>4. Prepended(dq, [dq EXCEPT ![f.tp] = <<f.id>> \o @], f.tp, f.id) BY <1>2, <1>3, PrependIs
  <2>5. Retried(batch, batch', f.id) /\ Prepended(dq, dq', f.tp, f.id)
    BY <2>2, <2>3, <2>4, <1>2 DEF Reenqueue
  <2> QED BY <1>1, <2>1, <2>2, <2>5 DEF Again
<1>5. CASE CompleteError(f) /\ ~(CanRetry(f.id, f.res) /\ (Idempotent => pid = batch[f.id].pid))
  <2>1. /\ batch' = Settled(f.id, "failed", 0) /\ incomplete' = incomplete \ {f.id}
        /\ FailIds(f.id, f.res) /\ dq' = dq
    BY <1>5 DEF CompleteError
  <2>2. \/ Done(f.id) /\ batch' = batch
        \/ ~Done(f.id) /\ Ended(batch, batch', f.id, "failed", 0, batch[f.id].closed)
    BY <2>1, <1>s
  <2>3. \/ pid' = 0 /\ seqno' = [p \in Partition |-> 0]
        \/ pid' = pid /\ seqno' = [seqno EXCEPT ![f.tp] = 0]
        \/ pid' = pid /\ seqno' = seqno
    BY <2>1, <1>2 DEF FailIds, ResetProducerId, ids
  <2>4. fresh' = fresh BY <2>1 DEF FailIds, ids
  <2>5. pid' \in {0, pid} /\ seqno' \in [Partition -> Nat]
    <3>1. CASE pid' = 0 /\ seqno' = [p \in Partition |-> 0] BY <3>1
    <3>2. CASE pid' = pid /\ seqno' = [seqno EXCEPT ![f.tp] = 0] BY <3>2, <1>3, <1>2
    <3>3. CASE pid' = pid /\ seqno' = seqno BY <3>3, <1>3
    <3> QED BY <2>3, <3>1, <3>2, <3>3
  <2> QED BY <1>1, <2>1, <2>2, <2>4, <2>5 DEF Over
<1>6. CASE CompleteOk(f)
  <2>1. /\ f.res = "ok" /\ batch' = Settled(f.id, "ok", f.base)
        /\ incomplete' = incomplete \ {f.id} /\ UNCHANGED <<dq, pid, fresh>>
        /\ seqno' = IF Idempotent /\ pid = batch[f.id].pid
                    THEN [seqno EXCEPT ![f.tp] = @ + Records(f.id)] ELSE seqno
    BY <1>6 DEF CompleteOk
  <2>2. \/ Done(f.id) /\ batch' = batch
        \/ ~Done(f.id) /\ Ended(batch, batch', f.id, "ok", f.base, batch[f.id].closed)
    BY <2>1, <1>s, <1>2
  <2>3. Records(f.id) \in Nat BY <1>2, Typed DEF Records, SInv
  <2>4. seqno' \in [Partition -> Nat] BY <2>1, <2>3, <1>2, <1>3
  <2> QED BY <1>1, <1>2, <2>1, <2>2, <2>4 DEF Over
<1> QED BY <1>1, <1>4, <1>5, <1>6 DEF Complete

LEMMA RestHold ==
  ASSUME RequestsHold, NEW f \in flight, flight' = flight \ {f}
  PROVE  \A g \in flight' : g \in flight /\ g # f /\ g.id # f.id
BY DEF RequestsHold

LEMMA PrependedAt ==
  ASSUME Types, NEW p \in Partition, NEW b, Prepended(dq, dq', p, b)
  PROVE  /\ \A i \in 1 .. Len(dq'[p]) :
              (i = 1 /\ dq'[p][i] = b) \/ (i - 1 \in 1 .. Len(dq[p]) /\ dq'[p][i] = dq[p][i - 1])
         /\ Len(dq'[p]) = Len(dq[p]) + 1 /\ Len(dq[p]) \in Nat /\ dq'[p][1] = b
         /\ \A q \in Partition : q # p => dq'[q] = dq[q]
         /\ dq' \in [Partition -> Seq(Nat)]
<1>n. PICK n : n = Len(dq[p]) OBVIOUS
<1>m. n \in Nat BY <1>n, Typed
<1>1. /\ Len(dq'[p]) = n + 1 /\ dq'[p][1] = b
      /\ \A i \in 1 .. n : dq'[p][i + 1] = dq[p][i]
      /\ \A q \in Partition : q # p => dq'[q] = dq[q]
      /\ dq' \in [Partition -> Seq(Nat)]
  BY <1>n DEF Prepended
<1>2. \A i \in 1 .. n + 1 : i = 1 \/ (i - 1 \in 1 .. n /\ (i - 1) + 1 = i) BY <1>m
<1>3. \A i \in 1 .. n + 1 : (i = 1 /\ dq'[p][i] = b) \/ (i - 1 \in 1 .. n /\ dq'[p][i] = dq[p][i - 1])
  BY <1>1, <1>2
<1> QED BY <1>1, <1>3, <1>m, <1>n

LEMMA AgainKeeps ==
  ASSUME SInv, NEW f \in flight, Again(f)
  PROVE  SInv'
<1>1. /\ f.id \in All /\ batch[f.id].tp = f.tp /\ batch[f.id].closed /\ ~In(dq[f.tp], f.id)
      /\ f.tp \in Partition
  BY Typed DEF SInv, RequestsHold
<1>2. /\ ~Done(f.id) /\ Retried(batch, batch', f.id) /\ Prepended(dq, dq', f.tp, f.id)
      /\ flight' = flight \ {f}
      /\ UNCHANGED <<incomplete, mode, sent, log, known, horizon, pid, fresh, seqno>>
  BY DEF Again
<1>3. Framed(batch, batch') BY <1>1, <1>2, RetriedFrames DEF All
<1>4. /\ All' = All /\ OpenUntouched' /\ RecordsHold' /\ Apart' /\ NewestHasRoom'
      /\ LogIsOfBatches' /\ \A b \in All : HasRoom(b)' => HasRoom(b)
  BY <1>2, <1>3, FramedKeeps
<1>5. \A b \in All : batch'[b].tp = batch[b].tp /\ batch'[b].final = batch[b].final
                     /\ (batch[b].closed => batch'[b].closed)
  BY <1>2 DEF Retried, All
<1>6. /\ \A i \in 1 .. Len(dq'[f.tp]) :
           \/ i = 1 /\ dq'[f.tp][i] = f.id
           \/ i - 1 \in 1 .. Len(dq[f.tp]) /\ dq'[f.tp][i] = dq[f.tp][i - 1]
      /\ Len(dq'[f.tp]) = Len(dq[f.tp]) + 1 /\ Len(dq[f.tp]) \in Nat /\ dq'[f.tp][1] = f.id
      /\ \A q \in Partition : q # f.tp => dq'[q] = dq[q]
      /\ dq' \in [Partition -> Seq(Nat)]
  BY <1>1, <1>2, PrependedAt DEF SInv
<1>7. Types'
  <2>1. batch' \in Seq(BatchRec) BY <1>2 DEF Retried
  <2>2. flight' \subseteq RequestRec /\ IsFiniteSet(flight') BY <1>2, FS_Subset DEF SInv, Types
  <2> QED BY <2>1, <2>2, <1>2, <1>6 DEF SInv, Types
<1>8. QueuesHold'
  <2> SUFFICES ASSUME NEW q \in Partition, NEW i \in 1 .. Len(dq'[q])
               PROVE  /\ dq'[q][i] \in All /\ batch'[dq'[q][i]].tp = q
                      /\ batch'[dq'[q][i]].final = "none"
                      /\ \A j \in 1 .. Len(dq'[q]) : dq'[q][j] = dq'[q][i] => i = j
    BY <1>4 DEF QueuesHold, Done
  <2>0. \A r \in Partition : \A j \in 1 .. Len(dq[r]) :
          dq[r][j] \in All /\ batch[dq[r][j]].tp = r /\ batch[dq[r][j]].final = "none"
    BY DEF SInv, QueuesHold, Done
  <2>1. CASE q # f.tp
    <3>1. dq'[q] = dq[q] BY <2>1, <1>6
    <3>2. \A j \in 1 .. Len(dq[q]) : dq[q][j] = dq[q][i] => i = j
      BY <3>1 DEF SInv, QueuesHold
    <3> QED BY <3>1, <3>2, <2>0, <1>5
  <2>2. CASE q = f.tp /\ i = 1 /\ dq'[f.tp][i] = f.id
    <3>1. \A j \in 1 .. Len(dq'[f.tp]) : dq'[f.tp][j] = f.id => j = 1
      <4> SUFFICES ASSUME NEW j \in 1 .. Len(dq'[f.tp]), dq'[f.tp][j] = f.id PROVE j = 1
        OBVIOUS
      <4>1. ~(\E k \in 1 .. Len(dq[f.tp]) : dq[f.tp][k] = f.id) BY <1>1 DEF In
      <4>2. j = 1 \/ (j - 1 \in 1 .. Len(dq[f.tp]) /\ dq[f.tp][j - 1] = f.id) BY <1>6
      <4> QED BY <4>1, <4>2
    <3>2. batch[f.id].final = "none" BY <1>2 DEF Done
    <3> QED BY <3>1, <3>2, <2>2, <1>1, <1>5
  <2>3. CASE q = f.tp /\ i - 1 \in 1 .. Len(dq[f.tp]) /\ dq'[f.tp][i] = dq[f.tp][i - 1]
    <3>1. PICK k : k = i - 1 OBVIOUS
    <3>2. k \in 1 .. Len(dq[f.tp]) /\ dq'[f.tp][i] = dq[f.tp][k] /\ i = k + 1 BY <2>3, <3>1
    <3>3. dq[f.tp][k] \in All /\ batch[dq[f.tp][k]].tp = f.tp /\ batch[dq[f.tp][k]].final = "none"
      BY <3>2, <2>0, <1>1
    <3>4. \A j \in 1 .. Len(dq[f.tp]) : dq[f.tp][j] = dq[f.tp][k] => k = j
      BY <3>2, <1>1 DEF SInv, QueuesHold
    <3>5. dq[f.tp][k] # f.id BY <3>2, <1>1 DEF In
    <3>6. \A j \in 1 .. Len(dq'[f.tp]) : dq'[f.tp][j] = dq[f.tp][k] => i = j
      <4> SUFFICES ASSUME NEW j \in 1 .. Len(dq'[f.tp]), dq'[f.tp][j] = dq[f.tp][k]
                   PROVE  i = j
        OBVIOUS
      <4>1. j - 1 \in 1 .. Len(dq[f.tp]) /\ dq'[f.tp][j] = dq[f.tp][j - 1] BY <3>5, <1>6
      <4>2. k = j - 1 BY <4>1, <3>4
      <4> QED BY <4>2, <3>2
    <3> QED BY <2>3, <3>2, <3>3, <3>6, <1>5
  <2> QED BY <2>1, <2>2, <2>3, <1>6
<1>9. RequestsHold'
  <2> SUFFICES ASSUME NEW g \in flight'
               PROVE  /\ g.id \in All /\ batch'[g.id].tp = g.tp /\ batch'[g.id].closed
                      /\ ~In(dq'[g.tp], g.id) /\ \A h \in flight' : h.id = g.id => g = h
    BY <1>4 DEF RequestsHold
  <2>1. g \in flight /\ g.id # f.id /\ flight' \subseteq flight
    BY <1>2, RestHold DEF SInv
  <2>2. /\ g.id \in All /\ batch[g.id].tp = g.tp /\ batch[g.id].closed
        /\ ~In(dq[g.tp], g.id) /\ \A h \in flight : h.id = g.id => g = h
    BY <2>1 DEF SInv, RequestsHold
  <2>3. g.tp \in Partition BY <2>1, Typed DEF SInv
  <2>4. ~In(dq'[g.tp], g.id)
    <3>1. CASE g.tp # f.tp BY <3>1, <2>2, <2>3, <1>6
    <3>2. CASE g.tp = f.tp BY <3>2, <2>1, <2>2, <1>6 DEF In
    <3> QED BY <3>1, <3>2
  <2> QED BY <2>1, <2>2, <2>4, <1>5
<1>10. Pending' BY <1>2, <1>4, <1>5 DEF SInv, Pending, Done
<1>11. RoomIsLast'
  <2> SUFFICES ASSUME NEW b \in All, HasRoom(b)'
               PROVE  Len(dq'[batch'[b].tp]) > 0
                      /\ dq'[batch'[b].tp][Len(dq'[batch'[b].tp])] = b
    BY <1>4 DEF RoomIsLast
  <2>1. HasRoom(b) /\ batch'[b].tp = batch[b].tp /\ batch[b].tp \in Partition
    BY <1>4, <1>5, Typed DEF SInv
  <2>2. Len(dq[batch[b].tp]) > 0 /\ dq[batch[b].tp][Len(dq[batch[b].tp])] = b
    BY <2>1 DEF SInv, RoomIsLast
  <2>3. CASE batch[b].tp # f.tp BY <2>1, <2>2, <2>3, <1>6
  <2>4. CASE batch[b].tp = f.tp
    <3>1. PICK n : n = Len(dq[f.tp]) OBVIOUS
    <3>2. n \in Nat /\ n > 0 /\ dq[f.tp][n] = b /\ Len(dq'[f.tp]) = n + 1
      BY <3>1, <2>2, <2>4, <1>6
    <3>3. n + 1 \in 1 .. n + 1 /\ n + 1 # 1 /\ (n + 1) - 1 = n /\ n + 1 > 0 BY <3>2
    <3>4. dq'[f.tp][n + 1] = dq[f.tp][n] BY <3>2, <3>3, <1>6
    <3> QED BY <3>2, <3>3, <3>4, <2>1, <2>4
  <2> QED BY <2>3, <2>4
<1> QED BY <1>4, <1>7, <1>8, <1>9, <1>10, <1>11 DEF SInv

LEMMA OverKeeps ==
  ASSUME SInv, NEW f \in flight, Over(f)
  PROVE  SInv'
<1>1. /\ f.id \in All /\ batch[f.id].tp = f.tp /\ batch[f.id].closed /\ ~In(dq[f.tp], f.id)
      /\ f.tp \in Partition
  BY Typed DEF SInv, RequestsHold
<1>2. /\ incomplete' = incomplete \ {f.id} /\ flight' = flight \ {f}
      /\ pid' \in {0, pid} /\ seqno' \in [Partition -> Nat]
      /\ UNCHANGED <<dq, mode, sent, log, known, horizon, fresh>>
  BY DEF Over
<1>3. /\ Framed(batch, batch')
      /\ \A b \in All : b # f.id => batch'[b].final = batch[b].final
      /\ batch'[f.id].final # "none"
  <2>1. CASE Done(f.id) /\ batch' = batch
    <3>1. batch \in Seq(BatchRec) BY DEF SInv, Types
    <3> QED BY <2>1, <3>1 DEF Framed, Done
  <2>2. CASE ~Done(f.id) /\ \E final \in {"ok", "failed"} : \E base \in Nat :
          Ended(batch, batch', f.id, final, base, batch[f.id].closed)
    <3>1. PICK final \in {"ok", "failed"} : \E base \in Nat :
            Ended(batch, batch', f.id, final, base, batch[f.id].closed)
      BY <2>2
    <3>2. PICK base \in Nat : Ended(batch, batch', f.id, final, base, batch[f.id].closed)
      BY <3>1
    <3>3. Framed(batch, batch') BY <3>2, <1>1, EndedFrames DEF All
    <3> QED BY <3>2, <3>3 DEF Ended, All
  <2> QED BY <2>1, <2>2 DEF Over
<1>4. /\ All' = All /\ OpenUntouched' /\ RecordsHold' /\ Apart' /\ NewestHasRoom'
      /\ LogIsOfBatches' /\ \A b \in All : HasRoom(b)' => HasRoom(b)
  BY <1>2, <1>3, FramedKeeps
<1>5. \A b \in All : batch'[b].tp = batch[b].tp /\ (batch[b].closed => batch'[b].closed)
  BY <1>3 DEF Framed, All
<1>6. Types'
  <2>1. batch' \in Seq(BatchRec) BY <1>3 DEF Framed
  <2>2. flight' \subseteq RequestRec /\ IsFiniteSet(flight') BY <1>2, FS_Subset DEF SInv, Types
  <2>3. pid' \in Nat /\ pid' < fresh BY <1>2 DEF SInv, Types
  <2> QED BY <2>1, <2>2, <2>3, <1>2 DEF SInv, Types
<1>7. QueuesHold'
  <2> SUFFICES ASSUME NEW q \in Partition, NEW i \in 1 .. Len(dq[q])
               PROVE  /\ dq[q][i] \in All /\ batch'[dq[q][i]].tp = q
                      /\ batch'[dq[q][i]].final = "none"
                      /\ \A j \in 1 .. Len(dq[q]) : dq[q][j] = dq[q][i] => i = j
    BY <1>2, <1>4 DEF QueuesHold, Done
  <2>1. /\ dq[q][i] \in All /\ batch[dq[q][i]].tp = q /\ batch[dq[q][i]].final = "none"
        /\ \A j \in 1 .. Len(dq[q]) : dq[q][j] = dq[q][i] => i = j
    BY DEF SInv, QueuesHold, Done
  <2>2. dq[q][i] # f.id BY <2>1, <1>1 DEF In
  <2> QED BY <2>1, <2>2, <1>3, <1>5
<1>8. RequestsHold'
  <2> SUFFICES ASSUME NEW g \in flight'
               PROVE  /\ g.id \in All /\ batch'[g.id].tp = g.tp /\ batch'[g.id].closed
                      /\ ~In(dq[g.tp], g.id) /\ \A h \in flight' : h.id = g.id => g = h
    BY <1>2, <1>4 DEF RequestsHold
  <2>1. g \in flight /\ flight' \subseteq flight BY <1>2
  <2> QED BY <2>1, <1>5 DEF SInv, RequestsHold
<1>9. Pending' BY <1>2, <1>3, <1>4 DEF SInv, Pending, Done
<1>10. RoomIsLast' BY <1>2, <1>4, <1>5 DEF SInv, RoomIsLast
<1> QED BY <1>4, <1>6, <1>7, <1>8, <1>9, <1>10 DEF SInv

\* A batch is taken out of its queue.
Removed(ds, es, p, k) ==
  /\ es \in [Partition -> Seq(Nat)]
  /\ \A q \in Partition : q # p => es[q] = ds[q]
  /\ Len(es[p]) = Len(ds[p]) - 1
  /\ \A i \in 1 .. Len(es[p]) : es[p][i] = IF i < k THEN ds[p][i] ELSE ds[p][i + 1]

LEMMA RemoveIs ==
  ASSUME NEW ds \in [Partition -> Seq(Nat)], NEW p \in Partition, NEW k \in 1 .. Len(ds[p])
  PROVE  Removed(ds, [ds EXCEPT ![p] = RemoveAt(@, k)], p, k)
<1>1. ds[p] \in Seq(Nat) OBVIOUS
<1>n. PICK n : n = Len(ds[p]) OBVIOUS
<1>m. n \in Nat /\ k \in 1 .. n /\ \A i \in 1 .. n : ds[p][i] \in Nat BY <1>1, <1>n
<1>a. PICK s : s = SubSeq(ds[p], 1, k - 1) OBVIOUS
<1>b. PICK t : t = SubSeq(ds[p], k + 1, n) OBVIOUS
<1>2. s \in Seq(Nat) /\ Len(s) = k - 1 /\ \A i \in 1 .. k - 1 : s[i] = ds[p][i]
  <2>1. 1 \in Int /\ k - 1 \in Int /\ \A i \in 1 .. k - 1 : ds[p][i] \in Nat BY <1>m
  <2>2. /\ s \in Seq(Nat) /\ Len(s) = IF 1 <= k - 1 THEN (k - 1) - 1 + 1 ELSE 0
        /\ \A i \in 1 .. (k - 1) - 1 + 1 : s[i] = ds[p][1 + i - 1]
    BY SMTT(40), <2>1, <1>a, SubSeqProperties
  <2> QED BY <2>2, <1>m
<1>3. t \in Seq(Nat) /\ Len(t) = n - k /\ \A i \in 1 .. n - k : t[i] = ds[p][k + i]
  <2>1. k + 1 \in Int /\ n \in Int /\ \A i \in k + 1 .. n : ds[p][i] \in Nat BY <1>m
  <2>2. /\ t \in Seq(Nat) /\ Len(t) = IF k + 1 <= n THEN n - (k + 1) + 1 ELSE 0
        /\ \A i \in 1 .. n - (k + 1) + 1 : t[i] = ds[p][(k + 1) + i - 1]
    BY <2>1, <1>b, SubSeqProperties
  <2> QED BY <2>2, <1>m
<1>c. PICK u : u = s \o t OBVIOUS
<1>4. /\ u \in Seq(Nat) /\ Len(u) = Len(s) + Len(t)
      /\ \A i \in 1 .. Len(s) + Len(t) : u[i] = IF i <= Len(s) THEN s[i] ELSE t[i - Len(s)]
  BY <1>2, <1>3, <1>c, ConcatProperties
<1>5. Len(u) = n - 1 BY <1>2, <1>3, <1>4, <1>m
<1>6. \A i \in 1 .. n - 1 : u[i] = IF i < k THEN ds[p][i] ELSE ds[p][i + 1]
  <2> SUFFICES ASSUME NEW i \in 1 .. n - 1
               PROVE  u[i] = IF i < k THEN ds[p][i] ELSE ds[p][i + 1]
    OBVIOUS
  <2>1. u[i] = IF i <= k - 1 THEN s[i] ELSE t[i - (k - 1)] BY <1>2, <1>3, <1>4, <1>m
  <2>2. CASE i < k BY <2>1, <2>2, <1>2, <1>m
  <2>3. CASE ~(i < k)
    <3>1. PICK j : j = i - (k - 1) OBVIOUS
    <3>2. j \in 1 .. n - k /\ k + j = i + 1 BY <3>1, <2>3, <1>m
    <3>3. t[j] = ds[p][i + 1] BY <3>2, <1>3
    <3>4. u[i] = t[j] BY <2>1, <2>3, <3>1, <1>m
    <3> QED BY <2>3, <3>3, <3>4
  <2> QED BY <2>2, <2>3
<1>7. u = RemoveAt(ds[p], k) BY <1>a, <1>b, <1>c, <1>n DEF RemoveAt
<1>d. PICK es : es = [ds EXCEPT ![p] = u] OBVIOUS
<1>8. es \in [Partition -> Seq(Nat)] /\ es[p] = u /\ \A q \in Partition : q # p => es[q] = ds[q]
  BY <1>4, <1>d
<1>9. Removed(ds, es, p, k) BY <1>5, <1>6, <1>8, <1>n DEF Removed
<1> QED BY <1>7, <1>9, <1>d

LEMMA RemovedAt ==
  ASSUME Types, NEW p \in Partition, NEW k \in 1 .. Len(dq[p]), Removed(dq, dq', p, k)
  PROVE  /\ \A i \in 1 .. Len(dq'[p]) :
              \E j \in 1 .. Len(dq[p]) : j # k /\ dq'[p][i] = dq[p][j] /\ i = (IF j < k THEN j ELSE j - 1)
         /\ Len(dq'[p]) = Len(dq[p]) - 1 /\ Len(dq[p]) \in Nat
         /\ \A q \in Partition : q # p => dq'[q] = dq[q]
         /\ dq' \in [Partition -> Seq(Nat)]
         /\ k < Len(dq[p]) =>
              Len(dq'[p]) > 0 /\ dq'[p][Len(dq'[p])] = dq[p][Len(dq[p])]
<1>n. PICK n : n = Len(dq[p]) OBVIOUS
<1>m. n \in Nat /\ k \in 1 .. n BY <1>n, Typed
<1>1. /\ Len(dq'[p]) = n - 1
      /\ \A i \in 1 .. n - 1 : dq'[p][i] = IF i < k THEN dq[p][i] ELSE dq[p][i + 1]
      /\ \A q \in Partition : q # p => dq'[q] = dq[q]
      /\ dq' \in [Partition -> Seq(Nat)]
  BY <1>n DEF Removed
<1>2. ASSUME NEW i \in 1 .. n - 1
      PROVE  \E j \in 1 .. n : j # k /\ dq'[p][i] = dq[p][j] /\ i = (IF j < k THEN j ELSE j - 1)
  <2>1. CASE i < k
    <3>1. i \in 1 .. n /\ i # k /\ dq'[p][i] = dq[p][i] BY <2>1, <1>1, <1>m
    <3> QED BY <2>1, <3>1
  <2>2. CASE ~(i < k)
    <3>1. PICK j : j = i + 1 OBVIOUS
    <3>2. j \in 1 .. n /\ j # k /\ ~(j < k) /\ i = j - 1 BY <3>1, <2>2, <1>m
    <3>3. dq'[p][i] = dq[p][j] BY <3>1, <2>2, <1>1
    <3> QED BY <3>2, <3>3
  <2> QED BY <2>1, <2>2
<1>3. k < n => n - 1 > 0 /\ dq'[p][n - 1] = dq[p][n]
  <2> SUFFICES ASSUME k < n PROVE n - 1 > 0 /\ dq'[p][n - 1] = dq[p][n] OBVIOUS
  <2>1. n - 1 \in 1 .. n - 1 /\ ~(n - 1 < k) /\ (n - 1) + 1 = n BY <1>m
  <2>2. dq'[p][n - 1] = dq[p][(n - 1) + 1] BY <2>1, <1>1
  <2> QED BY <2>1, <2>2
<1> QED BY <1>1, <1>2, <1>3, <1>m, <1>n

LEMMA AbortIsRemoval ==
  ASSUME SInv, NEW p \in Partition, AbortBatch(p)
  PROVE  /\ life = "forced"
         /\ \E k \in 1 .. Len(dq[p]) :
              /\ dq[p][k] \in All /\ batch[dq[p][k]].tp = p /\ ~Done(dq[p][k])
              /\ Ended(batch, batch', dq[p][k], "aborted", batch[dq[p][k]].base, TRUE)
              /\ Removed(dq, dq', p, k) /\ incomplete' = incomplete \ {dq[p][k]}
         /\ UNCHANGED <<mode, muted, flight, pid, fresh, seqno, log, known, horizon, life, sent, flush>>
<1>1. PICK k \in 1 .. Len(dq[p]) :
        /\ batch' = [batch EXCEPT ![dq[p][k]].final = "aborted", ![dq[p][k]].closed = TRUE]
        /\ dq' = [dq EXCEPT ![p] = RemoveAt(@, k)]
        /\ incomplete' = incomplete \ {dq[p][k]}
  BY DEF AbortBatch
<1>2. dq[p][k] \in All /\ batch[dq[p][k]].tp = p /\ ~Done(dq[p][k]) BY DEF SInv, QueuesHold
<1>3. batch \in Seq(BatchRec) /\ dq \in [Partition -> Seq(Nat)] BY DEF SInv, Types
<1>4. Ended(batch, batch', dq[p][k], "aborted", batch[dq[p][k]].base, TRUE)
  BY <1>1, <1>2, <1>3, AbortIs DEF All
<1>5. Removed(dq, dq', p, k) BY <1>1, <1>3, RemoveIs
<1> QED BY <1>1, <1>2, <1>4, <1>5 DEF AbortBatch, ids, broker, app

LEMMA AbortKeeps ==
  ASSUME SInv, NEW p \in Partition, AbortBatch(p)
  PROVE  SInv'
<1>1. PICK k \in 1 .. Len(dq[p]) :
        /\ dq[p][k] \in All /\ batch[dq[p][k]].tp = p /\ ~Done(dq[p][k])
        /\ Ended(batch, batch', dq[p][k], "aborted", batch[dq[p][k]].base, TRUE)
        /\ Removed(dq, dq', p, k) /\ incomplete' = incomplete \ {dq[p][k]}
  BY AbortIsRemoval
<1>2. UNCHANGED <<mode, flight, pid, fresh, seqno, log, known, horizon, sent>>
  BY AbortIsRemoval
<1>b. PICK b : b = dq[p][k] OBVIOUS
<1>3. /\ b \in All /\ Ended(batch, batch', b, "aborted", batch[b].base, TRUE)
      /\ incomplete' = incomplete \ {b}
  BY <1>1, <1>b
<1>4. Framed(batch, batch') BY <1>3, EndedFrames DEF All
<1>5. /\ All' = All /\ OpenUntouched' /\ RecordsHold' /\ Apart' /\ NewestHasRoom'
      /\ LogIsOfBatches' /\ \A c \in All : HasRoom(c)' => HasRoom(c)
  BY <1>2, <1>4, FramedKeeps
<1>6. \A c \in All : batch'[c].tp = batch[c].tp /\ (batch[c].closed => batch'[c].closed)
  BY <1>4 DEF Framed, All
<1>7. (\A c \in All : c # b => batch'[c] = batch[c]) /\ batch'[b].final = "aborted" /\ batch'[b].closed
  BY <1>3 DEF Ended, All
<1>8. /\ \A i \in 1 .. Len(dq'[p]) :
           \E j \in 1 .. Len(dq[p]) : j # k /\ dq'[p][i] = dq[p][j] /\ i = (IF j < k THEN j ELSE j - 1)
      /\ Len(dq'[p]) = Len(dq[p]) - 1 /\ Len(dq[p]) \in Nat
      /\ \A q \in Partition : q # p => dq'[q] = dq[q]
      /\ dq' \in [Partition -> Seq(Nat)]
      /\ k < Len(dq[p]) =>
           Len(dq'[p]) > 0 /\ dq'[p][Len(dq'[p])] = dq[p][Len(dq[p])]
  BY <1>1, RemovedAt DEF SInv
<1>q. \A r \in Partition : \A j \in 1 .. Len(dq[r]) :
        /\ dq[r][j] \in All /\ batch[dq[r][j]].tp = r /\ batch[dq[r][j]].final = "none"
        /\ \A i \in 1 .. Len(dq[r]) : dq[r][i] = dq[r][j] => i = j
  BY DEF SInv, QueuesHold, Done
<1>9. Types'
  <2>1. batch' \in Seq(BatchRec) BY <1>4 DEF Framed
  <2> QED BY <2>1, <1>2, <1>8 DEF SInv, Types
<1>10. QueuesHold'
  <2> SUFFICES ASSUME NEW q \in Partition, NEW i \in 1 .. Len(dq'[q])
               PROVE  /\ dq'[q][i] \in All /\ batch'[dq'[q][i]].tp = q
                      /\ batch'[dq'[q][i]].final = "none"
                      /\ \A j \in 1 .. Len(dq'[q]) : dq'[q][j] = dq'[q][i] => i = j
    BY <1>5 DEF QueuesHold, Done
  <2>1. CASE q # p
    <3>1. dq'[q] = dq[q] BY <2>1, <1>8
    <3>2. dq[q][i] \in All /\ batch[dq[q][i]].tp = q /\ batch[dq[q][i]].final = "none" BY <3>1, <1>q
    <3>3. dq[q][i] # b BY <3>2, <2>1, <1>1, <1>b
    <3> QED BY <3>1, <3>2, <3>3, <1>6, <1>7, <1>q
  <2>2. CASE q = p
    <3>1. PICK m \in 1 .. Len(dq[p]) : m # k /\ dq'[p][i] = dq[p][m] /\ i = (IF m < k THEN m ELSE m - 1)
      BY <2>2, <1>8
    <3>2. dq[p][m] \in All /\ batch[dq[p][m]].tp = p /\ batch[dq[p][m]].final = "none" BY <1>q
    <3>3. dq[p][m] # b BY <3>1, <1>q, <1>b
    <3>4. ASSUME NEW j \in 1 .. Len(dq'[p]), dq'[p][j] = dq'[p][i] PROVE i = j
      <4>1. PICK l \in 1 .. Len(dq[p]) : dq'[p][j] = dq[p][l] /\ j = (IF l < k THEN l ELSE l - 1)
        BY <1>8
      <4>2. l = m BY <4>1, <3>1, <3>4, <1>q
      <4> QED BY <4>1, <4>2, <3>1
    <3> QED BY <2>2, <3>1, <3>2, <3>3, <3>4, <1>6, <1>7
  <2> QED BY <2>1, <2>2
<1>11. RequestsHold'
  <2> SUFFICES ASSUME NEW g \in flight
               PROVE  /\ g.id \in All /\ batch'[g.id].tp = g.tp /\ batch'[g.id].closed
                      /\ ~In(dq'[g.tp], g.id) /\ \A h \in flight : h.id = g.id => g = h
    BY <1>2, <1>5 DEF RequestsHold
  <2>2. /\ g.id \in All /\ batch[g.id].tp = g.tp /\ batch[g.id].closed
        /\ ~In(dq[g.tp], g.id) /\ \A h \in flight : h.id = g.id => g = h
    BY DEF SInv, RequestsHold
  <2>3. g.tp \in Partition BY Typed DEF SInv
  <2>4. ~In(dq'[g.tp], g.id)
    <3>1. CASE g.tp # p BY <3>1, <2>2, <2>3, <1>8
    <3>2. CASE g.tp = p BY <3>2, <2>2, <1>8 DEF In
    <3> QED BY <3>1, <3>2
  <2> QED BY <2>2, <2>4, <1>6
<1>12. Pending' BY <1>3, <1>5, <1>7 DEF SInv, Pending, Done
<1>13. RoomIsLast'
  <2> SUFFICES ASSUME NEW c \in All, HasRoom(c)'
               PROVE  Len(dq'[batch'[c].tp]) > 0
                      /\ dq'[batch'[c].tp][Len(dq'[batch'[c].tp])] = c
    BY <1>5 DEF RoomIsLast
  <2>1. HasRoom(c) /\ batch'[c].tp = batch[c].tp /\ batch[c].tp \in Partition
    BY <1>5, <1>6, Typed DEF SInv
  <2>2. Len(dq[batch[c].tp]) > 0 /\ dq[batch[c].tp][Len(dq[batch[c].tp])] = c
    BY <2>1 DEF SInv, RoomIsLast
  <2>3. CASE batch[c].tp # p BY <2>1, <2>2, <2>3, <1>8
  <2>4. CASE batch[c].tp = p
    <3>1. c # b BY <1>7 DEF HasRoom
    <3>2. k # Len(dq[p]) BY <3>1, <2>2, <2>4, <1>b
    <3>3. k < Len(dq[p]) BY <3>2, <1>8
    <3> QED BY <3>3, <2>1, <2>2, <2>4, <1>8
  <2> QED BY <2>3, <2>4
<1> QED BY <1>5, <1>9, <1>10, <1>11, <1>12, <1>13 DEF SInv

-----------------------------------------------------------------------------
(* A turn of the sender: drain, send, expire                               *)

IsDrained(ps, b) == \E p \in ps : b = dq[p][1]

\* What a turn does: gone are the batches that are failed, and the first
\* cut[p] batches leave the queue of p, the first of them to be sent.
Swept(ps, gone, cut, reset) ==
  /\ \A p \in ps : Len(dq[p]) > 0 /\ p \notin muted
  /\ \A p \in Partition : cut[p] \in 0 .. Len(dq[p]) /\ (p \in ps => cut[p] > 0)
  /\ \A b \in gone : b \in All /\ ~Done(b) /\ b <= horizon
  /\ \A b \in gone : (\E f \in flight : f.id = b)
                     \/ \E p \in Partition : \E k \in 1 .. cut[p] : b = dq[p][k]
  /\ \A p \in Partition : \A k \in 1 .. Len(dq[p]) :
       /\ k <= cut[p] => dq[p][k] \in gone \/ (k = 1 /\ p \in ps)
       /\ k > cut[p] => dq[p][k] \notin gone
  /\ dq' \in [Partition -> Seq(Nat)]
  /\ \A p \in Partition : Len(dq'[p]) = Len(dq[p]) - cut[p]
  /\ \A p \in Partition : \A i \in 1 .. Len(dq[p]) - cut[p] : dq'[p][i] = dq[p][i + cut[p]]
  /\ batch' \in Seq(BatchRec) /\ Len(batch') = Len(batch)
  /\ \A b \in All :
       /\ batch'[b].tp = batch[b].tp /\ batch'[b].recs = batch[b].recs
       /\ batch'[b].base = batch[b].base /\ batch'[b].attempts = batch[b].attempts
       /\ batch'[b].final = IF b \in gone THEN "failed" ELSE batch[b].final
       /\ batch'[b].closed = (batch[b].closed \/ b \in gone \/ IsDrained(ps, b))
       /\ IF IsDrained(ps, b) /\ Idempotent /\ batch[b].attempts = 0
          THEN batch'[b].pid = pid /\ batch'[b].seq = seqno[batch[b].tp]
          ELSE batch'[b].pid = batch[b].pid /\ batch'[b].seq = batch[b].seq
  /\ incomplete' = incomplete \ gone
  /\ reset = (Idempotent /\ \E b \in gone : batch[b].attempts > 0)
  /\ reset => pid' = 0 /\ seqno' = [p \in Partition |-> 0] /\ flight' = flight
  /\ ~reset => pid' = pid /\ seqno' = seqno
  /\ ~reset => \A g : g \in flight' <=>
       g \in flight \/ \E p \in ps : g = [id |-> dq[p][1], tp |-> p, res |-> "none", base |-> 0]
  /\ IsFiniteSet(flight')
  /\ muted' = IF Ordered THEN muted \cup ps ELSE muted
  /\ Runs /\ (Idempotent => pid # 0)
  /\ UNCHANGED <<mode, fresh, log, known, horizon, life, sent, flush>>

LEMMA HeadIs ==
  ASSUME Types, NEW p \in Partition, dq[p] # <<>>
  PROVE  /\ Len(dq[p]) > 0 /\ Head(dq[p]) = dq[p][1]
         /\ Tail(dq[p]) \in Seq(Nat) /\ Len(Tail(dq[p])) = Len(dq[p]) - 1
         /\ \A i \in 1 .. Len(dq[p]) - 1 : Tail(dq[p])[i] = dq[p][i + 1]
<1>1. dq[p] \in Seq(Nat) BY Typed
<1>2. Len(dq[p]) > 0 BY <1>1, EmptySeq
<1>3. Head(dq[p]) = dq[p][1] BY <1>1, <1>2
<1> QED BY <1>1, <1>2, <1>3, HeadTailProperties

\* How many of a queue leave it.
LEMMA CutIs ==
  ASSUME SInv, NEW ps \in SUBSET Partition, NEW p \in Partition,
         p \in ps => dq[p] # <<>>
  PROVE  \E n \in 0 .. Len(dq[p]) :
           /\ p \in ps => n > 0
           /\ Unexpired(Undrained(ps, p)) \in Seq(Nat)
           /\ Len(Unexpired(Undrained(ps, p))) = Len(dq[p]) - n
           /\ \A i \in 1 .. Len(dq[p]) - n : Unexpired(Undrained(ps, p))[i] = dq[p][i + n]
           /\ \A k \in 1 .. n : (k = 1 /\ p \in ps)
                                \/ (dq[p][k] <= horizon /\ dq[p][k] \in ExpiredHead(Undrained(ps, p)))
           /\ \A x \in ExpiredHead(Undrained(ps, p)) :
                \E k \in 1 .. n : x = dq[p][k] /\ x <= horizon /\ (p \in ps => k # 1)
<1>1. dq[p] \in Seq(Nat) /\ Len(dq[p]) \in Nat /\ Types /\ horizon \in Nat
  BY Typed DEF SInv, Types
<1>m. PICK m : m = Len(dq[p]) OBVIOUS
<1>n. m \in Nat BY <1>1, <1>m
<1>u. PICK u : u = Undrained(ps, p) OBVIOUS
<1>2. CASE p \notin ps
  <2>1. u = dq[p] BY <1>u, <1>2 DEF Undrained
  <2>2. PICK n \in 0 .. m :
           /\ \A i \in 1 .. n : dq[p][i] <= horizon
           /\ ExpiredHead(dq[p]) = {dq[p][i] : i \in 1 .. n}
           /\ Unexpired(dq[p]) \in Seq(Nat) /\ Len(Unexpired(dq[p])) = m - n
           /\ \A i \in 1 .. m - n : Unexpired(dq[p])[i] = dq[p][i + n]
    BY <1>1, <1>m, Prefix
  <2>3. \A k \in 1 .. n : dq[p][k] <= horizon /\ dq[p][k] \in ExpiredHead(dq[p]) BY <2>2
  <2>4. \A x \in ExpiredHead(dq[p]) : \E k \in 1 .. n : x = dq[p][k] /\ x <= horizon BY <2>2
  <2>5. n \in 0 .. Len(dq[p]) BY <1>m
  <2> WITNESS n \in 0 .. Len(dq[p])
  <2> QED BY <2>1, <2>2, <2>3, <2>4, <1>2, <1>m, <1>u
<1>3. CASE p \in ps
  <2>1. u = Tail(dq[p]) /\ dq[p] # <<>> BY <1>u, <1>3 DEF Undrained
  <2>2. m > 0 /\ u \in Seq(Nat) /\ Len(u) = m - 1 /\ \A i \in 1 .. m - 1 : u[i] = dq[p][i + 1]
    BY <2>1, <1>1, <1>m, HeadIs
  <2>a. PICK l \in 0 .. Len(u) :
           /\ \A i \in 1 .. l : u[i] <= horizon
           /\ ExpiredHead(u) = {u[i] : i \in 1 .. l}
           /\ Unexpired(u) \in Seq(Nat) /\ Len(Unexpired(u)) = Len(u) - l
           /\ \A i \in 1 .. Len(u) - l : Unexpired(u)[i] = u[i + l]
    BY <2>2, <1>1, Prefix
  <2>3. /\ l \in 0 .. m - 1
        /\ \A i \in 1 .. l : u[i] <= horizon
        /\ ExpiredHead(u) = {u[i] : i \in 1 .. l}
        /\ Unexpired(u) \in Seq(Nat) /\ Len(Unexpired(u)) = (m - 1) - l
        /\ \A i \in 1 .. (m - 1) - l : Unexpired(u)[i] = u[i + l]
    BY <2>2, <2>a
  <2>4. PICK n : n = l + 1 OBVIOUS
  <2>5. n \in 0 .. m /\ n > 0 /\ l = n - 1 /\ l \in Nat BY <2>3, <2>4, <1>n, <2>2
  <2>6. Len(Unexpired(u)) = m - n BY <2>3, <2>5, <1>n
  <2>7. \A i \in 1 .. m - n : Unexpired(u)[i] = dq[p][i + n]
    <3> SUFFICES ASSUME NEW i \in 1 .. m - n PROVE Unexpired(u)[i] = dq[p][i + n] OBVIOUS
    <3>1. i \in 1 .. (m - 1) - l /\ i + l \in 1 .. m - 1 /\ (i + l) + 1 = i + n BY <2>5, <1>n
    <3>2. Unexpired(u)[i] = u[i + l] BY <3>1, <2>3
    <3>3. u[i + l] = dq[p][(i + l) + 1] BY <3>1, <2>2
    <3> QED BY <3>1, <3>2, <3>3
  <2>8. \A k \in 1 .. n : k = 1 \/ (k - 1 \in 1 .. l /\ (k - 1) + 1 = k /\ k - 1 \in 1 .. m - 1)
    BY <2>5, <1>n
  <2>9. \A k \in 1 .. n : k = 1 \/ (dq[p][k] <= horizon /\ dq[p][k] \in ExpiredHead(u))
    <3> SUFFICES ASSUME NEW k \in 1 .. n, k # 1
                 PROVE  dq[p][k] <= horizon /\ dq[p][k] \in ExpiredHead(u)
      OBVIOUS
    <3>1. k - 1 \in 1 .. l /\ (k - 1) + 1 = k /\ k - 1 \in 1 .. m - 1 BY <2>8
    <3>2. u[k - 1] = dq[p][k] BY <3>1, <2>2
    <3> QED BY <3>1, <3>2, <2>3
  <2>10. \A x \in ExpiredHead(u) : \E k \in 1 .. n : x = dq[p][k] /\ x <= horizon /\ k # 1
    <3> SUFFICES ASSUME NEW x \in ExpiredHead(u)
                 PROVE  \E k \in 1 .. n : x = dq[p][k] /\ x <= horizon /\ k # 1
      OBVIOUS
    <3>1. PICK i \in 1 .. l : x = u[i] BY <2>3
    <3>2. i \in 1 .. m - 1 /\ i + 1 \in 1 .. n /\ i + 1 # 1 BY <2>3, <2>5, <1>n
    <3>3. x = dq[p][i + 1] /\ x <= horizon BY <3>1, <3>2, <2>2, <2>3
    <3> QED BY <3>2, <3>3
  <2>11. n \in 0 .. Len(dq[p]) BY <2>5, <1>m
  <2> WITNESS n \in 0 .. Len(dq[p])
  <2> QED BY <2>3, <2>5, <2>6, <2>7, <2>9, <2>10, <1>3, <1>m, <1>u
<1> QED BY <1>2, <1>3

\* How many batches leave each queue.
CutOf(ps, cut) ==
  \A p \in Partition :
    /\ cut[p] \in 0 .. Len(dq[p]) /\ (p \in ps => cut[p] > 0)
    /\ Unexpired(Undrained(ps, p)) \in Seq(Nat)
    /\ Len(Unexpired(Undrained(ps, p))) = Len(dq[p]) - cut[p]
    /\ \A i \in 1 .. Len(dq[p]) - cut[p] : Unexpired(Undrained(ps, p))[i] = dq[p][i + cut[p]]
    /\ \A k \in 1 .. cut[p] : (k = 1 /\ p \in ps)
                              \/ (dq[p][k] <= horizon /\ dq[p][k] \in ExpiredHead(Undrained(ps, p)))
    /\ \A x \in ExpiredHead(Undrained(ps, p)) :
         \E k \in 1 .. cut[p] : x = dq[p][k] /\ x <= horizon /\ (p \in ps => k # 1)

LEMMA CutExists ==
  ASSUME SInv, NEW ps \in SUBSET Partition, \A p \in ps : dq[p] # <<>>
  PROVE  \E cut : CutOf(ps, cut)
<1> DEFINE C(p, n) ==
      /\ n \in 0 .. Len(dq[p]) /\ (p \in ps => n > 0)
      /\ Unexpired(Undrained(ps, p)) \in Seq(Nat)
      /\ Len(Unexpired(Undrained(ps, p))) = Len(dq[p]) - n
      /\ \A i \in 1 .. Len(dq[p]) - n : Unexpired(Undrained(ps, p))[i] = dq[p][i + n]
      /\ \A k \in 1 .. n : (k = 1 /\ p \in ps)
                           \/ (dq[p][k] <= horizon /\ dq[p][k] \in ExpiredHead(Undrained(ps, p)))
      /\ \A x \in ExpiredHead(Undrained(ps, p)) :
           \E k \in 1 .. n : x = dq[p][k] /\ x <= horizon /\ (p \in ps => k # 1)
<1> DEFINE cut == [p \in Partition |-> CHOOSE n : C(p, n)]
<1>1. \A p \in Partition : \E n : C(p, n)
  <2> SUFFICES ASSUME NEW p \in Partition PROVE \E n : C(p, n) OBVIOUS
  <2>1. \E n \in 0 .. Len(dq[p]) : C(p, n) BY CutIs
  <2> HIDE DEF C
  <2> QED BY <2>1
<1> HIDE DEF C
<1>2. \A p \in Partition : C(p, cut[p]) BY <1>1
<1>3. CutOf(ps, cut) BY <1>2 DEF CutOf, C
<1> QED BY <1>3

LEMMA SweepIs ==
  ASSUME SInv, NEW ps \in SUBSET Partition, SendProducerData(ps)
  PROVE  \E gone, cut, reset : Swept(ps, gone, cut, reset)
<1>0. \A p \in ps : Drainable(p) BY DEF SendProducerData
<1>1. \A p \in ps : dq[p] # <<>> /\ p \notin muted BY <1>0 DEF Drainable
<1>2. PICK cut : CutOf(ps, cut) BY <1>1, CutExists
<1> DEFINE drained == Drain(ps)
           stale   == {b \in drained \cup Flying : b <= horizon /\ ~Done(b)}
           expired == stale \cup UNION {ExpiredHead(Undrained(ps, p)) : p \in Partition}
<1>g. PICK gone : gone = expired OBVIOUS
<1>r. PICK reset \in BOOLEAN : reset = (Idempotent /\ \E b \in gone : batch[b].attempts > 0)
  OBVIOUS
<1>3. /\ batch' = [b \in 1 .. Len(batch) |->
           LET c == IF b \in drained THEN Drained(b) ELSE batch[b]
           IN  IF b \in gone THEN [c EXCEPT !.final = "failed", !.closed = TRUE] ELSE c]
      /\ dq' = [p \in Partition |-> Unexpired(Undrained(ps, p))]
      /\ incomplete' = incomplete \ gone
      /\ muted' = IF Ordered THEN muted \cup ps ELSE muted
      /\ IF reset
         THEN ResetProducerId /\ UNCHANGED flight
         ELSE flight' = flight \cup ProduceRequests(drained) /\ UNCHANGED <<pid, seqno>>
      /\ Runs /\ (Idempotent => pid # 0)
      /\ UNCHANGED <<mode, fresh, broker, horizon, life, app, faults>>
  BY <1>g, <1>r DEF SendProducerData
<1>4. /\ \A p \in Partition : dq[p] \in Seq(Nat) /\ Len(dq[p]) \in Nat
      /\ \A p \in Partition : \A k \in 1 .. Len(dq[p]) :
           dq[p][k] \in All /\ batch[dq[p][k]].tp = p /\ ~Done(dq[p][k])
           /\ \A j \in 1 .. Len(dq[p]) : dq[p][j] = dq[p][k] => k = j
  BY Typed DEF SInv, QueuesHold
<1>5. \A p \in ps : Len(dq[p]) > 0 /\ Head(dq[p]) = dq[p][1] /\ 1 \in 1 .. Len(dq[p])
  <2> SUFFICES ASSUME NEW p \in ps
               PROVE  Len(dq[p]) > 0 /\ Head(dq[p]) = dq[p][1] /\ 1 \in 1 .. Len(dq[p])
    OBVIOUS
  <2>1. p \in Partition /\ Types BY DEF SInv
  <2>2. Len(dq[p]) > 0 /\ Head(dq[p]) = dq[p][1] BY <1>1, <2>1, HeadIs
  <2> QED BY <2>1, <2>2, <1>4
<1>6. \A b : b \in drained <=> IsDrained(ps, b) BY <1>5 DEF Drain, IsDrained
<1>7. \A p \in Partition :
        /\ cut[p] \in 0 .. Len(dq[p]) /\ (p \in ps => cut[p] > 0)
        /\ Unexpired(Undrained(ps, p)) \in Seq(Nat)
        /\ Len(Unexpired(Undrained(ps, p))) = Len(dq[p]) - cut[p]
        /\ \A i \in 1 .. Len(dq[p]) - cut[p] : Unexpired(Undrained(ps, p))[i] = dq[p][i + cut[p]]
  BY <1>2 DEF CutOf
<1>8. \A p \in Partition : \A k \in 1 .. cut[p] : (k = 1 /\ p \in ps) \/ dq[p][k] \in gone
  BY <1>2, <1>g DEF CutOf
<1>9. \A p \in Partition : \A x \in ExpiredHead(Undrained(ps, p)) :
         \E k \in 1 .. cut[p] : x = dq[p][k] /\ x <= horizon
  BY <1>2 DEF CutOf
<1>10. \A p \in Partition : \A k \in 1 .. cut[p] : k \in 1 .. Len(dq[p]) BY <1>7, <1>4
<1>11. \A p \in ps : 1 \in 1 .. cut[p] BY <1>7
<1>12. \A b \in gone :
         /\ b \in All /\ ~Done(b) /\ b <= horizon
         /\ \/ \E f \in flight : f.id = b
            \/ \E p \in Partition : \E k \in 1 .. cut[p] : b = dq[p][k]
  <2> SUFFICES ASSUME NEW b \in gone
               PROVE  /\ b \in All /\ ~Done(b) /\ b <= horizon
                      /\ \/ \E f \in flight : f.id = b
                         \/ \E p \in Partition : \E k \in 1 .. cut[p] : b = dq[p][k]
    OBVIOUS
  <2>1. \/ IsDrained(ps, b) /\ b <= horizon /\ ~Done(b)
        \/ b \in Flying /\ b <= horizon /\ ~Done(b)
        \/ \E p \in Partition : b \in ExpiredHead(Undrained(ps, p))
    BY <1>g, <1>6
  <2>2. CASE IsDrained(ps, b) /\ b <= horizon /\ ~Done(b)
    <3>1. PICK p \in ps : b = dq[p][1] BY <2>2 DEF IsDrained
    <3>2. p \in Partition /\ 1 \in 1 .. cut[p] /\ 1 \in 1 .. Len(dq[p]) BY <1>5, <1>11
    <3>3. b \in All BY <3>1, <3>2, <1>4
    <3> QED BY <2>2, <3>1, <3>2, <3>3
  <2>3. CASE b \in Flying /\ b <= horizon /\ ~Done(b)
    <3>1. PICK f \in flight : b = f.id BY <2>3 DEF Flying
    <3>2. b \in All BY <3>1 DEF SInv, RequestsHold
    <3> QED BY <2>3, <3>1, <3>2
  <2>4. CASE \E p \in Partition : b \in ExpiredHead(Undrained(ps, p))
    <3>1. PICK p \in Partition : b \in ExpiredHead(Undrained(ps, p)) BY <2>4
    <3>2. PICK k \in 1 .. cut[p] : b = dq[p][k] /\ b <= horizon BY <3>1, <1>9
    <3>3. b \in All /\ ~Done(b) BY <3>2, <1>4, <1>10
    <3> QED BY <3>2, <3>3
  <2> QED BY <2>1, <2>2, <2>3, <2>4
<1>13. \A p \in Partition : \A k \in 1 .. Len(dq[p]) : k > cut[p] => dq[p][k] \notin gone
  <2> SUFFICES ASSUME NEW p \in Partition, NEW k \in 1 .. Len(dq[p]), dq[p][k] \in gone
               PROVE  ~(k > cut[p])
    OBVIOUS
  <2>1. CASE \E f \in flight : f.id = dq[p][k]
    <3>1. PICK f \in flight : f.id = dq[p][k] BY <2>1
    <3>2. f.tp = p BY <3>1, <1>4 DEF SInv, RequestsHold
    <3>3. ~In(dq[p], f.id) BY <3>2 DEF SInv, RequestsHold
    <3> QED BY <3>1, <3>3 DEF In
  <2>2. CASE \E q \in Partition : \E j \in 1 .. cut[q] : dq[p][k] = dq[q][j]
    <3>1. PICK q \in Partition : \E j \in 1 .. cut[q] : dq[p][k] = dq[q][j] BY <2>2
    <3>2. PICK j \in 1 .. cut[q] : dq[p][k] = dq[q][j] BY <3>1
    <3>3. j \in 1 .. Len(dq[q]) BY <3>2, <1>10
    <3>4. batch[dq[q][j]].tp = q /\ batch[dq[p][k]].tp = p BY <3>3, <1>4
    <3>6. q = p BY <3>2, <3>4
    <3>5. k = j BY <3>2, <3>3, <3>6, <1>4
    <3> QED BY <3>2, <3>6, <3>5, <1>7
  <2> QED BY <2>1, <2>2, <1>12
<1>14. /\ dq' \in [Partition -> Seq(Nat)]
       /\ \A p \in Partition : Len(dq'[p]) = Len(dq[p]) - cut[p]
       /\ \A p \in Partition : \A i \in 1 .. Len(dq[p]) - cut[p] : dq'[p][i] = dq[p][i + cut[p]]
  <2>1. \A p \in Partition : dq'[p] = Unexpired(Undrained(ps, p)) BY <1>3
  <2>2. dq' = [p \in Partition |-> dq'[p]] BY <1>3
  <2>3. \A p \in Partition : dq'[p] \in Seq(Nat) BY <2>1, <1>7
  <2> QED BY <2>1, <2>2, <2>3, <1>7
<1>15. \A b \in All :
         /\ batch'[b] \in BatchRec
         /\ batch'[b].tp = batch[b].tp /\ batch'[b].recs = batch[b].recs
         /\ batch'[b].base = batch[b].base /\ batch'[b].attempts = batch[b].attempts
         /\ batch'[b].final = IF b \in gone THEN "failed" ELSE batch[b].final
         /\ batch'[b].closed = (batch[b].closed \/ b \in gone \/ IsDrained(ps, b))
         /\ IF IsDrained(ps, b) /\ Idempotent /\ batch[b].attempts = 0
            THEN batch'[b].pid = pid /\ batch'[b].seq = seqno[batch[b].tp]
            ELSE batch'[b].pid = batch[b].pid /\ batch'[b].seq = batch[b].seq
  <2> SUFFICES ASSUME NEW b \in All
               PROVE  /\ batch'[b] \in BatchRec
                      /\ batch'[b].tp = batch[b].tp /\ batch'[b].recs = batch[b].recs
                      /\ batch'[b].base = batch[b].base /\ batch'[b].attempts = batch[b].attempts
                      /\ batch'[b].final = IF b \in gone THEN "failed" ELSE batch[b].final
                      /\ batch'[b].closed = (batch[b].closed \/ b \in gone \/ IsDrained(ps, b))
                      /\ IF IsDrained(ps, b) /\ Idempotent /\ batch[b].attempts = 0
                         THEN batch'[b].pid = pid /\ batch'[b].seq = seqno[batch[b].tp]
                         ELSE batch'[b].pid = batch[b].pid /\ batch'[b].seq = batch[b].seq
    OBVIOUS
  <2>1. PICK c : c = IF IsDrained(ps, b) THEN Drained(b) ELSE batch[b] OBVIOUS
  <2>2. batch'[b] = IF b \in gone THEN [c EXCEPT !.final = "failed", !.closed = TRUE] ELSE c
    <3> HIDE DEF drained
    <3> QED BY <2>1, <1>3, <1>6 DEF All
  <2>3. batch[b] \in BatchRec /\ batch[b].tp \in Partition /\ pid \in Nat
        /\ seqno[batch[b].tp] \in Nat /\ batch[b].closed \in BOOLEAN
    BY Typed DEF SInv, Types
  <2>4. /\ c \in BatchRec /\ c.tp = batch[b].tp /\ c.recs = batch[b].recs
        /\ c.base = batch[b].base /\ c.attempts = batch[b].attempts
        /\ c.final = batch[b].final /\ c.closed = (batch[b].closed \/ IsDrained(ps, b))
        /\ IF IsDrained(ps, b) /\ Idempotent /\ batch[b].attempts = 0
           THEN c.pid = pid /\ c.seq = seqno[batch[b].tp]
           ELSE c.pid = batch[b].pid /\ c.seq = batch[b].seq
    <3>1. CASE ~IsDrained(ps, b) BY <3>1, <2>1, <2>3
    <3>2. CASE IsDrained(ps, b) /\ Idempotent /\ batch[b].attempts = 0
      <4>1. c = [batch[b] EXCEPT !.closed = TRUE, !.pid = pid, !.seq = seqno[batch[b].tp]]
        BY <3>2, <2>1 DEF Drained
      <4> QED BY <4>1, <3>2, <2>3 DEF BatchRec
    <3>3. CASE IsDrained(ps, b) /\ ~(Idempotent /\ batch[b].attempts = 0)
      <4>1. c = [batch[b] EXCEPT !.closed = TRUE] BY <3>3, <2>1 DEF Drained
      <4> QED BY <4>1, <3>3, <2>3 DEF BatchRec
    <3> QED BY <3>1, <3>2, <3>3
  <2>5. CASE b \notin gone BY <2>2, <2>4, <2>5
  <2>6. CASE b \in gone
    <3>1. batch'[b] = [c EXCEPT !.final = "failed", !.closed = TRUE] BY <2>2, <2>6
    <3>2. PICK d : d = batch'[b] OBVIOUS
    <3>3. /\ d \in BatchRec /\ d.tp = c.tp /\ d.recs = c.recs /\ d.base = c.base
          /\ d.attempts = c.attempts /\ d.final = "failed" /\ d.closed = TRUE
          /\ d.pid = c.pid /\ d.seq = c.seq
      BY <3>1, <3>2, <2>4 DEF BatchRec, Finals
    <3> QED BY <3>2, <3>3, <2>4, <2>6
  <2> QED BY <2>5, <2>6
<1>16. batch' \in Seq(BatchRec) /\ Len(batch') = Len(batch)
  <2>1. PICK n : n = Len(batch) OBVIOUS
  <2>2. n \in Nat /\ All = 1 .. n BY <2>1, Typed DEF SInv
  <2>3. DOMAIN batch' = 1 .. n BY <1>3, <2>1
  <2>4. batch' = [b \in 1 .. n |-> batch'[b]] BY <1>3, <2>1
  <2>5. \A b \in 1 .. n : batch'[b] \in BatchRec BY <1>15, <2>2
  <2>6. batch' \in Seq(BatchRec) BY <2>2, <2>4, <2>5, SeqDef
  <2>7. Len(batch') = n BY <2>2, <2>3, <2>6
  <2> QED BY <2>1, <2>6, <2>7
<1>17. ~reset => \A g : g \in flight' <=>
         g \in flight \/ \E p \in ps : g = [id |-> dq[p][1], tp |-> p, res |-> "none", base |-> 0]
  <2> SUFFICES ASSUME ~reset
               PROVE  \A g : g \in flight' <=>
                        g \in flight
                        \/ \E p \in ps : g = [id |-> dq[p][1], tp |-> p, res |-> "none", base |-> 0]
    OBVIOUS
  <2>1. flight' = flight \cup ProduceRequests(drained) BY <1>3
  <2>2. \A g : g \in ProduceRequests(drained) <=>
          \E b \in drained : g = [id |-> b, tp |-> batch[b].tp, res |-> "none", base |-> 0]
    BY DEF ProduceRequests
  <2>3. \A g : g \in ProduceRequests(drained) <=>
          \E p \in ps : g = [id |-> dq[p][1], tp |-> batch[dq[p][1]].tp, res |-> "none", base |-> 0]
    BY <2>2, <1>5 DEF Drain
  <2>4. \A p \in ps : batch[dq[p][1]].tp = p BY <1>4, <1>5
  <2> QED BY <2>1, <2>3, <2>4
<1>18. IsFiniteSet(flight')
  <2>1. IsFiniteSet(flight) /\ IsFiniteSet(All)
    <3>1. Len(batch) \in Nat /\ All = 1 .. Len(batch) /\ Types BY Typed DEF SInv
    <3>2. Len(batch) \in Int /\ 1 \in Int BY <3>1
    <3>3. IsFiniteSet(1 .. Len(batch)) BY <3>2, FS_Interval
    <3> QED BY <3>1, <3>3 DEF Types
  <2>2. drained \subseteq All BY <1>4, <1>5 DEF Drain
  <2>3. IsFiniteSet(drained) BY <2>1, <2>2, FS_Subset
  <2>4. IsFiniteSet(ProduceRequests(drained))
    <3>1. PICK rs : rs = ProduceRequests(drained) OBVIOUS
    <3>2. PICK h : h = [b \in drained |-> [id |-> b, tp |-> batch[b].tp, res |-> "none", base |-> 0]]
      OBVIOUS
    <3> HIDE DEF drained
    <3>3. h \in Surjection(drained, rs) BY <3>1, <3>2 DEF ProduceRequests, Surjection
    <3> QED BY <3>1, <3>3, <2>3, FS_Surjection
  <2>5. IsFiniteSet(flight \cup ProduceRequests(drained)) BY <2>1, <2>4, FS_Union
  <2> QED BY <2>1, <2>5, <1>3
<1>19. /\ reset => pid' = 0 /\ seqno' = [p \in Partition |-> 0] /\ flight' = flight
       /\ ~reset => pid' = pid /\ seqno' = seqno
       /\ UNCHANGED <<mode, fresh, log, known, horizon, life, sent, flush>>
  BY <1>3 DEF ResetProducerId, broker, app
<1>20. \A p \in Partition : \A k \in 1 .. Len(dq[p]) :
         /\ k <= cut[p] => dq[p][k] \in gone \/ (k = 1 /\ p \in ps)
         /\ k > cut[p] => dq[p][k] \notin gone
  <2>1. \A p \in Partition : \A k \in 1 .. Len(dq[p]) : k <= cut[p] => k \in 1 .. cut[p]
    BY <1>4, <1>7
  <2> QED BY <2>1, <1>8, <1>13
<1> HIDE DEF drained, stale, expired
<1>21. Swept(ps, gone, cut, reset)
  BY <1>1, <1>3, <1>5, <1>7, <1>12, <1>14, <1>15, <1>16, <1>17, <1>18, <1>19, <1>20, <1>r DEF Swept
<1> QED BY <1>21

\* What stays in a queue.
LEMMA SweptAt ==
  ASSUME SInv, NEW ps \in SUBSET Partition, NEW gone, NEW cut, NEW reset,
         Swept(ps, gone, cut, reset)
  PROVE  /\ \A p \in Partition : \A i \in 1 .. Len(dq'[p]) : \E k \in 1 .. Len(dq[p]) :
              /\ k = i + cut[p] /\ dq'[p][i] = dq[p][k] /\ dq[p][k] \notin gone
              /\ p \in ps => k # 1
         /\ \A p \in Partition : /\ Len(dq'[p]) = Len(dq[p]) - cut[p] /\ cut[p] \in Nat
                                 /\ Len(dq[p]) \in Nat /\ cut[p] <= Len(dq[p])
                                 /\ Len(dq'[p]) \in Nat
<1>1. \A p \in Partition : Len(dq[p]) \in Nat BY Typed DEF SInv
<1>2. \A p \in Partition :
        /\ cut[p] \in 0 .. Len(dq[p]) /\ (p \in ps => cut[p] > 0)
        /\ Len(dq'[p]) = Len(dq[p]) - cut[p]
        /\ \A i \in 1 .. Len(dq[p]) - cut[p] : dq'[p][i] = dq[p][i + cut[p]]
        /\ \A k \in 1 .. Len(dq[p]) : k > cut[p] => dq[p][k] \notin gone
  BY DEF Swept
<1>3. \A p \in Partition : /\ Len(dq'[p]) = Len(dq[p]) - cut[p] /\ cut[p] \in Nat
                           /\ Len(dq[p]) \in Nat /\ cut[p] <= Len(dq[p])
                           /\ Len(dq'[p]) \in Nat
  BY <1>1, <1>2
<1>4. ASSUME NEW p \in Partition, NEW i \in 1 .. Len(dq'[p])
      PROVE  \E k \in 1 .. Len(dq[p]) :
               /\ k = i + cut[p] /\ dq'[p][i] = dq[p][k] /\ dq[p][k] \notin gone
               /\ p \in ps => k # 1
  <2>1. PICK k : k = i + cut[p] OBVIOUS
  <2>2. k \in 1 .. Len(dq[p]) /\ k > cut[p] /\ (p \in ps => k # 1) BY <2>1, <1>2, <1>3
  <2>3. dq'[p][i] = dq[p][k] /\ dq[p][k] \notin gone BY <2>1, <2>2, <1>2
  <2> QED BY <2>1, <2>2, <2>3
<1> QED BY <1>3, <1>4

LEMMA SweepKeeps ==
  ASSUME SInv, NEW ps \in SUBSET Partition, NEW gone, NEW cut, NEW reset,
         Swept(ps, gone, cut, reset)
  PROVE  SInv'
<1>1. \A b \in All :
        /\ batch'[b].tp = batch[b].tp /\ batch'[b].recs = batch[b].recs
        /\ batch'[b].attempts = batch[b].attempts
        /\ batch'[b].final = IF b \in gone THEN "failed" ELSE batch[b].final
        /\ batch'[b].closed = (batch[b].closed \/ b \in gone \/ IsDrained(ps, b))
        /\ ~IsDrained(ps, b) => batch'[b].pid = batch[b].pid
  BY DEF Swept
<1>2. batch' \in Seq(BatchRec) /\ Len(batch') = Len(batch) /\ All = 1 .. Len(batch)
      /\ UNCHANGED <<sent, log, mode, known, fresh, horizon>>
  BY DEF Swept, All
<1>3. Framed(batch, batch') BY <1>1, <1>2 DEF Framed
<1>4. /\ All' = All /\ OpenUntouched' /\ RecordsHold' /\ Apart' /\ NewestHasRoom'
      /\ LogIsOfBatches' /\ \A c \in All : HasRoom(c)' => HasRoom(c)
  BY <1>2, <1>3, FramedKeeps
<1>5. /\ \A p \in Partition : \A i \in 1 .. Len(dq'[p]) : \E k \in 1 .. Len(dq[p]) :
           /\ k = i + cut[p] /\ dq'[p][i] = dq[p][k] /\ dq[p][k] \notin gone
           /\ p \in ps => k # 1
      /\ \A p \in Partition : /\ Len(dq'[p]) = Len(dq[p]) - cut[p] /\ cut[p] \in Nat
                              /\ Len(dq[p]) \in Nat /\ cut[p] <= Len(dq[p])
                              /\ Len(dq'[p]) \in Nat
  BY SweptAt
<1>6. \A p \in ps : p \in Partition /\ 1 \in 1 .. Len(dq[p])
  <2>1. \A p \in ps : Len(dq[p]) > 0 BY DEF Swept
  <2>2. \A p \in ps : p \in Partition OBVIOUS
  <2> QED BY <2>1, <2>2, <1>5
<1>7. \A r \in Partition : \A j \in 1 .. Len(dq[r]) :
        /\ dq[r][j] \in All /\ batch[dq[r][j]].tp = r /\ batch[dq[r][j]].final = "none"
        /\ \A i \in 1 .. Len(dq[r]) : dq[r][i] = dq[r][j] => i = j
  BY DEF SInv, QueuesHold, Done
<1>8. \A g \in flight' :
        \/ g \in flight
        \/ \E p \in ps : g = [id |-> dq[p][1], tp |-> p, res |-> "none", base |-> 0]
  BY DEF Swept
<1>9. Types'
  <2>1. dq' \in [Partition -> Seq(Nat)] /\ IsFiniteSet(flight') BY DEF Swept
  <2>2. flight' \subseteq RequestRec
    <3>1. flight \subseteq RequestRec BY DEF SInv, Types
    <3>2. \A p \in ps : dq[p][1] \in Nat BY <1>6, Typed DEF SInv
    <3>3. \A p \in ps : [id |-> dq[p][1], tp |-> p, res |-> "none", base |-> 0] \in RequestRec
      BY <1>6, <3>2 DEF RequestRec, Results
    <3> QED BY <1>8, <3>1, <3>3
  <2>3. pid' \in Nat /\ pid' < fresh /\ seqno' \in [Partition -> Nat]
    <3>1. pid \in Nat /\ pid < fresh /\ fresh \in Nat /\ seqno \in [Partition -> Nat]
      BY DEF SInv, Types
    <3>2. \/ pid' = 0 /\ seqno' = [p \in Partition |-> 0]
          \/ pid' = pid /\ seqno' = seqno
      BY DEF Swept
    <3> QED BY <3>1, <3>2
  <2> QED BY <2>1, <2>2, <2>3, <1>2 DEF SInv, Types
<1>10. QueuesHold'
  <2> SUFFICES ASSUME NEW p \in Partition, NEW i \in 1 .. Len(dq'[p])
               PROVE  /\ dq'[p][i] \in All /\ batch'[dq'[p][i]].tp = p
                      /\ batch'[dq'[p][i]].final = "none"
                      /\ \A j \in 1 .. Len(dq'[p]) : dq'[p][j] = dq'[p][i] => i = j
    BY <1>4 DEF QueuesHold, Done
  <2>1. PICK k \in 1 .. Len(dq[p]) :
          k = i + cut[p] /\ dq'[p][i] = dq[p][k] /\ dq[p][k] \notin gone
    BY <1>5
  <2>2. ASSUME NEW j \in 1 .. Len(dq'[p]), dq'[p][j] = dq'[p][i] PROVE i = j
    <3>1. PICK l \in 1 .. Len(dq[p]) : l = j + cut[p] /\ dq'[p][j] = dq[p][l] BY <1>5
    <3>a. dq[p][l] = dq[p][k] BY <3>1, <2>1, <2>2
    <3>2. l = k BY <3>a, <1>7
    <3> QED BY <3>1, <3>2, <2>1, <1>5
  <2> QED BY <2>1, <2>2, <1>1, <1>7
<1>11. RequestsHold'
  <2> SUFFICES ASSUME NEW g \in flight'
               PROVE  /\ g.id \in All /\ batch'[g.id].tp = g.tp /\ batch'[g.id].closed
                      /\ ~In(dq'[g.tp], g.id) /\ \A h \in flight' : h.id = g.id => g = h
    BY <1>4 DEF RequestsHold
  <2>o. \A h \in flight :
          /\ h.id \in All /\ batch[h.id].tp = h.tp /\ batch[h.id].closed
          /\ ~In(dq[h.tp], h.id) /\ \A k \in flight : k.id = h.id => h = k
          /\ h.tp \in Partition
    BY Typed DEF SInv, RequestsHold
  <2>1. CASE g \in flight
    <3>1. ~In(dq'[g.tp], g.id)
      <4> SUFFICES ASSUME NEW i \in 1 .. Len(dq'[g.tp]), dq'[g.tp][i] = g.id PROVE FALSE
        BY DEF In
      <4>1. g.tp \in Partition /\ ~In(dq[g.tp], g.id) BY <2>1, <2>o
      <4>2. PICK k \in 1 .. Len(dq[g.tp]) : dq'[g.tp][i] = dq[g.tp][k] BY <4>1, <1>5
      <4> QED BY <4>1, <4>2 DEF In
    <3>2. ASSUME NEW h \in flight', h.id = g.id, h \notin flight PROVE FALSE
      <4>1. PICK p \in ps : h.id = dq[p][1] BY <3>2, <1>8
      <4>2. batch[dq[p][1]].tp = p /\ 1 \in 1 .. Len(dq[p]) BY <1>6, <1>7
      <4>4. g.tp = p BY <4>1, <4>2, <3>2, <2>1, <2>o
      <4>5. dq[p][1] = g.id BY <4>1, <3>2
      <4>3. In(dq[g.tp], g.id) BY <4>2, <4>4, <4>5 DEF In
      <4> QED BY <4>3, <2>1, <2>o
    <3> QED BY <3>1, <3>2, <2>1, <2>o, <1>1
  <2>2. CASE \E p \in ps : g = [id |-> dq[p][1], tp |-> p, res |-> "none", base |-> 0]
    <3>1. PICK p \in ps : g = [id |-> dq[p][1], tp |-> p, res |-> "none", base |-> 0] BY <2>2
    <3>2. g.id = dq[p][1] /\ g.tp = p BY <3>1
    <3>3. g.id \in All /\ batch[g.id].tp = p /\ IsDrained(ps, g.id)
      BY <3>2, <1>6, <1>7 DEF IsDrained
    <3>4. ~In(dq'[p], g.id)
      <4> SUFFICES ASSUME NEW i \in 1 .. Len(dq'[p]), dq'[p][i] = dq[p][1] PROVE FALSE
        BY <3>2 DEF In
      <4>1. PICK k \in 1 .. Len(dq[p]) : dq'[p][i] = dq[p][k] /\ k # 1 BY <1>5, <1>6
      <4>2. p \in Partition /\ 1 \in 1 .. Len(dq[p]) /\ dq[p][k] = dq[p][1] BY <4>1, <1>6
      <4>3. 1 = k BY <4>2, <1>7
      <4> QED BY <4>1, <4>3
    <3>5. ASSUME NEW h \in flight', h.id = g.id PROVE g = h
      <4>1. CASE h \in flight
        <5>1. In(dq[h.tp], h.id) BY <4>1, <3>2, <3>3, <3>5, <2>o, <1>6 DEF In
        <5> QED BY <5>1, <4>1, <2>o
      <4>2. CASE \E q \in ps : h = [id |-> dq[q][1], tp |-> q, res |-> "none", base |-> 0]
        <5>1. PICK q \in ps : h = [id |-> dq[q][1], tp |-> q, res |-> "none", base |-> 0]
          BY <4>2
        <5>2. h.id = dq[q][1] BY <5>1
        <5>3. batch[dq[q][1]].tp = q /\ batch[dq[p][1]].tp = p BY <1>6, <1>7
        <5>4. p = q BY <5>2, <5>3, <3>2, <3>5
        <5> QED BY <5>1, <5>4, <3>1
      <4> QED BY <4>1, <4>2, <1>8
    <3> QED BY <3>2, <3>3, <3>4, <3>5, <1>1
  <2> QED BY <2>1, <2>2, <1>8
<1>12. Pending'
  <2>1. incomplete' = incomplete \ gone BY DEF Swept
  <2>2. \A b \in All : ~Done(b)' => b \notin gone /\ ~Done(b) BY <1>1 DEF Done
  <2> QED BY <2>1, <2>2, <1>4 DEF SInv, Pending
<1>13. RoomIsLast'
  <2> SUFFICES ASSUME NEW c \in All, HasRoom(c)'
               PROVE  Len(dq'[batch'[c].tp]) > 0
                      /\ dq'[batch'[c].tp][Len(dq'[batch'[c].tp])] = c
    BY <1>4 DEF RoomIsLast
  <2>p. PICK p : p = batch[c].tp OBVIOUS
  <2>1. HasRoom(c) /\ batch'[c].tp = p /\ p \in Partition /\ ~batch'[c].closed
    BY <2>p, <1>1, <1>4, Typed DEF SInv, HasRoom
  <2>n. PICK n : n = Len(dq[p]) OBVIOUS
  <2>m. PICK m : m = cut[p] OBVIOUS
  <2>2. n > 0 /\ dq[p][n] = c /\ n \in Nat /\ m \in Nat /\ m <= n /\ n \in 1 .. n
    BY <2>p, <2>1, <2>n, <2>m, <1>5 DEF SInv, RoomIsLast
  <2>3. c \notin gone /\ ~IsDrained(ps, c) BY <2>1, <1>1
  <2>4. ~(n <= m)
    <3>1. n <= m => c \in gone \/ (n = 1 /\ p \in ps)
      BY <2>1, <2>2, <2>n, <2>m DEF Swept
    <3>2. ~(n = 1 /\ p \in ps) BY <2>2, <2>3 DEF IsDrained
    <3> QED BY <3>1, <3>2, <2>3
  <2>5. Len(dq'[p]) = n - m BY <2>1, <2>n, <2>m, <1>5
  <2>6. n - m \in 1 .. n - m /\ (n - m) + m = n /\ n - m > 0 BY <2>2, <2>4
  <2>7. dq'[p][n - m] = c
    <3>1. PICK k \in 1 .. Len(dq[p]) : k = (n - m) + cut[p] /\ dq'[p][n - m] = dq[p][k]
      BY SMTT(40), <2>1, <2>5, <2>6, <1>5
    <3> QED BY <3>1, <2>2, <2>6, <2>m
  <2> QED BY <2>1, <2>5, <2>6, <2>7
<1> QED BY <1>4, <1>9, <1>10, <1>11, <1>12, <1>13 DEF SInv

-----------------------------------------------------------------------------
(* What the broker writes                                                  *)

\* Records at the end of the log of a partition.
Grown(ls, ms, p, recs) ==
  /\ ms \in [Partition -> Seq(Nat)]
  /\ \A q \in Partition : q # p => ms[q] = ls[q]
  /\ Len(ms[p]) = Len(ls[p]) + Len(recs)
  /\ \A i \in 1 .. Len(ls[p]) : ms[p][i] = ls[p][i]
  /\ \A k \in 1 .. Len(recs) : ms[p][Len(ls[p]) + k] = recs[k]
  /\ \A i \in 1 .. Len(ms[p]) :
       i \in 1 .. Len(ls[p]) \/ \E k \in 1 .. Len(recs) : i = Len(ls[p]) + k
\* And their numbers, when they have some.
Numbered(ks, js, p, id, n) ==
  /\ DOMAIN js = Partition
  /\ \A q \in Partition : q # p => js[q] = ks[q]
  /\ DOMAIN js[p] = DOMAIN ks[p] \cup {id} /\ js[p][id] = n
  /\ \A i \in DOMAIN ks[p] : i # id => js[p][i] = ks[p][i]

LEMMA GrowIs ==
  ASSUME NEW ls \in [Partition -> Seq(Nat)], NEW p \in Partition, NEW recs \in Seq(Nat)
  PROVE  Grown(ls, [ls EXCEPT ![p] = @ \o recs], p, recs)
<1>1. ls[p] \in Seq(Nat) OBVIOUS
<1>n. PICK n : n = Len(ls[p]) OBVIOUS
<1>m. PICK m : m = Len(recs) OBVIOUS
<1>t. n \in Nat /\ m \in Nat BY <1>1, <1>n, <1>m
<1>2. PICK s : s = ls[p] \o recs OBVIOUS
<1>3. /\ s \in Seq(Nat) /\ Len(s) = n + m
      /\ \A i \in 1 .. n + m : s[i] = IF i <= n THEN ls[p][i] ELSE recs[i - n]
  BY <1>1, <1>2, <1>n, <1>m, ConcatProperties
<1>4. \A i \in 1 .. n : s[i] = ls[p][i]
  <2>1. \A i \in 1 .. n : i \in 1 .. n + m /\ i <= n BY <1>t
  <2> QED BY <2>1, <1>3
<1>5. \A k \in 1 .. m : s[n + k] = recs[k]
  <2>1. \A k \in 1 .. m : n + k \in 1 .. n + m /\ ~(n + k <= n) /\ (n + k) - n = k BY <1>t
  <2> QED BY <2>1, <1>3
<1>6. \A i \in 1 .. n + m : i \in 1 .. n \/ \E k \in 1 .. m : i = n + k
  <2>1. \A i \in 1 .. n + m : i \in 1 .. n \/ (i - n \in 1 .. m /\ i = n + (i - n)) BY <1>t
  <2> QED BY <2>1
<1>7. PICK ms : ms = [ls EXCEPT ![p] = s] OBVIOUS
<1>8. ms \in [Partition -> Seq(Nat)] /\ ms[p] = s /\ \A q \in Partition : q # p => ms[q] = ls[q]
  BY <1>3, <1>7
<1>9. Grown(ls, ms, p, recs) BY ZenonT(40), <1>3, <1>4, <1>5, <1>6, <1>8, <1>n, <1>m DEF Grown
<1> QED BY <1>2, <1>7, <1>9

LEMMA NumberIs ==
  ASSUME NEW ks, DOMAIN ks = Partition, NEW p \in Partition, NEW id, NEW n
  PROVE  Numbered(ks, [ks EXCEPT ![p] =
                    [i \in DOMAIN @ \cup {id} |-> IF i = id THEN n ELSE @[i]]], p, id, n)
<1>1. PICK g : g = [i \in DOMAIN ks[p] \cup {id} |-> IF i = id THEN n ELSE ks[p][i]] OBVIOUS
<1>2. PICK js : js = [ks EXCEPT ![p] = g] OBVIOUS
<1>3. js[p] = g /\ DOMAIN js = Partition /\ \A q \in Partition : q # p => js[q] = ks[q]
  BY <1>2
<1>4. Numbered(ks, js, p, id, n) BY <1>1, <1>3 DEF Numbered
<1> QED BY <1>1, <1>2, <1>4

\* The broker takes the batch of a request.
Taken(f, g) ==
  /\ Grown(log, log', f.tp, batch[f.id].recs)
  /\ ~Idempotent => known' = known
  /\ Idempotent =>
       Numbered(known, known', f.tp, batch[f.id].pid,
                [first |-> batch[f.id].seq, next |-> batch[f.id].seq + Len(batch[f.id].recs),
                 base |-> Len(log[f.tp])])
  /\ g.id = f.id /\ g.tp = f.tp /\ g.res = "ok" /\ g.base = Len(log[f.tp])
  /\ flight' = (flight \ {f}) \cup {g}
\* Or the request has another answer.
Told(f, g) ==
  /\ g.id = f.id /\ g.tp = f.tp /\ flight' = (flight \ {f}) \cup {g}
  /\ UNCHANGED <<log, known>>
Still == UNCHANGED <<mode, sent, batch, dq, incomplete, pid, fresh, seqno, life, flush, muted>>

\* What the code does with sequence numbers, as far as a proof must see it.
AppendsAs(f, g) ==
  LET b   == batch[f.id]
      num == Numbers(f.tp, b.pid)
  IN  \/ (~Idempotent \/ b.seq = num.next) /\ Taken(f, g)
      \/ /\ Idempotent /\ b.seq # num.next /\ Told(f, g)
         /\ \/ b.seq = num.first /\ b.seq + Len(b.recs) = num.next /\ g.res = "ok" /\ g.base = num.base
            \/ num = Fresh /\ g.res = "unknown_producer" /\ g.base = 0
            \/ /\ num # Fresh /\ g.res = "out_of_order" /\ g.base = 0
               /\ ~(b.seq = num.first /\ b.seq + Len(b.recs) = num.next)

LEMMA NumbersTyped ==
  ASSUME Types, NEW p \in Partition, NEW id
  PROVE  /\ Numbers(p, id) \in NumberRec /\ Fresh \in NumberRec
         /\ Numbers(p, id).base \in Nat /\ Numbers(p, id).first \in Nat /\ Numbers(p, id).next \in Nat
<1>1. Fresh \in NumberRec BY DEF Fresh, NumberRec
<1>2. Numbers(p, id) \in NumberRec BY <1>1 DEF Numbers, Types
<1> QED BY <1>1, <1>2 DEF NumberRec

LEMMA AppendIs ==
  ASSUME SInv, NEW f \in flight, BrokerAppend(f)
  PROVE  /\ f.res = "none" /\ Still /\ horizon' = horizon
         /\ \E g \in RequestRec : /\ AppendsAs(f, g)
                                  /\ flight' \subseteq RequestRec /\ IsFiniteSet(flight')
                                  /\ RequestsHold'
<1>1. f.res = "none" /\ Still /\ horizon' = horizon
  BY DEF BrokerAppend, Still, queues, ids, app
<1>2. f.id \in All /\ f.tp \in Partition /\ Types /\ RequestsHold BY Typed DEF SInv, RequestsHold
<1>3. batch[f.id].recs \in Seq(Nat) /\ log \in [Partition -> Seq(Nat)] /\ Len(log[f.tp]) \in Nat
      /\ DOMAIN known = Partition
  BY <1>2, Typed DEF Types
<1>4. \A res \in Results, base \in Nat : Answered(f, res, base) =>
        \E g \in RequestRec :
           /\ g.id = f.id /\ g.tp = f.tp /\ g.res = res /\ g.base = base
           /\ flight' = (flight \ {f}) \cup {g}
           /\ flight' \subseteq RequestRec /\ IsFiniteSet(flight') /\ RequestsHold'
  <2> SUFFICES ASSUME NEW res \in Results, NEW base \in Nat, Answered(f, res, base)
               PROVE  \E g \in RequestRec :
                        /\ g.id = f.id /\ g.tp = f.tp /\ g.res = res /\ g.base = base
                        /\ flight' = (flight \ {f}) \cup {g}
                        /\ flight' \subseteq RequestRec /\ IsFiniteSet(flight') /\ RequestsHold'
    OBVIOUS
  <2>1. UNCHANGED <<batch, dq>> BY <1>1 DEF Still
  <2> QED BY <2>1, <1>2, AnsweredKeeps
<1>5. "ok" \in Results /\ "unknown_producer" \in Results /\ "out_of_order" \in Results /\ 0 \in Nat
  BY DEF Results
<1> DEFINE b == batch[f.id]
           num == Numbers(f.tp, b.pid)
<1>6. num.base \in Nat BY <1>2, NumbersTyped
<1>7. CASE ~Idempotent \/ b.seq = num.next
  <2>1. Take(f, b) BY <1>7 DEF BrokerAppend
  <2>2. Grown(log, log', f.tp, b.recs)
    <3>1. log' = [log EXCEPT ![f.tp] = @ \o b.recs] BY <2>1 DEF Take
    <3> HIDE DEF b, num
    <3> QED BY <3>1, <1>2, <1>3, GrowIs DEF b
  <2>3. ~Idempotent => known' = known BY <2>1 DEF Take
  <2>4. Idempotent => Numbered(known, known', f.tp, b.pid,
          [first |-> b.seq, next |-> b.seq + Len(b.recs), base |-> Len(log[f.tp])])
    <3> SUFFICES ASSUME Idempotent
                 PROVE  Numbered(known, known', f.tp, b.pid,
                          [first |-> b.seq, next |-> b.seq + Len(b.recs), base |-> Len(log[f.tp])])
      OBVIOUS
    <3>n. PICK n : n = [first |-> b.seq, next |-> b.seq + Len(b.recs), base |-> Len(log[f.tp])]
      OBVIOUS
    <3>i. PICK id : id = b.pid OBVIOUS
    <3>1. known' = [known EXCEPT ![f.tp] =
            [i \in DOMAIN @ \cup {id} |-> IF i = id THEN n ELSE @[i]]]
      BY <2>1, <3>n, <3>i DEF Take
    <3> HIDE DEF b, num
    <3>2. Numbered(known, known', f.tp, id, n) BY <3>1, <1>2, <1>3, NumberIs
    <3> QED BY <3>2, <3>n, <3>i
  <2>5. Answered(f, "ok", Len(log[f.tp])) BY <2>1 DEF Take
  <2>6. PICK g \in RequestRec :
           /\ g.id = f.id /\ g.tp = f.tp /\ g.res = "ok" /\ g.base = Len(log[f.tp])
           /\ flight' = (flight \ {f}) \cup {g}
           /\ flight' \subseteq RequestRec /\ IsFiniteSet(flight') /\ RequestsHold'
    BY <2>5, <1>3, <1>4, <1>5
  <2>7. Taken(f, g) BY <2>2, <2>3, <2>4, <2>6 DEF Taken
  <2>8. AppendsAs(f, g) BY <2>7, <1>7 DEF AppendsAs
  <2> QED BY <1>1, <2>6, <2>8
<1>8. CASE ~(~Idempotent \/ b.seq = num.next)
  <2>1. /\ \/ b.seq = num.first /\ b.seq + Len(b.recs) = num.next /\ Answered(f, "ok", num.base)
           \/ num = Fresh /\ Answered(f, "unknown_producer", 0)
           \/ /\ num # Fresh /\ Answered(f, "out_of_order", 0)
              /\ ~(b.seq = num.first /\ b.seq + Len(b.recs) = num.next)
        /\ UNCHANGED <<log, known>>
    BY <1>8 DEF BrokerAppend, broker
  <2>2. CASE b.seq = num.first /\ b.seq + Len(b.recs) = num.next /\ Answered(f, "ok", num.base)
    <3>1. PICK g \in RequestRec :
           /\ g.id = f.id /\ g.tp = f.tp /\ g.res = "ok" /\ g.base = num.base
           /\ flight' = (flight \ {f}) \cup {g}
           /\ flight' \subseteq RequestRec /\ IsFiniteSet(flight') /\ RequestsHold'
      BY <2>2, <1>4, <1>5, <1>6
    <3>2. Told(f, g) BY <3>1, <2>1 DEF Told
    <3>3. AppendsAs(f, g) BY <3>1, <3>2, <2>2, <1>8 DEF AppendsAs
    <3> QED BY <1>1, <3>1, <3>3
  <2>3. CASE num = Fresh /\ Answered(f, "unknown_producer", 0)
    <3>1. PICK g \in RequestRec :
           /\ g.id = f.id /\ g.tp = f.tp /\ g.res = "unknown_producer" /\ g.base = 0
           /\ flight' = (flight \ {f}) \cup {g}
           /\ flight' \subseteq RequestRec /\ IsFiniteSet(flight') /\ RequestsHold'
      BY <2>3, <1>4, <1>5
    <3>2. Told(f, g) BY <3>1, <2>1 DEF Told
    <3>3. AppendsAs(f, g) BY <3>1, <3>2, <2>3, <1>8 DEF AppendsAs
    <3> QED BY <1>1, <3>1, <3>3
  <2>4. CASE /\ num # Fresh /\ Answered(f, "out_of_order", 0)
             /\ ~(b.seq = num.first /\ b.seq + Len(b.recs) = num.next)
    <3>1. PICK g \in RequestRec :
           /\ g.id = f.id /\ g.tp = f.tp /\ g.res = "out_of_order" /\ g.base = 0
           /\ flight' = (flight \ {f}) \cup {g}
           /\ flight' \subseteq RequestRec /\ IsFiniteSet(flight') /\ RequestsHold'
      BY <2>4, <1>4, <1>5
    <3>2. Told(f, g) BY <3>1, <2>1 DEF Told
    <3>3. AppendsAs(f, g) BY <3>1, <3>2, <2>4, <1>8 DEF AppendsAs
    <3> QED BY <1>1, <3>1, <3>3
  <2> QED BY <2>1, <2>2, <2>3, <2>4
<1> QED BY <1>7, <1>8

LEMMA AppendKeeps ==
  ASSUME SInv, NEW f \in flight, BrokerAppend(f)
  PROVE  SInv'
<1>1. PICK g \in RequestRec : /\ AppendsAs(f, g)
                              /\ flight' \subseteq RequestRec /\ IsFiniteSet(flight')
                              /\ RequestsHold'
  BY AppendIs
<1>2. Still /\ horizon' = horizon BY AppendIs
<1>3. f.id \in All /\ f.tp \in Partition /\ batch[f.id].tp = f.tp /\ batch[f.id].closed
  BY Typed DEF SInv, RequestsHold
<1>4. CASE Told(f, g)
  <2>1. Types' BY <1>1, <1>2, <1>4 DEF SInv, Types, Told, Still
  <2> QED BY <2>1, <1>1, <1>2, <1>4, QuietKeeps DEF Told, Still
<1>5. CASE Taken(f, g)
  <2>1. Grown(log, log', f.tp, batch[f.id].recs) BY <1>5 DEF Taken
  <2>2. DOMAIN known' = Partition
        /\ \A p \in Partition : \A id \in DOMAIN known'[p] : known'[p][id] \in NumberRec
    <3>1. DOMAIN known = Partition
          /\ \A p \in Partition : \A id \in DOMAIN known[p] : known[p][id] \in NumberRec
      BY DEF SInv, Types
    <3>n. PICK n : n = [first |-> batch[f.id].seq, next |-> batch[f.id].seq + Len(batch[f.id].recs),
                        base |-> Len(log[f.tp])]
      OBVIOUS
    <3>2. n \in NumberRec
      <4>1. batch[f.id].seq \in Nat /\ Len(batch[f.id].recs) \in Nat /\ Len(log[f.tp]) \in Nat
        BY <1>3, Typed DEF SInv
      <4> QED BY <4>1, <3>n DEF NumberRec
    <3>3. CASE ~Idempotent BY <3>1, <3>3, <1>5 DEF Taken
    <3>4. CASE Idempotent
      <4>1. Numbered(known, known', f.tp, batch[f.id].pid, n) BY <3>4, <3>n, <1>5 DEF Taken
      <4>2. \A p \in Partition : p # f.tp => known'[p] = known[p] BY <4>1 DEF Numbered
      <4>3. \A id \in DOMAIN known'[f.tp] : known'[f.tp][id] \in NumberRec
        BY <4>1, <3>1, <3>2, <1>3 DEF Numbered
      <4> QED BY <4>1, <4>2, <4>3, <3>1 DEF Numbered
    <3> QED BY <3>3, <3>4
  <2>3. Types'
    <3>1. log' \in [Partition -> Seq(Nat)] BY <2>1 DEF Grown
    <3> QED BY <2>2, <3>1, <1>1, <1>2 DEF SInv, Types, Still
  <2>4. /\ All' = All /\ batch' = batch /\ dq' = dq /\ incomplete' = incomplete /\ sent' = sent
        /\ \A b : Done(b)' = Done(b) /\ HasRoom(b)' = HasRoom(b)
    BY <1>2 DEF Still, All, Done, HasRoom
  <2>5. QueuesHold' BY <2>4 DEF SInv, QueuesHold
  <2>6. OpenUntouched' /\ Pending' BY <2>4 DEF SInv, OpenUntouched, Pending
  <2>7. RecordsHold' /\ Apart' BY <2>4 DEF SInv, RecordsHold, Apart
  <2>8. RoomIsLast' /\ NewestHasRoom' BY <2>4 DEF SInv, RoomIsLast, NewestHasRoom
  <2>9. LogIsOfBatches'
    <3> SUFFICES ASSUME NEW p \in Partition, NEW i \in 1 .. Len(log'[p])
                 PROVE  \E b \in All : batch[b].tp = p /\ batch[b].closed /\ In(batch[b].recs, log'[p][i])
      BY <2>4 DEF LogIsOfBatches
    <3>1. CASE p # f.tp
      <4>1. log'[p] = log[p] BY <3>1, <2>1 DEF Grown
      <4> QED BY <4>1 DEF SInv, LogIsOfBatches
    <3>2. CASE p = f.tp /\ i \in 1 .. Len(log[p])
      <4>1. log'[p][i] = log[p][i] BY <3>2, <2>1 DEF Grown
      <4> QED BY <4>1, <3>2 DEF SInv, LogIsOfBatches
    <3>3. CASE p = f.tp /\ \E k \in 1 .. Len(batch[f.id].recs) : i = Len(log[p]) + k
      <4>1. PICK k \in 1 .. Len(batch[f.id].recs) : i = Len(log[p]) + k BY <3>3
      <4>2. log'[p][i] = batch[f.id].recs[k] BY <4>1, <3>3, <2>1 DEF Grown
      <4>3. In(batch[f.id].recs, log'[p][i]) BY <4>2 DEF In
      <4> QED BY <4>3, <3>3, <1>3
    <3>4. \A j \in 1 .. Len(log'[f.tp]) :
            j \in 1 .. Len(log[f.tp])
            \/ \E k \in 1 .. Len(batch[f.id].recs) : j = Len(log[f.tp]) + k
      BY <2>1 DEF Grown
    <3> QED BY <3>1, <3>2, <3>3, <3>4
  <2> QED BY <2>3, <2>5, <2>6, <2>7, <2>8, <2>9, <1>1 DEF SInv
<1> QED BY <1>1, <1>4, <1>5 DEF AppendsAs

-----------------------------------------------------------------------------
(* The structure is kept by every step                                     *)

LEMMA AnswerKeeps ==
  ASSUME SInv, NEW f \in flight, NEW res \in Results, NEW base \in Nat, Answered(f, res, base),
         UNCHANGED <<mode, queues, ids, broker, horizon, app>>
  PROVE  SInv'
<1>1. UNCHANGED <<mode, batch, dq, incomplete, pid, fresh, seqno, log, known, horizon, sent>>
  BY DEF queues, ids, broker, app
<1>2. Types /\ RequestsHold BY DEF SInv
<1>3. PICK g \in RequestRec :
           /\ flight' \subseteq RequestRec /\ IsFiniteSet(flight') /\ RequestsHold'
  BY <1>1, <1>2, AnsweredKeeps
<1>4. Types' BY <1>1, <1>2, <1>3 DEF Types
<1> QED BY <1>1, <1>3, <1>4, QuietKeeps

\* Steps that touch neither queues nor requests nor the broker's logs.
LEMMA OtherKeeps ==
  ASSUME SInv, UNCHANGED <<mode, sent, queues, flight, log>>,
         pid' \in Nat, fresh' \in Nat, pid' < fresh', horizon' \in Nat,
         seqno' = seqno, DOMAIN known' = Partition,
         \A p \in Partition : known'[p] \in {known[p], <<>>}
  PROVE  SInv'
<1>1. UNCHANGED <<mode, batch, dq, incomplete, flight, log, sent, seqno>> BY DEF queues
<1>2. \A p \in Partition : \A id \in DOMAIN known'[p] : known'[p][id] \in NumberRec
  <2>1. DOMAIN <<>> = {} OBVIOUS
  <2> QED BY <2>1 DEF SInv, Types
<1>3. Types' BY <1>1, <1>2 DEF SInv, Types
<1>4. RequestsHold' BY <1>1, SameRequests DEF SInv
<1> QED BY <1>1, <1>3, <1>4, QuietKeeps

LEMMA SInit ==
  ASSUME Init PROVE SInv
<1>1. Types
  <2>1. <<>> \in Seq(BatchRec) /\ <<>> \in Seq(Nat) /\ DOMAIN <<>> = {} OBVIOUS
  <2>2. dq \in [Partition -> Seq(Nat)] /\ log \in [Partition -> Seq(Nat)] BY <2>1 DEF Init
  <2>3. \A p \in Partition : DOMAIN known[p] = {} BY <2>1 DEF Init
  <2>4. IsFiniteSet({}) BY FS_EmptySet
  <2> QED BY <2>1, <2>2, <2>3, <2>4 DEF Init, Types
<1>2. All = {} BY DEF Init, All
<1>3. \A p \in Partition : 1 .. Len(dq[p]) = {} /\ 1 .. Len(log[p]) = {}
  BY DEF Init
<1>4. QueuesHold /\ RequestsHold /\ LogIsOfBatches
  BY <1>3 DEF Init, QueuesHold, RequestsHold, LogIsOfBatches
<1>5. OpenUntouched /\ RecordsHold /\ Apart /\ RoomIsLast /\ NewestHasRoom
  BY <1>2 DEF OpenUntouched, RecordsHold, Apart, RoomIsLast, NewestHasRoom
<1>6. Pending BY <1>2 DEF Init, Pending
<1> QED BY <1>1, <1>4, <1>5, <1>6 DEF SInv

LEMMA SStep ==
  ASSUME SInv, [Next]_vars PROVE SInv'
<1>t. /\ pid \in Nat /\ fresh \in Nat /\ pid < fresh /\ horizon \in Nat
      /\ DOMAIN known = Partition /\ 0 \in Nat
  BY DEF SInv, Types
<1>u. ASSUME UNCHANGED <<mode, sent, queues, flight, log, pid, fresh, horizon, seqno, known>>
      PROVE  SInv'
  BY <1>u, <1>t, OtherKeeps
<1>1. CASE UNCHANGED vars
  BY <1>1, <1>u DEF vars, broker, ids, app
<1>2. CASE InitProducerId
  <2>1. pid' = fresh /\ fresh' = fresh + 1
        /\ UNCHANGED <<mode, sent, queues, flight, log, known, horizon, seqno>>
    BY <1>2 DEF InitProducerId, broker, app
  <2>2. pid' \in Nat /\ fresh' \in Nat /\ pid' < fresh' BY <2>1, <1>t
  <2> QED BY <2>1, <2>2, <1>t, OtherKeeps
<1>3. CASE Finish
  BY <1>3, <1>u DEF Finish, broker, ids, app
<1>4. CASE AbortEnds
  BY <1>4, <1>u DEF AbortEnds, broker, ids, app
<1>5. ASSUME NEW p \in Partition, AbortBatch(p) PROVE SInv'
  BY <1>5, AbortKeeps
<1>6. ASSUME NEW ps \in SUBSET Partition, SendProducerData(ps) PROVE SInv'
  <2>1. PICK gone, cut, reset : Swept(ps, gone, cut, reset) BY <1>6, SweepIs
  <2> QED BY <2>1, SweepKeeps
<1>7. ASSUME NEW f \in flight, Complete(f) PROVE SInv'
  <2>1. Again(f) \/ Over(f) BY <1>7, CompleteIs
  <2>2. CASE Again(f) BY <2>2, AgainKeeps
  <2>3. CASE Over(f) BY <2>3, OverKeeps
  <2> QED BY <2>1, <2>2, <2>3
<1>8. ASSUME NEW p \in Partition, Send(p) PROVE SInv'
  BY <1>8, SendKeeps
<1>9. CASE MetadataArrives
  BY <1>9, <1>u DEF MetadataArrives, broker, ids
<1>10. CASE StartFlush
  BY <1>10, <1>u DEF StartFlush, broker, ids
<1>11. CASE FlushReturns
  BY <1>11, <1>u DEF FlushReturns, broker, ids
<1>12. CASE InitiateClose
  BY <1>12, <1>u DEF InitiateClose, broker, ids, app
<1>13. CASE ForceClose
  BY <1>13, <1>u DEF ForceClose, broker, ids, app
<1>14. ASSUME NEW f \in flight, BrokerAppend(f) PROVE SInv'
  BY <1>14, AppendKeeps
<1>15. ASSUME NEW f \in flight, BrokerRefuses(f) PROVE SInv'
  <2>1. PICK error \in {"retriable", "fatal"} : Answered(f, error, 0)
    BY <1>15 DEF BrokerRefuses
  <2>2. error \in Results BY DEF Results
  <2>3. UNCHANGED <<mode, queues, ids, broker, horizon, app>> BY <1>15 DEF BrokerRefuses
  <2> QED BY <2>1, <2>2, <2>3, <1>t, AnswerKeeps
<1>16. ASSUME NEW f \in flight, Lose(f) PROVE SInv'
  <2>1. "lost" \in Results /\ Answered(f, "lost", 0)
        /\ UNCHANGED <<mode, queues, ids, broker, horizon, app>>
    BY <1>16 DEF Lose, Results
  <2> QED BY <2>1, <1>t, AnswerKeeps
<1>17. ASSUME NEW p \in Partition, BrokerForgets(p) PROVE SInv'
  <2>1. known' = [known EXCEPT ![p] = <<>>]
        /\ UNCHANGED <<mode, sent, queues, flight, log, pid, fresh, horizon, seqno>>
    BY <1>17 DEF BrokerForgets, ids, app
  <2>2. DOMAIN known' = Partition /\ \A q \in Partition : known'[q] \in {known[q], <<>>}
    BY <2>1, <1>t
  <2> QED BY <2>1, <2>2, <1>t, OtherKeeps
<1>18. ASSUME NEW b \in 1 .. Len(batch), TimePasses(b) PROVE SInv'
  <2>1. horizon' = b /\ UNCHANGED <<mode, sent, queues, flight, log, known, pid, fresh, seqno>>
    BY <1>18 DEF TimePasses, ids, broker, app
  <2>2. horizon' \in Nat BY <2>1, Typed DEF SInv
  <2> QED BY <2>1, <2>2, <1>t, OtherKeeps
<1> QED
  BY <1>1, <1>2, <1>3, <1>4, <1>5, <1>6, <1>7, <1>8, <1>9, <1>10, <1>11, <1>12, <1>13, <1>14,
     <1>15, <1>16, <1>17, <1>18
  DEF Next, Sender, Application, Environment, AbortIncomplete

LEMMA Structured == Spec => []SInv
<1>1. Init => SInv BY SInit
<1>2. SInv /\ [Next]_vars => SInv' BY SStep
<1> QED BY <1>1, <1>2, PTL DEF Spec

-----------------------------------------------------------------------------
(* What flush promises                                                     *)

\* The only steps that make or unsettle nothing.
LEMMA PromiseKept ==
  ASSUME Promise, UNCHANGED <<flush, sent>>, All' = All,
         \A b \in All : batch'[b].recs[1] = batch[b].recs[1] /\ (Done(b) => Done(b)')
  PROVE  Promise'
BY DEF Promise

LEMMA PromiseSent ==
  ASSUME SInv, Promise, NEW p \in Partition, Send(p)
  PROVE  Promise'
<1>1. /\ AppendRecord(p, sent + 1) /\ sent' = sent + 1 /\ flush' = flush /\ sent \in Nat
  BY DEF Send, SInv, Types
<1>2. batch \in Seq(BatchRec) /\ dq \in [Partition -> Seq(Nat)] /\ sent + 1 \in Nat
      /\ All = 1 .. Len(batch) /\ Len(batch) \in Nat
  BY Typed DEF SInv, Types
<1>3. \A b \in All : Len(batch[b].recs) >= 1 /\ Len(batch[b].recs) \in Nat
  BY Typed DEF SInv, RecordsHold
<1>4. CASE dq[p] # <<>> /\ HasRoom(Last(dq[p]))
  <2>1. PICK t : t = dq[p][Len(dq[p])] OBVIOUS
  <2>2. Len(dq[p]) \in 1 .. Len(dq[p]) BY <1>2, <1>4, EmptySeq
  <2>3. t \in All BY <2>1, <2>2 DEF SInv, QueuesHold
  <2>5. Longer(batch, [batch EXCEPT ![t].recs = Append(@, sent + 1)], t, sent + 1)
    BY <2>3, <1>2, RoomTaken
  <2>6. Longer(batch, batch', t, sent + 1) BY <1>1, <1>4, <2>1, <2>5 DEF AppendRecord, Last
  <2>7. All' = All BY <2>6 DEF Longer, All
  <2>8. \A b \in All : Done(b)' = Done(b) BY <2>6 DEF Longer, All, Done
  <2>9. \A b \in All : batch'[b].recs[1] = batch[b].recs[1]
    <3>1. 1 \in 1 .. Len(batch[t].recs) BY <1>3, <2>3
    <3>2. batch'[t].recs[1] = batch[t].recs[1] BY <3>1, <2>6 DEF Longer
    <3> QED BY <3>2, <2>6 DEF Longer, All
  <2>10. flush.on => flush.upto \in 0 .. sent + 1
    <3>1. flush.on => flush.upto \in 0 .. sent BY DEF Promise
    <3> QED BY <3>1, <1>1
  <2> QED BY <2>7, <2>8, <2>9, <2>10, <1>1 DEF Promise
<1>5. CASE ~(dq[p] # <<>> /\ HasRoom(Last(dq[p])))
  <2>3. Created(batch, Append(batch, NewBatch(p, sent + 1)), p, sent + 1) BY <1>2, BatchCreated
  <2>4. Created(batch, batch', p, sent + 1) BY <1>1, <1>5, <2>3 DEF AppendRecord
  <2>5. \A b \in All' : (b \in All /\ batch'[b] = batch[b]) \/ batch'[b].recs[1] = sent + 1
    <3>1. Len(batch') = Len(batch) + 1 BY <2>4 DEF Created
    <3>2. \A b \in All' : b \in All \/ b = Len(batch) + 1 BY <3>1, <1>2 DEF All
    <3> QED BY <3>2, <2>4, <1>2 DEF Created
  <2>6. ASSUME flush.on
        PROVE  /\ flush.upto \in 0 .. sent + 1
               /\ \A b \in All' : ~Done(b)' /\ batch'[b].recs[1] <= flush.upto => b \in flush.waits
    <3>1. flush.upto \in 0 .. sent BY <2>6 DEF Promise
    <3>2. flush.upto \in 0 .. sent + 1 /\ ~(sent + 1 <= flush.upto) BY <3>1, <1>1
    <3>3. \A b \in All : ~Done(b) /\ batch[b].recs[1] <= flush.upto => b \in flush.waits
      BY <2>6 DEF Promise
    <3>4. \A b \in All : batch'[b] = batch[b] => Done(b)' = Done(b) BY DEF Done
    <3> QED BY <3>2, <3>3, <3>4, <2>5
  <2> QED BY <2>6, <1>1 DEF Promise
<1> QED BY <1>4, <1>5

LEMMA PromiseStep ==
  ASSUME SInv, Promise, [Next]_vars
  PROVE  /\ Promise'
         /\ flush.on /\ ~flush'.on => \A b \in All : batch[b].recs[1] <= flush.upto => Done(b)
<1> DEFINE Goal == /\ Promise'
                   /\ flush.on /\ ~flush'.on =>
                        \A b \in All : batch[b].recs[1] <= flush.upto => Done(b)
<1> SUFFICES Goal OBVIOUS
<1>u. ASSUME UNCHANGED <<batch, sent, flush>> PROVE Goal
  <2>1. All' = All /\ \A b \in All : Done(b)' = Done(b) BY <1>u DEF All, Done
  <2>2. Promise' BY <2>1, <1>u, PromiseKept
  <2> QED BY <2>2, <1>u
<1>1. CASE UNCHANGED vars \/ InitProducerId \/ Finish \/ AbortEnds \/ MetadataArrives
           \/ InitiateClose \/ ForceClose
  BY <1>1, <1>u DEF vars, queues, app, InitProducerId, Finish, AbortEnds, MetadataArrives,
     InitiateClose, ForceClose
<1>2. CASE \E f \in flight : BrokerAppend(f) \/ BrokerRefuses(f) \/ Lose(f)
  BY <1>2, <1>u DEF queues, app, BrokerAppend, BrokerRefuses, Lose
<1>3. CASE (\E p \in Partition : BrokerForgets(p)) \/ \E b \in 1 .. Len(batch) : TimePasses(b)
  BY <1>3, <1>u DEF queues, app, BrokerForgets, TimePasses
<1>4. ASSUME NEW p \in Partition, Send(p) PROVE Goal
  <2>1. flush' = flush BY <1>4 DEF Send
  <2>2. Promise' BY <1>4, PromiseSent
  <2> QED BY <2>1, <2>2
<1>5. CASE StartFlush
  <2>1. ~flush.on /\ flush' = [on |-> TRUE, waits |-> incomplete, upto |-> sent]
        /\ UNCHANGED <<batch, sent>>
    BY <1>5 DEF StartFlush, Flush, queues
  <2>2. All' = All /\ \A b \in All : Done(b)' = Done(b) BY <2>1 DEF All, Done
  <2>3. sent \in 0 .. sent /\ \A b \in All : ~Done(b) => b \in incomplete
    BY DEF SInv, Types, Pending
  <2>4. Promise' BY <2>1, <2>2, <2>3 DEF Promise
  <2> QED BY <2>1, <2>4
<1>6. CASE FlushReturns
  <2>1. flush.on /\ (\A b \in flush.waits : Done(b)) BY <1>6 DEF FlushReturns
  <2>2. \A b \in All : batch[b].recs[1] <= flush.upto => Done(b) BY <2>1 DEF Promise
  <2>3. Promise'
    <3>1. CASE ~flush'.on BY <3>1 DEF Promise
    <3>2. CASE flush'.on
      <4>1. flush'.waits = flush.waits /\ flush'.upto = flush.upto /\ UNCHANGED <<batch, sent>>
        BY <1>6, <3>2 DEF FlushReturns, queues
      <4>2. All' = All /\ \A b \in All : Done(b)' = Done(b) BY <4>1 DEF All, Done
      <4> QED BY <4>1, <4>2, <2>1 DEF Promise
    <3> QED BY <3>1, <3>2
  <2> QED BY <2>2, <2>3
<1>7. ASSUME NEW p \in Partition, AbortBatch(p) PROVE Goal
  <2>1. flush' = flush /\ sent' = sent BY <1>7, AbortIsRemoval
  <2>k. PICK k \in 1 .. Len(dq[p]) :
          dq[p][k] \in All /\ Ended(batch, batch', dq[p][k], "aborted", batch[dq[p][k]].base, TRUE)
    BY <1>7, AbortIsRemoval
  <2>2. PICK b \in All : Ended(batch, batch', b, "aborted", batch[b].base, TRUE) BY <2>k
  <2>3. All' = All /\ \A c \in All : batch'[c].recs = batch[c].recs /\ (Done(c) => Done(c)')
    BY <2>2 DEF Ended, All, Done
  <2>4. Promise' BY <2>1, <2>3, PromiseKept
  <2> QED BY <2>1, <2>4
<1>8. ASSUME NEW ps \in SUBSET Partition, SendProducerData(ps) PROVE Goal
  <2>1. PICK gone, cut, reset : Swept(ps, gone, cut, reset) BY <1>8, SweepIs
  <2>2. flush' = flush /\ sent' = sent BY <2>1 DEF Swept
  <2>3. All' = All /\ \A c \in All : batch'[c].recs = batch[c].recs /\ (Done(c) => Done(c)')
    BY <2>1 DEF Swept, All, Done
  <2>4. Promise' BY <2>2, <2>3, PromiseKept
  <2> QED BY <2>2, <2>4
<1>9. ASSUME NEW f \in flight, Complete(f) PROVE Goal
  <2>0. f.id \in All BY DEF SInv, RequestsHold
  <2>1. Again(f) \/ Over(f) BY <1>9, CompleteIs
  <2>2. flush' = flush /\ sent' = sent BY <2>1 DEF Again, Over
  <2>3. All' = All /\ \A c \in All : batch'[c].recs = batch[c].recs /\ (Done(c) => Done(c)')
    <3>1. CASE Again(f) BY <3>1, <2>0 DEF Again, Retried, All, Done
    <3>2. CASE Over(f) /\ batch' = batch BY <3>2 DEF All, Done
    <3>3. CASE Over(f) /\ ~(batch' = batch)
      <4>1. PICK final \in {"ok", "failed"}, base \in Nat :
              Ended(batch, batch', f.id, final, base, batch[f.id].closed)
        BY <3>3 DEF Over
      <4> QED BY <4>1, <2>0 DEF Ended, All, Done
    <3> QED BY <2>1, <3>1, <3>2, <3>3
  <2>4. Promise' BY <2>2, <2>3, PromiseKept
  <2> QED BY <2>2, <2>4
<1> HIDE DEF Goal
<1>a. CASE Sender
  BY <1>a, <1>1, <1>7, <1>8, <1>9 DEF Sender, AbortIncomplete
<1>b. CASE Application BY <1>b, <1>1, <1>4, <1>5, <1>6 DEF Application
<1>c. CASE Environment BY <1>c, <1>2, <1>3 DEF Environment
<1> QED BY <1>a, <1>b, <1>c, <1>1 DEF Next

\* flush() returns only when every record that was sent before it was called
\* has its result, whatever was tried again, timed out or refused, and though
\* batches that hold such records take more records while it waits.
THEOREM FlushReturnsLate == Spec => FlushKeepsPromise
<1>1. Init => SInv /\ Promise
  <2>1. Init => ~flush.on BY DEF Init, NoFlush
  <2> QED BY <2>1, SInit DEF Promise
<1>2. SInv /\ Promise /\ [Next]_vars => SInv' /\ Promise' BY SStep, PromiseStep
<1>3. SInv /\ Promise /\ [Next]_vars =>
        [flush.on /\ ~flush'.on => \A b \in All : batch[b].recs[1] <= flush.upto => Done(b)]_vars
  BY PromiseStep
<1> QED BY <1>1, <1>2, <1>3, PTL DEF Spec, FlushKeepsPromise

-----------------------------------------------------------------------------
(* One request in flight, and the order of the log                         *)

OInv == OneInFlight /\ LogInOrder

\* The batches of a partition only move between its queue and its requests.
Moved ==
  /\ All' = All /\ log' = log /\ \A b \in All : batch'[b].recs = batch[b].recs
  /\ \A p \in Partition : \A i \in 1 .. Len(dq'[p]) :
       \/ \E j \in 1 .. Len(dq[p]) : dq'[p][i] = dq[p][j]
       \/ \E f \in flight : f.tp = p /\ dq'[p][i] = f.id
  /\ \A g \in flight' :
       \/ \E f \in flight : f.tp = g.tp /\ f.id = g.id
       \/ \E j \in 1 .. Len(dq[g.tp]) : g.id = dq[g.tp][j]

LEMMA MovedKeeps ==
  ASSUME LogInOrder, Moved, mode' = mode, \A g \in flight' : g.tp \in Partition
  PROVE  LogInOrder'
<1> SUFFICES ASSUME Ordered, NEW p \in Partition, NEW i \in 1 .. Len(log[p]), NEW b \in All,
                    In(batch'[b].recs, log[p][i])
             PROVE  /\ \A j \in 1 .. Len(log[p]) : \A c \in All :
                         i < j /\ In(batch'[c].recs, log[p][j]) => b <= c
                    /\ \A j \in 1 .. Len(dq'[p]) : b <= dq'[p][j]
                    /\ \A g \in flight' : g.tp = p => b <= g.id
  BY DEF LogInOrder, Moved, Ordered
<1>1. /\ \A j \in 1 .. Len(log[p]) : \A c \in All :
           i < j /\ In(batch[c].recs, log[p][j]) => b <= c
      /\ \A j \in 1 .. Len(dq[p]) : b <= dq[p][j]
      /\ \A f \in flight : f.tp = p => b <= f.id
  BY DEF LogInOrder, Moved
<1>2. \A j \in 1 .. Len(dq'[p]) : b <= dq'[p][j] BY <1>1 DEF Moved
<1>3. \A g \in flight' : g.tp = p => b <= g.id BY <1>1 DEF Moved
<1>4. \A c \in All : batch'[c].recs = batch[c].recs BY DEF Moved
<1> QED BY <1>1, <1>2, <1>3, <1>4

\* Requests have other answers.
LEMMA AnswersKeepOrder ==
  ASSUME OneInFlight, UNCHANGED <<mode, dq, muted>>,
         NEW f \in flight, NEW g, g.id = f.id, g.tp = f.tp, flight' = (flight \ {f}) \cup {g}
  PROVE  OneInFlight'
<1> SUFFICES ASSUME Ordered PROVE OneInFlight' BY DEF OneInFlight, Ordered
<1>1. \A h \in flight' : \E k \in flight : h.id = k.id /\ h.tp = k.tp /\ (h = k \/ (h = g /\ k = f))
  OBVIOUS
<1>2. \A k \in flight : \E h \in flight' : h.tp = k.tp OBVIOUS
<1>3. \A q \in Partition : q \in muted <=> \E h \in flight' : h.tp = q
  BY <1>1, <1>2 DEF OneInFlight
<1>4. \A h, k \in flight' : h.tp = k.tp => h = k BY <1>1 DEF OneInFlight
<1>5. \A h \in flight' : \A i \in 1 .. Len(dq[h.tp]) : h.id < dq[h.tp][i] BY <1>1 DEF OneInFlight
<1>6. \A q \in Partition : \A i, j \in 1 .. Len(dq[q]) : i < j => dq[q][i] < dq[q][j]
  BY DEF OneInFlight
<1> QED BY <1>3, <1>4, <1>5, <1>6 DEF OneInFlight

\* A queue has lost some batches.
Thinned ==
  \A p \in Partition : \A i, j \in 1 .. Len(dq'[p]) : \E k, l \in 1 .. Len(dq[p]) :
    dq'[p][i] = dq[p][k] /\ dq'[p][j] = dq[p][l] /\ (i < j => k < l)

LEMMA ThinnedKeeps ==
  ASSUME OneInFlight, Thinned, UNCHANGED <<mode, flight, muted>>,
         \A f \in flight : f.tp \in Partition
  PROVE  OneInFlight'
<1> SUFFICES ASSUME Ordered PROVE OneInFlight' BY DEF OneInFlight, Ordered
<1>0. \A p \in Partition : \A i, j \in 1 .. Len(dq'[p]) : \E k, l \in 1 .. Len(dq[p]) :
        dq'[p][i] = dq[p][k] /\ dq'[p][j] = dq[p][l] /\ (i < j => k < l)
  BY DEF Thinned
<1>a. /\ \A p \in Partition : \A i, j \in 1 .. Len(dq[p]) : i < j => dq[p][i] < dq[p][j]
      /\ \A f \in flight : \A i \in 1 .. Len(dq[f.tp]) : f.id < dq[f.tp][i]
  BY DEF OneInFlight
<1>1. \A p \in Partition : \A i, j \in 1 .. Len(dq'[p]) : i < j => dq'[p][i] < dq'[p][j]
  <2> SUFFICES ASSUME NEW p \in Partition, NEW i \in 1 .. Len(dq'[p]),
                      NEW j \in 1 .. Len(dq'[p]), i < j
               PROVE  dq'[p][i] < dq'[p][j]
    OBVIOUS
  <2>1. PICK k, l \in 1 .. Len(dq[p]) : dq'[p][i] = dq[p][k] /\ dq'[p][j] = dq[p][l] /\ k < l
    BY <1>0
  <2> QED BY <2>1, <1>a
<1>b. \A p \in Partition : \A i \in 1 .. Len(dq'[p]) : \E k \in 1 .. Len(dq[p]) :
        dq'[p][i] = dq[p][k]
  <2> SUFFICES ASSUME NEW p \in Partition, NEW i \in 1 .. Len(dq'[p])
               PROVE  \E k \in 1 .. Len(dq[p]) : dq'[p][i] = dq[p][k]
    OBVIOUS
  <2>1. PICK j \in 1 .. Len(dq'[p]) : j = i OBVIOUS
  <2>2. \E k, l \in 1 .. Len(dq[p]) :
          dq'[p][i] = dq[p][k] /\ dq'[p][j] = dq[p][l] /\ (i < j => k < l)
    BY <1>0, <2>1
  <2>3. PICK k \in 1 .. Len(dq[p]) : \E l \in 1 .. Len(dq[p]) : dq'[p][i] = dq[p][k]
    BY <2>2
  <2> QED BY <2>3
<1>2. \A f \in flight : \A i \in 1 .. Len(dq'[f.tp]) : f.id < dq'[f.tp][i]
  <2> SUFFICES ASSUME NEW f \in flight, NEW i \in 1 .. Len(dq'[f.tp])
               PROVE  f.id < dq'[f.tp][i]
    OBVIOUS
  <2>1. \E k \in 1 .. Len(dq[f.tp]) : dq'[f.tp][i] = dq[f.tp][k] BY ZenonT(20), <1>b
  <2>2. PICK k \in 1 .. Len(dq[f.tp]) : dq'[f.tp][i] = dq[f.tp][k] BY <2>1
  <2>3. f.id < dq[f.tp][k] BY <1>a
  <2> QED BY <2>2, <2>3
<1>3. /\ \A p \in Partition : p \in muted <=> \E f \in flight : f.tp = p
      /\ \A f, g \in flight : f.tp = g.tp => f = g
  BY DEF OneInFlight
<1> QED BY <1>1, <1>2, <1>3 DEF OneInFlight

LEMMA SweptOrder ==
  ASSUME SInv, OInv, NEW ps \in SUBSET Partition, NEW gone, NEW cut, NEW reset,
         Swept(ps, gone, cut, reset), ~reset
  PROVE  OInv'
<1>1. /\ \A p \in Partition : \A i \in 1 .. Len(dq'[p]) : \E k \in 1 .. Len(dq[p]) :
           /\ k = i + cut[p] /\ dq'[p][i] = dq[p][k] /\ dq[p][k] \notin gone
           /\ p \in ps => k # 1
      /\ \A p \in Partition : /\ Len(dq'[p]) = Len(dq[p]) - cut[p] /\ cut[p] \in Nat
                              /\ Len(dq[p]) \in Nat /\ cut[p] <= Len(dq[p])
                              /\ Len(dq'[p]) \in Nat
  BY SweptAt
<1>2. \A p \in ps : p \in Partition /\ 1 \in 1 .. Len(dq[p]) /\ p \notin muted
  <2>1. \A p \in ps : Len(dq[p]) > 0 /\ p \notin muted BY DEF Swept
  <2>2. \A p \in ps : p \in Partition OBVIOUS
  <2> QED BY <2>1, <2>2, <1>1
<1>3. /\ \A p \in ps : [id |-> dq[p][1], tp |-> p, res |-> "none", base |-> 0] \in flight'
      /\ flight \subseteq flight'
      /\ \A g \in flight' :
           \/ g \in flight
           \/ \E p \in ps : g = [id |-> dq[p][1], tp |-> p, res |-> "none", base |-> 0]
  BY DEF Swept
<1>4. /\ mode' = mode /\ muted' = IF Ordered THEN muted \cup ps ELSE muted
  BY DEF Swept
<1>5. \A f \in flight : f.tp \in Partition BY Typed DEF SInv
<1>6. OneInFlight'
  <2> SUFFICES ASSUME Ordered PROVE OneInFlight' BY <1>4 DEF OneInFlight, Ordered
  <2>0. /\ \A p \in Partition : \A i, j \in 1 .. Len(dq[p]) : i < j => dq[p][i] < dq[p][j]
        /\ \A p \in Partition : p \in muted <=> \E f \in flight : f.tp = p
        /\ \A f, g \in flight : f.tp = g.tp => f = g
        /\ \A f \in flight : \A i \in 1 .. Len(dq[f.tp]) : f.id < dq[f.tp][i]
    BY DEF OInv, OneInFlight
  <2>1. \A p \in Partition : \A i, j \in 1 .. Len(dq'[p]) : i < j => dq'[p][i] < dq'[p][j]
    <3> SUFFICES ASSUME NEW p \in Partition, NEW i \in 1 .. Len(dq'[p]),
                        NEW j \in 1 .. Len(dq'[p]), i < j
                 PROVE  dq'[p][i] < dq'[p][j]
      OBVIOUS
    <3>1. PICK k \in 1 .. Len(dq[p]) : k = i + cut[p] /\ dq'[p][i] = dq[p][k] BY <1>1
    <3>2. PICK l \in 1 .. Len(dq[p]) : l = j + cut[p] /\ dq'[p][j] = dq[p][l] BY SMTT(40), <1>1
    <3>3. k < l BY <3>1, <3>2, <1>1
    <3> QED BY <3>1, <3>2, <3>3, <2>0
  <2>2. \A p \in ps : \A f \in flight : f.tp # p BY <1>2, <2>0
  <2>3. \A p \in Partition : p \in muted' <=> \E f \in flight' : f.tp = p
    <3>1. \A p \in ps : \E f \in flight' : f.tp = p
      <4> SUFFICES ASSUME NEW p \in ps PROVE \E f \in flight' : f.tp = p OBVIOUS
      <4>1. PICK g : g = [id |-> dq[p][1], tp |-> p, res |-> "none", base |-> 0] OBVIOUS
      <4>2. g \in flight' /\ g.tp = p BY <4>1, <1>3
      <4> QED BY <4>2
    <3>2. \A g \in flight' : g \in flight \/ g.tp \in ps BY <1>3
    <3> QED BY <3>1, <3>2, <2>0, <1>3, <1>4
  <2>4. \A f, g \in flight' : f.tp = g.tp => f = g
    <3>1. \A f \in flight' : f \in flight \/
            (f.tp \in ps /\ f = [id |-> dq[f.tp][1], tp |-> f.tp, res |-> "none", base |-> 0])
      BY <1>3
    <3> QED BY <3>1, <2>0, <2>2
  <2>5. \A f \in flight' : \A i \in 1 .. Len(dq'[f.tp]) : f.id < dq'[f.tp][i]
    <3> SUFFICES ASSUME NEW f \in flight', NEW i \in 1 .. Len(dq'[f.tp])
                 PROVE  f.id < dq'[f.tp][i]
      OBVIOUS
    <3>1. CASE f \in flight
      <4>1. f.tp \in Partition BY <3>1, <1>5
      <4>2. PICK k \in 1 .. Len(dq[f.tp]) : dq'[f.tp][i] = dq[f.tp][k] BY <4>1, <1>1
      <4> QED BY <3>1, <4>2, <2>0
    <3>2. CASE \E p \in ps : f = [id |-> dq[p][1], tp |-> p, res |-> "none", base |-> 0]
      <4>1. PICK p \in ps : f = [id |-> dq[p][1], tp |-> p, res |-> "none", base |-> 0] BY <3>2
      <4>2. f.tp = p /\ f.id = dq[p][1] /\ p \in Partition BY <4>1
      <4>3. PICK k \in 1 .. Len(dq[p]) : dq'[p][i] = dq[p][k] /\ k # 1 BY <4>2, <1>1, <4>1
      <4>4. 1 < k /\ 1 \in 1 .. Len(dq[p]) BY <4>3, <1>2
      <4> QED BY <4>2, <4>3, <4>4, <2>0
    <3> QED BY <3>1, <3>2, <1>3
  <2> QED BY <2>1, <2>3, <2>4, <2>5 DEF OneInFlight
<1>7. LogInOrder'
  <2>1. Moved
    <3>1. All' = All /\ log' = log /\ \A b \in All : batch'[b].recs = batch[b].recs
      BY DEF Swept, All
    <3>2. \A p \in Partition : \A i \in 1 .. Len(dq'[p]) :
            \E j \in 1 .. Len(dq[p]) : dq'[p][i] = dq[p][j]
      <4> SUFFICES ASSUME NEW p \in Partition, NEW i \in 1 .. Len(dq'[p])
                   PROVE  \E j \in 1 .. Len(dq[p]) : dq'[p][i] = dq[p][j]
        OBVIOUS
      <4>1. \E k \in 1 .. Len(dq[p]) : dq'[p][i] = dq[p][k] /\ (p \in ps => k # 1)
        BY ZenonT(40), <1>1
      <4>2. PICK k \in 1 .. Len(dq[p]) : dq'[p][i] = dq[p][k] /\ (p \in ps => k # 1) BY <4>1
      <4> QED BY <4>2
    <3>3. \A g \in flight' : g \in flight \/ \E j \in 1 .. Len(dq[g.tp]) : g.id = dq[g.tp][j]
      BY <1>2, <1>3
    <3> QED BY <3>1, <3>2, <3>3 DEF Moved
  <2>2. \A g \in flight' : g.tp \in Partition BY <1>2, <1>3, <1>5
  <2> QED BY <2>1, <2>2, <1>4, MovedKeeps DEF OInv
<1> QED BY <1>6, <1>7 DEF OInv

LEMMA AgainOrder ==
  ASSUME SInv, OInv, NEW f \in flight, Again(f), muted' = muted \ {f.tp}
  PROVE  OInv'
<1>1. /\ f.id \in All /\ f.tp \in Partition /\ \A g \in flight : g.tp \in Partition
  BY Typed DEF SInv, RequestsHold
<1>2. /\ Retried(batch, batch', f.id) /\ Prepended(dq, dq', f.tp, f.id)
      /\ flight' = flight \ {f} /\ mode' = mode /\ log' = log
  BY DEF Again
<1>3. /\ \A i \in 1 .. Len(dq'[f.tp]) :
           \/ i = 1 /\ dq'[f.tp][i] = f.id
           \/ i - 1 \in 1 .. Len(dq[f.tp]) /\ dq'[f.tp][i] = dq[f.tp][i - 1]
      /\ Len(dq'[f.tp]) = Len(dq[f.tp]) + 1 /\ Len(dq[f.tp]) \in Nat /\ dq'[f.tp][1] = f.id
      /\ \A q \in Partition : q # f.tp => dq'[q] = dq[q]
  BY <1>1, <1>2, PrependedAt DEF SInv
<1>4. OneInFlight'
  <2> SUFFICES ASSUME Ordered PROVE OneInFlight' BY <1>2 DEF OneInFlight, Ordered
  <2>0. /\ \A p \in Partition : \A i, j \in 1 .. Len(dq[p]) : i < j => dq[p][i] < dq[p][j]
        /\ \A p \in Partition : p \in muted <=> \E g \in flight : g.tp = p
        /\ \A g, h \in flight : g.tp = h.tp => g = h
        /\ \A g \in flight : \A i \in 1 .. Len(dq[g.tp]) : g.id < dq[g.tp][i]
    BY DEF OInv, OneInFlight
  <2>1. \A p \in Partition : \A i, j \in 1 .. Len(dq'[p]) : i < j => dq'[p][i] < dq'[p][j]
    <3> SUFFICES ASSUME NEW i \in 1 .. Len(dq'[f.tp]), NEW j \in 1 .. Len(dq'[f.tp]), i < j
                 PROVE  dq'[f.tp][i] < dq'[f.tp][j]
      BY <2>0, <1>3
    <3>1. j - 1 \in 1 .. Len(dq[f.tp]) /\ dq'[f.tp][j] = dq[f.tp][j - 1] BY <1>3
    <3>2. CASE i = 1 /\ dq'[f.tp][i] = f.id BY <3>1, <3>2, <2>0
    <3>3. CASE i - 1 \in 1 .. Len(dq[f.tp]) /\ dq'[f.tp][i] = dq[f.tp][i - 1]
      <4>1. i - 1 < j - 1 BY <1>3
      <4> QED BY <4>1, <3>1, <3>3, <1>1, <2>0
    <3> QED BY <3>2, <3>3, <1>3
  <2>2. \A g \in flight' : g \in flight /\ g.tp # f.tp BY <1>2, <2>0
  <2>3. \A p \in Partition : p \in muted' <=> \E g \in flight' : g.tp = p
    BY <1>2, <2>0, <2>2
  <2>4. \A g, h \in flight' : g.tp = h.tp => g = h BY <2>0, <2>2
  <2>5. \A g \in flight' : \A i \in 1 .. Len(dq'[g.tp]) : g.id < dq'[g.tp][i]
    BY <2>0, <2>2, <1>1, <1>3
  <2> QED BY <2>1, <2>3, <2>4, <2>5 DEF OneInFlight
<1>5. LogInOrder'
  <2>1. Moved
    <3>1. All' = All /\ \A b \in All : batch'[b].recs = batch[b].recs
      BY <1>1, <1>2 DEF Retried, All
    <3>2. \A p \in Partition : \A i \in 1 .. Len(dq'[p]) :
            \/ \E j \in 1 .. Len(dq[p]) : dq'[p][i] = dq[p][j]
            \/ p = f.tp /\ dq'[p][i] = f.id
      <4>1. \A i \in 1 .. Len(dq'[f.tp]) :
              \/ \E j \in 1 .. Len(dq[f.tp]) : dq'[f.tp][i] = dq[f.tp][j]
              \/ dq'[f.tp][i] = f.id
        BY <1>3
      <4> QED BY SMTT(40), <4>1, <1>3
    <3> QED BY <3>1, <3>2, <1>2 DEF Moved
  <2> QED BY <2>1, <1>1, <1>2, MovedKeeps DEF OInv
<1> QED BY <1>4, <1>5 DEF OInv

LEMMA OverOrder ==
  ASSUME SInv, OInv, NEW f \in flight, Over(f), muted' = muted \ {f.tp}
  PROVE  OInv'
<1>1. /\ f.id \in All /\ f.tp \in Partition /\ \A g \in flight : g.tp \in Partition
  BY Typed DEF SInv, RequestsHold
<1>2. flight' = flight \ {f} /\ UNCHANGED <<mode, log, dq>> BY DEF Over
<1>3. OneInFlight'
  <2> SUFFICES ASSUME Ordered PROVE OneInFlight' BY <1>2 DEF OneInFlight, Ordered
  <2>0. /\ \A p \in Partition : \A i, j \in 1 .. Len(dq[p]) : i < j => dq[p][i] < dq[p][j]
        /\ \A p \in Partition : p \in muted <=> \E g \in flight : g.tp = p
        /\ \A g, h \in flight : g.tp = h.tp => g = h
        /\ \A g \in flight : \A i \in 1 .. Len(dq[g.tp]) : g.id < dq[g.tp][i]
    BY DEF OInv, OneInFlight
  <2>2. \A g \in flight' : g \in flight /\ g.tp # f.tp BY <1>2, <2>0
  <2>3. \A p \in Partition : p \in muted' <=> \E g \in flight' : g.tp = p
    BY <1>2, <2>0, <2>2
  <2> QED BY <2>0, <2>2, <2>3, <1>2 DEF OneInFlight
<1>4. LogInOrder'
  <2>1. All' = All /\ \A b \in All : batch'[b].recs = batch[b].recs
    <3>1. CASE batch' = batch BY <3>1 DEF All
    <3>2. CASE ~(batch' = batch)
      <4>1. PICK final \in {"ok", "failed"}, base \in Nat :
              Ended(batch, batch', f.id, final, base, batch[f.id].closed)
        BY <3>2 DEF Over
      <4> QED BY <4>1, <1>1 DEF Ended, All
    <3> QED BY <3>1, <3>2
  <2>2. Moved BY <2>1, <1>2 DEF Moved
  <2> QED BY <2>2, <1>1, <1>2, MovedKeeps DEF OInv
<1> QED BY <1>3, <1>4 DEF OInv

LEMMA AbortOrder ==
  ASSUME SInv, OInv, NEW p \in Partition, AbortBatch(p)
  PROVE  OInv'
<1>1. PICK k \in 1 .. Len(dq[p]) :
        /\ dq[p][k] \in All
        /\ Ended(batch, batch', dq[p][k], "aborted", batch[dq[p][k]].base, TRUE)
        /\ Removed(dq, dq', p, k)
  BY AbortIsRemoval
<1>2. UNCHANGED <<mode, muted, flight, log>> BY AbortIsRemoval
<1>3. /\ \A i \in 1 .. Len(dq'[p]) :
           \E j \in 1 .. Len(dq[p]) : j # k /\ dq'[p][i] = dq[p][j] /\ i = (IF j < k THEN j ELSE j - 1)
      /\ Len(dq[p]) \in Nat /\ \A q \in Partition : q # p => dq'[q] = dq[q]
  BY <1>1, RemovedAt DEF SInv
<1>4. Thinned
  <2> SUFFICES ASSUME NEW q \in Partition, NEW i \in 1 .. Len(dq'[q]), NEW j \in 1 .. Len(dq'[q])
               PROVE  \E m, l \in 1 .. Len(dq[q]) :
                        dq'[q][i] = dq[q][m] /\ dq'[q][j] = dq[q][l] /\ (i < j => m < l)
    BY DEF Thinned
  <2>1. CASE q # p BY <2>1, <1>3
  <2>2. CASE q = p
    <3>1. PICK m \in 1 .. Len(dq[p]) : m # k /\ dq'[p][i] = dq[p][m] /\ i = (IF m < k THEN m ELSE m - 1)
      BY <2>2, <1>3
    <3>2. PICK l \in 1 .. Len(dq[p]) : l # k /\ dq'[p][j] = dq[p][l] /\ j = (IF l < k THEN l ELSE l - 1)
      BY <2>2, <1>3
    <3>3. i < j => m < l BY <3>1, <3>2
    <3> QED BY <2>2, <3>1, <3>2, <3>3
  <2> QED BY <2>1, <2>2
<1>5. \A f \in flight : f.tp \in Partition BY Typed DEF SInv
<1>6. OneInFlight' BY <1>2, <1>4, <1>5, ThinnedKeeps DEF OInv
<1>7. Moved
  <2>1. All' = All /\ \A b \in All : batch'[b].recs = batch[b].recs
    BY <1>1 DEF Ended, All
  <2>2. \A q \in Partition : \A i \in 1 .. Len(dq'[q]) : \E j \in 1 .. Len(dq[q]) : dq'[q][i] = dq[q][j]
    BY <1>4 DEF Thinned
  <2> QED BY <2>1, <2>2, <1>2 DEF Moved
<1> QED BY <1>2, <1>5, <1>6, <1>7, MovedKeeps DEF OInv

\* What the log holds was sent.
LEMMA LogIsOld ==
  ASSUME SInv, NEW p \in Partition, NEW i \in 1 .. Len(log[p])
  PROVE  log[p][i] \in Nat /\ log[p][i] <= sent
<1>1. PICK b \in All : In(batch[b].recs, log[p][i]) BY DEF SInv, LogIsOfBatches
<1>2. PICK k \in 1 .. Len(batch[b].recs) : batch[b].recs[k] = log[p][i] BY <1>1 DEF In
<1> QED BY <1>2, Typed DEF SInv, RecordsHold

\* What is sent: what it does to a batch, queues and requests.
Added(p) ==
  /\ \/ \E t \in All : /\ Longer(batch, batch', t, sent + 1) /\ UNCHANGED <<dq, incomplete>>
                       /\ HasRoom(t) /\ Len(dq[p]) > 0 /\ t = dq[p][Len(dq[p])]
     \/ \E c : /\ c = Len(batch) + 1 /\ Created(batch, batch', p, sent + 1)
               /\ Enqueued(dq, dq', p, c)
  /\ sent' = sent + 1
  /\ UNCHANGED <<mode, muted, flight, pid, fresh, seqno, log, known, horizon, life, flush>>

LEMMA SendIs ==
  ASSUME SInv, NEW p \in Partition, Send(p)
  PROVE  Added(p)
<1>1. /\ AppendRecord(p, sent + 1) /\ sent' = sent + 1
      /\ UNCHANGED <<mode, muted, flight, pid, fresh, seqno, log, known, horizon, life, flush>>
  BY DEF Send, ids, broker
<1>2. batch \in Seq(BatchRec) /\ dq \in [Partition -> Seq(Nat)] /\ sent + 1 \in Nat
      /\ Len(batch) + 1 \in Nat
  BY Typed DEF SInv, Types
<1>3. CASE dq[p] # <<>> /\ HasRoom(Last(dq[p]))
  <2>1. PICK t : t = dq[p][Len(dq[p])] OBVIOUS
  <2>2. Len(dq[p]) > 0 /\ Len(dq[p]) \in 1 .. Len(dq[p]) BY <1>2, <1>3, EmptySeq
  <2>3. t \in All BY <2>1, <2>2 DEF SInv, QueuesHold
  <2>4. Last(dq[p]) = t BY <2>1 DEF Last
  <2>5. Longer(batch, [batch EXCEPT ![t].recs = Append(@, sent + 1)], t, sent + 1)
    BY <2>3, <1>2, RoomTaken DEF All
  <2>6. Longer(batch, batch', t, sent + 1) /\ UNCHANGED <<dq, incomplete>>
    BY <1>1, <1>3, <2>4, <2>5 DEF AppendRecord
  <2> QED BY <2>1, <2>2, <2>3, <2>4, <2>6, <1>1, <1>3 DEF Added
<1>4. CASE ~(dq[p] # <<>> /\ HasRoom(Last(dq[p])))
  <2>1. PICK c : c = Len(batch) + 1 OBVIOUS
  <2>3. Created(batch, Append(batch, NewBatch(p, sent + 1)), p, sent + 1) BY <1>2, BatchCreated
  <2>4. Enqueued(dq, [dq EXCEPT ![p] = Append(@, c)], p, c) BY <1>2, <2>1, QueueExtended
  <2>5. Created(batch, batch', p, sent + 1) /\ Enqueued(dq, dq', p, c)
    BY <1>1, <1>4, <2>1, <2>3, <2>4 DEF AppendRecord
  <2> QED BY <2>1, <2>5, <1>1 DEF Added
<1> QED BY <1>3, <1>4

\* The records of a batch that are in a log are those it had before.
LEMMA AddedRecords ==
  ASSUME SInv, NEW p \in Partition, Added(p)
  PROVE  /\ \A b \in All' : \A x : x \in Nat /\ x <= sent /\ In(batch'[b].recs, x) =>
              b \in All /\ In(batch[b].recs, x)
         /\ \A b \in All : b \in All' /\ \A x : In(batch[b].recs, x) => In(batch'[b].recs, x)
<1>s. sent \in Nat /\ Len(batch) \in Nat /\ All = 1 .. Len(batch)
      /\ \A b \in All : Len(batch[b].recs) \in Nat
  BY Typed DEF SInv, Types
<1>1. CASE \E t \in All : Longer(batch, batch', t, sent + 1)
  <2>1. PICK t \in All : Longer(batch, batch', t, sent + 1) BY <1>1
  <2>n. PICK n : n = Len(batch[t].recs) OBVIOUS
  <2>2. /\ n \in Nat /\ Len(batch'[t].recs) = n + 1 /\ batch'[t].recs[n + 1] = sent + 1
        /\ \A i \in 1 .. n : batch'[t].recs[i] = batch[t].recs[i]
        /\ All' = All /\ \A b \in All : b # t => batch'[b] = batch[b]
    BY <2>1, <2>n, <1>s DEF Longer, All
  <2>3. \A i \in 1 .. n + 1 : i \in 1 .. n \/ i = n + 1 BY <2>2
  <2>4. \A i \in 1 .. n : i \in 1 .. n + 1 BY <2>2
  <2>5. \A x : x \in Nat /\ x <= sent => x # sent + 1 BY <1>s
  <2>6. \A x : x \in Nat /\ x <= sent /\ In(batch'[t].recs, x) => In(batch[t].recs, x)
    BY <2>2, <2>3, <2>5, <2>n DEF In
  <2>7. \A x : In(batch[t].recs, x) => In(batch'[t].recs, x)
    BY <2>2, <2>4, <2>n DEF In
  <2>8. \A b \in All : \A x : x \in Nat /\ x <= sent /\ In(batch'[b].recs, x) => In(batch[b].recs, x)
    BY <2>2, <2>6
  <2>9. \A b \in All : \A x : In(batch[b].recs, x) => In(batch'[b].recs, x) BY <2>2, <2>7
  <2> QED BY <2>2, <2>8, <2>9
<1>2. CASE Created(batch, batch', p, sent + 1)
  <2>1. /\ Len(batch') = Len(batch) + 1 /\ \A b \in All : batch'[b] = batch[b]
        /\ Len(batch'[Len(batch) + 1].recs) = 1
        /\ batch'[Len(batch) + 1].recs[1] = sent + 1
    BY <1>2, <1>s DEF Created
  <2>2. (\A b \in All' : b \in All \/ b = Len(batch) + 1) /\ \A b \in All : b \in All'
    BY <2>1, <1>s DEF All
  <2>3. \A x : x \in Nat /\ x <= sent => x # sent + 1 BY <1>s
  <2>4. \A x : x \in Nat /\ x <= sent => ~In(batch'[Len(batch) + 1].recs, x)
    BY <2>1, <2>3 DEF In
  <2> QED BY <2>1, <2>2, <2>4
<1> QED BY <1>1, <1>2 DEF Added

\* What is in the queues is what was there, or the newest of all batches at the end.
NewestAt(p, n, c) ==
  /\ n = Len(dq[p]) /\ n \in Nat /\ c = Len(batch) + 1 /\ c \in Nat
  /\ Len(dq'[p]) = n + 1 /\ dq'[p][n + 1] = c
  /\ \A i \in 1 .. n : dq'[p][i] = dq[p][i]
  /\ \A i \in 1 .. n + 1 : i \in 1 .. n \/ i = n + 1
  /\ \A q \in Partition : q # p => dq'[q] = dq[q]
  /\ \A b \in All : b < c /\ b \in Nat /\ batch'[b] = batch[b]
  /\ batch'[c].attempts = 0 /\ batch'[c].pid = 0 /\ batch'[c].final = "none"
  /\ Len(batch'[c].recs) = 1 /\ batch'[c].recs[1] = sent + 1
  /\ \A b \in All' : b \in All \/ b = c

LEMMA AddedQueues ==
  ASSUME SInv, NEW p \in Partition, Added(p)
  PROVE  \/ dq' = dq /\ All' = All /\ \A b \in All : batch'[b].attempts = batch[b].attempts
                                                 /\ batch'[b].pid = batch[b].pid
         \/ \E n, c : NewestAt(p, n, c)
<1>1. CASE \E t \in All : Longer(batch, batch', t, sent + 1) /\ UNCHANGED <<dq, incomplete>>
  BY <1>1 DEF Longer, All
<1>2. CASE \E c : c = Len(batch) + 1 /\ Created(batch, batch', p, sent + 1)
                  /\ Enqueued(dq, dq', p, c)
  <2>1. PICK c : c = Len(batch) + 1 /\ Created(batch, batch', p, sent + 1)
                 /\ Enqueued(dq, dq', p, c)
    BY <1>2
  <2>2. PICK n : n = Len(dq[p]) OBVIOUS
  <2>3. n \in Nat /\ Len(batch) \in Nat /\ All = 1 .. Len(batch) BY <2>2, Typed DEF SInv
  <2>4. c \in Nat /\ (\A i \in 1 .. n + 1 : i \in 1 .. n \/ i = n + 1) /\ \A b \in All : b < c /\ b \in Nat
    BY <2>1, <2>3
  <2>5. /\ Len(dq'[p]) = n + 1 /\ dq'[p][n + 1] = c
        /\ \A i \in 1 .. n : dq'[p][i] = dq[p][i]
        /\ \A q \in Partition : q # p => dq'[q] = dq[q]
    BY <2>1, <2>2 DEF Enqueued
  <2>6. /\ \A b \in All : batch'[b] = batch[b]
        /\ batch'[c].attempts = 0 /\ batch'[c].pid = 0 /\ batch'[c].final = "none"
        /\ Len(batch'[c].recs) = 1 /\ batch'[c].recs[1] = sent + 1 /\ Len(batch') = c
    BY <2>1, <2>3 DEF Created
  <2>7. \A b \in All' : b \in All \/ b = c BY <2>1, <2>3, <2>6 DEF All
  <2> QED BY ZenonT(40), <2>1, <2>2, <2>3, <2>4, <2>5, <2>6, <2>7 DEF NewestAt
<1> QED BY <1>1, <1>2 DEF Added

LEMMA AddedOrder ==
  ASSUME SInv, OInv, NEW p \in Partition, Added(p)
  PROVE  OInv'
<1>1. UNCHANGED <<mode, muted, flight, log>> BY DEF Added
<1>2. \A f \in flight : f.tp \in Partition /\ f.id \in All BY Typed DEF SInv, RequestsHold
<1>3. \A q \in Partition : \A i \in 1 .. Len(dq[q]) : dq[q][i] \in All BY DEF SInv, QueuesHold
<1>l. \A q \in Partition : \A i \in 1 .. Len(log[q]) : log[q][i] \in Nat /\ log[q][i] <= sent
  BY LogIsOld
<1>m. \A b \in All' : \A x : x \in Nat /\ x <= sent /\ In(batch'[b].recs, x) =>
        b \in All /\ In(batch[b].recs, x)
  BY AddedRecords
<1> SUFFICES ASSUME Ordered PROVE OInv' BY <1>1 DEF OInv, OneInFlight, LogInOrder, Ordered
<1>0. /\ \A q \in Partition : \A i, j \in 1 .. Len(dq[q]) : i < j => dq[q][i] < dq[q][j]
      /\ \A q \in Partition : q \in muted <=> \E g \in flight : g.tp = q
      /\ \A g, h \in flight : g.tp = h.tp => g = h
      /\ \A g \in flight : \A i \in 1 .. Len(dq[g.tp]) : g.id < dq[g.tp][i]
  BY DEF OInv, OneInFlight
<1>4. ASSUME NEW q \in Partition, NEW i \in 1 .. Len(log[q]), NEW b \in All',
             In(batch'[b].recs, log[q][i])
      PROVE  /\ b \in All
             /\ \A j \in 1 .. Len(log[q]) : \A c \in All' :
                  i < j /\ In(batch'[c].recs, log[q][j]) => b <= c
             /\ \A j \in 1 .. Len(dq[q]) : b <= dq[q][j]
             /\ \A f \in flight : f.tp = q => b <= f.id
  <2>1. b \in All /\ In(batch[b].recs, log[q][i]) BY <1>4, <1>l, <1>m
  <2>2. /\ \A j \in 1 .. Len(log[q]) : \A c \in All :
             i < j /\ In(batch[c].recs, log[q][j]) => b <= c
        /\ \A j \in 1 .. Len(dq[q]) : b <= dq[q][j]
        /\ \A f \in flight : f.tp = q => b <= f.id
    BY <2>1 DEF OInv, LogInOrder
  <2>3. \A j \in 1 .. Len(log[q]) : \A c \in All' :
          In(batch'[c].recs, log[q][j]) => c \in All /\ In(batch[c].recs, log[q][j])
    BY <1>l, <1>m
  <2> QED BY <2>1, <2>2, <2>3
<1>5. CASE dq' = dq /\ All' = All
  <2>1. OneInFlight' BY <1>5, <1>1, <1>0 DEF OneInFlight
  <2>2. LogInOrder' BY <1>5, <1>1, <1>4 DEF LogInOrder
  <2> QED BY <2>1, <2>2 DEF OInv
<1>6. ASSUME NEW n, NEW c, NewestAt(p, n, c)
      PROVE  OInv'
  <2>0. /\ n = Len(dq[p]) /\ n \in Nat /\ c \in Nat
        /\ Len(dq'[p]) = n + 1 /\ dq'[p][n + 1] = c
        /\ \A i \in 1 .. n : dq'[p][i] = dq[p][i]
        /\ \A i \in 1 .. n + 1 : i \in 1 .. n \/ i = n + 1
        /\ \A q \in Partition : q # p => dq'[q] = dq[q]
        /\ \A b \in All : b < c /\ b \in Nat
    BY <1>6 DEF NewestAt
  <2>1. \A q \in Partition : \A i \in 1 .. Len(dq'[q]) :
          \/ i \in 1 .. Len(dq[q]) /\ dq'[q][i] = dq[q][i]
          \/ q = p /\ i = n + 1 /\ dq'[q][i] = c
    BY <2>0
  <2>2. \A q \in Partition : \A i, j \in 1 .. Len(dq'[q]) : i < j => dq'[q][i] < dq'[q][j]
    <3> SUFFICES ASSUME NEW i \in 1 .. n + 1, NEW j \in 1 .. n + 1, i < j
                 PROVE  dq'[p][i] < dq'[p][j]
      BY <2>0, <1>0
    <3>1. i \in 1 .. n /\ dq'[p][i] = dq[p][i] /\ dq[p][i] \in All BY <2>0, <1>3
    <3>2. CASE j \in 1 .. n BY <3>1, <3>2, <2>0, <1>0
    <3>3. CASE j = n + 1 BY <3>1, <3>3, <2>0
    <3> QED BY <3>2, <3>3, <2>0
  <2>3. \A f \in flight : \A i \in 1 .. Len(dq'[f.tp]) : f.id < dq'[f.tp][i]
    BY <2>1, <1>0, <1>2, <2>0
  <2>4. OneInFlight' BY <2>2, <2>3, <1>0, <1>1 DEF OneInFlight
  <2>5. LogInOrder'
    <3>1. \A b \in All : b <= c BY <2>0
    <3>2. \A q \in Partition : \A i \in 1 .. Len(log[q]) : \A b \in All' :
            In(batch'[b].recs, log[q][i]) => \A j \in 1 .. Len(dq'[q]) : b <= dq'[q][j]
      BY <3>1, <2>1, <1>4
    <3> QED BY <3>2, <1>4, <1>1 DEF LogInOrder
  <2> QED BY <2>4, <2>5 DEF OInv
<1>7. (dq' = dq /\ All' = All) \/ \E n, c : NewestAt(p, n, c) BY AddedQueues
<1> QED BY <1>5, <1>6, <1>7

\* A record is in one batch.
LEMMA OneBatch ==
  ASSUME SInv, NEW b \in All, NEW c \in All, NEW x,
         In(batch[b].recs, x), In(batch[c].recs, x)
  PROVE  b = c
<1>1. PICK i \in 1 .. Len(batch[b].recs) : batch[b].recs[i] = x BY DEF In
<1>2. PICK j \in 1 .. Len(batch[c].recs) : batch[c].recs[j] = x BY DEF In
<1>3. ~(b < c) /\ ~(c < b) BY <1>1, <1>2 DEF SInv, Apart
<1>4. b \in Nat /\ c \in Nat BY Typed DEF SInv
<1> QED BY <1>3, <1>4

\* A request has another answer, and the log stays.
LEMMA ToldOrder ==
  ASSUME SInv, OInv, NEW f \in flight, NEW g, g.id = f.id, g.tp = f.tp,
         flight' = (flight \ {f}) \cup {g},
         UNCHANGED <<mode, batch, dq, muted, log>>
  PROVE  OInv'
<1>1. OneInFlight' BY AnswersKeepOrder DEF OInv
<1>2. Moved BY DEF Moved, All
<1>3. \A h \in flight' : h.tp \in Partition BY Typed DEF SInv
<1> QED BY <1>1, <1>2, <1>3, MovedKeeps DEF OInv

LEMMA TakenOrder ==
  ASSUME SInv, OInv, NEW f \in flight, NEW g, Taken(f, g), Still
  PROVE  OInv'
<1>1. /\ Grown(log, log', f.tp, batch[f.id].recs) /\ g.id = f.id /\ g.tp = f.tp
      /\ flight' = (flight \ {f}) \cup {g}
      /\ UNCHANGED <<mode, batch, dq, muted>> /\ All' = All
  BY DEF Taken, Still, All
<1>2. OneInFlight' BY <1>1, AnswersKeepOrder DEF OInv
<1>3. f.id \in All /\ f.tp \in Partition /\ \A h \in flight : h.tp \in Partition
  BY Typed DEF SInv, RequestsHold
<1> SUFFICES ASSUME Ordered PROVE LogInOrder' BY <1>1, <1>2 DEF OInv, LogInOrder, Ordered
<1> SUFFICES ASSUME NEW p \in Partition, NEW i \in 1 .. Len(log'[p]), NEW b \in All,
                    In(batch[b].recs, log'[p][i])
             PROVE  /\ \A j \in 1 .. Len(log'[p]) : \A c \in All :
                         i < j /\ In(batch[c].recs, log'[p][j]) => b <= c
                    /\ \A j \in 1 .. Len(dq[p]) : b <= dq[p][j]
                    /\ \A h \in flight' : h.tp = p => b <= h.id
  BY <1>1 DEF LogInOrder
<1>4. /\ \A h, k \in flight : h.tp = k.tp => h = k
      /\ \A h \in flight : \A j \in 1 .. Len(dq[h.tp]) : h.id < dq[h.tp][j]
  BY DEF OInv, OneInFlight
<1>5. \A j \in 1 .. Len(log[p]) : \A c \in All : In(batch[c].recs, log[p][j]) =>
        /\ \A k \in 1 .. Len(log[p]) : \A d \in All :
             j < k /\ In(batch[d].recs, log[p][k]) => c <= d
        /\ \A k \in 1 .. Len(dq[p]) : c <= dq[p][k]
        /\ \A h \in flight : h.tp = p => c <= h.id
  BY DEF OInv, LogInOrder
<1>6. \A h \in flight' : \E k \in flight : h.id = k.id /\ h.tp = k.tp BY <1>1
<1>7. CASE p # f.tp
  <2>1. log'[p] = log[p] BY <1>1, <1>7 DEF Grown
  <2> QED BY <2>1, <1>5, <1>6
<1>8. CASE p = f.tp
  <2> DEFINE recs == batch[f.id].recs
  <2>n. PICK n : n = Len(log[p]) OBVIOUS
  <2>0. n \in Nat /\ Len(recs) \in Nat BY <2>n, <1>3, Typed DEF SInv
  <2>1. /\ \A j \in 1 .. n : log'[p][j] = log[p][j]
        /\ \A k \in 1 .. Len(recs) : log'[p][n + k] = recs[k]
        /\ \A j \in 1 .. Len(log'[p]) : j \in 1 .. n \/ \E k \in 1 .. Len(recs) : j = n + k
    BY <1>1, <1>8, <2>n DEF Grown
  \* What is new is of this batch.
  <2>2. \A j \in 1 .. Len(log'[p]) :
          \/ j \in 1 .. n /\ log'[p][j] = log[p][j]
          \/ j > n /\ \A c \in All : In(batch[c].recs, log'[p][j]) => c = f.id
    <3> SUFFICES ASSUME NEW j \in 1 .. Len(log'[p]), NEW k \in 1 .. Len(recs), j = n + k
                 PROVE  j > n /\ \A c \in All : In(batch[c].recs, log'[p][j]) => c = f.id
      BY <2>1
    <3>1. log'[p][j] = recs[k] BY <2>1
    <3>2. In(batch[f.id].recs, log'[p][j]) BY <3>1 DEF In
    <3>3. j > n BY <2>0
    <3> QED BY <3>2, <3>3, <1>3, OneBatch
  <2>3. f.id \in Nat /\ f.id <= f.id /\ \A j \in 1 .. Len(dq[p]) : f.id <= dq[p][j]
    <3>1. f.id \in Nat /\ \A j \in 1 .. Len(dq[p]) : dq[p][j] \in Nat BY <1>3, Typed DEF SInv
    <3> QED BY <3>1, <1>4, <1>8
  <2>4. \A h \in flight' : h.tp = p => h.id = f.id BY <1>4, <1>6, <1>8
  <2>5. CASE i \in 1 .. n /\ log'[p][i] = log[p][i]
    <3>1. In(batch[b].recs, log[p][i]) BY <2>5
    <3>2. b <= f.id BY <3>1, <2>5, <2>n, <1>5, <1>8
    <3>3. ASSUME NEW j \in 1 .. Len(log'[p]), NEW c \in All, i < j, In(batch[c].recs, log'[p][j])
          PROVE  b <= c
      <4>1. CASE j \in 1 .. n /\ log'[p][j] = log[p][j]
        BY <4>1, <3>1, <3>3, <2>5, <2>n, <1>5
      <4>2. CASE \A d \in All : In(batch[d].recs, log'[p][j]) => d = f.id
        BY <4>2, <3>2, <3>3
      <4> QED BY <4>1, <4>2, <2>2
    <3>4. \A j \in 1 .. Len(dq[p]) : b <= dq[p][j] BY <3>1, <2>5, <2>n, <1>5
    <3>5. \A h \in flight' : h.tp = p => b <= h.id BY <3>2, <2>4
    <3> QED BY <3>3, <3>4, <3>5
  <2>6. CASE i > n /\ \A c \in All : In(batch[c].recs, log'[p][i]) => c = f.id
    <3>1. b = f.id BY <2>6
    <3>2. \A j \in 1 .. Len(log'[p]) : \A c \in All :
            i < j /\ In(batch[c].recs, log'[p][j]) => b <= c
      <4> SUFFICES ASSUME NEW j \in 1 .. Len(log'[p]), NEW c \in All, i < j,
                          In(batch[c].recs, log'[p][j])
                   PROVE  b <= c
        OBVIOUS
      <4>1. ~(j \in 1 .. n) BY <2>0, <2>6
      <4>2. c = f.id BY <4>1, <2>2
      <4> QED BY <4>2, <3>1, <2>3
    <3> QED BY <3>1, <3>2, <2>3, <2>4
  <2> QED BY <2>2, <2>5, <2>6
<1> QED BY <1>7, <1>8

-----------------------------------------------------------------------------
(* What is acknowledged lies in the log                                    *)

LEMMA LiesStill ==
  ASSUME Types, NEW p \in Partition, NEW recs, Grown(log, log', p, recs), Len(recs) \in Nat,
         NEW q \in Partition, NEW base \in Nat, NEW rs, LiesAt(log[q], base, rs)
  PROVE  LiesAt(log'[q], base, rs)
<1>1. CASE q # p BY <1>1 DEF Grown
<1>2. CASE q = p
  <2>n. PICK n : n = Len(log[p]) OBVIOUS
  <2>1. n \in Nat BY <2>n, Typed
  <2>2. Len(log'[p]) = n + Len(recs) /\ \A i \in 1 .. n : log'[p][i] = log[p][i]
    BY <2>n DEF Grown
  <2>3. ASSUME NEW k \in 1 .. Len(rs) PROVE base + k <= Len(log'[p]) /\ log'[p][base + k] = rs[k]
    <3>1. base + k <= n /\ log[p][base + k] = rs[k] BY <1>2, <2>n DEF LiesAt
    <3>2. k \in Nat /\ k >= 1 OBVIOUS
    <3>3. base + k \in 1 .. n /\ base + k <= n + Len(recs) BY <2>1, <3>1, <3>2
    <3> QED BY <2>2, <3>1, <3>3
  <2> QED BY <2>3, <1>2 DEF LiesAt
<1> QED BY <1>1, <1>2

\* Steps that answer no request and end no batch well.
LEMMA AnswersKept ==
  ASSUME SInv, AnswersTrue, UNCHANGED log,
         \A b \in All' : batch'[b].final = "ok" =>
            /\ b \in All /\ batch[b].final = "ok" /\ batch'[b].closed
            /\ batch'[b].tp = batch[b].tp /\ batch'[b].base = batch[b].base
            /\ batch'[b].recs = batch[b].recs,
         \A g \in flight' : g.res = "ok" => g \in flight /\ batch'[g.id].recs = batch[g.id].recs
  PROVE  AnswersTrue'
BY DEF AnswersTrue

LEMMA AnswersAdded ==
  ASSUME SInv, AnswersTrue, NEW p \in Partition, Added(p)
  PROVE  AnswersTrue'
<1>1. flight' = flight /\ log' = log BY DEF Added
<1>2. \A f \in flight : f.id \in All /\ batch[f.id].closed BY DEF SInv, RequestsHold
<1>3. \A b \in All : batch[b].final = "ok" => batch[b].closed BY DEF AnswersTrue
<1>4. \A b \in All : batch[b].closed => batch'[b] = batch[b]
  <2>1. CASE \E t \in All : Longer(batch, batch', t, sent + 1) /\ HasRoom(t)
    <3>1. PICK t \in All : Longer(batch, batch', t, sent + 1) /\ HasRoom(t) BY <2>1
    <3> QED BY <3>1 DEF Longer, All, HasRoom
  <2>2. CASE Created(batch, batch', p, sent + 1) BY <2>2 DEF Created, All
  <2> QED BY <2>1, <2>2 DEF Added
<1>5. \A b \in All' : batch'[b].final = "ok" => b \in All /\ batch[b].final = "ok"
  <2>1. CASE \E t \in All : Longer(batch, batch', t, sent + 1) BY <2>1 DEF Longer, All
  <2>2. CASE Created(batch, batch', p, sent + 1)
    <3>1. \A b \in All' : b \in All \/ b = Len(batch) + 1
      BY <2>2, Typed DEF Created, All, SInv
    <3> QED BY <3>1, <2>2 DEF Created, All
  <2> QED BY <2>1, <2>2 DEF Added
<1>6. \A b \in All' : batch'[b].final = "ok" =>
            /\ b \in All /\ batch[b].final = "ok" /\ batch'[b].closed
            /\ batch'[b].tp = batch[b].tp /\ batch'[b].base = batch[b].base
            /\ batch'[b].recs = batch[b].recs
  BY <1>3, <1>4, <1>5
<1> QED BY <1>1, <1>2, <1>4, <1>6, AnswersKept

LEMMA AnswersSwept ==
  ASSUME SInv, AnswersTrue, NEW ps \in SUBSET Partition, NEW gone, NEW cut, NEW reset,
         Swept(ps, gone, cut, reset)
  PROVE  AnswersTrue'
<1>1. All' = All /\ log' = log BY DEF Swept, All
<1>2. \A b \in All :
        /\ batch'[b].tp = batch[b].tp /\ batch'[b].recs = batch[b].recs
        /\ batch'[b].base = batch[b].base
        /\ batch'[b].final = IF b \in gone THEN "failed" ELSE batch[b].final
        /\ batch[b].closed => batch'[b].closed
  BY DEF Swept
<1>3. \A g \in flight' : g.res = "ok" => g \in flight BY DEF Swept
<1>4. \A g \in flight : g.id \in All BY DEF SInv, RequestsHold
<1>5. \A b \in All : batch[b].final = "ok" => batch[b].closed BY DEF AnswersTrue
<1>6. \A b \in All' : batch'[b].final = "ok" =>
            /\ b \in All /\ batch[b].final = "ok" /\ batch'[b].closed
            /\ batch'[b].tp = batch[b].tp /\ batch'[b].base = batch[b].base
            /\ batch'[b].recs = batch[b].recs
  BY <1>1, <1>2, <1>5
<1> QED BY <1>1, <1>2, <1>3, <1>4, <1>6, AnswersKept

LEMMA AnswersAgain ==
  ASSUME SInv, AnswersTrue, NEW f \in flight, Again(f)
  PROVE  AnswersTrue'
<1>1. /\ f.id \in All /\ Retried(batch, batch', f.id) /\ flight' = flight \ {f} /\ log' = log
      /\ \A g \in flight : g.id \in All
  BY DEF Again, SInv, RequestsHold
<1>2. /\ All' = All
      /\ \A b \in All : /\ batch'[b].tp = batch[b].tp /\ batch'[b].recs = batch[b].recs
                        /\ batch'[b].base = batch[b].base /\ batch'[b].final = batch[b].final
                        /\ batch'[b].closed = batch[b].closed
  BY <1>1 DEF Retried, All
<1>3. \A b \in All : batch[b].final = "ok" => batch[b].closed BY DEF AnswersTrue
<1> QED BY <1>1, <1>2, <1>3, AnswersKept

LEMMA AnswersAbort ==
  ASSUME SInv, AnswersTrue, NEW p \in Partition, AbortBatch(p)
  PROVE  AnswersTrue'
<1>1. PICK k \in 1 .. Len(dq[p]) :
        /\ dq[p][k] \in All
        /\ Ended(batch, batch', dq[p][k], "aborted", batch[dq[p][k]].base, TRUE)
  BY AbortIsRemoval
<1>2. flight' = flight /\ log' = log /\ \A g \in flight : g.id \in All
  BY AbortIsRemoval DEF SInv, RequestsHold
<1>3. /\ All' = All
      /\ \A b \in All : batch'[b].recs = batch[b].recs
      /\ \A b \in All : batch'[b].final = "ok" => batch'[b] = batch[b]
  BY <1>1 DEF Ended, All
<1>4. \A b \in All : batch[b].final = "ok" => batch[b].closed BY DEF AnswersTrue
<1> QED BY <1>2, <1>3, <1>4, AnswersKept

LEMMA AnswersOver ==
  ASSUME SInv, AnswersTrue, NEW f \in flight, Over(f)
  PROVE  AnswersTrue'
<1>1. /\ flight' = flight \ {f} /\ log' = log
      /\ f.id \in All /\ batch[f.id].tp = f.tp /\ batch[f.id].closed
      /\ \A g \in flight : g.id \in All
  BY DEF Over, SInv, RequestsHold
<1>2. CASE batch' = batch
  <2>1. All' = All BY <1>2 DEF All
  <2>2. \A b \in All : batch[b].final = "ok" => batch[b].closed BY DEF AnswersTrue
  <2> QED BY <2>1, <2>2, <1>1, <1>2, AnswersKept
<1>3. CASE ~(batch' = batch)
  <2>1. PICK final \in {"ok", "failed"}, base \in Nat :
          /\ final = "ok" => f.res = "ok" /\ base = f.base
          /\ Ended(batch, batch', f.id, final, base, batch[f.id].closed)
    BY <1>3 DEF Over
  <2>2. /\ All' = All
        /\ \A b \in All : batch'[b].recs = batch[b].recs /\ batch'[b].tp = batch[b].tp
        /\ \A b \in All : b # f.id => batch'[b] = batch[b]
        /\ batch'[f.id].final = final /\ batch'[f.id].base = base /\ batch'[f.id].closed
    BY <2>1, <1>1 DEF Ended, All
  <2>3. \A g \in flight' : g.res = "ok" => LiesAt(log[g.tp], g.base, batch'[g.id].recs)
    BY <2>2, <1>1 DEF AnswersTrue
  <2>4. final = "ok" => LiesAt(log[f.tp], base, batch[f.id].recs)
    BY <2>1 DEF AnswersTrue
  <2>5. \A b \in All : batch'[b].final = "ok" =>
          batch'[b].closed /\ LiesAt(log[batch'[b].tp], batch'[b].base, batch'[b].recs)
    <3> SUFFICES ASSUME NEW b \in All, batch'[b].final = "ok"
                 PROVE  batch'[b].closed /\ LiesAt(log[batch'[b].tp], batch'[b].base, batch'[b].recs)
      OBVIOUS
    <3>1. CASE b # f.id
      <4>1. batch'[b] = batch[b] BY <3>1, <2>2
      <4> QED BY <4>1 DEF AnswersTrue
    <3>2. CASE b = f.id
      <4>1. batch'[b].tp = f.tp /\ batch'[b].base = base /\ batch'[b].recs = batch[f.id].recs
            /\ final = "ok"
        BY <3>2, <2>2, <1>1
      <4> QED BY <4>1, <3>2, <2>2, <2>4
    <3> QED BY <3>1, <3>2
  <2> QED BY <2>2, <2>3, <2>5, <1>1 DEF AnswersTrue
<1> QED BY <1>2, <1>3

LEMMA AnswersTold ==
  ASSUME SInv, AnswersTrue, NEW f \in flight, NEW g, g.id = f.id, g.tp = f.tp,
         flight' = (flight \ {f}) \cup {g}, UNCHANGED <<batch, log>>,
         g.res = "ok" => LiesAt(log[f.tp], g.base, batch[f.id].recs)
  PROVE  AnswersTrue'
<1>1. All' = All BY DEF All
<1> QED BY <1>1 DEF AnswersTrue

LEMMA AnswersTaken ==
  ASSUME SInv, AnswersTrue, NEW f \in flight, NEW g, Taken(f, g), Still
  PROVE  AnswersTrue'
<1>1. /\ Grown(log, log', f.tp, batch[f.id].recs) /\ g.id = f.id /\ g.tp = f.tp
      /\ g.base = Len(log[f.tp]) /\ flight' = (flight \ {f}) \cup {g}
      /\ batch' = batch /\ All' = All
  BY DEF Taken, Still, All
<1>2. f.tp \in Partition /\ f.id \in All /\ Types BY Typed DEF SInv, RequestsHold
<1>3. /\ \A h \in flight : h.tp \in Partition /\ h.base \in Nat
      /\ \A b \in All : batch[b].tp \in Partition /\ batch[b].base \in Nat
      /\ Len(batch[f.id].recs) \in Nat /\ Len(log[f.tp]) \in Nat
  BY <1>2, Typed
<1>4. \A q \in Partition, base \in Nat : \A rs : LiesAt(log[q], base, rs) => LiesAt(log'[q], base, rs)
  BY <1>1, <1>2, <1>3, LiesStill
<1>5. LiesAt(log'[f.tp], g.base, batch[f.id].recs)
  <2>n. PICK n : n = Len(log[f.tp]) OBVIOUS
  <2>m. PICK m : m = Len(batch[f.id].recs) OBVIOUS
  <2>1. /\ Len(log'[f.tp]) = n + m
        /\ \A k \in 1 .. m : log'[f.tp][n + k] = batch[f.id].recs[k]
    BY <1>1, <2>n, <2>m DEF Grown
  <2>2. n \in Nat /\ m \in Nat /\ g.base = n BY <1>1, <1>3, <2>n, <2>m
  <2>3. \A k \in 1 .. m : n + k <= n + m BY <2>2
  <2> QED BY <2>1, <2>2, <2>3, <2>m DEF LiesAt
<1>6. \A h \in flight' : h.res = "ok" => LiesAt(log'[h.tp], h.base, batch[h.id].recs)
  <2>1. \A h \in flight : h.res = "ok" => LiesAt(log'[h.tp], h.base, batch[h.id].recs)
    BY <1>3, <1>4 DEF AnswersTrue
  <2> QED BY <2>1, <1>1, <1>5
<1>7. \A b \in All : batch[b].final = "ok" =>
        batch[b].closed /\ LiesAt(log'[batch[b].tp], batch[b].base, batch[b].recs)
  BY <1>3, <1>4 DEF AnswersTrue
<1> QED BY <1>1, <1>6, <1>7 DEF AnswersTrue

-----------------------------------------------------------------------------
(* Sequence numbers                                                        *)

NInv == OneId /\ QueueTrace /\ FlightTrace /\ Rising /\ AtRest

LEMMA WrittenIsThere ==
  ASSUME NEW l, Len(l) \in Nat, NEW b, Len(b.recs) \in Nat, Len(b.recs) >= 1,
         NEW n \in NumberRec, Written(l, n, b)
  PROVE  ~Unwritten(l, b.recs)
<1>1. n.base \in Nat BY DEF NumberRec
<1>2. 1 \in 1 .. Len(b.recs) BY SMT
<1>3. n.base + 1 <= Len(l) /\ l[n.base + 1] = b.recs[1] BY <1>2 DEF Written, LiesAt
<1>4. n.base + 1 \in 1 .. Len(l) BY <1>1, <1>3
<1> QED BY <1>2, <1>3, <1>4 DEF Unwritten

\* The types of what the traces speak of.
LEMMA TraceTyped ==
  ASSUME SInv
  PROVE  /\ \A p \in Partition : Num(p) \in NumberRec /\ Len(log[p]) \in Nat /\ seqno[p] \in Nat
         /\ \A b \in All : Len(batch[b].recs) \in Nat /\ Len(batch[b].recs) >= 1 /\ batch[b].seq \in Nat
                           /\ batch[b].attempts \in Nat /\ batch[b].pid \in Nat /\ b \in Nat
         /\ \A f \in flight : f.id \in All /\ f.tp \in Partition /\ batch[f.id].tp = f.tp
                              /\ batch[f.id].closed /\ ~In(dq[f.tp], f.id)
         /\ \A p \in Partition : \A i \in 1 .. Len(dq[p]) :
              dq[p][i] \in All /\ batch[dq[p][i]].tp = p /\ batch[dq[p][i]].final = "none"
         /\ Fresh \in NumberRec /\ Fresh.next = 0 /\ Fresh.first = 0
         /\ \A n \in NumberRec : n.first \in Nat /\ n.next \in Nat /\ n.base \in Nat
<1>1. \A p \in Partition : Num(p) \in NumberRec /\ Len(log[p]) \in Nat /\ seqno[p] \in Nat
  BY Typed, NumbersTyped DEF SInv, Num
<1>2. \A b \in All : Len(batch[b].recs) \in Nat /\ Len(batch[b].recs) >= 1 /\ batch[b].seq \in Nat
                     /\ batch[b].attempts \in Nat /\ batch[b].pid \in Nat /\ b \in Nat
  BY Typed DEF SInv, RecordsHold
<1>3. \A f \in flight : f.id \in All /\ f.tp \in Partition /\ batch[f.id].tp = f.tp
                        /\ batch[f.id].closed /\ ~In(dq[f.tp], f.id)
  BY Typed DEF SInv, RequestsHold
<1>4. \A p \in Partition : \A i \in 1 .. Len(dq[p]) :
              dq[p][i] \in All /\ batch[dq[p][i]].tp = p /\ batch[dq[p][i]].final = "none"
  BY DEF SInv, QueuesHold, Done
<1>5. Fresh \in NumberRec /\ Fresh.next = 0 /\ Fresh.first = 0 BY DEF Fresh, NumberRec
<1>6. \A n \in NumberRec : n.first \in Nat /\ n.next \in Nat /\ n.base \in Nat BY DEF NumberRec
<1> QED BY <1>1, <1>2, <1>3, <1>4, <1>5, <1>6

\* An idempotent producer that is not taken where the code loses track.
Steady == SInv /\ OInv /\ NInv /\ Idempotent

LEMMA OneOfPartition ==
  ASSUME Steady
  PROVE  /\ \A f, g \in flight : f.tp = g.tp => f = g
         /\ \A p \in Partition : p \in muted <=> \E f \in flight : f.tp = p
         /\ \A f \in flight : \A i \in 1 .. Len(dq[f.tp]) : batch[dq[f.tp][i]].attempts = 0
<1>1. Ordered BY DEF Steady, Ordered, Idempotent
<1>2. /\ \A f, g \in flight : f.tp = g.tp => f = g
      /\ \A p \in Partition : p \in muted <=> \E f \in flight : f.tp = p
  BY <1>1 DEF Steady, OInv, OneInFlight
<1>3. \A f \in flight : \A i \in 1 .. Len(dq[f.tp]) : batch[dq[f.tp][i]].attempts = 0
  BY TraceTyped DEF Steady, NInv, QueueTrace, Waits
<1> QED BY <1>2, <1>3

\* Nothing that was tried again has reached its timeout.
LEMMA NoReset ==
  ASSUME Steady, NEW ps \in SUBSET Partition, NEW gone, NEW cut, NEW reset,
         Swept(ps, gone, cut, reset)
  PROVE  ~reset /\ \A b \in gone : b \in All /\ batch[b].attempts = 0
<1>1. ASSUME NEW b \in gone PROVE b \in All /\ batch[b].attempts = 0
  <2>1. b \in All /\ b <= horizon BY DEF Swept
  <2>h. horizon \in Nat /\ b \in Nat /\ batch[b].attempts \in Nat
    BY <2>1, TraceTyped DEF Steady, SInv, Types
  <2>2. CASE \E f \in flight : f.id = b
    <3>1. PICK f \in flight : f.id = b BY <2>2
    <3>2. Answer(f, batch[f.id], log[f.tp], Num(f.tp), seqno[f.tp], pid, horizon)
      BY DEF Steady, NInv, FlightTrace
    <3>3. batch[f.id].attempts # 0 => f.id > horizon BY <3>2 DEF Answer
    <3> QED BY <3>1, <3>3, <2>1, <2>h
  <2>3. CASE \E p \in Partition : \E k \in 1 .. cut[p] : b = dq[p][k]
    <3>1. PICK p \in Partition : \E k \in 1 .. cut[p] : b = dq[p][k] BY <2>3
    <3>2. PICK k \in 1 .. cut[p] : b = dq[p][k] BY <3>1
    <3>3. k \in 1 .. Len(dq[p])
      <4>1. cut[p] \in 0 .. Len(dq[p]) /\ Len(dq[p]) \in Nat BY Typed DEF Swept, Steady, SInv
      <4> QED BY <4>1
    <3>4. batch[b].attempts # 0 => b > horizon BY <3>2, <3>3 DEF Steady, NInv, QueueTrace, Waits
    <3> QED BY <3>4, <2>1, <2>h
  <2> QED BY <2>1, <2>2, <2>3 DEF Swept
<1>2. ~reset
  <2>1. reset => \E b \in gone : batch[b].attempts > 0 BY DEF Swept
  <2> QED BY <2>1, <1>1
<1> QED BY <1>1, <1>2

LEMMA NSwept ==
  ASSUME Steady, NEW ps \in SUBSET Partition, NEW gone, NEW cut, NEW reset,
         Swept(ps, gone, cut, reset)
  PROVE  NInv'
<1>0. ~reset /\ \A b \in gone : b \in All /\ batch[b].attempts = 0 BY NoReset
<1>t. /\ \A p \in Partition : Num(p) \in NumberRec /\ Len(log[p]) \in Nat /\ seqno[p] \in Nat
      /\ \A b \in All : batch[b].attempts \in Nat
      /\ \A f \in flight : f.id \in All /\ f.tp \in Partition /\ batch[f.id].tp = f.tp
                           /\ ~In(dq[f.tp], f.id)
      /\ \A p \in Partition : \A i \in 1 .. Len(dq[p]) :
           dq[p][i] \in All /\ batch[dq[p][i]].tp = p /\ batch[dq[p][i]].final = "none"
  BY TraceTyped DEF Steady
<1>o. \A p \in Partition : \A i, j \in 1 .. Len(dq[p]) : dq[p][i] = dq[p][j] => i = j
  BY DEF Steady, SInv, QueuesHold
<1>m. \A p \in Partition : p \in muted <=> \E f \in flight : f.tp = p BY OneOfPartition
<1>1. /\ pid' = pid /\ seqno' = seqno /\ pid # 0 /\ Runs
      /\ UNCHANGED <<log, known, horizon, life>>
      /\ \A p \in ps : Len(dq[p]) > 0 /\ p \notin muted
      /\ \A g \in flight' :
           \/ g \in flight
           \/ \E p \in ps : g = [id |-> dq[p][1], tp |-> p, res |-> "none", base |-> 0]
      /\ flight \subseteq flight'
      /\ \A p \in ps : [id |-> dq[p][1], tp |-> p, res |-> "none", base |-> 0] \in flight'
  BY <1>0 DEF Swept, Steady
<1>2. All' = All /\ (\A p \in Partition : Num(p)' = Num(p)) /\ (Runs <=> Runs')
  BY <1>1 DEF Swept, All, Num, Numbers, Runs
<1>3. /\ \A p \in Partition : \A i \in 1 .. Len(dq'[p]) : \E k \in 1 .. Len(dq[p]) :
           /\ k = i + cut[p] /\ dq'[p][i] = dq[p][k] /\ dq[p][k] \notin gone
           /\ p \in ps => k # 1
      /\ \A p \in Partition : /\ Len(dq'[p]) = Len(dq[p]) - cut[p] /\ cut[p] \in Nat
                              /\ Len(dq[p]) \in Nat /\ cut[p] <= Len(dq[p])
                              /\ Len(dq'[p]) \in Nat
  BY SweptAt DEF Steady
<1>4. \A p \in ps : p \in Partition /\ 1 \in 1 .. Len(dq[p]) BY <1>1, <1>3
<1>5. \A b \in All :
       /\ batch'[b].tp = batch[b].tp /\ batch'[b].recs = batch[b].recs
       /\ batch'[b].attempts = batch[b].attempts
       /\ batch'[b].final = IF b \in gone THEN "failed" ELSE batch[b].final
       /\ batch[b].closed => batch'[b].closed
       /\ ~IsDrained(ps, b) => batch'[b].pid = batch[b].pid /\ batch'[b].seq = batch[b].seq
       /\ batch[b].attempts # 0 => batch'[b].pid = batch[b].pid /\ batch'[b].seq = batch[b].seq
       /\ IsDrained(ps, b) /\ batch[b].attempts = 0 =>
            batch'[b].pid = pid /\ batch'[b].seq = seqno[batch[b].tp]
       /\ IsDrained(ps, b) => batch'[b].closed
  BY DEF Swept, Steady
\* What stays in a queue or was in flight is not drained.
<1>6. \A p \in Partition : \A k \in 1 .. Len(dq[p]) : (p \in ps => k # 1) => ~IsDrained(ps, dq[p][k])
  <2> SUFFICES ASSUME NEW p \in Partition, NEW k \in 1 .. Len(dq[p]), IsDrained(ps, dq[p][k])
               PROVE  p \in ps /\ k = 1
    OBVIOUS
  <2>1. PICK q \in ps : dq[p][k] = dq[q][1] BY DEF IsDrained
  <2>2. q \in Partition /\ 1 \in 1 .. Len(dq[q]) BY <1>4
  <2>3. batch[dq[p][k]].tp = p /\ batch[dq[q][1]].tp = q BY <2>2, <1>t
  <2>4. p = q BY <2>1, <2>3
  <2> QED BY <2>1, <2>2, <2>4, <1>o
<1>7. \A f \in flight : ~IsDrained(ps, f.id)
  <2> SUFFICES ASSUME NEW f \in flight, NEW p \in ps, f.id = dq[p][1] PROVE FALSE
    BY DEF IsDrained
  <2>1. p \in Partition /\ 1 \in 1 .. Len(dq[p]) /\ batch[dq[p][1]].tp = p BY <1>4, <1>t
  <2>2. f.tp = p BY <2>1, <1>t
  <2>3. In(dq[f.tp], f.id) BY <2>1, <2>2 DEF In
  <2> QED BY <2>3, <1>t
<1>8. OneId'
  <2>1. \A b \in All : batch'[b].pid \in {0, pid}
    <3>1. \A b \in All : batch[b].pid \in {0, pid} BY DEF Steady, NInv, OneId
    <3>2. \A b \in All : batch'[b].pid = batch[b].pid \/ batch'[b].pid = pid BY <1>5, <1>t
    <3> QED BY <3>1, <3>2
  <2> QED BY <2>1, <1>1, <1>2 DEF Steady, NInv, OneId
<1>9. ASSUME NEW p \in Partition, NEW k \in 1 .. Len(dq[p])
      PROVE  /\ batch[dq[p][k]].attempts = 0 =>
                  batch[dq[p][k]].pid = 0 /\ Unwritten(log[p], batch[dq[p][k]].recs)
             /\ batch[dq[p][k]].attempts # 0 =>
                  /\ k = 1 /\ batch[dq[p][k]].pid = pid /\ batch[dq[p][k]].closed
                  /\ dq[p][k] > horizon /\ \A f \in flight : f.tp # p
                  /\ Trace(log[p], Num(p), seqno[p], batch[dq[p][k]])
  BY DEF Steady, NInv, QueueTrace, Waits
<1>10. QueueTrace'
  <2> SUFFICES ASSUME NEW p \in Partition, NEW i \in 1 .. Len(dq'[p])
               PROVE  /\ batch'[dq'[p][i]].attempts = 0 =>
                           batch'[dq'[p][i]].pid = 0 /\ Unwritten(log[p], batch'[dq'[p][i]].recs)
                      /\ batch'[dq'[p][i]].attempts # 0 =>
                           /\ i = 1 /\ batch'[dq'[p][i]].pid = pid /\ pid # 0
                           /\ batch'[dq'[p][i]].closed /\ dq'[p][i] > horizon
                           /\ \A f \in flight' : f.tp # p
                           /\ Trace(log[p], Num(p), seqno[p], batch'[dq'[p][i]])
    BY <1>1, <1>2 DEF QueueTrace, Waits
  <2>1. PICK k \in 1 .. Len(dq[p]) : /\ k = i + cut[p] /\ dq'[p][i] = dq[p][k]
                                     /\ p \in ps => k # 1
    BY <1>3
  <2>b. PICK b : b = dq[p][k] OBVIOUS
  <2>2. b \in All /\ ~IsDrained(ps, b) BY <2>1, <2>b, <1>t, <1>6
  <2>3. /\ batch'[b].recs = batch[b].recs /\ batch'[b].attempts = batch[b].attempts
        /\ batch'[b].pid = batch[b].pid /\ batch'[b].seq = batch[b].seq
        /\ batch[b].closed => batch'[b].closed
    BY <2>2, <1>5
  <2>4. batch[b].attempts = 0 => batch[b].pid = 0 /\ Unwritten(log[p], batch[b].recs)
    BY <2>b, <1>9
  <2>5. ASSUME batch[b].attempts # 0
        PROVE  /\ i = 1 /\ batch[b].pid = pid /\ batch[b].closed /\ b > horizon
               /\ \A f \in flight' : f.tp # p
               /\ Trace(log[p], Num(p), seqno[p], batch'[b])
    <3>1. /\ k = 1 /\ batch[b].pid = pid /\ batch[b].closed
          /\ b > horizon /\ \A f \in flight : f.tp # p
          /\ Trace(log[p], Num(p), seqno[p], batch[b])
      BY <2>5, <2>b, <1>9
    <3>2. p \notin ps /\ i = 1 BY <3>1, <2>1, <1>3
    <3>3. \A f \in flight' : f.tp # p BY <3>1, <3>2, <1>1
    <3>4. Trace(log[p], Num(p), seqno[p], batch'[b]) BY <3>1, <2>3 DEF Trace, Written
    <3> QED BY <3>1, <3>2, <3>3, <3>4
  <2> QED BY <2>1, <2>b, <2>3, <2>4, <2>5, <1>1
<1>11. FlightTrace'
  <2> SUFFICES ASSUME NEW g \in flight'
               PROVE  Answer(g, batch'[g.id], log[g.tp], Num(g.tp), seqno[g.tp], pid, horizon)
    <3>1. \A g \in flight' : g.tp \in Partition BY <1>1, <1>4, <1>t
    <3> QED BY <3>1, <1>1, <1>2 DEF FlightTrace
  <2>1. CASE g \in flight
    <3>1. Answer(g, batch[g.id], log[g.tp], Num(g.tp), seqno[g.tp], pid, horizon)
      BY <2>1 DEF Steady, NInv, FlightTrace
    <3>2. g.id \in All /\ ~IsDrained(ps, g.id) BY <2>1, <1>t, <1>7
    <3>3. /\ batch'[g.id].recs = batch[g.id].recs /\ batch'[g.id].attempts = batch[g.id].attempts
          /\ batch'[g.id].pid = batch[g.id].pid /\ batch'[g.id].seq = batch[g.id].seq
          /\ g.id \notin gone => batch'[g.id].final = batch[g.id].final
          /\ g.id \in gone => batch'[g.id].final # "none" /\ batch[g.id].attempts = 0 /\ ~(g.id > horizon)
      <4>1. g.id \in gone => ~(g.id > horizon)
        <5>1. g.id \in gone => g.id <= horizon BY DEF Swept
        <5>2. g.id \in Nat /\ horizon \in Nat
          BY <3>2, TraceTyped DEF Steady, SInv, Types
        <5> QED BY <5>1, <5>2
      <4> QED BY <4>1, <3>2, <1>0, <1>5
    <3>4. \A n : Written(log[g.tp], n, batch[g.id]) <=> Written(log[g.tp], n, batch'[g.id])
      BY <3>3 DEF Written
    <3>5. Trace(log[g.tp], Num(g.tp), seqno[g.tp], batch[g.id])
          <=> Trace(log[g.tp], Num(g.tp), seqno[g.tp], batch'[g.id])
      BY <3>3, <3>4 DEF Trace
    <3> QED BY <3>1, <3>3, <3>4, <3>5 DEF Answer
  <2>2. CASE \E p \in ps : g = [id |-> dq[p][1], tp |-> p, res |-> "none", base |-> 0]
    <3>1. PICK p \in ps : g = [id |-> dq[p][1], tp |-> p, res |-> "none", base |-> 0] BY <2>2
    <3>b. PICK b : b = dq[p][1] OBVIOUS
    <3>2. g.id = b /\ g.tp = p /\ g.res = "none" BY <3>1, <3>b
    <3>3. p \in Partition /\ 1 \in 1 .. Len(dq[p]) /\ b \in All /\ IsDrained(ps, b)
          /\ batch[b].tp = p /\ batch[b].final = "none"
      BY <3>b, <1>4, <1>t DEF IsDrained
    <3>4. batch'[b].recs = batch[b].recs /\ batch'[b].attempts = batch[b].attempts
      BY <3>3, <1>5
    <3>5. CASE batch[b].attempts = 0
      <4>1. batch'[b].pid = pid /\ batch'[b].seq = seqno[p] BY <3>3, <3>5, <1>5
      <4>2. Unwritten(log[p], batch[b].recs) BY <3>3, <3>5, <3>b, <1>9
      <4>3. Fits(Num(p), seqno[p])
        <5>1. \A f \in flight : f.tp # p BY <3>3, <1>1, <1>m
        <5>2. batch[dq[p][1]].attempts = 0 BY <3>5, <3>b
        <5> QED BY <5>1, <5>2, <3>3, <1>1 DEF Steady, NInv, AtRest, Rests
      <4>4. Trace(log[p], Num(p), seqno[p], batch'[b]) BY <4>1, <4>2, <4>3, <3>4 DEF Trace
      <4> QED BY <4>1, <4>2, <4>4, <3>2, <3>4, <3>5, <1>1 DEF Answer
    <3>6. CASE batch[b].attempts # 0
      <4>1. /\ batch[b].pid = pid /\ b > horizon
            /\ Trace(log[p], Num(p), seqno[p], batch[b])
        BY <3>3, <3>6, <3>b, <1>9
      <4>2. batch'[b].pid = pid /\ batch'[b].seq = batch[b].seq BY <3>3, <3>6, <4>1, <1>5
      <4>3. batch'[b].final = "none" BY <3>3, <3>6, <1>0, <1>5
      <4>4. Trace(log[p], Num(p), seqno[p], batch'[b]) BY <4>1, <4>2, <3>4 DEF Trace, Written
      <4> QED BY <4>1, <4>2, <4>3, <4>4, <3>2, <3>4, <3>6, <1>1 DEF Answer
    <3> QED BY <3>5, <3>6
  <2> QED BY <2>1, <2>2, <1>1
<1>12. Rising' BY <1>1 DEF Steady, NInv, Rising, Rises
<1>13. AtRest'
  <2> SUFFICES ASSUME NEW p \in Partition, \A f \in flight' : f.tp # p,
                      dq'[p] = <<>> \/ batch'[dq'[p][1]].attempts = 0
               PROVE  Fits(Num(p), seqno[p])
    BY <1>1, <1>2 DEF AtRest, Rests
  <2>1. p \notin ps
    <3> SUFFICES ASSUME p \in ps PROVE FALSE OBVIOUS
    <3>1. PICK g : g = [id |-> dq[p][1], tp |-> p, res |-> "none", base |-> 0] OBVIOUS
    <3>2. g.tp = p /\ g \in flight' BY <3>1, <1>1
    <3> QED BY <3>2
  <2>2. \A f \in flight : f.tp # p BY <1>1
  <2>3. CASE dq[p] = <<>> \/ batch[dq[p][1]].attempts = 0
    BY <2>2, <2>3, <1>1 DEF Steady, NInv, AtRest, Rests
  <2>4. CASE ~(dq[p] = <<>> \/ batch[dq[p][1]].attempts = 0)
    <3>1. dq[p] \in Seq(Nat) /\ dq[p] # <<>> BY <2>4, Typed DEF Steady, SInv
    <3>2. Len(dq[p]) \in Nat /\ Len(dq[p]) > 0 /\ 1 \in 1 .. Len(dq[p]) BY <3>1, EmptySeq, <1>3
    <3>3. dq[p][1] \notin gone BY <2>4, <1>0
    <3>4. cut[p] = 0
      <4>1. 1 <= cut[p] => dq[p][1] \in gone \/ p \in ps BY <3>2 DEF Swept
      <4> QED BY <4>1, <3>3, <2>1, <1>3
    <3>5. Len(dq'[p]) = Len(dq[p]) /\ 1 \in 1 .. Len(dq'[p]) BY <3>2, <3>4, <1>3
    <3>6. dq'[p][1] = dq[p][1]
      <4>1. PICK k \in 1 .. Len(dq[p]) : k = 1 + cut[p] /\ dq'[p][1] = dq[p][k] BY <3>5, <1>3
      <4> QED BY <4>1, <3>4
    <3>7. batch'[dq'[p][1]].attempts # 0 BY <3>2, <3>6, <2>4, <1>5, <1>t
    <3>8. dq'[p] # <<>>
      <4>1. Len(<<>>) = 0 OBVIOUS
      <4> QED BY <4>1, <3>2, <3>5
    <3> QED BY <3>7, <3>8
  <2> QED BY <2>3, <2>4
<1> QED BY <1>8, <1>10, <1>11, <1>12, <1>13 DEF NInv

\* What the numbers mean, of one partition.
Traced(p) ==
  /\ \A i \in 1 .. Len(dq[p]) : Waits(p, i)
  /\ \A f \in flight : f.tp = p =>
       Answer(f, batch[f.id], log[p], Num(p), seqno[p], pid, horizon)
  /\ Rises(p) /\ (Runs => Rests(p))

LEMMA TracedNow ==
  ASSUME NInv
  PROVE  OneId /\ \A p \in Partition : Traced(p)
BY DEF NInv, QueueTrace, FlightTrace, Rising, AtRest, Traced

LEMMA TracedNext ==
  ASSUME Types', OneId', \A p \in Partition : Traced(p)'
  PROVE  NInv'
<1>1. \A f \in flight' : f.tp \in Partition BY DEF Types, RequestRec
<1>2. QueueTrace' /\ Rising' /\ AtRest' BY DEF QueueTrace, Rising, AtRest, Traced
<1>3. FlightTrace' BY <1>1 DEF FlightTrace, Traced
<1> QED BY <1>2, <1>3 DEF NInv

\* A step of another partition.
Elsewhere(p) ==
  /\ dq'[p] = dq[p] /\ log'[p] = log[p] /\ Num(p)' = Num(p) /\ seqno'[p] = seqno[p]
  /\ pid' = pid /\ horizon' = horizon /\ (Runs' => Runs)
  /\ \A g : g.tp = p => (g \in flight' <=> g \in flight)
  /\ \A b \in All : batch[b].tp = p => batch'[b] = batch[b]

LEMMA ElsewhereKeeps ==
  ASSUME Steady, NEW p \in Partition, Elsewhere(p)
  PROVE  Traced(p)'
<1>t. /\ \A f \in flight : f.id \in All /\ batch[f.id].tp = f.tp
      /\ \A i \in 1 .. Len(dq[p]) : dq[p][i] \in All /\ batch[dq[p][i]].tp = p
  BY TraceTyped DEF Steady
<1>0. Traced(p) BY TracedNow DEF Steady
<1>1. /\ dq'[p] = dq[p] /\ log'[p] = log[p] /\ Num(p)' = Num(p) /\ seqno'[p] = seqno[p]
      /\ pid' = pid /\ horizon' = horizon /\ (Runs' => Runs)
      /\ \A g : g.tp = p => (g \in flight' <=> g \in flight)
      /\ \A i \in 1 .. Len(dq[p]) : batch'[dq[p][i]] = batch[dq[p][i]]
      /\ \A f \in flight : f.tp = p => batch'[f.id] = batch[f.id]
  BY <1>t DEF Elsewhere
<1>2. (\A f \in flight : f.tp # p) <=> \A f \in flight' : f.tp # p BY <1>1
<1>3. \A i \in 1 .. Len(dq'[p]) : Waits(p, i)' BY <1>0, <1>1, <1>2 DEF Traced, Waits
<1>4. \A f \in flight' : f.tp = p =>
        Answer(f, batch'[f.id], log'[p], Num(p)', seqno'[p], pid', horizon')
  BY <1>0, <1>1 DEF Traced
<1>5. Rises(p)' BY <1>0, <1>1 DEF Traced, Rises
<1>6. Runs' => Rests(p)'
  <2> SUFFICES ASSUME Runs', \A f \in flight' : f.tp # p,
                      dq'[p] = <<>> \/ batch'[dq'[p][1]].attempts = 0
               PROVE  Fits(Num(p)', seqno'[p])
    BY DEF Rests
  <2>1. dq[p] = <<>> \/ batch[dq[p][1]].attempts = 0
    <3> SUFFICES ASSUME dq[p] # <<>> PROVE batch[dq[p][1]].attempts = 0 OBVIOUS
    <3>1. dq[p] \in Seq(Nat) BY Typed DEF Steady, SInv
    <3>2. Len(dq[p]) \in Nat /\ Len(dq[p]) > 0 BY <3>1, EmptySeq
    <3>3. 1 \in 1 .. Len(dq[p]) BY <3>2
    <3> QED BY <3>3, <1>1
  <2> QED BY <2>1, <1>0, <1>1, <1>2 DEF Traced, Rests
<1> QED BY <1>3, <1>4, <1>5, <1>6 DEF Traced

\* What the end of a request does to the numbers.
CountsAs(f) ==
  /\ pid' = pid /\ \A p \in Partition : p # f.tp => seqno'[p] = seqno[p]
  /\ \/ f.res = "ok" /\ seqno'[f.tp] = seqno[f.tp] + Len(batch[f.id].recs)
     \/ f.res = "unknown_producer" /\ seqno'[f.tp] = 0
     \/ f.res \in {"retriable", "fatal", "lost"} /\ ~CanRetry(f.id, f.res) /\ seqno'[f.tp] = seqno[f.tp]

LEMMA CompleteAs ==
  ASSUME Steady, NEW f \in flight, Complete(f)
  PROVE  (Again(f) /\ CanRetry(f.id, f.res)) \/ (Over(f) /\ CountsAs(f))
<1>t. f.id \in All /\ f.tp \in Partition /\ batch[f.id].tp = f.tp BY TraceTyped DEF Steady
<1>s. seqno \in [Partition -> Nat] /\ f.res \in Results BY Typed DEF Steady, SInv, Types
<1>0. Again(f) \/ Over(f) BY CompleteIs DEF Steady
<1>a. Answer(f, batch[f.id], log[f.tp], Num(f.tp), seqno[f.tp], pid, horizon)
  BY DEF Steady, NInv, FlightTrace
<1>1. pid = batch[f.id].pid /\ f.res # "out_of_order" BY <1>a DEF Answer
<1>2. Again(f) => dq' # dq
  <2> SUFFICES ASSUME Again(f), dq' = dq PROVE FALSE OBVIOUS
  <2>1. Len(dq'[f.tp]) = Len(dq[f.tp]) + 1 BY DEF Again, Prepended
  <2>2. Len(dq[f.tp]) \in Nat BY <1>t, Typed DEF Steady, SInv
  <2> QED BY <2>1, <2>2
<1>3. CASE CompleteError(f) /\ CanRetry(f.id, f.res)
  <2>1. Reenqueue(f.id) BY <1>1, <1>3 DEF CompleteError
  <2>2. Again(f)
    <3> SUFFICES ASSUME Over(f) PROVE FALSE BY <1>0
    <3>1. dq' = dq BY DEF Over
    <3>2. dq \in [Partition -> Seq(Nat)] BY DEF Steady, SInv, Types
    <3>3. f.id \in Nat BY <1>t, TraceTyped DEF Steady
    <3>4. dq' = [dq EXCEPT ![f.tp] = <<f.id>> \o @] BY <2>1, <1>t DEF Reenqueue
    <3>5. Prepended(dq, dq', f.tp, f.id)
      <4>1. Prepended(dq, [dq EXCEPT ![f.tp] = <<f.id>> \o @], f.tp, f.id)
        BY <1>t, <3>2, <3>3, PrependIs
      <4> QED BY <3>4, <4>1
    <3>6. Len(dq'[f.tp]) = Len(dq[f.tp]) + 1 BY <3>5 DEF Prepended
    <3>7. Len(dq[f.tp]) \in Nat BY <1>t, Typed DEF Steady, SInv
    <3> QED BY <3>1, <3>6, <3>7
  <2> QED BY <2>2, <1>3
<1>4. CASE CompleteError(f) /\ ~CanRetry(f.id, f.res)
  <2>1. dq' = dq /\ FailIds(f.id, f.res) /\ f.res \notin {"none", "ok"}
    BY <1>4 DEF CompleteError
  <2>2. Over(f) BY <2>1, <1>0, <1>2
  <2>3. CASE f.res = "unknown_producer"
    <3>1. seqno' = [seqno EXCEPT ![f.tp] = 0] /\ pid' = pid
      BY <2>1, <2>3, <1>t DEF FailIds, Steady
    <3> QED BY <3>1, <2>2, <2>3, <1>s, <1>t DEF CountsAs
  <2>4. CASE f.res # "unknown_producer"
    <3>1. seqno' = seqno /\ pid' = pid BY <2>1, <2>4, <1>1 DEF FailIds, ids
    <3>2. f.res \in {"retriable", "fatal", "lost"} BY <2>1, <2>4, <1>1, <1>s DEF Results
    <3> QED BY <3>1, <3>2, <2>2, <1>4 DEF CountsAs
  <2> QED BY <2>3, <2>4
<1>5. CASE CompleteOk(f)
  <2>1. /\ dq' = dq /\ f.res = "ok" /\ pid' = pid
        /\ seqno' = [seqno EXCEPT ![f.tp] = @ + Len(batch[f.id].recs)]
    BY <1>5, <1>1 DEF CompleteOk, Records, Steady
  <2>2. Over(f) BY <2>1, <1>0, <1>2
  <2>3. seqno'[f.tp] = seqno[f.tp] + Len(batch[f.id].recs)
        /\ \A p \in Partition : p # f.tp => seqno'[p] = seqno[p]
    BY <2>1, <1>s, <1>t
  <2> QED BY <2>1, <2>2, <2>3 DEF CountsAs
<1> QED BY <1>3, <1>4, <1>5 DEF Complete

\* A request leaves: what that is for the other partitions.
LEMMA LeavesElsewhere ==
  ASSUME Steady, NEW f \in flight, flight' = flight \ {f}, Framed(batch, batch'),
         \A b \in All : b # f.id => batch'[b] = batch[b],
         \A p \in Partition : p # f.tp => dq'[p] = dq[p] /\ seqno'[p] = seqno[p],
         UNCHANGED <<log, known, pid, horizon, life>>,
         NEW p \in Partition, p # f.tp
  PROVE  Traced(p)'
<1>1. batch[f.id].tp = f.tp BY TraceTyped DEF Steady
<1>2. Num(p)' = Num(p) /\ Runs' = Runs BY DEF Num, Numbers, Runs
<1>3. \A g : g.tp = p => (g \in flight' <=> g \in flight) OBVIOUS
<1>4. Elsewhere(p) BY <1>1, <1>2, <1>3 DEF Elsewhere
<1> QED BY <1>4, ElsewhereKeeps

LEMMA NAgain ==
  ASSUME Steady, NEW f \in flight, Again(f), CanRetry(f.id, f.res), life' = life
  PROVE  OneId' /\ \A p \in Partition : Traced(p)'
<1>t. /\ f.id \in All /\ f.tp \in Partition /\ batch[f.id].tp = f.tp /\ batch[f.id].closed
      /\ ~In(dq[f.tp], f.id) /\ batch[f.id].attempts \in Nat
      /\ \A i \in 1 .. Len(dq[f.tp]) : dq[f.tp][i] \in All
  BY TraceTyped DEF Steady
<1>1. /\ Retried(batch, batch', f.id) /\ Prepended(dq, dq', f.tp, f.id) /\ flight' = flight \ {f}
      /\ UNCHANGED <<log, known, horizon, pid, seqno>>
  BY DEF Again
<1>2. /\ All' = All /\ \A b \in All : b # f.id => batch'[b] = batch[b]
      /\ batch'[f.id].recs = batch[f.id].recs /\ batch'[f.id].attempts = batch[f.id].attempts + 1
      /\ batch'[f.id].pid = batch[f.id].pid /\ batch'[f.id].seq = batch[f.id].seq
      /\ batch'[f.id].closed
  BY <1>1, <1>t DEF Retried, All
<1>3. /\ \A i \in 1 .. Len(dq'[f.tp]) :
           \/ i = 1 /\ dq'[f.tp][i] = f.id
           \/ i - 1 \in 1 .. Len(dq[f.tp]) /\ dq'[f.tp][i] = dq[f.tp][i - 1]
      /\ Len(dq'[f.tp]) = Len(dq[f.tp]) + 1 /\ Len(dq[f.tp]) \in Nat /\ dq'[f.tp][1] = f.id
      /\ \A q \in Partition : q # f.tp => dq'[q] = dq[q]
  BY <1>1, <1>t, PrependedAt DEF Steady, SInv
<1>4. OneId'
  <2>1. \A b \in All : batch'[b].pid = batch[b].pid BY <1>2
  <2> QED BY <2>1, <1>1, <1>2 DEF Steady, NInv, OneId
<1>5. ASSUME NEW p \in Partition, p # f.tp PROVE Traced(p)'
  <2>1. Framed(batch, batch') BY <1>1, <1>t, RetriedFrames DEF All
  <2> QED BY <2>1, <1>1, <1>2, <1>3, <1>5, LeavesElsewhere
<1>n. Num(f.tp)' = Num(f.tp) /\ Runs' = Runs BY <1>1 DEF Num, Numbers, Runs
<1>a. Answer(f, batch[f.id], log[f.tp], Num(f.tp), seqno[f.tp], pid, horizon)
  BY DEF Steady, NInv, FlightTrace
<1>b. f.id > horizon /\ f.res \in {"lost", "retriable"} BY DEF CanRetry
<1>6. \A g \in flight' : g.tp # f.tp BY <1>1, OneOfPartition
<1>7. ASSUME NEW i \in 1 .. Len(dq'[f.tp]) PROVE Waits(f.tp, i)'
  <2>1. CASE i = 1 /\ dq'[f.tp][i] = f.id
    <3>1. Trace(log[f.tp], Num(f.tp), seqno[f.tp], batch[f.id]) /\ batch[f.id].pid = pid /\ pid # 0
      BY <1>a, <1>b DEF Answer
    <3>2. Trace(log[f.tp], Num(f.tp), seqno[f.tp], batch'[f.id])
      BY <3>1, <1>2 DEF Trace, Written
    <3>3. batch'[f.id].attempts # 0 BY <1>2, <1>t
    <3> QED BY <2>1, <3>1, <3>2, <3>3, <1>1, <1>2, <1>6, <1>b, <1>n DEF Waits
  <2>2. CASE i - 1 \in 1 .. Len(dq[f.tp]) /\ dq'[f.tp][i] = dq[f.tp][i - 1]
    <3>j. PICK j \in 1 .. Len(dq[f.tp]) : dq'[f.tp][i] = dq[f.tp][j] BY <2>2
    <3>1. dq[f.tp][j] # f.id BY <1>t DEF In
    <3>2. batch'[dq[f.tp][j]] = batch[dq[f.tp][j]] BY <3>1, <1>2, <1>t
    <3>3. batch[dq[f.tp][j]].attempts = 0 BY OneOfPartition
    <3>4. Waits(f.tp, j) BY <1>t DEF Steady, NInv, QueueTrace
    <3> QED BY <3>j, <3>2, <3>3, <3>4, <1>1 DEF Waits
  <2> QED BY <2>1, <2>2, <1>3
<1>8. Rises(f.tp)' BY <1>1, <1>t DEF Steady, NInv, Rising, Rises
<1>9. Rests(f.tp)'
  <2>1. dq'[f.tp] # <<>>
    <3>1. Len(<<>>) = 0 OBVIOUS
    <3> QED BY <3>1, <1>3
  <2>2. batch'[dq'[f.tp][1]].attempts # 0 BY <1>2, <1>3, <1>t
  <2> QED BY <2>1, <2>2 DEF Rests
<1>10. Traced(f.tp)' BY <1>6, <1>7, <1>8, <1>9 DEF Traced
<1> QED BY <1>4, <1>5, <1>10

LEMMA NOver ==
  ASSUME Steady, NEW f \in flight, Over(f), CountsAs(f), life' = life
  PROVE  OneId' /\ \A p \in Partition : Traced(p)'
<1>t. /\ f.id \in All /\ f.tp \in Partition /\ ~In(dq[f.tp], f.id) /\ f.id \in Nat
      /\ \A i \in 1 .. Len(dq[f.tp]) : dq[f.tp][i] \in All
      /\ batch[f.id].attempts \in Nat /\ Len(batch[f.id].recs) \in Nat
      /\ Len(batch[f.id].recs) >= 1 /\ Len(log[f.tp]) \in Nat /\ Num(f.tp) \in NumberRec
      /\ seqno[f.tp] \in Nat /\ Fresh.next = 0
  BY TraceTyped DEF Steady
<1>1. /\ flight' = flight \ {f} /\ UNCHANGED <<dq, log, known, horizon>> /\ pid' = pid
      /\ \A p \in Partition : p # f.tp => seqno'[p] = seqno[p]
  BY DEF Over, CountsAs
<1>2. /\ All' = All /\ Framed(batch, batch')
      /\ \A b \in All : b # f.id => batch'[b] = batch[b]
      /\ \A b \in All : batch'[b].pid = batch[b].pid
  <2>1. CASE batch' = batch
    <3>1. batch \in Seq(BatchRec) BY DEF Steady, SInv, Types
    <3> QED BY <2>1, <3>1 DEF All, Framed
  <2>2. CASE ~(batch' = batch)
    <3>1. PICK final, base : Ended(batch, batch', f.id, final, base, batch[f.id].closed)
      BY <2>2 DEF Over
    <3>2. All' = All /\ \A b \in All : b # f.id => batch'[b] = batch[b]
      BY <3>1 DEF Ended, All
    <3>3. \A b \in All : batch'[b].pid = batch[b].pid BY <3>1, <3>2 DEF Ended
    <3>4. Framed(batch, batch')
      <4>1. \A b \in 1 .. Len(batch) :
              /\ batch'[b].tp = batch[b].tp /\ batch'[b].recs = batch[b].recs
              /\ batch'[b].closed = batch[b].closed
              /\ batch'[b].attempts = batch[b].attempts /\ batch'[b].pid = batch[b].pid
        BY <3>1 DEF Ended
      <4> QED BY <4>1, <3>1 DEF Ended, Framed
    <3> QED BY <3>2, <3>3, <3>4
  <2> QED BY <2>1, <2>2
<1>3. OneId' BY <1>1, <1>2 DEF Steady, NInv, OneId
<1>4. ASSUME NEW p \in Partition, p # f.tp PROVE Traced(p)'
  BY <1>1, <1>2, <1>4, LeavesElsewhere
<1>n. Num(f.tp)' = Num(f.tp) /\ Runs' = Runs BY <1>1 DEF Num, Numbers, Runs
<1>a. Answer(f, batch[f.id], log[f.tp], Num(f.tp), seqno[f.tp], pid, horizon)
  BY DEF Steady, NInv, FlightTrace
<1>5. \A g \in flight' : g.tp # f.tp BY <1>1, OneOfPartition
<1>6. ASSUME NEW i \in 1 .. Len(dq[f.tp]) PROVE Waits(f.tp, i)'
  <2>1. dq[f.tp][i] # f.id BY <1>t DEF In
  <2>2. batch'[dq[f.tp][i]] = batch[dq[f.tp][i]] BY <2>1, <1>2, <1>t
  <2>3. batch[dq[f.tp][i]].attempts = 0 BY OneOfPartition
  <2>4. Waits(f.tp, i) BY <1>t DEF Steady, NInv, QueueTrace
  <2> QED BY <2>2, <2>3, <2>4, <1>1 DEF Waits
<1>7. Rises(f.tp)' BY <1>1, <1>t DEF Steady, NInv, Rising, Rises
<1>8. Fits(Num(f.tp), seqno'[f.tp])
  <2>1. CASE f.res = "ok" /\ seqno'[f.tp] = seqno[f.tp] + Len(batch[f.id].recs)
    <3>1. batch[f.id].seq = seqno[f.tp]
          /\ (Written(log[f.tp], Num(f.tp), batch[f.id]) \/ Num(f.tp) = Fresh)
      BY <2>1, <1>a DEF Answer
    <3> QED BY <2>1, <3>1 DEF Written, Fits
  <2>2. CASE f.res = "unknown_producer" BY <2>2, <1>a DEF Answer, Fits
  <2>3. CASE f.res \in {"retriable", "fatal", "lost"} /\ ~CanRetry(f.id, f.res)
             /\ seqno'[f.tp] = seqno[f.tp]
    <3>1. f.res = "fatal" => Fits(Num(f.tp), seqno[f.tp]) BY <1>a DEF Answer
    <3>2. f.res # "lost" BY <2>3, <1>a DEF Answer, CanRetry, Done
    <3>3. f.res = "retriable" => batch[f.id].attempts = 0
      BY <2>3, <1>a DEF Answer, CanRetry, Done
    <3>4. f.res = "retriable" => Fits(Num(f.tp), seqno[f.tp])
      <4> SUFFICES ASSUME f.res = "retriable" PROVE Fits(Num(f.tp), seqno[f.tp]) OBVIOUS
      <4>1. /\ Unwritten(log[f.tp], batch[f.id].recs)
            /\ Trace(log[f.tp], Num(f.tp), seqno[f.tp], batch[f.id])
        BY <3>3, <1>a DEF Answer
      <4>2. ~Written(log[f.tp], Num(f.tp), batch[f.id]) BY <4>1, <1>t, WrittenIsThere
      <4> QED BY <4>1, <4>2 DEF Trace
    <3> QED BY <2>3, <3>1, <3>2, <3>4
  <2> QED BY <2>1, <2>2, <2>3 DEF CountsAs
<1>9. Rests(f.tp)' BY <1>8, <1>n DEF Rests
<1>10. Traced(f.tp)' BY <1>1, <1>5, <1>6, <1>7, <1>9 DEF Traced
<1> QED BY <1>3, <1>4, <1>10

\* A request has another answer: what that is for the partition.
LEMMA NAnswered ==
  ASSUME Steady, NEW f \in flight, NEW g, g.id = f.id, g.tp = f.tp,
         flight' = (flight \ {f}) \cup {g},
         UNCHANGED <<batch, dq, log, known, pid, seqno, horizon, life>>,
         Answer(g, batch[f.id], log[f.tp], Num(f.tp), seqno[f.tp], pid, horizon)
  PROVE  OneId' /\ \A p \in Partition : Traced(p)'
<1>t. f.tp \in Partition BY TraceTyped DEF Steady
<1>1. /\ All' = All /\ Runs' = Runs /\ \A p \in Partition : Num(p)' = Num(p)
  BY DEF All, Runs, Num, Numbers
<1>2. OneId' BY <1>1 DEF Steady, NInv, OneId
<1>3. ASSUME NEW p \in Partition, p # f.tp PROVE Traced(p)'
  <2>1. \A h : h.tp = p => (h \in flight' <=> h \in flight) BY <1>3
  <2>2. Elsewhere(p) BY <2>1, <1>1 DEF Elsewhere
  <2> QED BY <2>2, ElsewhereKeeps
<1>4. \A h \in flight' : h.tp = f.tp => h = g BY OneOfPartition
<1>5. ASSUME NEW i \in 1 .. Len(dq[f.tp]) PROVE Waits(f.tp, i)'
  <2>1. batch[dq[f.tp][i]].attempts = 0 BY OneOfPartition
  <2>2. Waits(f.tp, i) BY <1>t DEF Steady, NInv, QueueTrace
  <2> QED BY <2>1, <2>2 DEF Waits
<1>6. Rises(f.tp)' BY <1>t DEF Steady, NInv, Rising, Rises
<1>7. \A h \in flight' : h.tp = f.tp =>
        Answer(h, batch'[h.id], log'[f.tp], Num(f.tp)', seqno'[f.tp], pid', horizon')
  BY <1>1, <1>4, <1>t
<1>8. Rests(f.tp)'
  <2>1. g \in flight' /\ g.tp = f.tp OBVIOUS
  <2> QED BY <2>1 DEF Rests
<1>9. Traced(f.tp)' BY <1>5, <1>6, <1>7, <1>8 DEF Traced
<1> QED BY <1>2, <1>3, <1>9

\* The broker says the truth: it refuses no number that the code is right about.
LEMMA NTold ==
  ASSUME Steady, NEW f \in flight, f.res = "none", NEW g, AppendsAs(f, g), Told(f, g),
         Still, horizon' = horizon
  PROVE  /\ OneId' /\ \A p \in Partition : Traced(p)'
         /\ g.res = "ok" => LiesAt(log[f.tp], g.base, batch[f.id].recs)
<1> DEFINE b == batch[f.id]
           n == Num(f.tp)
           l == log[f.tp]
<1>t. /\ f.id \in All /\ f.tp \in Partition /\ Len(b.recs) \in Nat /\ b.seq \in Nat
      /\ Len(b.recs) >= 1 /\ Len(l) \in Nat /\ n \in NumberRec /\ n.next \in Nat
      /\ seqno[f.tp] \in Nat /\ Fresh.next = 0
  BY TraceTyped DEF Steady
<1>a. Answer(f, b, l, n, seqno[f.tp], pid, horizon) BY DEF Steady, NInv, FlightTrace
<1>1. b.pid = pid /\ pid # 0 /\ b.seq = seqno[f.tp]
      /\ (Written(l, n, b) \/ (Unwritten(l, b.recs) /\ Fits(n, b.seq)))
      /\ (b.attempts # 0 => b.final = "none" /\ f.id > horizon)
  BY <1>a DEF Answer, Trace
<1>2. /\ b.seq # n.next /\ g.id = f.id /\ g.tp = f.tp /\ flight' = (flight \ {f}) \cup {g}
      /\ UNCHANGED <<batch, dq, log, known, pid, seqno, life>>
      /\ \/ b.seq = n.first /\ b.seq + Len(b.recs) = n.next /\ g.res = "ok" /\ g.base = n.base
         \/ n = Fresh /\ g.res = "unknown_producer"
         \/ n # Fresh /\ g.res = "out_of_order" /\ ~(b.seq = n.first /\ b.seq + Len(b.recs) = n.next)
  <2>1. n = Numbers(f.tp, b.pid) BY <1>1 DEF Num
  <2>2. b.seq = n.next => FALSE
    <3> SUFFICES ASSUME b.seq = n.next PROVE FALSE OBVIOUS
    <3>1. Taken(f, g) BY <2>1 DEF AppendsAs
    <3>2. Len(log'[f.tp]) = Len(l) + Len(b.recs) BY <3>1 DEF Taken, Grown
    <3>3. Len(log'[f.tp]) = Len(l) BY DEF Told
    <3>4. PICK v, m : v = Len(l) /\ m = Len(b.recs) OBVIOUS
    <3>5. v \in Nat /\ m \in Nat /\ m >= 1 /\ v = v + m BY <3>2, <3>3, <3>4, <1>t
    <3> QED BY <3>5
  <2>3. g.id = f.id /\ g.tp = f.tp /\ flight' = (flight \ {f}) \cup {g}
        /\ UNCHANGED <<batch, dq, log, known, pid, seqno, life>>
    BY DEF Told, Still
  <2> QED BY <2>1, <2>2, <2>3 DEF AppendsAs, Steady
<1> HIDE DEF b, n, l
<1>3. CASE b.seq = n.first /\ b.seq + Len(b.recs) = n.next /\ g.res = "ok" /\ g.base = n.base
  <2>1. ~Fits(n, b.seq) BY <1>2, <1>3, <1>t DEF Fits
  <2>2. Written(l, n, b) BY <2>1, <1>1
  <2>3. LiesAt(l, g.base, b.recs) BY <2>2, <1>3 DEF Written
  <2>4. Answer(g, b, l, n, seqno[f.tp], pid, horizon) BY <2>2, <1>1, <1>2, <1>3 DEF Answer
  <2>5. OneId' /\ \A p \in Partition : Traced(p)' BY <2>4, <1>2, NAnswered DEF b, l, n
  <2> QED BY <2>3, <2>5 DEF b, l
<1>4. CASE n = Fresh /\ g.res = "unknown_producer"
  <2>1. ~Written(l, n, b) BY <1>4, <1>t DEF Written
  <2>2. Answer(g, b, l, n, seqno[f.tp], pid, horizon) BY <2>1, <1>1, <1>2, <1>4 DEF Answer
  <2>3. OneId' /\ \A p \in Partition : Traced(p)' BY <2>2, <1>2, NAnswered DEF b, l, n
  <2> QED BY <2>3, <1>4
<1>5. CASE n # Fresh /\ ~(b.seq = n.first /\ b.seq + Len(b.recs) = n.next)
  <2>1. ~Fits(n, b.seq) BY <1>2, <1>5 DEF Fits
  <2>2. ~Written(l, n, b) BY <1>5 DEF Written
  <2> QED BY <2>1, <2>2, <1>1
<1> QED BY <1>2, <1>3, <1>4, <1>5

LEMMA NTaken ==
  ASSUME Steady, NEW f \in flight, f.res = "none", NEW g, AppendsAs(f, g), Taken(f, g),
         Still, horizon' = horizon
  PROVE  OneId' /\ \A p \in Partition : Traced(p)'
<1> DEFINE b == batch[f.id]
           n == Num(f.tp)
           l == log[f.tp]
<1>t. /\ f.id \in All /\ f.id \in Nat /\ f.tp \in Partition /\ Len(b.recs) \in Nat /\ b.seq \in Nat
      /\ Len(b.recs) >= 1 /\ Len(l) \in Nat /\ n \in NumberRec /\ n.next \in Nat
      /\ seqno[f.tp] \in Nat /\ ~In(dq[f.tp], f.id) /\ b.tp = f.tp
      /\ \A i \in 1 .. Len(dq[f.tp]) : dq[f.tp][i] \in All
  BY TraceTyped DEF Steady
<1>a. Answer(f, b, l, n, seqno[f.tp], pid, horizon) BY DEF Steady, NInv, FlightTrace
<1>1. b.pid = pid /\ pid # 0 /\ b.seq = seqno[f.tp]
      /\ (Written(l, n, b) \/ (Unwritten(l, b.recs) /\ Fits(n, b.seq)))
      /\ (b.attempts # 0 => b.final = "none" /\ f.id > horizon)
  BY <1>a DEF Answer, Trace
<1>2. /\ Grown(log, log', f.tp, b.recs)
      /\ Numbered(known, known', f.tp, pid,
                  [first |-> b.seq, next |-> b.seq + Len(b.recs), base |-> Len(l)])
      /\ g.id = f.id /\ g.tp = f.tp /\ g.res = "ok" /\ g.base = Len(l)
      /\ flight' = (flight \ {f}) \cup {g}
  BY <1>1 DEF Taken, Steady
<1>3. UNCHANGED <<batch, dq, pid, seqno, life, horizon>> /\ All' = All /\ Runs' = Runs
  BY DEF Still, All, Runs
<1>k. PICK k : k = [first |-> b.seq, next |-> b.seq + Len(b.recs), base |-> Len(l)] OBVIOUS
<1>m. PICK m : m = Len(b.recs) OBVIOUS
<1>4. b.seq = n.next
  <2>1. n = Numbers(f.tp, b.pid) BY <1>1 DEF Num
  <2> SUFFICES ASSUME b.seq # n.next PROVE FALSE OBVIOUS
  <2>2. Told(f, g) BY <2>1 DEF AppendsAs, Steady
  <2>3. Len(log'[f.tp]) = Len(l) BY <2>2 DEF Told
  <2>4. Len(log'[f.tp]) = Len(l) + Len(b.recs) BY <1>2 DEF Grown
  <2>5. PICK v : v = Len(l) OBVIOUS
  <2>6. v \in Nat /\ m \in Nat /\ m >= 1 /\ v = v + m BY <2>3, <2>4, <2>5, <1>m, <1>t
  <2> QED BY <2>6
<1>5. /\ Numbered(known, known', f.tp, pid, k) /\ k.first = b.seq /\ k.next = b.seq + m
      /\ k.base = Len(l) /\ m \in Nat
  BY <1>2, <1>k, <1>m, <1>t
<1> HIDE DEF b, n, l
<1>6. Unwritten(l, b.recs)
  <2>1. ~Written(l, n, b) BY <1>4, <1>t DEF Written
  <2> QED BY <2>1, <1>1
<1>7. Num(f.tp)' = k
  <2>1. pid \in DOMAIN known'[f.tp] /\ known'[f.tp][pid] = k BY <1>5 DEF Numbered
  <2> QED BY <2>1, <1>3 DEF Num, Numbers
<1>8. OneId'
  <2>1. \A p \in Partition : \A id \in DOMAIN known'[p] : id = pid /\ pid # 0
    <3>1. \A p \in Partition : \A id \in DOMAIN known[p] : id = pid /\ pid # 0
      BY DEF Steady, NInv, OneId
    <3> QED BY <3>1, <1>5, <1>1 DEF Numbered
  <2> QED BY <2>1, <1>3 DEF Steady, NInv, OneId
<1>9. ASSUME NEW p \in Partition, p # f.tp PROVE Traced(p)'
  <2>1. \A h : h.tp = p => (h \in flight' <=> h \in flight) BY <1>2, <1>9
  <2>2. log'[p] = log[p] BY <1>2, <1>9 DEF Grown
  <2>3. Num(p)' = Num(p)
    <3>1. known'[p] = known[p] BY <1>5, <1>9 DEF Numbered
    <3> QED BY <3>1, <1>3 DEF Num, Numbers
  <2>4. Elsewhere(p) BY <2>1, <2>2, <2>3, <1>3 DEF Elsewhere
  <2> QED BY <2>4, ElsewhereKeeps
<1>10. \A h \in flight' : h.tp = f.tp => h = g BY <1>2, OneOfPartition
<1>v. PICK v : v = Len(l) OBVIOUS
<1>11. /\ v \in Nat /\ Len(log'[f.tp]) = v + m
       /\ \A i \in 1 .. v : log'[f.tp][i] = l[i]
       /\ \A j \in 1 .. m : log'[f.tp][v + j] = b.recs[j]
       /\ \A i \in 1 .. v + m : i \in 1 .. v \/ \E j \in 1 .. m : i = v + j
  BY <1>2, <1>t, <1>v, <1>m DEF Grown, l
\* Where the new records are, and that they are of no other batch.
<1>12. ASSUME NEW i \in 1 .. Len(dq[f.tp]) PROVE Waits(f.tp, i)'
  <2>c. PICK c : c = dq[f.tp][i] OBVIOUS
  <2>1. c \in All /\ c # f.id BY <2>c, <1>t DEF In
  <2>2. batch[c].attempts = 0 BY <2>c, OneOfPartition
  <2>3. batch[c].pid = 0 /\ Unwritten(l, batch[c].recs)
    <3>1. Waits(f.tp, i) BY <1>t DEF Steady, NInv, QueueTrace
    <3> QED BY <3>1, <2>c, <2>2 DEF Waits, l
  <2>4. ASSUME NEW j \in 1 .. v + m, NEW x \in 1 .. Len(batch[c].recs)
        PROVE  log'[f.tp][j] # batch[c].recs[x]
    <3>1. CASE j \in 1 .. v BY <3>1, <2>3, <1>11, <1>v DEF Unwritten
    <3>2. CASE \E y \in 1 .. m : j = v + y
      <4>1. PICK y \in 1 .. m : j = v + y BY <3>2
      <4> SUFFICES ASSUME log'[f.tp][j] = batch[c].recs[x] PROVE FALSE OBVIOUS
      <4>2. batch[c].recs[x] = b.recs[y] BY <4>1, <1>11
      <4>3. In(batch[c].recs, batch[c].recs[x]) /\ In(batch[f.id].recs, batch[c].recs[x])
        BY <4>2, <1>m DEF In, b
      <4> QED BY <4>3, <2>1, <1>t, OneBatch DEF Steady
    <3> QED BY <3>1, <3>2, <1>11
  <2>5. Unwritten(log'[f.tp], batch[c].recs) BY <2>4, <1>11 DEF Unwritten
  <2> QED BY <2>2, <2>3, <2>5, <2>c, <1>3 DEF Waits
<1>13. Written(log'[f.tp], k, b)
  <2>1. ASSUME NEW j \in 1 .. m PROVE v + j <= v + m /\ log'[f.tp][v + j] = b.recs[j]
    BY <1>11, <1>5
  <2>2. LiesAt(log'[f.tp], k.base, b.recs) BY <2>1, <1>5, <1>11, <1>m, <1>v DEF LiesAt
  <2> QED BY <2>2, <1>5, <1>m DEF Written
<1>14. \A h \in flight' : h.tp = f.tp =>
         Answer(h, batch'[h.id], log'[f.tp], Num(f.tp)', seqno'[f.tp], pid', horizon')
  <2>1. Answer(g, b, log'[f.tp], k, seqno[f.tp], pid, horizon)
    BY <1>1, <1>2, <1>13 DEF Answer
  <2> QED BY <2>1, <1>2, <1>3, <1>7, <1>10 DEF b
<1>15. Rises(f.tp)'
  <2> SUFFICES ASSUME NEW i \in 1 .. v + m, NEW j \in 1 .. v + m, i < j
               PROVE  log'[f.tp][i] < log'[f.tp][j]
    BY <1>11 DEF Rises
  <2>0. i \in Nat /\ j \in Nat BY <1>11, <1>5
  <2>1. CASE j \in 1 .. v
    <3>1. i \in 1 .. v BY <2>1, <2>0, <1>11
    <3>2. l[i] < l[j] BY <3>1, <2>1, <1>t, <1>v DEF Steady, NInv, Rising, Rises, l
    <3> QED BY <3>1, <3>2, <2>1, <1>11
  <2>2. CASE i \in 1 .. v /\ \E y \in 1 .. m : j = v + y
    <3>1. PICK y \in 1 .. m : j = v + y BY <2>2
    <3>2. PICK c \in All : batch[c].tp = f.tp /\ In(batch[c].recs, l[i])
      BY <2>2, <1>t, <1>v DEF Steady, SInv, LogIsOfBatches, l
    <3>3. c <= f.id
      <4>1. Ordered BY DEF Steady, Ordered, Idempotent
      <4> QED BY <4>1, <3>2, <2>2, <1>t, <1>v DEF Steady, OInv, LogInOrder, l
    <3>4. PICK x \in 1 .. Len(batch[c].recs) : batch[c].recs[x] = l[i] BY <3>2 DEF In
    <3>5. c # f.id BY <3>4, <2>2, <1>6, <1>v DEF Unwritten, b
    <3>6. c \in Nat BY <3>2, TraceTyped DEF Steady
    <3>7. c < f.id BY <3>3, <3>5, <3>6, <1>t
    <3>8. batch[c].recs[x] < b.recs[y]
      BY <3>2, <3>7, <1>t, <1>m DEF Steady, SInv, Apart, b
    <3> QED BY <3>1, <3>4, <3>8, <2>2, <1>11
  <2>3. CASE (\E x \in 1 .. m : i = v + x) /\ \E y \in 1 .. m : j = v + y
    <3>1. PICK x \in 1 .. m : i = v + x BY <2>3
    <3>2. PICK y \in 1 .. m : j = v + y BY <2>3
    <3>3. x < y BY <3>1, <3>2, <1>11
    <3>4. b.recs[x] < b.recs[y] BY <3>3, <1>t, <1>m DEF Steady, SInv, RecordsHold, b
    <3> QED BY <3>1, <3>2, <3>4, <1>11
  <2>4. CASE (\E x \in 1 .. m : i = v + x) /\ j \in 1 .. v BY <2>1, <2>4
  <2> QED BY <2>1, <2>2, <2>3, <2>4, <1>11
<1>16. Rests(f.tp)'
  <2>1. g \in flight' /\ g.tp = f.tp BY <1>2
  <2> QED BY <2>1 DEF Rests
<1>17. Traced(f.tp)' BY <1>3, <1>12, <1>14, <1>15, <1>16 DEF Traced
<1> QED BY <1>8, <1>9, <1>17

LEMMA NRefused ==
  ASSUME Steady, ~Gap, NEW f \in flight, BrokerRefuses(f)
  PROVE  OneId' /\ \A p \in Partition : Traced(p)'
<1> DEFINE b == batch[f.id]
           n == Num(f.tp)
           l == log[f.tp]
<1>t. /\ f.id \in All /\ f.tp \in Partition /\ Len(b.recs) \in Nat /\ Len(b.recs) >= 1
      /\ Len(l) \in Nat /\ n \in NumberRec
  BY TraceTyped DEF Steady
<1>r. Types /\ RequestsHold BY DEF Steady, SInv
<1>1. PICK error \in {"retriable", "fatal"} : Tracked(f.id, error) /\ Answered(f, error, 0)
  BY DEF BrokerRefuses
<1>2. f.res = "none" /\ UNCHANGED <<batch, dq, log, known, pid, seqno, horizon, life>>
  BY DEF BrokerRefuses, queues, ids, broker
<1>3. error \in Results /\ 0 \in Nat BY DEF Results
<1>4. PICK g \in RequestRec : /\ g.id = f.id /\ g.tp = f.tp /\ g.res = error
                              /\ flight' = (flight \ {f}) \cup {g}
  BY <1>1, <1>2, <1>3, <1>r, AnsweredKeeps
<1>a. Answer(f, b, l, n, seqno[f.tp], pid, horizon) BY DEF Steady, NInv, FlightTrace
<1>5. CanRetry(f.id, error) \/ b.attempts = 0 BY <1>1 DEF Tracked, Steady
<1>6. CanRetry(f.id, error) => b.attempts < Retries /\ error = "retriable" BY <1>1 DEF CanRetry
<1> HIDE DEF b, n, l
<1>7. /\ b.pid = pid /\ pid # 0 /\ (b.attempts # 0 => b.final = "none" /\ f.id > horizon)
      /\ Trace(l, n, seqno[f.tp], b) /\ (b.attempts = 0 => Unwritten(l, b.recs))
  BY <1>a, <1>2 DEF Answer
<1>8. Unwritten(l, b.recs) => b.seq = seqno[f.tp] /\ Fits(n, seqno[f.tp])
  <2>1. Unwritten(l, b.recs) => ~Written(l, n, b) BY <1>t, WrittenIsThere
  <2> QED BY <2>1, <1>7 DEF Trace
<1>9. Answer(g, b, l, n, seqno[f.tp], pid, horizon)
  <2>1. CASE error = "retriable" BY <2>1, <1>4, <1>5, <1>6, <1>7 DEF Answer
  <2>2. CASE error = "fatal" BY <2>2, <1>4, <1>5, <1>6, <1>7, <1>8 DEF Answer
  <2> QED BY <2>1, <2>2
<1> QED BY <1>2, <1>4, <1>9, NAnswered DEF b, n, l

LEMMA NLost ==
  ASSUME Steady, ~Gap, NEW f \in flight, Lose(f)
  PROVE  OneId' /\ \A p \in Partition : Traced(p)'
<1> DEFINE b == batch[f.id]
           n == Num(f.tp)
           l == log[f.tp]
<1>r. Types /\ RequestsHold BY DEF Steady, SInv
<1>1. Tracked(f.id, "lost") /\ Answered(f, "lost", 0) BY DEF Lose
<1>2. f.res \in {"none", "ok"} /\ UNCHANGED <<batch, dq, log, known, pid, seqno, horizon, life>>
  BY DEF Lose, queues, ids, broker
<1>3. "lost" \in Results /\ 0 \in Nat BY DEF Results
<1>4. PICK g \in RequestRec : /\ g.id = f.id /\ g.tp = f.tp /\ g.res = "lost"
                              /\ flight' = (flight \ {f}) \cup {g}
  BY <1>1, <1>2, <1>3, <1>r, AnsweredKeeps
<1>a. Answer(f, b, l, n, seqno[f.tp], pid, horizon) BY DEF Steady, NInv, FlightTrace
<1>5. b.attempts < Retries /\ f.id > horizon /\ b.final = "none"
  BY <1>1 DEF Tracked, CanRetry, Done, Steady
<1> HIDE DEF b, n, l
<1>6. b.pid = pid /\ pid # 0 /\ Trace(l, n, seqno[f.tp], b)
  <2>1. CASE f.res = "none" BY <2>1, <1>a DEF Answer
  <2>2. CASE f.res = "ok" BY <2>2, <1>a, <1>5 DEF Answer, Trace
  <2> QED BY <2>1, <2>2, <1>2
<1>7. Answer(g, b, l, n, seqno[f.tp], pid, horizon) BY <1>4, <1>5, <1>6 DEF Answer
<1> QED BY <1>2, <1>4, <1>7, NAnswered DEF b, n, l

\* A broker forgets what nothing under way depends on.
LEMMA NForgets ==
  ASSUME Steady, NEW p \in Partition, BrokerForgets(p)
  PROVE  OneId' /\ \A q \in Partition : Traced(q)'
<1>t. /\ \A f \in flight : f.id \in All
      /\ \A i \in 1 .. Len(dq[p]) : dq[p][i] \in All /\ batch[dq[p][i]].final = "none"
  BY TraceTyped DEF Steady
<1>1. /\ \A b \in All : batch[b].final # "none" \/ batch[b].pid = 0
      /\ UNCHANGED <<batch, dq, flight, log, pid, seqno, horizon, life>>
  BY DEF BrokerForgets, queues, ids, All, Done
<1>2. /\ \A q \in Partition : q # p => known'[q] = known[q]
      /\ DOMAIN known'[p] = {}
  <2>1. known' = [known EXCEPT ![p] = <<>>] /\ DOMAIN known = Partition
    BY DEF BrokerForgets, Steady, SInv, Types
  <2>2. DOMAIN <<>> = {} OBVIOUS
  <2> QED BY <2>1, <2>2
<1>3. All' = All /\ Runs' = Runs BY <1>1 DEF All, Runs
<1>4. OneId' BY <1>1, <1>2, <1>3 DEF Steady, NInv, OneId
<1>5. ASSUME NEW q \in Partition, q # p PROVE Traced(q)'
  <2>1. Num(q)' = Num(q) BY <1>1, <1>2, <1>5 DEF Num, Numbers
  <2>2. Elsewhere(q) BY <2>1, <1>1, <1>3 DEF Elsewhere
  <2> QED BY <2>2, ElsewhereKeeps
<1>6. Num(p)' = Fresh BY <1>2 DEF Num, Numbers
<1>7. ASSUME NEW i \in 1 .. Len(dq[p]) PROVE Waits(p, i)'
  <2>1. Waits(p, i) BY DEF Steady, NInv, QueueTrace
  <2>2. batch[dq[p][i]].attempts = 0 BY <2>1, <1>1, <1>t DEF Waits
  <2> QED BY <2>1, <2>2, <1>1 DEF Waits
<1>8. ASSUME NEW f \in flight, f.tp = p
      PROVE  Answer(f, batch[f.id], log[p], Fresh, seqno[p], pid, horizon)
  <2>a. Answer(f, batch[f.id], log[p], Num(p), seqno[p], pid, horizon)
    BY <1>8 DEF Steady, NInv, FlightTrace
  <2>b. PICK b : b = batch[f.id] OBVIOUS
  <2>1. b.pid = pid /\ pid # 0 /\ f.res # "out_of_order" BY <2>a, <2>b DEF Answer
  <2>2. b.final # "none" BY <2>b, <2>1, <1>1, <1>t
  <2>3. b.attempts = 0 /\ f.res # "lost" BY <2>a, <2>b, <2>2 DEF Answer
  <2>4. f.res \in {"none", "retriable"} => b.seq = seqno[p] /\ Unwritten(log[p], b.recs)
    BY <2>a, <2>b, <2>3 DEF Answer, Trace
  <2>5. Answer(f, b, log[p], Fresh, seqno[p], pid, horizon)
    BY <2>a, <2>b, <2>1, <2>2, <2>3, <2>4 DEF Answer, Trace, Fits
  <2> QED BY <2>5, <2>b
<1>9. Rises(p)' BY <1>1 DEF Steady, NInv, Rising, Rises
<1>10. Rests(p)' BY <1>6 DEF Rests, Fits
<1>11. Traced(p)' BY <1>1, <1>6, <1>7, <1>8, <1>9, <1>10 DEF Traced
<1> QED BY <1>4, <1>5, <1>11

\* Time passes only for what was not tried again and whose answer is not lost.
LEMMA NTimePasses ==
  ASSUME Steady, ~Gap, NEW b \in 1 .. Len(batch), TimePasses(b)
  PROVE  OneId' /\ \A p \in Partition : Traced(p)'
<1>t. /\ \A f \in flight : f.id \in All /\ f.id \in Nat
      /\ \A p \in Partition : \A i \in 1 .. Len(dq[p]) :
           dq[p][i] \in All /\ dq[p][i] \in Nat /\ batch[dq[p][i]].final = "none"
      /\ Len(batch) \in Nat
  BY TraceTyped, Typed DEF Steady, SInv
<1>1. /\ horizon' = b /\ \A c \in 1 .. b : batch[c].final # "none" \/ batch[c].attempts = 0
      /\ \A f \in flight : f.res # "lost"
      /\ UNCHANGED <<batch, dq, flight, log, known, pid, seqno, life>>
  BY DEF TimePasses, queues, ids, broker, Done, Steady
<1>2. \A c \in All : batch[c].final = "none" /\ batch[c].attempts # 0 => c > b
  <2>1. \A c \in All : c \in 1 .. b \/ c > b BY <1>t DEF All
  <2> QED BY <2>1, <1>1
<1>3. /\ All' = All /\ Runs' = Runs /\ \A p \in Partition : Num(p)' = Num(p)
  BY <1>1 DEF All, Runs, Num, Numbers
<1>4. OneId' BY <1>1, <1>3 DEF Steady, NInv, OneId
<1>5. ASSUME NEW p \in Partition PROVE Traced(p)'
  <2>0. Traced(p) BY TracedNow DEF Steady
  <2>1. ASSUME NEW i \in 1 .. Len(dq[p]) PROVE Waits(p, i)'
    <3>1. Waits(p, i) BY <2>0 DEF Traced
    <3>2. batch[dq[p][i]].attempts # 0 => dq[p][i] > b BY <1>2, <1>t
    <3> QED BY <3>1, <3>2, <1>1, <1>3 DEF Waits
  <2>2. ASSUME NEW f \in flight, f.tp = p
        PROVE  Answer(f, batch[f.id], log[p], Num(p), seqno[p], pid, b)
    <3>1. Answer(f, batch[f.id], log[p], Num(p), seqno[p], pid, horizon) BY <2>0, <2>2 DEF Traced
    <3>2. batch[f.id].final = "none" /\ batch[f.id].attempts # 0 => f.id > b BY <1>2, <1>t
    <3>3. f.res # "lost" BY <1>1
    <3> QED BY <3>1, <3>2, <3>3 DEF Answer
  <2>3. Rises(p)' /\ (Runs' => Rests(p)') BY <2>0, <1>1, <1>3 DEF Traced, Rises, Rests
  <2> QED BY <2>1, <2>2, <2>3, <1>1, <1>3 DEF Traced
<1> QED BY <1>4, <1>5

LEMMA NInitProducerId ==
  ASSUME Steady, InitProducerId
  PROVE  OneId' /\ \A p \in Partition : Traced(p)'
<1>1. /\ pid = 0 /\ UNCHANGED <<batch, dq, flight, log, known, seqno, horizon, life>>
  BY DEF InitProducerId, queues, broker
<1>2. All' = All /\ Runs' = Runs BY <1>1 DEF All, Runs
<1>3. \A p \in Partition : DOMAIN known[p] = {} BY <1>1 DEF Steady, NInv, OneId
<1>4. \A p \in Partition : Num(p)' = Fresh BY <1>1, <1>3 DEF Num, Numbers
<1>5. OneId' BY <1>1, <1>2, <1>3 DEF Steady, NInv, OneId
<1>6. ASSUME NEW p \in Partition PROVE Traced(p)'
  <2>0. Traced(p) BY TracedNow DEF Steady
  <2>1. \A f \in flight : f.tp # p BY <2>0, <1>1 DEF Traced, Answer
  <2>2. ASSUME NEW i \in 1 .. Len(dq[p]) PROVE Waits(p, i)'
    <3>1. Waits(p, i) BY <2>0 DEF Traced
    <3>2. batch[dq[p][i]].attempts = 0 BY <3>1, <1>1 DEF Waits
    <3> QED BY <3>1, <3>2, <1>1 DEF Waits
  <2>3. Rises(p)' BY <2>0, <1>1 DEF Traced, Rises
  <2>4. Rests(p)' BY <1>4 DEF Rests, Fits
  <2> QED BY <2>1, <2>2, <2>3, <2>4, <1>1 DEF Traced
<1> QED BY <1>5, <1>6

LEMMA NStill ==
  ASSUME Steady, UNCHANGED <<batch, dq, flight, log, known, pid, seqno, horizon>>, Runs' => Runs
  PROVE  OneId' /\ \A p \in Partition : Traced(p)'
<1>1. All' = All /\ \A p \in Partition : Num(p)' = Num(p) BY DEF All, Num, Numbers
<1>2. OneId' BY <1>1 DEF Steady, NInv, OneId
<1>3. \A p \in Partition : Elsewhere(p) BY <1>1 DEF Elsewhere
<1> QED BY <1>2, <1>3, ElsewhereKeeps

\* A batch that is closed takes no record.
LEMMA ClosedStay ==
  ASSUME SInv, NEW p \in Partition, Added(p)
  PROVE  \A b \in All : batch[b].closed => batch'[b] = batch[b]
<1>1. CASE \E t \in All : Longer(batch, batch', t, sent + 1) /\ HasRoom(t)
  <2>1. PICK t \in All : Longer(batch, batch', t, sent + 1) /\ HasRoom(t) BY <1>1
  <2> QED BY <2>1 DEF Longer, All, HasRoom
<1>2. CASE Created(batch, batch', p, sent + 1) BY <1>2 DEF Created, All
<1> QED BY <1>1, <1>2 DEF Added

LEMMA NAdded ==
  ASSUME Steady, NEW p \in Partition, Added(p)
  PROVE  OneId' /\ \A q \in Partition : Traced(q)'
<1>t. /\ \A f \in flight : f.id \in All /\ f.tp \in Partition /\ batch[f.id].closed
      /\ \A q \in Partition : \A i \in 1 .. Len(dq[q]) : dq[q][i] \in All
      /\ \A q \in Partition : dq[q] \in Seq(Nat) /\ dq'[q] \in Seq(Nat) /\ Len(dq[q]) \in Nat
  <2>1. dq' \in [Partition -> Seq(Nat)]
    <3>1. dq \in [Partition -> Seq(Nat)] BY DEF Steady, SInv, Types
    <3> QED BY <3>1 DEF Added, Enqueued
  <2>2. dq \in [Partition -> Seq(Nat)] BY DEF Steady, SInv, Types
  <2> QED BY <2>1, <2>2, TraceTyped DEF Steady
<1>1. UNCHANGED <<flight, pid, seqno, log, known, horizon, life>> BY DEF Added
<1>2. Runs' = Runs /\ \A q \in Partition : Num(q)' = Num(q) BY <1>1 DEF Runs, Num, Numbers
<1>3. \A b \in All : b \in All' /\ (batch[b].closed => batch'[b] = batch[b])
  BY ClosedStay, AddedRecords DEF Steady
<1>4. \/ dq' = dq /\ All' = All /\ \A b \in All : batch'[b].attempts = batch[b].attempts
                                               /\ batch'[b].pid = batch[b].pid
      \/ \E n, c : NewestAt(p, n, c)
  BY AddedQueues DEF Steady
\* What waits was there, or has just been made.
<1>5. /\ \A b \in All : batch'[b].attempts = batch[b].attempts /\ batch'[b].pid = batch[b].pid
      /\ \A b \in All' : b \in All \/ (batch'[b].attempts = 0 /\ batch'[b].pid = 0)
      /\ \A q \in Partition : \A i \in 1 .. Len(dq'[q]) :
           \/ i \in 1 .. Len(dq[q]) /\ dq'[q][i] = dq[q][i]
           \/ dq'[q][i] \in All' /\ dq'[q][i] \notin All
              /\ batch'[dq'[q][i]].attempts = 0 /\ batch'[dq'[q][i]].pid = 0
  <2>1. CASE dq' = dq /\ All' = All /\ \A b \in All : batch'[b].attempts = batch[b].attempts
                                                   /\ batch'[b].pid = batch[b].pid
    BY <2>1
  <2>2. CASE \E n, c : NewestAt(p, n, c)
    <3>1. PICK n, c : NewestAt(p, n, c) BY <2>2
    <3>2. /\ \A b \in All : batch'[b] = batch[b] /\ b < c /\ c \in Nat
          /\ batch'[c].attempts = 0 /\ batch'[c].pid = 0
          /\ \A b \in All' : b \in All \/ b = c
          /\ \A q \in Partition : \A i \in 1 .. Len(dq'[q]) :
               (i \in 1 .. Len(dq[q]) /\ dq'[q][i] = dq[q][i]) \/ dq'[q][i] = c
      BY <3>1 DEF NewestAt
    <3>3. c \in All' /\ c \notin All
      <4>1. c \notin All BY <3>2, <3>1 DEF NewestAt
      <4>2. \E b \in All' : b \notin All
        <5>1. c = Len(batch) + 1 /\ Len(batch) \in Nat /\ dq' # dq
          <6>1. Len(dq'[p]) = Len(dq[p]) + 1 BY <3>1 DEF NewestAt
          <6>2. Len(dq[p]) \in Nat BY <1>t
          <6> QED BY <6>1, <6>2, <3>1, Typed DEF NewestAt, Steady, SInv
        <5>2. Len(batch') = Len(batch) + 1 BY <5>1 DEF Added, Created
        <5> QED BY <5>1, <5>2 DEF All
      <4> QED BY <4>1, <4>2, <3>2
    <3> QED BY <3>2, <3>3
  <2> QED BY <1>4, <2>1, <2>2
<1>6. ASSUME NEW q \in Partition, NEW b \in All', b \in All => Unwritten(log[q], batch[b].recs)
      PROVE  Unwritten(log[q], batch'[b].recs)
  <2> SUFFICES ASSUME NEW i \in 1 .. Len(log[q]), NEW k \in 1 .. Len(batch'[b].recs),
                      log[q][i] = batch'[b].recs[k]
               PROVE  FALSE
    BY DEF Unwritten
  <2>1. log[q][i] \in Nat /\ log[q][i] <= sent BY LogIsOld DEF Steady
  <2>2. In(batch'[b].recs, log[q][i]) BY DEF In
  <2>3. b \in All /\ In(batch[b].recs, log[q][i]) BY <2>1, <2>2, AddedRecords DEF Steady
  <2> QED BY <2>3, <1>6 DEF In, Unwritten
<1>7. OneId'
  <2>1. \A b \in All : batch[b].pid \in {0, pid} BY DEF Steady, NInv, OneId
  <2>2. \A b \in All' : batch'[b].pid \in {0, pid} BY <2>1, <1>5
  <2> QED BY <2>2, <1>1 DEF Steady, NInv, OneId
<1>8. ASSUME NEW q \in Partition PROVE Traced(q)'
  <2>0. Traced(q) BY TracedNow DEF Steady
  <2>1. ASSUME NEW i \in 1 .. Len(dq'[q]) PROVE Waits(q, i)'
    <3>b. PICK b : b = dq'[q][i] OBVIOUS
    <3>1. CASE i \in 1 .. Len(dq[q]) /\ dq'[q][i] = dq[q][i]
      <4>1. Waits(q, i) /\ b \in All /\ b = dq[q][i] BY <2>0, <3>1, <3>b, <1>t DEF Traced
      <4>2. CASE batch[b].attempts = 0
        <5>1. Unwritten(log[q], batch[b].recs) /\ batch[b].pid = 0 BY <4>1, <4>2 DEF Waits
        <5>2. Unwritten(log[q], batch'[b].recs) BY <4>1, <5>1, <1>3, <1>6
        <5>3. batch'[b].attempts = 0 /\ batch'[b].pid = 0 BY <4>1, <4>2, <5>1, <1>5
        <5> QED BY <5>2, <5>3, <3>b, <1>1 DEF Waits
      <4>3. CASE batch[b].attempts # 0
        <5>1. batch[b].closed BY <4>1, <4>3 DEF Waits
        <5>2. batch'[b] = batch[b] BY <4>1, <5>1, <1>3
        <5> QED BY <4>1, <4>3, <5>2, <3>b, <1>1, <1>2 DEF Waits
      <4> QED BY <4>2, <4>3
    <3>2. CASE dq'[q][i] \in All' /\ dq'[q][i] \notin All
               /\ batch'[dq'[q][i]].attempts = 0 /\ batch'[dq'[q][i]].pid = 0
      <4>1. Unwritten(log[q], batch'[b].recs) BY <3>2, <3>b, <1>6
      <4> QED BY <3>2, <3>b, <4>1, <1>1 DEF Waits
    <3> QED BY <3>1, <3>2, <1>5
  <2>2. \A f \in flight' : f.tp = q =>
          Answer(f, batch'[f.id], log'[q], Num(q)', seqno'[q], pid', horizon')
    <3>1. \A f \in flight : batch'[f.id] = batch[f.id] BY <1>t, <1>3
    <3> QED BY <2>0, <3>1, <1>1, <1>2 DEF Traced
  <2>3. Rises(q)' BY <2>0, <1>1 DEF Traced, Rises
  <2>4. Runs' => Rests(q)'
    <3> SUFFICES ASSUME Runs, \A f \in flight : f.tp # q,
                        dq'[q] = <<>> \/ batch'[dq'[q][1]].attempts = 0
                 PROVE  Fits(Num(q), seqno[q])
      BY <1>1, <1>2 DEF Rests
    <3>1. dq[q] = <<>> \/ batch[dq[q][1]].attempts = 0
      <4> SUFFICES ASSUME dq[q] # <<>> PROVE batch[dq[q][1]].attempts = 0 OBVIOUS
      <4>1. Len(dq[q]) > 0 /\ 1 \in 1 .. Len(dq[q]) BY <1>t, EmptySeq
      <4>2. dq[q][1] \in All BY <4>1, <1>t
      <4>3. dq'[q] # <<>> /\ dq'[q][1] = dq[q][1]
        <5>1. CASE dq' = dq BY <5>1
        <5>2. CASE \E n, c : NewestAt(p, n, c)
          <6>1. PICK n, c : NewestAt(p, n, c) BY <5>2
          <6>2. CASE q # p BY <6>1, <6>2 DEF NewestAt
          <6>3. CASE q = p
            <7>1. Len(dq'[p]) = n + 1 /\ n \in Nat /\ n = Len(dq[p])
                  /\ \A i \in 1 .. n : dq'[p][i] = dq[p][i]
              BY <6>1 DEF NewestAt
            <7>2. Len(<<>>) = 0 OBVIOUS
            <7>3. dq'[p] # <<>> BY <7>1, <7>2
            <7> QED BY <7>1, <7>3, <6>3, <4>1
          <6> QED BY <6>2, <6>3
        <5> QED BY <5>1, <5>2, <1>4
      <4> QED BY <4>2, <4>3, <1>5
    <3> QED BY <3>1, <2>0 DEF Traced, Rests
  <2> QED BY <2>1, <2>2, <2>3, <2>4 DEF Traced
<1> QED BY <1>7, <1>8

LEMMA NAbort ==
  ASSUME Steady, NEW p \in Partition, AbortBatch(p)
  PROVE  OneId' /\ \A q \in Partition : Traced(q)'
<1>1. PICK k \in 1 .. Len(dq[p]) :
        /\ dq[p][k] \in All /\ batch[dq[p][k]].tp = p
        /\ Ended(batch, batch', dq[p][k], "aborted", batch[dq[p][k]].base, TRUE)
        /\ Removed(dq, dq', p, k)
  BY AbortIsRemoval DEF Steady
<1>2. life = "forced" /\ UNCHANGED <<flight, pid, seqno, log, known, horizon, life>>
  BY AbortIsRemoval DEF Steady
<1>3. /\ All' = All /\ \A b \in All : b # dq[p][k] => batch'[b] = batch[b]
      /\ \A b \in All : batch'[b].pid = batch[b].pid
  BY <1>1 DEF Ended, All
<1>4. /\ \A i \in 1 .. Len(dq'[p]) :
           \E j \in 1 .. Len(dq[p]) : j # k /\ dq'[p][i] = dq[p][j] /\ i = (IF j < k THEN j ELSE j - 1)
      /\ Len(dq[p]) \in Nat /\ \A q \in Partition : q # p => dq'[q] = dq[q]
  BY <1>1, RemovedAt DEF Steady, SInv
<1>5. ~Runs' /\ ~Runs /\ \A q \in Partition : Num(q)' = Num(q) BY <1>2 DEF Runs, Num, Numbers
<1>6. OneId' BY <1>2, <1>3 DEF Steady, NInv, OneId
<1>7. ASSUME NEW q \in Partition, q # p PROVE Traced(q)'
  <2>1. Elsewhere(q) BY <1>1, <1>2, <1>3, <1>4, <1>5, <1>7 DEF Elsewhere
  <2> QED BY <2>1, ElsewhereKeeps
<1>0. Traced(p) BY TracedNow DEF Steady
<1>8. ASSUME NEW i \in 1 .. Len(dq'[p]) PROVE Waits(p, i)'
  <2>1. PICK j \in 1 .. Len(dq[p]) :
          j # k /\ dq'[p][i] = dq[p][j] /\ i = (IF j < k THEN j ELSE j - 1)
    BY <1>4
  <2>2. Waits(p, j) /\ dq[p][j] \in All BY <1>0, TraceTyped DEF Traced, Steady
  <2>3. dq[p][j] # dq[p][k] BY <2>1 DEF Steady, SInv, QueuesHold
  <2>4. batch'[dq[p][j]] = batch[dq[p][j]] BY <2>2, <2>3, <1>3
  <2>5. j = 1 => i = 1 BY <2>1, <1>4
  <2> QED BY <2>1, <2>2, <2>4, <2>5, <1>2, <1>5 DEF Waits
<1>9. \A f \in flight : f.tp = p => batch'[f.id] = batch[f.id]
  <2>1. \A f \in flight : f.id \in All /\ ~In(dq[f.tp], f.id) BY TraceTyped DEF Steady
  <2>2. \A f \in flight : f.tp = p => f.id # dq[p][k] BY <2>1 DEF In
  <2> QED BY <2>1, <2>2, <1>3
<1>10. Rises(p)' BY <1>0, <1>2 DEF Traced, Rises
<1>11. Traced(p)' BY <1>0, <1>2, <1>5, <1>8, <1>9, <1>10 DEF Traced
<1> QED BY <1>6, <1>7, <1>11

-----------------------------------------------------------------------------
(* The whole                                                               *)

\* Without idempotence, or where the code keeps track of what it sent.
Whole == SInv /\ OInv /\ AnswersTrue /\ (Idempotent => NInv)
Kept  == OInv' /\ AnswersTrue' /\ (Idempotent => OneId' /\ \A p \in Partition : Traced(p)')

LEMMA WSends ==
  ASSUME Whole, NEW ps \in SUBSET Partition, SendProducerData(ps)
  PROVE  Kept
<1>1. PICK gone, cut, reset : Swept(ps, gone, cut, reset) BY SweepIs DEF Whole
<1>2. AnswersTrue' BY <1>1, AnswersSwept DEF Whole
<1>3. CASE ~Idempotent
  <2>1. ~reset BY <1>1, <1>3 DEF Swept
  <2>2. OInv' BY <1>1, <2>1, SweptOrder DEF Whole
  <2> QED BY <2>2, <1>2, <1>3 DEF Kept
<1>4. CASE Idempotent
  <2>s. Steady BY <1>4 DEF Whole, Steady
  <2>1. ~reset BY <2>s, <1>1, NoReset
  <2>2. OInv' BY <1>1, <2>1, SweptOrder DEF Whole
  <2>3. NInv' BY <2>s, <1>1, NSwept
  <2>4. OneId' /\ \A p \in Partition : Traced(p)'
    BY <2>3 DEF NInv, QueueTrace, FlightTrace, Rising, AtRest, Traced
  <2> QED BY <2>2, <2>4, <1>2 DEF Kept
<1> QED BY <1>3, <1>4

LEMMA WCompletes ==
  ASSUME Whole, NEW f \in flight, Complete(f)
  PROVE  Kept
<1>1. life' = life /\ muted' = muted \ {f.tp} /\ (Again(f) \/ Over(f))
  BY CompleteIs DEF Whole
<1>2. OInv' /\ AnswersTrue'
  <2>1. CASE Again(f) BY <2>1, <1>1, AgainOrder, AnswersAgain DEF Whole
  <2>2. CASE Over(f) BY <2>2, <1>1, OverOrder, AnswersOver DEF Whole
  <2> QED BY <2>1, <2>2, <1>1
<1>3. ASSUME Idempotent PROVE OneId' /\ \A p \in Partition : Traced(p)'
  <2>s. Steady BY <1>3 DEF Whole, Steady
  <2>1. (Again(f) /\ CanRetry(f.id, f.res)) \/ (Over(f) /\ CountsAs(f)) BY <2>s, CompleteAs
  <2>2. CASE Again(f) /\ CanRetry(f.id, f.res) BY <2>s, <2>2, <1>1, NAgain
  <2>3. CASE Over(f) /\ CountsAs(f) BY <2>s, <2>3, <1>1, NOver
  <2> QED BY <2>1, <2>2, <2>3
<1> QED BY <1>2, <1>3 DEF Kept

LEMMA WAppends ==
  ASSUME Whole, NEW f \in flight, BrokerAppend(f)
  PROVE  Kept
<1>1. f.res = "none" /\ Still /\ horizon' = horizon BY AppendIs DEF Whole
<1>2. PICK g \in RequestRec : AppendsAs(f, g) BY AppendIs DEF Whole
<1>3. CASE Taken(f, g)
  <2>1. OInv' /\ AnswersTrue' BY <1>1, <1>3, TakenOrder, AnswersTaken DEF Whole
  <2>2. ASSUME Idempotent PROVE OneId' /\ \A p \in Partition : Traced(p)'
    <3>1. Steady BY <2>2 DEF Whole, Steady
    <3> QED BY <3>1, <1>1, <1>2, <1>3, NTaken
  <2> QED BY <2>1, <2>2 DEF Kept
<1>4. CASE Idempotent /\ Told(f, g)
  <2>s. Steady BY <1>4 DEF Whole, Steady
  <2>1. /\ OneId' /\ \A p \in Partition : Traced(p)'
        /\ g.res = "ok" => LiesAt(log[f.tp], g.base, batch[f.id].recs)
    BY <2>s, <1>1, <1>2, <1>4, NTold
  <2>2. /\ g.id = f.id /\ g.tp = f.tp /\ flight' = (flight \ {f}) \cup {g}
        /\ UNCHANGED <<mode, batch, dq, muted, log>>
    BY <1>1, <1>4 DEF Told, Still
  <2>3. OInv' BY <2>2, ToldOrder DEF Whole
  <2>4. AnswersTrue' BY <2>1, <2>2, AnswersTold DEF Whole
  <2> QED BY <2>1, <2>3, <2>4 DEF Kept
<1> QED BY <1>2, <1>3, <1>4 DEF AppendsAs

\* A request fails.
LEMMA WFails ==
  ASSUME Whole, NEW f \in flight, NEW res \in Results, res # "ok", Answered(f, res, 0),
         UNCHANGED <<mode, batch, dq, muted, log>>
  PROVE  OInv' /\ AnswersTrue'
<1>0. Types /\ RequestsHold /\ 0 \in Nat BY DEF Whole, SInv
<1>1. PICK g \in RequestRec : /\ g.id = f.id /\ g.tp = f.tp /\ g.res = res
                              /\ flight' = (flight \ {f}) \cup {g}
  BY <1>0, AnsweredKeeps
<1> QED BY <1>1, ToldOrder, AnswersTold DEF Whole

\* Steps that touch neither queues, requests nor logs.
LEMMA WStill ==
  ASSUME Whole, UNCHANGED <<mode, batch, dq, flight, muted, log>>
  PROVE  OInv' /\ AnswersTrue'
<1>1. All' = All BY DEF All
<1> QED BY <1>1 DEF Whole, OInv, OneInFlight, LogInOrder, Ordered, AnswersTrue

LEMMA WEnvironment ==
  ASSUME Whole, ~Gap \/ ~Idempotent, Environment
  PROVE  Kept
<1>1. ASSUME NEW f \in flight, BrokerAppend(f) PROVE Kept BY <1>1, WAppends
<1>2. ASSUME NEW f \in flight, BrokerRefuses(f) PROVE Kept
  <2>1. PICK error \in {"retriable", "fatal"} : Answered(f, error, 0)
    BY <1>2 DEF BrokerRefuses
  <2>2. error \in Results /\ error # "ok" BY DEF Results
  <2>3. UNCHANGED <<mode, batch, dq, muted, log>> BY <1>2 DEF BrokerRefuses, queues, broker
  <2>4. OInv' /\ AnswersTrue' BY <2>1, <2>2, <2>3, WFails
  <2>5. ASSUME Idempotent PROVE OneId' /\ \A p \in Partition : Traced(p)'
    BY <2>5, <1>2, NRefused DEF Whole, Steady
  <2> QED BY <2>4, <2>5 DEF Kept
<1>3. ASSUME NEW f \in flight, Lose(f) PROVE Kept
  <2>1. Answered(f, "lost", 0) /\ "lost" \in Results BY <1>3 DEF Lose, Results
  <2>2. UNCHANGED <<mode, batch, dq, muted, log>> BY <1>3 DEF Lose, queues, broker
  <2>3. OInv' /\ AnswersTrue' BY <2>1, <2>2, WFails
  <2>4. ASSUME Idempotent PROVE OneId' /\ \A p \in Partition : Traced(p)'
    BY <2>4, <1>3, NLost DEF Whole, Steady
  <2> QED BY <2>3, <2>4 DEF Kept
<1>4. ASSUME NEW p \in Partition, BrokerForgets(p) PROVE Kept
  <2>1. UNCHANGED <<mode, batch, dq, flight, muted, log>> BY <1>4 DEF BrokerForgets, queues
  <2>2. ASSUME Idempotent PROVE OneId' /\ \A q \in Partition : Traced(q)'
    BY <2>2, <1>4, NForgets DEF Whole, Steady
  <2> QED BY <2>1, <2>2, WStill DEF Kept
<1>5. ASSUME NEW b \in 1 .. Len(batch), TimePasses(b) PROVE Kept
  <2>1. UNCHANGED <<mode, batch, dq, flight, muted, log>> BY <1>5 DEF TimePasses, queues, broker
  <2>2. ASSUME Idempotent PROVE OneId' /\ \A q \in Partition : Traced(q)'
    BY <2>2, <1>5, NTimePasses DEF Whole, Steady
  <2> QED BY <2>1, <2>2, WStill DEF Kept
<1> QED BY <1>1, <1>2, <1>3, <1>4, <1>5 DEF Environment

LEMMA WRest ==
  ASSUME Whole, UNCHANGED <<mode, batch, dq, flight, muted, log, known, pid, seqno, horizon>>,
         Runs' => Runs
  PROVE  Kept
<1>1. OInv' /\ AnswersTrue' BY WStill
<1>2. ASSUME Idempotent PROVE OneId' /\ \A p \in Partition : Traced(p)'
  BY <1>2, NStill DEF Whole, Steady
<1> QED BY <1>1, <1>2 DEF Kept

LEMMA WSender ==
  ASSUME Whole, Sender
  PROVE  Kept
<1>1. CASE InitProducerId
  <2>1. UNCHANGED <<mode, batch, dq, flight, muted, log>>
    BY <1>1 DEF InitProducerId, queues, broker
  <2>2. ASSUME Idempotent PROVE OneId' /\ \A p \in Partition : Traced(p)'
    BY <2>2, <1>1, NInitProducerId DEF Whole, Steady
  <2> QED BY <2>1, <2>2, WStill DEF Kept
<1>2. CASE Finish
  BY <1>2, WRest DEF Finish, queues, ids, broker, Runs
<1>3. CASE AbortEnds
  BY <1>3, WRest DEF AbortEnds, queues, ids, broker, Runs
<1>4. ASSUME NEW p \in Partition, AbortBatch(p) PROVE Kept
  <2>1. OInv' /\ AnswersTrue' BY <1>4, AbortOrder, AnswersAbort DEF Whole
  <2>2. ASSUME Idempotent PROVE OneId' /\ \A q \in Partition : Traced(q)'
    BY <2>2, <1>4, NAbort DEF Whole, Steady
  <2> QED BY <2>1, <2>2 DEF Kept
<1>5. ASSUME NEW ps \in SUBSET Partition, SendProducerData(ps) PROVE Kept BY <1>5, WSends
<1>6. ASSUME NEW f \in flight, Complete(f) PROVE Kept BY <1>6, WCompletes
<1> QED BY <1>1, <1>2, <1>3, <1>4, <1>5, <1>6 DEF Sender, AbortIncomplete

LEMMA WApplication ==
  ASSUME Whole, Application
  PROVE  Kept
<1>1. ASSUME NEW p \in Partition, Send(p) PROVE Kept
  <2>1. Added(p) BY <1>1, SendIs DEF Whole
  <2>2. OInv' /\ AnswersTrue' BY <2>1, AddedOrder, AnswersAdded DEF Whole
  <2>3. ASSUME Idempotent PROVE OneId' /\ \A q \in Partition : Traced(q)'
    BY <2>1, <2>3, NAdded DEF Whole, Steady
  <2> QED BY <2>2, <2>3 DEF Kept
<1>2. CASE MetadataArrives BY <1>2, WRest DEF MetadataArrives, queues, ids, broker, Runs
<1>3. CASE StartFlush BY <1>3, WRest DEF StartFlush, queues, ids, broker, Runs
<1>4. CASE FlushReturns BY <1>4, WRest DEF FlushReturns, queues, ids, broker, Runs
<1>5. CASE InitiateClose BY <1>5, WRest DEF InitiateClose, queues, ids, broker, Runs
<1>6. CASE ForceClose BY <1>6, WRest DEF ForceClose, queues, ids, broker, Runs
<1> QED BY <1>1, <1>2, <1>3, <1>4, <1>5, <1>6 DEF Application

LEMMA ModeStays ==
  ASSUME [Next]_vars
  PROVE  mode' = mode
BY DEF Next, vars, Sender, Application, Environment, InitProducerId, Finish, AbortIncomplete,
       AbortEnds, AbortBatch, SendProducerData, Complete, Send, MetadataArrives, StartFlush,
       FlushReturns, InitiateClose, ForceClose, BrokerAppend, BrokerRefuses, Lose, BrokerForgets,
       TimePasses

LEMMA WStep ==
  ASSUME Whole, ~Gap \/ "idempotent" \notin Mode, [Next]_vars
  PROVE  Whole'
<1>0. SInv' BY SStep DEF Whole
<1>1. ~Gap \/ ~Idempotent BY DEF Whole, SInv, Types, Idempotent
<1>2. UNCHANGED vars => Kept BY WRest DEF vars, queues, ids, broker, Runs
<1>3. Next => Kept BY <1>1, WSender, WApplication, WEnvironment DEF Next
<1>4. Kept BY <1>2, <1>3
<1>5. mode' = mode BY ModeStays
<1>6. Idempotent' => NInv'
  <2>1. Types' BY <1>0 DEF SInv
  <2>2. Idempotent' => Idempotent BY <1>5 DEF Idempotent
  <2> QED BY <2>1, <2>2, <1>4, TracedNext DEF Kept
<1> QED BY <1>0, <1>4, <1>6 DEF Whole, Kept

LEMMA WInit ==
  ASSUME Init
  PROVE  Whole
<1>1. SInv BY SInit
<1>2. All = {} /\ flight = {} /\ \A p \in Partition : dq[p] = <<>> /\ log[p] = <<>> /\ known[p] = <<>>
  BY DEF Init, All
<1>3. \A p \in Partition : 1 .. Len(dq[p]) = {} /\ 1 .. Len(log[p]) = {} /\ DOMAIN known[p] = {}
  <2>1. Len(<<>>) = 0 /\ DOMAIN <<>> = {} /\ 1 .. 0 = {} OBVIOUS
  <2> QED BY <2>1, <1>2
<1>4. OInv BY <1>2, <1>3 DEF Init, OInv, OneInFlight, LogInOrder
<1>5. AnswersTrue BY <1>2 DEF AnswersTrue
<1>6. OneId BY <1>2, <1>3 DEF OneId
<1>7. QueueTrace /\ FlightTrace /\ Rising
  BY <1>2, <1>3 DEF QueueTrace, FlightTrace, Rising, Rises
<1>8. AtRest BY <1>3 DEF AtRest, Rests, Fits, Num, Numbers
<1> QED BY <1>1, <1>4, <1>5, <1>6, <1>7, <1>8 DEF Whole, NInv

-----------------------------------------------------------------------------
(* What follows                                                            *)

LEMMA WholeAlways ==
  ASSUME ~Gap \/ "idempotent" \notin Mode
  PROVE  Spec => []Whole
<1>1. Init => Whole BY WInit
<1>2. Whole /\ [Next]_vars => Whole' BY WStep
<1> QED BY <1>1, <1>2, PTL DEF Spec

\* A record whose future has succeeded lies in the log of its partition, at the
\* offset its RecordMetadata gives, whatever was lost, refused, sent again or
\* reached its timeout in between: no answer is taken for another batch's.
THEOREM AckedLies ==
  ASSUME ~Gap \/ "idempotent" \notin Mode
  PROVE  Spec => []AckedIsInLog
<1>1. ASSUME Whole PROVE AckedIsInLog
  <2> SUFFICES ASSUME NEW b \in All, batch[b].final = "ok", NEW i \in 1 .. Len(batch[b].recs)
               PROVE  (RecordOffset(b, i) + 1) \in Position(batch[b].tp, batch[b].recs[i])
    BY DEF AckedIsInLog
  <2>1. LiesAt(log[batch[b].tp], batch[b].base, batch[b].recs) BY <1>1 DEF Whole, AnswersTrue
  <2>2. batch[b].base \in Nat /\ Len(log[batch[b].tp]) \in Nat
    BY <1>1, Typed DEF Whole, SInv
  <2>3. RecordOffset(b, i) + 1 = batch[b].base + i BY <2>2 DEF RecordOffset
  <2>4. batch[b].base + i <= Len(log[batch[b].tp])
        /\ log[batch[b].tp][batch[b].base + i] = batch[b].recs[i]
    BY <2>1 DEF LiesAt
  <2>5. batch[b].base + i \in 1 .. Len(log[batch[b].tp]) BY <2>2, <2>4
  <2> QED BY <2>3, <2>4, <2>5 DEF Position
<1>2. Whole => AckedIsInLog BY <1>1
<1> QED BY <1>2, WholeAlways, PTL

\* With one request in flight no batch is written after one that was made later,
\* through all retries and timeouts; and an idempotent producer's records are in
\* the order in which they were sent.
THEOREM InOrder ==
  ASSUME ~Gap \/ "idempotent" \notin Mode
  PROVE  Spec => []OrderKept
<1>1. ASSUME Whole PROVE OrderKept
  <2> SUFFICES ASSUME Ordered, NEW p \in Partition, NEW i \in 1 .. Len(log[p]),
                      NEW j \in 1 .. Len(log[p]), i < j
               PROVE  /\ BatchOf(log[p][i]) <= BatchOf(log[p][j])
                      /\ Idempotent => log[p][i] < log[p][j]
    BY DEF OrderKept
  <2>1. ASSUME NEW k \in 1 .. Len(log[p])
        PROVE  BatchOf(log[p][k]) \in All /\ In(batch[BatchOf(log[p][k])].recs, log[p][k])
    <3>x. PICK x : x = log[p][k] OBVIOUS
    <3>1. \A b \in All : DOMAIN batch[b].recs = 1 .. Len(batch[b].recs)
      BY <1>1, Typed DEF Whole, SInv
    <3>2. \A b \in All : x \in ToSet(batch[b].recs) <=> In(batch[b].recs, x)
      BY <3>1 DEF ToSet, In
    <3>3. \E b \in All : x \in ToSet(batch[b].recs)
      BY <1>1, <3>2, <3>x DEF Whole, SInv, LogIsOfBatches
    <3>4. BatchOf(x) \in All /\ x \in ToSet(batch[BatchOf(x)].recs) BY <3>3 DEF BatchOf
    <3> QED BY <3>2, <3>4, <3>x
  <2>2. BatchOf(log[p][i]) <= BatchOf(log[p][j]) BY <1>1, <2>1 DEF Whole, OInv, LogInOrder
  <2>3. Idempotent => log[p][i] < log[p][j] BY <1>1 DEF Whole, NInv, Rising, Rises
  <2> QED BY <2>2, <2>3
<1>2. Whole => OrderKept BY <1>1
<1> QED BY <1>2, WholeAlways, PTL

\* An idempotent producer writes no record twice: a batch that is sent again has
\* the number of its first attempt, and the broker's numbers and the code's are
\* never so far apart that it is taken again.
THEOREM NotTwice ==
  ASSUME ~Gap \/ "idempotent" \notin Mode
  PROVE  Spec => []AtMostOnce
<1>1. ASSUME Whole PROVE AtMostOnce
  <2> SUFFICES ASSUME Idempotent, NEW p \in Partition, NEW r \in 1 .. sent
               PROVE  Cardinality(Position(p, r)) <= 1
    BY DEF AtMostOnce
  <2>0. \A i \in 1 .. Len(log[p]) : log[p][i] \in Nat /\ Len(log[p]) \in Nat
    BY <1>1, Typed DEF Whole, SInv
  <2>1. \A i, j \in 1 .. Len(log[p]) : i < j => log[p][i] < log[p][j]
    BY <1>1 DEF Whole, NInv, Rising, Rises
  <2>2. \A i, j \in Position(p, r) : i = j
    <3> SUFFICES ASSUME NEW i \in 1 .. Len(log[p]), NEW j \in 1 .. Len(log[p]),
                        log[p][i] = r, log[p][j] = r, i # j
                 PROVE  FALSE
      BY DEF Position
    <3>1. i < j \/ j < i OBVIOUS
    <3> QED BY <3>1, <2>0, <2>1
  <2>3. CASE Position(p, r) = {} BY <2>3, FS_EmptySet
  <2>4. CASE Position(p, r) # {}
    <3>1. PICK i : i \in Position(p, r) BY <2>4
    <3>2. Position(p, r) = {i} BY <3>1, <2>2
    <3> QED BY <3>2, FS_Singleton
  <2> QED BY <2>3, <2>4
<1>2. Whole => AtMostOnce BY <1>1
<1> QED BY <1>2, WholeAlways, PTL

\* A batch is in one queue, in one request or at its end, queues keep the order
\* of creation with one request in flight, and a partition is then muted as long
\* as a batch of it is in flight and no longer.
THEOREM Placed ==
  ASSUME ~Gap \/ "idempotent" \notin Mode
  PROVE  Spec => []TypeOK
<1>1. ASSUME Whole PROVE TypeOK
  <2>t. /\ \A b \in All : batch[b].final \in {"none", "ok", "failed", "aborted"}
        /\ pid < fresh /\ incomplete \subseteq All
        /\ \A p \in Partition : DOMAIN dq[p] = 1 .. Len(dq[p])
    BY <1>1, Typed DEF Whole, SInv, Types, Pending, Finals
  <2>1. Ordered => \A p \in Partition :
          /\ \A i, j \in 1 .. Len(dq[p]) : i < j => dq[p][i] < dq[p][j]
          /\ p \in muted <=> \E f \in flight : f.tp = p
    BY <1>1 DEF Whole, OInv, OneInFlight
  <2>2. \A b \in Waiting : \E p \in Partition : \E i \in 1 .. Len(dq[p]) : b = dq[p][i]
    BY <2>t DEF Waiting, ToSet
  <2>3. \A b \in Waiting : ~Done(b) BY <1>1, <2>2 DEF Whole, SInv, QueuesHold
  <2>4. Waiting \cap Flying = {}
    <3> SUFFICES ASSUME NEW f \in flight, f.id \in Waiting PROVE FALSE BY DEF Flying
    <3>1. PICK p \in Partition : \E i \in 1 .. Len(dq[p]) : f.id = dq[p][i] BY <2>2
    <3>2. batch[f.id].tp = p BY <1>1, <3>1 DEF Whole, SInv, QueuesHold
    <3>3. batch[f.id].tp = f.tp /\ ~In(dq[f.tp], f.id) BY <1>1 DEF Whole, SInv, RequestsHold
    <3> QED BY <3>1, <3>2, <3>3 DEF In
  <2>5. Cardinality(Flying) = Cardinality(flight)
    <3>1. PICK h : h = [f \in flight |-> f.id] OBVIOUS
    <3>2. h \in Surjection(flight, Flying) BY <3>1 DEF Surjection, Flying
    <3>3. \A f, g \in flight : f.id = g.id => f = g BY <1>1 DEF Whole, SInv, RequestsHold
    <3>4. h \in Injection(flight, Flying) BY <3>1, <3>3 DEF Injection, IsInjective, Flying
    <3>5. IsFiniteSet(flight) BY <1>1 DEF Whole, SInv, Types
    <3> QED BY <3>2, <3>4, <3>5, FS_Surjection
  <2> QED BY <2>t, <2>1, <2>3, <2>4, <2>5 DEF TypeOK
<1>2. Whole => TypeOK BY <1>1
<1> QED BY <1>2, WholeAlways, PTL

=============================================================================
