---------------------- MODULE TransactionsProofs ----------------------------
(***************************************************************************)
(* For any partitions, retries, transactions, records and faults outside   *)
(* Gap: no record is written where the coordinator does not know of it,    *)
(* and transactions are visible as a whole or not at all.                  *)
(***************************************************************************)
EXTENDS Transactions, SequenceTheorems, FiniteSetTheorems, TLAPS

Kinds      == {"none", "find", "init", "add", "offsets", "offset_commit", "end"}
Answers    == {"none", "ok", "lost", "moved", "retry", "error", "fatal", "abortable"}
RequestRec ==
  [kind : Kinds, type : {"transaction", "group"}, parts : SUBSET Partition,
   offsets : SUBSET Nat, commit : BOOLEAN, res : Answers]
Manager ==
  [state : States, queue : Seq(RequestRec), known : SUBSET {"transaction", "group"},
   new : SUBSET Partition, pending : SUBSET Partition, added : SUBSET Partition,
   started : BOOLEAN, offsets : SUBSET Nat, pid : BOOLEAN]
Logs      == {"none", "pending", "committed", "aborted"}
RecordRec ==
  [tp : Partition, txn : Nat, at : {"queue", "flight", "end"},
   res : {"none", "ok", "retry", "abortable", "fatal"}, tries : Nat,
   final : {"none", "ok", "failed", "aborted"}, log : Logs]
CallRec   == [kind : {"none", "init", "offsets", "commit", "abort"},
              res : {"none", "pending", "ok", "error"}]
CoordRec  == [parts : SUBSET Partition, group : BOOLEAN,
              last : {"none", "committed", "aborted"}, fenced : BOOLEAN]
Txns      == 1 .. MaxTxns

Types ==
  /\ tm \in Manager /\ flying \in RequestRec /\ clear \in BOOLEAN /\ rec \in Seq(RecordRec)
  /\ call \in CallRec /\ txn \in 0 .. MaxTxns /\ fate \in [Txns -> {"none", "commit", "abort"}]
  /\ coord \in CoordRec /\ group \in [Txns -> Logs]

Asked(kind) == [kind |-> kind, res |-> "pending"]
Working == {"IN_TRANSACTION", "COMMITTING_TRANSACTION", "ABORTING_TRANSACTION", "ABORTABLE_ERROR"}
Ending  == {"COMMITTING_TRANSACTION", "ABORTING_TRANSACTION"}
Elems(q) == {q[i] : i \in 1 .. Len(q)}
Sorted(q) == \A i, j \in 1 .. Len(q) : i < j => Priority(q[i]) <= Priority(q[j])
Once(q)   == \A i, j \in 1 .. Len(q) : Awaited(q[i]) /\ Awaited(q[j]) => i = j

\* Where a request h may be found: with the manager t, the call c and in the
\* transaction x.
Fitting(t, c, x, h) ==
  /\ h.kind = "init" => t.state \in {"INITIALIZING", "FATAL_ERROR"} /\ c = Asked("init")
  /\ h.kind = "add" =>
       /\ t.state \in Working \cup {"FATAL_ERROR"} /\ h.parts \cap t.new = {}
       /\ t.state = "IN_TRANSACTION" => h.parts \subseteq t.pending \cup t.added
  /\ h.kind = "offsets" =>
       /\ t.state \in {"IN_TRANSACTION", "ABORTABLE_ERROR", "FATAL_ERROR"}
       /\ c = Asked("offsets") /\ h.offsets = {x}
  /\ h.kind = "offset_commit" =>
       /\ t.state \in {"IN_TRANSACTION", "FATAL_ERROR"} /\ c = Asked("offsets")
       /\ h.offsets = {x} /\ t.offsets = {x} /\ t.started
  /\ h.kind = "end" =>
       /\ t.state \in Ending \cup {"ABORTABLE_ERROR", "FATAL_ERROR"}
       /\ c.kind \in {"commit", "abort"} /\ c.res = "pending" /\ (h.commit <=> c.kind = "commit")

QueueInv(t, f, c, x) ==
  /\ Sorted(t.queue) /\ Once(t.queue)
  /\ Awaited(f) => \A h \in Elems(t.queue) : ~Awaited(h)
  /\ \A h \in Elems(t.queue) : h.kind # "none" /\ h.res = "none" /\ Fitting(t, c, x, h)
  /\ Fitting(t, c, x, f)

\* Nothing can be added to the transaction any more; b: a record is incomplete.
Sealed(t, f, b) ==
  /\ t.new = {} /\ ~b /\ f.kind \in {"none", "find", "end"}
  /\ \A h \in Elems(t.queue) : h.kind \in {"find", "end"}

StateInv(t, f, c, x, b) ==
  /\ t.state \in {"UNINITIALIZED", "READY"} => t.queue = <<>> /\ f.kind = "none"
  /\ t.state \in {"UNINITIALIZED", "READY", "INITIALIZING"} =>
       t.new = {} /\ t.pending = {} /\ t.added = {} /\ ~t.started /\ ~b
  /\ t.state = "FATAL_ERROR" => f.kind = "none" /\ ~b
  /\ t.state = "UNINITIALIZED" => c = Idle
  /\ t.state \in {"UNINITIALIZED", "INITIALIZING"} => x = 0
  /\ t.state = "INITIALIZING" => c = Asked("init")
  /\ t.state = "COMMITTING_TRANSACTION" => c = Asked("commit") /\ t.new = {}
  /\ t.state = "ABORTING_TRANSACTION" => c = Asked("abort") /\ t.new = {}
  /\ t.state \in Working => x # 0
  /\ c = Asked("commit") =>
       t.state \in {"COMMITTING_TRANSACTION", "ABORTABLE_ERROR", "FATAL_ERROR"}
  /\ c = Asked("abort") => t.state \in {"ABORTING_TRANSACTION", "FATAL_ERROR"}
  /\ c.kind \in {"commit", "abort"} => x # 0 /\ (c.res = "ok" => t.state = "READY")
  /\ t.offsets # {} =>
       /\ t.offsets = {x} /\ t.state \in {"IN_TRANSACTION", "FATAL_ERROR"}
       /\ c = Asked("offsets") \/ t.state = "FATAL_ERROR"
  /\ t.new \cap (t.pending \cup t.added) = {}
  /\ t.added # {} => t.started
  /\ f.kind = "none" => f.res = "none"
  /\ f.kind \in {"init", "end"} => t.queue = <<>>
  /\ f.kind = "offsets" => t.state = "IN_TRANSACTION"
  /\ f.kind = "end" => t.state \in Ending /\ Sealed(t, f, b)

\* What the coordinator co knows of the request in flight and those that wait.
AnswerInv(t, f, co, b) ==
  /\ f.res # "error"
  /\ f.res = "fatal" => ~b
  /\ f.res = "abortable" => f.kind \in {"add", "offsets"} /\ t.offsets = {}
  /\ f.kind = "add" /\ f.res = "ok" => co.fenced \/ f.parts \subseteq co.parts
  /\ f.kind = "offsets" /\ f.res = "ok" => co.fenced \/ co.group
  /\ \A h \in Elems(t.queue) \cup {f} : h.kind = "offset_commit" => co.fenced \/ co.group
  /\ co.fenced => ~b
  /\ \/ co.fenced \/ t.state = "FATAL_ERROR" \/ t.added \subseteq co.parts
     \/ t.state \in Ending /\ Sealed(t, f, b)

\* Transaction x may have been marked already.
Marks(s, sealed, ending) == s \in {"READY", "FATAL_ERROR"} \/ (s = ending /\ sealed)
\* Of a record r, with the manager in state s.
RecordInv(s, added, started, sealed, x, co, r) ==
  /\ r.txn \in 1 .. x
  /\ r.final = "none" <=> r.at \in {"queue", "flight"}
  /\ r.final = "none" => r.txn = x /\ s \in Working
  /\ r.at = "flight" => r.tp \in added /\ r.res # "fatal"
  /\ r.at = "flight" /\ r.res = "ok" => r.log # "none"
  /\ r.final = "ok" => r.log # "none"
  /\ r.log = "pending" => r.txn = x /\ r.tp \in co.parts /\ s # "READY" /\ ~co.fenced
  /\ r.txn = x /\ r.log # "none" /\ s \in Working => started
  /\ r.txn = x /\ s \in {"IN_TRANSACTION", "COMMITTING_TRANSACTION"} => r.final \in {"none", "ok"}
  /\ r.txn = x /\ r.log = "committed" => Marks(s, sealed, "COMMITTING_TRANSACTION")
  /\ r.txn = x /\ r.log = "aborted" => co.fenced \/ Marks(s, sealed, "ABORTING_TRANSACTION")
\* Of the offsets g that transaction n has sent.
OffsetsInv(s, started, sealed, x, co, n, g) ==
  /\ n > x => g = "none"
  /\ g = "pending" => n = x /\ co.group /\ started /\ ~co.fenced
  /\ n = x /\ g = "committed" => Marks(s, sealed, "COMMITTING_TRANSACTION")

Busy      == Incomplete # {}
SealedNow == Sealed(tm, flying, Busy)
Committed(n) == group[n] # "pending" /\ \A r \in Of(n) : rec[r].final = "ok" /\ rec[r].log = "committed"
Aborted(n)   == group[n] # "committed" /\ \A r \in Of(n) : rec[r].log # "committed"
Whole(n)     == (\E r \in Of(n) : rec[r].log = "committed") => \A r \in Of(n) : rec[r].log = "committed"
Outcome(kind) == (kind = "commit" => Committed(txn)) /\ (kind = "abort" => Aborted(txn))
NothingPending ==
  (\A r \in Records : rec[r].log # "pending") /\ (\A n \in Txns : group[n] # "pending")
FateInv ==
  /\ \A n \in 1 .. txn : Whole(n)
  /\ \A n \in Txns :
       /\ fate[n] # "none" => n < txn \/ (n = txn /\ tm.state = "READY")
       /\ fate[n] = "commit" => Committed(n)
       /\ fate[n] = "abort" => Aborted(n)
  /\ call.res = "ok" => Outcome(call.kind)
  /\ flying.kind = "end" /\ flying.res = "ok" => NothingPending /\ Outcome(call.kind)

ClientInv == QueueInv(tm, flying, call, txn) /\ StateInv(tm, flying, call, txn, Busy)
DataInv ==
  /\ \A r \in Records :
       RecordInv(tm.state, tm.added, tm.started, SealedNow, txn, coord, rec[r])
  /\ \A n \in Txns : OffsetsInv(tm.state, tm.started, SealedNow, txn, coord, n, group[n])
IInv ==
  /\ Types /\ ClientInv /\ AnswerInv(tm, flying, coord, Busy) /\ DataInv /\ FateInv
  /\ clear => ~Busy

-----------------------------------------------------------------------------
(* The queue of requests                                                   *)

LEMMA Priorities ==
  ASSUME NEW h
  PROVE  /\ Priority(h) \in Nat
         /\ h.kind = "find" => Priority(h) = 0
         /\ h.kind = "init" => Priority(h) = 1
         /\ h.kind = "end" => Priority(h) = 3
         /\ h.kind \notin {"find", "init", "end"} => Priority(h) = 2
<1>1. CASE h.kind = "find" BY <1>1 DEF Priority
<1>2. CASE h.kind = "init" BY <1>2 DEF Priority
<1>3. CASE h.kind = "end" BY <1>3 DEF Priority
<1>4. CASE h.kind \notin {"find", "init", "end"} BY <1>4 DEF Priority
<1> QED BY <1>1, <1>2, <1>3, <1>4

\* The sequence q with h behind its first k elements.
Inserted(q, k, h, s) ==
  /\ k \in 0 .. Len(q) /\ s \in Seq(RequestRec) /\ Len(s) = Len(q) + 1 /\ s[k + 1] = h
  /\ \A i \in 1 .. Len(s) : i <= k => i \in 1 .. Len(q) /\ s[i] = q[i]
  /\ \A i \in 1 .. Len(s) : i > k + 1 => i - 1 \in 1 .. Len(q) /\ s[i] = q[i - 1]

LEMMA InsertAtIs ==
  ASSUME NEW q \in Seq(RequestRec), NEW h \in RequestRec, NEW k \in 0 .. Len(q)
  PROVE  Inserted(q, k, h, InsertAt(q, k + 1, h))
<1> DEFINE n == Len(q)
           a == SubSeq(q, 1, (k + 1) - 1)
           z == SubSeq(q, k + 1, n)
<1>n. n \in Nat /\ k \in Nat /\ k <= n OBVIOUS
<1>1. /\ a \in Seq(RequestRec) /\ Len(a) = k
      /\ \A i \in 1 .. k : a[i] = q[i]
  <2>1. (k + 1) - 1 = k BY <1>n
  <2>2. \A i \in 1 .. k : q[i] \in RequestRec BY <1>n
  <2>3. /\ SubSeq(q, 1, k) \in Seq(RequestRec)
        /\ Len(SubSeq(q, 1, k)) = IF 1 <= k THEN k - 1 + 1 ELSE 0
        /\ \A i \in 1 .. k - 1 + 1 : SubSeq(q, 1, k)[i] = q[1 + i - 1]
    BY <2>2, <1>n, SubSeqProperties
  <2> QED BY <2>1, <2>3, <1>n
<1>2. /\ z \in Seq(RequestRec) /\ Len(z) = n - k
      /\ \A i \in 1 .. n - k : z[i] = q[k + i]
  <2>2. \A i \in k + 1 .. n : q[i] \in RequestRec BY <1>n
  <2>3. /\ SubSeq(q, k + 1, n) \in Seq(RequestRec)
        /\ Len(SubSeq(q, k + 1, n)) = IF k + 1 <= n THEN n - (k + 1) + 1 ELSE 0
        /\ \A i \in 1 .. n - (k + 1) + 1 : SubSeq(q, k + 1, n)[i] = q[(k + 1) + i - 1]
    BY <2>2, <1>n, SubSeqProperties
  <2>4. /\ n - (k + 1) + 1 = n - k /\ (k + 1 <= n \/ n - k = 0)
        /\ \A i \in 1 .. n - k : (k + 1) + i - 1 = k + i
    BY <1>n
  <2> QED BY <2>3, <2>4
<1> HIDE DEF n, a, z
<1>3. PICK b : b = a \o <<h>> OBVIOUS
<1>4. /\ b \in Seq(RequestRec) /\ Len(b) = k + 1 /\ b[k + 1] = h
      /\ \A i \in 1 .. k : b[i] = q[i]
  <2>1. <<h>> \in Seq(RequestRec) /\ Len(<<h>>) = 1 /\ <<h>>[1] = h OBVIOUS
  <2>2. /\ b \in Seq(RequestRec) /\ Len(b) = Len(a) + Len(<<h>>)
        /\ \A i \in 1 .. Len(a) + Len(<<h>>) :
             b[i] = IF i <= Len(a) THEN a[i] ELSE <<h>>[i - Len(a)]
    BY <2>1, <1>1, <1>3, ConcatProperties
  <2>3. (k + 1) - k = 1 /\ k + 1 \in 1 .. k + 1 /\ ~(k + 1 <= k)
        /\ \A i \in 1 .. k : i \in 1 .. k + 1 /\ i <= k
    BY <1>n
  <2> QED BY <2>1, <2>2, <2>3, <1>1
<1>5. PICK s : s = b \o z OBVIOUS
<1>6. /\ s \in Seq(RequestRec) /\ Len(s) = (k + 1) + (n - k)
      /\ \A i \in 1 .. (k + 1) + (n - k) :
           s[i] = IF i <= k + 1 THEN b[i] ELSE z[i - (k + 1)]
  <2>1. /\ s \in Seq(RequestRec) /\ Len(s) = Len(b) + Len(z)
        /\ \A i \in 1 .. Len(b) + Len(z) : s[i] = IF i <= Len(b) THEN b[i] ELSE z[i - Len(b)]
    BY <1>2, <1>4, <1>5, ConcatProperties
  <2>2. Len(b) = k + 1 /\ Len(z) = n - k BY <1>2, <1>4
  <2> QED BY <2>1, <2>2
<1>7. /\ (k + 1) + (n - k) = n + 1 /\ k + 1 \in 1 .. n + 1
      /\ \A i \in 1 .. n + 1 : i <= k => i \in 1 .. k /\ i <= k + 1 /\ i \in 1 .. n
      /\ \A i \in 1 .. n + 1 : i > k + 1 =>
           /\ ~(i <= k + 1) /\ i - (k + 1) \in 1 .. n - k /\ i - 1 \in 1 .. n
           /\ k + (i - (k + 1)) = i - 1
  BY <1>n
<1>8. Len(s) = n + 1 /\ s[k + 1] = h BY <1>4, <1>6, <1>7
<1>9. \A i \in 1 .. n + 1 : i <= k => s[i] = q[i] BY <1>4, <1>6, <1>7
<1>10. \A i \in 1 .. n + 1 : i > k + 1 => s[i] = q[i - 1] BY <1>2, <1>6, <1>7
<1>11. s = InsertAt(q, k + 1, h) BY <1>3, <1>5 DEF InsertAt, a, z, n
<1> QED BY <1>6, <1>7, <1>8, <1>9, <1>10, <1>11 DEF Inserted, n

\* What _enqueue_request does to a queue in the order of priorities.
LEMMA InsertedIs ==
  ASSUME NEW q \in Seq(RequestRec), NEW h \in RequestRec, NEW k, NEW s, Inserted(q, k, h, s),
         Sorted(q), \A i \in 1 .. Len(q) : i <= k <=> Priority(q[i]) <= Priority(h)
  PROVE  /\ s \in Seq(RequestRec) /\ Sorted(s) /\ Elems(s) = Elems(q) \cup {h}
         /\ Once(q) /\ (Awaited(h) => \A g \in Elems(q) : ~Awaited(g)) => Once(s)
<1>n. PICK n : n = Len(q) OBVIOUS
<1>k. n \in Nat /\ k \in Nat /\ k <= n BY <1>n DEF Inserted
<1>1. /\ s \in Seq(RequestRec) /\ Len(s) = n + 1 /\ s[k + 1] = h
      /\ \A i \in 1 .. n + 1 : i <= k => i \in 1 .. n /\ s[i] = q[i]
      /\ \A i \in 1 .. n + 1 : i > k + 1 => i - 1 \in 1 .. n /\ s[i] = q[i - 1]
  BY <1>n DEF Inserted
<1>2. \A i \in 1 .. n + 1 : i <= k \/ i = k + 1 \/ i > k + 1 BY <1>k
<1>3. \A g : Priority(g) \in Nat BY Priorities
<1>4. Sorted(s)
  <2> SUFFICES ASSUME NEW i \in 1 .. n + 1, NEW j \in 1 .. n + 1, i < j
               PROVE  Priority(s[i]) <= Priority(s[j])
    BY <1>1 DEF Sorted
  <2>0. \A a, b \in 1 .. n : a < b => Priority(q[a]) <= Priority(q[b]) BY <1>n DEF Sorted
  <2>1. CASE j <= k
    <3>1. i <= k BY <2>1, <1>k
    <3> QED BY <3>1, <2>1, <2>0, <1>1
  <2>2. CASE j = k + 1
    <3>1. i <= k BY <2>2, <1>k
    <3>2. s[j] = h /\ s[i] = q[i] /\ i \in 1 .. n BY <3>1, <2>2, <1>1
    <3> QED BY <3>1, <3>2, <1>n
  <2>3. CASE j > k + 1 /\ i <= k
    <3>1. s[j] = q[j - 1] /\ s[i] = q[i] /\ i \in 1 .. n /\ j - 1 \in 1 .. n BY <2>3, <1>1
    <3>2. i < j - 1 BY <2>3, <1>k
    <3> QED BY <3>1, <3>2, <2>0
  <2>4. CASE j > k + 1 /\ i = k + 1
    <3>1. s[j] = q[j - 1] /\ s[i] = h /\ j - 1 \in 1 .. n BY <2>4, <1>1
    <3>2. ~(j - 1 <= k) BY <2>4, <1>k
    <3>3. ~(Priority(q[j - 1]) <= Priority(h)) BY <3>1, <3>2, <1>n
    <3> QED BY <3>1, <3>3, <1>3
  <2>5. CASE j > k + 1 /\ i > k + 1
    <3>1. s[j] = q[j - 1] /\ s[i] = q[i - 1] /\ i - 1 \in 1 .. n /\ j - 1 \in 1 .. n
      BY <2>5, <1>1
    <3>2. i - 1 < j - 1 BY <2>5, <1>k
    <3> QED BY <3>1, <3>2, <2>0
  <2> QED BY <2>1, <2>2, <2>3, <2>4, <2>5, <1>2
<1>5. Elems(s) \subseteq Elems(q) \cup {h}
  <2> SUFFICES ASSUME NEW i \in 1 .. n + 1 PROVE s[i] \in Elems(q) \cup {h}
    BY <1>1 DEF Elems
  <2>1. i <= k => s[i] \in Elems(q) BY <1>1, <1>n DEF Elems
  <2>2. i > k + 1 => s[i] \in Elems(q) BY <1>1, <1>n DEF Elems
  <2>3. i = k + 1 => s[i] = h BY <1>1
  <2> QED BY <2>1, <2>2, <2>3, <1>2
<1>6. h \in Elems(s)
  <2>1. k + 1 \in 1 .. n + 1 BY <1>k
  <2> QED BY <2>1, <1>1 DEF Elems
<1>7. Elems(q) \subseteq Elems(s)
  <2> SUFFICES ASSUME NEW i \in 1 .. n PROVE q[i] \in Elems(s)
    BY <1>n DEF Elems
  <2>1. CASE i <= k
    <3>1. i \in 1 .. n + 1 BY <1>k
    <3> QED BY <3>1, <2>1, <1>1 DEF Elems
  <2>2. CASE ~(i <= k)
    <3>1. i + 1 \in 1 .. n + 1 /\ i + 1 > k + 1 /\ (i + 1) - 1 = i BY <2>2, <1>k
    <3>2. s[i + 1] = q[i] BY <3>1, <1>1
    <3> QED BY <3>1, <3>2, <1>1 DEF Elems
  <2> QED BY <2>1, <2>2
<1>8. ASSUME Once(q), Awaited(h) => \A g \in Elems(q) : ~Awaited(g)
      PROVE  Once(s)
  <2> SUFFICES ASSUME NEW i \in 1 .. n + 1, NEW j \in 1 .. n + 1,
                      Awaited(s[i]), Awaited(s[j]), i < j
               PROVE  FALSE
    BY <1>1 DEF Once
  <2>0. \A a, b \in 1 .. n : Awaited(q[a]) /\ Awaited(q[b]) => a = b BY <1>8, <1>n DEF Once
  <2>a. \A a \in 1 .. n : q[a] \in Elems(q) BY <1>n DEF Elems
  <2>1. CASE j <= k
    <3>1. i <= k BY <2>1, <1>k
    <3> QED BY <3>1, <2>1, <2>0, <1>1
  <2>2. CASE j = k + 1
    <3>1. i <= k BY <2>2, <1>k
    <3>2. s[j] = h /\ s[i] = q[i] /\ i \in 1 .. n BY <3>1, <2>2, <1>1
    <3> QED BY <3>2, <2>a, <1>8
  <2>3. CASE j > k + 1 /\ i <= k
    <3>1. s[j] = q[j - 1] /\ s[i] = q[i] /\ i \in 1 .. n /\ j - 1 \in 1 .. n BY <2>3, <1>1
    <3>2. i # j - 1 BY <2>3, <1>k
    <3> QED BY <3>1, <3>2, <2>0
  <2>4. CASE j > k + 1 /\ i = k + 1
    <3>1. s[j] = q[j - 1] /\ s[i] = h /\ j - 1 \in 1 .. n BY <2>4, <1>1
    <3> QED BY <3>1, <2>a, <1>8
  <2>5. CASE j > k + 1 /\ i > k + 1
    <3>1. s[j] = q[j - 1] /\ s[i] = q[i - 1] /\ i - 1 \in 1 .. n /\ j - 1 \in 1 .. n
      BY <2>5, <1>1
    <3>2. i - 1 # j - 1 BY <2>5, <1>k
    <3> QED BY <3>1, <3>2, <2>0
  <2> QED BY <2>1, <2>2, <2>3, <2>4, <2>5, <1>2
<1> QED BY <1>1, <1>4, <1>5, <1>6, <1>7, <1>8

LEMMA Least ==
  ASSUME NEW T, T \subseteq Nat, T # {}
  PROVE  \E x \in T : \A y \in T : x <= y
<1> DEFINE R == {ss \in Nat \X Nat : ss[1] < ss[2]}
<1>1. IsWellFoundedOn(R, Nat) BY NatLessThanWellFounded DEF OpToRel
<1>2. \A x, y \in Nat : y < x => <<y, x>> \in R OBVIOUS
<1> HIDE DEF R
<1>3. \E x \in T : \A y \in T : ~ (<<y, x>> \in R) BY <1>1, WFMin
<1>4. PICK x \in T : \A y \in T : ~ (<<y, x>> \in R) BY <1>3
<1>5. \A y \in T : ~ (y < x) BY <1>4, <1>2
<1> QED BY <1>5

\* In a sorted queue those that are served before h come first.
LEMMA BeforeIs ==
  ASSUME NEW q \in Seq(RequestRec), NEW h, Sorted(q)
  PROVE  \E k \in 0 .. Len(q) :
           /\ Cardinality({i \in DOMAIN q : Priority(q[i]) <= Priority(h)}) = k
           /\ \A i \in 1 .. Len(q) : i <= k <=> Priority(q[i]) <= Priority(h)
<1>n. PICK n : n = Len(q) OBVIOUS
<1>1. n \in Nat /\ DOMAIN q = 1 .. n BY <1>n
<1>2. \A g : Priority(g) \in Nat BY Priorities
<1>3. \A a, b \in 1 .. n : a < b => Priority(q[a]) <= Priority(q[b]) BY <1>n DEF Sorted
<1> DEFINE T == {j \in 1 .. n : ~(Priority(q[j]) <= Priority(h))} \cup {n + 1}
<1>4. PICK m \in T : \A j \in T : m <= j
  <2>1. T \subseteq Nat /\ T # {} BY <1>1
  <2> QED BY <2>1, Least
<1>5. m \in 1 .. n + 1 BY <1>1
<1>6. \A i \in 1 .. n : i < m => Priority(q[i]) <= Priority(h)
  <2>1. \A i \in 1 .. n : i \in T => ~(i < m) BY <1>1, <1>4, <1>5
  <2> QED BY <2>1
<1>7. m <= n => ~(Priority(q[m]) <= Priority(h)) BY <1>1, <1>5
<1> HIDE DEF T
<1>8. \A i \in 1 .. n : i >= m => ~(Priority(q[i]) <= Priority(h))
  <2> SUFFICES ASSUME NEW i \in 1 .. n, i >= m PROVE ~(Priority(q[i]) <= Priority(h))
    OBVIOUS
  <2>1. m \in 1 .. n BY <1>1, <1>5
  <2>2. i = m \/ m < i BY <2>1
  <2>3. Priority(q[m]) <= Priority(q[i]) BY <2>1, <2>2, <1>2, <1>3
  <2> QED BY <2>1, <2>3, <1>2, <1>7
<1>9. PICK k : k = m - 1 OBVIOUS
<1>10. k \in 0 .. n /\ \A i \in 1 .. n : (i <= k <=> i < m) /\ (i \in 1 .. k <=> i <= k)
  BY <1>1, <1>5, <1>9
<1>11. \A i \in 1 .. n : i <= k <=> Priority(q[i]) <= Priority(h)
  <2>1. \A i \in 1 .. n : i < m \/ i >= m BY <1>5
  <2> QED BY <2>1, <1>6, <1>8, <1>10
<1>12. {i \in DOMAIN q : Priority(q[i]) <= Priority(h)} = 1 .. k
  <2>1. 1 .. k \subseteq 1 .. n BY <1>1, <1>10
  <2> QED BY <2>1, <1>1, <1>10, <1>11
<1>13. Cardinality(1 .. k) = k BY <1>10, FS_Interval
<1> QED BY <1>n, <1>10, <1>11, <1>12, <1>13

\* The manager u is t with h in its queue.
SameBut(t, u) ==
  /\ u \in Manager /\ u.state = t.state /\ u.new = t.new /\ u.pending = t.pending
  /\ u.added = t.added /\ u.started = t.started /\ u.offsets = t.offsets
Adds(t, u, h) ==
  /\ SameBut(t, u) /\ Sorted(u.queue) /\ Elems(u.queue) = Elems(t.queue) \cup {h}
  /\ Once(t.queue) /\ (Awaited(h) => \A g \in Elems(t.queue) : ~Awaited(g)) => Once(u.queue)

LEMMA EnqueuedAdds ==
  ASSUME NEW t \in Manager, NEW h \in RequestRec, Sorted(t.queue)
  PROVE  Adds(t, Enqueued(t, h), h)
<1>1. PICK q : q = t.queue OBVIOUS
<1>2. q \in Seq(RequestRec) BY <1>1 DEF Manager
<1>3. PICK k \in 0 .. Len(q) :
        /\ Cardinality({i \in DOMAIN q : Priority(q[i]) <= Priority(h)}) = k
        /\ \A i \in 1 .. Len(q) : i <= k <=> Priority(q[i]) <= Priority(h)
  BY <1>1, <1>2, BeforeIs
<1>4. PICK s : s = InsertAt(q, k + 1, h) OBVIOUS
<1>5. Inserted(q, k, h, s) BY <1>2, <1>4, InsertAtIs
<1>6. /\ s \in Seq(RequestRec) /\ Sorted(s) /\ Elems(s) = Elems(q) \cup {h}
      /\ Once(q) /\ (Awaited(h) => \A g \in Elems(q) : ~Awaited(g)) => Once(s)
  BY <1>1, <1>2, <1>3, <1>5, InsertedIs
<1>7. PICK u : u = [t EXCEPT !.queue = s] OBVIOUS
<1>8. u = Enqueued(t, h) BY <1>1, <1>3, <1>4, <1>7 DEF Enqueued
<1>9. SameBut(t, u) /\ u.queue = s BY <1>6, <1>7 DEF Manager, SameBut
<1> QED BY <1>1, <1>6, <1>8, <1>9 DEF Adds

\* The head is served before the others.
LEMMA HeadFirst ==
  ASSUME NEW q \in Seq(RequestRec), q # <<>>, Sorted(q), Once(q)
  PROVE  /\ Head(q) \in RequestRec /\ Tail(q) \in Seq(RequestRec)
         /\ Sorted(Tail(q)) /\ Once(Tail(q))
         /\ Head(q) \in Elems(q) /\ Elems(q) = Elems(Tail(q)) \cup {Head(q)}
         /\ Awaited(Head(q)) => \A g \in Elems(Tail(q)) : ~Awaited(g)
         /\ \A g \in Elems(Tail(q)) : Priority(Head(q)) <= Priority(g)
<1>n. PICK n : n = Len(q) OBVIOUS
<1>h. PICK h : h = Head(q) OBVIOUS
<1>s. PICK s : s = Tail(q) OBVIOUS
<1>1. n \in Nat /\ n >= 1 /\ h = q[1] BY <1>n, <1>h
<1>2. /\ h \in RequestRec /\ s \in Seq(RequestRec) /\ Len(s) = n - 1
      /\ \A i \in 1 .. n - 1 : s[i] = q[i + 1]
  BY <1>n, <1>h, <1>s, HeadTailProperties
<1>3. /\ 1 \in 1 .. n /\ \A i \in 1 .. n - 1 : i + 1 \in 1 .. n /\ 1 < i + 1 /\ i + 1 # 1
      /\ \A i, j \in 1 .. n - 1 : (i < j => i + 1 < j + 1) /\ (i + 1 = j + 1 => i = j)
      /\ \A i \in 1 .. n : i = 1 \/ (i - 1 \in 1 .. n - 1 /\ (i - 1) + 1 = i)
  BY <1>1
<1>4. \A a, b \in 1 .. n : a < b => Priority(q[a]) <= Priority(q[b]) BY <1>n DEF Sorted
<1>5. \A a, b \in 1 .. n : Awaited(q[a]) /\ Awaited(q[b]) => a = b BY <1>n DEF Once
<1>6. Sorted(s) BY <1>2, <1>3, <1>4 DEF Sorted
<1>7. Once(s) BY <1>2, <1>3, <1>5 DEF Once
<1>8. h \in Elems(q) BY <1>1, <1>3, <1>n DEF Elems
<1>9. \A g \in Elems(s) : \E i \in 1 .. n - 1 : g = q[i + 1] BY <1>2 DEF Elems
<1>10. \A g \in Elems(s) : g \in Elems(q) BY <1>3, <1>9, <1>n DEF Elems
<1>11. \A g \in Elems(q) : g = h \/ g \in Elems(s)
  <2> SUFFICES ASSUME NEW i \in 1 .. n PROVE q[i] = h \/ q[i] \in Elems(s) BY <1>n DEF Elems
  <2>1. CASE i = 1 BY <2>1, <1>1
  <2>2. CASE i - 1 \in 1 .. n - 1 /\ (i - 1) + 1 = i
    <3>1. s[i - 1] = q[i] BY <2>2, <1>2
    <3> QED BY <3>1, <2>2, <1>2 DEF Elems
  <2> QED BY <2>1, <2>2, <1>3
<1>12. Awaited(h) => \A g \in Elems(s) : ~Awaited(g) BY <1>1, <1>3, <1>5, <1>9
<1>13. \A g \in Elems(s) : Priority(h) <= Priority(g) BY <1>1, <1>3, <1>4, <1>9
<1> QED BY <1>h, <1>s, <1>2, <1>6, <1>7, <1>8, <1>10, <1>11, <1>12, <1>13

\* The manager u is t with the requests hs in its queue.
Extends(t, u, hs) ==
  SameBut(t, u) /\ Sorted(u.queue) /\ Once(u.queue) /\ Elems(u.queue) = Elems(t.queue) \cup hs

LEMMA RequestTypes ==
  /\ \A kind \in Kinds : Request(kind) \in RequestRec
  /\ \A ty \in {"transaction", "group"} : Find(ty) \in RequestRec
  /\ None \in RequestRec /\ None.kind = "none" /\ None.res = "none" /\ ~Awaited(None)
<1>1. \A kind \in Kinds : Request(kind) \in RequestRec
  BY DEF Request, RequestRec, Kinds, Answers
<1>2. \A ty \in {"transaction", "group"} : Find(ty) \in RequestRec
  BY DEF Request, RequestRec, Kinds, Answers, Find
<1>3. "none" \in Kinds BY DEF Kinds
<1>4. None.kind = "none" /\ None.res = "none" BY DEF None, Request
<1> QED BY <1>1, <1>2, <1>3, <1>4 DEF None, Awaited

LEMMA EnqueuedExtends ==
  ASSUME NEW t \in Manager, NEW h \in RequestRec, Sorted(t.queue), Once(t.queue),
         Awaited(h) => \A g \in Elems(t.queue) : ~Awaited(g)
  PROVE  Extends(t, Enqueued(t, h), {h})
<1>1. Adds(t, Enqueued(t, h), h) BY EnqueuedAdds
<1> QED BY <1>1 DEF Adds, Extends

LEMMA LookedUpExtends ==
  ASSUME NEW t \in Manager, NEW h \in RequestRec, Sorted(t.queue), Once(t.queue),
         Awaited(h) => \A g \in Elems(t.queue) : ~Awaited(g)
  PROVE  Extends(t, LookedUp(t, h), {Find(h.type), h})
<1>1. PICK a : a = [t EXCEPT !.known = @ \ {h.type}] OBVIOUS
<1>2. SameBut(t, a) /\ a.queue = t.queue BY <1>1 DEF Manager, SameBut
<1>3. PICK f : f = Find(h.type) OBVIOUS
<1>4. f \in RequestRec /\ ~Awaited(f)
  BY <1>3, RequestTypes DEF RequestRec, Find, Request, Awaited
<1>5. PICK b : b = Enqueued(a, f) OBVIOUS
<1>6. Extends(a, b, {f}) BY <1>2, <1>4, <1>5, EnqueuedExtends DEF SameBut
<1>7. b \in Manager /\ Sorted(b.queue) /\ Once(b.queue) BY <1>6 DEF Extends, SameBut
<1>8. Elems(b.queue) = Elems(t.queue) \cup {f} BY <1>2, <1>6 DEF Extends
<1>9. Extends(b, Enqueued(b, h), {h}) BY <1>4, <1>7, <1>8, EnqueuedExtends
<1>10. Enqueued(b, h) = LookedUp(t, h) BY <1>1, <1>3, <1>5 DEF LookedUp
<1>11. Extends(t, Enqueued(b, h), {f, h})
  <2>1. Elems(Enqueued(b, h).queue) = Elems(t.queue) \cup {f, h} BY <1>8, <1>9 DEF Extends
  <2>2. SameBut(t, Enqueued(b, h)) BY <1>2, <1>6, <1>9 DEF Extends, SameBut
  <2> QED BY <2>1, <2>2, <1>9 DEF Extends
<1> QED BY <1>3, <1>10, <1>11

LEMMA FitsTheSame ==
  ASSUME NEW t, NEW u, SameBut(t, u), NEW c, NEW x, NEW h
  PROVE  Fitting(t, c, x, h) <=> Fitting(u, c, x, h)
BY DEF SameBut, Fitting

\* Requests are added, and g is the request in flight.
LEMMA QueueExtended ==
  ASSUME NEW t, NEW f, NEW c, NEW x, QueueInv(t, f, c, x), NEW u, NEW hs, Extends(t, u, hs),
         NEW g, Fitting(t, c, x, g), Awaited(g) => \A h \in Elems(t.queue) \cup hs : ~Awaited(h),
         \A h \in hs : h.kind # "none" /\ h.res = "none" /\ Fitting(t, c, x, h)
  PROVE  QueueInv(u, g, c, x)
<1>1. \A h : Fitting(t, c, x, h) <=> Fitting(u, c, x, h) BY FitsTheSame DEF Extends
<1>2. Elems(u.queue) = Elems(t.queue) \cup hs /\ Sorted(u.queue) /\ Once(u.queue)
  BY DEF Extends
<1>3. \A h \in Elems(t.queue) : h.kind # "none" /\ h.res = "none" /\ Fitting(t, c, x, h)
  BY DEF QueueInv
<1> QED BY <1>1, <1>2, <1>3 DEF QueueInv

-----------------------------------------------------------------------------
(* Steps that leave records, offsets and fates                             *)

LEMMA RecordStays ==
  ASSUME NEW s, NEW a, NEW b, NEW st, NEW sd, NEW se, NEW sf, NEW x, NEW co, NEW r,
         RecordInv(s, a, st, se, x, co, r), a \subseteq b, st => sd, s \in Ending /\ se => sf
  PROVE  RecordInv(s, b, sd, sf, x, co, r)
<1>1. \A e \in Ending : Marks(s, se, e) => Marks(s, sf, e) BY DEF Marks
<1>2. "COMMITTING_TRANSACTION" \in Ending /\ "ABORTING_TRANSACTION" \in Ending BY DEF Ending
<1> QED BY <1>1, <1>2 DEF RecordInv

LEMMA OffsetsStay ==
  ASSUME NEW s, NEW st, NEW sd, NEW se, NEW sf, NEW x, NEW co, NEW n, NEW g,
         OffsetsInv(s, st, se, x, co, n, g), st => sd, s \in Ending /\ se => sf
  PROVE  OffsetsInv(s, sd, sf, x, co, n, g)
<1>1. \A e \in Ending : Marks(s, se, e) => Marks(s, sf, e) BY DEF Marks
<1>2. "COMMITTING_TRANSACTION" \in Ending BY DEF Ending
<1> QED BY <1>1, <1>2 DEF OffsetsInv

LEMMA DataStays ==
  ASSUME IInv, UNCHANGED <<rec, txn, coord, group>>, tm'.state = tm.state,
         tm.added \subseteq tm'.added, tm.started => tm'.started,
         tm.state \in Ending /\ SealedNow => SealedNow'
  PROVE  DataInv'
<1>1. Records' = Records BY DEF Records
<1>2. \A r \in Records :
        RecordInv(tm'.state, tm'.added, tm'.started, SealedNow', txn, coord, rec[r])
  BY RecordStays DEF IInv, DataInv
<1>3. \A n \in Txns :
        OffsetsInv(tm'.state, tm'.started, SealedNow', txn, coord, n, group[n])
  BY OffsetsStay DEF IInv, DataInv
<1> QED BY <1>1, <1>2, <1>3 DEF DataInv

LEMMA FatesStay ==
  ASSUME IInv, UNCHANGED <<rec, txn, fate, group>>, tm'.state = tm.state,
         call'.res = "ok" => \/ call.res = "ok" /\ call'.kind = call.kind
                             \/ call'.kind \notin {"commit", "abort"},
         flying'.kind = "end" /\ flying'.res = "ok" =>
           flying.kind = "end" /\ flying.res = "ok" /\ call'.kind = call.kind
  PROVE  FateInv'
<1>1. Records' = Records BY DEF Records
<1>2. \A n : Of(n)' = Of(n) BY <1>1 DEF Of
<1>3. \A n : (Committed(n)' <=> Committed(n)) /\ (Aborted(n)' <=> Aborted(n)) /\ (Whole(n)' <=> Whole(n))
  BY <1>2 DEF Committed, Aborted, Whole
<1>4. \A k : Outcome(k)' <=> Outcome(k) BY <1>3 DEF Outcome
<1>5. NothingPending' <=> NothingPending BY <1>1 DEF NothingPending
<1>6. /\ \A n \in 1 .. txn : Whole(n)
      /\ \A n \in Txns :
           /\ fate[n] # "none" => n < txn \/ (n = txn /\ tm.state = "READY")
           /\ fate[n] = "commit" => Committed(n)
           /\ fate[n] = "abort" => Aborted(n)
      /\ call.res = "ok" => Outcome(call.kind)
      /\ flying.kind = "end" /\ flying.res = "ok" => NothingPending /\ Outcome(call.kind)
  BY DEF IInv, FateInv
<1>7. call'.res = "ok" => Outcome(call'.kind) BY <1>6 DEF Outcome
<1> QED BY <1>3, <1>4, <1>5, <1>6, <1>7 DEF FateInv

LEMMA BusyStays ==
  ASSUME UNCHANGED rec
  PROVE  Busy' = Busy /\ Records' = Records
BY DEF Busy, Incomplete, Records

Moves(t, u, s) ==
  /\ u \in Manager /\ u.state = s /\ u.queue = t.queue /\ u.new = t.new /\ u.pending = t.pending
  /\ u.added = t.added /\ u.started = t.started /\ u.offsets = t.offsets

LEMMA MovedMoves ==
  ASSUME NEW t \in Manager, NEW s \in States
  PROVE  Moves(t, Moved(t, s), s)
BY DEF Moves, Moved, Manager

\* What the parts of the invariant say of the present state.
LEMMA Parts ==
  ASSUME IInv
  PROVE  /\ Types /\ QueueInv(tm, flying, call, txn) /\ StateInv(tm, flying, call, txn, Busy)
         /\ AnswerInv(tm, flying, coord, Busy) /\ DataInv /\ FateInv /\ (clear => ~Busy)
         /\ tm \in Manager /\ tm.queue \in Seq(RequestRec) /\ flying \in RequestRec
         /\ call \in CallRec /\ txn \in Nat /\ coord \in CoordRec
BY DEF IInv, ClientInv, Types, Manager

LEMMA Asks ==
  ASSUME NEW kind, Called(kind)
  PROVE  call = Idle /\ call' = Asked(kind) /\ call.kind = "none" /\ call.res = "none"
         /\ call'.kind = kind /\ call'.res = "pending" /\ call' # Idle
BY DEF Called, Idle, Asked

\* With nobody waiting no request is one that a call waits for.
LEMMA NobodyWaits ==
  ASSUME IInv, call.res # "pending"
  PROVE  ~Awaited(flying) /\ \A h \in Elems(tm.queue) : ~Awaited(h)
<1>1. \A k : Asked(k).res = "pending" BY DEF Asked
<1>2. \A h : Fitting(tm, call, txn, h) => ~Awaited(h) BY <1>1 DEF Fitting, Awaited
<1> QED BY <1>2, Parts DEF QueueInv

LEMMA NoElements == Elems(<<>>) = {} /\ Sorted(<<>>) /\ Once(<<>>)
<1>1. 1 .. Len(<<>>) = {} OBVIOUS
<1> QED BY <1>1 DEF Elems, Sorted, Once

LEMMA InitTransactionsKeeps ==
  ASSUME IInv, InitTransactions
  PROVE  IInv'
<1>a. tm.state = "UNINITIALIZED" /\ Called("init") /\ tm' = Initializing(tm)
      /\ UNCHANGED <<flying, clear, rec, txn, fate, coord, group, faults>>
  BY DEF InitTransactions
<1>b. /\ call = Idle /\ call' = Asked("init") /\ call'.kind = "init" /\ call'.res = "pending"
  BY <1>a, Asks
<1>c. /\ tm.queue = <<>> /\ flying.kind = "none" /\ flying.res = "none" /\ txn = 0 /\ ~Busy
      /\ tm.new = {} /\ tm.pending = {} /\ tm.added = {} /\ ~tm.started /\ tm.offsets = {}
  BY <1>a, Parts DEF StateInv
<1>1. PICK t : t = Moved(tm, "INITIALIZING") OBVIOUS
<1>2. Moves(tm, t, "INITIALIZING") BY <1>1, Parts, MovedMoves DEF States
<1>3. PICK h : h = Request("init") OBVIOUS
<1>4. h \in RequestRec /\ h.kind = "init" /\ h.res = "none"
  BY <1>3, RequestTypes DEF Request, Kinds
<1>5. Extends(t, tm', {h})
  <2>1. t.queue = <<>> /\ t \in Manager BY <1>2, <1>c DEF Moves
  <2>2. tm' = Enqueued(t, h) BY <1>a, <1>1, <1>3 DEF Initializing
  <2> QED BY <2>1, <2>2, <1>4, NoElements, EnqueuedExtends
<1>6. /\ tm' \in Manager /\ tm'.state = "INITIALIZING" /\ tm'.new = {} /\ tm'.pending = {}
      /\ tm'.added = {} /\ ~tm'.started /\ tm'.offsets = {} /\ Elems(tm'.queue) = {h}
      /\ Sorted(tm'.queue) /\ Once(tm'.queue)
  BY <1>2, <1>5, <1>c, NoElements DEF Extends, SameBut, Moves
<1>7. Busy' = Busy /\ Records' = Records BY <1>a, BusyStays
<1>8. Types'
  <2>1. call' \in CallRec BY <1>b DEF Asked, CallRec
  <2> QED BY <2>1, <1>6, <1>a, Parts DEF Types
<1>9. QueueInv(tm', flying, call', txn)
  <2>1. ~Awaited(flying) BY <1>c DEF Awaited
  <2>2. Fitting(tm', call', txn, h) BY <1>4, <1>6, <1>b DEF Fitting
  <2>3. Fitting(tm', call', txn, flying) BY <1>c DEF Fitting
  <2> QED BY <2>1, <2>2, <2>3, <1>4, <1>6 DEF QueueInv
<1>10. StateInv(tm', flying, call', txn, Busy)
  BY <1>6, <1>b, <1>c DEF StateInv, Asked, Idle, Working
<1>11. AnswerInv(tm', flying, coord, Busy)
  <2>1. \A g \in Elems(tm'.queue) \cup {flying} : g.kind # "offset_commit"
    BY <1>4, <1>6, <1>c
  <2> QED BY <2>1, <1>6, <1>c DEF AnswerInv
<1>12. DataInv'
  <2>1. Records = {}
    <3>1. \A r \in Records : rec[r].txn \in 1 .. 0 BY <1>c, Parts DEF DataInv, RecordInv
    <3> QED BY <3>1
  <2>2. \A n \in Txns : n > 0 /\ group[n] = "none"
    BY <1>c, Parts DEF DataInv, OffsetsInv, Txns, Types
  <2> QED BY <2>1, <2>2, <1>7, <1>a, <1>c DEF DataInv, OffsetsInv
<1>13. FateInv'
  <2>1. Records = {}
    <3>1. \A r \in Records : rec[r].txn \in 1 .. 0 BY <1>c, Parts DEF DataInv, RecordInv
    <3> QED BY <3>1
  <2>2. \A n \in Txns : fate[n] = "none"
    BY <1>c, Parts DEF FateInv, Txns, Types
  <2> QED BY <2>2, <1>7, <1>a, <1>b, <1>c DEF FateInv
<1> QED BY <1>7, <1>8, <1>9, <1>10, <1>11, <1>12, <1>13, <1>a, <1>c DEF IInv, ClientInv

LEMMA BeginTransactionKeeps ==
  ASSUME IInv, BeginTransaction
  PROVE  IInv'
<1>a. call = Idle /\ tm.state = "READY" /\ txn < MaxTxns /\ txn' = txn + 1
      /\ tm' = Moved(tm, "IN_TRANSACTION")
      /\ UNCHANGED <<flying, clear, rec, call, fate, coord, group, faults>>
  BY DEF BeginTransaction, Valid
<1>b. call.kind = "none" /\ call.res = "none" BY <1>a DEF Idle
<1>c. /\ tm.queue = <<>> /\ flying.kind = "none" /\ flying.res = "none" /\ ~Busy
      /\ tm.new = {} /\ tm.pending = {} /\ tm.added = {} /\ ~tm.started /\ tm.offsets = {}
  BY <1>a, Parts DEF StateInv
<1>d. txn \in Nat /\ txn + 1 \in 0 .. MaxTxns /\ txn + 1 \in Nat /\ txn + 1 # 0
  <2>1. txn \in 0 .. MaxTxns /\ MaxTxns \in Nat BY Parts, BoundAssumption DEF Types
  <2> QED BY <2>1, <1>a
<1>1. Moves(tm, tm', "IN_TRANSACTION") BY <1>a, Parts, MovedMoves DEF States
<1>2. /\ tm' \in Manager /\ tm'.state = "IN_TRANSACTION" /\ tm'.new = {} /\ tm'.pending = {}
      /\ tm'.added = {} /\ ~tm'.started /\ tm'.offsets = {} /\ tm'.queue = <<>>
  BY <1>1, <1>c DEF Moves
<1>3. Busy' = Busy /\ Records' = Records BY <1>a, BusyStays
<1>4. Types' BY <1>2, <1>a, <1>d, Parts DEF Types
<1>5. QueueInv(tm', flying, call, txn + 1)
  <2>1. ~Awaited(flying) BY <1>c DEF Awaited
  <2>2. Fitting(tm', call, txn + 1, flying) BY <1>c DEF Fitting
  <2> QED BY <2>1, <2>2, <1>2, NoElements DEF QueueInv
<1>6. StateInv(tm', flying, call, txn + 1, Busy)
  <2>1. \A k : call # Asked(k) BY <1>b DEF Asked
  <2> QED BY <2>1, <1>2, <1>b, <1>c, <1>d DEF StateInv, Working
<1>7. AnswerInv(tm', flying, coord, Busy)
  <2>1. \A g \in Elems(tm'.queue) \cup {flying} : g.kind # "offset_commit"
    BY <1>2, <1>c, NoElements
  <2> QED BY <2>1, <1>2, <1>c DEF AnswerInv
<1>8. ASSUME NEW r \in Records
      PROVE  /\ rec[r].txn \in 1 .. txn /\ rec[r].txn # txn + 1 /\ rec[r].txn \in 1 .. txn + 1
             /\ rec[r].final # "none" /\ rec[r].log # "pending"
  <2>1. RecordInv(tm.state, tm.added, tm.started, SealedNow, txn, coord, rec[r])
    BY Parts DEF DataInv
  <2> QED BY <2>1, <1>a, <1>d DEF RecordInv, Working
<1>9. ASSUME NEW n \in Txns
      PROVE  /\ n >= txn + 1 => group[n] = "none" /\ fate[n] = "none"
             /\ group[n] # "pending" /\ n \in Nat
  <2>1. OffsetsInv(tm.state, tm.started, SealedNow, txn, coord, n, group[n])
    BY Parts DEF DataInv
  <2>2. fate[n] # "none" => n < txn \/ (n = txn /\ tm.state = "READY") BY Parts DEF FateInv
  <2>3. n \in Nat BY DEF Txns
  <2> QED BY <2>1, <2>2, <2>3, <1>c, <1>d DEF OffsetsInv
<1>10. DataInv'
  <2>1. \A r \in Records :
          RecordInv(tm'.state, tm'.added, tm'.started, SealedNow', txn + 1, coord, rec[r])
    <3> SUFFICES ASSUME NEW r \in Records
                 PROVE  RecordInv(tm'.state, tm'.added, tm'.started, SealedNow', txn + 1, coord, rec[r])
      OBVIOUS
    <3>1. RecordInv(tm.state, tm.added, tm.started, SealedNow, txn, coord, rec[r])
      BY Parts DEF DataInv
    <3> QED BY <3>1, <1>8 DEF RecordInv
  <2>2. \A n \in Txns : OffsetsInv(tm'.state, tm'.started, SealedNow', txn + 1, coord, n, group[n])
    <3> SUFFICES ASSUME NEW n \in Txns
                 PROVE  OffsetsInv(tm'.state, tm'.started, SealedNow', txn + 1, coord, n, group[n])
      OBVIOUS
    <3>1. n > txn + 1 => n >= txn + 1 BY <1>9, <1>d
    <3>2. n = txn + 1 => n >= txn + 1 BY <1>9, <1>d
    <3> QED BY <3>1, <3>2, <1>9 DEF OffsetsInv
  <2> QED BY <2>1, <2>2, <1>3, <1>a DEF DataInv
<1>11. FateInv'
  <2>1. /\ \A n : Of(n)' = Of(n)
        /\ \A n : (Committed(n)' <=> Committed(n)) /\ (Aborted(n)' <=> Aborted(n))
                  /\ (Whole(n)' <=> Whole(n))
    <3>1. \A n : Of(n)' = Of(n) BY <1>3, <1>a DEF Of
    <3> QED BY <3>1, <1>a DEF Committed, Aborted, Whole
  <2>2. \A n \in 1 .. txn + 1 : Whole(n)
    <3> SUFFICES ASSUME NEW n \in 1 .. txn + 1 PROVE Whole(n) OBVIOUS
    <3>1. CASE n = txn + 1
      <4>1. Of(n) = {} BY <3>1, <1>8 DEF Of
      <4> QED BY <4>1 DEF Whole
    <3>2. CASE n # txn + 1
      <4>1. n \in 1 .. txn BY <3>2, <1>d
      <4> QED BY <4>1, Parts DEF FateInv
    <3> QED BY <3>1, <3>2
  <2>3. \A n \in Txns :
          /\ fate[n] # "none" => n < txn + 1
          /\ fate[n] = "commit" => Committed(n)
          /\ fate[n] = "abort" => Aborted(n)
    <3>1. \A n \in Txns : ~(n >= txn + 1) => n < txn + 1 BY <1>9, <1>d
    <3> QED BY <3>1, <1>9, Parts DEF FateInv
  <2> QED BY <2>1, <2>2, <2>3, <1>a, <1>b, <1>c DEF FateInv
<1> QED BY <1>3, <1>4, <1>5, <1>6, <1>7, <1>10, <1>11, <1>a, <1>c DEF IInv, ClientInv

LEMMA SendKeeps ==
  ASSUME IInv, ~Gap, NEW p \in Partition, Send(p)
  PROVE  IInv'
<1>a. /\ call = Idle /\ tm.state = "IN_TRANSACTION" /\ ~clear
      /\ ~coord.fenced /\ flying.res # "fatal" /\ tm' = NewPartitions(p)
      /\ UNCHANGED <<flying, clear, call, txn, fate, coord, group, faults>>
  BY DEF Send, Doomed
<1>b. call.kind = "none" /\ call.res = "none" /\ \A k : call # Asked(k)
  BY <1>a DEF Idle, Asked
<1>n. PICK n : n = Len(rec) OBVIOUS
<1>e. PICK e : e = [tp |-> p, txn |-> txn, at |-> "queue", res |-> "none",
                    tries |-> 0, final |-> "none", log |-> "none"]
  OBVIOUS
<1>c. rec' = Append(rec, e) BY <1>e DEF Send
<1>1. /\ n \in Nat /\ Len(rec') = n + 1 /\ rec' \in Seq(RecordRec)
      /\ \A r \in 1 .. n : rec'[r] = rec[r]
      /\ rec'[n + 1] = e
  <2>1. e \in RecordRec BY <1>e, Parts DEF RecordRec, Logs
  <2>2. rec \in Seq(RecordRec) BY Parts DEF Types
  <2> QED BY <2>1, <2>2, <1>c, <1>n, AppendProperties
<1>2. /\ Records = 1 .. n /\ Records' = 1 .. n + 1 /\ n + 1 \in Records' /\ n + 1 \notin Records
      /\ \A r \in Records' : r \in Records \/ r = n + 1
      /\ \A r \in Records : r \in Records' /\ rec'[r] = rec[r]
  BY <1>1, <1>n DEF Records
<1>3. Busy' = TRUE
  <2>1. rec'[n + 1].final = "none" BY <1>1, <1>e
  <2> QED BY <2>1, <1>2 DEF Busy, Incomplete
<1>4. /\ tm' \in Manager /\ tm'.state = tm.state /\ tm'.queue = tm.queue /\ tm'.pending = tm.pending
      /\ tm'.added = tm.added /\ tm'.started = tm.started /\ tm'.offsets = tm.offsets
      /\ \/ tm'.new = tm.new
         \/ tm'.new = tm.new \cup {p} /\ p \notin tm.added \cup tm.pending
  <2>1. CASE p \in tm.added \cup tm.pending
    <3>1. tm' = tm BY <2>1, <1>a DEF NewPartitions
    <3> QED BY <3>1, Parts
  <2>2. CASE p \notin tm.added \cup tm.pending
    <3>1. tm' = [tm EXCEPT !.new = @ \cup {p}] BY <2>2, <1>a DEF NewPartitions
    <3> QED BY <3>1, <2>2, Parts DEF Manager
  <2> QED BY <2>1, <2>2
<1>5. Types' BY <1>1, <1>4, <1>a, Parts DEF Types
<1>6. flying.kind # "end" /\ flying.kind # "init"
  BY <1>a, <1>b, Parts DEF StateInv, QueueInv, Fitting, Ending
<1>7. QueueInv(tm', flying, call, txn)
  <2>1. \A h : Fitting(tm, call, txn, h) => Fitting(tm', call, txn, h)
    <3> SUFFICES ASSUME NEW h, Fitting(tm, call, txn, h) PROVE Fitting(tm', call, txn, h)
      OBVIOUS
    <3>1. h.kind = "add" => h.parts \cap tm'.new = {} BY <1>4, <1>a DEF Fitting
    <3> QED BY <3>1, <1>4 DEF Fitting
  <2> QED BY <2>1, <1>4, Parts DEF QueueInv
<1>8. StateInv(tm', flying, call, txn, TRUE)
  <2>1. tm'.new \cap (tm'.pending \cup tm'.added) = {} BY <1>4, Parts DEF StateInv
  <2> QED BY <2>1, <1>4, <1>6, <1>a, <1>b, Parts DEF StateInv
<1>9. AnswerInv(tm', flying, coord, TRUE)
  BY <1>4, <1>a, Parts DEF AnswerInv, Ending
<1>10. DataInv'
  <2>1. \A r \in Records :
          RecordInv(tm'.state, tm'.added, tm'.started, SealedNow', txn, coord, rec[r])
    <3>1. tm.state \notin Ending BY <1>a DEF Ending
    <3> QED BY <3>1, <1>4, RecordStays, Parts DEF DataInv
  <2>2. RecordInv(tm'.state, tm'.added, tm'.started, SealedNow', txn, coord, e)
    <3>1. txn # 0 /\ txn \in Nat BY <1>a, Parts DEF StateInv, Working
    <3> QED BY <3>1, <1>4, <1>a, <1>e DEF RecordInv, Working
  <2>3. \A m \in Txns : OffsetsInv(tm'.state, tm'.started, SealedNow', txn, coord, m, group[m])
    <3>1. tm.state \notin Ending BY <1>a DEF Ending
    <3> QED BY <3>1, <1>4, OffsetsStay, Parts DEF DataInv
  <2> QED BY <2>1, <2>2, <2>3, <1>1, <1>2, <1>a DEF DataInv
<1>11. FateInv'
  <2>1. \A m : /\ Of(m) \subseteq Of(m)' /\ \A r \in Of(m)' : r \in Of(m) \/ (r = n + 1 /\ m = txn)
               /\ \A r \in Of(m) : r \in Records /\ rec'[r] = rec[r]
    BY <1>1, <1>2, <1>e DEF Of
  <2>2. \A m : m # txn => Of(m)' = Of(m) BY <2>1
  <2>3. \A m : m # txn => /\ Committed(m) => Committed(m)'
                          /\ Aborted(m) => Aborted(m)'
                          /\ Whole(m) => Whole(m)'
    BY <2>1, <2>2, <1>a DEF Committed, Aborted, Whole
  <2>4. \A r \in Of(txn) : rec[r].log # "committed"
    <3> SUFFICES ASSUME NEW r \in Of(txn) PROVE rec[r].log # "committed" OBVIOUS
    <3>1. r \in Records /\ rec[r].txn = txn BY DEF Of
    <3>2. RecordInv(tm.state, tm.added, tm.started, SealedNow, txn, coord, rec[r])
      BY <3>1, Parts DEF DataInv
    <3> QED BY <3>1, <3>2, <1>a DEF RecordInv, Marks
  <2>x. PICK x : x = txn OBVIOUS
  <2>5. Whole(x)'
    <3>0. rec'[n + 1].log = "none" BY <1>1, <1>e
    <3>1. ASSUME NEW r \in Of(x)' PROVE rec'[r].log # "committed"
      <4>1. r \in Of(x) \/ r = n + 1 BY <2>1
      <4>2. r \in Of(x) => rec'[r] = rec[r] BY <2>1
      <4> QED BY <4>1, <4>2, <3>0, <2>4, <2>x
    <3> QED BY <3>1 DEF Whole
  <2>6. \A m \in Txns : fate[m] # "none" => m # txn
    <3>1. \A m \in Txns : m \in Nat BY DEF Txns
    <3> QED BY <3>1, <1>a, Parts DEF FateInv
  <2> QED BY <2>3, <2>x, <2>5, <2>6, <1>4, <1>6, <1>a, <1>b, Parts DEF FateInv
<1> QED BY <1>3, <1>5, <1>7, <1>8, <1>9, <1>10, <1>11, <1>a DEF IInv, ClientInv

LEMMA SendOffsetsKeeps ==
  ASSUME IInv, SendOffsets
  PROVE  IInv'
<1>a. /\ tm.state = "IN_TRANSACTION" /\ Called("offsets")
      /\ tm' = Enqueued(tm, [Request("offsets") EXCEPT !.offsets = {txn}])
      /\ UNCHANGED <<flying, clear, rec, txn, fate, coord, group, faults>>
  BY DEF SendOffsets
<1>b. /\ call = Idle /\ call' = Asked("offsets") /\ call'.kind = "offsets" /\ call'.res = "pending"
      /\ call.kind = "none" /\ call.res = "none" /\ \A k : call # Asked(k)
  BY <1>a, Asks DEF Idle, Asked
<1>1. PICK h : h = [Request("offsets") EXCEPT !.offsets = {txn}] OBVIOUS
<1>2. h \in RequestRec /\ h.kind = "offsets" /\ h.res = "none" /\ h.offsets = {txn}
  BY <1>1, Parts DEF Request, RequestRec, Kinds, Answers
<1>3. ~Awaited(flying) /\ \A g \in Elems(tm.queue) : ~Awaited(g) BY <1>b, NobodyWaits
<1>4. Extends(tm, tm', {h})
  <2>1. Sorted(tm.queue) /\ Once(tm.queue) /\ tm \in Manager BY Parts DEF QueueInv
  <2> QED BY <2>1, <1>a, <1>1, <1>2, <1>3, EnqueuedExtends
<1>5. SameBut(tm, tm') /\ tm' \in Manager /\ Elems(tm'.queue) = Elems(tm.queue) \cup {h}
  BY <1>4 DEF Extends, SameBut
<1>6. Busy' = Busy /\ Records' = Records BY <1>a, BusyStays
<1>7. call' \in CallRec BY <1>b DEF Asked, CallRec
<1>8. Types' BY <1>5, <1>7, <1>a, Parts DEF Types
<1>9. \A g : Fitting(tm, call, txn, g) => Fitting(tm, call', txn, g)
  BY <1>b DEF Fitting
<1>10. QueueInv(tm', flying, call', txn)
  <2>1. Fitting(tm, call', txn, h) BY <1>2, <1>a, <1>b DEF Fitting
  <2>2. QueueInv(tm, flying, call', txn) BY <1>9, Parts DEF QueueInv
  <2>3. Fitting(tm, call', txn, flying) BY <2>2 DEF QueueInv
  <2> QED BY <2>1, <2>2, <2>3, <1>2, <1>3, <1>4, QueueExtended
<1>11. flying.kind \notin {"init", "end"} BY <1>3 DEF Awaited
<1>12. StateInv(tm', flying, call', txn, Busy)
  BY <1>5, <1>11, <1>a, <1>b, Parts DEF StateInv, SameBut, Asked
<1>13. AnswerInv(tm', flying, coord, Busy)
  BY <1>2, <1>5, <1>a, Parts DEF AnswerInv, SameBut, Ending
<1>14. DataInv'
  <2>1. tm.state \notin Ending BY <1>a DEF Ending
  <2> QED BY <2>1, <1>5, <1>a, DataStays DEF SameBut
<1>15. FateInv' BY <1>5, <1>11, <1>a, <1>b, FatesStay DEF SameBut
<1> QED BY <1>6, <1>8, <1>10, <1>12, <1>13, <1>14, <1>15, <1>a, Parts DEF IInv, ClientInv

-----------------------------------------------------------------------------
(* The end of a transaction begins                                         *)

\* The manager u is t with its new partitions on their way.
Queues(t, u) ==
  /\ u \in Manager /\ u.state = t.state /\ u.new = {} /\ u.pending = t.pending \cup t.new
  /\ u.added = t.added /\ u.started = t.started /\ u.offsets = t.offsets
  /\ Sorted(u.queue) /\ Once(u.queue) /\ (t.new = {} => u.queue = t.queue)
  /\ \A h \in Elems(u.queue) : \/ h \in Elems(t.queue)
                               \/ h.kind = "add" /\ h.res = "none" /\ h.parts = u.pending

LEMMA PartitionsQueuedIs ==
  ASSUME NEW t \in Manager, Sorted(t.queue), Once(t.queue)
  PROVE  Queues(t, PartitionsQueued(t))
<1>1. CASE t.new = {}
  <2>1. PartitionsQueued(t) = t BY <1>1 DEF PartitionsQueued
  <2>2. t.pending = t.pending \cup t.new BY <1>1
  <2> QED BY <1>1, <2>1, <2>2 DEF Queues
<1>2. CASE t.new # {}
  <2>1. PICK a : a = [t EXCEPT !.pending = @ \cup t.new, !.new = {}] OBVIOUS
  <2>2. /\ a \in Manager /\ a.state = t.state /\ a.new = {} /\ a.pending = t.pending \cup t.new
        /\ a.added = t.added /\ a.started = t.started /\ a.offsets = t.offsets
        /\ a.queue = t.queue
    BY <2>1 DEF Manager
  <2>3. PICK h : h = [Request("add") EXCEPT !.parts = t.pending \cup t.new] OBVIOUS
  <2>4. h \in RequestRec /\ h.kind = "add" /\ h.res = "none" /\ h.parts = t.pending \cup t.new
    BY <2>3 DEF Manager, Request, RequestRec, Kinds, Answers
  <2>5. PartitionsQueued(t) = Enqueued(a, h) BY <1>2, <2>1, <2>3 DEF PartitionsQueued
  <2>6. ~Awaited(h) BY <2>4 DEF Awaited
  <2>7. Extends(a, PartitionsQueued(t), {h}) BY <2>2, <2>4, <2>5, <2>6, EnqueuedExtends
  <2> QED BY <1>2, <2>2, <2>4, <2>7 DEF Queues, Extends, SameBut
<1> QED BY <1>1, <1>2

\* A record, and offsets, when the manager moves on within the transaction or
\* to a fatal error.
LEMMA RecordMoved ==
  ASSUME NEW s, NEW s2, NEW a, NEW st, NEW se, NEW sf, NEW x, NEW co, NEW r,
         RecordInv(s, a, st, se, x, co, r), ~(s \in Ending /\ se), s # "READY",
         s \in Working /\ s2 \in Working, s2 = "IN_TRANSACTION" => s = "IN_TRANSACTION",
         s2 = "COMMITTING_TRANSACTION" => s \in {"IN_TRANSACTION", "COMMITTING_TRANSACTION"}
  PROVE  RecordInv(s2, a, st, sf, x, co, r)
<1>1. s2 # "READY" /\ s # "FATAL_ERROR" BY DEF Working
<1>2. \A e \in Ending : ~Marks(s, se, e) BY <1>1 DEF Marks
<1>3. "COMMITTING_TRANSACTION" \in Ending /\ "ABORTING_TRANSACTION" \in Ending BY DEF Ending
<1> QED BY <1>1, <1>2, <1>3 DEF RecordInv

LEMMA OffsetsMoved ==
  ASSUME NEW s, NEW s2, NEW st, NEW se, NEW sf, NEW x, NEW co, NEW n, NEW g,
         OffsetsInv(s, st, se, x, co, n, g), ~(s \in Ending /\ se), s \in Working
  PROVE  OffsetsInv(s2, st, sf, x, co, n, g)
<1>1. s # "READY" /\ s # "FATAL_ERROR" BY DEF Working
<1>2. ~Marks(s, se, "COMMITTING_TRANSACTION") BY <1>1 DEF Marks, Ending
<1> QED BY <1>2 DEF OffsetsInv

LEMMA DataMoved ==
  ASSUME IInv, UNCHANGED <<rec, txn, coord, group>>, tm'.added = tm.added,
         tm'.started = tm.started, ~(tm.state \in Ending /\ SealedNow),
         tm.state \in Working /\ tm'.state \in Working,
         tm'.state = "IN_TRANSACTION" => tm.state = "IN_TRANSACTION",
         tm'.state = "COMMITTING_TRANSACTION" =>
           tm.state \in {"IN_TRANSACTION", "COMMITTING_TRANSACTION"}
  PROVE  DataInv'
<1>0. tm.state # "READY" BY DEF Working
<1>1. Records' = Records BY DEF Records
<1>2. \A r \in Records :
        RecordInv(tm'.state, tm'.added, tm'.started, SealedNow', txn, coord, rec[r])
  BY <1>0, RecordMoved, Parts DEF DataInv
<1>3. \A n \in Txns :
        OffsetsInv(tm'.state, tm'.started, SealedNow', txn, coord, n, group[n])
  BY OffsetsMoved, Parts DEF DataInv
<1> QED BY <1>1, <1>2, <1>3 DEF DataInv

\* The fates of transactions when the manager is not READY.
LEMMA FatesMoved ==
  ASSUME IInv, UNCHANGED <<rec, txn, fate, group>>, tm.state # "READY",
         call'.res = "ok" => call.res = "ok" /\ call'.kind = call.kind,
         flying'.kind = "end" /\ flying'.res = "ok" =>
           flying.kind = "end" /\ flying.res = "ok" /\ call'.kind = call.kind
  PROVE  FateInv'
<1>1. Records' = Records BY DEF Records
<1>2. \A n : Of(n)' = Of(n) BY <1>1 DEF Of
<1>3. \A n : (Committed(n)' <=> Committed(n)) /\ (Aborted(n)' <=> Aborted(n)) /\ (Whole(n)' <=> Whole(n))
  BY <1>2 DEF Committed, Aborted, Whole
<1>4. \A k : Outcome(k)' <=> Outcome(k) BY <1>3 DEF Outcome
<1>5. NothingPending' <=> NothingPending BY <1>1 DEF NothingPending
<1>6. /\ \A n \in 1 .. txn : Whole(n)
      /\ \A n \in Txns :
           /\ fate[n] # "none" => n < txn
           /\ fate[n] = "commit" => Committed(n)
           /\ fate[n] = "abort" => Aborted(n)
      /\ call.res = "ok" => Outcome(call.kind)
      /\ flying.kind = "end" /\ flying.res = "ok" => NothingPending /\ Outcome(call.kind)
  BY Parts DEF FateInv
<1> QED BY <1>3, <1>4, <1>5, <1>6 DEF FateInv

\* begin_commit and begin_abort, from the manager u with its queue of before
\* and what was new.
LEMMA EndKeeps ==
  ASSUME IInv, NEW kind \in {"commit", "abort"}, Called(kind), NEW u \in Manager,
         tm.state \in {"IN_TRANSACTION", "ABORTABLE_ERROR"},
         kind = "commit" => tm.state = "IN_TRANSACTION",
         u.state = IF kind = "commit" THEN "COMMITTING_TRANSACTION" ELSE "ABORTING_TRANSACTION",
         u.new = {}, u.added = tm.added, u.started = tm.started, u.offsets = tm.offsets,
         Sorted(u.queue), Once(u.queue),
         \A h \in Elems(u.queue) : h \in Elems(tm.queue) \/ (h.kind = "add" /\ h.res = "none"),
         tm' = Enqueued(u, End(kind = "commit")),
         UNCHANGED <<flying, clear, rec, txn, fate, coord, group, faults>>
  PROVE  IInv'
<1>b. /\ call = Idle /\ call' = Asked(kind) /\ call'.kind = kind /\ call'.res = "pending"
      /\ call.kind = "none" /\ call.res = "none" /\ \A k : call # Asked(k)
  BY Asks DEF Idle, Asked
<1>c. \A k : call' = Asked(k) => k = kind BY <1>b DEF Asked
<1>s. u.state \in Ending /\ u.state \in Working /\ u.state \in {"COMMITTING_TRANSACTION", "ABORTING_TRANSACTION"}
  BY DEF Ending, Working
<1>1. PICK e : e = End(kind = "commit") OBVIOUS
<1>2. e \in RequestRec /\ e.kind = "end" /\ e.res = "none" /\ (e.commit <=> kind = "commit")
  BY <1>1 DEF End, Request, RequestRec, Kinds, Answers
<1>3. ~Awaited(flying) /\ \A g \in Elems(tm.queue) : ~Awaited(g) BY <1>b, NobodyWaits
<1>4. \A g \in Elems(u.queue) : ~Awaited(g) BY <1>3 DEF Awaited
<1>5. Extends(u, tm', {e}) BY <1>1, <1>2, <1>4, EnqueuedExtends
<1>6. /\ tm' \in Manager /\ tm'.state = u.state /\ tm'.new = {} /\ tm'.added = tm.added
      /\ tm'.started = tm.started /\ tm'.offsets = tm.offsets
      /\ Elems(tm'.queue) = Elems(u.queue) \cup {e} /\ Sorted(tm'.queue) /\ Once(tm'.queue)
  BY <1>5 DEF Extends, SameBut
<1>7. tm.offsets = {} BY <1>b, Parts DEF StateInv
<1>8. Busy' = Busy /\ Records' = Records BY BusyStays
<1>9. call' \in CallRec BY <1>b DEF Asked, CallRec
<1>10. Types' BY <1>6, <1>9, Parts DEF Types
<1>11. flying.kind \notin {"init", "offsets", "offset_commit", "end"} BY <1>3 DEF Awaited
<1>12. QueueInv(tm', flying, call', txn)
  <2>1. \A h : h.kind \in {"none", "find", "add"} => Fitting(tm', call', txn, h)
    BY <1>6, <1>s DEF Fitting
  <2>2. Fitting(tm', call', txn, e) BY <1>2, <1>6, <1>b, <1>s DEF Fitting
  <2>3. \A h \in Elems(u.queue) : h.kind \in {"find", "add"} /\ h.res = "none"
    <3>1. \A h \in Elems(tm.queue) : h \in RequestRec /\ h.kind # "none" /\ h.res = "none"
      BY Parts DEF QueueInv, Elems
    <3>2. \A h \in Elems(tm.queue) : h.kind \in {"find", "add"}
      BY <3>1, <1>3 DEF Awaited, RequestRec, Kinds
    <3> QED BY <3>1, <3>2
  <2>4. flying.kind \in {"none", "find", "add"} BY <1>11, Parts DEF RequestRec, Kinds
  <2> QED BY <2>1, <2>2, <2>3, <2>4, <1>2, <1>3, <1>6 DEF QueueInv
<1>13. StateInv(tm', flying, call', txn, Busy)
  <2>1. txn # 0 BY Parts DEF StateInv, Working
  <2>2. tm.added # {} => tm.started BY Parts DEF StateInv
  <2>3. flying.kind = "none" => flying.res = "none" BY Parts DEF StateInv
  <2> QED BY <2>1, <2>2, <2>3, <1>6, <1>7, <1>11, <1>b, <1>c DEF StateInv
<1>14. AnswerInv(tm', flying, coord, Busy)
  <2>1. \A g \in Elems(tm'.queue) \cup {flying} : g.kind # "offset_commit"
    BY <1>2, <1>4, <1>6, <1>11 DEF Awaited
  <2> QED BY <2>1, <1>6, Parts DEF AnswerInv, Ending
<1>15. DataInv'
  <2>1. tm.state \in Working /\ tm.state \notin Ending BY DEF Ending, Working
  <2> QED BY <2>1, <1>6, <1>s, DataMoved
<1>16. FateInv' BY <1>11, <1>b, FatesMoved
<1> QED BY <1>8, <1>10, <1>12, <1>13, <1>14, <1>15, <1>16, Parts DEF IInv, ClientInv

LEMMA CommitTransactionKeeps ==
  ASSUME IInv, CommitTransaction
  PROVE  IInv'
<1>a. /\ tm.state = "IN_TRANSACTION" /\ Called("commit")
      /\ tm' = Enqueued(PartitionsQueued(Moved(tm, "COMMITTING_TRANSACTION")), End(TRUE))
      /\ UNCHANGED <<flying, clear, rec, txn, fate, coord, group, faults>>
  BY DEF CommitTransaction, Valid
<1>1. PICK t : t = Moved(tm, "COMMITTING_TRANSACTION") OBVIOUS
<1>2. Moves(tm, t, "COMMITTING_TRANSACTION") BY <1>1, Parts, MovedMoves DEF States
<1>3. PICK u : u = PartitionsQueued(t) OBVIOUS
<1>4. Sorted(tm.queue) /\ Once(tm.queue) BY Parts DEF QueueInv
<1>5. Queues(t, u) BY <1>2, <1>3, <1>4, PartitionsQueuedIs DEF Moves
<1>6. /\ u \in Manager /\ u.state = "COMMITTING_TRANSACTION" /\ u.new = {} /\ u.added = tm.added
      /\ u.started = tm.started /\ u.offsets = tm.offsets /\ Sorted(u.queue) /\ Once(u.queue)
      /\ \A h \in Elems(u.queue) : h \in Elems(tm.queue) \/ (h.kind = "add" /\ h.res = "none")
  BY <1>2, <1>5 DEF Moves, Queues
<1>7. tm' = Enqueued(u, End("commit" = "commit")) BY <1>a, <1>1, <1>3
<1> QED BY <1>6, <1>7, <1>a, EndKeeps

LEMMA AbortTransactionKeeps ==
  ASSUME IInv, AbortTransaction
  PROVE  IInv'
<1>a. /\ tm.state \in {"IN_TRANSACTION", "ABORTABLE_ERROR"} /\ Called("abort")
      /\ tm' = Enqueued([Moved(tm, "ABORTING_TRANSACTION") EXCEPT !.new = {}], End(FALSE))
      /\ UNCHANGED <<flying, clear, rec, txn, fate, coord, group, faults>>
  BY DEF AbortTransaction, Valid
<1>1. PICK t : t = Moved(tm, "ABORTING_TRANSACTION") OBVIOUS
<1>2. Moves(tm, t, "ABORTING_TRANSACTION") BY <1>1, Parts, MovedMoves DEF States
<1>3. PICK u : u = [t EXCEPT !.new = {}] OBVIOUS
<1>4. /\ u \in Manager /\ u.state = "ABORTING_TRANSACTION" /\ u.new = {} /\ u.added = tm.added
      /\ u.started = tm.started /\ u.offsets = tm.offsets /\ u.queue = tm.queue
  BY <1>2, <1>3 DEF Moves, Manager
<1>5. Sorted(tm.queue) /\ Once(tm.queue) BY Parts DEF QueueInv
<1>6. tm' = Enqueued(u, End("abort" = "commit")) BY <1>a, <1>1, <1>3
<1> QED BY <1>4, <1>5, <1>6, <1>a, EndKeeps

\* A call returns.
LEMMA ReturnKeeps ==
  ASSUME IInv, Return
  PROVE  IInv'
<1>a. /\ call.res \in {"ok", "error"} /\ call' = Idle
      /\ UNCHANGED <<tm, flying, clear, rec, txn, coord, group, faults>>
  BY DEF Return
<1>b. call'.kind = "none" /\ call'.res = "none" /\ (\A k : call' # Asked(k)) /\ call' \in CallRec
  BY <1>a DEF Idle, Asked, CallRec
<1>c. \A k : call # Asked(k) BY <1>a DEF Asked
<1>1. ~Awaited(flying) /\ \A h \in Elems(tm.queue) : ~Awaited(h) BY <1>a, NobodyWaits
<1>2. Busy' = Busy /\ Records' = Records BY <1>a, BusyStays
<1>3. ASSUME call.kind \in {"commit", "abort"} /\ call.res = "ok"
      PROVE  /\ txn \in Txns /\ tm.state = "READY" /\ fate' = [fate EXCEPT ![txn] = call.kind]
             /\ call.kind = "commit" => Committed(txn)
             /\ call.kind = "abort" => Aborted(txn)
  <2>1. txn # 0 /\ tm.state = "READY" BY <1>3, Parts DEF StateInv
  <2>2. txn \in Txns BY <2>1, Parts DEF Types, Txns
  <2>3. Outcome(call.kind) BY <1>3, Parts DEF FateInv
  <2> QED BY <2>1, <2>2, <2>3, <1>3 DEF Outcome, Return
<1>4. ~(call.kind \in {"commit", "abort"} /\ call.res = "ok") => fate' = fate BY DEF Return
<1>f. PICK f : f = fate' OBVIOUS
<1>5. f \in [Txns -> {"none", "commit", "abort"}] BY <1>3, <1>4, <1>f, Parts DEF Types
<1>6. Types' BY <1>5, <1>f, <1>a, <1>b, Parts DEF Types
<1>7. QueueInv(tm, flying, call', txn)
  <2>1. \A h : ~Awaited(h) /\ Fitting(tm, call, txn, h) => Fitting(tm, call', txn, h)
    BY DEF Awaited, Fitting
  <2> QED BY <2>1, <1>1, Parts DEF QueueInv
<1>8. StateInv(tm, flying, call', txn, Busy)
  <2>1. tm.state # "UNINITIALIZED" \/ call' = Idle BY <1>a
  <2> QED BY <2>1, <1>1, <1>a, <1>b, <1>c, Parts DEF StateInv, Awaited
<1>9. DataInv'
  <2>1. SealedNow' = SealedNow BY <1>2, <1>a DEF SealedNow
  <2> QED BY <2>1, <1>a, DataStays
<1>10. FateInv'
  <2>1. \A n : Of(n)' = Of(n) BY <1>2, <1>a DEF Of
  <2>2. \A n : (Committed(n)' <=> Committed(n)) /\ (Aborted(n)' <=> Aborted(n)) /\ (Whole(n)' <=> Whole(n))
    BY <2>1, <1>a DEF Committed, Aborted, Whole
  <2>3. \A n \in Txns :
          /\ f[n] # "none" => n < txn \/ (n = txn /\ tm.state = "READY")
          /\ f[n] = "commit" => Committed(n)
          /\ f[n] = "abort" => Aborted(n)
    <3>1. CASE call.kind \in {"commit", "abort"} /\ call.res = "ok"
      <4>1. f = [fate EXCEPT ![txn] = call.kind] BY <1>3, <1>f, <3>1
      <4>2. \A n \in Txns : f[n] = IF n = txn THEN call.kind ELSE fate[n]
        BY <4>1, <1>3, <3>1, Parts DEF Types
      <4> QED BY <4>2, <1>3, <3>1, Parts DEF FateInv
    <3>2. CASE ~(call.kind \in {"commit", "abort"} /\ call.res = "ok")
      BY <3>2, <1>4, <1>f, Parts DEF FateInv
    <3> QED BY <3>1, <3>2
  <2>4. flying.kind # "end" BY <1>1 DEF Awaited
  <2> QED BY <2>2, <2>3, <2>4, <1>f, <1>a, <1>b, Parts DEF FateInv
<1>11. AnswerInv(tm, flying, coord, Busy) BY Parts
<1> QED BY <1>2, <1>6, <1>7, <1>8, <1>9, <1>10, <1>11, <1>a, Parts DEF IInv, ClientInv


-----------------------------------------------------------------------------
(* Steps of records                                                        *)

\* With fewer records incomplete.
LEMMA BusyLess ==
  ASSUME NEW t, NEW f, NEW c, NEW x, NEW co, NEW b, NEW d, d => b
  PROVE  /\ Sealed(t, f, b) => Sealed(t, f, d)
         /\ StateInv(t, f, c, x, b) => StateInv(t, f, c, x, d)
         /\ AnswerInv(t, f, co, b) => AnswerInv(t, f, co, d)
<1>1. Sealed(t, f, b) => Sealed(t, f, d) BY DEF Sealed
<1>2. StateInv(t, f, c, x, b) => StateInv(t, f, c, x, d) BY <1>1 DEF StateInv
<1>3. AnswerInv(t, f, co, b) => AnswerInv(t, f, co, d) BY <1>1 DEF AnswerInv
<1> QED BY <1>1, <1>2, <1>3

\* Whether records are committed stays, and so do results that are ok.
LEMMA FatesKept ==
  ASSUME IInv, UNCHANGED <<tm, flying, call, txn, fate, group>>, Records' = Records,
         \A r \in Records : /\ rec'[r].txn = rec[r].txn
                            /\ rec'[r].log = "committed" <=> rec[r].log = "committed"
                            /\ rec[r].final = "ok" => rec'[r].final = "ok",
         flying.kind # "end"
  PROVE  FateInv'
<1>1. \A n : Of(n)' = Of(n) /\ Of(n) \subseteq Records BY DEF Of
<1>2. \A n : (Committed(n) => Committed(n)') /\ (Aborted(n) => Aborted(n)') /\ (Whole(n) => Whole(n)')
  BY <1>1 DEF Committed, Aborted, Whole
<1>3. \A k : Outcome(k) => Outcome(k)' BY <1>2 DEF Outcome
<1> QED BY <1>2, <1>3, Parts DEF FateInv

\* Of a record while one is incomplete.
Unsealed(r) == RecordInv(tm.state, tm.added, tm.started, FALSE, txn, coord, r)

LEMMA UnsealedRecords ==
  ASSUME NEW r
  PROVE  /\ Unsealed(r) =>
              \A se : RecordInv(tm.state, tm.added, tm.started, se, txn, coord, r)
         /\ ~SealedNow /\ RecordInv(tm.state, tm.added, tm.started, SealedNow, txn, coord, r) =>
              Unsealed(r)
<1>1. Unsealed(r) => \A se : RecordInv(tm.state, tm.added, tm.started, se, txn, coord, r)
  BY DEF Unsealed, RecordInv, Marks
<1>2. ~SealedNow /\ RecordInv(tm.state, tm.added, tm.started, SealedNow, txn, coord, r) =>
        Unsealed(r)
  BY DEF Unsealed, RecordInv, Marks
<1> QED BY <1>1, <1>2

\* One record changes.
LEMMA RecordStepKeeps ==
  ASSUME IInv, UNCHANGED <<tm, flying, call, txn, fate, coord, group>>, clear' \in BOOLEAN,
         clear' => ~Busy, NEW q \in Records, NEW e \in RecordRec, rec' = [rec EXCEPT ![q] = e],
         Busy, Unsealed(e),
         e.txn = rec[q].txn, e.log = "committed" <=> rec[q].log = "committed",
         rec[q].final = "none"
  PROVE  IInv'
<1>n. PICK n : n = Len(rec) OBVIOUS
<1>0. n \in Nat /\ rec \in Seq(RecordRec) /\ Records = 1 .. n
  BY <1>n, Parts DEF Types, Records
<1>1. /\ rec' \in Seq(RecordRec) /\ Len(rec') = n
      /\ \A r \in 1 .. n : rec'[r] = IF r = q THEN e ELSE rec[r]
  BY <1>0, <1>n
<1>2. Records' = Records BY <1>0, <1>1 DEF Records
<1>3. Busy' => Busy OBVIOUS
<1>4. ~SealedNow BY DEF SealedNow, Sealed
<1>5. Types' BY <1>1, Parts DEF Types
<1>6. ClientInv'
  BY <1>3, BusyLess, Parts DEF ClientInv
<1>7. AnswerInv(tm, flying, coord, Busy') BY <1>3, BusyLess, Parts
<1>8. DataInv'
  <2>1. \A r \in Records :
          RecordInv(tm.state, tm.added, tm.started, SealedNow', txn, coord, rec'[r])
    <3>1. \A r \in Records :
            Unsealed(rec'[r])
      <4> SUFFICES ASSUME NEW r \in Records PROVE Unsealed(rec'[r]) OBVIOUS
      <4>1. RecordInv(tm.state, tm.added, tm.started, SealedNow, txn, coord, rec[r])
        BY Parts DEF DataInv
      <4>2. Unsealed(rec[r]) BY <4>1, <1>4, UnsealedRecords
      <4>3. rec'[r] = IF r = q THEN e ELSE rec[r] BY <1>0, <1>1
      <4> QED BY <4>2, <4>3
    <3> QED BY <3>1, UnsealedRecords
  <2>2. \A m \in Txns : OffsetsInv(tm.state, tm.started, SealedNow', txn, coord, m, group[m])
    BY <1>4, OffsetsStay, Parts DEF DataInv
  <2> QED BY <1>2, <2>1, <2>2 DEF DataInv
<1>9. FateInv'
  <2>1. flying.kind # "end" BY Parts DEF StateInv, Sealed
  <2>2. \A r \in Records : /\ rec'[r].txn = rec[r].txn
                           /\ rec'[r].log = "committed" <=> rec[r].log = "committed"
                           /\ rec[r].final = "ok" => rec'[r].final = "ok"
    BY <1>0, <1>1
  <2> QED BY <1>2, <2>1, <2>2, FatesKept
<1> QED BY <1>3, <1>5, <1>6, <1>7, <1>8, <1>9 DEF IInv

\* What the invariant says of a record that is in flight or waits.
LEMMA OpenRecord ==
  ASSUME IInv, NEW r \in Records, rec[r].at \in {"queue", "flight"}
  PROVE  /\ rec[r] \in RecordRec /\ rec[r].final = "none" /\ rec[r].txn = txn /\ Busy
         /\ Unsealed(rec[r])
         /\ tm.state \in Working /\ ~clear /\ flying.kind # "end" /\ ~coord.fenced
         /\ rec[r].at = "flight" =>
              rec[r].tp \in tm.added /\ tm.added \subseteq coord.parts /\ tm.started
<1>1. rec[r] \in RecordRec BY Parts DEF Types, Records
<1>2. RecordInv(tm.state, tm.added, tm.started, SealedNow, txn, coord, rec[r])
  BY Parts DEF DataInv
<1>3. rec[r].final = "none" /\ rec[r].txn = txn /\ tm.state \in Working BY <1>2 DEF RecordInv
<1>4. Busy BY <1>3 DEF Busy, Incomplete
<1>5. ~SealedNow BY <1>4 DEF SealedNow, Sealed
<1>6. ~clear /\ ~coord.fenced BY <1>4, Parts DEF AnswerInv
<1>7. flying.kind # "end" BY <1>4, Parts DEF StateInv, Sealed
<1>11. Unsealed(rec[r]) BY <1>2, <1>5, UnsealedRecords
<1>8. tm.added \subseteq coord.parts
  <2>1. tm.state # "FATAL_ERROR" BY <1>3 DEF Working
  <2> QED BY <1>4, <1>6, <2>1, Parts DEF AnswerInv, Sealed
<1>9. rec[r].at = "flight" => rec[r].tp \in tm.added BY <1>2 DEF RecordInv
<1>10. tm.added # {} => tm.started BY Parts DEF StateInv
<1> QED BY <1>1, <1>3, <1>4, <1>6, <1>7, <1>8, <1>9, <1>10, <1>11

LEMMA SendProducerDataKeeps ==
  ASSUME IInv, NEW p \in Partition, SendProducerData(p)
  PROVE  IInv'
<1>1. PICK r \in Records :
        /\ Queued(r) /\ rec[r].tp = p
        /\ rec' = [rec EXCEPT ![r].at = "flight", ![r].res = "none"]
  BY DEF SendProducerData
<1>2. PICK e : e = [rec[r] EXCEPT !.at = "flight", !.res = "none"] OBVIOUS
<1>3. rec[r].at = "queue" BY <1>1 DEF Queued
<1>4. /\ e \in RecordRec /\ e.tp = p /\ e.at = "flight" /\ e.res = "none" /\ e.txn = rec[r].txn
      /\ e.log = rec[r].log /\ e.final = rec[r].final
  BY <1>1, <1>2, <1>3, OpenRecord DEF RecordRec
<1>5. rec' = [rec EXCEPT ![r] = e]
  <2>1. rec \in Seq(RecordRec) BY Parts DEF Types
  <2> QED BY <1>1, <1>2, <2>1
<1>6. p \in tm.added BY DEF SendProducerData, SendAllowed
<1>7. Unsealed(e)
  <2>1. Unsealed(rec[r]) BY <1>3, OpenRecord
  <2>2. rec[r].final = "none" /\ rec[r].tp = p BY <1>1, <1>3, OpenRecord
  <2> QED BY <2>1, <2>2, <1>3, <1>4, <1>6 DEF Unsealed, RecordInv
<1>8. clear' = FALSE /\ UNCHANGED <<tm, flying, call, txn, fate, coord, group>>
  BY DEF SendProducerData
<1> QED BY <1>3, <1>4, <1>5, <1>7, <1>8, OpenRecord, RecordStepKeeps

LEMMA BrokerAppendKeeps ==
  ASSUME IInv, NEW r \in Records, BrokerAppend(r)
  PROVE  IInv'
<1>1. /\ rec[r].at = "flight" /\ ~coord.fenced
      /\ UNCHANGED <<tm, flying, clear, call, txn, fate, coord, group, faults>>
  BY OpenRecord DEF BrokerAppend
<1>2. PICK e : e = [rec[r] EXCEPT !.res = "ok", !.log = IF @ = "none" THEN "pending" ELSE @]
  OBVIOUS
<1>3. rec' = [rec EXCEPT ![r] = e]
  <2>1. rec \in Seq(RecordRec) BY Parts DEF Types
  <2> QED BY <1>1, <1>2, <2>1 DEF BrokerAppend
<1>4. /\ e \in RecordRec /\ e.at = "flight" /\ e.res = "ok" /\ e.txn = txn /\ e.tp = rec[r].tp
      /\ e.final = "none" /\ e.txn = rec[r].txn
      /\ e.log = IF rec[r].log = "none" THEN "pending" ELSE rec[r].log
  BY <1>1, <1>2, OpenRecord DEF RecordRec, Logs
<1>5. Unsealed(e)
  <2>1. e.tp \in tm.added /\ e.tp \in coord.parts /\ tm.started /\ tm.state # "READY"
    BY <1>1, <1>4, OpenRecord DEF Working
  <2>2. e.log # "none" BY <1>4
  <2>3. Unsealed(rec[r])
    BY <1>1, OpenRecord
  <2>4. e.log # "pending" => e.log = rec[r].log BY <1>4
  <2> QED BY <1>1, <1>4, <2>1, <2>2, <2>3, <2>4 DEF Unsealed, RecordInv
<1>6. clear' \in BOOLEAN /\ (clear' => ~Busy) BY <1>1, Parts DEF Types
<1> QED BY <1>1, <1>3, <1>4, <1>5, <1>6, OpenRecord, RecordStepKeeps

LEMMA ProduceFailsKeeps ==
  ASSUME IInv, NEW r \in Records, ProduceFails(r)
  PROVE  IInv'
<1>1. /\ rec[r].at = "flight"
      /\ UNCHANGED <<tm, flying, clear, call, txn, fate, coord, group>>
  BY DEF ProduceFails
<1>2. PICK s \in {"retry", "abortable"} : rec' = [rec EXCEPT ![r].res = s]
  BY DEF ProduceFails
<1>3. PICK e : e = [rec[r] EXCEPT !.res = s] OBVIOUS
<1>4. rec' = [rec EXCEPT ![r] = e]
  <2>1. rec \in Seq(RecordRec) BY Parts DEF Types
  <2> QED BY <1>2, <1>3, <2>1
<1>5. /\ e \in RecordRec /\ e.at = "flight" /\ e.res = s /\ e.txn = rec[r].txn
      /\ e.tp = rec[r].tp /\ e.final = rec[r].final /\ e.log = rec[r].log
  BY <1>1, <1>3, OpenRecord DEF RecordRec
<1>6. Unsealed(e)
  BY <1>1, <1>5, OpenRecord DEF Unsealed, RecordInv
<1>7. clear' \in BOOLEAN /\ (clear' => ~Busy) BY <1>1, Parts DEF Types
<1> QED BY <1>1, <1>4, <1>5, <1>6, <1>7, OpenRecord, RecordStepKeeps

LEMMA LookKeeps ==
  ASSUME IInv, Look
  PROVE  IInv'
<1>1. /\ ~Busy /\ clear' = TRUE
      /\ UNCHANGED <<tm, flying, rec, call, txn, fate, coord, group, faults>>
  BY DEF Look, Busy
<1>2. Busy' = Busy BY <1>1, BusyStays
<1>3. Types' BY <1>1, Parts DEF Types
<1>4. DataInv'
  <2>1. SealedNow' = SealedNow BY <1>1, <1>2 DEF SealedNow
  <2> QED BY <1>1, <2>1, DataStays
<1>5. FateInv' BY <1>1, FatesStay
<1> QED BY <1>1, <1>2, <1>3, <1>4, <1>5, Parts DEF IInv, ClientInv

LEMMA AbortUndrainedKeeps ==
  ASSUME IInv, AbortUndrained
  PROVE  IInv'
<1>a. /\ flying = None /\ tm.state \in {"ABORTING_TRANSACTION", "ABORTABLE_ERROR"} /\ Busy
      /\ rec' = [r \in Records |-> IF r \in Incomplete
                                   THEN [rec[r] EXCEPT !.final = "aborted", !.at = "end"] ELSE rec[r]]
      /\ UNCHANGED <<tm, flying, clear, call, txn, fate, coord, group, faults>>
  BY DEF AbortUndrained, Busy
<1>n. PICK n : n = Len(rec) OBVIOUS
<1>0. n \in Nat /\ Records = 1 .. n /\ \A r \in Records : rec[r] \in RecordRec
  BY <1>n, Parts DEF Types, Records
<1>1. ASSUME NEW r \in Records
      PROVE  /\ rec'[r] \in RecordRec /\ rec'[r].txn = rec[r].txn /\ rec'[r].log = rec[r].log
             /\ rec[r].final = "ok" => rec'[r].final = "ok"
             /\ rec'[r].final # "none"
             /\ Unsealed(rec'[r])
  <2>1. Unsealed(rec[r])
    <3>1. ~SealedNow BY <1>a DEF SealedNow, Sealed
    <3>2. RecordInv(tm.state, tm.added, tm.started, SealedNow, txn, coord, rec[r])
      BY Parts DEF DataInv
    <3> QED BY <3>1, <3>2, UnsealedRecords
  <2>2. CASE r \in Incomplete
    <3>1. rec[r].final = "none" BY <2>2 DEF Incomplete
    <3>e. PICK e : e = [rec[r] EXCEPT !.final = "aborted", !.at = "end"] OBVIOUS
    <3>2. rec'[r] = e BY <1>a, <2>2, <3>e
    <3>3. /\ e \in RecordRec /\ e.txn = rec[r].txn /\ e.log = rec[r].log /\ e.tp = rec[r].tp
          /\ e.final = "aborted" /\ e.at = "end"
      BY <1>0, <3>e DEF RecordRec
    <3>4. Unsealed(e)
      BY <1>a, <2>1, <3>1, <3>3 DEF Unsealed, RecordInv
    <3> QED BY <3>1, <3>2, <3>3, <3>4
  <2>3. CASE r \notin Incomplete
    <3>1. rec'[r] = rec[r] /\ rec[r].final # "none" BY <1>a, <2>3 DEF Incomplete
    <3> QED BY <1>0, <2>1, <3>1
  <2> QED BY <2>2, <2>3
<1>2. Len(rec') = n /\ rec' \in Seq(RecordRec)
  <2>1. rec' \in [1 .. n -> RecordRec] BY <1>0, <1>1, <1>a
  <2> QED BY <2>1, <1>0, SeqDef
<1>3. Records' = Records BY <1>0, <1>2 DEF Records
<1>4. Busy' = FALSE BY <1>1, <1>3 DEF Busy, Incomplete
<1>5. Types' BY <1>2, <1>a, Parts DEF Types
<1>6. ClientInv' BY <1>4, <1>a, BusyLess, Parts DEF ClientInv
<1>7. AnswerInv(tm, flying, coord, Busy') BY <1>4, BusyLess, Parts
<1>8. DataInv'
  <2>1. \A r \in Records :
          RecordInv(tm.state, tm.added, tm.started, SealedNow', txn, coord, rec'[r])
    BY <1>1, UnsealedRecords
  <2>2. \A m \in Txns : OffsetsInv(tm.state, tm.started, SealedNow', txn, coord, m, group[m])
    <3>1. ~SealedNow BY <1>a DEF SealedNow, Sealed
    <3> QED BY <3>1, OffsetsStay, Parts DEF DataInv
  <2> QED BY <1>3, <1>a, <2>1, <2>2 DEF DataInv
<1>9. FateInv'
  <2>1. flying.kind # "end" BY <1>a DEF None, Request
  <2> QED BY <1>1, <1>3, <1>a, <2>1, FatesKept
<1> QED BY <1>4, <1>5, <1>6, <1>7, <1>8, <1>9, <1>a, Parts DEF IInv

-----------------------------------------------------------------------------
(* Errors that can be aborted                                              *)

\* The manager u is in ABORTABLE_ERROR, or goes on aborting; it may have fewer
\* partitions pending.
Errs(t, u) ==
  /\ u \in Manager /\ u.queue = t.queue /\ u.new = t.new /\ u.added = t.added
  /\ u.started = t.started /\ u.offsets = t.offsets /\ u.pending \subseteq t.pending
  /\ t.state \in Working
  /\ u.state = IF t.state = "ABORTING_TRANSACTION" THEN t.state ELSE "ABORTABLE_ERROR"

\* The request in flight is f by then, and c what the application waits for.
LEMMA ErrsKeeps ==
  ASSUME IInv, NEW u, Errs(tm, u), NEW f, NEW c \in CallRec, tm.offsets = {},
         flying.kind \notin {"end", "offset_commit"},
         \/ f = flying /\ c = call /\ flying.kind # "offsets"
         \/ f = None /\ c = IF Awaited(flying) THEN [call EXCEPT !.res = "error"] ELSE call,
         NEW d, d => Busy, Busy \/ flying.kind = "add" \/ flying.kind = "offsets"
  PROVE  QueueInv(u, f, c, txn) /\ StateInv(u, f, c, txn, d) /\ AnswerInv(u, f, coord, d)
<1>1. /\ tm.state \in Working /\ tm.state # "FATAL_ERROR" /\ tm.state # "READY"
      /\ tm.state # "UNINITIALIZED" /\ tm.state # "INITIALIZING"
  BY DEF Errs, Working
<1>2. /\ u.state \in {"ABORTING_TRANSACTION", "ABORTABLE_ERROR"} /\ u.state \in Working
      /\ u.state = "ABORTING_TRANSACTION" => tm.state = "ABORTING_TRANSACTION"
  BY DEF Errs, Working
<1>3. None.kind = "none" /\ None.res = "none" /\ ~Awaited(None) BY RequestTypes
<1>4. flying.kind # "init" /\ \A h \in Elems(tm.queue) : h.kind # "init"
  BY <1>1, Parts DEF QueueInv, Fitting
<1>5. \A h \in Elems(tm.queue) : h.kind # "offset_commit"
  BY Parts DEF QueueInv, Fitting
<1>6. /\ c.kind = call.kind /\ (c.res = call.res \/ c.res = "error")
      /\ c # call => /\ f = None /\ flying.kind = "offsets" /\ c.res = "error"
                     /\ \A h \in Elems(tm.queue) : ~Awaited(h)
  <2>1. CASE c = call BY <2>1
  <2>2. CASE c # call
    <3>1. f = None /\ Awaited(flying) /\ c = [call EXCEPT !.res = "error"] BY <2>2
    <3>2. c.kind = call.kind /\ c.res = "error" BY <3>1, Parts DEF CallRec
    <3>3. flying.kind = "offsets" BY <3>1, <1>4 DEF Awaited
    <3>4. \A h \in Elems(tm.queue) : ~Awaited(h) BY <3>1, Parts DEF QueueInv
    <3> QED BY <3>1, <3>2, <3>3, <3>4
  <2> QED BY <2>1, <2>2
<1>7. QueueInv(u, f, c, txn)
  <2>1. ASSUME NEW h, Fitting(tm, call, txn, h), h.kind \notin {"init", "offset_commit"},
               h.kind = "offsets" => tm.state # "ABORTING_TRANSACTION",
               Awaited(h) => c = call
        PROVE  Fitting(u, c, txn, h)
    <3>1. u.new = tm.new BY DEF Errs
    <3>2. u.state # "IN_TRANSACTION" BY <1>2
    <3>3. h.kind = "offsets" => u.state = "ABORTABLE_ERROR" BY <2>1, <1>2
    <3>4. u.state \in Ending \cup {"ABORTABLE_ERROR", "FATAL_ERROR"} BY <1>2 DEF Ending
    <3> QED BY <2>1, <1>2, <3>1, <3>2, <3>3, <3>4 DEF Fitting, Awaited
  <2>2. \A h : h.kind = "offsets" /\ Fitting(tm, call, txn, h) => tm.state # "ABORTING_TRANSACTION"
    BY DEF Fitting
  <2>3. \A h \in Elems(tm.queue) : Fitting(u, c, txn, h)
    <3>1. \A h \in Elems(tm.queue) : Awaited(h) => c = call BY <1>6
    <3> QED BY <2>1, <2>2, <3>1, <1>4, <1>5, Parts DEF QueueInv
  <2>4. Fitting(u, c, txn, f)
    <3>1. CASE f = None BY <3>1, <1>3 DEF Fitting
    <3>2. CASE f # None
      <4>1. f = flying /\ c = call BY <3>2
      <4> QED BY <4>1, <2>1, <2>2, <1>4, Parts DEF QueueInv
    <3> QED BY <3>1, <3>2
  <2>5. Awaited(f) => \A h \in Elems(tm.queue) : ~Awaited(h) BY <1>3, Parts DEF QueueInv
  <2> QED BY <2>3, <2>4, <2>5, Parts DEF QueueInv, Errs
<1>8. StateInv(u, f, c, txn, d)
  <2>1. f.kind \notin {"init", "offsets", "offset_commit", "end"} /\ (f.kind = "none" => f.res = "none")
    BY <1>3, <1>4, Parts DEF StateInv
  <2>2. u.new \cap (u.pending \cup u.added) = {} /\ u.offsets = {} /\ (u.added # {} => u.started)
    BY Parts DEF StateInv, Errs
  <2>3. u.state = "ABORTING_TRANSACTION" => c = Asked("abort") /\ u.new = {}
    <3>1. ASSUME u.state = "ABORTING_TRANSACTION" PROVE call = Asked("abort") /\ tm.new = {}
      BY <3>1, <1>2, Parts DEF StateInv
    <3>2. ASSUME u.state = "ABORTING_TRANSACTION" PROVE c = call
      <4>1. flying.kind # "offsets" BY <3>2, <1>2, Parts DEF QueueInv, Fitting
      <4> QED BY <4>1, <1>6
    <3> QED BY <3>1, <3>2 DEF Errs
  <2>4. txn # 0 BY <1>1, Parts DEF StateInv
  <2>5. c = Asked("commit") => u.state = "ABORTABLE_ERROR"
    <3>1. Asked("commit").res = "pending" BY DEF Asked
    <3>2. ASSUME c = Asked("commit") PROVE call = Asked("commit") BY <3>1, <3>2, <1>6
    <3>3. call = Asked("commit") => tm.state # "ABORTING_TRANSACTION" BY Parts DEF StateInv
    <3> QED BY <3>2, <3>3, <1>2
  <2>6. c = Asked("abort") => u.state = "ABORTING_TRANSACTION"
    <3>1. Asked("abort").res = "pending" BY DEF Asked
    <3>2. ASSUME c = Asked("abort") PROVE call = Asked("abort") BY <3>1, <3>2, <1>6
    <3>3. call = Asked("abort") => tm.state = "ABORTING_TRANSACTION" BY <1>1, Parts DEF StateInv
    <3> QED BY <3>2, <3>3 DEF Errs
  <2>7. c.kind \in {"commit", "abort"} => c.res # "ok"
    BY <1>1, <1>6, Parts DEF StateInv
  <2> QED BY <1>2, <2>1, <2>2, <2>3, <2>4, <2>5, <2>6, <2>7 DEF StateInv
<1>9. AnswerInv(u, f, coord, d)
  <2>1. f.kind = "add" \/ f.kind = "offsets" => f = flying BY <1>3
  <2>2. f.res # "none" => f = flying BY <1>3
  <2>3. \A h \in Elems(u.queue) \cup {f} : h.kind # "offset_commit"
    BY <1>3, <1>5 DEF Errs
  <2>4. coord.fenced \/ tm.added \subseteq coord.parts
    BY <1>1, Parts DEF AnswerInv, Sealed
  <2>5. /\ f.res # "error" /\ (f.res = "fatal" => ~d)
        /\ f.res = "abortable" => f.kind \in {"add", "offsets"}
        /\ f.kind = "add" /\ f.res = "ok" => coord.fenced \/ f.parts \subseteq coord.parts
        /\ f.kind = "offsets" /\ f.res = "ok" => coord.fenced \/ coord.group
        /\ coord.fenced => ~d
    BY <2>1, <2>2, Parts DEF AnswerInv
  <2> QED BY <2>3, <2>4, <2>5 DEF AnswerInv, Errs
<1> QED BY <1>7, <1>8, <1>9

LEMMA AfterErrorErrs ==
  ASSUME IInv, tm.state \in Working
  PROVE  Errs(tm, AfterError)
<1>1. CASE tm.state = "ABORTING_TRANSACTION"
  <2>1. AfterError = tm BY <1>1 DEF AfterError
  <2> QED BY <1>1, <2>1, Parts DEF Errs
<1>2. CASE tm.state # "ABORTING_TRANSACTION"
  <2>1. AfterError = Moved(tm, "ABORTABLE_ERROR") BY <1>2 DEF AfterError
  <2>2. Moves(tm, Moved(tm, "ABORTABLE_ERROR"), "ABORTABLE_ERROR")
    BY Parts, MovedMoves DEF States
  <2> QED BY <1>2, <2>1, <2>2 DEF Errs, Moves
<1> QED BY <1>1, <1>2

\* A record fails: the delivery timeout has passed, or the brokers refuse it.
LEMMA RecordFailsKeeps ==
  ASSUME IInv, NEW r \in Records, rec[r].at \in {"queue", "flight"}, tm' = AfterError,
         tm.offsets = {}, call.kind # "offsets",
         rec' = [rec EXCEPT ![r].final = "failed", ![r].at = "end"],
         UNCHANGED <<flying, clear, call, txn, fate, coord, group>>
  PROVE  IInv'
<1>1. /\ rec[r] \in RecordRec /\ rec[r].final = "none" /\ rec[r].txn = txn /\ Busy
      /\ tm.state \in Working /\ ~clear /\ flying.kind # "end"
  BY OpenRecord
<1>2. Errs(tm, tm') BY <1>1, AfterErrorErrs
<1>e. PICK e : e = [rec[r] EXCEPT !.final = "failed", !.at = "end"] OBVIOUS
<1>3. /\ e \in RecordRec /\ e.txn = rec[r].txn /\ e.log = rec[r].log /\ e.tp = rec[r].tp
      /\ e.final = "failed" /\ e.at = "end"
  BY <1>1, <1>e DEF RecordRec
<1>n. PICK n : n = Len(rec) OBVIOUS
<1>0. n \in Nat /\ rec \in Seq(RecordRec) /\ Records = 1 .. n
  BY <1>n, Parts DEF Types, Records
<1>4. /\ rec' \in Seq(RecordRec) /\ Len(rec') = n
      /\ \A q \in 1 .. n : rec'[q] = IF q = r THEN e ELSE rec[q]
  <2>1. rec' = [rec EXCEPT ![r] = e] BY <1>0, <1>e
  <2> QED BY <2>1, <1>0, <1>3, <1>n
<1>5. Records' = Records BY <1>0, <1>4 DEF Records
<1>6. Busy' => Busy BY <1>1
<1>7. Types' BY <1>2, <1>4, Parts DEF Types, Errs
<1>8. flying.kind \notin {"end", "offset_commit", "offsets"}
  <2>1. \A k : Asked(k).kind = k BY DEF Asked
  <2>2. flying.kind \in {"offsets", "offset_commit"} => call = Asked("offsets")
    BY Parts DEF QueueInv, Fitting
  <2> QED BY <1>1, <2>1, <2>2
<1>9. QueueInv(tm', flying, call, txn) /\ StateInv(tm', flying, call, txn, Busy')
      /\ AnswerInv(tm', flying, coord, Busy')
  <2>1. PICK u : u = tm' OBVIOUS
  <2>2. PICK d : d = Busy' OBVIOUS
  <2>3. QueueInv(u, flying, call, txn) /\ StateInv(u, flying, call, txn, d)
        /\ AnswerInv(u, flying, coord, d)
    BY <1>1, <1>2, <1>6, <1>8, <2>1, <2>2, Parts, ErrsKeeps
  <2> QED BY <2>1, <2>2, <2>3
<1>10. ~SealedNow BY <1>1 DEF SealedNow, Sealed
<1>11. tm.state # "READY" /\ tm.state \in Working /\ tm'.state \in {"ABORTABLE_ERROR", "ABORTING_TRANSACTION"}
       /\ tm'.state \in Working /\ tm'.added = tm.added /\ tm'.started = tm.started
  BY <1>1, <1>2 DEF Errs, Working
<1>12. DataInv'
  <2>1. \A q \in Records :
          RecordInv(tm'.state, tm'.added, tm'.started, SealedNow', txn, coord, rec[q])
    BY <1>10, <1>11, RecordMoved, Parts DEF DataInv
  <2>2. RecordInv(tm'.state, tm'.added, tm'.started, SealedNow', txn, coord, e)
    <3>1. RecordInv(tm'.state, tm'.added, tm'.started, SealedNow', txn, coord, rec[r]) BY <2>1
    <3> QED BY <1>3, <1>11, <3>1 DEF Unsealed, RecordInv
  <2>3. \A m \in Txns :
          OffsetsInv(tm'.state, tm'.started, SealedNow', txn, coord, m, group[m])
    BY <1>10, <1>11, OffsetsMoved, Parts DEF DataInv
  <2> QED BY <1>0, <1>4, <1>5, <2>1, <2>2, <2>3 DEF DataInv
<1>13. FateInv'
  <2>1. \A n1 : Of(n1)' = Of(n1) /\ Of(n1) \subseteq Records BY <1>0, <1>3, <1>4, <1>5 DEF Of
  <2>2. \A q \in Records : /\ rec'[q].log = rec[q].log
                           /\ rec[q].final = "ok" => rec'[q].final = "ok"
    BY <1>0, <1>1, <1>3, <1>4
  <2>3. \A n1 : (Committed(n1) => Committed(n1)') /\ (Aborted(n1) => Aborted(n1)')
                /\ (Whole(n1) => Whole(n1)')
    BY <2>1, <2>2 DEF Committed, Aborted, Whole
  <2>4. \A k : Outcome(k) => Outcome(k)' BY <2>3 DEF Outcome
  <2> QED BY <1>8, <1>11, <2>3, <2>4, Parts DEF FateInv
<1> QED BY <1>1, <1>7, <1>9, <1>12, <1>13 DEF IInv, ClientInv

LEMMA ExpireKeeps ==
  ASSUME IInv, ~Gap, NEW r \in Records, Expire(r)
  PROVE  IInv'
<1>1. /\ rec[r].at = "queue" /\ tm.offsets = {} /\ call.kind # "offsets" /\ tm' = AfterError
      /\ rec' = [rec EXCEPT ![r].final = "failed", ![r].at = "end"]
      /\ UNCHANGED <<flying, clear, call, txn, fate, coord, group>>
  BY DEF Expire, Queued, Alone
<1> QED BY <1>1, RecordFailsKeeps

LEMMA CompleteKeeps ==
  ASSUME IInv, ~Gap, NEW r \in Records, Complete(r)
  PROVE  IInv'
<1>a. /\ rec[r].at = "flight"
      /\ UNCHANGED <<flying, clear, call, txn, fate, coord, group, faults>>
  BY DEF Complete
<1>b. /\ rec[r] \in RecordRec /\ rec[r].final = "none" /\ Busy /\ ~clear
      /\ Unsealed(rec[r])
  BY <1>a, OpenRecord
<1>c. rec \in Seq(RecordRec) /\ clear' \in BOOLEAN /\ (clear' => ~Busy) BY <1>a, Parts DEF Types
<1>1. CASE CompleteOk(r)
  <2>1. PICK e : e = [rec[r] EXCEPT !.final = "ok", !.at = "end"] OBVIOUS
  <2>2. rec' = [rec EXCEPT ![r] = e] /\ UNCHANGED tm /\ rec[r].res = "ok"
    BY <1>1, <1>c, <2>1 DEF CompleteOk
  <2>3. /\ e \in RecordRec /\ e.txn = rec[r].txn /\ e.log = rec[r].log /\ e.tp = rec[r].tp
        /\ e.final = "ok" /\ e.at = "end"
    BY <1>b, <2>1 DEF RecordRec
  <2>4. Unsealed(e)
    BY <1>a, <1>b, <2>2, <2>3 DEF Unsealed, RecordInv
  <2> QED BY <1>a, <1>b, <1>c, <2>2, <2>3, <2>4, RecordStepKeeps
<1>2. CASE CompleteAgain(r)
  <2>1. PICK e : e = [rec[r] EXCEPT !.tries = @ + 1, !.at = "queue"] OBVIOUS
  <2>2. rec' = [rec EXCEPT ![r] = e] /\ UNCHANGED tm
    BY <1>2, <1>c, <2>1 DEF CompleteAgain
  <2>3. /\ e \in RecordRec /\ e.txn = rec[r].txn /\ e.log = rec[r].log /\ e.tp = rec[r].tp
        /\ e.final = "none" /\ e.at = "queue"
    <3>1. PICK k : k = rec[r].tries + 1 OBVIOUS
    <3>2. k \in Nat BY <1>b, <3>1 DEF RecordRec
    <3>3. e = [rec[r] EXCEPT !.tries = k, !.at = "queue"] BY <1>b, <2>1, <3>1 DEF RecordRec
    <3> QED BY <1>b, <3>2, <3>3 DEF RecordRec
  <2>4. Unsealed(e)
    BY <1>a, <1>b, <2>3 DEF Unsealed, RecordInv
  <2> QED BY <1>a, <1>b, <1>c, <2>2, <2>3, <2>4, RecordStepKeeps
<1>3. CASE CompleteFailed(r)
  <2>1. rec[r].res # "fatal" BY <1>a, <1>b DEF Unsealed, RecordInv
  <2>2. /\ tm' = AfterError /\ tm.offsets = {} /\ call.kind # "offsets"
        /\ rec' = [rec EXCEPT ![r].final = "failed", ![r].at = "end"]
    BY <1>3, <2>1 DEF CompleteFailed, Alone
  <2> QED BY <1>a, <2>2, RecordFailsKeeps
<1> QED BY <1>1, <1>2, <1>3 DEF Complete

-----------------------------------------------------------------------------
(* A transaction is complete                                               *)

LEMMA CompletedKeeps ==
  ASSUME IInv, tm.state \in Ending, ~Busy, NothingPending, Outcome(call.kind),
         flying.kind \in {"none", "end"}, call.kind \in {"commit", "abort"},
         call' = [call EXCEPT !.res = "ok"], flying' = None, clear' \in BOOLEAN,
         tm' \in Manager, tm'.state = "READY", ~tm'.started, tm'.new = {}, tm'.pending = {},
         tm'.added = {}, tm'.queue = <<>>, tm'.offsets = {},
         UNCHANGED <<rec, txn, fate, coord, group>>
  PROVE  IInv'
<1>1. Busy' = Busy /\ Records' = Records BY BusyStays
<1>2. call' \in CallRec /\ call'.kind = call.kind /\ call'.res = "ok" BY Parts DEF CallRec
<1>3. \A k : call' # Asked(k) /\ call' # Idle BY <1>2 DEF Asked, Idle
<1>4. None \in RequestRec /\ None.kind = "none" /\ None.res = "none" /\ ~Awaited(None)
  BY RequestTypes
<1>5. Types' BY <1>2, <1>4, Parts DEF Types
<1>6. tm.state \in Working /\ tm.state # "READY" /\ tm.state # "FATAL_ERROR" BY DEF Ending, Working
<1>7. txn # 0 BY <1>6, Parts DEF StateInv
<1>8. QueueInv(tm', None, call', txn)
  BY <1>4, NoElements DEF QueueInv, Fitting
<1>9. StateInv(tm', None, call', txn, Busy)
  BY <1>2, <1>3, <1>4, <1>7 DEF StateInv, Working
<1>10. AnswerInv(tm', None, coord, Busy)
  <2>1. \A h \in Elems(tm'.queue) \cup {None} : h.kind # "offset_commit" BY <1>4, NoElements
  <2> QED BY <2>1, <1>4, Parts DEF AnswerInv
<1>11. DataInv'
  <2>1. ASSUME NEW r \in Records
        PROVE  RecordInv("READY", tm'.added, tm'.started, SealedNow', txn, coord, rec[r])
    <3>1. RecordInv(tm.state, tm.added, tm.started, SealedNow, txn, coord, rec[r])
      BY Parts DEF DataInv
    <3>2. rec[r].final # "none" /\ rec[r].log # "pending"
      BY DEF Busy, Incomplete, NothingPending
    <3> QED BY <3>1, <3>2 DEF RecordInv, Marks, Working
  <2>2. ASSUME NEW n \in Txns
        PROVE  OffsetsInv("READY", tm'.started, SealedNow', txn, coord, n, group[n])
    <3>1. OffsetsInv(tm.state, tm.started, SealedNow, txn, coord, n, group[n])
      BY Parts DEF DataInv
    <3>2. group[n] # "pending" BY DEF NothingPending
    <3> QED BY <3>1, <3>2 DEF OffsetsInv, Marks
  <2> QED BY <1>1, <2>1, <2>2 DEF DataInv
<1>12. FateInv'
  <2>1. \A n : Of(n)' = Of(n) BY <1>1 DEF Of
  <2>2. \A n : (Committed(n)' <=> Committed(n)) /\ (Aborted(n)' <=> Aborted(n)) /\ (Whole(n)' <=> Whole(n))
    BY <2>1 DEF Committed, Aborted, Whole
  <2>3. \A k : Outcome(k)' <=> Outcome(k) BY <2>2 DEF Outcome
  <2>4. \A k : k = call.kind => Outcome(k)' BY <2>3
  <2>5. /\ \A n \in 1 .. txn : Whole(n)
        /\ \A n \in Txns : /\ fate'[n] # "none" => n < txn
                           /\ fate'[n] = "commit" => Committed(n)
                           /\ fate'[n] = "abort" => Aborted(n)
    BY <1>6, Parts DEF FateInv
  <2> QED BY <2>2, <2>4, <2>5, <1>2, <1>4 DEF FateInv
<1> QED BY <1>1, <1>5, <1>8, <1>9, <1>10, <1>11, <1>12, Parts DEF IInv, ClientInv

LEMMA CompletedIs ==
  ASSUME NEW u \in Manager
  PROVE  /\ Completed(u) \in Manager /\ Completed(u).state = "READY" /\ ~Completed(u).started
         /\ Completed(u).new = {} /\ Completed(u).pending = {} /\ Completed(u).added = {}
         /\ Completed(u).queue = u.queue /\ Completed(u).offsets = u.offsets
<1>1. PICK t : t = Moved(u, "READY") OBVIOUS
<1>2. Moves(u, t, "READY") BY <1>1, MovedMoves DEF States
<1>3. Completed(u) = [t EXCEPT !.started = FALSE, !.new = {}, !.pending = {}, !.added = {}]
  BY <1>1 DEF Completed
<1> QED BY <1>2, <1>3 DEF Moves, Manager

\* In an aborted transaction nothing is committed, in a committed one all is ok.
LEMMA EndingRecords ==
  ASSUME IInv, tm.state \in Ending, ~Busy
  PROVE  /\ call = Asked(IF tm.state = "COMMITTING_TRANSACTION" THEN "commit" ELSE "abort")
         /\ txn \in Txns /\ tm.offsets = {}
         /\ \A r \in Of(txn) :
              /\ tm.state = "COMMITTING_TRANSACTION" =>
                   /\ rec[r].final = "ok" /\ rec[r].log # "none"
                   /\ rec[r].log = "aborted" => coord.fenced
              /\ tm.state = "ABORTING_TRANSACTION" => rec[r].log # "committed"
         /\ tm.state = "ABORTING_TRANSACTION" => group[txn] # "committed"
         /\ \A r \in Records : rec[r].log = "pending" =>
              r \in Of(txn) /\ rec[r].tp \in coord.parts /\ tm.started /\ ~coord.fenced
         /\ \A r \in Of(txn) : rec[r].log # "none" => tm.started
         /\ \A n \in Txns : group[n] = "pending" =>
              n = txn /\ coord.group /\ tm.started /\ ~coord.fenced
<1>1. tm.state \in {"COMMITTING_TRANSACTION", "ABORTING_TRANSACTION"} /\ tm.state \in Working
  BY DEF Ending, Working
<1>2. call = Asked(IF tm.state = "COMMITTING_TRANSACTION" THEN "commit" ELSE "abort")
  BY <1>1, Parts DEF StateInv
<1>3. tm.offsets = {} BY <1>1, Parts DEF StateInv
<1>4. txn \in Txns
  <2>1. txn # 0 BY <1>1, Parts DEF StateInv
  <2> QED BY <2>1, Parts DEF Types, Txns
<1>5. \A r \in Of(txn) : r \in Records /\ rec[r].txn = txn BY DEF Of
<1>6. ASSUME NEW r \in Records
      PROVE  RecordInv(tm.state, tm.added, tm.started, SealedNow, txn, coord, rec[r])
  BY Parts DEF DataInv
<1>7. \A r \in Records : rec[r] \in RecordRec /\ rec[r].final # "none"
  BY Parts DEF Busy, Incomplete, Types, Records
<1>8. ASSUME NEW r \in Of(txn)
      PROVE  /\ tm.state = "COMMITTING_TRANSACTION" =>
                  /\ rec[r].final = "ok" /\ rec[r].log # "none"
                  /\ rec[r].log = "aborted" => coord.fenced
             /\ tm.state = "ABORTING_TRANSACTION" => rec[r].log # "committed"
             /\ rec[r].log # "none" => tm.started
  BY <1>1, <1>5, <1>6, <1>7 DEF RecordInv, Marks
<1>9. \A r \in Records : rec[r].log = "pending" =>
        r \in Of(txn) /\ rec[r].tp \in coord.parts /\ tm.started /\ ~coord.fenced
  <2> SUFFICES ASSUME NEW r \in Records, rec[r].log = "pending"
               PROVE  r \in Of(txn) /\ rec[r].tp \in coord.parts /\ tm.started /\ ~coord.fenced
    OBVIOUS
  <2>1. rec[r].txn = txn /\ rec[r].tp \in coord.parts /\ ~coord.fenced BY <1>6 DEF RecordInv
  <2>2. r \in Of(txn) BY <2>1 DEF Of
  <2> QED BY <2>1, <2>2, <1>8
<1>10. \A n \in Txns : OffsetsInv(tm.state, tm.started, SealedNow, txn, coord, n, group[n])
  BY Parts DEF DataInv
<1>11. \A n \in Txns : group[n] = "pending" =>
         n = txn /\ coord.group /\ tm.started /\ ~coord.fenced
  BY <1>10 DEF OffsetsInv
<1>12. tm.state = "ABORTING_TRANSACTION" => group[txn] # "committed"
  BY <1>4, <1>10 DEF OffsetsInv, Marks
<1> QED BY <1>2, <1>3, <1>4, <1>8, <1>9, <1>11, <1>12

-----------------------------------------------------------------------------
(* The next request                                                        *)

\* The manager with its new partitions on their way, and the rest unchanged.
LEMMA Drained ==
  ASSUME IInv, flying.kind = "none", NEW t, t = PartitionsQueued(tm)
  PROVE  /\ t \in Manager /\ t.queue \in Seq(RequestRec) /\ t.state = tm.state /\ t.new = {}
         /\ t.added = tm.added /\ t.started = tm.started /\ t.offsets = tm.offsets
         /\ QueueInv(t, None, call, txn) /\ StateInv(t, None, call, txn, Busy)
         /\ AnswerInv(t, None, coord, Busy)
         /\ SealedNow => Sealed(t, None, Busy)
<1>1. Sorted(tm.queue) /\ Once(tm.queue) BY Parts DEF QueueInv
<1>2. Queues(tm, t) BY <1>1, Parts, PartitionsQueuedIs
<1>3. /\ t \in Manager /\ t.state = tm.state /\ t.new = {} /\ t.pending = tm.pending \cup tm.new
      /\ t.added = tm.added /\ t.started = tm.started /\ t.offsets = tm.offsets
      /\ Sorted(t.queue) /\ Once(t.queue) /\ (tm.new = {} => t.queue = tm.queue)
      /\ \A h \in Elems(t.queue) : \/ h \in Elems(tm.queue)
                                   \/ h.kind = "add" /\ h.res = "none" /\ h.parts = t.pending
  BY <1>2 DEF Queues
<1>4. None.kind = "none" /\ None.res = "none" /\ ~Awaited(None) BY RequestTypes
<1>5. tm.new # {} =>
        tm.state \in {"IN_TRANSACTION", "ABORTABLE_ERROR", "FATAL_ERROR"} /\ tm.state \notin Ending
  <2>1. tm.state \in States BY Parts DEF Manager
  <2> QED BY <2>1, Parts DEF StateInv, States, Ending
<1>6. \A h : Fitting(tm, call, txn, h) => Fitting(t, call, txn, h)
  <2> SUFFICES ASSUME NEW h, Fitting(tm, call, txn, h) PROVE Fitting(t, call, txn, h)
    OBVIOUS
  <2>1. h.kind = "add" => h.parts \cap t.new = {} BY <1>3
  <2>2. h.parts \subseteq tm.pending \cup tm.added => h.parts \subseteq t.pending \cup t.added
    BY <1>3
  <2> QED BY <1>3, <2>1, <2>2 DEF Fitting
<1>7. QueueInv(t, None, call, txn)
  <2>1. ASSUME NEW h \in Elems(t.queue)
        PROVE  h.kind # "none" /\ h.res = "none" /\ Fitting(t, call, txn, h)
    <3>1. CASE h \in Elems(tm.queue) BY <3>1, <1>6, Parts DEF QueueInv
    <3>2. CASE h \notin Elems(tm.queue)
      <4>1. tm.new # {} BY <3>2, <1>3
      <4>2. h.kind = "add" /\ h.res = "none" /\ h.parts = t.pending BY <3>2, <1>3
      <4>3. t.state \in Working \cup {"FATAL_ERROR"} BY <1>3, <1>5, <4>1 DEF Working
      <4> QED BY <4>2, <4>3, <1>3 DEF Fitting
    <3> QED BY <3>1, <3>2
  <2>2. Fitting(t, call, txn, None) BY <1>4 DEF Fitting
  <2> QED BY <2>1, <2>2, <1>3, <1>4 DEF QueueInv
<1>8. StateInv(t, None, call, txn, Busy)
  <2>1. tm.new = {} => t.pending = tm.pending BY <1>3
  <2>2. tm.state \in {"UNINITIALIZED", "READY", "INITIALIZING"} => tm.new = {}
    BY Parts DEF StateInv
  <2>3. t.new \cap (t.pending \cup t.added) = {} BY <1>3
  <2> QED BY <2>1, <2>2, <2>3, <1>3, <1>4, Parts DEF StateInv
<1>9. SealedNow => Sealed(t, None, Busy) BY <1>3, <1>4 DEF SealedNow, Sealed
<1>10. AnswerInv(t, None, coord, Busy)
  <2>1. \A h \in Elems(t.queue) \cup {None} : h.kind = "offset_commit" => h \in Elems(tm.queue)
    BY <1>3, <1>4
  <2> QED BY <2>1, <1>3, <1>4, <1>9, Parts DEF AnswerInv, SealedNow
<1>11. t.queue \in Seq(RequestRec) BY <1>3 DEF Manager
<1> QED BY <1>3, <1>7, <1>8, <1>9, <1>10, <1>11

\* It takes the first request off the queue, and the manager is u.
Takes(t, u, h) ==
  /\ u \in Manager /\ u.state = t.state /\ u.new = t.new /\ u.pending = t.pending
  /\ u.added = t.added /\ u.started = t.started /\ u.offsets = t.offsets
  /\ h \in RequestRec /\ Sorted(u.queue) /\ Once(u.queue)
  /\ h \in Elems(t.queue) /\ Elems(t.queue) = Elems(u.queue) \cup {h}
  /\ Awaited(h) => \A g \in Elems(u.queue) : ~Awaited(g)
  /\ \A g \in Elems(u.queue) : Priority(h) <= Priority(g)

LEMMA TakesIs ==
  ASSUME NEW t \in Manager, t.queue # <<>>, Sorted(t.queue), Once(t.queue)
  PROVE  Takes(t, [t EXCEPT !.queue = Tail(t.queue)], Head(t.queue))
<1>1. PICK q : q = t.queue OBVIOUS
<1>2. q \in Seq(RequestRec) /\ q # <<>> /\ Sorted(q) /\ Once(q) BY <1>1 DEF Manager
<1>3. /\ Head(q) \in RequestRec /\ Tail(q) \in Seq(RequestRec)
      /\ Sorted(Tail(q)) /\ Once(Tail(q))
      /\ Head(q) \in Elems(q) /\ Elems(q) = Elems(Tail(q)) \cup {Head(q)}
      /\ Awaited(Head(q)) => \A g \in Elems(Tail(q)) : ~Awaited(g)
      /\ \A g \in Elems(Tail(q)) : Priority(Head(q)) <= Priority(g)
  BY <1>2, HeadFirst
<1>4. PICK s : s = Tail(q) OBVIOUS
<1>5. PICK u : u = [t EXCEPT !.queue = s] OBVIOUS
<1>6. /\ u \in Manager /\ u.state = t.state /\ u.new = t.new /\ u.pending = t.pending
      /\ u.added = t.added /\ u.started = t.started /\ u.offsets = t.offsets /\ u.queue = s
  BY <1>3, <1>4, <1>5 DEF Manager
<1>7. u = [t EXCEPT !.queue = Tail(t.queue)] BY <1>1, <1>4, <1>5
<1> QED BY <1>1, <1>3, <1>4, <1>6, <1>7 DEF Takes

\* The end of a transaction, or its start, is the last request.
LEMMA LastRequest ==
  ASSUME NEW t, NEW c, NEW x, QueueInv(t, None, c, x), NEW u, NEW h, Takes(t, u, h),
         h.kind \in {"init", "end"}, t.state # "FATAL_ERROR"
  PROVE  u.queue = <<>>
<1>1. Elems(u.queue) = {}
  <2> SUFFICES ASSUME NEW g \in Elems(u.queue) PROVE FALSE OBVIOUS
  <2>1. /\ ~Awaited(g) /\ Priority(h) <= Priority(g) /\ g \in Elems(t.queue)
        /\ h \in Elems(t.queue) /\ g \in RequestRec
    <3>1. Awaited(h) BY DEF Awaited
    <3>2. u.queue \in Seq(RequestRec) BY DEF Takes, Manager
    <3>3. g \in RequestRec BY <3>2 DEF Elems
    <3> QED BY <3>1, <3>3 DEF Takes
  <2>2. g.kind # "none" /\ Fitting(t, c, x, g) /\ Fitting(t, c, x, h) BY <2>1 DEF QueueInv
  <2>3. g.kind \in {"find", "add"} BY <2>1, <2>2 DEF Awaited, RequestRec, Kinds
  <2>4. Priority(g) \in {0, 2} /\ (g.kind = "find" => Priority(g) = 0)
    BY <2>3, Priorities
  <2>5. Priority(h) \in {1, 3} /\ (h.kind = "end" => Priority(h) = 3)
    BY Priorities
  <2>6. h.kind = "init" /\ g.kind = "add" BY <2>1, <2>3, <2>4, <2>5
  <2>7. t.state = "INITIALIZING" BY <2>2, <2>6 DEF Fitting
  <2> QED BY <2>2, <2>6, <2>7 DEF Fitting, Working
<1>2. u.queue \in Seq(RequestRec) BY DEF Takes, Manager
<1>3. PICK n : n = Len(u.queue) OBVIOUS
<1>4. n = 0
  <2>1. n \in Nat BY <1>2, <1>3
  <2>2. n # 0 => 1 \in 1 .. n BY <2>1
  <2> QED BY <2>2, <1>1, <1>3 DEF Elems
<1> QED BY <1>2, <1>3, <1>4, EmptySeq

\* What _maybe_send_transactional_request does with h, the first request of t,
\* where u is t without it.
Serves(t, h, u) ==
  /\ t.queue # <<>> /\ ~Held(h) /\ flying = None /\ clear' = FALSE
  /\ UNCHANGED <<rec, txn, fate, coord, group>>
  /\ \/ Terminated(h) /\ tm' = u /\ Result(h, "error") /\ UNCHANGED flying
     \/ /\ ~Terminated(h) /\ h.kind = "end" /\ ~t.started /\ tm' = Completed(u)
        /\ Result(h, "ok") /\ UNCHANGED flying
     \/ ~Terminated(h) /\ tm' = LookedUp(u, h) /\ UNCHANGED <<flying, call>>
     \/ ~Terminated(h) /\ tm' = u /\ flying' = h /\ UNCHANGED call

LEMMA NextIs ==
  ASSUME NextRequest, NEW t, t = PartitionsQueued(tm), NEW h, h = Head(t.queue),
         NEW u, u = [t EXCEPT !.queue = Tail(t.queue)]
  PROVE  Serves(t, h, u)
<1>1. PICK n : n = NextRequestHandler OBVIOUS
<1>2. n.to # "wait" /\ flying = None /\ clear' = FALSE /\ UNCHANGED <<rec, txn, fate, coord, group>>
  BY <1>1 DEF NextRequest
<1>3. n = IF t.queue = <<>> \/ Held(h) THEN [to |-> "wait", tm |-> t, req |-> None]
          ELSE [to  |-> IF Terminated(h) THEN "fail"
                        ELSE IF h.kind = "end" /\ ~t.started THEN "done" ELSE "send",
                tm  |-> u, req |-> h]
  BY <1>1 DEF NextRequestHandler
<1>4. t.queue # <<>> /\ ~Held(h)
  <2>1. CASE t.queue = <<>> \/ Held(h)
    <3>1. n = [to |-> "wait", tm |-> t, req |-> None] BY <1>3, <2>1
    <3> QED BY <3>1, <1>2
  <2> QED BY <2>1
<1>5. /\ n.tm = u /\ n.req = h
      /\ n.to = IF Terminated(h) THEN "fail"
                ELSE IF h.kind = "end" /\ ~t.started THEN "done" ELSE "send"
  BY <1>3, <1>4
<1>6. CASE Terminated(h)
  <2>1. n.to = "fail" BY <1>5, <1>6
  <2>2. tm' = u /\ Result(h, "error") /\ UNCHANGED flying BY <1>1, <1>5, <2>1 DEF NextRequest
  <2> QED BY <1>2, <1>4, <1>6, <2>2 DEF Serves
<1>7. CASE ~Terminated(h) /\ h.kind = "end" /\ ~t.started
  <2>1. n.to = "done" BY <1>5, <1>7
  <2>2. tm' = Completed(u) /\ Result(h, "ok") /\ UNCHANGED flying
    BY <1>1, <1>5, <2>1 DEF NextRequest
  <2> QED BY <1>2, <1>4, <1>7, <2>2 DEF Serves
<1>8. CASE ~Terminated(h) /\ ~(h.kind = "end" /\ ~t.started)
  <2>1. n.to = "send" BY <1>5, <1>8
  <2>2. \/ tm' = LookedUp(u, h) /\ UNCHANGED <<flying, call>>
        \/ tm' = u /\ flying' = h /\ UNCHANGED call
    BY <1>1, <1>5, <2>1 DEF NextRequest
  <2> QED BY <1>2, <1>4, <1>8, <2>2 DEF Serves
<1> QED BY <1>6, <1>7, <1>8

\* The sender looks for a coordinator, or sends, or drops a request: the
\* invariant of the manager u when the requests hs go back to its queue.
LEMMA NextRequestKeeps ==
  ASSUME IInv, NextRequest
  PROVE  IInv'
<1>t. PICK t : t = PartitionsQueued(tm) OBVIOUS
<1>h. PICK h : h = Head(t.queue) OBVIOUS
<1>u. PICK u : u = [t EXCEPT !.queue = Tail(t.queue)] OBVIOUS
<1>s. Serves(t, h, u) BY <1>t, <1>h, <1>u, NextIs
<1>a. /\ t.queue # <<>> /\ ~Held(h) /\ flying = None /\ clear' = FALSE
      /\ UNCHANGED <<rec, txn, fate, coord, group>>
      /\ \/ Terminated(h) /\ tm' = u /\ Result(h, "error") /\ UNCHANGED flying
         \/ /\ ~Terminated(h) /\ h.kind = "end" /\ ~t.started /\ tm' = Completed(u)
            /\ Result(h, "ok") /\ UNCHANGED flying
         \/ ~Terminated(h) /\ tm' = LookedUp(u, h) /\ UNCHANGED <<flying, call>>
         \/ ~Terminated(h) /\ tm' = u /\ flying' = h /\ UNCHANGED call
  BY <1>s DEF Serves
<1>n. None \in RequestRec /\ None.kind = "none" /\ None.res = "none" /\ ~Awaited(None)
  BY RequestTypes
<1>1. /\ t \in Manager /\ t.queue \in Seq(RequestRec) /\ t.state = tm.state /\ t.new = {}
      /\ t.added = tm.added /\ t.started = tm.started /\ t.offsets = tm.offsets
      /\ QueueInv(t, None, call, txn) /\ StateInv(t, None, call, txn, Busy)
      /\ AnswerInv(t, None, coord, Busy) /\ (SealedNow => Sealed(t, None, Busy))
  BY <1>t, <1>a, <1>n, Drained
<1>2. Takes(t, u, h)
  <2>1. Sorted(t.queue) /\ Once(t.queue) BY <1>1 DEF QueueInv
  <2> QED BY <2>1, <1>1, <1>a, <1>h, <1>u, TakesIs
<1>3. /\ u \in Manager /\ u.state = t.state /\ u.new = {} /\ u.pending = t.pending
      /\ u.added = t.added /\ u.started = t.started /\ u.offsets = t.offsets
      /\ h \in RequestRec /\ Sorted(u.queue) /\ Once(u.queue)
      /\ h \in Elems(t.queue) /\ Elems(t.queue) = Elems(u.queue) \cup {h}
      /\ Awaited(h) => \A g \in Elems(u.queue) : ~Awaited(g)
  BY <1>1, <1>2 DEF Takes
<1>4. h.kind # "none" /\ h.res = "none" /\ Fitting(t, call, txn, h) BY <1>1, <1>3 DEF QueueInv
<1>5. Busy' = Busy /\ Records' = Records BY <1>a, BusyStays
<1>6. tm.state # "UNINITIALIZED" /\ tm.state # "READY" BY <1>1, <1>a DEF StateInv
<1>7. \A g, c : Fitting(t, c, txn, g) <=> Fitting(u, c, txn, g)
  BY <1>1, <1>3 DEF Fitting
<1>8. QueueInv(u, None, call, txn)
  <2>1. \A g \in Elems(u.queue) : g.kind # "none" /\ g.res = "none" /\ Fitting(t, call, txn, g)
    BY <1>1, <1>3 DEF QueueInv
  <2>2. Fitting(t, call, txn, None) BY <1>n DEF Fitting
  <2> QED BY <2>1, <2>2, <1>3, <1>7, <1>n DEF QueueInv
<1>9. Sealed(t, None, Busy) => Sealed(u, None, Busy) BY <1>1, <1>3, <1>n DEF Sealed
<1>e. h.kind = "end" => ~Busy BY <1>a, Parts DEF Held, Busy
<1>10. CASE Terminated(h) /\ tm' = u /\ Result(h, "error") /\ UNCHANGED flying
  <2>1. tm.state \in {"ABORTABLE_ERROR", "FATAL_ERROR"} BY <1>10 DEF Terminated, HasError
  <2>2. /\ call' \in CallRec /\ call'.kind = call.kind
        /\ call' = call \/ (Awaited(h) /\ call'.res = "error")
    <3>1. CASE Awaited(h)
      <4>1. call' = [call EXCEPT !.res = "error"] BY <3>1, <1>10 DEF Result
      <4> QED BY <4>1, <3>1, Parts DEF CallRec
    <3>2. CASE ~Awaited(h)
      <4>1. call' = call BY <3>2, <1>10 DEF Result
      <4> QED BY <4>1, Parts
    <3> QED BY <3>1, <3>2
  <2>3. Types' BY <2>2, <1>3, <1>10, <1>a, Parts DEF Types
  <2>4. QueueInv(u, None, call', txn)
    <3>1. \A g : ~Awaited(g) /\ Fitting(u, call, txn, g) => Fitting(u, call', txn, g)
      BY DEF Awaited, Fitting
    <3>2. call' = call \/ \A g \in Elems(u.queue) : ~Awaited(g) BY <2>2, <1>3
    <3> QED BY <3>1, <3>2, <1>8, <1>n DEF QueueInv
  <2>5. StateInv(u, None, call', txn, Busy)
    <3>1. \A k : call' = Asked(k) => call = Asked(k) BY <2>2 DEF Asked
    <3>2. call'.res = "ok" => call.res = "ok" BY <2>2
    <3> QED BY <2>1, <2>2, <3>1, <3>2, <1>1, <1>3, <1>n DEF StateInv
  <2>6. AnswerInv(u, None, coord, Busy)
    BY <1>1, <1>3, <1>9, <1>n DEF AnswerInv
  <2>7. DataInv'
    <3>1. tm.state \notin Ending BY <2>1 DEF Ending
    <3> QED BY <3>1, <1>1, <1>3, <1>10, <1>a, DataStays
  <2>8. FateInv'
    <3>1. call'.res = "ok" => call.res = "ok" /\ call'.kind = call.kind BY <2>2
    <3> QED BY <3>1, <1>6, <1>10, <1>a, <1>n, FatesMoved
  <2> QED BY <2>3, <2>4, <2>5, <2>6, <2>7, <2>8, <1>5, <1>10, <1>a DEF IInv, ClientInv
<1>11. CASE /\ ~Terminated(h) /\ h.kind = "end" /\ ~t.started /\ tm' = Completed(u)
            /\ Result(h, "ok") /\ UNCHANGED flying
  <2>1. tm.state \in Ending
    <3>1. t.state \in Ending \cup {"ABORTABLE_ERROR", "FATAL_ERROR"} BY <1>4, <1>11 DEF Fitting
    <3>2. tm.state \notin {"ABORTABLE_ERROR", "FATAL_ERROR"} BY <1>11 DEF Terminated, HasError
    <3> QED BY <3>1, <3>2, <1>1
  <2>2. ~Busy /\ ~tm.started BY <1>e, <1>1, <1>11
  <2>3. /\ call = Asked(IF tm.state = "COMMITTING_TRANSACTION" THEN "commit" ELSE "abort")
        /\ txn \in Txns /\ tm.offsets = {}
        /\ \A r \in Of(txn) :
             /\ tm.state = "COMMITTING_TRANSACTION" => rec[r].log # "none"
             /\ tm.state = "ABORTING_TRANSACTION" => rec[r].log # "committed"
        /\ tm.state = "ABORTING_TRANSACTION" => group[txn] # "committed"
        /\ \A r \in Records : rec[r].log # "pending"
        /\ \A r \in Of(txn) : rec[r].log = "none"
        /\ \A n \in Txns : group[n] # "pending"
    BY <2>1, <2>2, EndingRecords
  <2>4. /\ call.kind \in {"commit", "abort"}
        /\ call.kind = "commit" => tm.state = "COMMITTING_TRANSACTION"
        /\ call.kind = "abort" => tm.state = "ABORTING_TRANSACTION"
    BY <2>1, <2>3 DEF Asked, Ending
  <2>5. NothingPending BY <2>3 DEF NothingPending
  <2>6. Outcome(call.kind)
    <3>1. call.kind = "commit" => Committed(txn) BY <2>3, <2>4 DEF Committed
    <3>2. call.kind = "abort" => Aborted(txn) BY <2>3, <2>4 DEF Aborted
    <3> QED BY <3>1, <3>2 DEF Outcome
  <2>7. call' = [call EXCEPT !.res = "ok"] BY <1>11 DEF Result, Awaited
  <2>8. u.queue = <<>>
    <3>1. t.state # "FATAL_ERROR" BY <1>1, <2>1 DEF Ending
    <3> QED BY <3>1, <1>1, <1>2, <1>11, LastRequest
  <2>9. /\ tm' \in Manager /\ tm'.state = "READY" /\ ~tm'.started /\ tm'.new = {} /\ tm'.pending = {}
        /\ tm'.added = {} /\ tm'.queue = <<>> /\ tm'.offsets = {}
    <3>1. u.offsets = {} BY <1>1, <1>3, <2>3
    <3> QED BY <3>1, <1>3, <1>11, <2>8, CompletedIs
  <2> QED BY <2>1, <2>2, <2>4, <2>5, <2>6, <2>7, <2>9, <1>11, <1>a, <1>n, CompletedKeeps
<1>12. CASE ~Terminated(h) /\ tm' = LookedUp(u, h) /\ UNCHANGED <<flying, call>>
  <2>1. Extends(u, tm', {Find(h.type), h}) BY <1>3, <1>12, LookedUpExtends
  <2>f. PICK f : f = Find(h.type) OBVIOUS
  <2>2. f.kind = "find" /\ f.res = "none" BY <2>f DEF Find, Request
  <2>3. /\ tm' \in Manager /\ tm'.state = tm.state /\ tm'.new = {} /\ tm'.pending = u.pending
        /\ tm'.added = tm.added /\ tm'.started = tm.started /\ tm'.offsets = tm.offsets
        /\ Elems(tm'.queue) = Elems(t.queue) \cup {f}
    BY <1>1, <1>3, <2>1, <2>f DEF Extends, SameBut
  <2>4. Types' BY <2>3, <1>12, <1>a, Parts DEF Types
  <2>5. QueueInv(tm', None, call, txn)
    <3>1. Fitting(u, call, txn, f) BY <2>2 DEF Fitting
    <3>2. Fitting(u, call, txn, h) BY <1>4, <1>7
    <3>3. Fitting(u, call, txn, None) BY <1>n DEF Fitting
    <3>4. \A g \in {Find(h.type), h} : g.kind # "none" /\ g.res = "none" /\ Fitting(u, call, txn, g)
      BY <3>1, <3>2, <2>2, <2>f, <1>4
    <3> QED BY <3>3, <3>4, <2>1, <1>8, <1>n, QueueExtended
  <2>6. StateInv(tm', None, call, txn, Busy)
    BY <1>1, <1>3, <1>6, <2>3, <1>n DEF StateInv
  <2>7. Sealed(t, None, Busy) => Sealed(tm', None, Busy) BY <2>2, <2>3, <1>n DEF Sealed
  <2>8. AnswerInv(tm', None, coord, Busy)
    <3>1. \A g \in Elems(tm'.queue) \cup {None} :
            g.kind = "offset_commit" => g \in Elems(t.queue) \cup {None}
      BY <2>2, <2>3
    <3> QED BY <3>1, <2>3, <2>7, <1>1, <1>n DEF AnswerInv
  <2>9. DataInv'
    <3>1. tm.state \in Ending /\ SealedNow => SealedNow'
      BY <1>1, <1>5, <1>12, <1>a, <2>7 DEF SealedNow
    <3> QED BY <3>1, <2>3, <1>a, DataStays
  <2>10. FateInv' BY <1>6, <1>12, <1>a, <1>n, FatesMoved
  <2> QED BY <2>4, <2>5, <2>6, <2>8, <2>9, <2>10, <1>5, <1>12, <1>a DEF IInv, ClientInv
<1>13. CASE ~Terminated(h) /\ tm' = u /\ flying' = h /\ UNCHANGED call
  <2>1. tm.state # "FATAL_ERROR" /\ (tm.state = "ABORTABLE_ERROR" => h.kind = "find")
    BY <1>13 DEF Terminated, HasError
  <2>2. Types' BY <1>3, <1>13, <1>a, Parts DEF Types
  <2>3. QueueInv(u, h, call, txn)
    <3>1. Fitting(u, call, txn, h) BY <1>4, <1>7
    <3> QED BY <3>1, <1>3, <1>8 DEF QueueInv
  <2>4. h.kind \in {"init", "end"} => u.queue = <<>> BY <2>1, <1>1, <1>2, LastRequest
  <2>5. h.kind = "end" => u.state \in Ending /\ Sealed(u, h, Busy)
    <3>1. h.kind = "end" => tm.state \in Ending BY <2>1, <1>1, <1>4 DEF Fitting
    <3> QED BY <3>1, <2>4, <1>1, <1>3, <1>e, NoElements DEF Sealed
  <2>6. h.kind = "offsets" => u.state = "IN_TRANSACTION"
    BY <2>1, <1>1, <1>3, <1>4 DEF Fitting
  <2>7. StateInv(u, h, call, txn, Busy)
    BY <2>1, <2>4, <2>5, <2>6, <1>1, <1>3, <1>4, <1>6, <1>n DEF StateInv
  <2>8. Sealed(t, None, Busy) => Sealed(u, h, Busy) BY <1>1, <1>3, <1>9 DEF Sealed
  <2>9. AnswerInv(u, h, coord, Busy)
    <3>1. \A g \in Elems(u.queue) \cup {h} : g \in Elems(t.queue) \cup {None} BY <1>3
    <3> QED BY <3>1, <2>8, <1>1, <1>3, <1>4 DEF AnswerInv
  <2>10. DataInv'
    <3>1. tm.state \in Ending /\ SealedNow => SealedNow'
      BY <1>1, <1>5, <1>13, <1>a, <2>8 DEF SealedNow
    <3> QED BY <3>1, <1>1, <1>3, <1>13, <1>a, DataStays
  <2>11. FateInv' BY <1>4, <1>6, <1>13, <1>a, FatesMoved
  <2> QED BY <2>2, <2>3, <2>7, <2>9, <2>10, <2>11, <1>5, <1>13, <1>a DEF IInv, ClientInv
<1> QED BY <1>a, <1>10, <1>11, <1>12, <1>13

-----------------------------------------------------------------------------
(* Answers                                                                 *)

\* The request in flight has its answer and is gone, or is in the queue again
\* among the requests hs.
LEMMA RequeuedKeeps ==
  ASSUME IInv, flying.kind # "none", NEW hs, Extends(tm, tm', hs), flying' = None,
         \A h \in hs : /\ h.kind # "none" /\ h.res = "none" /\ Fitting(tm, call, txn, h)
                       /\ h.kind = "offset_commit" => flying.kind = "offset_commit"
                       /\ h.kind \in {"find", flying.kind},
         UNCHANGED <<call, clear, rec, txn, fate, coord, group>>
  PROVE  IInv'
<1>1. None \in RequestRec /\ None.kind = "none" /\ None.res = "none" /\ ~Awaited(None)
  BY RequestTypes
<1>2. /\ tm' \in Manager /\ tm'.state = tm.state /\ tm'.new = tm.new /\ tm'.pending = tm.pending
      /\ tm'.added = tm.added /\ tm'.started = tm.started /\ tm'.offsets = tm.offsets
      /\ Elems(tm'.queue) = Elems(tm.queue) \cup hs
  BY DEF Extends, SameBut
<1>3. Busy' = Busy /\ Records' = Records BY BusyStays
<1>4. Types' BY <1>1, <1>2, Parts DEF Types
<1>5. QueueInv(tm', None, call, txn)
  <2>1. Fitting(tm, call, txn, None) BY <1>1 DEF Fitting
  <2> QED BY <2>1, <1>1, Parts, QueueExtended
<1>6. tm.state \notin {"UNINITIALIZED", "READY", "FATAL_ERROR"} BY Parts DEF StateInv
<1>7. StateInv(tm', None, call, txn, Busy) BY <1>1, <1>2, <1>6, Parts DEF StateInv
<1>8. SealedNow => Sealed(tm', None, Busy)
  <2>1. SealedNow => flying.kind \in {"find", "end"} BY DEF SealedNow, Sealed
  <2>2. SealedNow => \A h \in hs : h.kind \in {"find", "end"} BY <2>1
  <2> QED BY <2>2, <1>1, <1>2 DEF SealedNow, Sealed
<1>9. AnswerInv(tm', None, coord, Busy)
  <2>1. \A h \in Elems(tm'.queue) \cup {None} :
          h.kind = "offset_commit" => coord.fenced \/ coord.group
    BY <1>1, <1>2, Parts DEF AnswerInv
  <2> QED BY <2>1, <1>1, <1>2, <1>8, Parts DEF AnswerInv, SealedNow
<1>10. DataInv'
  <2>1. SealedNow => SealedNow' BY <1>3, <1>8 DEF SealedNow
  <2> QED BY <2>1, <1>2, DataStays
<1>11. FateInv' BY <1>1, <1>6, FatesMoved
<1> QED BY <1>3, <1>4, <1>5, <1>7, <1>9, <1>10, <1>11, Parts DEF IInv, ClientInv

\* A request without its answer.
LEMMA ServedIs ==
  ASSUME IInv, NEW h, h = Served
  PROVE  /\ h \in RequestRec /\ h.kind = flying.kind /\ h.res = "none" /\ h.type = flying.type
         /\ h.parts = flying.parts /\ h.offsets = flying.offsets /\ h.commit = flying.commit
         /\ \A t, c, x : Fitting(t, c, x, h) <=> Fitting(t, c, x, flying)
         /\ Awaited(h) <=> Awaited(flying)
<1>1. h = [flying EXCEPT !.res = "none"] BY DEF Served
<1>2. /\ h \in RequestRec /\ h.kind = flying.kind /\ h.res = "none" /\ h.type = flying.type
      /\ h.parts = flying.parts /\ h.offsets = flying.offsets /\ h.commit = flying.commit
  BY <1>1, Parts DEF RequestRec, Answers
<1> QED BY <1>2 DEF Fitting, Awaited

LEMMA RequestAnswered ==
  ASSUME IInv, flying.res # "none"
  PROVE  /\ flying.kind # "none" /\ Fitting(tm, call, txn, flying)
         /\ Sorted(tm.queue) /\ Once(tm.queue)
         /\ Awaited(flying) => \A h \in Elems(tm.queue) : ~Awaited(h)
         /\ tm.state \notin {"UNINITIALIZED", "READY", "FATAL_ERROR"}
<1>1. flying.kind # "none" BY Parts DEF StateInv
<1> QED BY <1>1, Parts DEF StateInv, QueueInv

LEMMA OnLostKeeps ==
  ASSUME IInv, OnLost, UNCHANGED <<clear, rec, txn, fate, coord, group, faults>>
  PROVE  IInv'
<1>a. /\ flying.res # "none" /\ flying' = None /\ UNCHANGED call
      /\ tm' = IF Served.kind = "find" THEN Enqueued(tm, Served) ELSE LookedUp(tm, Served)
  BY DEF OnLost, Answered
<1>h. PICK h : h = Served OBVIOUS
<1>1. /\ h \in RequestRec /\ h.kind = flying.kind /\ h.res = "none"
      /\ Fitting(tm, call, txn, h) /\ (Awaited(h) <=> Awaited(flying))
  BY <1>h, <1>a, ServedIs, RequestAnswered
<1>2. flying.kind # "none" /\ Sorted(tm.queue) /\ Once(tm.queue)
      /\ (Awaited(flying) => \A g \in Elems(tm.queue) : ~Awaited(g))
  BY <1>a, RequestAnswered
<1>3. CASE h.kind = "find"
  <2>1. Extends(tm, tm', {h}) BY <1>a, <1>h, <1>1, <1>2, <1>3, Parts, EnqueuedExtends
  <2> QED BY <2>1, <1>a, <1>1, <1>2, RequeuedKeeps
<1>4. CASE h.kind # "find"
  <2>f. PICK f : f = Find(h.type) OBVIOUS
  <2>1. Extends(tm, tm', {f, h}) BY <1>a, <1>h, <1>1, <1>2, <1>4, <2>f, Parts, LookedUpExtends
  <2>2. f.kind = "find" /\ f.res = "none" BY <2>f DEF Find, Request
  <2>3. Fitting(tm, call, txn, f) BY <2>2 DEF Fitting
  <2> QED BY <2>1, <2>2, <2>3, <1>a, <1>1, <1>2, RequeuedKeeps
<1> QED BY <1>3, <1>4

LEMMA OnRetryKeeps ==
  ASSUME IInv, OnRetry, UNCHANGED <<clear, rec, txn, fate, coord, group, faults>>
  PROVE  IInv'
<1>a. flying.res # "none" /\ flying' = None /\ UNCHANGED call /\ tm' = Enqueued(tm, Served)
  BY DEF OnRetry, Answered
<1>h. PICK h : h = Served OBVIOUS
<1>1. /\ h \in RequestRec /\ h.kind = flying.kind /\ h.res = "none"
      /\ Fitting(tm, call, txn, h) /\ (Awaited(h) <=> Awaited(flying))
  BY <1>h, <1>a, ServedIs, RequestAnswered
<1>2. flying.kind # "none" /\ Sorted(tm.queue) /\ Once(tm.queue)
      /\ (Awaited(flying) => \A g \in Elems(tm.queue) : ~Awaited(g))
  BY <1>a, RequestAnswered
<1>3. Extends(tm, tm', {h}) BY <1>a, <1>h, <1>1, <1>2, Parts, EnqueuedExtends
<1> QED BY <1>3, <1>a, <1>1, <1>2, RequeuedKeeps

LEMMA OnUnhandledNever ==
  ASSUME IInv
  PROVE  ~OnUnhandled
BY Parts DEF OnUnhandled, Answered, AnswerInv

\* What a call that waits gets.
LEMMA ResultIs ==
  ASSUME IInv, NEW h, NEW res \in {"ok", "error"}, Result(h, res)
  PROVE  /\ call' \in CallRec /\ call'.kind = call.kind
         /\ Awaited(h) => call' = [call EXCEPT !.res = res] /\ call'.res = res
         /\ ~Awaited(h) => call' = call
<1>1. CASE Awaited(h)
  <2>1. call' = [call EXCEPT !.res = res] BY <1>1 DEF Result
  <2>2. call' \in CallRec /\ call'.kind = call.kind /\ call'.res = res BY <2>1, Parts DEF CallRec
  <2> QED BY <1>1, <2>1, <2>2
<1>2. CASE ~Awaited(h)
  <2>1. call' = call BY <1>2 DEF Result
  <2> QED BY <1>2, <2>1, Parts
<1> QED BY <1>1, <1>2

LEMMA OnFatalKeeps ==
  ASSUME IInv, OnFatal, UNCHANGED <<clear, rec, txn, fate, coord, group, faults>>
  PROVE  IInv'
<1>a. flying.res = "fatal" /\ flying' = None /\ tm' = Moved(tm, "FATAL_ERROR") /\ Result(Served, "error")
  BY DEF OnFatal, Answered
<1>n. None \in RequestRec /\ None.kind = "none" /\ None.res = "none" /\ ~Awaited(None)
  BY RequestTypes
<1>h. PICK h : h = Served OBVIOUS
<1>1. /\ flying.kind # "none" /\ (Awaited(flying) => \A g \in Elems(tm.queue) : ~Awaited(g))
      /\ tm.state \notin {"UNINITIALIZED", "READY", "FATAL_ERROR"}
  BY <1>a, RequestAnswered
<1>2. Awaited(h) <=> Awaited(flying) BY <1>h, ServedIs
<1>3. /\ call' \in CallRec /\ call'.kind = call.kind
      /\ Awaited(flying) => call'.res = "error"
      /\ ~Awaited(flying) => call' = call
  BY <1>a, <1>h, <1>2, ResultIs
<1>4. Moves(tm, tm', "FATAL_ERROR") BY <1>a, Parts, MovedMoves DEF States
<1>5. /\ tm' \in Manager /\ tm'.state = "FATAL_ERROR" /\ tm'.queue = tm.queue /\ tm'.new = tm.new
      /\ tm'.pending = tm.pending /\ tm'.added = tm.added /\ tm'.started = tm.started
      /\ tm'.offsets = tm.offsets
  BY <1>4 DEF Moves
<1>6. Busy' = Busy /\ Records' = Records BY BusyStays
<1>7. ~Busy BY <1>a, Parts DEF AnswerInv
<1>8. Types' BY <1>3, <1>5, <1>a, <1>n, Parts DEF Types
<1>9. QueueInv(tm', None, call', txn)
  <2>1. ASSUME NEW g, Fitting(tm, call, txn, g), Awaited(g) => call' = call
        PROVE  Fitting(tm', call', txn, g)
    BY <2>1, <1>5 DEF Fitting, Awaited
  <2>2. \A g \in Elems(tm.queue) : Awaited(g) => call' = call BY <1>1, <1>3
  <2>3. Fitting(tm', call', txn, None) BY <1>n DEF Fitting
  <2> QED BY <2>1, <2>2, <2>3, <1>5, <1>n, Parts DEF QueueInv
<1>10. StateInv(tm', None, call', txn, Busy)
  <2>1. call'.kind \in {"commit", "abort"} => txn # 0 /\ call'.res # "ok"
    BY <1>1, <1>3, Parts DEF StateInv
  <2>2. tm.offsets # {} => tm.offsets = {txn} BY Parts DEF StateInv
  <2>3. tm.new \cap (tm.pending \cup tm.added) = {} /\ (tm.added # {} => tm.started)
    BY Parts DEF StateInv
  <2> QED BY <2>1, <2>2, <2>3, <1>5, <1>7, <1>n DEF StateInv, Working
<1>11. AnswerInv(tm', None, coord, Busy)
  <2>1. \A g \in Elems(tm'.queue) \cup {None} :
          g.kind = "offset_commit" => coord.fenced \/ coord.group
    BY <1>5, <1>n, Parts DEF AnswerInv
  <2> QED BY <2>1, <1>5, <1>7, <1>n DEF AnswerInv
<1>12. DataInv'
  <2>1. ASSUME NEW r \in Records
        PROVE  RecordInv("FATAL_ERROR", tm.added, tm.started, SealedNow', txn, coord, rec[r])
    <3>1. RecordInv(tm.state, tm.added, tm.started, SealedNow, txn, coord, rec[r])
      BY Parts DEF DataInv
    <3>2. rec[r].final # "none" BY <1>7 DEF Busy, Incomplete
    <3> QED BY <3>1, <3>2 DEF RecordInv, Marks, Working
  <2>2. ASSUME NEW n \in Txns
        PROVE  OffsetsInv("FATAL_ERROR", tm.started, SealedNow', txn, coord, n, group[n])
    <3>1. OffsetsInv(tm.state, tm.started, SealedNow, txn, coord, n, group[n])
      BY Parts DEF DataInv
    <3> QED BY <3>1 DEF OffsetsInv, Marks
  <2> QED BY <2>1, <2>2, <1>5, <1>6 DEF DataInv
<1>13. FateInv'
  <2>1. call'.res = "ok" => call.res = "ok" /\ call'.kind = call.kind BY <1>3
  <2> QED BY <2>1, <1>1, <1>a, <1>n, FatesMoved
<1> QED BY <1>6, <1>8, <1>9, <1>10, <1>11, <1>12, <1>13, <1>a, Parts DEF IInv, ClientInv

LEMMA OnAbortableKeeps ==
  ASSUME IInv, OnAbortable, UNCHANGED <<clear, rec, txn, fate, coord, group, faults>>
  PROVE  IInv'
<1>n. None \in RequestRec /\ None.kind = "none" /\ None.res = "none" /\ ~Awaited(None)
  BY RequestTypes
<1>a. flying.res = "abortable" /\ flying' = None BY DEF OnAbortable, Answered
<1>1. flying.kind \in {"add", "offsets"} /\ tm.offsets = {} /\ Fitting(tm, call, txn, flying)
      /\ tm.state \notin {"UNINITIALIZED", "READY", "FATAL_ERROR"}
  BY <1>a, RequestAnswered, Parts DEF AnswerInv
<1>2. tm.state \in Working BY <1>1 DEF Fitting, Working
<1>3. ToAbortable BY <1>2 DEF ToAbortable, Valid, Working
<1>t. PICK t : t = [tm EXCEPT !.pending = @ \ Served.parts] OBVIOUS
<1>4. /\ t \in Manager /\ t.state = tm.state /\ t.queue = tm.queue /\ t.new = tm.new
      /\ t.added = tm.added /\ t.started = tm.started /\ t.offsets = tm.offsets
      /\ t.pending \subseteq tm.pending
  BY <1>t, Parts DEF Manager
<1>5. tm' = [t EXCEPT !.state = AfterError.state] /\ Result(Served, "error")
  BY <1>3, <1>t DEF OnAbortable
<1>6. Errs(tm, AfterError) BY <1>2, AfterErrorErrs
<1>s. PICK s : s = AfterError.state OBVIOUS
<1>7. s \in States /\ s = IF tm.state = "ABORTING_TRANSACTION" THEN tm.state ELSE "ABORTABLE_ERROR"
  BY <1>6, <1>s DEF Errs, States
<1>8. Errs(tm, tm')
  <2>1. tm' = [t EXCEPT !.state = s] BY <1>5, <1>s
  <2>2. /\ tm' \in Manager /\ tm'.state = s /\ tm'.queue = t.queue /\ tm'.new = t.new
        /\ tm'.added = t.added /\ tm'.started = t.started /\ tm'.offsets = t.offsets
        /\ tm'.pending = t.pending
    BY <2>1, <1>4, <1>7 DEF Manager
  <2> QED BY <2>2, <1>2, <1>4, <1>7 DEF Errs
<1>h. PICK h : h = Served OBVIOUS
<1>9. Awaited(h) <=> Awaited(flying) BY <1>h, ServedIs
<1>c. PICK c : c = call' OBVIOUS
<1>10. /\ c \in CallRec /\ c.kind = call.kind
       /\ c = IF Awaited(flying) THEN [call EXCEPT !.res = "error"] ELSE call
       /\ c.res = "ok" => call.res = "ok"
  BY <1>5, <1>h, <1>9, <1>c, ResultIs
<1>11. Busy' = Busy BY BusyStays
<1>12. Types' BY <1>8, <1>10, <1>c, <1>a, <1>n, Parts DEF Types, Errs
<1>13. QueueInv(tm', None, call', txn) /\ StateInv(tm', None, call', txn, Busy)
       /\ AnswerInv(tm', None, coord, Busy)
  <2>1. PICK u : u = tm' OBVIOUS
  <2>2. QueueInv(u, None, c, txn) /\ StateInv(u, None, c, txn, Busy)
        /\ AnswerInv(u, None, coord, Busy)
    BY <2>1, <1>1, <1>8, <1>10, Parts, ErrsKeeps
  <2> QED BY <2>1, <2>2, <1>c
<1>14. DataInv'
  <2>1. ~SealedNow BY <1>1 DEF SealedNow, Sealed
  <2>2. tm'.state \in {"ABORTABLE_ERROR", "ABORTING_TRANSACTION"} BY <1>8 DEF Errs
  <2> QED BY <2>1, <2>2, <1>2, <1>8, DataMoved DEF Errs, Working
<1>15. FateInv'
  <2>1. call'.res = "ok" => call.res = "ok" /\ call'.kind = call.kind BY <1>10, <1>c
  <2> QED BY <2>1, <1>1, <1>a, <1>n, FatesMoved
<1> QED BY <1>11, <1>12, <1>13, <1>14, <1>15, <1>a, Parts DEF IInv, ClientInv

\* The answers that are ok.
LEMMA OnOkKeeps ==
  ASSUME IInv, OnOk, UNCHANGED <<clear, rec, txn, fate, coord, group, faults>>
  PROVE  IInv'
<1>a. flying.res = "ok" /\ flying' = None BY DEF OnOk, Answered
<1>n. None \in RequestRec /\ None.kind = "none" /\ None.res = "none" /\ ~Awaited(None)
  BY RequestTypes
<1>h. PICK h : h = Served OBVIOUS
<1>1. /\ h \in RequestRec /\ h.kind = flying.kind /\ h.res = "none" /\ h.type = flying.type
      /\ h.parts = flying.parts /\ h.offsets = flying.offsets /\ Fitting(tm, call, txn, flying)
      /\ (Awaited(h) <=> Awaited(flying))
  BY <1>h, <1>a, ServedIs, RequestAnswered
<1>2. /\ flying.kind # "none" /\ Sorted(tm.queue) /\ Once(tm.queue)
      /\ Awaited(flying) => \A g \in Elems(tm.queue) : ~Awaited(g)
      /\ tm.state \notin {"UNINITIALIZED", "READY", "FATAL_ERROR"}
  BY <1>a, RequestAnswered
<1>3. Busy' = Busy /\ Records' = Records BY BusyStays
<1>4. CASE FoundCoordinator
  <2>1. tm' = [tm EXCEPT !.known = @ \cup {h.type}] /\ UNCHANGED call
    BY <1>4, <1>h DEF FoundCoordinator
  <2>2. h.type \in {"transaction", "group"} BY <1>1 DEF RequestRec
  <2>3. SameBut(tm, tm') /\ tm'.queue = tm.queue BY <2>1, <2>2, Parts DEF Manager, SameBut
  <2>4. Extends(tm, tm', {}) BY <2>3, <1>2 DEF Extends
  <2> QED BY <2>1, <2>4, <1>2, <1>a, RequeuedKeeps
<1>5. CASE GotProducerId
  <2>0. h.kind = "init" BY <1>5, <1>h DEF GotProducerId
  <2>1. tm.state = "INITIALIZING" /\ call = Asked("init") BY <2>0, <1>1, <1>2 DEF Fitting
  <2>2. tm' = [Moved(tm, "READY") EXCEPT !.pid = TRUE] /\ Result(h, "ok")
    BY <1>5, <1>h, <2>1 DEF GotProducerId, Valid
  <2>3. call' \in CallRec /\ call'.kind = "init" /\ call'.res = "ok"
    BY <2>0, <2>1, <2>2, ResultIs DEF Awaited, Asked
  <2>t. PICK t : t = Moved(tm, "READY") OBVIOUS
  <2>4. Moves(tm, t, "READY") BY <2>t, Parts, MovedMoves DEF States
  <2>5. /\ tm' \in Manager /\ tm'.state = "READY" /\ tm'.queue = tm.queue /\ tm'.new = tm.new
        /\ tm'.pending = tm.pending /\ tm'.added = tm.added /\ tm'.started = tm.started
        /\ tm'.offsets = tm.offsets
    BY <2>2, <2>4, <2>t DEF Moves, Manager
  <2>6. /\ tm.queue = <<>> /\ txn = 0 /\ ~Busy /\ tm.new = {} /\ tm.pending = {}
        /\ tm.added = {} /\ ~tm.started /\ tm.offsets = {}
    BY <2>0, <2>1, <1>1, Parts DEF StateInv
  <2>7. Types' BY <2>3, <2>5, <1>a, <1>n, Parts DEF Types
  <2>8. QueueInv(tm', None, call', txn) BY <2>5, <2>6, <1>n, NoElements DEF QueueInv, Fitting
  <2>9. StateInv(tm', None, call', txn, Busy)
    <3>1. \A k : call' # Asked(k) BY <2>3 DEF Asked
    <3> QED BY <3>1, <2>3, <2>5, <2>6, <1>n DEF StateInv, Working
  <2>10. AnswerInv(tm', None, coord, Busy)
    <3>1. \A g \in Elems(tm'.queue) \cup {None} : g.kind # "offset_commit"
      BY <2>5, <2>6, <1>n, NoElements
    <3> QED BY <3>1, <2>5, <2>6, <1>n DEF AnswerInv
  <2>11. Records = {}
    <3>1. \A r \in Records : rec[r].txn \in 1 .. 0 BY <2>6, Parts DEF DataInv, RecordInv
    <3> QED BY <3>1
  <2>12. DataInv'
    <3>1. \A n \in Txns : n > 0 /\ group[n] = "none"
      BY <2>6, Parts DEF DataInv, OffsetsInv, Txns, Types
    <3> QED BY <3>1, <2>6, <2>11, <1>3 DEF DataInv, OffsetsInv
  <2>13. FateInv'
    <3>1. \A n \in Txns : fate[n] = "none" BY <2>1, <2>6, Parts DEF FateInv, Txns, Types
    <3> QED BY <3>1, <2>3, <2>6, <1>a, <1>n DEF FateInv, Outcome
  <2> QED BY <2>6, <2>7, <2>8, <2>9, <2>10, <2>12, <2>13, <1>3, <1>a DEF IInv, ClientInv
<1>6. CASE PartitionsAdded
  <2>0. h.kind = "add" /\ UNCHANGED call BY <1>6, <1>h DEF PartitionsAdded
  <2>1. tm' = [tm EXCEPT !.pending = @ \ h.parts, !.added = @ \cup h.parts, !.started = TRUE]
    BY <1>6, <1>h DEF PartitionsAdded
  <2>2. h.parts \subseteq Partition BY <1>1 DEF RequestRec
  <2>3. /\ tm' \in Manager /\ tm'.state = tm.state /\ tm'.queue = tm.queue /\ tm'.new = tm.new
        /\ tm'.pending = tm.pending \ h.parts /\ tm'.added = tm.added \cup h.parts
        /\ tm'.started = TRUE /\ tm'.offsets = tm.offsets
    BY <2>1, <2>2, Parts DEF Manager
  <2>4. tm.state \in Working /\ h.parts \cap tm.new = {} BY <2>0, <1>1, <1>2 DEF Fitting
  <2>5. Types' BY <2>0, <2>3, <1>a, <1>n, Parts DEF Types
  <2>6. QueueInv(tm', None, call, txn)
    <3>1. \A g : Fitting(tm, call, txn, g) => Fitting(tm', call, txn, g)
      <4> SUFFICES ASSUME NEW g, Fitting(tm, call, txn, g) PROVE Fitting(tm', call, txn, g)
        OBVIOUS
      <4>1. g.parts \subseteq tm.pending \cup tm.added => g.parts \subseteq tm'.pending \cup tm'.added
        BY <2>3
      <4> QED BY <4>1, <2>3 DEF Fitting
    <3>2. Fitting(tm', call, txn, None) BY <1>n DEF Fitting
    <3> QED BY <3>1, <3>2, <2>3, <1>n, Parts DEF QueueInv
  <2>7. StateInv(tm', None, call, txn, Busy)
    <3>1. tm'.new \cap (tm'.pending \cup tm'.added) = {}
      <4>1. tm.new \cap (tm.pending \cup tm.added) = {} BY Parts DEF StateInv
      <4> QED BY <4>1, <2>3, <2>4
    <3>2. tm.state \notin {"UNINITIALIZED", "READY", "INITIALIZING", "FATAL_ERROR"}
      BY <2>4 DEF Working
    <3> QED BY <3>1, <3>2, <2>3, <1>n, Parts DEF StateInv
  <2>8. ~SealedNow BY <2>0, <1>1 DEF SealedNow, Sealed
  <2>9. AnswerInv(tm', None, coord, Busy)
    <3>1. coord.fenced \/ tm'.added \subseteq coord.parts
      <4>1. coord.fenced \/ h.parts \subseteq coord.parts
        BY <2>0, <1>1, <1>a, Parts DEF AnswerInv
      <4>2. coord.fenced \/ tm.added \subseteq coord.parts
        BY <2>8, <1>2, Parts DEF AnswerInv, SealedNow
      <4> QED BY <4>1, <4>2, <2>3
    <3>2. \A g \in Elems(tm'.queue) \cup {None} :
            g.kind = "offset_commit" => coord.fenced \/ coord.group
      BY <2>3, <1>n, Parts DEF AnswerInv
    <3> QED BY <3>1, <3>2, <1>n, Parts DEF AnswerInv
  <2>10. DataInv' BY <2>3, <2>8, DataStays
  <2>11. FateInv' BY <2>0, <1>2, <1>a, <1>n, FatesMoved
  <2> QED BY <2>0, <2>5, <2>6, <2>7, <2>9, <2>10, <2>11, <1>3, <1>a, Parts DEF IInv, ClientInv
<1>7. CASE OffsetsAdded
  <2>0. h.kind = "offsets" /\ UNCHANGED call BY <1>7, <1>h DEF OffsetsAdded
  <2>1. h.offsets = {txn} /\ call = Asked("offsets") /\ tm.state = "IN_TRANSACTION"
    BY <2>0, <1>1, Parts DEF Fitting, StateInv
  <2>2. tm.offsets \cup h.offsets = {txn} /\ txn \in Nat BY <2>1, Parts DEF StateInv
  <2>t. PICK t : t = [tm EXCEPT !.offsets = {txn}, !.started = TRUE] OBVIOUS
  <2>o. PICK o : o = [Request("offset_commit") EXCEPT !.type = "group", !.offsets = {txn}] OBVIOUS
  <2>3. tm' = Enqueued(t, o) BY <1>7, <1>h, <2>2, <2>t, <2>o DEF OffsetsAdded
  <2>4. /\ t \in Manager /\ t.state = tm.state /\ t.queue = tm.queue /\ t.new = tm.new
        /\ t.pending = tm.pending /\ t.added = tm.added /\ t.started = TRUE /\ t.offsets = {txn}
    BY <2>2, <2>t, Parts DEF Manager
  <2>5. o \in RequestRec /\ o.kind = "offset_commit" /\ o.res = "none" /\ o.offsets = {txn}
    BY <2>2, <2>o DEF Request, RequestRec, Kinds, Answers
  <2>6. \A g \in Elems(tm.queue) : ~Awaited(g) BY <2>0, <1>1, <1>2 DEF Awaited
  <2>7. Extends(t, tm', {o}) BY <2>3, <2>4, <2>5, <2>6, <1>2, EnqueuedExtends
  <2>8. /\ tm' \in Manager /\ tm'.state = tm.state /\ tm'.new = tm.new
        /\ tm'.pending = tm.pending /\ tm'.added = tm.added /\ tm'.started = TRUE
        /\ tm'.offsets = {txn} /\ Elems(tm'.queue) = Elems(tm.queue) \cup {o}
    BY <2>4, <2>7 DEF Extends, SameBut
  <2>9. Types' BY <2>0, <2>8, <1>a, <1>n, Parts DEF Types
  <2>10. QueueInv(tm', None, call, txn)
    <3>1. \A g : ~Awaited(g) /\ Fitting(tm, call, txn, g) => Fitting(t, call, txn, g)
      BY <2>4 DEF Fitting, Awaited
    <3>2. Fitting(t, call, txn, None) BY <1>n DEF Fitting
    <3>3. QueueInv(t, None, call, txn)
      BY <3>1, <3>2, <2>4, <2>6, <1>2, <1>n, Parts DEF QueueInv
    <3>4. Fitting(t, call, txn, o) BY <2>1, <2>4, <2>5 DEF Fitting
    <3> QED BY <3>2, <3>3, <3>4, <2>5, <2>7, <1>n, QueueExtended
  <2>11. StateInv(tm', None, call, txn, Busy)
    BY <2>1, <2>8, <1>n, Parts DEF StateInv
  <2>12. ~SealedNow BY <2>0, <1>1 DEF SealedNow, Sealed
  <2>13. AnswerInv(tm', None, coord, Busy)
    <3>1. coord.fenced \/ coord.group BY <2>0, <1>1, <1>a, Parts DEF AnswerInv
    <3>2. coord.fenced \/ tm'.added \subseteq coord.parts
      BY <2>8, <2>12, <1>2, Parts DEF AnswerInv, SealedNow
    <3> QED BY <3>1, <3>2, <1>n, Parts DEF AnswerInv
  <2>14. DataInv' BY <2>8, <2>12, DataStays
  <2>15. FateInv' BY <2>0, <1>2, <1>a, <1>n, FatesMoved
  <2> QED BY <2>0, <2>9, <2>10, <2>11, <2>13, <2>14, <2>15, <1>3, <1>a, Parts DEF IInv, ClientInv
<1>8. CASE OffsetsCommitted
  <2>0. h.kind = "offset_commit" /\ Result(h, "ok") BY <1>8, <1>h DEF OffsetsCommitted
  <2>1. /\ h.offsets = {txn} /\ tm.offsets = {txn} /\ call = Asked("offsets")
        /\ tm.state = "IN_TRANSACTION"
    BY <2>0, <1>1, <1>2 DEF Fitting
  <2>2. tm' = [tm EXCEPT !.offsets = {}]
    <3>1. tm.offsets \ h.offsets = {} BY <2>1
    <3>2. tm' = [tm EXCEPT !.offsets = @ \ h.offsets] BY <1>8, <1>h DEF OffsetsCommitted
    <3> QED BY <3>1, <3>2
  <2>3. /\ tm' \in Manager /\ tm'.state = tm.state /\ tm'.queue = tm.queue /\ tm'.new = tm.new
        /\ tm'.pending = tm.pending /\ tm'.added = tm.added /\ tm'.started = tm.started
        /\ tm'.offsets = {}
    BY <2>2, Parts DEF Manager
  <2>4. call' \in CallRec /\ call'.kind = "offsets" /\ call'.res = "ok"
    BY <2>0, <2>1, ResultIs DEF Awaited, Asked
  <2>5. \A g \in Elems(tm.queue) : ~Awaited(g) BY <2>0, <1>1, <1>2 DEF Awaited
  <2>6. Types' BY <2>3, <2>4, <1>a, <1>n, Parts DEF Types
  <2>7. QueueInv(tm', None, call', txn)
    <3>1. \A g : ~Awaited(g) /\ Fitting(tm, call, txn, g) => Fitting(tm', call', txn, g)
      BY <2>3 DEF Fitting, Awaited
    <3>2. Fitting(tm', call', txn, None) BY <1>n DEF Fitting
    <3> QED BY <3>1, <3>2, <2>3, <2>5, <1>n, Parts DEF QueueInv
  <2>8. StateInv(tm', None, call', txn, Busy)
    <3>1. \A k : call' # Asked(k) BY <2>4 DEF Asked
    <3> QED BY <3>1, <2>1, <2>3, <2>4, <1>n, Parts DEF StateInv
  <2>9. ~SealedNow BY <2>0, <1>1 DEF SealedNow, Sealed
  <2>10. AnswerInv(tm', None, coord, Busy)
    <3>1. coord.fenced \/ tm'.added \subseteq coord.parts
      BY <2>3, <2>9, <1>2, Parts DEF AnswerInv, SealedNow
    <3>2. \A g \in Elems(tm'.queue) \cup {None} : g.kind # "offset_commit"
      BY <2>3, <2>5, <1>n DEF Awaited
    <3> QED BY <3>1, <3>2, <1>n, Parts DEF AnswerInv
  <2>11. DataInv' BY <2>3, <2>9, DataStays
  <2>12. FateInv' BY <2>3, <2>4, <1>a, <1>n, FatesStay
  <2> QED BY <2>6, <2>7, <2>8, <2>10, <2>11, <2>12, <1>3, <1>a, Parts DEF IInv, ClientInv
<1>9. CASE Ended
  <2>0. h.kind = "end" BY <1>9, <1>h DEF Ended
  <2>1. tm.state \in Ending /\ ~Busy /\ tm.queue = <<>>
    BY <2>0, <1>1, Parts DEF StateInv, Sealed
  <2>2. Valid(tm.state, "READY") BY <2>1 DEF Valid, Ending
  <2>3. tm' = Completed(tm) /\ Result(h, "ok") BY <1>9, <1>h, <2>2 DEF Ended
  <2>4. call' = [call EXCEPT !.res = "ok"] BY <2>0, <2>3, ResultIs DEF Awaited
  <2>5. call.kind \in {"commit", "abort"} BY <2>0, <1>1 DEF Fitting
  <2>6. NothingPending /\ Outcome(call.kind) BY <2>0, <1>1, <1>a, Parts DEF FateInv
  <2>7. tm.offsets = {} BY <2>1, EndingRecords
  <2>8. /\ tm' \in Manager /\ tm'.state = "READY" /\ ~tm'.started /\ tm'.new = {} /\ tm'.pending = {}
        /\ tm'.added = {} /\ tm'.queue = <<>> /\ tm'.offsets = {}
    BY <2>1, <2>3, <2>7, Parts, CompletedIs
  <2>9. clear' \in BOOLEAN /\ flying.kind \in {"none", "end"} BY <2>0, <1>1, Parts DEF Types
  <2> QED BY <2>1, <2>4, <2>5, <2>6, <2>8, <2>9, <1>a, CompletedKeeps
<1> QED BY <1>4, <1>5, <1>6, <1>7, <1>8, <1>9 DEF OnOk

-----------------------------------------------------------------------------
(* The coordinator                                                         *)

\* An answer r for the request in flight; the coordinator may know more.
LEMMA ReplyKeeps ==
  ASSUME IInv, flying.kind # "none", NEW r \in Answers, Reply(r), r # "error",
         UNCHANGED <<tm, clear, rec, call, txn, fate, group>>,
         coord' \in CoordRec, coord'.fenced = coord.fenced, coord.parts \subseteq coord'.parts,
         coord.group => coord'.group,
         r = "fatal" => ~Busy,
         r = "abortable" => flying.kind \in {"add", "offsets"} /\ tm.offsets = {},
         r = "ok" => /\ flying.kind = "add" => flying.parts \subseteq coord'.parts
                     /\ flying.kind = "offsets" => coord'.group
                     /\ flying.kind = "end" => NothingPending /\ Outcome(call.kind)
  PROVE  IInv'
<1>f. PICK f : f = flying' OBVIOUS
<1>1. /\ f \in RequestRec /\ f.kind = flying.kind /\ f.res = r /\ f.type = flying.type
      /\ f.parts = flying.parts /\ f.offsets = flying.offsets /\ f.commit = flying.commit
  BY <1>f, Parts DEF Reply, RequestRec
<1>2. \A t, c, x : Fitting(t, c, x, f) <=> Fitting(t, c, x, flying) BY <1>1 DEF Fitting
<1>3. Busy' = Busy /\ Records' = Records BY BusyStays
<1>4. Types' BY <1>1, <1>f, Parts DEF Types
<1>5. QueueInv(tm, f, call, txn) BY <1>1, <1>2, Parts DEF QueueInv, Awaited
<1>6. \A t, b : Sealed(t, flying, b) <=> Sealed(t, f, b) BY <1>1 DEF Sealed
<1>7. StateInv(tm, f, call, txn, Busy) BY <1>1, <1>6, Parts DEF StateInv
<1>8. AnswerInv(tm, f, coord', Busy)
  <2>1. \A h \in Elems(tm.queue) \cup {f} : h.kind = "offset_commit" => coord.fenced \/ coord.group
    BY <1>1, Parts DEF AnswerInv
  <2>2. \/ coord.fenced \/ tm.state = "FATAL_ERROR" \/ tm.added \subseteq coord'.parts
        \/ tm.state \in Ending /\ Sealed(tm, f, Busy)
    BY <1>6, Parts DEF AnswerInv
  <2> QED BY <2>1, <2>2, <1>1, Parts DEF AnswerInv
<1>9. DataInv'
  <2>0. SealedNow => SealedNow'
    <3>1. SealedNow => Sealed(tm, f, Busy) BY <1>6 DEF SealedNow
    <3> QED BY <3>1, <1>3, <1>f DEF SealedNow
  <2>1. ASSUME NEW q \in Records
        PROVE  RecordInv(tm.state, tm.added, tm.started, SealedNow', txn, coord', rec[q])
    <3>1. RecordInv(tm.state, tm.added, tm.started, SealedNow, txn, coord', rec[q])
      BY Parts DEF DataInv, RecordInv
    <3> QED BY <3>1, <2>0, RecordStays
  <2>2. ASSUME NEW n \in Txns
        PROVE  OffsetsInv(tm.state, tm.started, SealedNow', txn, coord', n, group[n])
    <3>1. OffsetsInv(tm.state, tm.started, SealedNow, txn, coord', n, group[n])
      BY Parts DEF DataInv, OffsetsInv
    <3> QED BY <3>1, <2>0, OffsetsStay
  <2> QED BY <2>1, <2>2, <1>3 DEF DataInv
<1>10. FateInv'
  <2>1. \A n : Of(n)' = Of(n) BY <1>3 DEF Of
  <2>2. \A n : (Committed(n)' <=> Committed(n)) /\ (Aborted(n)' <=> Aborted(n)) /\ (Whole(n)' <=> Whole(n))
    BY <2>1 DEF Committed, Aborted, Whole
  <2>3. \A k : Outcome(k)' <=> Outcome(k) BY <2>2 DEF Outcome
  <2>4. NothingPending' <=> NothingPending BY <1>3 DEF NothingPending
  <2> QED BY <2>2, <2>3, <2>4, <1>1, <1>f, Parts DEF FateInv
<1> QED BY <1>3, <1>4, <1>5, <1>7, <1>8, <1>9, <1>10, <1>f, Parts DEF IInv, ClientInv

LEMMA CoordinatorFailsKeeps ==
  ASSUME IInv, ~Gap, CoordinatorFails
  PROVE  IInv'
<1>a. flying.kind # "none" /\ UNCHANGED <<tm, clear, rec, call, txn, fate, coord, group>>
  BY DEF CoordinatorFails
<1>1. CASE Reply("lost")
  BY <1>1, <1>a, Parts, ReplyKeeps DEF Answers
<1>2. CASE \E e \in Errors(flying.kind) :
             /\ Reply(e)
             /\ e = "abortable" => (tm.offsets = {} /\ ~Failing) \/ Gap
             /\ e = "fatal" => Incomplete = {} \/ Gap
  <2>1. PICK e \in Errors(flying.kind) :
          /\ Reply(e)
          /\ e = "abortable" => tm.offsets = {}
          /\ e = "fatal" => Incomplete = {}
    BY <1>2
  <2>2. /\ e \in {"retry", "moved", "fatal", "abortable"}
        /\ e = "abortable" => flying.kind \in {"add", "offsets"}
    <3>1. flying.kind \in Kinds BY Parts DEF RequestRec
    <3> QED BY <3>1, <2>1 DEF Errors, Kinds
  <2>3. e \in Answers /\ e # "error" /\ e # "ok" BY <2>2 DEF Answers
  <2>4. e = "fatal" => ~Busy BY <2>1 DEF Busy
  <2> QED BY <2>1, <2>2, <2>3, <2>4, <1>a, Parts, ReplyKeeps
<1> QED BY <1>1, <1>2 DEF CoordinatorFails

\* Markers are written for the outcome: what is pending has it then.
Marking(outcome) ==
  /\ rec' = [r \in Records |->
       IF rec[r].log = "pending" /\ rec[r].tp \in coord.parts
       THEN [rec[r] EXCEPT !.log = outcome] ELSE rec[r]]
  /\ group' = [n \in DOMAIN group |-> IF group[n] = "pending" THEN outcome ELSE group[n]]

LEMMA MarkingIs ==
  ASSUME IInv, NEW outcome \in {"committed", "aborted"}, Marking(outcome)
  PROVE  /\ rec' \in Seq(RecordRec) /\ Records' = Records /\ Busy' = Busy
         /\ group' \in [Txns -> Logs] /\ (\A n : Of(n)' = Of(n) /\ Of(n) \subseteq Records)
         /\ \A r \in Records :
              /\ rec'[r].tp = rec[r].tp /\ rec'[r].txn = rec[r].txn /\ rec'[r].at = rec[r].at
              /\ rec'[r].res = rec[r].res /\ rec'[r].final = rec[r].final
              /\ rec'[r].log = IF rec[r].log = "pending" THEN outcome ELSE rec[r].log
         /\ \A n \in Txns : group'[n] = IF group[n] = "pending" THEN outcome ELSE group[n]
<1>n. PICK n : n = Len(rec) OBVIOUS
<1>0. n \in Nat /\ Records = 1 .. n /\ \A r \in Records : rec[r] \in RecordRec
  BY <1>n, Parts DEF Types, Records
<1>1. ASSUME NEW r \in Records
      PROVE  /\ rec'[r] \in RecordRec
             /\ rec'[r].tp = rec[r].tp /\ rec'[r].txn = rec[r].txn /\ rec'[r].at = rec[r].at
             /\ rec'[r].res = rec[r].res /\ rec'[r].final = rec[r].final
             /\ rec'[r].log = IF rec[r].log = "pending" THEN outcome ELSE rec[r].log
  <2>1. rec[r].log = "pending" => rec[r].tp \in coord.parts BY Parts DEF DataInv, RecordInv
  <2>2. CASE rec[r].log = "pending"
    <3>1. PICK e : e = [rec[r] EXCEPT !.log = outcome] OBVIOUS
    <3>2. rec'[r] = e BY <2>1, <2>2, <3>1 DEF Marking
    <3>3. /\ e \in RecordRec /\ e.tp = rec[r].tp /\ e.txn = rec[r].txn /\ e.at = rec[r].at
          /\ e.res = rec[r].res /\ e.final = rec[r].final /\ e.log = outcome
      BY <1>0, <3>1 DEF RecordRec, Logs
    <3> QED BY <2>2, <3>2, <3>3
  <2>3. CASE rec[r].log # "pending"
    <3>1. rec'[r] = rec[r] BY <2>3 DEF Marking
    <3> QED BY <1>0, <2>3, <3>1
  <2> QED BY <2>2, <2>3
<1>2. Len(rec') = n /\ rec' \in Seq(RecordRec) BY <1>0, <1>1 DEF Marking
<1>3. Records' = Records BY <1>0, <1>2 DEF Records
<1>4. Busy' = Busy
  <2>1. Incomplete' = Incomplete BY <1>1, <1>3 DEF Incomplete
  <2> QED BY <2>1 DEF Busy
<1>5. \A n1 : Of(n1)' = Of(n1) /\ Of(n1) \subseteq Records BY <1>1, <1>3 DEF Of
<1>6. /\ group' \in [Txns -> Logs]
      /\ \A n1 \in Txns : group'[n1] = IF group[n1] = "pending" THEN outcome ELSE group[n1]
  <2>1. group \in [Txns -> Logs] BY Parts DEF Types
  <2>2. group' = [n1 \in Txns |-> IF group[n1] = "pending" THEN outcome ELSE group[n1]]
    BY <2>1 DEF Marking
  <2> QED BY <2>1, <2>2 DEF Logs
<1> QED BY <1>1, <1>2, <1>3, <1>4, <1>5, <1>6

\* The end of the transaction, as the request asks for it.
LEMMA EndMarked ==
  ASSUME IInv, flying.kind = "end", ~coord.fenced, Reply("ok"),
         Marked(IF flying.commit THEN "committed" ELSE "aborted"),
         UNCHANGED <<tm, clear, call, txn, fate>>
  PROVE  IInv'
<1>o. PICK outcome : outcome = IF flying.commit THEN "committed" ELSE "aborted" OBVIOUS
<1>t. outcome \in {"committed", "aborted"} BY <1>o
<1>m. Marking(outcome) BY <1>o DEF Marked, Marking
<1>1. /\ rec' \in Seq(RecordRec) /\ Records' = Records /\ Busy' = Busy
      /\ group' \in [Txns -> Logs] /\ (\A n : Of(n)' = Of(n) /\ Of(n) \subseteq Records)
      /\ \A r \in Records :
           /\ rec'[r].tp = rec[r].tp /\ rec'[r].txn = rec[r].txn /\ rec'[r].at = rec[r].at
           /\ rec'[r].res = rec[r].res /\ rec'[r].final = rec[r].final
           /\ rec'[r].log = IF rec[r].log = "pending" THEN outcome ELSE rec[r].log
      /\ \A n \in Txns : group'[n] = IF group[n] = "pending" THEN outcome ELSE group[n]
  BY <1>t, <1>m, MarkingIs
<1>2. /\ coord' \in CoordRec /\ coord'.parts = {} /\ ~coord'.group /\ ~coord'.fenced
  <2>1. coord' = [coord EXCEPT !.parts = {}, !.group = FALSE, !.last = outcome]
    BY <1>o DEF Marked
  <2> QED BY <2>1, <1>t, Parts DEF CoordRec
<1>f. PICK f : f = flying' OBVIOUS
<1>3. /\ f \in RequestRec /\ f.kind = "end" /\ f.res = "ok" /\ f.type = flying.type
      /\ f.parts = flying.parts /\ f.offsets = flying.offsets /\ f.commit = flying.commit
  BY <1>f, Parts DEF Reply, RequestRec, Answers
<1>4. tm.state \in Ending /\ SealedNow /\ ~Busy /\ tm.queue = <<>> /\ Sealed(tm, f, Busy)
  <2>1. tm.state \in Ending /\ SealedNow /\ tm.queue = <<>> BY Parts DEF StateInv, SealedNow
  <2> QED BY <2>1, <1>3 DEF SealedNow, Sealed
<1>5. /\ tm.state = "COMMITTING_TRANSACTION" <=> outcome = "committed"
      /\ tm.state = "ABORTING_TRANSACTION" <=> outcome = "aborted"
      /\ call.kind = IF outcome = "committed" THEN "commit" ELSE "abort"
      /\ call.res = "pending"
  <2>1. /\ call = Asked(IF tm.state = "COMMITTING_TRANSACTION" THEN "commit" ELSE "abort")
    BY <1>4, EndingRecords
  <2>2. call.kind = IF tm.state = "COMMITTING_TRANSACTION" THEN "commit" ELSE "abort"
    BY <2>1 DEF Asked
  <2>3. flying.commit <=> call.kind = "commit" BY Parts DEF QueueInv, Fitting
  <2>4. call.res = "pending" BY <2>1 DEF Asked
  <2>5. tm.state \in {"COMMITTING_TRANSACTION", "ABORTING_TRANSACTION"} BY <1>4 DEF Ending
  <2> QED BY <2>2, <2>3, <2>4, <2>5, <1>o
<1>6. Types' BY <1>1, <1>2, <1>3, <1>f, Parts DEF Types
<1>7. QueueInv(tm, f, call, txn)
  <2>1. Fitting(tm, call, txn, f) BY <1>3, Parts DEF QueueInv, Fitting
  <2> QED BY <2>1, <1>4, NoElements, Parts DEF QueueInv
<1>8. StateInv(tm, f, call, txn, Busy) BY <1>3, <1>4, Parts DEF StateInv
<1>9. AnswerInv(tm, f, coord', Busy)
  <2>1. \A g \in Elems(tm.queue) \cup {f} : g.kind # "offset_commit" BY <1>3, <1>4, NoElements
  <2> QED BY <2>1, <1>2, <1>3, <1>4 DEF AnswerInv
<1>10. SealedNow' BY <1>1, <1>4, <1>f DEF SealedNow
<1>11. DataInv'
  <2>1. ASSUME NEW r \in Records
        PROVE  RecordInv(tm.state, tm.added, tm.started, TRUE, txn, coord', rec'[r])
    <3>e. PICK e : e = rec'[r] OBVIOUS
    <3>1. RecordInv(tm.state, tm.added, tm.started, TRUE, txn, coord, rec[r])
      <4>1. RecordInv(tm.state, tm.added, tm.started, SealedNow, txn, coord, rec[r])
        BY Parts DEF DataInv
      <4> QED BY <4>1, <1>4, RecordStays
    <3>2. /\ e.tp = rec[r].tp /\ e.txn = rec[r].txn /\ e.at = rec[r].at
          /\ e.res = rec[r].res /\ e.final = rec[r].final
          /\ e.log = IF rec[r].log = "pending" THEN outcome ELSE rec[r].log
      BY <1>1, <3>e
    <3>3. e.log # "pending" /\ (e.log # "none" <=> rec[r].log # "none")
          /\ (e.log # rec[r].log => e.log = outcome)
      BY <3>2, <1>t
    <3>4. e.log = "committed" =>
            rec[r].log = "committed" \/ Marks(tm.state, TRUE, "COMMITTING_TRANSACTION")
      BY <3>3, <1>5 DEF Marks
    <3>5. e.log = "aborted" =>
            rec[r].log = "aborted" \/ Marks(tm.state, TRUE, "ABORTING_TRANSACTION")
      BY <3>3, <1>5 DEF Marks
    <3>6. RecordInv(tm.state, tm.added, tm.started, TRUE, txn, coord', e)
      BY <3>1, <3>2, <3>3, <3>4, <3>5, <1>2 DEF RecordInv
    <3> QED BY <3>6, <3>e
  <2>2. ASSUME NEW n \in Txns
        PROVE  OffsetsInv(tm.state, tm.started, TRUE, txn, coord', n, group'[n])
    <3>1. OffsetsInv(tm.state, tm.started, SealedNow, txn, coord, n, group[n])
      BY Parts DEF DataInv
    <3>2. group'[n] = IF group[n] = "pending" THEN outcome ELSE group[n] BY <1>1
    <3>3. group[n] = "pending" => n = txn /\ ~(n > txn)
      <4>1. group[n] = "pending" => n = txn BY <3>1 DEF OffsetsInv
      <4> QED BY <4>1, Parts
    <3>4. group[n] = "pending" /\ outcome = "committed" => Marks(tm.state, TRUE, "COMMITTING_TRANSACTION")
      BY <1>5 DEF Marks
    <3> QED BY <3>1, <3>2, <3>3, <3>4, <1>t, <1>4 DEF OffsetsInv
  <2> QED BY <2>1, <2>2, <1>1, <1>10 DEF DataInv
<1>x. PICK x : x = txn OBVIOUS
<1>12. /\ txn \in Txns
       /\ \A r \in Of(x) :
            /\ outcome = "committed" => rec[r].final = "ok" /\ rec[r].log \in {"pending", "committed"}
            /\ outcome = "aborted" => rec[r].log # "committed"
       /\ outcome = "aborted" => group[x] # "committed"
       /\ \A r \in Records : rec[r].log = "pending" => r \in Of(x)
       /\ \A n \in Txns : group[n] = "pending" => n = x
  <2>1. \A r \in Of(x) : rec[r].log \in Logs
    <3>1. \A r \in Records : rec[r] \in RecordRec BY Parts DEF Types, Records
    <3> QED BY <3>1 DEF Of, RecordRec
  <2> QED BY <2>1, <1>4, <1>5, <1>x, EndingRecords DEF Logs
<1>13. /\ \A r \in Of(x) : outcome = "committed" => rec'[r].final = "ok" /\ rec'[r].log = "committed"
       /\ \A r \in Of(x) : outcome = "aborted" => rec'[r].log # "committed"
       /\ outcome = "committed" => group'[x] # "pending"
       /\ outcome = "aborted" => group'[x] # "committed"
  <2>1. \A r \in Of(x) : r \in Records BY DEF Of
  <2> QED BY <2>1, <1>1, <1>12, <1>x, <1>t
<1>14. /\ outcome = "committed" => Committed(x)'
       /\ outcome = "aborted" => Aborted(x)'
       /\ Whole(x)'
  BY <1>1, <1>13, <1>t DEF Committed, Aborted, Whole
<1>15. ASSUME NEW n \in 1 .. txn, n # x
       PROVE  /\ Committed(n) => Committed(n)'
              /\ Aborted(n) => Aborted(n)'
              /\ Whole(n) => Whole(n)'
  <2>1. n \in Txns
    <3>1. txn \in Nat /\ MaxTxns \in Nat /\ txn <= MaxTxns BY Parts, BoundAssumption DEF Types
    <3> QED BY <3>1 DEF Txns
  <2>2. group'[n] = group[n] BY <2>1, <1>1, <1>12, <1>15
  <2>3. \A r \in Of(n) : rec'[r].log = rec[r].log /\ rec'[r].final = rec[r].final
    <3>1. \A r \in Of(n) : r \in Records /\ r \notin Of(x) BY <1>15 DEF Of
    <3> QED BY <3>1, <1>1, <1>12
  <2>4. Of(n)' = Of(n) BY <1>1
  <2> QED BY <2>2, <2>3, <2>4 DEF Committed, Aborted, Whole
<1>16. NothingPending'
  <2>1. \A r \in Records : rec'[r].log # "pending" BY <1>1, <1>t
  <2>2. \A n \in Txns : group'[n] # "pending" BY <1>1, <1>t
  <2> QED BY <2>1, <2>2, <1>1 DEF NothingPending
<1>17. FateInv'
  <2>1. \A n \in 1 .. txn : Whole(n)'
    <3>1. \A n \in 1 .. txn : n # x => Whole(n)' BY <1>15, Parts DEF FateInv
    <3> QED BY <3>1, <1>14
  <2>2. ASSUME NEW n \in Txns
        PROVE  /\ fate[n] # "none" => n < txn
               /\ fate[n] = "commit" => Committed(n)'
               /\ fate[n] = "abort" => Aborted(n)'
    <3>1. fate[n] # "none" => n < txn
      <4>1. tm.state # "READY" BY <1>4 DEF Ending
      <4> QED BY <4>1, Parts DEF FateInv
    <3>2. fate[n] # "none" => n \in 1 .. txn /\ n # x
      <4>1. n \in Nat /\ n >= 1 BY DEF Txns
      <4> QED BY <4>1, <3>1, <1>x, Parts
    <3> QED BY <3>1, <3>2, <1>15, Parts DEF FateInv
  <2>3. (call.kind = "commit" => Committed(x)') /\ (call.kind = "abort" => Aborted(x)')
    <3>1. /\ call.kind = "commit" => outcome = "committed"
          /\ call.kind = "abort" => outcome = "aborted"
      BY <1>5, <1>t
    <3> QED BY <3>1, <1>14
  <2>4. \A k : k = call.kind => Outcome(k)'
    BY <2>3, <1>x DEF Outcome, Committed, Aborted, Of
  <2> QED BY <2>1, <2>2, <2>4, <1>5, <1>16 DEF FateInv
<1> QED BY <1>1, <1>6, <1>7, <1>8, <1>9, <1>11, <1>17, <1>f, Parts DEF IInv, ClientInv

\* The offsets of the transaction are written to the group.
LEMMA OffsetsWritten ==
  ASSUME IInv, ~coord.fenced, flying.kind = "offset_commit", Reply("ok"),
         group' = [n \in DOMAIN group |-> IF n \in flying.offsets THEN "pending" ELSE group[n]],
         UNCHANGED <<tm, clear, rec, call, txn, fate, coord>>
  PROVE  IInv'
<1>f. PICK f : f = flying' OBVIOUS
<1>1. /\ f \in RequestRec /\ f.kind = "offset_commit" /\ f.res = "ok" /\ f.type = flying.type
      /\ f.parts = flying.parts /\ f.offsets = flying.offsets /\ f.commit = flying.commit
  BY <1>f, Parts DEF Reply, RequestRec, Answers
<1>2. /\ tm.state \in {"IN_TRANSACTION", "FATAL_ERROR"} /\ call = Asked("offsets")
      /\ flying.offsets = {txn} /\ tm.started /\ tm.state # "FATAL_ERROR"
      /\ coord.fenced \/ coord.group
  BY Parts DEF QueueInv, Fitting, StateInv, AnswerInv
<1>3. Busy' = Busy /\ Records' = Records BY BusyStays
<1>4. /\ group' \in [Txns -> Logs]
      /\ \A n \in Txns : group'[n] = IF n = txn THEN "pending" ELSE group[n]
  <2>1. group \in [Txns -> Logs] BY Parts DEF Types
  <2>2. group' = [n \in Txns |-> IF n = txn THEN "pending" ELSE group[n]] BY <2>1, <1>2
  <2> QED BY <2>1, <2>2 DEF Logs
<1>5. Types' BY <1>1, <1>4, <1>f, Parts DEF Types
<1>6. QueueInv(tm, f, call, txn)
  <2>1. Fitting(tm, call, txn, f) BY <1>1, Parts DEF QueueInv, Fitting
  <2>2. Awaited(flying) BY DEF Awaited
  <2> QED BY <2>1, <2>2, Parts DEF QueueInv
<1>7. StateInv(tm, f, call, txn, Busy) BY <1>1, Parts DEF StateInv
<1>8. ~SealedNow BY DEF SealedNow, Sealed
<1>9. AnswerInv(tm, f, coord, Busy)
  <2>1. coord.fenced \/ tm.added \subseteq coord.parts
    BY <1>2, <1>8, Parts DEF AnswerInv, SealedNow
  <2> QED BY <2>1, <1>1, <1>2, Parts DEF AnswerInv
<1>10. DataInv'
  <2>1. tm.state \notin Ending BY <1>2 DEF Ending
  <2>2. \A r \in Records :
          RecordInv(tm.state, tm.added, tm.started, SealedNow', txn, coord, rec[r])
    BY <1>8, RecordStays, Parts DEF DataInv
  <2>3. ASSUME NEW n \in Txns
        PROVE  OffsetsInv(tm.state, tm.started, SealedNow', txn, coord, n, group'[n])
    <3>1. CASE n = txn
      <4>1. group'[n] = "pending" /\ ~(n > txn) BY <3>1, <1>4, Parts
      <4> QED BY <3>1, <4>1, <1>2 DEF OffsetsInv
    <3>2. CASE n # txn
      <4>1. group'[n] = group[n] BY <3>2, <1>4
      <4>2. OffsetsInv(tm.state, tm.started, SealedNow, txn, coord, n, group[n])
        BY Parts DEF DataInv
      <4> QED BY <4>1, <4>2, <1>8, OffsetsStay
    <3> QED BY <3>1, <3>2
  <2> QED BY <2>2, <2>3, <1>3 DEF DataInv
<1>11. FateInv'
  <2>1. \A n : Of(n)' = Of(n) BY <1>3 DEF Of
  <2>2. \A n : Whole(n)' <=> Whole(n) BY <2>1 DEF Whole
  <2>3. \A n \in Txns : n # txn => (Committed(n) => Committed(n)') /\ (Aborted(n) => Aborted(n)')
    BY <2>1, <1>4 DEF Committed, Aborted
  <2>4. \A n \in Txns : fate[n] # "none" => n < txn /\ n # txn
    <3>1. \A n \in Txns : fate[n] # "none" => n < txn BY <1>2, Parts DEF FateInv
    <3>2. \A n \in Txns : n \in Nat BY DEF Txns
    <3> QED BY <3>1, <3>2, Parts
  <2>5. call.res = "pending" BY <1>2 DEF Asked
  <2> QED BY <2>2, <2>3, <2>4, <2>5, <1>1, <1>f, Parts DEF FateInv
<1> QED BY <1>3, <1>5, <1>6, <1>7, <1>9, <1>10, <1>11, <1>f, Parts DEF IInv, ClientInv

\* What the coordinator does with the request in flight.
LEMMA CoordinateKeeps ==
  ASSUME IInv, Coordinate
  PROVE  IInv'
<1>a. flying.kind # "none" /\ flying.res = "none" /\ UNCHANGED <<tm, clear, call, txn, fate, faults>>
  BY DEF Coordinate
<1>t. "ok" \in Answers /\ "fatal" \in Answers BY DEF Answers
<1>c. coord \in CoordRec BY Parts
<1>1. CASE flying.kind = "find"
  <2>1. Reply("ok") /\ UNCHANGED <<coord, rec, group>> BY <1>1 DEF Coordinate
  <2> QED BY <2>1, <1>1, <1>a, <1>t, <1>c, ReplyKeeps
<1>2. CASE flying.kind # "find" /\ coord.fenced
  <2>1. Reply("fatal") /\ UNCHANGED <<coord, rec, group>> BY <1>2 DEF Coordinate
  <2>2. ~Busy BY <1>2, Parts DEF AnswerInv
  <2> QED BY <2>1, <2>2, <1>a, <1>t, <1>c, ReplyKeeps
<1>3. CASE flying.kind = "init" /\ Reply("ok") /\ UNCHANGED <<coord, rec, group>>
  BY <1>3, <1>a, <1>t, <1>c, ReplyKeeps
<1>4. CASE /\ flying.kind = "add" /\ Reply("ok") /\ UNCHANGED <<rec, group>>
           /\ coord' = [coord EXCEPT !.parts = @ \cup flying.parts]
  <2>1. flying.parts \subseteq Partition BY Parts DEF RequestRec
  <2>2. /\ coord' \in CoordRec /\ coord'.fenced = coord.fenced
        /\ coord'.parts = coord.parts \cup flying.parts /\ coord'.group = coord.group
    BY <2>1, <1>4, <1>c DEF CoordRec
  <2> QED BY <2>2, <1>4, <1>a, <1>t, ReplyKeeps
<1>5. CASE /\ flying.kind = "offsets" /\ Reply("ok") /\ UNCHANGED <<rec, group>>
           /\ coord' = [coord EXCEPT !.group = TRUE]
  <2>1. /\ coord' \in CoordRec /\ coord'.fenced = coord.fenced
        /\ coord'.parts = coord.parts /\ coord'.group = TRUE
    BY <1>5, <1>c DEF CoordRec
  <2> QED BY <2>1, <1>5, <1>a, <1>t, ReplyKeeps
<1>6. CASE /\ ~coord.fenced /\ flying.kind = "offset_commit" /\ Reply("ok") /\ UNCHANGED <<coord, rec>>
           /\ group' = [n \in DOMAIN group |-> IF n \in flying.offsets THEN "pending" ELSE group[n]]
  BY <1>6, <1>a, OffsetsWritten
<1>7. CASE ~coord.fenced /\ flying.kind = "end" /\ Open
  <2>1. Reply("ok") /\ Marked(IF flying.commit THEN "committed" ELSE "aborted")
    BY <1>7 DEF Coordinate
  <2> QED BY <2>1, <1>7, <1>a, EndMarked
<1>8. CASE ~coord.fenced /\ flying.kind = "end" /\ ~Open
  <2>1. PICK r \in {"ok", "fatal"} : Reply(r) /\ UNCHANGED <<coord, rec, group>>
    BY <1>8 DEF Coordinate
  <2>2. tm.state \in Ending /\ ~Busy BY <1>8, Parts DEF StateInv, Sealed
  <2>3. coord.parts = {} /\ ~coord.group BY <1>8 DEF Open
  <2>4. NothingPending BY <2>2, <2>3, EndingRecords DEF NothingPending
  <2>5. Outcome(call.kind)
    <3>1. /\ call = Asked(IF tm.state = "COMMITTING_TRANSACTION" THEN "commit" ELSE "abort")
          /\ txn \in Txns
          /\ \A r1 \in Of(txn) :
               /\ tm.state = "COMMITTING_TRANSACTION" =>
                    /\ rec[r1].final = "ok" /\ rec[r1].log # "none" /\ rec[r1].log # "aborted"
               /\ tm.state = "ABORTING_TRANSACTION" => rec[r1].log # "committed"
          /\ tm.state = "ABORTING_TRANSACTION" => group[txn] # "committed"
      BY <2>2, <1>8, EndingRecords
    <3>2. call.kind = IF tm.state = "COMMITTING_TRANSACTION" THEN "commit" ELSE "abort"
      BY <3>1 DEF Asked
    <3>3. \A r1 \in Of(txn) : r1 \in Records /\ rec[r1].log \in Logs
      <4>1. \A r1 \in Records : rec[r1] \in RecordRec BY Parts DEF Types, Records
      <4> QED BY <4>1 DEF Of, RecordRec
    <3>4. call.kind = "commit" => Committed(txn)
      <4>1. call.kind = "commit" => tm.state = "COMMITTING_TRANSACTION" BY <3>2
      <4>2. group[txn] # "pending" BY <2>4, <3>1 DEF NothingPending
      <4>3. \A r1 \in Of(txn) : rec[r1].log # "pending" BY <2>4, <3>3 DEF NothingPending
      <4> QED BY <4>1, <4>2, <4>3, <3>1, <3>3 DEF Committed, Logs
    <3>5. call.kind = "abort" => Aborted(txn)
      <4>1. call.kind = "abort" => tm.state = "ABORTING_TRANSACTION" BY <2>2, <3>2 DEF Ending
      <4> QED BY <4>1, <3>1 DEF Aborted
    <3> QED BY <3>4, <3>5 DEF Outcome
  <2> QED BY <2>1, <2>2, <2>4, <2>5, <1>8, <1>a, <1>t, <1>c, ReplyKeeps
<1>9. CASE flying.kind # "find" /\ ~coord.fenced BY <1>3, <1>4, <1>5, <1>6, <1>7, <1>8, <1>9 DEF Coordinate
<1> QED BY <1>1, <1>2, <1>9

\* Another producer has the transactional id: what is pending is aborted.
LEMMA FenceKeeps ==
  ASSUME IInv, ~Gap, Fence
  PROVE  IInv'
<1>a. /\ ~Busy /\ ~coord.fenced /\ Marking("aborted")
      /\ coord' = [coord EXCEPT !.parts = {}, !.group = FALSE, !.last = "aborted", !.fenced = TRUE]
      /\ UNCHANGED <<tm, flying, clear, call, txn, fate>>
  BY DEF Fence, Marking, Busy
<1>1. /\ rec' \in Seq(RecordRec) /\ Records' = Records /\ Busy' = Busy
      /\ group' \in [Txns -> Logs] /\ (\A n : Of(n)' = Of(n) /\ Of(n) \subseteq Records)
      /\ \A r \in Records :
           /\ rec'[r].tp = rec[r].tp /\ rec'[r].txn = rec[r].txn /\ rec'[r].at = rec[r].at
           /\ rec'[r].res = rec[r].res /\ rec'[r].final = rec[r].final
           /\ rec'[r].log = IF rec[r].log = "pending" THEN "aborted" ELSE rec[r].log
      /\ \A n \in Txns : group'[n] = IF group[n] = "pending" THEN "aborted" ELSE group[n]
  BY <1>a, MarkingIs
<1>2. coord' \in CoordRec /\ coord'.fenced /\ coord'.parts = {} BY <1>a, Parts DEF CoordRec
<1>3. Types' BY <1>1, <1>2, <1>a, Parts DEF Types
<1>4. ClientInv' BY <1>1, <1>a, Parts DEF ClientInv
<1>5. AnswerInv(tm, flying, coord', Busy) BY <1>2, <1>a, Parts DEF AnswerInv
<1>6. SealedNow' = SealedNow BY <1>1, <1>a DEF SealedNow
<1>7. DataInv'
  <2>1. ASSUME NEW r \in Records
        PROVE  RecordInv(tm.state, tm.added, tm.started, SealedNow, txn, coord', rec'[r])
    <3>e. PICK e : e = rec'[r] OBVIOUS
    <3>1. RecordInv(tm.state, tm.added, tm.started, SealedNow, txn, coord, rec[r])
      BY Parts DEF DataInv
    <3>2. /\ e.tp = rec[r].tp /\ e.txn = rec[r].txn /\ e.at = rec[r].at
          /\ e.res = rec[r].res /\ e.final = rec[r].final
          /\ e.log = IF rec[r].log = "pending" THEN "aborted" ELSE rec[r].log
      BY <1>1, <3>e
    <3>3. RecordInv(tm.state, tm.added, tm.started, SealedNow, txn, coord', e)
      BY <3>1, <3>2, <1>2 DEF RecordInv
    <3> QED BY <3>3, <3>e
  <2>2. ASSUME NEW n \in Txns
        PROVE  OffsetsInv(tm.state, tm.started, SealedNow, txn, coord', n, group'[n])
    <3>1. OffsetsInv(tm.state, tm.started, SealedNow, txn, coord, n, group[n])
      BY Parts DEF DataInv
    <3>2. group'[n] = IF group[n] = "pending" THEN "aborted" ELSE group[n] BY <1>1
    <3>3. group[n] = "pending" => ~(n > txn)
      <4>1. group[n] = "pending" => n = txn BY <3>1 DEF OffsetsInv
      <4> QED BY <4>1, Parts
    <3> QED BY <3>1, <3>2, <3>3 DEF OffsetsInv
  <2> QED BY <2>1, <2>2, <1>1, <1>6, <1>a DEF DataInv
<1>8. FateInv'
  <2>1. \A n : \A r \in Of(n) : /\ rec'[r].final = rec[r].final
                                /\ rec'[r].log = "committed" <=> rec[r].log = "committed"
    BY <1>1
  <2>2. \A n : Whole(n) => Whole(n)' BY <2>1, <1>1 DEF Whole
  <2>3. \A n \in Txns : (Committed(n) => Committed(n)') /\ (Aborted(n) => Aborted(n)')
    BY <2>1, <1>1 DEF Committed, Aborted
  <2>4. (\A r \in Records : rec'[r].log # "pending") /\ (\A n \in Txns : group'[n] # "pending")
    BY <1>1
  <2>5. NothingPending' BY <2>4, <1>1 DEF NothingPending
  <2>6. txn \in Txns => \A k : Outcome(k) => Outcome(k)'
    <3>1. ASSUME txn \in Txns PROVE \A k : Outcome(k) => Outcome(k)'
      <4>1. group'[txn] = IF group[txn] = "pending" THEN "aborted" ELSE group[txn] BY <1>1, <3>1
      <4>x. PICK x : x = txn OBVIOUS
      <4>2. (Committed(x) => Committed(x)') /\ (Aborted(x) => Aborted(x)') BY <2>3, <3>1, <4>x
      <4> QED BY <4>2, <4>x, <1>a DEF Outcome, Committed, Aborted, Of
    <3> QED BY <3>1
  <2>7. call.kind \in {"commit", "abort"} => txn \in Txns
    <3>1. call.kind \in {"commit", "abort"} => txn # 0 BY Parts DEF StateInv
    <3> QED BY <3>1, Parts DEF Types, Txns
  <2>8. call.kind \notin {"commit", "abort"} => \A k : k = call.kind => Outcome(k)'
    BY DEF Outcome
  <2> QED BY <2>2, <2>3, <2>5, <2>6, <2>7, <2>8, <1>a, Parts DEF FateInv
<1> QED BY <1>1, <1>3, <1>4, <1>5, <1>7, <1>8, <1>a, Parts DEF IInv

-----------------------------------------------------------------------------
(* The invariant and what follows from it                                  *)

LEMMA InitEstablishes ==
  ASSUME Init
  PROVE  IInv
<1>1. /\ tm.state = "UNINITIALIZED" /\ tm.queue = <<>> /\ tm.known = {} /\ tm.new = {}
      /\ tm.pending = {} /\ tm.added = {} /\ tm.started = FALSE /\ tm.offsets = {} /\ tm.pid = FALSE
      /\ tm \in Manager
  BY DEF Init, Manager, States
<1>2. flying = None /\ clear = FALSE /\ rec = <<>> /\ call = Idle /\ txn = 0
      /\ fate = [n \in Txns |-> "none"] /\ group = [n \in Txns |-> "none"]
  BY DEF Init, Txns
<1>3. coord.parts = {} /\ coord.group = FALSE /\ coord.fenced = FALSE /\ coord \in CoordRec
  BY DEF Init, CoordRec
<1>4. call \in CallRec /\ call.kind = "none" /\ call.res = "none" /\ \A k : call # Asked(k)
  BY <1>2 DEF Idle, CallRec, Asked
<1>5. flying \in RequestRec /\ flying.kind = "none" /\ flying.res = "none" /\ ~Awaited(flying)
  BY <1>2, RequestTypes
<1>6. Records = {} /\ ~Busy
  <2>1. Records = {} BY <1>2 DEF Records
  <2> QED BY <2>1 DEF Busy, Incomplete
<1>7. txn \in 0 .. MaxTxns BY <1>2, BoundAssumption
<1>8. Types
  <2>1. rec \in Seq(RecordRec) BY <1>2, EmptySeq
  <2>2. clear \in BOOLEAN BY <1>2
  <2>3. fate \in [Txns -> {"none", "commit", "abort"}] /\ group \in [Txns -> Logs] BY <1>2 DEF Logs
  <2> QED BY <2>1, <2>2, <2>3, <1>1, <1>3, <1>4, <1>5, <1>7 DEF Types
<1>9. QueueInv(tm, flying, call, txn) BY <1>1, <1>5, NoElements DEF QueueInv, Fitting
<1>10. StateInv(tm, flying, call, txn, Busy)
  BY <1>1, <1>2, <1>4, <1>5, <1>6 DEF StateInv, Working
<1>11. AnswerInv(tm, flying, coord, Busy)
  BY <1>1, <1>3, <1>5, <1>6, NoElements DEF AnswerInv
<1>12. DataInv
  <2>1. \A n \in Txns : group[n] = "none" BY <1>2
  <2> QED BY <2>1, <1>6 DEF DataInv, OffsetsInv
<1>13. FateInv
  <2>1. \A n \in Txns : fate[n] = "none" BY <1>2
  <2>2. 1 .. txn = {} BY <1>2
  <2> QED BY <2>1, <2>2, <1>4, <1>5 DEF FateInv
<1> QED BY <1>2, <1>8, <1>9, <1>10, <1>11, <1>12, <1>13 DEF IInv, ClientInv

LEMMA StutterKeeps ==
  ASSUME IInv, UNCHANGED vars
  PROVE  IInv'
<1>1. UNCHANGED <<tm, flying, clear, rec, call, txn, fate, coord, group>> BY DEF vars
<1>2. Busy' = Busy BY <1>1, BusyStays
<1>3. SealedNow' = SealedNow BY <1>1, <1>2 DEF SealedNow
<1>4. Types' BY <1>1, Parts DEF Types
<1>5. DataInv' BY <1>1, <1>3, DataStays
<1>6. FateInv' BY <1>1, FatesStay
<1> QED BY <1>1, <1>2, <1>4, <1>5, <1>6, Parts DEF IInv, ClientInv

LEMMA NextKeeps ==
  ASSUME IInv, ~Gap, Next
  PROVE  IInv'
<1>1. CASE Application
  BY <1>1, InitTransactionsKeeps, BeginTransactionKeeps, SendKeeps, SendOffsetsKeeps,
     CommitTransactionKeeps, AbortTransactionKeeps, ReturnKeeps DEF Application
<1>2. CASE Sender
  <2>1. CASE OnComplete
    BY <2>1, OnOkKeeps, OnLostKeeps, OnRetryKeeps, OnUnhandledNever, OnFatalKeeps,
       OnAbortableKeeps DEF OnComplete
  <2> QED BY <2>1, <1>2, AbortUndrainedKeeps, LookKeeps, NextRequestKeeps, SendProducerDataKeeps,
             ExpireKeeps, CompleteKeeps DEF Sender
<1>3. CASE External
  BY <1>3, CoordinateKeeps, CoordinatorFailsKeeps, FenceKeeps, BrokerAppendKeeps,
     ProduceFailsKeeps DEF External
<1> QED BY <1>1, <1>2, <1>3 DEF Next

LEMMA AlwaysIInv ==
  ASSUME ~Gap
  PROVE  Spec => []IInv
<1>1. Init => IInv BY InitEstablishes
<1>2. IInv /\ [Next]_vars => IInv' BY NextKeeps, StutterKeeps
<1> QED BY <1>1, <1>2, PTL DEF Spec

\* What a record is written to, the coordinator knows to be in the transaction
\* until the markers are written: begin_commit does not overtake the partitions
\* that are new, nor the end of the transaction a record in flight.
THEOREM NeverHanging ==
  ASSUME ~Gap
  PROVE  Spec => []NoHangingTransaction
<1>1. IInv => NoHangingTransaction BY Parts DEF NoHangingTransaction, DataInv, RecordInv
<1> QED BY <1>1, AlwaysIInv, PTL

\* A transaction is visible as a whole or not at all, and commit_transaction() and
\* abort_transaction() report which, whatever answers are lost or refused, records
\* expire, or another producer takes over.
THEOREM AllOrNone ==
  ASSUME ~Gap
  PROVE  Spec => []AllOrNothing
<1>1. IInv => AllOrNothing
  <2> SUFFICES ASSUME IInv, NEW n \in 1 .. txn
               PROVE  /\ (\E r \in Of(n) : rec[r].log = "committed") =>
                           \A r \in Of(n) : rec[r].log = "committed"
                      /\ fate[n] = "commit" =>
                           group[n] # "pending" /\ \A r \in Of(n) : rec[r].final = "ok" /\ rec[r].log = "committed"
                      /\ fate[n] = "abort" =>
                           group[n] # "committed" /\ \A r \in Of(n) : rec[r].log # "committed"
    BY DEF AllOrNothing
  <2>1. n \in Txns
    <3>1. txn \in Nat /\ MaxTxns \in Nat /\ txn <= MaxTxns BY Parts, BoundAssumption DEF Types
    <3> QED BY <3>1 DEF Txns
  <2> QED BY <2>1, Parts DEF FateInv, Whole, Committed, Aborted
<1> QED BY <1>1, AlwaysIInv, PTL

\* The queue of requests stays in the order of their priorities, with one end of
\* a transaction at most, for a call that waits for it.
THEOREM TypesKept ==
  ASSUME ~Gap
  PROVE  Spec => []TypeOK
<1>1. IInv => TypeOK
  <2> SUFFICES ASSUME IInv PROVE TypeOK OBVIOUS
  <2>1. tm.state \in States /\ tm.known \subseteq {"transaction", "group"} BY Parts DEF Manager
  <2>q. PICK q : q = tm.queue OBVIOUS
  <2>2. /\ q \in Seq(RequestRec) /\ DOMAIN q = 1 .. Len(q) /\ Sorted(q) /\ Once(q)
        /\ \A i \in DOMAIN q : q[i] \in Elems(q)
    BY <2>q, Parts DEF QueueInv, Elems
  <2>3. tm.new \cap (tm.pending \cup tm.added) = {} BY Parts DEF StateInv
  <2>4. ASSUME NEW h, h = flying \/ h \in Elems(q), h.kind = "end"
        PROVE  call.kind \in {"commit", "abort"} /\ call.res = "pending"
    BY <2>4, <2>q, Parts DEF QueueInv, Fitting
  <2>e. PICK E : E = {i \in DOMAIN q : q[i].kind = "end"} OBVIOUS
  <2>5. Cardinality(E) + (IF flying.kind = "end" THEN 1 ELSE 0) <= 1
    <3>1. CASE E = {}
      <4>1. Cardinality(E) = 0 BY <3>1, FS_EmptySet
      <4> QED BY <4>1
    <3>2. CASE E # {}
      <4>1. PICK i \in E : TRUE BY <3>2
      <4>2. E = {i} BY <4>1, <2>e, <2>2 DEF Once, Awaited
      <4>3. Cardinality(E) = 1 BY <4>2, FS_Singleton
      <4>4. flying.kind # "end"
        <5>1. q[i].kind = "end" /\ q[i] \in Elems(q) BY <4>1, <2>e, <2>2
        <5>2. flying.kind = "end" => q = <<>> BY <2>q, Parts DEF StateInv
        <5> QED BY <5>1, <5>2, NoElements
      <4> QED BY <4>3, <4>4
    <3> QED BY <3>1, <3>2
  <2>6. \A i, j \in DOMAIN q : i < j => Priority(q[i]) <= Priority(q[j]) BY <2>2 DEF Sorted
  <2>7. (flying.kind = "end" \/ \E i \in DOMAIN q : q[i].kind = "end") =>
          call.kind \in {"commit", "abort"} /\ call.res = "pending"
    BY <2>2, <2>4
  <2> QED BY <2>1, <2>3, <2>5, <2>6, <2>7, <2>q, <2>e DEF TypeOK
<1> QED BY <1>1, AlwaysIInv, PTL
=============================================================================
