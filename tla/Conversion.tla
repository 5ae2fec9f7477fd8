------------------------------ MODULE Conversion ------------------------------
(***************************************************************************)
(* convert_to_datadog_format of src/index.py: a loop over the messages of a *)
(* batch and, inside it, one over the metrics of a message.  Two try blocks *)
(* skip what they guard; what comes after them raises on some values that   *)
(* JSON allows, and then the whole batch has no Datadog form.               *)
(*                                                                         *)
(* A message is its shape: which of the code's branches each of its fields  *)
(* takes.  Forwarder knows a message by its kind alone; KindOf below is     *)
(* that abstraction, and the last two properties say that it is sound.      *)
(***************************************************************************)
EXTENDS Integers, Sequences, SequencesExt

CONSTANTS
  Metric,         \* metric shapes to build messages from
  MaxMetrics,     \* bound: metrics in a message
  MaxBatch        \* bound: messages in a batch

(***************************************************************************)
(* form        "dict", or "malformed": the metric or its "metric" field is  *)
(*             no object, so that a `get` in the try block raises           *)
(* time        collect_time: "number", "absent", or "bad" (null, text, NaN) *)
(* namespace   "dotted" (SYS.ECS), "plain", "absent", or "bad" (not text)   *)
(* dimensions  "some", "none" (absent or empty), or "bad" (null, no objects)*)
(* unit        the set of datadog_set_type its unit is in, if any           *)
(* words       which of "rate" and "count" its name contains                *)
(* numeric     its "type" is int or float                                   *)
(***************************************************************************)
MetricShape ==
  [form       : {"dict", "malformed"},
   time       : {"number", "absent", "bad"},
   namespace  : {"dotted", "plain", "absent", "bad"},
   dimensions : {"some", "none", "bad"},
   unit       : {"rate", "count", "gauge", "other"},
   words      : SUBSET {"rate", "count"},
   numeric    : BOOLEAN]

ASSUME MetricAssumption == Metric \subseteq MetricShape
ASSUME SizeAssumption == MaxMetrics \in Nat /\ MaxBatch \in Nat

\* "broken": no JSON, or JSON but no object.  "uniterable": its "metrics" is
\* null, a number or a Boolean.  "list": anything a for loop accepts.
Message ==
  [body : {"broken", "uniterable"}, metrics : {<<>>}]
    \cup [body : {"list"}, metrics : BoundedSeq(Metric, MaxMetrics)]

VARIABLES
  batch,          \* the messages
  msg, item,      \* the message and the metric the loops are at
  series,         \* entries appended so far
  outcome         \* "running", "returned" or "raised"

conversionVars == <<batch, msg, item, series, outcome>>

\* datadog_set_type: 2 rate, 1 count, 3 gauge, 0 unspecified; the unit decides
\* before the name, and the name before the type of the value.
DatadogType(metric) ==
  LET byUnit == [rate |-> 2, count |-> 1, gauge |-> 3] IN
  IF metric.unit \in DOMAIN byUnit THEN byUnit[metric.unit]
  ELSE IF "rate" \in metric.words THEN 2
  ELSE IF "count" \in metric.words THEN 1
  ELSE IF metric.numeric THEN 3 ELSE 0

\* The resources of an entry come from the dimensions, or by default from the
\* namespace; its timestamp from the metric, or by default from the record.
Entry(i, j) ==
  LET metric == batch[i].metrics[j] IN
    [at        |-> <<i, j>>,
     type      |-> DatadogType(metric),
     prefix    |-> metric.namespace,
     timestamp |-> IF metric.time = "absent" THEN "record" ELSE "metric",
     resources |-> IF metric.dimensions = "none" THEN "default"
                                                 ELSE "dimensions"]

\* int(collect_time / 1000), `"." in namespace` and the loop over dimensions.
Raises(metric) ==
  /\ metric.form = "dict"
  /\ "bad" \in {metric.time, metric.namespace, metric.dimensions}

ConversionInit ==
  /\ batch \in BoundedSeq(Message, MaxBatch) \ {<<>>}
  /\ msg = 1 /\ item = 0
  /\ series = <<>>
  /\ outcome = "running"

-----------------------------------------------------------------------------
Running == outcome = "running" /\ msg <= Len(batch)
NextMessage == msg' = msg + 1 /\ item' = 0

\* item = 0: the payload is parsed, in the first try block.
SkipMessage ==
  /\ Running /\ item = 0
  /\ batch[msg].body = "broken"
  /\ NextMessage
  /\ UNCHANGED <<batch, series, outcome>>

EnterMessage ==
  /\ Running /\ item = 0
  /\ batch[msg].body = "list"
  /\ IF batch[msg].metrics = <<>> THEN NextMessage ELSE msg' = msg /\ item' = 1
  /\ UNCHANGED <<batch, series, outcome>>

MessageRaises ==
  /\ Running /\ item = 0
  /\ batch[msg].body = "uniterable"
  /\ outcome' = "raised"
  /\ UNCHANGED <<batch, msg, item, series>>

Advance ==
  IF item = Len(batch[msg].metrics) THEN NextMessage ELSE msg' = msg /\ item' = item + 1

\* Faulty variant: a malformed metric ends the loop over the message.
SkipMetricBreaks ==
  /\ Running /\ item > 0
  /\ batch[msg].metrics[item].form = "malformed"
  /\ NextMessage
  /\ UNCHANGED <<batch, series, outcome>>

\* The second try block.
SkipMetric ==
  /\ Running /\ item > 0
  /\ batch[msg].metrics[item].form = "malformed"
  /\ Advance
  /\ UNCHANGED <<batch, series, outcome>>

ConvertMetric ==
  /\ Running /\ item > 0
  /\ batch[msg].metrics[item].form = "dict" /\ ~Raises(batch[msg].metrics[item])
  /\ series' = Append(series, Entry(msg, item))
  /\ Advance
  /\ UNCHANGED <<batch, outcome>>

\* Faulty variant: what raises is skipped and the rest of the batch returned.
MetricRaisesSkipped ==
  /\ Running /\ item > 0
  /\ Raises(batch[msg].metrics[item])
  /\ Advance
  /\ UNCHANGED <<batch, series, outcome>>

MetricRaises ==
  /\ Running /\ item > 0
  /\ Raises(batch[msg].metrics[item])
  /\ outcome' = "raised"
  /\ UNCHANGED <<batch, msg, item, series>>

Finish ==
  /\ outcome = "running" /\ msg > Len(batch)
  /\ outcome' = "returned"
  /\ UNCHANGED <<batch, msg, item, series>>

ConversionNext ==
  \/ SkipMessage \/ EnterMessage \/ MessageRaises
  \/ SkipMetric \/ ConvertMetric \/ MetricRaises
  \/ Finish

ConversionSpec == ConversionInit /\ [][ConversionNext]_conversionVars

-----------------------------------------------------------------------------
(* Properties                                                              *)

ConversionTypeOK ==
  /\ batch \in Seq(Message)
  /\ msg \in 1 .. MaxBatch + 1 /\ item \in 0 .. MaxMetrics
  /\ outcome \in {"running", "returned", "raised"}

\* The kind by which Forwarder knows a message.
KindOf(message) ==
  IF \/ message.body = "uniterable"
     \/ \E j \in DOMAIN message.metrics : Raises(message.metrics[j])
    THEN "poison"
  ELSE IF \A j \in DOMAIN message.metrics : message.metrics[j].form = "malformed"
    THEN "skipped"
  ELSE "metrics"

\* A batch is converted exactly if none of its messages is poison: one value
\* the code does not expect takes every other message down with it, and
\* nothing else does (index.py:344-377).
RaisesExactlyOnPoison ==
  /\ outcome = "raised" => \E i \in DOMAIN batch : KindOf(batch[i]) = "poison"
  /\ outcome = "returned" => \A i \in DOMAIN batch : KindOf(batch[i]) # "poison"

\* The series of a converted batch has every well-formed metric once, in the
\* order of the batch: skipping one loses no other; and a message has entries
\* exactly if its kind is not one that Forwarder passes over (index.py:329-377).
SeriesIsComplete ==
  outcome = "returned" =>
    LET good == {p \in (1 .. MaxBatch) \X (1 .. MaxMetrics) :
                   /\ p[1] \in DOMAIN batch
                   /\ p[2] \in DOMAIN batch[p[1]].metrics
                   /\ batch[p[1]].metrics[p[2]].form = "dict"}
    IN  /\ {series[n].at : n \in DOMAIN series} = good
        /\ \A a, b \in DOMAIN series : a < b =>
             \/ series[a].at[1] < series[b].at[1]
             \/ /\ series[a].at[1] = series[b].at[1]
                /\ series[a].at[2] < series[b].at[2]
        /\ \A i \in DOMAIN batch :
             KindOf(batch[i]) = "metrics" <=> \E n \in DOMAIN series : series[n].at[1] = i
=============================================================================
