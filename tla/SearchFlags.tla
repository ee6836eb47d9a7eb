---------------------------- MODULE SearchFlags ----------------------------
(***************************************************************************)
(* The flags of `es-log search': which of them searchParams.validate and   *)
(* validateAggregation (internal/cmd/search.go, aggregation.go) refuse,    *)
(* and the _search body that buildBody and buildAggBody make of the rest.  *)
(*                                                                         *)
(* A flag that may be absent is a sequence of at most one value.           *)
(*   since       [magnitude, unit], unit "?" when it is no duration        *)
(*   from, to    a time, Malformed when it is not RFC3339                  *)
(*   sort        [field, dir], dir "none" when there is no colon           *)
(*   terms       [field, size], size <<>> when there is no colon and 0     *)
(*               when it is no positive number                             *)
(*   dateHistogram  [field, digits, unit], digits "" for no interval and   *)
(*               unit "?" for one that is none                             *)
(*   metrics, cardinalities  the repeated flags in order; an op and a field*)
(*               are sequences of pieces, <<>> when empty                  *)
(*   rawAggs     "", "object" or "other"                                   *)
(***************************************************************************)
EXTENDS Integers, Sequences, SequencesExt, Filtering

Malformed == -1

IntervalUnits == {"s", "m", "h", "d", "w", "M", "y", "?"}

AtMostOne(S) == {s \in Seq(S) : Len(s) <= 1}

SearchParams ==
    [target : STRING, size : Int, sizeExplicit : BOOLEAN,
     since : AtMostOne([magnitude : Nat, unit : STRING]),
     from : AtMostOne(Int), to : AtMostOne(Int), tsField : STRING,
     sort : AtMostOne([field : STRING, dir : STRING]),
     terms : AtMostOne([field : STRING, size : AtMostOne(Int)]),
     dateHistogram : AtMostOne([field : STRING, digits : STRING, unit : IntervalUnits]),
     metrics : Seq([op : Seq(STRING), field : Seq(STRING)]), cardinalities : Seq(Seq(STRING)),
     rawAggs : {"", "object", "other"}]

ZeroDigits == {"0", "00"}

\* The operations of --metric, in pieces: value_count has the separator of
\* metricName in it.
metricOps == {<<"sum">>, <<"avg">>, <<"min">>, <<"max">>, <<"value", "_", "count">>}

defaultBucketSize == 10

hasStructuredAggregation(p) ==
    p.terms # <<>> \/ p.dateHistogram # <<>> \/ p.metrics # <<>> \/ p.cardinalities # <<>>

hasAggregation(p) == hasStructuredAggregation(p) \/ p.rawAggs # ""

bucketed(p) == p.terms # <<>> \/ p.dateHistogram # <<>>

-----------------------------------------------------------------------------
(***************************************************************************)
(* validate.                                                               *)
(***************************************************************************)
validTerms(t) == t.field # "" /\ (t.size # <<>> => t.size[1] > 0)

\* Mutant: calendar units with any multiplier.
validDateHistogramAnyMultiple(h) ==
    /\ h.field # "" /\ h.digits # ""
    /\ h.unit # "?" /\ h.digits \notin ZeroDigits

\* A fixed interval has any multiplier but zero, a calendar one has 1.
validDateHistogram(h) ==
    /\ h.field # "" /\ h.digits # ""
    /\ h.unit # "?" /\ h.digits \notin ZeroDigits
    /\ h.unit \in {"w", "M", "y"} => h.digits = "1"

validMetric(m) == m.op \in metricOps /\ m.field # <<>>

validateAggregation(p) ==
    IF p.rawAggs # ""
    THEN ~hasStructuredAggregation(p) /\ p.rawAggs = "object"
    ELSE /\ p.terms = <<>> \/ p.dateHistogram = <<>>
         /\ \A i \in DOMAIN p.terms : validTerms(p.terms[i])
         /\ \A i \in DOMAIN p.dateHistogram : validDateHistogram(p.dateHistogram[i])
         /\ \A i \in DOMAIN p.metrics : validMetric(p.metrics[i])
         /\ \A i \in DOMAIN p.cardinalities : p.cardinalities[i] # <<>>

validSince(s) == s.unit \in {"s", "m", "h", "d"} /\ s.magnitude > 0

\* Mutant: a range of one moment is refused.
validAbsoluteRangeStrict(p) ==
    /\ \A i \in DOMAIN (p.from \o p.to) : (p.from \o p.to)[i] # Malformed
    /\ \A i \in DOMAIN p.from, j \in DOMAIN p.to : p.from[i] < p.to[j]

\* parseAbsoluteRange and the order of its bounds.
validAbsoluteRange(p) ==
    /\ \A i \in DOMAIN (p.from \o p.to) : (p.from \o p.to)[i] # Malformed
    /\ \A i \in DOMAIN p.from, j \in DOMAIN p.to : p.from[i] <= p.to[j]

validateSort(p) ==
    \A i \in DOMAIN p.sort :
        p.sort[i].field # "" /\ p.sort[i].dir \in {"none", "asc", "desc"}

validate(p) ==
    /\ p.target # ""
    /\ p.size >= 0
    /\ validateAggregation(p)
    /\ p.since # <<>> => p.from = <<>> /\ p.to = <<>>
    /\ \A i \in DOMAIN p.since : validSince(p.since[i])
    /\ validAbsoluteRange(p)
    /\ validateSort(p)

-----------------------------------------------------------------------------
(***************************************************************************)
(* The _search body.                                                       *)
(***************************************************************************)
\* rangeFilter: now-<since>, or the absolute bounds.
rangeFilter(p) ==
    IF p.since = <<>> /\ p.from = <<>> /\ p.to = <<>> THEN <<>>
    ELSE <<[field |-> p.tsField, since |-> p.since,
            gte |-> IF p.since # <<>> THEN <<>> ELSE p.from,
            lte |-> IF p.since # <<>> THEN <<>> ELSE p.to]>>

sortClause(p) ==
    <<[field |-> IF p.sort = <<>> THEN p.tsField ELSE p.sort[1].field,
       dir |-> IF p.sort # <<>> /\ p.sort[1].dir \notin {"none", ""}
               THEN p.sort[1].dir ELSE "desc"],
      [field |-> "_doc", dir |-> "asc"]>>

metricName(op, field) == op \o <<"_">> \o field

cardinalityName(field) == <<"cardinality", "_">> \o field

\* The sub-aggregations the flags ask for, one a flag; malformed ones are dropped.
metricFlags(p) ==
    LET metrics == Filtered(p.metrics, {m \in Range(p.metrics) : validMetric(m)})
    IN [i \in DOMAIN metrics |->
           [name |-> metricName(metrics[i].op, metrics[i].field),
            op |-> metrics[i].op, field |-> metrics[i].field]]
       \o [i \in DOMAIN p.cardinalities |->
           [name |-> cardinalityName(p.cardinalities[i]),
            op |-> <<"cardinality">>, field |-> p.cardinalities[i]]]

\* The entries of a sequence at these places, in order.
EntriesAt(s, places) ==
    LET kept == Filtered([i \in DOMAIN s |-> i], places)
    IN [k \in DOMAIN kept |-> s[kept[k]]]

\* Mutant: two operations on one field count as one.
parsedMetricsByField(p) ==
    LET all == metricFlags(p)
    IN EntriesAt(all, {i \in DOMAIN all : \A j \in 1..(i - 1) : all[j].field # all[i].field})

\* parsedMetrics: in the order of the flags, each name once.
parsedMetrics(p) ==
    LET all == metricFlags(p)
    IN EntriesAt(all, {i \in DOMAIN all : \A j \in 1..(i - 1) : all[j].name # all[i].name})

metricNames(p) == LET parsed == parsedMetrics(p)
                  IN [i \in DOMAIN parsed |-> parsed[i].name]

\* metricAggMap: by name, the aggregation asked for.
metricAggMap(p) ==
    LET parsed == parsedMetrics(p)
    IN [name \in {parsed[i].name : i \in DOMAIN parsed} |->
          LET m == CHOOSE n \in Range(parsed) : n.name = name
          IN [op |-> m.op, field |-> m.field]]

termsSize(t) == IF t.size = <<>> THEN defaultBucketSize ELSE t.size[1]

intervalKey(h) ==
    IF h.unit \in {"s", "m", "h", "d"} THEN "fixed_interval" ELSE "calendar_interval"

\* buildAggs: the metrics on their own, or inside the one bucket aggregation.
buildAggs(p) ==
    [raw     |-> p.rawAggs,
     terms   |-> [i \in DOMAIN p.terms |->
                    [field |-> p.terms[i].field, size |-> termsSize(p.terms[i])]],
     histogram |-> [i \in DOMAIN p.dateHistogram |->
                    [field |-> p.dateHistogram[i].field, key |-> intervalKey(p.dateHistogram[i]),
                     digits |-> p.dateHistogram[i].digits, unit |-> p.dateHistogram[i].unit]],
     metrics |-> metricAggMap(p)]

\* buildBody and buildAggBody, before the window and the cursor come in.
buildBody(p) ==
    [range |-> rangeFilter(p),
     sort  |-> IF ~hasAggregation(p) \/ (p.sizeExplicit /\ p.size > 0)
               THEN sortClause(p) ELSE <<>>,
     aggs  |-> buildAggs(p)]

-----------------------------------------------------------------------------
(***************************************************************************)
(* What Elasticsearch takes for a legal body.                              *)
(***************************************************************************)
LegalRange(r) ==
    /\ r.field # ""
    /\ \A i \in DOMAIN r.since : r.since[i].unit \in {"s", "m", "h", "d"}
    /\ \A i \in DOMAIN r.gte : r.gte[i] # Malformed
    /\ \A i \in DOMAIN r.lte : r.lte[i] # Malformed

\* Of a range that holds nothing Elasticsearch does not complain.
EmptyRange(r) ==
    \/ \E i \in DOMAIN r.since : r.since[i].magnitude = 0
    \/ \E i \in DOMAIN r.gte, j \in DOMAIN r.lte : r.gte[i] > r.lte[j]

LegalSort(key) == key.field # "" /\ key.dir \in {"asc", "desc"}

LegalInterval(h) ==
    /\ h.field # "" /\ h.digits \notin ZeroDigits \cup {""}
    /\ \/ h.key = "fixed_interval" /\ h.unit \in {"s", "m", "h", "d"}
       \/ h.key = "calendar_interval" /\ h.unit \in {"w", "M", "y"} /\ h.digits = "1"

LegalBody(body) ==
    /\ \A i \in DOMAIN body.range : LegalRange(body.range[i]) /\ ~EmptyRange(body.range[i])
    /\ \A i \in DOMAIN body.sort : LegalSort(body.sort[i])
    /\ body.aggs.raw # "other"
    /\ \A i \in DOMAIN body.aggs.terms :
          body.aggs.terms[i].field # "" /\ body.aggs.terms[i].size > 0
    /\ \A i \in DOMAIN body.aggs.histogram : LegalInterval(body.aggs.histogram[i])
    /\ \A name \in DOMAIN body.aggs.metrics :
          /\ body.aggs.metrics[name].op \in metricOps \cup {<<"cardinality">>}
          /\ body.aggs.metrics[name].field # <<>>
=============================================================================
