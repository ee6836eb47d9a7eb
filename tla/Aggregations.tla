---------------------------- MODULE Aggregations ----------------------------
(***************************************************************************)
(* From the answer to an aggregation to the rows of its table or lines     *)
(* (structuredAggRows of internal/cmd/aggregation.go).  The values are     *)
(* opaque: of each it is known which bucket, operation and field it is of. *)
(***************************************************************************)
EXTENDS SearchFlags

Value(kind, b, op, field) == <<kind, b, op, field>>
Null == Value("null", 0, <<>>, <<>>)

(***************************************************************************)
(* The answers of Elasticsearch to a body's aggs: an object by name for    *)
(* each bucket, or for the query as a whole (bucket 0).  A metric over no  *)
(* values, one of `lacking', is null; the bucket of a date histogram has   *)
(* a formatted key unless `plain'; an answer may lack the aggregations.    *)
(***************************************************************************)
Bucket(aggs, b, lacking, plain) ==
    [key         |-> Value("key", b, <<>>, <<>>),
     keyAsString |-> IF aggs.histogram = <<>> \/ plain THEN <<>>
                     ELSE <<Value("key_as_string", b, <<>>, <<>>)>>,
     docCount    |-> Value("doc_count", b, <<>>, <<>>),
     metrics     |-> [name \in DOMAIN aggs.metrics |->
                        IF aggs.metrics[name] \in lacking THEN Null
                        ELSE Value("metric", b, aggs.metrics[name].op,
                                                aggs.metrics[name].field)]]

Grouped(aggs) == aggs.terms # <<>> \/ aggs.histogram # <<>>

AggAnswer(aggs, n, lacking, plain) ==
    [present |-> TRUE,
     top     |-> IF Grouped(aggs) THEN <<>> ELSE <<Bucket(aggs, 0, lacking, plain)>>,
     buckets |-> IF Grouped(aggs)
                 THEN [b \in 1..n |-> Bucket(aggs, b, lacking, plain)] ELSE <<>>]

NoAggregations == [present |-> FALSE, top |-> <<>>, buckets |-> <<>>]

-----------------------------------------------------------------------------
Pair(column, value) == [column |-> column, value |-> value]

\* A histogram's key is shown as it is formatted, when it is.
bucketKey(p, bucket) ==
    IF p.dateHistogram # <<>> /\ bucket.keyAsString # <<>>
    THEN bucket.keyAsString[1] ELSE bucket.key

\* extractMetricValue of what is under the name: null when there is nothing.
metricValue(metrics, name) == IF name \in DOMAIN metrics THEN metrics[name] ELSE Null

MetricPairs(p, bucket) ==
    LET names == metricNames(p)
    IN [i \in DOMAIN names |-> Pair(names[i], metricValue(bucket.metrics, names[i]))]

headers(p) ==
    IF bucketed(p) THEN <<<<"key">>, <<"doc_count">>>> \o metricNames(p) ELSE metricNames(p)

\* One row a bucket, or one row of metrics; without aggregations none.
structuredAggRows(p, answer) ==
    IF ~answer.present THEN <<>>
    ELSE IF bucketed(p)
    THEN [b \in DOMAIN answer.buckets |->
            <<Pair(<<"key">>, bucketKey(p, answer.buckets[b])),
              Pair(<<"doc_count">>, answer.buckets[b].docCount)>>
            \o MetricPairs(p, answer.buckets[b])]
    ELSE <<MetricPairs(p, answer.top[1])>>
=============================================================================
