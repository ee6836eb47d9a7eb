----------------------------- MODULE MCCommands -----------------------------
(***************************************************************************)
(* Instances of Commands for TLC.                                          *)
(***************************************************************************)
EXTENDS Commands

(***************************************************************************)
(* Mappings: a field a that is absent, a leaf with or without multi-field, *)
(* an object (empty, with fields, two deep) or nested, beside a field a-b, *)
(* whose name comes before a.b.                                            *)
(***************************************************************************)
MCFieldPaths ==
    <<<<"a">>, <<"a-b">>, <<"a", "b">>, <<"a", "b", "c">>, <<"a", "b", "k">>, <<"a", "k">>>>

Leaf(type)         == Node(type, Nothing, Nothing)
Multi(type, sub)   == Node(type, Nothing, [k |-> Leaf(sub)])
Object(type, node) == Node(type, [b |-> node], Nothing)

Kinds ==
    {Leaf("keyword"), Leaf("text"), Leaf(""), Multi("text", "keyword"),
     Object("", Leaf("keyword")), Object("", Multi("text", "keyword")),
     Object("nested", Leaf("text")),
     Object("", Node("", [c |-> Leaf("text")], Nothing))}

MCMappings ==
    {Nothing} \cup {[a |-> kind] : kind \in Kinds} \cup
    {("a" :> kind) @@ ("a-b" :> Leaf("text")) : kind \in {Leaf("text"), Leaf("keyword")}}

-----------------------------------------------------------------------------
MCVariables == {"K", "S"}
MCBadCerts  == {Text("missing.pem")}
MCBadServers == {Text("%zz")}

MCContext(name, server, auth, apiKey, username, password, caCert) ==
    [name |-> name, server |-> server, authType |-> auth, apiKey |-> apiKey,
     username |-> username, password |-> password, caCert |-> caCert]

Secret(x) == <<<<"secret", x>>>>

\* Servers with a password in the userinfo, an `@' in it or in the path.
Servers ==
    {Text("https") \o Text("://") \o Var("S"),
     Text("https") \o Text("://") \o Text("u") \o Text(":") \o Var("K") \o Text("@")
         \o Text("es"),
     Text("u") \o Text(":") \o Secret("p") \o Secret("@") \o Secret("ss") \o Text("@")
         \o Text("es") \o Text("?") \o Text("x") \o Text("@"),
     Text("https") \o Text("://") \o Text("es") \o Text("/") \o Text("a") \o Text(":")
         \o Text("b") \o Text("@")}

\* A context of each sort of authentication, good and bad.
ContextsNamed(name) ==
    {MCContext(name, server, "apikey", key, Empty, Empty, cert) :
        server \in Servers, key \in {Secret("key"), Var("K"), Empty},
        cert \in {Empty, Text("missing.pem")}}
    \cup
    {MCContext(name, Text("es"), auth, Empty, user, Var("K"), Empty) :
        auth \in {"", "basic", "digest"}, user \in {Text("elastic"), Empty}}

Plain(name) == MCContext(name, Text("plain"), "", Empty, Empty, Empty, Empty)
Other(name) == MCContext(name, Text("other"), "basic", Empty, Text("u"), Var("S"), Empty)

NoURL(name) == MCContext(name, Text("%zz"), "", Empty, Empty, Empty, Empty)

File(contexts_) == [state |-> "ok", contexts |-> contexts_]
Missing   == [state |-> "missing", contexts |-> <<>>]
BrokenFile == [state |-> "malformed", contexts |-> <<>>]

\* The variables set, set to nothing, not set; a value may look like a reference.
Environments ==
    {[v \in MCVariables |-> IF v = "K" THEN k ELSE s] :
        k \in {Unset, Empty, Secret("${K}")}, s \in {Unset, Empty, Text("${K}")}}

NoFlags ==
    [target |-> "t", size |-> 0, sizeExplicit |-> FALSE, since |-> <<>>, from |-> <<>>,
     to |-> <<>>, tsField |-> "time", sort |-> <<>>, terms |-> <<>>, dateHistogram |-> <<>>,
     metrics |-> <<>>, cardinalities |-> <<>>, rawAggs |-> ""]

EverywhereMissing == [place \in {"flag", "ES_LOG_CONFIG", "XDG_CONFIG_HOME", "home"} |-> Missing]

Sound ==
    [command |-> "search", output |-> "", quiet |-> FALSE, context |-> "one",
     contextVar |-> "", named |-> {}, env |-> [v \in MCVariables |-> Unset],
     files |-> [EverywhereMissing EXCEPT !["home"] = File(<<Plain("one")>>)],
     flags |-> NoFlags, patterns |-> TRUE]

AllCommands == {"search", "fields", "ping", "get-contexts", "view", "init", "version"}

\* Where the file is, and whether it can be read.
WhichFile ==
    {[Sound EXCEPT !.command = command, !.named = named, !.output = output,
                   !.files = [EverywhereMissing EXCEPT ![place] = file, !["home"] = home]] :
        command \in AllCommands, output \in {"", "table", "bogus"},
        named \in SUBSET {"flag", "ES_LOG_CONFIG", "XDG_CONFIG_HOME"},
        place \in {"flag", "ES_LOG_CONFIG", "XDG_CONFIG_HOME"},
        file \in {File(<<Plain("one")>>), BrokenFile},
        home \in {File(<<Other("one")>>), Missing}}

\* Which context, with which variables; the selected one may come twice.
WhichContext ==
    {[Sound EXCEPT !.command = command, !.quiet = quiet, !.context = flag,
                   !.contextVar = variable, !.env = env,
                   !.files = [EverywhereMissing EXCEPT !["home"] = File(<<c, second>>)]] :
        command \in {"ping", "view"}, quiet \in BOOLEAN, flag \in {"", "one"},
        variable \in {"", "one", "two"}, env \in Environments,
        c \in ContextsNamed("one"), second \in {Other("one"), Other("two")}}

\* A server that is no URL, beside one that is.
WhichServer ==
    {[Sound EXCEPT !.command = command, !.context = flag,
                   !.files = [EverywhereMissing EXCEPT
                                 !["home"] = File(<<NoURL("one"), Plain("two")>>)]] :
        command \in AllCommands, flag \in {"one", "two"}}

\* Flags of a search for hits.
Times  == {<<>>, <<1>>, <<2>>, <<Malformed>>}
Sinces == {<<>>} \cup {<<[magnitude |-> m, unit |-> u]>> : m \in {0, 5}, u \in {"m", "?"}}
Sorts  == {<<>>} \cup {<<[field |-> f, dir |-> d]>> : f \in {"", "host"},
                                                     d \in {"none", "", "asc", "up"}}

HitFlags ==
    {[Sound EXCEPT !.patterns = patterns,
                   !.flags = [NoFlags EXCEPT !.target = target, !.size = size, !.since = since,
                                             !.from = from, !.to = to, !.sort = sort]] :
        patterns \in BOOLEAN, target \in {"", "t"}, size \in {-1, 0}, since \in Sinces,
        from \in Times, to \in Times, sort \in Sorts}

\* Flags of an aggregation.
Termses == {<<>>} \cup {<<[field |-> f, size |-> n]>> : f \in {"", "host"},
                                                        n \in {<<>>, <<0>>, <<5>>}}
Histograms ==
    {<<>>} \cup {<<[field |-> f, digits |-> d, unit |-> u]>> :
        f \in {"", "time"}, d \in {"", "0", "1", "01", "5"}, u \in {"m", "M", "?"}}

Metric(op, field) == [op |-> op, field |-> field]
Bytes == <<"bytes">>
BadMetrics == {<<Metric(<<"sum">>, <<>>)>>, <<Metric(<<>>, Bytes)>>, <<Metric(<<"value">>, Bytes)>>}

BucketFlags ==
    {[Sound EXCEPT !.flags = [NoFlags EXCEPT !.terms = terms, !.dateHistogram = histogram,
                                             !.rawAggs = raw]] :
        terms \in Termses, histogram \in Histograms, raw \in {"", "object", "other"}}

MetricFlags ==
    {[Sound EXCEPT !.flags = [NoFlags EXCEPT !.terms = terms, !.metrics = metrics,
                                             !.cardinalities = cards, !.rawAggs = raw]] :
        terms \in {<<>>, <<[field |-> "host", size |-> <<5>>]>>},
        metrics \in BadMetrics \cup {<<>>, <<Metric(<<"sum">>, Bytes)>>},
        cards \in {<<>>, <<Bytes>>, <<<<>>>>}, raw \in {"", "object", "other"}}

\* Metrics that are repeated, share a field, or whose names have the separator
\* in them: value_count of bytes and sum of count_bytes.
Metrics ==
    {Metric(<<"sum">>, Bytes), Metric(<<"value", "_", "count">>, Bytes),
     Metric(<<"sum">>, <<"count", "_", "bytes">>)}

Answered ==
    {[Sound EXCEPT !.output = output,
                   !.flags = [NoFlags EXCEPT !.terms = terms, !.dateHistogram = histogram,
                              !.metrics = metrics, !.cardinalities = cards]] :
        output \in {"json", "jsonl", "table"},
        terms \in {<<>>, <<[field |-> "host", size |-> <<>>]>>},
        histogram \in {<<>>, <<[field |-> "time", digits |-> "5", unit |-> "m"]>>},
        metrics \in UNION {[1..n -> Metrics] : n \in 0..2},
        cards \in {<<>>, <<Bytes>>, <<Bytes, Bytes>>}}

Fields == {[Sound EXCEPT !.command = "fields", !.output = output,
                         !.flags = [NoFlags EXCEPT !.target = t]] :
                output \in {"", "jsonl"}, t \in {"", "t"}}

MCInvocations ==
    {WhichFile, WhichContext, WhichServer, HitFlags, BucketFlags, MetricFlags, Answered, Fields}

MCFieldsOnly == {Fields}

\* In all of them secrets stand where they are looked for.
ASSUME MCSecretsInPlace ==
    \A context \in ContextsNamed("one") \cup {Plain("one"), Plain("two"), Other("one"), Other("two"),
                                               NoURL("one")} :
        \A env \in Environments \cup {Sound.env} : SecretsInPlace(context, env)
=============================================================================
