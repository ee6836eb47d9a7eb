------------------------------ MODULE Commands ------------------------------
(***************************************************************************)
(* One invocation of es-log, from the command line to the exit code, seen  *)
(* from its data: what is checked before anything is sent, which cluster   *)
(* is asked with whose credentials, and what the answer becomes on stdout  *)
(* (internal/cmd/root.go, config.go, fields.go, ping.go, version.go, and   *)
(* the data of search.go and aggregation.go).  The requests of a search    *)
(* and their failures are the matter of SearchRun, the listings of `ls'    *)
(* that of Listing: here one request is all that is sent.                  *)
(***************************************************************************)
EXTENDS ExitCodes, Mapping, Configuration, Aggregations

CONSTANTS
    Invocations,  \* the command lines and surroundings considered, in groups
    Mappings,     \* the properties an index may have
    MaxIndices,   \* the indices behind a target
    MaxBuckets    \* the buckets of an answer

(***************************************************************************)
(* An invocation is a record of                                            *)
(*   command, output, quiet      -o is "" when not given                   *)
(*   context, contextVar         --context and $ES_LOG_CONTEXT             *)
(*   named, files                the places a configuration is named by,   *)
(*                               and what is at each: [state, contexts]    *)
(*   env                         the environment                           *)
(*   flags                       of search (SearchFlags); fields uses its  *)
(*                               target                                    *)
(*   patterns                    every --include and --exclude compiles    *)
(***************************************************************************)
Invocation ==
    [command : {"search", "fields", "ping", "get-contexts", "view", "init", "version"},
     output : STRING, quiet : BOOLEAN, context : STRING, contextVar : STRING,
     named : SUBSET Range(ConfigPlaces),
     files : [Range(ConfigPlaces) \cup {"home"} -> [state : STRING, contexts : Seq(Context)]],
     env : [Variables -> Values], flags : SearchParams, patterns : BOOLEAN]

ASSUME CommandAssumption ==
    /\ \A group \in Invocations : group \subseteq Invocation
    /\ \A properties \in Mappings : IsMapping(properties)
    /\ MaxIndices \in Nat \ {0} /\ MaxBuckets \in Nat

VARIABLES
    inv,        \* the invocation
    todo,       \* the steps the command still has to take
    contexts,   \* the contexts of the file that was loaded
    client,     \* the expanded context, as a sequence of at most one
    request,    \* what was sent, as a sequence of at most one
    answer,     \* what came back: kind "none" while nothing has
    byField,    \* fields: the types gathered, by path and index
    unread,     \* fields: the indices of the answer not gone through
    printed,    \* what is written to stdout: all of it is there when the exit code
                \* is exitOK, perhaps only a beginning when it is exitUsage
    exit        \* the exit code, NoExit before

vars == <<inv, todo, contexts, client, request, answer, byField, unread, printed, exit>>

-----------------------------------------------------------------------------
DefaultFor(command) == IF command = "search" THEN "jsonl" ELSE "json"

Format == IF inv.output = "" THEN DefaultFor(inv.command) ELSE inv.output

\* The order of the calls in each RunE.
Steps(command) ==
    CASE command \in {"search", "fields"} ->
            <<"flags", "load", "format", "connect", "send", "receive", "render">>
      [] command = "ping" -> <<"load", "connect", "send", "receive", "render">>
      [] command \in {"get-contexts", "view"} -> <<"load", "format", "render">>
      [] command = "init" -> <<"format", "render">>
      [] OTHER -> <<"render">>

NoReply == [kind |-> "none"]

Nowhere == [kind |-> "nothing"]

Init ==
    /\ \E group \in Invocations : inv \in group
    /\ todo = Steps(inv.command)
    /\ contexts = <<>>
    /\ client = <<>>
    /\ request = <<>>
    /\ answer = NoReply
    /\ byField = [path \in {} |-> Nothing]
    /\ unread = {}
    /\ printed = Nowhere
    /\ exit = NoExit

At(step) == exit = NoExit /\ todo # <<>> /\ todo[1] = step

\* A step that only checks: it is done with, or the command ends with exit 2.
Checks(ok) ==
    /\ IF ok THEN todo' = Tail(todo) /\ UNCHANGED exit
             ELSE exit' = exitUsage /\ UNCHANGED todo
    /\ UNCHANGED <<inv, request, answer, byField, unread, printed>>

-----------------------------------------------------------------------------
\* What runSearch and runFields check of their own flags.
FlagsOK ==
    CASE inv.command = "search" -> validate(inv.flags) /\ inv.patterns
      [] inv.command = "fields" -> inv.flags.target # ""

CheckFlags == At("flags") /\ Checks(FlagsOK) /\ UNCHANGED <<contexts, client>>

LoadConfig ==
    /\ At("load")
    /\ LET file == inv.files[ResolvePath(inv.named)]
       IN /\ Checks(file.state = "ok")
          /\ contexts' = IF file.state = "ok" THEN file.contexts ELSE contexts
    /\ UNCHANGED client

FormatOK == Format \in {"jsonl", "json", "table"}

ResolveFormat ==
    /\ At("format")
    /\ Checks(FormatOK)
    /\ UNCHANGED <<contexts, client>>

\* The context that was selected, and what buildClient asks of it.
Chosen == LET name == resolveContextName(inv.context, inv.contextVar)
          IN IF name = "" THEN <<>> ELSE Find(contexts, name)

Connects ==
    /\ Chosen # <<>>
    /\ CanExpand(Chosen[1], inv.env)
    /\ LET full == ExpandSecrets(Chosen[1], inv.env) IN validAuth(full) /\ validTLS(full)

\* buildClient: the selected context, its secrets, New.
BuildClient ==
    /\ At("connect")
    /\ Checks(Connects)
    /\ client' = IF Connects THEN <<ExpandSecrets(Chosen[1], inv.env)>> ELSE client
    /\ UNCHANGED contexts

-----------------------------------------------------------------------------
\* The request: whom it is sent to, what it carries, and a search's body.
Request == [server |-> client[1].server, credentials |-> Credentials(client[1]),
            body |-> IF inv.command = "search" THEN <<buildBody(inv.flags)>> ELSE <<>>]

\* http.NewRequest parses the server and the path as one URL.
HasURL == client[1].server \notin BadServers

Send ==
    /\ At("send")
    /\ HasURL
    /\ todo' = Tail(todo)
    /\ request' = <<Request>>
    /\ UNCHANGED <<inv, contexts, client, answer, byField, unread, printed, exit>>

Waiting(command) == inv.command = command /\ At("receive") /\ answer.kind = "none"

Answers(a) ==
    /\ answer' = a
    /\ UNCHANGED <<inv, todo, contexts, client, request, byField, unread, printed, exit>>

\* The answer to a fields command: any number of indices, with any of the mappings.
MappingAnswered ==
    /\ Waiting("fields")
    /\ \E n \in 0..MaxIndices : \E properties \in [1..n -> Mappings] :
          Answers([kind |-> "mapping", properties |-> properties])

SearchAnswered ==
    /\ Waiting("search")
    /\ IF hasStructuredAggregation(inv.flags)
       THEN LET aggs == request[1].body[1].aggs
            IN \/ \E n \in 0..MaxBuckets, lacking \in SUBSET Range(aggs.metrics),
                     plain \in BOOLEAN :
                    Answers([kind |-> "aggregations",
                             aggs |-> AggAnswer(aggs, n, lacking, plain)])
               \/ Answers([kind |-> "aggregations", aggs |-> NoAggregations])
               \/ Answers([kind |-> "unreadable"])
       ELSE Answers([kind |-> "other"])

VersionAnswered == Waiting("ping") /\ Answers([kind |-> "other"])

\* Mutant: ping gives its errors the codes of a target.
FailureCodeOfTarget(e) == ClassifyESError("target", e)

\* ping reports every error as a connection failure.
FailureCode(e) ==
    IF inv.command = "ping" THEN exitConn ELSE ClassifyESError(inv.flags.target, e)

RequestFails ==
    /\ Waiting(inv.command)
    /\ \E e \in ServerErrors : exit' = FailureCode(e)
    /\ UNCHANGED <<inv, todo, contexts, client, request, answer, byField, unread, printed>>

\* Without a URL nothing is sent, and the error is none of the cluster's.
RequestNotMade ==
    /\ At("send")
    /\ ~HasURL
    /\ exit' = FailureCode("transport")
    /\ UNCHANGED <<inv, todo, contexts, client, request, answer, byField, unread, printed>>

Receive ==
    /\ At("receive")
    /\ answer.kind # "none"
    /\ todo' = Tail(todo)
    /\ unread' = IF answer.kind = "mapping" THEN DOMAIN answer.properties ELSE {}
    /\ UNCHANGED <<inv, contexts, client, request, answer, byField, printed, exit>>

\* GetMapping's loop over the indices, a Go map: in any order.
ReadIndex ==
    /\ At("render")
    /\ \E index \in unread :
          /\ byField' = AddIndex(byField, index, answer.properties[index])
          /\ unread' = unread \ {index}
    /\ UNCHANGED <<inv, todo, contexts, client, request, answer, printed, exit>>

-----------------------------------------------------------------------------
Output ==
    CASE inv.command = "fields" -> [kind |-> "fields", rows |-> toFieldRows(byField)]
      [] inv.command = "search" /\ hasStructuredAggregation(inv.flags) /\ Format # "json" ->
            [kind |-> "aggregations",
             headers |-> IF Format = "table" THEN headers(inv.flags) ELSE <<>>,
             rows |-> structuredAggRows(inv.flags, answer.aggs)]
      [] inv.command = "search" -> [kind |-> "answer"]
      [] inv.command = "ping" ->
            IF inv.quiet THEN Nowhere ELSE [kind |-> "ping", server |-> RedactServerURL(client[1].server)]
      [] inv.command = "get-contexts" -> [kind |-> "names", names |-> ContextNames(contexts)]
      [] inv.command = "view" ->
            [kind |-> "view", contexts |-> [i \in DOMAIN contexts |-> Redact(contexts[i])]]
      [] inv.command = "init" -> [kind |-> "template"]
      [] inv.command = "version" -> [kind |-> "version"]

\* The command comes to its end.
Finishes(code) ==
    /\ At("render")
    /\ unread = {}
    /\ todo' = <<>>
    /\ exit' = code
    /\ UNCHANGED <<inv, contexts, client, request, answer, byField, unread>>

\* Rows are made of aggregations only if they can be parsed; -o json prints them as
\* they are.
Readable == answer.kind = "unreadable" => Format = "json"

Render ==
    /\ Finishes(exitOK)
    /\ Readable
    /\ printed' = Output

UnreadableAggregations ==
    /\ inv.command = "search"
    /\ Finishes(exitUsage)
    /\ ~Readable
    /\ UNCHANGED printed

\* jsonl has nothing to write when there are no rows.
NoLines ==
    {[kind |-> "fields", rows |-> <<>>], [kind |-> "names", names |-> <<>>],
     [kind |-> "aggregations", headers |-> <<>>, rows |-> <<>>]}

\* ping and version do not look at what becomes of the one line they write.
OneLiners == {"ping", "version"}

\* Stdout refuses what is written to it, from its beginning or later on.
WriteFails ==
    /\ inv.command \notin OneLiners
    /\ Finishes(exitUsage)
    /\ Readable
    /\ ~(Format = "jsonl" /\ Output \in NoLines)
    /\ printed' = Output

LineLost ==
    /\ inv.command \in OneLiners
    /\ Finishes(exitOK)
    /\ UNCHANGED printed

Ended == exit # NoExit /\ UNCHANGED vars

Next ==
    \/ CheckFlags \/ LoadConfig \/ ResolveFormat \/ BuildClient
    \/ Send \/ RequestNotMade
    \/ MappingAnswered \/ SearchAnswered \/ VersionAnswered \/ RequestFails
    \/ Receive \/ ReadIndex
    \/ Render \/ UnreadableAggregations \/ WriteFails \/ LineLost
    \/ Ended

Spec == Init /\ [][Next]_vars

-----------------------------------------------------------------------------
(***************************************************************************)
(* Properties.                                                             *)
(***************************************************************************)
\* What an exit code tells a script (README "Exit codes").  After a request 2 means
\* that its answer could not be made into rows or not be written; 3 and 4 come with
\* nothing on stdout, 4 only of a target, and without a request only 3, of a server
\* that is no URL.  0 means that all is printed, except for ping and version, which
\* would not notice.  Nothing is printed by a command before it has asked what it asks.
ExitCodesMean ==
    /\ exit = exitUsage /\ request # <<>> =>
          \/ printed # Nowhere
          \/ answer.kind = "unreadable" /\ Format # "json"
    /\ exit \in {exitConn, exitNotFound} =>
          /\ printed = Nowhere
          /\ request = <<>> => exit = exitConn /\ ~HasURL
    /\ exit = exitNotFound => inv.command \in {"search", "fields"}
    /\ exit = exitOK => printed # Nowhere \/ inv.command \in OneLiners
    /\ printed # Nowhere =>
          /\ exit \in {exitOK, exitUsage}
          /\ inv.command \in {"search", "fields", "ping"} => request # <<>>

\* The file that counts, and the context selected in it.
ConfigFile ==
    inv.files[IF "flag" \in inv.named THEN "flag"
              ELSE IF "ES_LOG_CONFIG" \in inv.named THEN "ES_LOG_CONFIG"
              ELSE IF "XDG_CONFIG_HOME" \in inv.named THEN "XDG_CONFIG_HOME" ELSE "home"]

Selected(i) ==
    LET named(j) == /\ ConfigFile.contexts[j].name # ""
                    /\ \/ ConfigFile.contexts[j].name = inv.context
                       \/ inv.context = "" /\ ConfigFile.contexts[j].name = inv.contextVar
    IN named(i) /\ \A j \in 1..(i - 1) : ~named(j)

\* A request goes to the server of the selected context and carries all of its
\* credentials, no more, with a value for each variable it refers to.
SentAsConfigured ==
    request # <<>> =>
        \E i \in DOMAIN ConfigFile.contexts :
            LET c == ConfigFile.contexts[i]
                sent == {request[1].server} \cup Range(request[1].credentials)
            IN /\ Selected(i)
               /\ sent = {expandValue(text, inv.env) :
                            text \in {c.server} \cup
                                     (IF c.authType = "apikey" THEN {c.apiKey} ELSE {}) \cup
                                     (IF c.authType = "basic" THEN {c.username, c.password} ELSE {})}
               /\ \A text \in sent : \A j \in DOMAIN text : text[j][1] # "var"
               /\ \A k \in DOMAIN request[1].credentials : request[1].credentials[k] # Empty

\* What makes the selected context of no use.
Unusable(c) ==
    \/ \E field \in SecretFields : UnsetIn(c[field], inv.env) # {}
    \/ c.authType \notin {"", "apikey", "basic"}
    \/ c.authType = "apikey" /\ expandValue(c.apiKey, inv.env) = Empty
    \/ c.authType = "basic"
         /\ Empty \in {expandValue(c.username, inv.env), expandValue(c.password, inv.env)}
    \/ expandValue(c.caCert, inv.env) \in BadCerts

\* A command with no flags of its own that ends with exit 2 before it writes
\* anything does so for the file, for the format where it has one, and ping for
\* the context that was selected: variables and secrets of other contexts need
\* not be there, and what only looks at the configuration needs none at all.
OnlyOwnContextMatters ==
    exit = exitUsage /\ printed = Nowhere /\ inv.command \notin {"search", "fields"} =>
        \/ inv.command \in {"get-contexts", "view", "ping"} /\ ConfigFile.state # "ok"
        \/ /\ inv.command \in {"get-contexts", "view", "init"}
           /\ inv.output \notin {"", "json", "jsonl", "table"}
        \/ /\ inv.command = "ping"
           /\ \A i \in DOMAIN ConfigFile.contexts :
                 Selected(i) => Unusable(ConfigFile.contexts[i])

\* What of the selected servers is shown: by ping the one that was asked, by
\* `config view' each as it is written.
ServersShown ==
    CASE printed.kind = "ping" -> {<<request[1].server, printed.server>>}
      [] printed.kind = "view" ->
            {<<contexts[i].server, printed.contexts[i].server>> : i \in DOMAIN contexts}
      [] OTHER -> {}

\* config.go:120: no password is shown, neither one in a field of its own nor one
\* inside a URL, and the rest of the URL is left as it is.
SecretsMasked ==
    /\ \A shown \in ServersShown :
          /\ \A i \in DOMAIN shown[2] : shown[2][i][1] # "secret"
          /\ TextOf(shown[2]) = TextOf(shown[1])
    /\ printed.kind = "view" => \A i \in DOMAIN printed.contexts :
          LET c == printed.contexts[i]
          IN \A text \in {c.apiKey, c.username, c.password} :
                \A j \in DOMAIN text : text[j][1] # "secret"

\* search.go:103: what Elasticsearch would answer with a 400 is refused before;
\* a body that is sent is legal.
SentIsLegal ==
    inv.command = "search" /\ request # <<>> => LegalBody(request[1].body[1])

\* Flags that say two things at once, or half a thing.
Contradictory(p) ==
    \/ p.since # <<>> /\ (p.from # <<>> \/ p.to # <<>>)
    \/ p.terms # <<>> /\ p.dateHistogram # <<>>
    \/ p.rawAggs # "" /\ hasStructuredAggregation(p)

Incomplete(p) ==
    \/ p.target = "" \/ p.size < 0
    \/ \E i \in DOMAIN p.sort : p.sort[i].dir = ""
    \/ Len(metricFlags(p)) < Len(p.metrics) + Len(p.cardinalities)

\* ... and nothing else is refused: the flags are contradictory or incomplete,
\* or the body they ask for is one that Elasticsearch refuses or that can
\* have no answer.
RefusedForAReason ==
    inv.command = "search" /\ exit = exitUsage /\ todo # <<>> /\ todo[1] = "flags" =>
        \/ ~inv.patterns
        \/ Contradictory(inv.flags) \/ Incomplete(inv.flags)
        \/ ~LegalBody([buildBody(inv.flags) EXCEPT !.sort = sortClause(inv.flags)])

\* The fields command prints each path that is a field in some index, in the
\* order of their names, with every type it has, and exactly those with more
\* than one as a conflict, index by index, in whatever order the indices came.
FieldsAreTheMappings ==
    printed.kind = "fields" =>
        LET rows == printed.rows
            props == answer.properties
            types(path) == UNION {FieldTypesAt(props[i], path) : i \in DOMAIN props}
            fields == Filtered(FieldPaths, {path \in Range(FieldPaths) : types(path) # {}})
        IN /\ [r \in DOMAIN rows |-> rows[r].name] = fields
           /\ \A r \in DOMAIN rows :
                 /\ rows[r].types = types(rows[r].name)
                 /\ rows[r].conflict = (Cardinality(types(rows[r].name)) > 1)
                 /\ rows[r].conflict => \A i \in DOMAIN props :
                       FieldTypesAt(props[i], rows[r].name) =
                           IF i \in DOMAIN rows[r].byIndex THEN {rows[r].byIndex[i]} ELSE {}

\* README.md:158: "When a target resolves to multiple indices and the same field
\* has more than one type across them, that field is a type conflict", which
\* every format shows.
EveryTypeConflictShown ==
    printed.kind = "fields" =>
        \A path \in Range(FieldPaths) :
            Cardinality(UNION {TypesAt(answer.properties[i], path) :
                                 i \in DOMAIN answer.properties}) > 1
            => \E r \in DOMAIN printed.rows :
                  printed.rows[r].name = path /\ printed.rows[r].conflict

\* From the flag to the cell: each --metric and --cardinality, given once or
\* more, has one column, under which each row shows what that operation yields
\* in that bucket, or null, and whose label is what the request calls it, in the
\* rows and in a table's head; a bucket has one row and its own key and count.  An
\* answer without aggregations has no rows.
EachFlagHasItsColumn ==
    printed.kind = "aggregations" =>
        LET p     == inv.flags
            asked == {<<p.metrics[i].op, p.metrics[i].field>> : i \in DOMAIN p.metrics}
                     \cup {<<<<"cardinality">>, p.cardinalities[i]>> :
                              i \in DOMAIN p.cardinalities}
            first == IF bucketed(p) THEN 3 ELSE 1
            truth == answer.aggs.buckets \o answer.aggs.top
            Names(m) == {n \in DOMAIN request[1].body[1].aggs.metrics :
                request[1].body[1].aggs.metrics[n] = [op |-> m[1], field |-> m[2]]}
            Of(b, m) == {truth[b].metrics[name] : name \in Names(m)}
            Labels(c) == {printed.rows[b][c].column : b \in DOMAIN printed.rows}
                         \cup {printed.headers[i] : i \in DOMAIN printed.headers \cap {c}}
        IN /\ Len(printed.rows) = Len(truth)
           /\ Format = "table" => Len(printed.headers) = first - 1 + Cardinality(asked)
           /\ \A b \in DOMAIN printed.rows :
                 /\ Len(printed.rows[b]) = first - 1 + Cardinality(asked)
                 /\ bucketed(p) =>
                       /\ printed.rows[b][1].value =
                             IF truth[b].keyAsString # <<>> THEN truth[b].keyAsString[1]
                                                            ELSE truth[b].key
                       /\ printed.rows[b][2].value = truth[b].docCount
           /\ \E column \in Bijection(asked, first..(first - 1 + Cardinality(asked))) :
                 \A m \in asked :
                    /\ Labels(column[m]) \subseteq Names(m)
                    /\ \A b \in DOMAIN printed.rows :
                          Of(b, m) = {printed.rows[b][column[m]].value}

-----------------------------------------------------------------------------
(***************************************************************************)
(* The inductive strengthening: what is behind each call of `todo'.        *)
(***************************************************************************)
\* The calls of the command that have been made and have succeeded.
Behind(step) ==
    \E j \in 1..(Len(Steps(inv.command)) - Len(todo)) : Steps(inv.command)[j] = step

\* `todo' is the end of the command's steps.
TodoInv ==
    LET steps == Steps(inv.command)
    IN /\ Len(todo) <= Len(steps)
       /\ todo = SubSeq(steps, Len(steps) - Len(todo) + 1, Len(steps))

\* What a failed call did not find.
Refused(step) ==
    CASE step = "flags"   -> ~FlagsOK
      [] step = "load"    -> ConfigFile.state # "ok"
      [] step = "format"  -> ~FormatOK
      [] step = "connect" -> ~Connects
      [] OTHER            -> FALSE

\* Each call that is behind has found what it asks for and left what it makes,
\* and no other call has left anything.
CallsInv ==
    /\ Behind("flags") => FlagsOK
    /\ contexts = IF Behind("load") THEN ConfigFile.contexts ELSE <<>>
    /\ Behind("connect") => Connects /\ client = <<ExpandSecrets(Chosen[1], inv.env)>>
    /\ request = IF Behind("send") THEN <<Request>> ELSE <<>>

\* Which call the command ended in, and what it printed.
ExitInv ==
    /\ exit \in CommandExits \cup {NoExit}
    /\ exit = exitUsage =>
          \/ todo # <<>> /\ Refused(todo[1])
          \/ /\ todo = <<>> /\ inv.command \notin OneLiners
             /\ (inv.command = "search" /\ ~Readable) \/ printed = Output
    /\ exit \in {exitConn, exitNotFound} =>
          /\ todo # <<>>
          /\ todo[1] = "receive" \/ (todo[1] = "send" /\ exit = exitConn /\ ~HasURL)
    /\ exit = exitNotFound => inv.command \in {"search", "fields"}
    /\ exit = exitOK => todo = <<>> /\ (printed = Output \/ inv.command \in OneLiners)
    /\ printed # Nowhere =>
          printed = Output /\ todo = <<>> /\ Readable /\ exit \in {exitOK, exitUsage}

CommandInv == inv \in Invocation /\ TodoInv /\ CallsInv /\ ExitInv

\* What may come back to the request.
IsAnswer(a) ==
    \/ /\ inv.command = "fields"
       /\ \E n \in 0..MaxIndices : \E properties \in [1..n -> Mappings] :
             a = [kind |-> "mapping", properties |-> properties]
    \/ /\ inv.command = "search" /\ hasStructuredAggregation(inv.flags)
       /\ LET aggs == buildAggs(inv.flags)
          IN \/ \E n \in 0..MaxBuckets, lacking \in SUBSET Range(aggs.metrics), plain \in BOOLEAN :
                   a = [kind |-> "aggregations", aggs |-> AggAnswer(aggs, n, lacking, plain)]
             \/ a = [kind |-> "aggregations", aggs |-> NoAggregations]
             \/ a = [kind |-> "unreadable"]
    \/ /\ inv.command = "ping" \/ (inv.command = "search" /\ ~hasStructuredAggregation(inv.flags))
       /\ a = [kind |-> "other"]

AnswerInv ==
    /\ answer = NoReply \/ IsAnswer(answer)
    /\ Behind("receive") => answer # NoReply

\* byField once these of the indices have been gone through.
Gathered(properties, read) ==
    LET flat(i) == flattenProperties(properties[i])
        paths   == UNION {{e[1] : e \in flat(i)} : i \in read}
    IN [path \in paths |->
          [i \in {j \in read : \E e \in flat(j) : e[1] = path} |->
              (CHOOSE e \in flat(i) : e[1] = path)[2]]]

\* The loop over the indices, from the answer to the rows.
FieldsInv ==
    LET all == IF answer.kind = "mapping" /\ Behind("receive")
               THEN DOMAIN answer.properties ELSE {}
    IN /\ unread \subseteq all
       /\ byField = Gathered(answer.properties, all \ unread)
       /\ printed # Nowhere => unread = {}
=============================================================================
