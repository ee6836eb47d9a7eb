--------------------------- MODULE Configuration ---------------------------
(***************************************************************************)
(* internal/config and the part of internal/cmd/root.go and                *)
(* internal/esclient/auth.go that makes a client of it: which file is      *)
(* read, which of its contexts is used, what becomes of ${VAR} in it, and  *)
(* when that is good enough to connect.                                    *)
(*                                                                         *)
(* A text is a sequence of pieces, <<"text", x>> or, for ${x},             *)
(* <<"var", x>>; a text that is somebody's secret is a <<"secret", x>>.    *)
(* The separators of a URL are pieces of their own, and the empty text is  *)
(* <<>>.  The environment `env' gives each of Variables a text or Unset; a *)
(* text from there is taken as it is, whatever it looks like.              *)
(***************************************************************************)
EXTENDS Integers, Sequences, SequencesExt, Filtering

CONSTANTS
    Variables,   \* names of environment variables the file refers to
    BadCerts,    \* the texts that are paths of no usable CA certificate
    BadServers   \* the texts no request can be made for, since they are no URL

Text(x) == <<<<"text", x>>>>
Var(x)  == <<<<"var", x>>>>
Empty   == <<>>
Unset   == <<<<"unset", "">>>>

ASSUME CertsAssumption == Empty \notin BadCerts

\* The texts a file may have, and those the environment may.
Texts  == {text \in Seq(STRING \X STRING) :
              \A i \in DOMAIN text : text[i][1] = "var" => text[i][2] \in Variables}
Values == {text \in Seq(STRING \X STRING) : \A i \in DOMAIN text : text[i][1] # "var"}

Context == [name : STRING, server : Texts, authType : STRING, apiKey : Texts,
            username : Texts, password : Texts, caCert : Texts]

\* The places a configuration file is looked for, the first that is named by a
\* flag or the environment wins; the home directory is there in any case.
ConfigPlaces == <<"flag", "ES_LOG_CONFIG", "XDG_CONFIG_HOME">>

ResolvePath(named) ==
    LET given == Filtered(ConfigPlaces, named)
    IN IF given = <<>> THEN "home" ELSE given[1]

\* resolveContextName: --context, or else $ES_LOG_CONTEXT.
resolveContextName(flag, variable) == IF flag # "" THEN flag ELSE variable

ContextNames(contexts) == [i \in DOMAIN contexts |-> contexts[i].name]

\* Mutant: the last of two contexts with the same name.
FindLast(contexts, name) ==
    LET found == {i \in DOMAIN contexts : contexts[i].name = name}
    IN IF found = {} THEN <<>> ELSE <<contexts[Max(found)]>>

\* The first context of that name, or nothing.
Find(contexts, name) ==
    LET found == {i \in DOMAIN contexts : contexts[i].name = name}
    IN IF found = {} THEN <<>> ELSE <<contexts[Min(found)]>>

-----------------------------------------------------------------------------
(***************************************************************************)
(* ExpandSecrets.                                                          *)
(***************************************************************************)
SecretFields == {"server", "apiKey", "username", "password", "caCert"}

UnsetIn(text, env) ==
    {i \in DOMAIN text : text[i][1] = "var" /\ env[text[i][2]] = Unset}

\* Every reference is replaced, once.
expandValue(text, env) ==
    FlattenSeq([i \in DOMAIN text |->
        IF text[i][1] = "var" THEN env[text[i][2]] ELSE <<text[i]>>])

\* Mutant: every variable of the file has to be set.
CanExpandAll(context, env) == \A v \in Variables : env[v] # Unset

CanExpand(context, env) ==
    \A field \in SecretFields : UnsetIn(context[field], env) = {}

ExpandSecrets(context, env) ==
    [field \in DOMAIN context |->
        IF field \in SecretFields THEN expandValue(context[field], env)
                                  ELSE context[field]]

-----------------------------------------------------------------------------
(***************************************************************************)
(* esclient.New.                                                           *)
(***************************************************************************)
\* AuthConfig.validate.
validAuth(context) ==
    \/ context.authType = ""
    \/ context.authType = "apikey" /\ context.apiKey # Empty
    \/ context.authType = "basic"
         /\ context.username # Empty /\ context.password # Empty

\* buildTLSConfig.
validTLS(context) == context.caCert \notin BadCerts

\* AuthConfig.apply: what a request carries.
Credentials(context) ==
    CASE context.authType = "apikey" -> <<context.apiKey>>
      [] context.authType = "basic"  -> <<context.username, context.password>>
      [] OTHER -> <<>>

-----------------------------------------------------------------------------
(***************************************************************************)
(* What `config view' and `ping' show of a context.                        *)
(***************************************************************************)
Mask == <<<<"mask", "***">>>>

\* Where one of these separators is, in what stands in the text itself.
Places(text, separators) ==
    {i \in DOMAIN text : text[i][1] # "var" /\ text[i][2] \in separators}

PathMarks == {"/", "?", "#"}

\* The authority ends at the first `/', `?' or `#'.
Authority(server) ==
    LET scheme == Places(server, {"://"})
        start  == IF scheme = {} THEN 0 ELSE Min(scheme)
        ends   == {i \in Places(server, PathMarks \cup {"://"}) : i > start}
    IN (start + 1)..(IF ends = {} THEN Len(server) ELSE Min(ends) - 1)

MaskBefore(server, at) ==
    LET colons == {i \in Places(server, {":"}) \cap Authority(server) : i < at}
    IN IF colons = {} THEN server
       ELSE SubSeq(server, 1, Min(colons)) \o Mask \o SubSeq(server, at, Len(server))

\* Mutant: the userinfo ends at the first `@'.
RedactServerURLFirstAt(server) ==
    LET ats == Places(server, {"@"}) \cap Authority(server)
    IN IF ats = {} THEN server ELSE MaskBefore(server, Min(ats))

\* RedactServerURL: the userinfo ends at the last `@' of the authority, its
\* password begins after the first `:'.
RedactServerURL(server) ==
    LET ats == Places(server, {"@"}) \cap Authority(server)
    IN IF ats = {} THEN server ELSE MaskBefore(server, Max(ats))

\* Redact: nothing is expanded.
Redact(context) ==
    [context EXCEPT !.apiKey   = IF @ = Empty THEN Empty ELSE Mask,
                    !.password = IF @ = Empty THEN Empty ELSE Mask,
                    !.server   = RedactServerURL(@)]

-----------------------------------------------------------------------------
(***************************************************************************)
(* Where secrets stand.                                                    *)
(***************************************************************************)
Public(text) == \A i \in DOMAIN text : text[i][1] # "secret"

\* A server is a URL that has its scheme up to s, its userinfo up to u, its host
\* up to h and then its path and query, and that is secret in its password only,
\* from c on, which is not written out in any other way.
IsServerURL(server) ==
    \E s \in 0..Len(server) : \E u \in s..Len(server) : \E h \in u..Len(server) :
        /\ Places(server, {"://"}) \cap 1..h = {s} \ {0}
        /\ s = 0 => Places(server, {"://"}) = {}
        /\ Places(server, PathMarks) \cap (s + 1)..h = {}
        /\ h < Len(server) => h + 1 \in Places(server, PathMarks)
        /\ Places(server, {"@"}) \cap (u + 1)..h = {}
        /\ u > s => u \in Places(server, {"@"})
        /\ \/ Places(server, {":"}) \cap (s + 1)..(u - 1) = {} /\ Public(server)
           \/ \E c \in Places(server, {":"}) \cap (s + 1)..(u - 1) :
                 /\ Places(server, {":"}) \cap (s + 1)..(c - 1) = {}
                 /\ \A i \in DOMAIN server :
                       IF i \in (c + 1)..(u - 1) THEN server[i][1] # "text"
                                                 ELSE server[i][1] # "secret"

\* A context is secret in its key, its password and its server's password only,
\* as it is written and, where it can be, with its references replaced.
SecretsInPlace(context, env) ==
    /\ Public(context.username)
    /\ IsServerURL(context.server)
    /\ UnsetIn(context.server, env) = {} => IsServerURL(expandValue(context.server, env))

\* What stands in a text itself, in order.
TextOf(text) == Filtered(text, {piece \in Range(text) : piece[1] = "text"})
=============================================================================
