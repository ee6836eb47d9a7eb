# Verification of es-log

TLA+ models of `es-log`, the read-only Elasticsearch log query CLI of this
repository, the TLC instances that check them and the TLAPS proofs about them.
Paths are relative to the repository's root.

## The system

| Component | State it keeps | Operations | Talks to |
|---|---|---|---|
| Search run (`internal/cmd/search.go`, `aggregation.go`) | flags, request size, cursor, collected hits, first total, first shard failure | validate, look up the window, single search, page with `search_after`, filter, render | client, output, exit codes |
| Elasticsearch client (`internal/esclient/client.go`) | base URL; under a mutex the cached version and the set of reported warnings | `Info`, `ListAliases`, `ListDataStreams`, `Search`, `GetMaxResultWindow`, `GetMapping`, all through `do` | the cluster; `OnWarning` callback to the printer |
| Authentication and TLS (`internal/esclient/auth.go`) | none | headers, certificate pool | client |
| `ls` (`internal/cmd/ls.go`) | rows | two listings, filter, render | client, output |
| `fields` (`internal/cmd/fields.go`) | rows | one mapping request, flatten, aggregate, render | client, output |
| `ping`, `version`, `config` commands | none | one request; a constant; print the file | client, configuration |
| Configuration (`internal/config`) | the parsed file | load, resolve the path, expand secrets | commands |
| Output (`internal/output/format.go`) | quiet flag | json, jsonl, table, warnings | stdout, stderr |
| Exit codes (`internal/cmd/exit.go`) | none | classify an error, report it | commands, `main` |
| Process (`cmd/es-log/main.go`) | signal channel, atomic signal number, context | run the command; a goroutine that turns the first signal into a cancellation | `Execute`, the OS |
| Elasticsearch (not in the repository) | documents, shards, settings | sort, `search_after`, window limit, shard failures | client |

What is hard about it:

* **Time passes between two requests.** `--size 0` sends page after page without a
  point in time; the window is read once and used for all pages; `ls` makes two
  requests. Documents, settings, aliases and data streams change in between.
* **Partial failure.** A shard fails on one page and not on the next; the window
  lookup fails and is replaced by a default; the last of several requests fails; a
  write fails half-way.
* **Interruption.** One goroutine stores a signal number and cancels, another
  notices the cancellation and reads the number. A signal can arrive at any point,
  more than once. No HTTP request has a timeout.
* **Shared client state.** The mutex is released around the callback and around
  the request whose answer is cached.

What makes the components correct: pagination neither repeats nor drops a
document and keeps the order; truncation and shard failures are never silent;
stdout is exactly the filtered fetch, a beginning of it when a write fails, nothing on any
other hard failure; a cancelled run ends; the exit status of an interrupted process is 128 plus the
signal; a warning is shown once and never lost; a listing shows each half of the
cluster as it was at one moment; a usage error is found before anything is sent, and a
legal command line is not refused; a request goes to the selected context with its credentials and no others; the fields and
the columns printed are those of the mapping and of the flags, whatever order they came in.

## Modules

| Module | Models | Uses |
|---|---|---|
| `Elasticsearch` | the contract search relies on: sort keys, ties, `search_after`, pages (external) | |
| `ExitCodes` | `exit.go`: codes and `classifyESError` | |
| `Filtering` | the members of a set in the order of a sequence, as a recursive function of the prefixes | |
| `SearchRun` | one `es-log search` against a changing cluster | `Elasticsearch`, `ExitCodes`, `Filtering` |
| `SearchContract` | abstract: what the caller of one search may rely on | `Elasticsearch`, `ExitCodes`, `Filtering` |
| `SearchRefinement` | the refinement mapping from `SearchRun` to `SearchContract` | `SearchRun`, instance of `SearchContract` |
| `Renumbering` | `SearchRun` on a cluster whose `_doc` numbers change between pages | `SearchRun` |
| `Signals` | `main.go`: both goroutines, channel, disposition; the command is abstract | `ExitCodes` |
| `EsLog` | the process: `Signals` with `SearchRun` as its command, one shared context | `Signals`, instance of `SearchRun` |
| `Client` | the client's mutex-protected state, several callers | |
| `Listing` | one `es-log ls` against a changing cluster | `ExitCodes`, `Filtering` |
| `Mapping` | `GetMapping` and the rows of `fields`; reference: walking down one path | |
| `Configuration` | path, context, expansion, redaction; `AuthConfig`, `buildTLSConfig` | |
| `SearchFlags` | `validate`, `validateAggregation`, `buildBody`, `buildAggs` | |
| `Aggregations` | the rows of an aggregation's answer | `SearchFlags` |
| `Commands` | one invocation of any command from its flags to stdout, as data | the four above, `ExitCodes` |
| `FilteringProofs`, `SearchRunProofs`, `RenumberingProofs`, `ClientProofs`, `ListingProofs`, `CommandsProofs` | theorems | the module in their name |
| `EsLogProofs` | theorems about `Signals` and about the process | `EsLog` |
| `SearchContractProofs` | theorems: the refinement, and what `SearchRun` writes | `SearchRefinement`, `SearchRunProofs`, `FilteringProofs` |
| `MCSearchRun`, `MCRenumbering`, `MCSignals`, `MCEsLog`, `MCClient`, `MCListing`, `MCCommands` | instances for TLC | the module in their name |

`SearchRun` and `Commands` look at the same command from two sides. `SearchRun` has the
requests, the failures and the time between them, and one flag `ok` for everything that
is checked before the first request. `Commands` has the flags, the file and the body
themselves, and one request whose answer is there or not.

### SearchRun

`pc` follows `runSearch`: `start` (`Preflight`: flags, configuration, client),
`lookup`/`lookupWait` (`GetMaxResultWindow`, only when `--size` is 0 or above
10000), `send`/`wait` (one `_search`), `filter`, `render`, `done`. `reqSize`,
`searchAfter`, `hits`, `firstPage`, `total` and `partial` are the locals of
`paginateAll`; `ReceivePage` is the body of its loop after `Search` has returned and
`ReceiveOnly` is `singleSearch` and `runAggregation`. Every error of a request goes
through `ReceiveError` or `Aborts` and drops what was collected. `WriteRecord` writes one
record: a line of jsonl, or the whole document in the other formats.

The environment: `SearchAnswered` answers with any page the contract admits, any set
of shards unavailable, and the shards whose index refuses the size counted as
failed (all of them failed may also be an HTTP error); `SearchFails` is every other
failing answer; `IndexDoc`, `DeleteDoc`, `ChangeWindow` and `Interrupt` happen at any
time while the command runs. The constant `Events` admits each kind of disturbance.

Abstractions: a document stands for one that matches the query and has a sort
value; a pattern is the set of documents it matches. The answer is computed at one moment:
a request's shards see one state of the cluster.

`SearchContract` hides requests, cursor, window and loops. Its state is what was
asked for, what has been there all along, what was gathered, whether a shard failed,
what is on stdout and the exit code. `Deliver` is its promise: exit 0 only with the whole
selection printed and, for `--size 0`, nothing missing that a sort can tell apart;
exit 5 the same with shards missing; `Fail` any other code with an empty stdout. A page is
one step `Gather`, a record one `Write`, requests and disturbances are
stutters or `Vanish`.

`Renumbering` adds the step `Renumber(s)`: the documents of a shard get the numbers of the
other of two numberings. That is a merge, or the next page being answered by the
other copy of the shard, since the body names no `preference`. What `SearchRun` promises of
sort order, repetitions and completeness is then weaker, and the module says by how
much: the order by time stays; a document is repeated or lost only beside a page
boundary within its own time.

### Signals and EsLog

`mainPC` is the line the main goroutine is at, `handlerPC` that of the handler.
`relayed` is the set of signals with `signal.Notify` in force; `Signal` puts a relayed
one in `sigCh` if there is room and otherwise applies the default action. Each
statement of the handler (receive, store, reset, cancel) is an action. In `Signals` the
command may return any code at any time, and 3 when it gives up because of the
cancellation.

In `EsLog` the command is a search. `ctxDone` is the one variable both share; the
`Interrupt` of `SearchRun` is `HandlerCancel` of `Signals`. `IsSignals` says that every
behaviour of the process is one of `Signals`, so the abstract command leaves nothing out.
That it is one of `SearchRun` too is a lemma (`ProcessIsSearchRun`): its steps of the search
are those of `SearchRun`, and cancelling is its `Interrupt`. The exit status, the end after a signal, and what status 0 means
for stdout are properties of the whole.

### Client

Every method is `do` and a parse; `Info` adds the cache. `MarkSeen` is the critical
section of `reportWarnings` for one header value, `OnWarning` the callback after it,
`Call` holds the first critical section of `Info` and `Store` the second. An answer has
any warnings and may be an error or unreadable; warnings are handled before that
is looked at. A header value is its warn-text and the rest (agent, date): only the text
counts for what is the same message. The commands of today call the client
from one goroutine; that is the case of one caller.

### Listing

`AliasesAnswered` and `StreamsAnswered` are the two requests, each answered at one
moment; Go's map order is any order; `Filter` and `Render` follow. `WriteFails` is the error
`renderLs` returns when stdout refuses a row: any beginning of the rows is there, and the
exit code is 2. The format is left out; with `jsonl` and no rows there would be
nothing to refuse. `Change` changes one
alias or data stream. The history `moments` holds what was true after each change.
A sorted answer is defined by rank (the entry with as many lesser names as there are
places before it), which does not say how Go sorts; the names of one answer
differ, so that stability does not matter.

### Commands, Mapping, Configuration, SearchFlags, Aggregations

`inv` is the invocation: command, flags, environment, and what is at each place a
configuration may be. `todo` holds the calls the command's `RunE` has still to make, in
its order; `CheckFlags`, `LoadConfig`, `ResolveFormat` and `BuildClient` each succeed or end
with exit 2, `Send` records what leaves the process, `ReadIndex` is one turn of the loop of
`GetMapping` (a Go map: any order), `Render` prints. Exit 2 has two more causes, after the
request: `UnreadableAggregations`, when rows are to be made of a 200 answer that does not
parse (`aggregation.go:427-454`; `-o json` prints it as it is), and `WriteFails`, the
error every renderer returns when stdout refuses what is written. `printed` is what the command writes: with exit 0
all of it is on stdout, with exit 2 perhaps only a beginning. `ping` and `version` do not look at the result of
their one line (`LineLost`). A server that is no URL (`BadServers`) passes every check and fails where the
request is made, `RequestNotMade`: exit 3, and nothing is sent.

A text is a sequence of pieces: a `${VAR}`, a secret, a separator of a URL, or
anything else. That is what expansion and redaction tell apart. What is compared of a
server before and after it is masked is what stands in the text itself (`TextOf`). A mapping is a
tree of nodes and a path a sequence of names; `FieldPaths` lists the paths in the
order of their dotted names. The values in an answer to an aggregation are opaque but
known by their bucket, operation and field, so that a value in the wrong column is seen.
A metric's name is a sequence of pieces too: `value_count` contains the separator that
joins operation and field. What Elasticsearch takes for a legal body is external (`LegalBody`).

A mapping is flattened by depth: `Visited` holds, for each length, the prefixes
`flattenProperties` is called with and the node at each, down to `MaxDepth`, the longest path of
`FieldPaths`.

Two things met while reading, for which there is no run: `validate` (`search.go:103`), which is to
find what would be an opaque 400 of Elasticsearch, does not look at `--timestamp-field`, and an
empty one is sent as the field to sort by (the instances use a non-empty field, and so does
the theorem `LegalBodiesSent`); and the comment in `internal/cmd/config.go:53` says every subcommand exits 2 for an invalid `-o`,
which `ping` and `version` do not look at.

## What the runs check

| Run | Instance | Shows |
|---|---|---|
| `search_live` | 4 documents in 2 shards, same time within and across shards but no full tie; one document indexed later; windows 1 to 3 around the default 2; sizes 0 to 4; both directions; stdout may fail | `FetchAllComplete`, `TruncationAnnounced`, `WrittenInOrder`, `TypeOK` while documents and windows change and lookups fail |
| `search_faults` | two documents tie across shards; all failing answers, failing shards and lookups, indexing, deletion, interruption | `ImplementsContract`; `PartialNeverSilent`, `NoDuplicateHits`, `HitsInSortOrder`, `OnlyTiesMissing` |
| `search_printed` | all modes, formats, sizes; include and exclude patterns; failing shards, unreadable aggregations | `OutputIsFilteredFetch`, `TotalIsExact`, `RequestFitsEveryIndex` |
| `renumbered` | 4 documents under 2 numberings, two in one shard with one time, windows 2 and 3, deletion, both directions | `HitsInTimeOrder`, `OnlyTimeTiesMissing`, `RepeatsStraddlePages` |
| `eslog` | up to 3 signals of 2 kinds; 2 documents in 2 shards, window 1 and a lookup, `--size` 0 and 2, transport errors, failing shards, deletion | `InterruptedExit`, `OwnCodeKept`, `StatusZeroIsComplete`, `GivesUpBeforePrinting`, `FirstSignalIsGentle`, `IsSignals`, `InterruptEnds`, `ProcessEnds` |
| `client` | 2 callers, 2 calls each, up to 2 warnings an answer, one text with two stamps and one value without text | `WarnedOnce`, `NoWarningLost`, `CacheFromSuccess`, `TypeOK` |
| `listing` | 3 names (one with a dot), 2 indices, every initial cluster, 2 changes; stdout may fail at any row | `ListsTwoMoments`, `ListedInOrder`, `BeginningOfListing` |
| `commands` | some 20000 invocations: places of the file, contexts of every authentication, variables unset, empty and looking like a reference, URLs with passwords, every flag in and out of range, up to 3 indices with 11 mappings, repeated metrics; unreadable answers, a server that is no URL, failing writes | `ExitCodesMean`, `SentAsConfigured`, `OnlyOwnContextMatters`, `SecretsMasked`, `SentIsLegal`, `RefusedForAReason`, `FieldsAreTheMappings`, `EachFlagHasItsColumn` |

Why the bounds are enough. Four documents with window 1 or 2 give up to five pages, the
exactly full last page and the empty one after it; two shards are the least that
have ties, disagreeing windows and a partial failure; the default window of 2 leaves sizes and
windows on both sides of it. Renumbering needs a time shared within a shard, one shared
across shards and a page that ends in each. Three signals cover the first, the one that should
force the end, and one in between. Two callers are enough for each race on the
mutex, which involves a pair of critical sections; two calls each let one find what the
first left. Two documents and window 1 give `eslog` three pages, with a look at the context
before each. Two changes put one before and one between the requests of `ls`. Three indices
can agree, disagree, and disagree with one that lacks the field; the mappings have each
kind of node and depth 3 (`MaxDepth`). Flags are varied in groups that are checked
together (times and sort; buckets; metrics), not all at once.

The type invariants of `Signals` and `Listing`, the inductive invariants
of the proofs and `InformedNeverAsks` have no run of their own here: they were checked with
TLC on the instances above before they were proved (`CommandInv`, `AnswerInv` and `FieldsInv` on
that of `commands`).

Four runs end in a violation, each of a sentence of the repository:

* `search_ties` (`search.go:403`): `skill/SKILL.md:84` promises that `--size 0`
  "fetches **everything** via `search_after`", and `search.go:392` calls `_doc` the
  tiebreaker. `_doc` is a number within a shard: of two documents with equal sort
  values and equal numbers in two shards, one falls out when a page ends between
  them, and the exit code is 0. The theorem `FetchAllUpToTies` says that nothing else can be
  missing as long as the numbers last, and the run `renumbered` what can be when they do not.
* `search_smallwindow` (`search.go:235`): "An `N` exceeding the window is truncated
  with a warning" (`skill/SKILL.md:84`), but the window is only looked up above
  10000, so a smaller window of an index is exceeded without a word; the index rejects
  the request.
* `signals_second` (`main.go:35`): the comment says a second Ctrl+C force-terminates a
  run that does not respond; one that arrives before `signal.Reset` is swallowed.
* `fields_conflict` (`client.go:559`): `README.md:158` says that a field with more than one type
  across indices is a type conflict. An object that has fields of its own has no row, so a
  path that is such an object in one index and a keyword in another is listed as a
  keyword. `FieldsAreTheMappings` says that apart from these objects conflicts are exact.

`CONTEXT.md:34` says a hard failure leaves stdout empty. `ImplementsContract` says so (its
`Fail`) and holds while stdout takes what is written to it (no event `stdout`). A
write that fails after some lines (`format.go:89`, and the renderer of every other command) is exit 2 with
output already written; for that case `search_live` checks that it is the beginning of the
result (`WrittenInOrder`), `listing` that it is that of the listing (`BeginningOfListing`), and
`commands` that exit 2 after a request has no cause but this and an unreadable answer (`ExitCodesMean`).

`CHECK_DEADLOCK` is nowhere turned off: a finished command stutters in its own
disjunct (`Ended`, `Done`, `Dead`), and any other state has to have a step.

## Fairness

`ProcessFairSpec` of `EsLog` assumes that both goroutines are scheduled: a step of the
search, of the rest of `main`, or of the handler that stays possible is taken. Nothing
is assumed of the cluster, since the HTTP client sets no timeout, nor that the command gives
up when it is cancelled: `InterruptEnds` holds because a cancelled context makes the
pending request return. `ProcessEnds` adds, as its own hypothesis, that the cluster
answers. Disturbances need no fairness: the corpus is finite. With `--sort asc` on an index
that grows as fast as it is read, the code has no bound and neither has the run.

In `Signals`, `HungFairSpec` schedules both goroutines and lets the command hang, because a
hung command is what the comment that `signals_second` refutes is about.

## Proofs

Each theorem is for every value of the constants: any corpus, page size, window, number of
signals, callers, names and changes, any command lines, files, environments and mappings. TLAPS takes nothing but the named assumptions
`CorpusAssumption`, `RunAssumption`, `TwinAssumption`, `SignalAssumption`,
`ProcessAssumption`, `ClientAssumption`, `ListingAssumption`, `CertsAssumption`,
`FieldPathsAssumption` and `CommandAssumption`, which say what the constants
are (`_doc` is unique within a shard; `Twin` pairs the two numbers of a document; the paths of
`FieldPaths` differ and are no longer than `MaxDepth`; an invocation is a record of flags, files and
environment, a variable's value is text without references). Six
theorems have a hypothesis beside them, in their statement: `FetchAllIsComplete` needs
`SortKeysUnique`, which `search_ties` shows cannot be dropped; `TotalReported` needs that the
corpus stands still (`CorpusStands`) and has no ties across shards, `LookedUpRequestFits` that
every window is reported and stays (`WindowsKnown`), as in the instance `search_printed`; `RunKeepsContract` needs
`StdoutAccepts`, since a failing write is not in the contract; `LegalBodiesSent` needs that no
invocation has an empty timestamp field, which `validate` does not look at; `SecretsAreMasked` needs
`SecretsInPlace` of every context: user names are no secret, and a server is a URL
(`IsServerURL`) whose only secret is its password, before and after its references are
replaced. The code promises no more: a secret in a path or in a host is shown as it is
written, and a server without a scheme but with a `://` further on would be cut there. A
password may have `:` and `@` in it, a user name neither `:` nor `/`, as in any URL. The
contexts of the instance are such (`MCSecretsInPlace`, which TLC evaluates).

* **Pagination** (`SearchRunProofs`): `TypeCorrect`, `PagingCorrect`, `NoDuplicates`,
  `OrderKept`, `CoverageCorrect`, `FetchAllUpToTies`, `FetchAllIsComplete`. `NoDuplicateHits` is
  not inductive: one needs that the cursor is the key of the last hit (`CursorInv`) and that
  the answer on its way is sorted, without repetitions and strictly after the cursor
  (`AnswerInv`). Together they are `OrderInv`, which asks nothing of the numbers but that they are
  unique in each answer; `PagingInv` adds that a full answer leaves nothing out
  before its last document (`AnswerComplete`), which needs them to last. `JoinPages` shows that such a
  page can be appended. For completeness `CoverageInv` adds that as long as no shard has failed each
  document that matched all along is represented or after the cursor; a page with fewer
  hits than asked for closes the gap.
* **Output** (`SearchContractProofs`): `OutputIsSelection` and `OutputInOrder` from `OutputInv`,
  which says at each record how much has been filtered and written; `PartialIsTold` from
  `PartialInv` (`partial` is the summary of the first failing answer);
  `TruncationIsAnnounced` from `BoundedInv` (a bounded request is for no more than asked, and
  for less only after a warning); `LookedUpRequestFits` from `WindowInv`; `TotalReported` from
  `TotalInv`.
* **The contract** (`SearchContractProofs`): `RunKeepsContract`. Each action of `SearchRun` is
  mapped, under the invariants above, to `Gather`, `Vanish`, `Write`, `Deliver`, `Fail` or a
  stutter of `SearchContract`.
* **Renumbering** (`RenumberingProofs`): `OrderInv` survives a renumbering
  (`RenumberedOrder`), hence `TimeOrderKept`; `PagingInv` and `CoverageInv` do not. `RepeatInv` says
  instead that a document has one number at a time and that pages follow full ones;
  `LossInv` that a document not after the cursor has been collected or has the time of a page's
  end, since that is where a new number can move it across the cursor. They yield
  `RepeatsConfined` and `LossesConfined`.
* **Exit status** (`EsLogProofs`): `TypeCorrect`, `SignalCorrect`, `InterruptedExitCorrect`,
  `OwnCodeCorrect` from `SignalInv`: the channel holds the first signal until the handler
  has it, and the number is stored before the context is cancelled. `FirstSignalCorrect` needs
  `RelayInv`: signals are relayed until the handler is past `signal.Reset`.
* **The process** (`EsLogProofs`): `ProcessIsSignals`, the refinement step by step, through which
  the theorems of `Signals` hold of the process
  (`ProcessInterruptedExit`, `ProcessOwnCode`, `ProcessFirstSignal`). `GivesUpFirst` from
  `GiveUpInv`. `StatusZeroCorrect` says that status 0 means no shard missing in any answer, all of the
  selection on stdout, and after `--size 0` nothing missed but ties (after a bounded search only the first
  two): `PartialIsTold`, `OutputIsSelection` and `FetchAllUpToTies` hold of the search in the process
  (`SearchPromises`), and `ResultInv` carries them over to the
  lines of `main` after the command has returned.
* **Shared client** (`ClientProofs`): `TypeCorrect`, `ClientCorrect`, `WarnedOnceCorrect`,
  `NoWarningLostCorrect`, `CacheCorrect`, `InformedCorrect`, from `ClientInv`: the set of
  warnings is what has been reported and what one caller each is about to report;
  each value received is in the set or still in some caller's list; a filled cache is
  never emptied.
* **ls** (`ListingProofs`): `ListingType`, `RowsOfTwoMoments`, `TwoMomentsListed`,
  `OrderListed`, `ListingHasNoHole`. `RowsInv` relates the rows collected at each line to the moments at
  which the requests were answered. Its step needs that the fold of `ListAliases` counts what
  it should (`AliasCounts`), that sorting by rank yields the same entries in order
  (`SortedByName`) and that filtering keeps the order (`FilteredMembers`).

* **Commands** (`CommandsProofs`): `CommandInductive` proves `CommandInv`: `todo` is the end of the
  command's steps, each call that is behind has found what it asks for and left what it makes,
  and an exit code says at which call the command ended, or that it was on reading or writing
an answer. `StepOn` and `AtCall` turn one
  step of any command into one statement about the calls behind it, so each action has one lemma.
  From it `ExitCodesCorrect`, `OtherContextsIgnored` and `SelectedContextAsked`; the last
  needs that a text is expanded piece by piece (`FlattenedOver`, `ExpandedText`).
  `SecretsAreMasked`: what `config view` and `ping` print of a server has no password in it and
  all of the rest. `IsServerURL` says what the parts of a URL are, by the separators in
  each; `RedactServerURL` finds them by the first and the last separator of a kind. That
  these are the same places is `AuthorityOf` and `RedactedURL`; that cutting a text there leaves out
  nothing but the password is `MaskedBetween`, from `ThreeParts` and `FilteredJoined`.
  `LegalBodiesSent` and `RefusalsJustified` are the two directions between `validate` and a legal
  body, flag by flag (`RangeIsLegal` and `LegalRangeIsValid`, and so on).
  `FieldsShownAreTheMappings`: what flattening yields at a path is what walking down to it
  finds, at most one type in each index (`FlatTypes`, by `WalkedTo` and `VisitedOnce`), and the
  loop over a Go map gathers the same in any order (`GatheredOn`, with `AnswerInductive` and
  `FieldsInductive`). `ColumnsAreTheFlags`: a metric's name determines its operation and
  field although `value_count` has the separator in it (`NamesDiffer`), so that dropping repeated
  names leaves one column for each metric asked for (`ParsedOnce`, `ColumnsAreAsked`,
  `AskedOnce`), under whose label or header `RowsOfAnswer` and `HeadersNamed` find its value in each bucket.

Facts about sequences and sets of any size need induction. The library's induction
theorems take an operator as a parameter, which the provers cannot instantiate;
`NatSetInduction` (`FilteringProofs`) is the form they can: a *set* of numbers that has 0 and the
successor of each member is `Nat`, by the well-foundedness of `<`. A recursive function is
unfolded by exhibiting a solution of its equation, one prefix (`FilteredStep`) or one element
(`AliasCounts`) at a time.

Only model-checked: liveness (`InterruptEnds`, `ProcessEnds`), which this prover cannot do. Every
other property of a passing run is a theorem. The four runs that end in a violation
are counterexamples and have nothing to prove.

## Not modelled

Cobra's parsing, YAML and JSON parsing, TLS and HTTP themselves (third-party): each is one
outcome. The layout of output and the wording of messages. The texts of queries, patterns and
documents. The escaping of targets in request paths, the slashes trimmed from the end of
a server's URL and `insecure-skip-verify`. The end of a process by SIGPIPE, which a closed stdout may bring
in place of a failing write. `timed_out` and skipped remote clusters
in an answer, which es-log never reads. An index that grows for ever.

Where the code is defensive and the models assume: a hit always has its sort values, so that the test for
an empty `searchAfter` (`search.go:304`) never decides; a write to stdout returns, so that an
interrupted run can end.

## Plan

All of the modules above are done, with their runs and proofs. What could still be of use is
outside of what the tools here can do: a proof of the liveness properties, which needs
ENABLED; and the three hazards without a property (`PROJECT.json`): fields
of an answer that es-log never reads, an index that grows for ever, and the total of the first page
beside the hits of later ones, between which the code promises nothing.
