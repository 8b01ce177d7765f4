# drlog-search: TLA+ models

drlog-search finds lines in log files spread over many machines. An *agent* on each machine indexes
the local log files by time and searches them; a *gateway* learns of the agents from their periodic
announcements, forwards list and search requests to them and merges the answers. This directory holds
TLA+ models of both programs, the TLC configurations that check them and the proofs TLAPS checks.

Paths below are relative to the repository's root.

## Inventory

| Component | Source | State | Operations | What makes it correct |
|---|---|---|---|---|
| Agent registry | `src/gateway/agent_manager.*`, `src/agent/main_agent.cpp` (`run_announce_task`), `libs/bst-http/http_client.hpp` | map agent id -> address and time of the last announcement; the sweep's and the announce threads' positions | `add_agent`, `get_active_agents`, `cleanup_expired_agents`, the announce loop | listings are fresh, dead agents go, live agents stay, one gateway's failure does not reach another |
| List of files | `src/agent/indexer.*` | map file name -> file info (size, mtime, etag, inode) and shared index; cache file | `scan_root`, `update_file_index`, `remove_unused_indexes`, `save_indexes_to_cache`, `load_indexes_from_cache`, the scan thread | every file gets indexed again after it changed, no index of a removed or replaced file is used, the cache survives crashes |
| Time index and text search | `src/agent/indexer.cpp` (index builders), `src/agent/searcher.*` | list of (time, offset) entries | `update_file_index_txt_mmap`, `find_index_pos`, `search_file_txt`, `parse_line`, `exec_searchers` | a search returns the lines a full scan of the file would |
| Gzip index and search | the `igzip` functions of the same files | as above, offsets in uncompressed bytes | `update_file_index_igzip`, `get_lines_from_file_igzip` | same |
| Query evaluation | `src/agent/searchers/*` | parse tree | `build_pattern`, `search_line` | a query means what its text says |
| Agent handlers | `src/agent/agent_handler.cpp` | per request | `list`, `search` | only files under the requested prefix, errors reported |
| Gateway handlers | `src/gateway/gateway_handler.cpp` | per request | `list`, `search` and the two fan-outs | every matching file of every live agent is asked once |
| Asynchronous HTTP client | `libs/bst-http/http_client_async.hpp` | pool of idle connections per host | `request_impl`, `async_get`, `async_put` | a healthy host is reachable |
| HTTP server session | `libs/bst-http/request_session.hpp`, `request_handler.hpp`, `context.hpp`, `http_base.hpp`, `http_server.hpp` | per connection: read buffer, parser, the coroutine's position, timer; the io threads | read header, read body, dispatch, respond, report an error, time out | handlers get whole requests, answers come in order, a client that waits is served, sessions end |
| Utilities, configuration, gzip wrapper | `src/util/*` | none | encoding, time parsing, inflate | inverse conversions |
| Web page | `web/drlog-search.html` | browser | forms | |
| Vendored libraries | `libs/date`, `libs/igzip` | | | |

Interaction: the announce thread of an agent calls `/agent/announce` of every configured gateway in
turn; a gateway's `list` and `search` handlers take a snapshot of the registry and call `/log/list`
and `/log/search` of the agents with the asynchronous client; the agent's handlers read the file
index that the scan thread rewrites; the indexer's cache file connects one life of the agent with the next.

The hard behaviours are the clock reading before a lock in the registry, the blocking announce loop,
an index that is extended while files grow, rotate, shrink and disappear, a cache loaded after a crash,
request handlers that read what the scan thread swaps, dead connections in the pools, retries of
requests already served, partial failures of the fan-out, requests that arrive in pieces while slow
clients hold threads, and queries whose operators are ambiguous.

## Modules

| Module | Models | Run by | Proved in |
|---|---|---|---|
| `AgentRegistry` | the gateways' `AgentManager`, the agents' announce threads with the blocking client | `MCAgentRegistry` | `AgentRegistryProofs` |
| `TimeIndex` | entries of an index and `find_index_pos` (no state) | | |
| `IndexBuilder` (extends `TimeIndex`) | the scan loop `update_file_index_txt_mmap` over a log that grows | `MCIndexBuilder` | `TextSearchProofs` |
| `TextSearch` (extends `IndexBuilder`) | `search_file_txt`, `parse_line`, `exec_searchers` over that log and its changing index | `MCSearch` | `TextSearchProofs` |
| `GzipSearch` (extends `TextSearch`) | `update_file_index_igzip`, `search_file_igzip` | `MCSearch` | `GzipSearchProofs` |
| `FileIndexer` | the scan thread, the list of files, the saved list, crashes, log rotation | `MCFileIndexer` | `FileIndexerProofs` |
| `SearchService` | abstract: a service that answers such requests in one step | (refined by `GatewaySearch`) | |
| `GatewaySearch` (an instance of `SearchService`) | list and search requests at a gateway, with the agents' side of them | `MCGatewaySearch` | `GatewaySearchProofs` |
| `HttpClientAsync` | the gateway's HTTP client and its pool of connections | itself | `HttpClientAsyncProofs` |
| `HttpSession` | the server's sessions, on the threads they share | `MCHttpSession` | `HttpSessionProofs` |
| `BooleanQuery` | the parser of boolean queries and what the tree finds and marks | itself | `BooleanQueryProofs` |

Definitions whose comment begins with "Mistake:" are plausible bugs, each next to the definition it
would replace; nothing refers to them. They serve to try whether a property notices.

### AgentRegistry

State: the wall clock; per gateway the map (`agents_`, `last_announce`), the cleanup thread
(`sweeper`), a caller of `get_active_agents` (`lister`, `listed`) and announcements that arrived and
are not served yet (`request`); per agent the announce thread (address index, attempt, what it waits
for) and its kept-alive connections (`pooled`). `SweepReadClock`/`SweepErase` and
`ListReadClock`/`ListCollect` split at the place where the code has read the clock and has not got the
mutex. `AnnounceSend`, `AnnounceOnStale`, `AnnounceRefused` are the outcomes of the client's
`request_impl`: sent, broken by a connection the gateway closed (retried on a new one), refused (the
exception of `create_new_connection`, caught in the loop). Unsigned subtraction wraps modulo `Word`.

Time: a thread that is ready at time *t* runs by *t* + `MaxDelay`, because `Tick` waits for it. This
is the only assumption on scheduling; everything at one value of the clock interleaves.

`get_agent_by_id` has no caller and is left out. The agent's data other than its identity is left out.

### TimeIndex, IndexBuilder, TextSearch, GzipSearch

A log is a sequence of lines: a timestamp (0 for none), whether the line is longer than the limit,
whether the text of a query is in it. Offsets are line numbers; in a gzip file, where reads end in the
middle of lines, they are units, two to a line and `LongSize` to one beyond the limit.

`IndexBuilder`: `AppendLine` is the logging program. `Begin` takes the length of the mapping and
resumes at the last entry; each line is one step (`SkipLong`, `SkipUntimed`, `IndexTimed`); `Closed`
adds the entry of the last line; `Publish` swaps the result in.

`TextSearch`: `StartSearch` is `find_index_pos` and the seek, `ReadLine` one turn of the loop with
`ParseLine` and `ExecSearchers`, `FlushSearch` what follows the loop. A record is the sequence of the
offsets of its lines.

`GzipSearch`: `ScanChunk` and `ScanEnd` build the index, `SkipChunk`, `ReadChunk`, `ParseChunkLine`,
`ReadEnd` search. `Reads` lets a read return any positive number of units up to the buffer, since a
read ends where the compressed input that was read ends. A gzip file does not change in the model.
The function variants without callers (`update_file_index_txt`, `update_file_index_gzip`,
`search_file_gzip`) are left out. Errors of opening and reading end a path's search and are left out.
The index is read in one step, which hides the unlocked read of the vector (`searcher.cpp:524`).

### FileIndexer

The scan thread in steps: `ScanStat` and `ScanInsert` per path (the stat that gives the inode, then
the calls that give size and time), `Load` at the start, `UpdateFile` per path, `Remove`, `Save`
(the list as written to the temporary file) and `RenameCache`, then `Wake`. Between any two of them
the disk may change: `Create`, `AppendTo`, `Rotate` (rename, the inode goes along), `Delete`,
`Rewrite` (truncate and write, the inode stays), and the agent may `Crash` and `Start`. `Create` takes a
new inode or one that a deleted file had; the code cannot tell the latter from rewriting, and `rewritten`
marks both (`MaxRewrites` bounds them together). Each content a
file ever has is a number of its own, so that an index entry tells which content it was made from;
every line has a bucket of its own, as `IndexBuilder` has the buckets. `UpdateFile` may fail to open
the file (`MaxFailures`), which the code answers with an empty index marked as up to date.

### GatewaySearch

`handler` is the coroutine of one request: `Request` takes the snapshot of the registry, which may be
any agents; `Call`, then `AnswerList`/`AnswerSearch` or `CallFails`, per agent, in the order of
`agent_id`; `EndList` or `Filter` after the first round, `EndSearch` after the second; `Respond`. A
call takes effect at the agent in one step; whether it is answered is whether the agent is up.

A file is the set of the times of its matching lines and whether its index is closed by the entry of
the last line. `AgentList` answers the times of the index's first and last entry (`FirstEntry`,
`LastEntry`), which are those of buckets, but for a closing entry; `Filter` drops the files that these
times put outside the interval and groups the rest by agent. `AgentSearch` answers, of each file, what
`Answers` allows: a search stops at `max_results` lines of a file (`MaxResults`; the records held then
may make them a few more, `MostResults`, and one of these may be later than records it has dropped). The search of one file is `TextSearch` and
`GzipSearch`; of it `Answers` takes what these show. The search comes to every line of a closed index
of a text file, and of an open one to the lines before its last bucket (`SureLines`). It may end before
any line of a gzip file. A search that begins within a bucket beyond the threshold (`Crowded`) may be led
past the bucket's first lines (`Reached`).

Between any two steps agents fail and return, and their indexed files grow, appear, go and, when a line
without a timestamp follows, lose their closing entry (`LineFollows`). Two history variables say what
the answer owes (`due`: of an agent in the snapshot that was up since then, for a search the lines of the
interval that were sure to be found then and still are, for a list all lines) and may contain
(`seen`). `SearchIsComplete` then is: each owed line is among the records, or `MaxResults` earlier ones of its
file are (`Enough`). Requests share nothing but the registry, so one is enough. `Refuse` answers a bad
method, prefix or body.

Left out: sizes, etags, the order of the records, conversion to UTF-8, compression; lines that do not
match (they only widen the times of an index) and more than one matching line in a second; records whose
first line is beyond the limit on a line's length, which have no place in the index; a file that is gone from
the disk and still in the list, which is searched without a result (`FileGoes` is both at once); times
from 2038 on (see the disagreements). `announce` and `agent_list` are wrappers of the registry.

`SearchService` says the same without rounds of calls: `Ask`, `Answer` (one step, with any answer that
has what is owed, up to the limit, and nothing that was never offered) and `Take`, while lines come, go and
become doubtful (`Doubt`). `Service` in `GatewaySearch` maps the handler to it: `Phase` of its position,
`AnswerNow` of its fields once it is done, `LinesOf` and `SureLines` of the files. All calls and the filter map to
stuttering, and the step that ends the last round to `Answer`.

### HttpClientAsync

`request[r]` is the coroutine with its recursive calls, `conn[c]` both ends of a connection with the
request and answer under way, `pool[h]` the deque. Steps: `Get` (pop or none), `Connect` or `Refused`,
`Write` or `WriteTooLarge`, `Read`, `ReadRedirect`, `Breaks`, `TimesOut` or `AnswerTooLarge`, `Put`,
`Return`. Agents answer (`Answer`), end, start, and close idle connections (`SessionExpires`).
`Tries` is the entry of every (recursive) call with its two tests. The limit of the parser that
`async_read` makes for a message (`ParserLimit`) is the one that counts, as in the code.

### HttpSession

A request is two units of header and, for the kinds with a body, more of it; `wire[c]` is what has
arrived, `buffer[c]` what the session has read and not used. `Send` delivers one unit, and a read takes
what is there: a read that takes less is one that happens before the rest arrives. `session[c].pc` is
where the coroutine waits: `header` and `body` (asynchronous reads), `upload` (blocking reads of a body
above 5 MB), `handle`, `write` (blocking, below 1 MB) or `send` (asynchronous), `error`. `Parse` is
`parser.put` with the buffer; `Respond` also empties the buffer, so that what was read of a next request
is lost. `Runs(c)`: a coroutine needs one of the `Threads`, and those in `upload` and `write` keep theirs
until the client acts. `Expire` is the timer, set once; `TimesOut` ends asynchronous waits only. What is
no beginning of a header is an error (`ReadGarbage`, then `Report`: a 500, and the end); bodies that are
refused (chunked ones, by the comparison of lengths, and those above the limit) end the same way and are
left out. `Waiting` clients wait for an answer before the next request, as both clients of this program
do; others pipeline.

### BooleanQuery

One token is one step; `levels` is the stack of calls of `parse_expr` with their `nodes` and `ops`. A
node is what `search_line` makes of it, a function from the lines it matches (a line is the set of the
query's words in it) to the words it marks. After an error the rest is read with no effect (`ReadRest`), so
that a rejection is one of a whole query. The errors of the tokenizer that depend on neighbouring
tokens belong to the steps; cutting the text is left out. The property's `Meanings` is independent of the
parser: all readings the operators allow, whatever binds closer.

## Runs

| Run | Question | Result |
|---|---|---|
| `AgentRegistryOne` | how long an entry lives, how old what is listed may be, when a stopped agent disappears, whether a running one is heard each round and is never removed for its age | holds |
| `AgentRegistryTwo` | whether a gateway that is down or restarts keeps another one from hearing the agent | holds |
| `AgentRegistryEvict` | `agent_manager.cpp:88` logs "Agent expired and removed" of every agent it erases: is it so? | violated: the clock is read before the lock, an announcement in between is later, the unsigned difference wraps |
| `SearchScan` | `QueriesFindIndexed`, `IndexIsCanonical`: repeated indexing gives the entries of one scan, and others in buckets beyond the threshold only, and leads each query to its lines, unless it begins in such a bucket; `SearchIsScan`, `AnswersAreRecords`: a search equals a full scan; `GzipIndexIsCanonical`, `GzipAnswersAreFirst`: the same of gzip files wherever chunks end, up to the search's early end | holds |
| `IndexTail` | the page (`web/drlog-search.html:492`) says "Finds all lines": can every line be found once the file is indexed? | violated: without a timestamp in the last line there is no closing entry |
| `GzipTail` | the same of gzip files | violated: reading stops at the chunk that reaches the end position |
| `FilesRotated` | `MatchingIsCurrent`: an index believed current is that of the file; `IndexConverges`: when the disk rests, every file gets its index and gone files lose theirs | holds |
| `FilesTruncated` | the same of logs rewritten in place, or created with a deleted log's inode ("Finds all lines") | violated: the inode is unchanged and the index goes on from old entries |
| `GatewayAnswers` | `SearchIsComplete`, `ListIsComplete`, `SearchIsSound`: what the indexes lead to all the time is answered, up to `max_results` a file, and nothing else; `IsService`: the handler implements `SearchService`; every request ends | holds |
| `ClientPool` | `OneHolder`: no connection is shared or leaked; `OwnAnswer`: no answer reaches another request; the number of sends is bounded; requests end | holds |
| `SessionStream` | `HandledAreWhole`: a handler gets a request with its own body, however the stream is cut and whatever was lost of it; `AnswersInOrder`; `WaitingAreServed`: a client that waits gets each answer and is only cut off by the time-out; `RequestsEnd`, `SessionsEnd`: it is served while another client holds a thread, and the session ends after its time | holds |
| `QueryMeaning` | `AcceptedMeansOneThing`: an accepted query has at most one meaning and finds it; `MeaningfulIsAccepted`: a query with a meaning is rejected only for mixed operators; `MarkedWordsSuffice`: marked words are a reason for the find | holds, but for a bare NOT beside OR (below) |

Each module has one type invariant; `TypeOK`, `SearchTypeOK` and `GzipTypeOK` also bound the positions
of the loops, so that an index outside of the file would show.

### Bounds

- `AgentRegistryOne`: one agent, one gateway, time-out 5, announcements every 1, clock to 19: two whole
  sweeps with a late one, a fault of any kind, and an entry that gets old; `RoundBound <= Timeout`
  holds, as 10 s against 60 s. `AgentRegistryTwo`: two gateways, two faults, clock to 6: a gateway may
  crash and restart while the other one goes on. `Word` = 64 stands for 2^64 and exceeds all times.
- `SearchScan`: a threshold of two lines, so that five lines exceed it in either bucket, within a scan and over
  several that resume; five lines of five kinds (three timestamps in two buckets of two seconds, an untimed
  line, one too long); two untimed lines at the head make the scan give up; three intervals (inside a
  bucket, across buckets, everything); batches of one record and a limit of two results, so
  that the limit is reached with lines left. A buffer of three units against lines of two cuts lines at
  all places and needs more than one chunk for most positions; `MaxCarry` is reached by long lines.
- `FilesRotated`: a log and its rotated name, three changes of the disk, one restart, one file that
  fails to open, one rewriting or inode used again: a rotation, the new log and one more change, around
  every step of the thread.
- `GatewayAnswers`: two agents with a text and a gzip file each, times 2 to 4 in buckets of two seconds, two
  changes among the steps of a request: one between the rounds and one within a round. At first files are
  absent or have the times 2 and 3; a third line comes with a change. A limit of one result and at most two
  in an answer, so that searches stop with lines left and an answer may have a gap. Two intervals: everything, and
  the second 3, which begins in the crowded bucket of 2 and lies behind the last entry of an index that is open.
- `SessionStream`: a client that waits and a slow one that pipelines, two requests each, two threads. The
  first sends requests with an expected 100, with a close, and with a body that is not read; the second
  large ones. A larger instance with all kinds for the first and three for the second (7.4 million
  states) was checked for the invariants.
- `QueryMeaning`: seven tokens, two words: two levels of parentheses, each operator between them, and
  every sequence of five tokens inside one pair.
- `ClientPool`: two requests at one agent, three connections, one idle place, two retries as in the
  code, one redirection, two faults: a stale connection in the pool and a failure of the retry.

`CHECK_DEADLOCK FALSE` is set where a log that is full and indexed leaves nothing to do
(`IndexBuilder`'s instances), where a query is read to its end, and where all sessions are closed.

### Fairness

- `FileIndexer`, `WF_vars(Scan)`: the scan thread of a running agent has nothing it waits for but its
  own sleep; nothing makes programs write logs or an agent start, so these have no fairness, and
  `IndexConverges` supposes that the agent stays up in the end.
- `GatewaySearch`, `WF_vars(Handler)`: every call of the client ends, with an answer or an error
  (`RequestsEnd` of `HttpClientAsync`).
- `HttpClientAsync`, `WF_vars(Client(r))` for each request: the timers that are set around the write
  and the read, and the operating system's limit on connecting, make every operation end. Agents have no fairness:
  they need not answer.

- `HttpSession`, `WF_vars(Session(c))` for each connection: a coroutine that is ready gets a thread when
  one is free. For clients that are not slow also `Respond` and `Send`: they send what they began and take
  answers, as both clients of the program do. Slow clients, new requests, leaving and time-outs of idle
  connections have no fairness.

`AgentRegistry` needs none: its progress is stated with time, as bounds.

## Proofs

All are safety properties and hold for all values of the constants that satisfy the modules'
assumptions; the runs check the same formulas on the instances above.

`AgentRegistryProofs` (assumptions `RegistryAssumption`, `TimeAssumption`, `BudgetAssumption`;
of them only `MaxClock + Timeout < Word` limits the real system: clocks below 2^64):

- `TypeCorrect`.
- `EntryLifetimeHolds`. The age of entries is not inductive. `SweepInv` says for each state of the
  cleanup thread how old an entry may be there: asleep, older entries have at most what is left until
  the next sweep; having read the clock, at most a delay more. `HistoryInv` (times lie in the past)
  lets the wrapped difference only err towards removal (`ElapsedFacts`), `DownInv` covers restarts.
- `ListedAreRecentHolds`, an action property: `ListerInv` bounds the age of the clock reading.
- `StoppedAreUnlistedHolds`: `StoppedInv` follows the last request of an agent that stopped: it is
  served within a delay, or when a stalled gateway resumes.
- `HeardEveryRoundHolds`, for lists of any length, where `MaxRetries >= 1` (the client's is 2; without a
  retry a dead kept-alive connection costs a gateway its round) and a gateway that may stall stands alone in
  the list (`StallStandsAlone`; next to others it would hold the blocking client and the claim is false). The
  bound is not inductive: what the clock may be depends on where the thread is. `ScheduleInv` bounds for
  each address `i` the time at which the thread got to its address `j` by when `i` was last heard, the
  addresses between (`Hops`), the sleep if it lies between, and two delays for each fault *already used up*:
  a dead connection is the debt of a fault that was not paid yet, so the invariant subtracts their number
  (`Stales`, which `ThreadInv` keeps below the number of faults).
- `NeverErasedByAgeHolds`, an action property, follows from it, from `SweepInv` and from `ListedInv`: only
  gateways of the list have entries.

`TextSearchProofs`, first part (assumptions `LinesAssumption`, `BuilderAssumption`), about `IndexBuilder`:

- `TypeCorrect`.
- `QueriesFindIndexedHolds`, for any threshold. A bucket with more lines than the threshold gets more entries,
  all of the bucket's time, and `find_index_pos` takes the last of them for a query that begins in the bucket and
  the first for one that begins earlier or with it (`LeadsToFirst`); the property speaks of the others' lines only
  for the latter. The invariant `GoodIndex` says that an index has the first lines of the buckets and, besides, only
  lines of buckets that are crowded there (`CrowdedIn`: the number of the bucket's lines so far exceeds the
  threshold), with or without a closing entry; `GoodLoop` says the same of the unfinished result, up to the
  loop's position, and `Counted` that the loop counts no more lines of a bucket than there are: the count begins
  anew when a scan resumes. That `Begin` drops the last entry and resumes at it keeps both.
- `IndexIsCanonicalHolds`, likewise: the same invariant, read in both directions. Every entry is a first line
  of its bucket or one of a crowded bucket (`EntryIsFirst`), and every first line has an entry (`FirstHasEntry`).

`TextSearchProofs`, second part (`SearchAssumption` too), about `SearchSpec`, the part of `GzipSpec` that text files
take:

- `SearchTypeCorrect` and `AnswersAreRecordsHolds`, for any index. `TextInv` says what the loop holds at its
  position (`Answering`): the pending record is a header of the interval with all lines since, none of them
  timed; what was found are records, and would be if the batch were searched now. That a line before the interval
  finds no record pending (`EarlyLine`) needs times in order. Times of headers do not change while the
  file grows (`GrownContext`).
- `SearchIsScanHolds`, for searches that do not begin within a crowded bucket, and where, of the lines the search
  covers, no timed one is beyond the size limit: such a line has no place in the index, and a search may miss it. (The lines of the run
  have only long lines without a time.) `ScanInv` follows the scan: what a search would have found if it searched
  its batch now is, up to the limit, what the scan has found up to the header of the pending record
  (`TakenUpto`). At the start that is nothing, because the invariant of the index gives a range that leaves
  no header of the interval out (`ClosedIndexLeads`); at the end position the line closes the index or lies behind
  the interval, so that the scan finds nothing more (`EndFollows`); with enough results, nothing more
  counts (`EnoughFollows`). Searching a batch, `ExecSearchers`, and the scan, `ScanRecords`, are recursive
  functions; `RecursionExists` and `RecursionAgrees` give their values by a least counterexample.

`GzipSearchProofs` (the same assumptions), about `GzipSpec`, searches of both kinds of files:

- `GzipTypeCorrect`, `AnySearchTypeCorrect`, `AnyAnswersAreRecordsHolds`, for any index and any chunks.
- `GzipIndexIsCanonicalHolds` and `GzipAnswersAreFirstHolds`, for any threshold, as for text files.
  The code counts bytes, the properties lines. `Position` says where a line begins in the stream, and the
  invariant says of every position the code keeps which line it is: what is carried over begins at a line
  (`Reading`, `StreamOK`), however the chunks cut. A chunk is then a scan of whole lines: `ScansInTurn`
  compares the recursive function of `IndexChunk`, line by line, with the index of the lines so far
  (`ScannedTo`), which is the `Scanned` of the text index with offsets turned into positions. A scan that gave up
  on lines without a timestamp goes on at the same line with every chunk and gives up again (`GaveUp`).
  A search is `CaughtUp` at a line, by the `Answering` and `TakenUpto` of the text search, or it has enough
  results (`Full`), after which the next chunk is still parsed and changes nothing that counts. At the end it has
  what the scan has found up to some line; such an answer begins that of the whole scan, but for lines that continue
  its last record (`NearlyBegins`). Hence `GzipAnswersAreFirst` says no more: the end may come too early
  (run `GzipTail`).

`FileIndexerProofs` (assumptions `IndexerAssumption`, and `RotationAssumption`: a rotated log does not get
its old name back):

- `TypeCorrect`.
- `MatchingIsCurrentHolds`, for any paths and rotations. That an index is current is not inductive: an
  entry of the list (or of its saved copies) says something of a file that may have moved or grown since.
  `Sound` says of each entry that, if the file with its inode is still at its path, the index is of its
  first `s` lines for some `s` not below the size the etag was made of; when the size on the disk is
  that size, `s` can only be the size, and the index is complete. `Behind` says that a file that
  was seen at a path is there or further on its way of rotation (`Rank`), so that it cannot leave, grow and
  come back to an older index. `DiskInv`: an inode is at one place. `BuildOn` shows that going on from the
  index of the first lines gives the one of all lines. `DiskStep` does the changes of the
  disk at once, by what they have in common (`Follows`).

`GatewaySearchProofs` (assumption `GatewayAssumption`):

- `TypeCorrect`, `SearchIsCompleteHolds`, `ListIsCompleteHolds`, `SearchIsSoundHolds`, for any number of
  agents, paths, times and changes, any limits, buckets and crowded buckets. Completeness speaks of the end of a
  request only; `ProgressInv` says at each step where an owed line is: its agent is still to be asked, or the
  list has its file with times around it (`Known`), or it is among the records, or enough before it are
  (`Safe`), which more records do not change (`EnoughGrows`). `DueInv` says that an owed line is there and its agent
  up, so that a failed call loses none, and, with `FileTimes` (the first and the last entry of a file enclose
  the lines that are sure to be found, `EntryTimes`), that the filter drops no file with an owed line. An open
  index ends before its last lines, and the filter may drop these: they are not owed. `SeenInv` gives soundness.
- `ServiceIsImplemented`: `Spec => IsService`. Each step of the handler or of the agents maps to a step
  of `SearchService` or leaves its variables alone; `Filter` is both, an answer without records or a
  silent step. The steps that answer need the invariants above (what is owed is among
  the records, or enough before it is, and these were offered), `FewOfEach` (each file is searched once, so
  the merge keeps its limit) and `RoundsInv`: there are no records before the second round.

`BooleanQueryProofs` (assumption `QueryAssumption`):

- `TypeCorrect`, of which `Nodes` is the part that matters: a node marks only words that are in the line.
- `MarkedWordsSufficeHolds`. The invariant says of every node of every level, while no NOT was read, that
  it is evident (`Evident`): the words it marks in a line make a line that it finds, and it finds every
  line with more words. AND needs the second part to join what its operands mark, and OR that of the
  first that matches.
- `AcceptedMeansOneThingHolds` and `MeaningfulIsAcceptedHolds`. `Readings` is recursive over parts of a query;
  what is said of all parts is proved for a shortest counterexample, from `ReadingsEquation`, the recursion itself.
  What has a meaning has a form (`ShapeHolds`): balanced parentheses, and neighbours the parser accepts. And
  its meaning is, whichever operator binds closer, that of all operands of its level where no OR is, and
  of any operand where neither an AND nor a bare NOT is (`IsJoint`, `JointHolds`); `Operands` are the positions
  where the operands of a level begin, and one alone is the meaning, beside whatever operators.
  `MeaningInv` follows the parser: while it reads, every open call of `parse_expr` has, of the tokens from
  where it began to where the next call began, the operators that are there (`LevelInv`) and one node for each
  operand, which finds what the operand may mean (`Denotes`, with the NOT before it), now and when more is read
  (`LevelKept`: a phrase ends where the depth is back). A closing parenthesis makes an inner call one operand of
  the outer one (`NestedCloses`, by `CombinedMeans`), and the end of the query is the same for the outermost.
  Once the parser has failed, the tokens have no form or operators differ at a level (`Unreadable`), whatever
  follows; a query that ends too early has no form either (`UnreadableMeans`).

`HttpClientAsyncProofs` (assumption `ClientAssumption`):

- `TypeCorrect`, `OneHolderHolds`, `OwnAnswerHolds`, `SendsAreBoundedHolds`, for any number of requests,
  agents and connections and any limits. The parts of the invariant are needed together: `HeldInv`
  (what a request holds is open, is its alone and carries at most its own request and answer),
  `PooledInv` (what is idle is open, in one place, and carries nothing) and `OpenInv` (every open
  connection is at one of these). That the failed request's connection is closed, and never given
  back, is what keeps a late answer from the next request: without it `PooledInv` would fail. The number
  of sends is not inductive alone: `Counted` bounds it by what the request's own counters say, a row of
  `MaxRetries + 1` attempts for each redirection and one more for an attempt that is under way.

`HttpSessionProofs` (assumption `SessionAssumption`):

- `TypeCorrect`, `HandledAreWholeHolds`, `AnswersInOrderHolds`, `WaitingAreServedHolds`, for any clients,
  kinds of requests and threads. The invariant is one of each client's state (`Inv`), proved for each
  operation without the others and put together in `Step`. `Stream`: what has arrived is a contiguous
  part of what the client sends, and goes on with what is still to come, which is why the parser, which
  begins at a part 1, gets the parts that belong to the request. `Request`: the session's
  part of the body, and that the rest follows on the stream or will never come. `Order`: what arrives
  is later than what was handled, so that no number comes twice although the buffer is emptied. `Served`:
  for a client that waits there is nothing behind the request under way, so the emptied buffer loses
  nothing and no header begins in the middle; this needs that the parser has taken all of the body
  when the handler is called.

Only model-checked: liveness (`IndexConverges`, `SessionsEnd`, `RequestsEnd` of three modules), which is beyond these
provers. Every other property of the passing runs is a theorem. Induction over data is beyond them, too: what recursive
functions compute (`ExecSearchers`, `ScanRecords`, `IndexChunk`, `Readings`) is proved by least counterexamples.

## Disagreements with the documentation

The four runs with a violation each show one, recorded with the quoted line in `PROJECT.json`. Further ones that were met while modelling and
have no run of their own:

- `README.md:88` says the agents are asked in parallel. `co_spawn(..., use_awaitable)` starts when it is
  awaited, and `gateway_handler.cpp:510` and `:615` await one after the other: agents are asked in
  turn, and one that does not answer delays all others by its time-outs.
- `indexer.cpp:458`: after the count threshold a bucket gets a second entry with the same time. A query that begins
  within the bucket is led to the last of its entries, and the lines of its interval before that one are not found
  (`LeadsToFirst`), although `web/drlog-search.html:492` says "Finds all lines".
- `agent_handler.cpp:62`: the end of a file that is sent to the gateway is the time of its last entry. Without
  a closing entry (run `IndexTail`) that is the beginning of its last bucket, and the gateway's filter
  (`gateway_handler.cpp:310`) drops the file from a search of later seconds of the bucket. The agent would not find
  these lines either.
- `searcher.cpp:39`: an answer may have one record more than `max_results`: the one that was pending when the limit was
  reached, though records between them were in the batch and are dropped.
- `indexer.cpp:377`: a file that fails to open gets an empty index that is marked as current until the
  file changes (`Good` in `FileIndexer` allows for it).
- `indexer.cpp:815`: an entry whose index is empty is not dropped when its file is deleted.
- `http_client_async.hpp:71`: after an agent restarts, dead connections in the pool can use up all
  attempts of a request to a healthy agent.
- `searcher.cpp:396`: a chunk that is short because the compressed input ran out is taken for the end of
  the file, and the search fails with an error.
- `searcher.cpp:463`: once a gzip search has its results, the next chunk is still parsed, and its first
  line may continue a record it does not belong to. Such a record is beyond the limit.
- `main_agent.cpp:90` sets a request time-out of 10 s, but the announce client's reads and writes are
  synchronous, and `expires_after` (`http_client.hpp:169`, `:182`) does not apply to them: a gateway that
  accepts and does not answer holds the announce thread for every gateway (`GatewayStall`).
- `gateway_handler.cpp:574` sets a limit of 50 MB on an agent's answer, which `http_client_async.hpp:201`
  puts on a parser that it does not use; the default of Beast (8 MB) counts.
- `boolean_searcher.cpp:150` says "Logic operators must be the same at the same level", but a NOT without
  operator takes the operator of its level: `a OR b NOT c` is an OR of three (`BareNotWithOr`). Operators
  without operands and `()` are accepted; `AND"x"` is a word, because the operator is followed by a quote.
- `gateway_handler.cpp:482`: `item.value("size", 0)` reads sizes and times as `int`: sizes from 2 GB on, and
  times from 2038 on, come out wrong.
- `request_session.hpp:68`: the body of a GET is not read; what does not arrive along with the header is
  taken for the next request, answered 500, and the connection ends (kind `unread` of `HttpSession`).
- `request_session.hpp:106`: a chunked body has no Content-Length and fails the comparison: it gets a 500.
- `http_base.hpp:177`: answers below 1 MB are written with a blocking call, to which no time-out applies.
- `gateway_handler.cpp:465`: the prefix is put into the URL without encoding.
- `request_session.hpp:126`: the buffer is emptied after each request, with what was read of a next one.

## Not modelled

- Whether a record matches a query in a search: a field of its lines (`BooleanQuery` has the query alone).
  The simple and regex searchers are a call of `find` and of `std::regex_search`.
- Routing (`request_handler.hpp`, `context.hpp`): lookups in maps that are filled before the server runs.
- The main programs' configuration; utilities (encodings, hashes, compression: pure calls without state)
  and the gzip wrapper, except for what `Etag` and `Reads` say of them; the page.
- Vendored libraries: `libs/date/date.h` and `libs/igzip/igzip_lib.h` are 9398 of the 15113 lines of
  code. Of the other 5700, about a fifth are functions without callers (the older text and gzip indexers
  and searches, `cleanup`, `get_agent_by_id`), log messages and catch blocks of the same shape.
- Data races as such: the unlocked read of an index (`searcher.cpp:524`) is one step.
- Logs whose times go back (`searcher.cpp:65` adds lines to the wrong record there).

## Plan

Done: the registry, the indexes and searches of both kinds of files, the list of files, the gateway's
requests and the service they implement, the client's pool, the server's sessions, boolean queries;
proofs of all of them.

1. Logs whose times go back, in `TextSearch`; the index read in two steps.
2. An abstract client (a request is sent, answered or failed) implemented by `HttpClientAsync`.
