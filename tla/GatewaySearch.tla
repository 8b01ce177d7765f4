---------------------------- MODULE GatewaySearch ----------------------------
(***************************************************************************)
(* A list or search request at a gateway (GTHandler::list and ::search in  *)
(* src/gateway/gateway_handler.cpp, the agents' side in                    *)
(* src/agent/agent_handler.cpp): the agents of the registry are asked for  *)
(* their files, the files are filtered by time, the agents that have some  *)
(* are asked to search them, and the answers are merged.  Meanwhile agents *)
(* fail and their lists of files change.                                   *)
(*                                                                         *)
(* A file is the set of the times of its lines that match the query, one   *)
(* line a second, and the end of its index.  TextSearch and GzipSearch have *)
(* the search of one file: which lines it finds is taken from them.  A     *)
(* request shares nothing with another one but what it reads of the        *)
(* registry.                                                               *)
(***************************************************************************)
EXTENDS Integers, FiniteSets

CONSTANTS
    Agents,      \* the agents, as numbers in the order of their agent_ids
    Paths,       \* the paths below the prefix of the request
    Times,       \* the seconds of the logs
    LastTime,    \* bound on the times
    Intervals,   \* the intervals asked for: <<start_time, end_time>>
    IntervalSeconds,  \* the seconds of a bucket of the agents' indexes
    Crowded,     \* buckets in which files may have more lines than the index's threshold
    Zipped,      \* the paths of gzip files
    MaxResults,  \* the request's max_results: a file's search stops when it has as many
    MostResults, \* what it has at most: with the records it still held then
    FirstFiles,  \* what the agents have at their paths at first
    MaxChanges,  \* bound on what happens to the agents
    NoFile       \* a path that is not in the list of an agent

(* The files: the times, and whether the index is closed by the last line's *)
(* entry.  It is not if that line has no timestamp.                         *)
Files == [times: SUBSET Times, closed: BOOLEAN]

ASSUME GatewayAssumption ==
    /\ Agents \subseteq Nat
    /\ LastTime \in Nat /\ Times \subseteq 1..LastTime
    /\ IntervalSeconds \in Nat \ {0}
    /\ MaxResults \in Nat /\ MostResults \in Nat
    /\ NoFile \notin Files /\ FirstFiles \subseteq Files \cup {NoFile}
    /\ Intervals \subseteq Nat \X Nat /\ MaxChanges \in Nat

VARIABLES
    files,     \* files[a][p]: the file of a at p, in its index
    up,        \* the agents that answer
    changes,
    handler,   \* the handler's coroutine
    due,       \* what its answer owes: lines that were there all the time
    seen       \* lines that were there at some time since it began

vars == <<files, up, changes, handler, due, seen>>

Lines == [agent: Agents, path: Paths, time: Times]

(* An entry of the lists the agents return; the times are 0 if the index is *)
(* empty.                                                                   *)
Indexes == [agent: Agents, path: Paths, start_time: 0..LastTime, end_time: 0..LastTime]

Idle == [pc |-> "idle", op |-> "list", start_time |-> 0, end_time |-> 0, todo |-> {},
         calling |-> FALSE, indexes |-> {}, records |-> {}, status |-> 0]

Handlers == [pc: {"idle", "lists", "searches", "done"}, op: {"list", "search"},
             start_time: Nat, end_time: Nat, todo: SUBSET Agents, calling: BOOLEAN,
             indexes: SUBSET Indexes, records: SUBSET Lines, status: {0, 200, 400, 404, 405, 503}]

TypeOK ==
    /\ files \in [Agents -> [Paths -> Files \cup {NoFile}]]
    /\ up \subseteq Agents
    /\ changes \in 0..MaxChanges
    /\ handler \in Handlers
    /\ handler.calling => handler.todo # {}
    /\ due \subseteq Lines /\ seen \subseteq Lines

Init ==
    /\ files \in [Agents -> [Paths -> FirstFiles]]
    /\ up = Agents
    /\ changes = 0 /\ handler = Idle /\ due = {} /\ seen = {}

Listed(a) == {p \in Paths : files[a][p] # NoFile}
LinesOf(a) ==
    {l \in [agent: {a}, path: Listed(a), time: Times] : l.time \in files[a][l.path].times}
InInterval(t) == handler.start_time <= t /\ t <= handler.end_time

Least(S) == CHOOSE t \in S : \A u \in S : t <= u
Greatest(S) == CHOOSE t \in S : \A u \in S : u <= t
BucketOf(t) == t - (t % IntervalSeconds)

(* The lines of text files before the last entry of the index or, if that   *)
(* is the last line's, up to it.  A search does not stop before them; it    *)
(* may do so before others, and before any line of a gzip file.             *)
SureLines(a) ==
    {l \in LinesOf(a) :
        /\ l.path \notin Zipped
        /\ LET file == files[a][l.path]
           IN file.closed \/ l.time < BucketOf(Greatest(file.times))}

(* The entry that a search from this time on begins at is not after t: that *)
(* of a crowded bucket is repeated, and the search takes the last that is   *)
(* not later than its start.                                                *)
Reached(t, from) == BucketOf(t) \notin Crowded \/ from <= BucketOf(t)

(* Of lines S, the times of those of a file, and whether these before l are *)
(* as many as were asked for.                                               *)
TimesIn(S, a, p) == {t \in Times : [agent |-> a, path |-> p, time |-> t] \in S}
Enough(S, l) == Cardinality({t \in TimesIn(S, l.agent, l.path) : t < l.time}) >= MaxResults

-----------------------------------------------------------------------------
(* What happens to the agents.                                              *)

Change == changes < MaxChanges /\ changes' = changes + 1 /\ UNCHANGED handler

(* An agent's indexer finds a later line, or a new file.                    *)
FileGrows(a, p, t) ==
    LET times == IF files[a][p] = NoFile THEN {} ELSE files[a][p].times IN
    /\ Change
    /\ \A u \in times : u < t
    /\ files' = [files EXCEPT ![a][p] = [times |-> times \cup {t}, closed |-> TRUE]]
    /\ seen' = seen \cup {[agent |-> a, path |-> p, time |-> t]}
    /\ UNCHANGED <<up, due>>

(* ... or one without a timestamp: the index ends at its last bucket.       *)
LineFollows(a, p) ==
    /\ Change
    /\ files[a][p] # NoFile /\ files[a][p].times # {} /\ files[a][p].closed
    /\ files' = [files EXCEPT ![a][p].closed = FALSE]
    /\ due' = {l \in due : handler.op = "list" \/ l.agent # a \/ l \in SureLines(a)'}
    /\ UNCHANGED <<up, seen>>

FileGoes(a, p) ==
    /\ Change
    /\ files[a][p] # NoFile
    /\ files' = [files EXCEPT ![a][p] = NoFile]
    /\ due' = {l \in due : l.agent # a \/ l.path # p}
    /\ UNCHANGED <<up, seen>>

AgentFails(a) ==
    /\ Change
    /\ a \in up
    /\ up' = up \ {a}
    /\ due' = {l \in due : l.agent # a}
    /\ UNCHANGED <<files, seen>>

AgentReturns(a) ==
    /\ Change
    /\ a \notin up
    /\ up' = up \cup {a}
    /\ UNCHANGED <<files, due, seen>>

-----------------------------------------------------------------------------
(* The handler.                                                             *)

(* Calls to agents go one by one in the order of the map: a coroutine that  *)
(* is spawned with use_awaitable starts when it is awaited.                 *)
NextAgent == CHOOSE a \in handler.todo : \A b \in handler.todo : a <= b

Handle(next) == handler' = next /\ UNCHANGED <<files, up, changes, seen>>

(* The handler takes a copy of what get_active_agents returns, which may be *)
(* any agents; without one it answers 503.                                  *)
Request(op, interval, active) ==
    LET h == [Idle EXCEPT !.op = op, !.start_time = interval[1], !.end_time = interval[2]]
        lines == IF op = "list" THEN UNION {LinesOf(a) : a \in active \cap up}
                 ELSE {l \in UNION {SureLines(a) : a \in active \cap up} :
                          Reached(l.time, interval[1])}
    IN
    /\ handler.pc = "idle"
    /\ handler' = IF active = {} THEN [h EXCEPT !.pc = "done", !.status = 503]
                  ELSE [h EXCEPT !.pc = "lists", !.todo = active]
    /\ due' = {l \in lines : interval[1] <= l.time /\ l.time <= interval[2]}
    /\ seen' = UNION {LinesOf(a) : a \in Agents}
    /\ UNCHANGED <<files, up, changes>>

(* The method, the prefix or the body is not what the handler wants.        *)
Refuse(op, interval, status) ==
    /\ handler.pc = "idle"
    /\ handler' = [Idle EXCEPT !.op = op, !.start_time = interval[1],
                               !.end_time = interval[2], !.pc = "done", !.status = status]
    /\ due' = {} /\ seen' = UNION {LinesOf(a) : a \in Agents}
    /\ UNCHANGED <<files, up, changes>>

Call ==
    /\ handler.pc \in {"lists", "searches"} /\ handler.todo # {} /\ ~handler.calling
    /\ Handle([handler EXCEPT !.calling = TRUE])
    /\ UNCHANGED due

(* Mistake: the client is taken to be still at its call.                    *)
EndedStillCalling(h) == [h EXCEPT !.todo = @ \ {NextAgent}]

Ended(h) == [h EXCEPT !.calling = FALSE, !.todo = @ \ {NextAgent}]

(* The times of the first and the last entry of an index: the bucket of the *)
(* first line, and the last line's time or, without its entry, its bucket.  *)
FirstEntry(file) == IF file.times = {} THEN 0 ELSE BucketOf(Least(file.times))
LastEntry(file) ==
    IF file.times = {} THEN 0
    ELSE IF file.closed THEN Greatest(file.times) ELSE BucketOf(Greatest(file.times))

(* AgentHandler::list: every file below the prefix with the times of its    *)
(* index; 404 for none adds nothing either.                                 *)
AgentList(a) ==
    {[agent |-> a, path |-> p, start_time |-> FirstEntry(files[a][p]),
      end_time |-> LastEntry(files[a][p])] : p \in Listed(a)}

(* Mistake: the answer replaces those of the agents before.                 *)
AnswerListAnew ==
    /\ handler.pc = "lists" /\ handler.calling /\ NextAgent \in up
    /\ Handle([Ended(handler) EXCEPT !.indexes = AgentList(NextAgent)])
    /\ UNCHANGED due

AnswerList ==
    /\ handler.pc = "lists" /\ handler.calling /\ NextAgent \in up
    /\ Handle([Ended(handler) EXCEPT !.indexes = @ \cup AgentList(NextAgent)])
    /\ UNCHANGED due

(* The paths an agent is asked to search.                                   *)
AskedPaths(a) == {x.path : x \in {y \in handler.indexes : y.agent = a}}

(* What the search of files may answer that looks for these lines: of those *)
(* of a file that its index leads to, it leaves one out if it has as many   *)
(* before as are asked for (it may still have later ones, which it held     *)
(* then), or if it ended before, at lines that are not sure to be read.     *)
Answers(a, found) ==
    {got \in SUBSET found :
        /\ \A l \in found \ got : Reached(l.time, handler.start_time) =>
              \/ Enough(got, l)
              \/ l \notin SureLines(a) /\ \A t \in TimesIn(got, a, l.path) : t < l.time
        /\ \A p \in Paths : Cardinality(TimesIn(got, a, p)) <= MostResults}

(* Mistake: the limit counts the records of all files together.             *)
AgentSearchLimited(a) ==
    LET found == {l \in LinesOf(a) : l.path \in AskedPaths(a) /\ InInterval(l.time)}
    IN {got \in SUBSET found :
           Cardinality(got) <= MostResults /\ (got = found \/ Cardinality(got) >= MaxResults)}

(* Mistake: the agent searches whole files.                                 *)
AgentSearchWhole(a) == Answers(a, {l \in LinesOf(a) : l.path \in AskedPaths(a)})

(* AgentHandler::search: lines of the interval in the files asked for that  *)
(* are still in the index.                                                  *)
AgentSearch(a) ==
    Answers(a, {l \in LinesOf(a) : l.path \in AskedPaths(a) /\ InInterval(l.time)})

AnswerSearch ==
    /\ handler.pc = "searches" /\ handler.calling /\ NextAgent \in up
    /\ \E got \in AgentSearch(NextAgent) : Handle([Ended(handler) EXCEPT !.records = @ \cup got])
    /\ UNCHANGED due

(* Mistake: the loop over the agents tries a failed one again.              *)
CallFailsAndRepeats ==
    /\ handler.calling /\ NextAgent \notin up
    /\ Handle([handler EXCEPT !.calling = FALSE])
    /\ UNCHANGED due

(* The client's attempts fail: the loop goes on with the next agent.        *)
CallFails ==
    /\ handler.calling /\ NextAgent \notin up
    /\ Handle(Ended(handler))
    /\ UNCHANGED due

(* All agents were asked for their files.                                   *)
EndList ==
    /\ handler.pc = "lists" /\ handler.op = "list" /\ handler.todo = {}
    /\ Handle([handler EXCEPT !.pc = "done",
                              !.status = IF handler.indexes = {} THEN 404 ELSE 200])
    /\ UNCHANGED due

(* Mistake: files that end at the start of the interval are left out.       *)
OutsideOrTouching(x) == x.end_time <= handler.start_time \/ x.start_time > handler.end_time

Outside(x) == x.end_time < handler.start_time \/ x.start_time > handler.end_time

(* ... for a search: files outside the interval go, and the agents of the   *)
(* others are asked; without any the answer is empty.                       *)
Filter ==
    LET kept == {x \in handler.indexes : ~Outside(x)} IN
    /\ handler.pc = "lists" /\ handler.op = "search" /\ handler.todo = {}
    /\ Handle(IF kept = {} THEN [handler EXCEPT !.pc = "done", !.status = 200, !.indexes = {}]
              ELSE [handler EXCEPT !.pc = "searches", !.indexes = kept,
                                   !.todo = {x.agent : x \in kept}])
    /\ UNCHANGED due

(* The records are merged, each with its agent.                             *)
EndSearch ==
    /\ handler.pc = "searches" /\ handler.todo = {}
    /\ Handle([handler EXCEPT !.pc = "done", !.status = 200])
    /\ UNCHANGED due

Respond ==
    /\ handler.pc = "done"
    /\ handler' = Idle /\ due' = {} /\ seen' = {}
    /\ UNCHANGED <<files, up, changes>>

-----------------------------------------------------------------------------
Handler ==
    \/ Call \/ AnswerList \/ AnswerSearch \/ CallFails
    \/ EndList \/ Filter \/ EndSearch \/ Respond

Environment ==
    \/ \E a \in Agents : AgentFails(a) \/ AgentReturns(a)
    \/ \E a \in Agents, p \in Paths : FileGoes(a, p) \/ LineFollows(a, p)
    \/ \E a \in Agents, p \in Paths, t \in Times : FileGrows(a, p, t)

Next ==
    \/ \E op \in {"list", "search"}, interval \in Intervals, active \in SUBSET Agents :
          Request(op, interval, active)
    \/ \E op \in {"list", "search"}, interval \in Intervals, status \in {400, 405} :
          Refuse(op, interval, status)
    \/ Handler \/ Environment

Spec == Init /\ [][Next]_vars

(* Every call ends, with an answer or by a time-out of the client.          *)
FairSpec == Spec /\ WF_vars(Handler)

-----------------------------------------------------------------------------
(* Properties.                                                              *)

(* A search finds every line of the interval that its file's index led to   *)
(* throughout, at an agent that was active when it began and answered       *)
(* throughout, or finds max_results lines of that file before it, whatever  *)
(* happened to other agents and files between the two rounds of calls.      *)
SearchIsComplete ==
    handler.pc = "done" /\ handler.op = "search" =>
        \A l \in due : l \in handler.records \/ Enough(handler.records, l)

(* A list names every file of these agents that stayed.                     *)
ListIsComplete ==
    handler.pc = "done" /\ handler.op = "list" =>
        \A l \in due : \E x \in handler.indexes : x.agent = l.agent /\ x.path = l.path

(* Nothing is answered but lines of the interval, from files the agent they *)
(* are attributed to had while the request was served.                      *)
SearchIsSound == \A l \in handler.records : l \in seen /\ InInterval(l.time)

(* The handler with its two rounds of calls is the service that answers in  *)
(* one step: what happens between its steps never shows in an answer.       *)
Phase == CASE handler.pc = "idle" -> "idle"
           [] handler.pc \in {"lists", "searches"} -> "waiting"
           [] handler.pc = "done" -> "answered"
Question == [op |-> handler.op, start_time |-> handler.start_time, end_time |-> handler.end_time]
Named == {[agent |-> x.agent, path |-> x.path] : x \in handler.indexes}
AnswerNow ==
    IF handler.pc = "done"
      THEN [status |-> handler.status, lines |-> handler.records,
            files |-> IF handler.op = "list" THEN Named ELSE {}]
      ELSE [status |-> 0, lines |-> {}, files |-> {}]

Service == INSTANCE SearchService WITH
    store <- [a \in Agents |-> LinesOf(a)],
    sure <- [a \in Agents |-> SureLines(a)], answering <- up, phase <- Phase,
    asked <- Question, owed <- due, offered <- seen, answer <- AnswerNow

IsService == Service!Spec

(* Every request is answered, even while agents are down.                   *)
RequestsEnd == (handler.pc # "idle") ~> (handler.pc = "idle")
==============================================================================
