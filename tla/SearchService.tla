---------------------------- MODULE SearchService ----------------------------
(***************************************************************************)
(* What a gateway promises of a list or search request, without its rounds *)
(* of calls: the answer is given in one step.  Of each file it has every   *)
(* line that was asked for and that an active agent, answering throughout, *)
(* could be sure to find from the request on, or as many lines before it   *)
(* as were asked for; and no line that no agent held meanwhile.            *)
(* GatewaySearch implements this service.                                  *)
(***************************************************************************)
EXTENDS Integers, FiniteSets

CONSTANTS
    Agents, Paths, Times,
    Intervals,   \* the intervals asked for: <<start_time, end_time>>
    IntervalSeconds, Crowded,  \* the buckets of the times, and those found from their start only
    MaxResults,  \* the lines of a file that are asked for
    MostResults  \* the most that are answered

VARIABLES
    store,       \* store[a]: the lines agent a holds
    sure,        \* sure[a]: those of them that a search of agent a is sure to find
    answering,   \* the agents that answer
    phase,       \* the client's request: "idle", "waiting" or "answered"
    asked,       \* what is asked for: op, start_time, end_time
    owed,        \* the lines the answer must have
    offered,     \* the lines it may have
    answer       \* [status, lines, files]

vars == <<store, sure, answering, phase, asked, owed, offered, answer>>

Lines == [agent: Agents, path: Paths, time: Times]

NoQuestion == [op |-> "list", start_time |-> 0, end_time |-> 0]
NoAnswer == [status |-> 0, lines |-> {}, files |-> {}]

Within(l, question) == question.start_time <= l.time /\ l.time <= question.end_time
BucketOf(t) == t - (t % IntervalSeconds)
Reached(l, question) ==
    BucketOf(l.time) \notin Crowded \/ question.start_time <= BucketOf(l.time)

(* Of lines S, the times of those of a file, and whether these before l are *)
(* as many as were asked for.                                               *)
TimesIn(S, a, p) == {t \in Times : [agent |-> a, path |-> p, time |-> t] \in S}
Enough(S, l) == Cardinality({t \in TimesIn(S, l.agent, l.path) : t < l.time}) >= MaxResults

FileOf(l) == [agent |-> l.agent, path |-> l.path]
Answers == [status: {200, 404}, lines: SUBSET Lines, files: SUBSET [agent: Agents, path: Paths]]

Init ==
    /\ store \in [Agents -> SUBSET Lines]
    /\ sure \in [Agents -> SUBSET Lines] /\ \A a \in Agents : sure[a] \subseteq store[a]
    /\ answering = Agents
    /\ phase = "idle" /\ asked = NoQuestion
    /\ owed = {} /\ offered = {} /\ answer = NoAnswer

(* A line that is new is offered; one that is gone, or whose agent failed,  *)
(* is owed no more, nor by a search one that it may not find any more.      *)
Gain(a, l) ==
    /\ store' = [store EXCEPT ![a] = @ \cup {l}]
    /\ \E more \in SUBSET store'[a] : sure' = [sure EXCEPT ![a] = @ \cup more]
    /\ offered' = offered \cup {l}
    /\ UNCHANGED <<answering, phase, asked, owed, answer>>

Doubt(a) ==
    /\ \E rest \in SUBSET sure[a] :
          /\ sure' = [sure EXCEPT ![a] = rest]
          /\ owed' = {l \in owed : asked.op = "list" \/ l.agent # a \/ l \in rest}
    /\ UNCHANGED <<store, answering, phase, asked, offered, answer>>

Lose(a, p) ==
    /\ store' = [store EXCEPT ![a] = {l \in @ : l.path # p}]
    /\ sure' = [sure EXCEPT ![a] = {l \in @ : l.path # p}]
    /\ owed' = {l \in owed : l.agent # a \/ l.path # p}
    /\ UNCHANGED <<answering, phase, asked, offered, answer>>

Fail(a) ==
    /\ answering' = answering \ {a}
    /\ owed' = {l \in owed : l.agent # a}
    /\ UNCHANGED <<store, sure, phase, asked, offered, answer>>

Return(a) ==
    /\ answering' = answering \cup {a}
    /\ UNCHANGED <<store, sure, phase, asked, owed, offered, answer>>

Ask(question, active) ==
    /\ phase = "idle" /\ phase' = "waiting"
    /\ asked' = question
    /\ LET lines == IF question.op = "list" THEN UNION {store[a] : a \in active \cap answering}
                    ELSE {l \in UNION {sure[a] : a \in active \cap answering} :
                             Reached(l, question)}
       IN owed' = {l \in lines : Within(l, question)}
    /\ offered' = UNION {store[a] : a \in Agents}
    /\ UNCHANGED <<store, sure, answering, answer>>

(* A search is answered with lines of those offered: all that are owed, but *)
(* of no file more than the most, and then after those asked for.           *)
GoodSearch(given) ==
    /\ given.status = 200 /\ given.files = {}
    /\ \A l \in owed : l \in given.lines \/ Enough(given.lines, l)
    /\ \A a \in Agents, p \in Paths : Cardinality(TimesIn(given.lines, a, p)) <= MostResults
    /\ \A l \in given.lines : l \in offered /\ Within(l, asked)

(* A list is answered with files, among them those of owed lines; without   *)
(* any, with 404.                                                           *)
GoodList(given) ==
    /\ given.status = (IF given.files = {} THEN 404 ELSE 200) /\ given.lines = {}
    /\ {FileOf(l) : l \in owed} \subseteq given.files

Answer ==
    /\ phase = "waiting" /\ phase' = "answered"
    /\ answer' \in Answers
    /\ asked.op = "search" => GoodSearch(answer')
    /\ asked.op = "list" => GoodList(answer')
    /\ UNCHANGED <<store, sure, answering, asked, owed, offered>>

(* The request is refused at once: without an active agent, or a bad one.   *)
Refuse(question, status) ==
    /\ phase = "idle" /\ phase' = "answered"
    /\ asked' = question /\ answer' = [NoAnswer EXCEPT !.status = status]
    /\ owed' = {} /\ offered' = UNION {store[a] : a \in Agents}
    /\ UNCHANGED <<store, sure, answering>>

Take ==
    /\ phase = "answered" /\ phase' = "idle"
    /\ asked' = NoQuestion /\ owed' = {} /\ offered' = {} /\ answer' = NoAnswer
    /\ UNCHANGED <<store, sure, answering>>

QuestionOf(op, interval) == [op |-> op, start_time |-> interval[1], end_time |-> interval[2]]

World ==
    \/ \E a \in Agents : Fail(a) \/ Return(a) \/ Doubt(a)
    \/ \E a \in Agents, l \in Lines : l.agent = a /\ Gain(a, l)
    \/ \E a \in Agents, p \in Paths : Lose(a, p)

Next ==
    \/ \E op \in {"list", "search"}, interval \in Intervals :
          \/ \E active \in SUBSET Agents : Ask(QuestionOf(op, interval), active)
          \/ \E status \in {400, 405, 503} : Refuse(QuestionOf(op, interval), status)
    \/ Answer \/ Take \/ World

Spec == Init /\ [][Next]_vars
==============================================================================
