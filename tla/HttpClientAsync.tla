--------------------------- MODULE HttpClientAsync ---------------------------
(***************************************************************************)
(* The gateway's HTTP client (libs/bst-http/http_client_async.hpp): every  *)
(* request to an agent takes a kept-alive connection from the pool of the  *)
(* process or makes one, writes, reads and gives it back, and is retried   *)
(* when that fails; with agents that end and start again, close idle       *)
(* connections, answer late, answer much, or answer with a redirection.    *)
(***************************************************************************)
EXTENDS Integers, Sequences

CONSTANTS
    Requests,      \* the coroutines that call the client
    Hosts,         \* host:port of the agents
    Connections,   \* identities of the connections
    Free, NoHost,  \* no request on a connection, no host
    MaxRetries, MaxRedirects, MaxIdle,
    ParserLimit,   \* body limit of the parser async_read makes for a message
    MaxSize,       \* bound on the size of an answer
    MaxFaults      \* bound on ends of agents, closed idle connections and redirections

ASSUME ClientAssumption ==
    /\ MaxRetries \in Nat /\ MaxRedirects \in Nat /\ MaxIdle \in Nat
    /\ ParserLimit \in Nat /\ MaxSize \in Nat /\ MaxFaults \in Nat
    /\ Free \notin Requests /\ Free \notin Connections /\ NoHost \notin Hosts

VARIABLES
    request,   \* request[r]: the coroutine request_impl and its recursive calls
    conn,      \* conn[c]: both ends of a connection and what is under way on it
    pool,      \* pool[h]: the deque of idle connections
    running,   \* the agents that run
    sent,      \* sent[r]: how often r was sent since it began
    faults

vars == <<request, conn, pool, running, sent, faults>>

Results == {"none", "answered", "bad_url", "too_many_redirects", "failed", "too_large"}

(* asked: the request the agent has got; answer: the request it answered.   *)
Unused == [host |-> NoHost, open |-> FALSE, agent |-> FALSE, asked |-> Free,
           answer |-> Free, size |-> 0]

NoRequest == [pc |-> "idle", host |-> NoHost, conn |-> Free, retry |-> 0, redirect |-> 0,
              answer |-> Free, result |-> "none"]

TypeOK ==
    /\ request \in [Requests ->
         [pc: {"idle", "get", "connect", "write", "read", "put", "done"},
          host: Hosts \cup {NoHost}, conn: Connections \cup {Free},
          retry: 0..MaxRetries + 1, redirect: 0..MaxRedirects + 1,
          answer: Requests \cup {Free}, result: Results]]
    /\ conn \in [Connections ->
         [host: Hosts \cup {NoHost}, open: BOOLEAN, agent: BOOLEAN,
          asked: Requests \cup {Free}, answer: Requests \cup {Free}, size: 0..MaxSize]]
    /\ pool \in [Hosts -> Seq(Connections)]
    /\ running \subseteq Hosts
    /\ faults \in 0..MaxFaults

Init ==
    /\ request = [r \in Requests |-> NoRequest]
    /\ conn = [c \in Connections |-> Unused]
    /\ pool = [h \in Hosts |-> << >>]
    /\ running = Hosts /\ sent = [r \in Requests |-> 0] /\ faults = 0

At(r, pc) == request[r].pc = pc

-----------------------------------------------------------------------------
(* The client.                                                              *)

Begin(r, h) ==
    /\ At(r, "idle")
    /\ request' = [request EXCEPT ![r] = [NoRequest EXCEPT !.pc = "get", !.host = h]]
    /\ sent' = [sent EXCEPT ![r] = 0]
    /\ UNCHANGED <<conn, pool, running, faults>>

Finished(q, result) == [q EXCEPT !.pc = "done", !.result = result, !.conn = Free]

(* Mistake: the attempt is not counted.                                     *)
RetriedUncounted(q) == [q EXCEPT !.pc = "get", !.conn = Free]

Retried(q) == [q EXCEPT !.pc = "get", !.retry = @ + 1, !.conn = Free]

(* shutdown_and_close; what the agent still does for it goes nowhere.       *)
Closed(c) == [conn EXCEPT ![c] = Unused]

(* Too many attempts or redirections, or an address that is none.           *)
GiveUp(r) ==
    /\ At(r, "get")
    /\ \/ /\ request[r].redirect > MaxRedirects
          /\ request' = [request EXCEPT ![r] = Finished(@, "too_many_redirects")]
       \/ /\ request[r].redirect <= MaxRedirects /\ request[r].retry > MaxRetries
          /\ request' = [request EXCEPT ![r] = Finished(@, "failed")]
       \/ /\ request[r].redirect <= MaxRedirects /\ request[r].retry <= MaxRetries
          /\ request[r].host = NoHost
          /\ request' = [request EXCEPT ![r] = Finished(@, "bad_url")]
    /\ UNCHANGED <<conn, pool, running, sent, faults>>

(* Mistake: one attempt more than there may be.                             *)
TriesOnceMore(r) ==
    /\ request[r].redirect <= MaxRedirects /\ request[r].retry <= MaxRetries + 1
    /\ request[r].host # NoHost

Tries(r) ==
    /\ request[r].redirect <= MaxRedirects /\ request[r].retry <= MaxRetries
    /\ request[r].host # NoHost

(* Mistake: the connection stays in the deque.                              *)
GetWithoutPop(r) ==
    LET h == request[r].host IN
    /\ At(r, "get") /\ Tries(r)
    /\ request' = [request EXCEPT ![r].pc = IF pool[h] = << >> THEN "connect" ELSE "write",
                                  ![r].conn = IF pool[h] = << >> THEN Free ELSE Head(pool[h])]
    /\ UNCHANGED <<conn, pool, running, sent, faults>>

(* async_get: the connection that has been idle longest, whose socket is    *)
(* open on this side; whether the agent has closed it is not looked at.     *)
Get(r) ==
    LET h == request[r].host IN
    /\ At(r, "get") /\ Tries(r)
    /\ request' = [request EXCEPT ![r].pc = IF pool[h] = << >> THEN "connect" ELSE "write",
                                  ![r].conn = IF pool[h] = << >> THEN Free ELSE Head(pool[h])]
    /\ pool' = [pool EXCEPT ![h] = IF @ = << >> THEN @ ELSE Tail(@)]
    /\ UNCHANGED <<conn, running, sent, faults>>

(* create_new_connection                                                    *)
Connect(r, c) ==
    /\ At(r, "connect") /\ request[r].host \in running
    /\ ~conn[c].open
    /\ conn' = [conn EXCEPT ![c] = [Unused EXCEPT !.host = request[r].host,
                                                  !.open = TRUE, !.agent = TRUE]]
    /\ request' = [request EXCEPT ![r].pc = "write", ![r].conn = c]
    /\ UNCHANGED <<pool, running, sent, faults>>

(* Mistake: a refused connection is tried again without being counted.      *)
RefusedUncounted(r) ==
    /\ At(r, "connect") /\ request[r].host \notin running
    /\ request' = [request EXCEPT ![r].pc = "get"]
    /\ UNCHANGED <<conn, pool, running, sent, faults>>

Refused(r) ==
    /\ At(r, "connect") /\ request[r].host \notin running
    /\ request' = [request EXCEPT ![r] = Retried(@)]
    /\ UNCHANGED <<conn, pool, running, sent, faults>>

Write(r) ==
    LET c == request[r].conn IN
    /\ At(r, "write") /\ conn[c].agent
    /\ conn' = [conn EXCEPT ![c].asked = r]
    /\ request' = [request EXCEPT ![r].pc = "read"]
    /\ sent' = [sent EXCEPT ![r] = @ + 1]
    /\ UNCHANGED <<pool, running, faults>>

(* max_request_size_                                                        *)
WriteTooLarge(r) ==
    /\ At(r, "write")
    /\ conn' = Closed(request[r].conn)
    /\ request' = [request EXCEPT ![r] = Finished(@, "too_large")]
    /\ UNCHANGED <<pool, running, sent, faults>>

(* The agent's end of the connection is gone: writing or reading fails.     *)
Breaks(r) ==
    LET c == request[r].conn IN
    /\ At(r, "write") \/ At(r, "read")
    /\ ~conn[c].agent /\ conn[c].answer = Free
    /\ conn' = Closed(c)
    /\ request' = [request EXCEPT ![r] = Retried(@)]
    /\ UNCHANGED <<pool, running, sent, faults>>

(* Mistake: the connection is given back although its answer is to come.    *)
TimesOutAndReturns(r) ==
    LET c == request[r].conn IN
    /\ At(r, "read") /\ conn[c].answer = Free
    /\ pool' = [pool EXCEPT ![conn[c].host] = Append(@, c)]
    /\ request' = [request EXCEPT ![r] = Retried(@)]
    /\ UNCHANGED <<conn, running, sent, faults>>

(* response_timeout_                                                        *)
TimesOut(r) ==
    LET c == request[r].conn IN
    /\ At(r, "read") /\ conn[c].answer = Free
    /\ conn' = Closed(c)
    /\ request' = [request EXCEPT ![r] = Retried(@)]
    /\ UNCHANGED <<pool, running, sent, faults>>

(* The answer is larger than the parser of async_read takes: it is given a  *)
(* message, and makes a parser with the default limit of its own.           *)
AnswerTooLarge(r) ==
    LET c == request[r].conn IN
    /\ At(r, "read") /\ conn[c].answer # Free /\ conn[c].size > ParserLimit
    /\ conn' = Closed(c)
    /\ request' = [request EXCEPT ![r] = Retried(@)]
    /\ UNCHANGED <<pool, running, sent, faults>>

Read(r) ==
    LET c == request[r].conn IN
    /\ At(r, "read") /\ conn[c].answer # Free /\ conn[c].size <= ParserLimit
    /\ request' = [request EXCEPT ![r].pc = "put", ![r].answer = conn[c].answer]
    /\ conn' = [conn EXCEPT ![c].asked = Free, ![c].answer = Free, ![c].size = 0]
    /\ UNCHANGED <<pool, running, sent, faults>>

Fault == faults < MaxFaults /\ faults' = faults + 1

(* An answer that sends the client elsewhere, where it starts to count its  *)
(* attempts anew.                                                           *)
ReadRedirect(r, h) ==
    LET c == request[r].conn IN
    /\ At(r, "read") /\ conn[c].answer # Free /\ conn[c].size <= ParserLimit /\ Fault
    /\ conn' = Closed(c)
    /\ request' = [request EXCEPT ![r].pc = "get", ![r].host = h, ![r].conn = Free,
                                  ![r].retry = 0, ![r].redirect = @ + 1]
    /\ UNCHANGED <<pool, running, sent>>

(* async_put                                                                *)
Put(r) ==
    LET c == request[r].conn
        room == Len(pool[conn[c].host]) < MaxIdle
    IN
    /\ At(r, "put")
    /\ pool' = IF room THEN [pool EXCEPT ![conn[c].host] = Append(@, c)] ELSE pool
    /\ conn' = IF room THEN conn ELSE Closed(c)
    /\ request' = [request EXCEPT ![r] = Finished(@, "answered")]
    /\ UNCHANGED <<running, sent, faults>>

Return(r) ==
    /\ At(r, "done")
    /\ request' = [request EXCEPT ![r] = NoRequest]
    /\ UNCHANGED <<conn, pool, running, sent, faults>>

-----------------------------------------------------------------------------
(* The agents.                                                              *)

Answer(c, size) ==
    /\ conn[c].agent /\ conn[c].asked # Free /\ conn[c].answer = Free
    /\ conn' = [conn EXCEPT ![c].answer = conn[c].asked, ![c].size = size]
    /\ UNCHANGED <<request, pool, running, sent, faults>>

(* The session time-out of the agent closes an idle connection.             *)
SessionExpires(c) ==
    /\ conn[c].agent /\ conn[c].asked = Free /\ Fault
    /\ conn' = [conn EXCEPT ![c].agent = FALSE]
    /\ UNCHANGED <<request, pool, running, sent>>

AgentEnds(h) ==
    /\ h \in running /\ Fault
    /\ running' = running \ {h}
    /\ conn' = [c \in Connections |->
                  IF conn[c].host = h THEN [conn[c] EXCEPT !.agent = FALSE] ELSE conn[c]]
    /\ UNCHANGED <<request, pool, sent>>

AgentStarts(h) ==
    /\ h \notin running
    /\ running' = running \cup {h}
    /\ UNCHANGED <<request, conn, pool, sent, faults>>

-----------------------------------------------------------------------------
Client(r) ==
    \/ GiveUp(r) \/ Get(r) \/ Refused(r) \/ Write(r) \/ WriteTooLarge(r) \/ Breaks(r)
    \/ TimesOut(r) \/ AnswerTooLarge(r) \/ Read(r) \/ Put(r)
    \/ \E c \in Connections : Connect(r, c)
    \/ \E h \in Hosts \cup {NoHost} : ReadRedirect(r, h)

Agent ==
    \/ \E c \in Connections : SessionExpires(c) \/ \E s \in 1..MaxSize : Answer(c, s)
    \/ \E h \in Hosts : AgentEnds(h) \/ AgentStarts(h)

Next ==
    \/ \E r \in Requests : Client(r) \/ Return(r) \/ \E h \in Hosts : Begin(r, h)
    \/ Agent

Spec == Init /\ [][Next]_vars

(* A coroutine whose operation has ended, if by its timer, is resumed.      *)
FairSpec == Spec /\ \A r \in Requests : WF_vars(Client(r))

-----------------------------------------------------------------------------
(* Properties.                                                              *)

Holds(r, c) == request[r].conn = c

(* A connection that is open here has one holder: one request, or one place *)
(* in the pool of its host.  None leaks on a path that fails, none is used  *)
(* by two coroutines.                                                       *)
OneHolder ==
    \A c \in Connections :
        /\ \A r, q \in Requests : Holds(r, c) /\ Holds(q, c) => r = q
        /\ \A h, g \in Hosts : \A i \in DOMAIN pool[h], j \in DOMAIN pool[g] :
              pool[h][i] = c /\ pool[g][j] = c => h = g /\ i = j /\ conn[c].host = h
        /\ LET pooled == \E h \in Hosts : \E i \in DOMAIN pool[h] : pool[h][i] = c
               held == \E r \in Requests : Holds(r, c)
           IN /\ conn[c].open <=> (pooled \/ held)
              /\ ~(pooled /\ held)

(* An idle connection has no answer to come: no request can read the answer *)
(* to another one, not even one that timed out on the same connection.      *)
OwnAnswer ==
    /\ \A r \in Requests : request[r].result = "answered" => request[r].answer = r
    /\ \A h \in Hosts : \A i \in DOMAIN pool[h] :
          conn[pool[h][i]].asked = Free /\ conn[pool[h][i]].answer = Free

(* A request, which need not be idempotent, reaches agents no more often    *)
(* than the attempts and redirections allow.                                *)
SendsAreBounded ==
    \A r \in Requests : sent[r] <= (MaxRetries + 1) * (MaxRedirects + 1)

(* Every request ends, whatever the agents do.                              *)
RequestsEnd == \A r \in Requests : At(r, "get") ~> At(r, "done")
==============================================================================
