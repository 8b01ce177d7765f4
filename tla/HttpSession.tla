----------------------------- MODULE HttpSession -----------------------------
(***************************************************************************)
(* The server's side of connections: request_session::run_session of       *)
(* src/libs/bst-http/request_session.hpp, one coroutine per connection on  *)
(* the threads of one io_context.  It reads a request from a stream that   *)
(* arrives in pieces, has it handled, writes the answer, and goes on.      *)
(*                                                                         *)
(* A request is a sequence of units <<number, part>>: two parts of header, *)
(* then two of body for the kinds that have one.  wire is what has arrived *)
(* at the socket, buffer what the session has read and not yet used.       *)
(***************************************************************************)
EXTENDS Integers, Sequences, FiniteSets

CONSTANTS
    Clients,       \* each has one connection
    Waiting,       \* clients that send a request when the last was answered
    Slow,          \* clients that may stop in the middle of anything
    KindsOf,       \* KindsOf[c]: the kinds of requests client c sends
    Threads,       \* threads of the server
    MaxRequests    \* bound on the requests of a client

Kinds == {"get", "close", "post", "expect", "large", "unread"}

ASSUME SessionAssumption ==
    /\ Waiting \subseteq Clients /\ Slow \subseteq Clients
    /\ KindsOf \in [Clients -> SUBSET Kinds]
    /\ Threads \in Nat \ {0} /\ MaxRequests \in Nat

VARIABLES
    kinds,      \* kinds[c]: the requests c began to send
    sending,    \* the rest of the last one, still with the client
    gone,       \* clients that closed their connection
    wire, buffer,
    session,    \* the coroutines
    expired,    \* the connections whose session_timeout is over
    handled,    \* handled[c]: what the handlers were given
    got         \* got[c]: the numbers of the requests answered, 0 for a 500

vars == <<kinds, sending, gone, wire, buffer, session, expired, handled, got>>

Numbers == 1..MaxRequests
Units == Numbers \X (1..4)

(* "close" asks for the end of the connection, "expect" for an answer 100   *)
(* before its body; "unread" is a GET with a body.                          *)
Size(kind) == CASE kind \in {"get", "close"} -> 2 [] kind = "unread" -> 3 [] OTHER -> 4
UnitsOf(i, kind) == [k \in 1..Size(kind) |-> <<i, k>>]

(* Sessions that use a thread while they wait for their client: for more of *)
(* a body above 5 MB, or for room to write an answer below 1 MB.            *)
Blocking == {"upload", "write"}

Sessions == [pc: {"header", "body", "upload", "handle", "write", "send", "error", "closed"},
             req: 0..MaxRequests, body: Seq(Units)]

NextRequest == [pc |-> "header", req |-> 0, body |-> << >>]
Closed == [NextRequest EXCEPT !.pc = "closed"]

(* No more than the body is taken for the body.                             *)
TypeOK ==
    /\ kinds \in [Clients -> Seq(Kinds)] /\ \A c \in Clients : Len(kinds[c]) <= MaxRequests
    /\ gone \subseteq Clients /\ expired \subseteq Clients
    /\ \A q \in {sending, wire, buffer} : q \in [Clients -> Seq(Units)]
    /\ session \in [Clients -> Sessions] /\ \A c \in Clients : Len(session[c].body) <= 2
    /\ handled \in [Clients -> Seq([req: Numbers, body: Seq(Units)])]
    /\ got \in [Clients -> Seq(0..MaxRequests)]

Init ==
    /\ kinds = [c \in Clients |-> << >>] /\ gone = {} /\ expired = {}
    /\ sending = kinds /\ wire = kinds /\ buffer = kinds /\ handled = kinds /\ got = kinds
    /\ session = [c \in Clients |-> NextRequest]

-----------------------------------------------------------------------------
(* The clients, and time.                                                   *)

IsOpen(c) == session[c].pc # "closed" /\ c \notin gone

Begin(c, kind) ==
    /\ IsOpen(c) /\ sending[c] = << >> /\ Len(kinds[c]) < MaxRequests
    /\ c \in Waiting => Len(got[c]) = Len(kinds[c])
    /\ kinds' = [kinds EXCEPT ![c] = Append(@, kind)]
    /\ sending' = [sending EXCEPT ![c] = UnitsOf(Len(kinds[c]) + 1, kind)]
    /\ UNCHANGED <<gone, wire, buffer, session, expired, handled, got>>

(* Mistake: the answer 100 is sent when the body was read.                  *)
ToldAfterBody(c) == session[c].pc = "handle" /\ session[c].req = Len(kinds[c])

(* The session answers 100 when it has the header.                          *)
Told(c) == session[c].pc = "body" /\ session[c].req = Len(kinds[c])

(* A piece arrives.                                                         *)
Send(c) ==
    /\ IsOpen(c) /\ sending[c] # << >>
    /\ kinds[c][Len(kinds[c])] = "expect" /\ Head(sending[c])[2] = 3 => Told(c)
    /\ sending' = [sending EXCEPT ![c] = Tail(@)]
    /\ wire' = [wire EXCEPT ![c] = Append(@, Head(sending[c]))]
    /\ UNCHANGED <<kinds, gone, buffer, session, expired, handled, got>>

Leave(c) ==
    /\ IsOpen(c)
    /\ gone' = gone \cup {c} /\ sending' = [sending EXCEPT ![c] = << >>]
    /\ UNCHANGED <<kinds, wire, buffer, session, expired, handled, got>>

(* session_timeout seconds after the connection began: the timer is set     *)
(* once, and never again.                                                   *)
Expire(c) ==
    /\ session[c].pc # "closed" /\ c \notin expired
    /\ expired' = expired \cup {c}
    /\ UNCHANGED <<kinds, sending, gone, wire, buffer, session, handled, got>>

-----------------------------------------------------------------------------
(* The session.                                                             *)

(* A thread that is not blocked can run c.                                  *)
Runs(c) == Cardinality({d \in Clients \ {c} : session[d].pc \in Blocking}) < Threads

(* Units the session reads as a body: of POST and PUT requests only.        *)
BodySize(kind) == IF kind \in {"post", "expect", "large"} THEN 2 ELSE 0

(* Mistake: the parser is taken to have used all it was given.              *)
TakenAll(kind, body, input) == Len(input)

(* parser.put uses what belongs to the body.                                *)
Taken(kind, body, input) ==
    LET missing == BodySize(kind) - Len(body)
    IN IF Len(input) < missing THEN Len(input) ELSE missing

(* Mistake: the rest of the body is read once.                              *)
AfterOneRead(kind, body) ==
    IF body # << >> \/ BodySize(kind) = 0 THEN "handle"
    ELSE IF kind = "large" THEN "upload" ELSE "body"

(* Where the session is when the body is as long as this.                   *)
After(kind, body) ==
    IF Len(body) >= BodySize(kind) THEN "handle"
    ELSE IF kind = "large" THEN "upload" ELSE "body"

(* The session parses input, of which the header is gone: what belongs to   *)
(* the body, while the rest stays in the buffer.                            *)
Parse(c, i, body, input) ==
    LET kind == kinds[c][i]
        n == Taken(kind, body, input)
        longer == body \o SubSeq(input, 1, n)
    IN
    /\ session' = [session EXCEPT ![c] =
                      [pc |-> After(kind, longer), req |-> i, body |-> longer]]
    /\ buffer' = [buffer EXCEPT ![c] = SubSeq(input, n + 1, Len(input))]
    /\ wire' = [wire EXCEPT ![c] = << >>]
    /\ UNCHANGED <<kinds, sending, gone, expired, handled, got>>

Close(c) ==
    /\ session' = [session EXCEPT ![c] = Closed]
    /\ sending' = [sending EXCEPT ![c] = << >>] /\ wire' = [wire EXCEPT ![c] = << >>]
    /\ buffer' = [buffer EXCEPT ![c] = << >>]
    /\ UNCHANGED <<kinds, gone, expired, handled>>

Fail(c) ==
    /\ session' = [session EXCEPT ![c] = [NextRequest EXCEPT !.pc = "error"]]
    /\ UNCHANGED <<kinds, sending, gone, wire, buffer, expired, handled, got>>

(* The read ends when it has a header, with all that arrived until then,    *)
(* and the parser gets the part of the body that came along.                *)
ReadHeader(c) ==
    /\ Runs(c) /\ session[c].pc = "header"
    /\ Len(wire[c]) >= 2 /\ wire[c][1][2] = 1
    /\ Parse(c, wire[c][1][1], << >>, SubSeq(wire[c], 3, Len(wire[c])))

(* What is no beginning of a header is an error, as is a body that the      *)
(* parser or the check of its length refuses (these are left out).          *)
ReadGarbage(c) ==
    /\ Runs(c) /\ session[c].pc = "header"
    /\ wire[c] # << >> /\ wire[c][1][2] # 1
    /\ Fail(c)

ReadBody(c) ==
    /\ Runs(c) /\ session[c].pc \in {"body", "upload"}
    /\ wire[c] # << >>
    /\ Parse(c, session[c].req, session[c].body, wire[c])

(* The connection ends before the request does.  (After a part of a header  *)
(* the session writes a 500 that nobody reads.)                             *)
ReadEnd(c) ==
    /\ Runs(c) /\ c \in gone
    /\ \/ session[c].pc = "header" /\ Len(wire[c]) < 2
       \/ session[c].pc \in {"body", "upload"} /\ wire[c] = << >>
    /\ Close(c) /\ UNCHANGED got

(* The handler has made the answer, which is below 1 MB or not.             *)
Handle(c) ==
    /\ Runs(c) /\ session[c].pc = "handle"
    /\ \E pc \in {"write", "send"} : session' = [session EXCEPT ![c].pc = pc]
    /\ handled' = [handled EXCEPT ![c] =
                      Append(@, [req |-> session[c].req, body |-> session[c].body])]
    /\ UNCHANGED <<kinds, sending, gone, wire, buffer, expired, got>>

Receive(c, number) == got' = IF c \in gone THEN got ELSE [got EXCEPT ![c] = Append(@, number)]

(* Mistake: the session's time begins anew with each answer.                *)
RespondAndRenew(c) ==
    /\ Runs(c) /\ session[c].pc \in {"write", "send"}
    /\ Receive(c, session[c].req)
    /\ session' = [session EXCEPT ![c] = NextRequest]
    /\ buffer' = [buffer EXCEPT ![c] = << >>] /\ expired' = expired \ {c}
    /\ UNCHANGED <<kinds, sending, gone, wire, handled>>

(* The client takes the answer, and the session empties its buffer before   *)
(* it reads on: what it has read of a next request is lost.                 *)
Respond(c) ==
    /\ Runs(c) /\ session[c].pc \in {"write", "send"}
    /\ Receive(c, session[c].req)
    /\ IF kinds[c][session[c].req] = "close" THEN Close(c)
       ELSE /\ session' = [session EXCEPT ![c] = NextRequest]
            /\ buffer' = [buffer EXCEPT ![c] = << >>]
            /\ UNCHANGED <<kinds, sending, gone, wire, expired, handled>>

(* An answer to a client that is gone may be an error or go unnoticed.      *)
RespondFails(c) ==
    /\ Runs(c) /\ session[c].pc \in {"write", "send"} /\ c \in gone
    /\ Close(c) /\ UNCHANGED got

(* Mistake: the session goes on after an error.                             *)
ReportAndContinue(c) ==
    /\ Runs(c) /\ session[c].pc = "error"
    /\ Receive(c, 0)
    /\ session' = [session EXCEPT ![c] = NextRequest]
    /\ wire' = [wire EXCEPT ![c] = << >>] /\ buffer' = [buffer EXCEPT ![c] = << >>]
    /\ UNCHANGED <<kinds, sending, gone, expired, handled>>

Report(c) ==
    /\ Runs(c) /\ session[c].pc = "error"
    /\ Receive(c, 0)
    /\ Close(c)

(* The time-out ends asynchronous reads and writes, and nothing else.       *)
TimesOut(c) ==
    /\ Runs(c) /\ session[c].pc \in {"header", "body", "send", "error"} /\ c \in expired
    /\ Close(c) /\ UNCHANGED got

-----------------------------------------------------------------------------
Session(c) ==
    \/ ReadHeader(c) \/ ReadGarbage(c) \/ ReadBody(c) \/ ReadEnd(c)
    \/ Handle(c) \/ RespondFails(c) \/ Report(c) \/ TimesOut(c)

Client(c) == (\E kind \in KindsOf[c] : Begin(c, kind)) \/ Leave(c) \/ Expire(c)

Next == \E c \in Clients : Session(c) \/ Respond(c) \/ Send(c) \/ Client(c)

Spec == Init /\ [][Next]_vars

(* A coroutine that can go on gets a thread that is free.  A client that is *)
(* not slow sends what it began and takes its answers.                      *)
FairSpec ==
    /\ Spec
    /\ \A c \in Clients : WF_vars(Session(c))
    /\ \A c \in Clients \ Slow : WF_vars(Respond(c)) /\ WF_vars(Send(c))

-----------------------------------------------------------------------------
(* Properties.                                                              *)

(* However the stream is cut, and whatever was lost of it, a handler gets   *)
(* a request with its own body, all of it, and each request at most once.   *)
HandledAreWhole ==
    \A c \in Clients : \A i \in DOMAIN handled[c] :
        LET h == handled[c][i]
            size == IF kinds[c][h.req] \in {"post", "expect", "large"} THEN 2 ELSE 0
        IN
        /\ h.body = [k \in 1..size |-> <<h.req, k + 2>>]
        /\ i > 1 => handled[c][i - 1].req < h.req

(* Answers come in the order of the requests, also to a client that did not *)
(* wait, and none comes after an error.                                     *)
AnswersInOrder ==
    \A c \in Clients : \A i, j \in DOMAIN got[c] :
        i < j => got[c][i] # 0 /\ (got[c][j] = 0 \/ got[c][i] < got[c][j])

(* A client that waits for its answers and sends what the server supports   *)
(* gets the answer to each request, and loses its connection only at the    *)
(* end of the session's time, or as it asked.                               *)
WaitingAreServed ==
    \A c \in Waiting :
        (\A i \in DOMAIN kinds[c] : kinds[c][i] # "unread") =>
            /\ \A i \in DOMAIN got[c] : got[c][i] = i
            /\ session[c].pc = "closed" =>
                   \/ c \in gone \cup expired
                   \/ kinds[c][Len(kinds[c])] = "close" /\ Len(got[c]) = Len(kinds[c])

(* Slow clients that hold all threads but one do not keep another client    *)
(* from its answer.                                                         *)
Unanswered(c) == Len(got[c]) < Len(kinds[c]) /\ session[c].pc # "closed"
RequestsEnd == \A c \in Waiting \ Slow : Unanswered(c) ~> ~Unanswered(c)

(* No session goes on for ever after its time, except a slow client's.      *)
SessionsEnd == \A c \in Clients \ Slow : (c \in expired) ~> (session[c].pc = "closed")
==============================================================================
