----------------------- MODULE HttpClientAsyncProofs -----------------------
(***************************************************************************)
(* Proofs about HttpClientAsync for any requests, hosts, connections and   *)
(* bounds: types, who holds a connection, whose answer is read, and how    *)
(* often a request is sent.                                                *)
(***************************************************************************)
EXTENDS HttpClientAsync, SequenceTheorems, TLAPS

RequestRecords ==
    [pc: {"idle", "get", "connect", "write", "read", "put", "done"},
     host: Hosts \cup {NoHost}, conn: Connections \cup {Free},
     retry: 0..MaxRetries + 1, redirect: 0..MaxRedirects + 1,
     answer: Requests \cup {Free}, result: Results]

ConnRecords ==
    [host: Hosts \cup {NoHost}, open: BOOLEAN, agent: BOOLEAN,
     asked: Requests \cup {Free}, answer: Requests \cup {Free}, size: 0..MaxSize]

-----------------------------------------------------------------------------
(* The invariant.                                                           *)

Working == {"write", "read", "put"}

(* The attempt that was sent counts although it did not fail.               *)
Used(q) == IF q.pc \in {"read", "put"} \/ q.result = "answered" THEN 1 ELSE 0
Total == (MaxRetries + 1) * (MaxRedirects + 1)

(* A request has a connection while it works on one, and an attempt and a   *)
(* host from its connecting on.                                             *)
Attempt(q) ==
    /\ q.pc \in Working => q.conn \in Connections
    /\ q.pc \notin Working => q.conn = Free
    /\ q.pc \in Working \cup {"connect"} =>
          q.retry <= MaxRetries /\ q.redirect <= MaxRedirects /\ q.host \in Hosts

OwnResult(r, q) == q.pc = "put" \/ q.result = "answered" => q.answer = r

(* n: how often it was sent.                                                *)
Counted(q, n) ==
    /\ n \in Nat /\ n <= Total
    /\ q.pc # "idle" => n <= q.redirect * (MaxRetries + 1) + q.retry + Used(q)
    /\ q.retry + Used(q) <= MaxRetries + 1
    /\ q.redirect > MaxRedirects => q.retry + Used(q) = 0
    /\ q.result = "answered" => q.pc = "done"

Local(r, q, n) == q \in RequestRecords /\ Attempt(q) /\ OwnResult(r, q) /\ Counted(q, n)

RequestInv ==
    /\ request \in [Requests -> RequestRecords] /\ sent \in [Requests -> Nat]
    /\ \A r \in Requests : Local(r, request[r], sent[r])

(* What a request holds is open here, nobody else's, and carries nothing    *)
(* but this request and the answer to it.                                   *)
HeldInv ==
    \A r \in Requests : request[r].conn # Free =>
        /\ conn[request[r].conn].open /\ conn[request[r].conn].host \in Hosts
        /\ conn[request[r].conn].asked \in {Free, r}
        /\ conn[request[r].conn].answer \in {Free, r}
        /\ request[r].pc # "read" => /\ conn[request[r].conn].asked = Free
                                     /\ conn[request[r].conn].answer = Free
        /\ \A q \in Requests : request[q].conn = request[r].conn => q = r

(* What is idle is open here, at its host's place only, and carries nothing.*)
PooledInv ==
    \A h \in Hosts : \A i \in DOMAIN pool[h] :
        /\ conn[pool[h][i]].open /\ conn[pool[h][i]].host = h
        /\ conn[pool[h][i]].asked = Free /\ conn[pool[h][i]].answer = Free
        /\ \A r \in Requests : request[r].conn # pool[h][i]
        /\ \A j \in DOMAIN pool[h] : pool[h][j] = pool[h][i] => j = i

Pooled(c) == \E h \in Hosts : \E i \in DOMAIN pool[h] : pool[h][i] = c
Held(c) == \E r \in Requests : request[r].conn = c

OpenInv == \A c \in Connections : conn[c].open => Pooled(c) \/ Held(c)

OthersInv ==
    /\ conn \in [Connections -> ConnRecords] /\ pool \in [Hosts -> Seq(Connections)]
    /\ running \subseteq Hosts /\ faults \in 0..MaxFaults

ConnectionInv == HeldInv /\ PooledInv /\ OpenInv

IInv == RequestInv /\ OthersInv /\ ConnectionInv

-----------------------------------------------------------------------------
(* What the invariant is for.                                               *)

LEMMA TypeFromIInv == IInv => TypeOK
BY DEF IInv, RequestInv, OthersInv, TypeOK, RequestRecords, ConnRecords

LEMMA SendsFromIInv == IInv => SendsAreBounded
BY DEF IInv, RequestInv, Local, Counted, Total, SendsAreBounded

LEMMA AnswerFromIInv == IInv => OwnAnswer
BY DEF IInv, RequestInv, Local, OwnResult, ConnectionInv, PooledInv, OwnAnswer

LEMMA HolderFromIInv == IInv => OneHolder
<1> SUFFICES ASSUME IInv, NEW c \in Connections
             PROVE  /\ \A r, q \in Requests : Holds(r, c) /\ Holds(q, c) => r = q
                    /\ \A h, g \in Hosts : \A i \in DOMAIN pool[h], j \in DOMAIN pool[g] :
                          pool[h][i] = c /\ pool[g][j] = c =>
                             h = g /\ i = j /\ conn[c].host = h
                    /\ conn[c].open <=> (Pooled(c) \/ Held(c))
                    /\ ~(Pooled(c) /\ Held(c))
  BY DEF OneHolder, Pooled, Held, Holds
<1>1. c # Free
  BY ClientAssumption
<1>2. \A r, q \in Requests : Holds(r, c) /\ Holds(q, c) => r = q
  BY <1>1 DEF IInv, ConnectionInv, HeldInv, Holds
<1>3. \A h, g \in Hosts : \A i \in DOMAIN pool[h], j \in DOMAIN pool[g] :
         pool[h][i] = c /\ pool[g][j] = c => h = g /\ i = j /\ conn[c].host = h
  <2> SUFFICES ASSUME NEW h \in Hosts, NEW g \in Hosts, NEW i \in DOMAIN pool[h],
                      NEW j \in DOMAIN pool[g], pool[h][i] = c, pool[g][j] = c
               PROVE  h = g /\ i = j /\ conn[c].host = h
    OBVIOUS
  <2>1. conn[c].host = h /\ conn[c].host = g
    BY DEF IInv, ConnectionInv, PooledInv
  <2> QED BY <2>1 DEF IInv, ConnectionInv, PooledInv
<1>4. Pooled(c) => conn[c].open /\ ~Held(c)
  BY DEF IInv, ConnectionInv, PooledInv, Pooled, Held
<1>5. Held(c) => conn[c].open
  BY <1>1 DEF IInv, ConnectionInv, HeldInv, Held
<1>6. conn[c].open => Pooled(c) \/ Held(c)
  BY DEF IInv, ConnectionInv, OpenInv
<1> QED BY <1>2, <1>3, <1>4, <1>5, <1>6

LEMMA IInvInit == Init => IInv
<1> SUFFICES ASSUME Init PROVE IInv
  OBVIOUS
<1> USE DEF Init
<1>1. /\ NoRequest \in RequestRecords /\ NoRequest.pc = "idle" /\ NoRequest.conn = Free
      /\ NoRequest.retry = 0 /\ NoRequest.redirect = 0 /\ NoRequest.result = "none"
  BY ClientAssumption DEF NoRequest, RequestRecords, Results
<1>2. /\ Unused \in ConnRecords /\ ~Unused.open
  BY ClientAssumption DEF Unused, ConnRecords
<1>3. Total \in Nat
  BY ClientAssumption DEF Total
<1>4. \A r \in Requests : Local(r, NoRequest, 0)
  <2>1. Used(NoRequest) = 0 /\ Attempt(NoRequest)
    BY <1>1 DEF Used, Attempt, Working
  <2>2. Counted(NoRequest, 0)
    BY <1>1, <1>3, <2>1, ClientAssumption DEF Counted, Total
  <2>3. \A r \in Requests : OwnResult(r, NoRequest)
    BY <1>1 DEF OwnResult
  <2> QED BY <1>1, <2>1, <2>2, <2>3 DEF Local
<1>5. RequestInv
  BY <1>1, <1>4 DEF RequestInv
<1>6. OthersInv
  BY <1>2, ClientAssumption DEF OthersInv
<1>7. ConnectionInv
  BY <1>1, <1>2 DEF ConnectionInv, HeldInv, PooledInv, OpenInv
<1> QED BY <1>5, <1>6, <1>7 DEF IInv

-----------------------------------------------------------------------------
(* The record of a request, step by step.                                   *)

LEMMA RetriedFields ==
    ASSUME NEW q \in RequestRecords, q.retry <= MaxRetries
    PROVE  /\ Retried(q) \in RequestRecords
           /\ Retried(q).pc = "get" /\ Retried(q).retry = q.retry + 1 /\ Retried(q).conn = Free
           /\ Retried(q).redirect = q.redirect /\ Retried(q).result = q.result
<1> DEFINE retry == q.retry + 1
<1>1. retry \in 0..MaxRetries + 1
  BY ClientAssumption DEF RequestRecords
<1>2. Retried(q) = [q EXCEPT !.pc = "get", !.retry = retry, !.conn = Free]
  BY DEF Retried, RequestRecords
<1>3. Retried(q).retry = q.retry + 1
  BY DEF Retried, RequestRecords
<1> HIDE DEF retry
<1> QED BY <1>1, <1>2, <1>3 DEF RequestRecords

LEMMA FinishedFields ==
    ASSUME NEW q \in RequestRecords, NEW x \in Results
    PROVE  /\ Finished(q, x) \in RequestRecords
           /\ Finished(q, x).pc = "done" /\ Finished(q, x).retry = q.retry
           /\ Finished(q, x).conn = Free /\ Finished(q, x).redirect = q.redirect
           /\ Finished(q, x).result = x /\ Finished(q, x).answer = q.answer
BY DEF Finished, RequestRecords

(* A failed attempt is counted as one that was sent, ...                    *)
LEMMA RetriedLocal ==
    ASSUME NEW r \in Requests, NEW q, NEW n, Local(r, q, n),
           q.pc \in Working \cup {"connect"}
    PROVE  Local(r, Retried(q), n)
<1>1. q \in RequestRecords /\ q.retry <= MaxRetries /\ q.redirect <= MaxRedirects
  BY DEF Local, Attempt
<1>2. /\ Retried(q) \in RequestRecords
      /\ Retried(q).pc = "get" /\ Retried(q).retry = q.retry + 1 /\ Retried(q).conn = Free
      /\ Retried(q).redirect = q.redirect /\ Retried(q).result = q.result
  BY <1>1, RetriedFields
<1>3. q.result # "answered" /\ Used(Retried(q)) = 0 /\ Used(q) \in 0..1
  BY <1>2 DEF Local, Counted, Used, Working
<1> DEFINE before == q.redirect * (MaxRetries + 1)
<1>4. before \in Nat /\ q.retry \in Nat /\ MaxRetries \in Nat /\ MaxRedirects \in Nat
      /\ q.redirect \in Nat
  BY <1>1, ClientAssumption DEF RequestRecords
<1>5. /\ n \in Nat /\ n <= Total /\ n <= before + q.retry + Used(q)
  BY DEF Local, Counted, Working
<1>6. Retried(q).redirect * (MaxRetries + 1) = before
  BY <1>2
<1> HIDE DEF before
<1>7. n <= before + Retried(q).retry + Used(Retried(q))
  BY <1>2, <1>3, <1>4, <1>5
<1>8. Retried(q).retry + Used(Retried(q)) <= MaxRetries + 1
  BY <1>1, <1>2, <1>3, <1>4
<1>9. Counted(Retried(q), n)
  BY <1>1, <1>2, <1>3, <1>4, <1>5, <1>6, <1>7, <1>8 DEF Counted
<1> QED BY <1>2, <1>3, <1>9 DEF Local, Attempt, OwnResult, Working

(* ... and the last one of a request counts once more only if it was sent.  *)
LEMMA FinishedLocal ==
    ASSUME NEW r \in Requests, NEW q, NEW n, NEW x \in Results, Local(r, q, n),
           \/ q.pc = "put" /\ x = "answered"
           \/ q.pc \in {"get", "write"} /\ x # "answered"
    PROVE  Local(r, Finished(q, x), n)
<1>1. q \in RequestRecords
  BY DEF Local
<1>2. /\ Finished(q, x) \in RequestRecords
      /\ Finished(q, x).pc = "done" /\ Finished(q, x).retry = q.retry
      /\ Finished(q, x).conn = Free /\ Finished(q, x).redirect = q.redirect
      /\ Finished(q, x).result = x /\ Finished(q, x).answer = q.answer
  BY <1>1, FinishedFields
<1>3. Used(Finished(q, x)) = Used(q)
  BY <1>2 DEF Local, Counted, Used
<1>4. Counted(Finished(q, x), n)
  <2>1. q.pc # "idle"
    OBVIOUS
  <2>2. Counted(q, n)
    BY DEF Local
  <2> QED BY <1>2, <1>3, <2>1, <2>2 DEF Counted
<1>5. OwnResult(r, Finished(q, x))
  BY <1>2 DEF Local, OwnResult
<1> QED BY <1>2, <1>4, <1>5 DEF Local, Attempt, Working

LEMMA Products ==
    ASSUME NEW a \in Nat, NEW b \in Nat, NEW m \in Nat, a <= b
    PROVE  a * m \in Nat /\ a * m <= b * m /\ (a + 1) * m = a * m + m
OBVIOUS

(* A free connection, or none.                                              *)
Moved(q, pc, c) == [q EXCEPT !.pc = pc, !.conn = c]

LEMMA MovedLocal ==
    ASSUME NEW r \in Requests, NEW q, NEW n, NEW pc, NEW c, Local(r, q, n),
           q.pc \in {"get", "connect"}, q.retry <= MaxRetries, q.redirect <= MaxRedirects,
           q.host \in Hosts,
           \/ pc = "connect" /\ c = Free
           \/ pc = "write" /\ c \in Connections
    PROVE  Local(r, Moved(q, pc, c), n)
<1>1. q \in RequestRecords
  BY DEF Local
<1>2. /\ Moved(q, pc, c) \in RequestRecords
      /\ Moved(q, pc, c).pc = pc /\ Moved(q, pc, c).conn = c
      /\ Moved(q, pc, c).retry = q.retry /\ Moved(q, pc, c).redirect = q.redirect
      /\ Moved(q, pc, c).host = q.host /\ Moved(q, pc, c).result = q.result
      /\ Moved(q, pc, c).answer = q.answer
  BY <1>1 DEF Moved, RequestRecords
<1>3. q.result # "answered" /\ Counted(q, n)
  BY DEF Local, Counted
<1>4. Used(Moved(q, pc, c)) = Used(q)
  BY <1>2, <1>3 DEF Used
<1>5. Counted(Moved(q, pc, c), n)
  BY <1>2, <1>3, <1>4 DEF Counted
<1> QED BY <1>2, <1>3, <1>5 DEF Local, Attempt, OwnResult, Working

Written(q) == [q EXCEPT !.pc = "read"]

LEMMA WrittenLocal ==
    ASSUME NEW r \in Requests, NEW q, NEW n, Local(r, q, n), q.pc = "write"
    PROVE  Local(r, Written(q), n + 1)
<1>1. q \in RequestRecords /\ q.retry <= MaxRetries /\ q.redirect <= MaxRedirects
  BY DEF Local, Attempt, Working
<1>2. /\ Written(q) \in RequestRecords
      /\ Written(q).pc = "read" /\ Written(q).conn = q.conn /\ Written(q).host = q.host
      /\ Written(q).retry = q.retry /\ Written(q).redirect = q.redirect
      /\ Written(q).result = q.result /\ Written(q).answer = q.answer
  BY <1>1 DEF Written, RequestRecords
<1>3. q.result # "answered" /\ Used(q) = 0 /\ Used(Written(q)) = 1
  BY <1>2 DEF Local, Counted, Used
<1> DEFINE before == q.redirect * (MaxRetries + 1)
           most == MaxRedirects * (MaxRetries + 1)
<1>4. /\ q.retry \in Nat /\ MaxRetries \in Nat /\ MaxRedirects \in Nat /\ q.redirect \in Nat
      /\ MaxRetries + 1 \in Nat
  BY <1>1, ClientAssumption DEF RequestRecords
<1>5. before \in Nat /\ before <= most /\ Total = most + MaxRetries + 1
  BY <1>1, <1>4, Products DEF Total
<1>6. n \in Nat /\ n <= before + q.retry
  BY <1>3, <1>4, <1>5 DEF Local, Counted
<1>7. most \in Nat
  BY <1>4, Products
<1>8. before = Written(q).redirect * (MaxRetries + 1)
  BY <1>2
<1> HIDE DEF before, most
<1>9. n + 1 <= before + q.retry + 1 /\ n + 1 <= Total
  BY <1>1, <1>4, <1>5, <1>6, <1>7
<1>10. Counted(Written(q), n + 1)
  BY <1>1, <1>2, <1>3, <1>4, <1>6, <1>8, <1>9 DEF Counted
<1> QED BY <1>2, <1>3, <1>10 DEF Local, Attempt, OwnResult, Working

Answered(q, answer) == [q EXCEPT !.pc = "put", !.answer = answer]

LEMMA AnsweredLocal ==
    ASSUME NEW r \in Requests, NEW q, NEW n, Local(r, q, n), q.pc = "read"
    PROVE  Local(r, Answered(q, r), n)
<1>1. q \in RequestRecords
  BY DEF Local
<1>2. /\ Answered(q, r) \in RequestRecords
      /\ Answered(q, r).pc = "put" /\ Answered(q, r).conn = q.conn
      /\ Answered(q, r).host = q.host /\ Answered(q, r).answer = r
      /\ Answered(q, r).retry = q.retry /\ Answered(q, r).redirect = q.redirect
      /\ Answered(q, r).result = q.result
  BY <1>1 DEF Answered, RequestRecords
<1>3. Counted(q, n) /\ Used(Answered(q, r)) = Used(q) /\ q.result # "answered"
  BY <1>2 DEF Local, Counted, Used
<1>4. Counted(Answered(q, r), n)
  BY <1>2, <1>3 DEF Counted
<1> QED BY <1>2, <1>4 DEF Local, Attempt, OwnResult, Working

Redirected(q, h) ==
    [q EXCEPT !.pc = "get", !.host = h, !.conn = Free, !.retry = 0, !.redirect = @ + 1]

(* The attempts at the new place come on top of all there could be so far.  *)
LEMMA RedirectedLocal ==
    ASSUME NEW r \in Requests, NEW q, NEW n, NEW h \in Hosts \cup {NoHost}, Local(r, q, n),
           q.pc = "read"
    PROVE  Local(r, Redirected(q, h), n)
<1>1. q \in RequestRecords /\ q.retry <= MaxRetries /\ q.redirect <= MaxRedirects
  BY DEF Local, Attempt, Working
<1>2. /\ q.retry \in Nat /\ MaxRetries \in Nat /\ MaxRedirects \in Nat /\ q.redirect \in Nat
      /\ MaxRetries + 1 \in Nat
  BY <1>1, ClientAssumption DEF RequestRecords
<1> DEFINE redirect == q.redirect + 1
<1>3. redirect \in 0..MaxRedirects + 1 /\ 0 \in 0..MaxRetries + 1
  BY <1>1, <1>2
<1>4. Redirected(q, h) = [q EXCEPT !.pc = "get", !.host = h, !.conn = Free, !.retry = 0,
                                   !.redirect = redirect]
  BY <1>1 DEF Redirected, RequestRecords
<1>5. Redirected(q, h).redirect = q.redirect + 1
  BY <1>1 DEF Redirected, RequestRecords
<1> HIDE DEF redirect
<1>6. /\ Redirected(q, h) \in RequestRecords
      /\ Redirected(q, h).pc = "get" /\ Redirected(q, h).conn = Free
      /\ Redirected(q, h).retry = 0 /\ Redirected(q, h).result = q.result
  BY <1>1, <1>3, <1>4 DEF RequestRecords
<1>7. q.result # "answered" /\ Used(q) = 1 /\ Used(Redirected(q, h)) = 0
  BY <1>6 DEF Local, Counted, Used
<1> DEFINE before == q.redirect * (MaxRetries + 1)
<1>8. n \in Nat /\ n <= Total /\ n <= before + q.retry + 1
  BY <1>7 DEF Local, Counted
<1>9. before \in Nat /\ Redirected(q, h).redirect * (MaxRetries + 1) = before + (MaxRetries + 1)
  BY <1>2, <1>5, Products
<1> HIDE DEF before
<1>10. n <= Redirected(q, h).redirect * (MaxRetries + 1)
                + Redirected(q, h).retry + Used(Redirected(q, h))
  BY <1>1, <1>2, <1>6, <1>7, <1>8, <1>9
<1>11. Counted(Redirected(q, h), n)
  BY <1>2, <1>6, <1>7, <1>8, <1>10 DEF Counted
<1> QED BY <1>6, <1>7, <1>11 DEF Local, Attempt, OwnResult, Working

-----------------------------------------------------------------------------
(* Steps of the requests.                                                   *)

LEMMA LocalStep ==
    ASSUME RequestInv, NEW r \in Requests, NEW q, NEW n, Local(r, q, n),
           request' = [request EXCEPT ![r] = q], sent' = [sent EXCEPT ![r] = n]
    PROVE  RequestInv'
<1>1. q \in RequestRecords /\ n \in Nat
  BY DEF Local, Counted
<1>2. request' \in [Requests -> RequestRecords] /\ sent' \in [Requests -> Nat]
  BY <1>1 DEF RequestInv
<1>3. \A p \in Requests : \/ p = r /\ request'[p] = q /\ sent'[p] = n
                          \/ request'[p] = request[p] /\ sent'[p] = sent[p]
  BY DEF RequestInv
<1>4. ASSUME NEW p \in Requests PROVE Local(p, request'[p], sent'[p])
  BY <1>3 DEF RequestInv
<1>5. RequestInv' <=> /\ request' \in [Requests -> RequestRecords]
                      /\ sent' \in [Requests -> Nat]
                      /\ \A p \in Requests : Local(p, request'[p], sent'[p])
  BY DEF RequestInv, Local, Attempt, OwnResult, Counted, Used, Working, Total, RequestRecords,
         Results
<1> QED BY <1>2, <1>4, <1>5

LEMMA UnsentStep ==
    ASSUME RequestInv, NEW r \in Requests, NEW q, Local(r, q, sent[r]),
           request' = [request EXCEPT ![r] = q], UNCHANGED sent
    PROVE  RequestInv'
<1>1. sent' = [sent EXCEPT ![r] = sent[r]]
  BY DEF RequestInv
<1> QED BY <1>1, LocalStep

-----------------------------------------------------------------------------
(* Steps of the connections.                                                *)

LEMMA ConnectionFacts ==
    ASSUME IInv
    PROVE  /\ conn \in [Connections -> ConnRecords] /\ pool \in [Hosts -> Seq(Connections)]
           /\ request \in [Requests -> RequestRecords]
           /\ HeldInv /\ PooledInv /\ OpenInv
BY DEF IInv, OthersInv, ConnectionInv, RequestInv

(* r lets its connection go, which is closed.                               *)
LEMMA DropStep ==
    ASSUME IInv, NEW r \in Requests, NEW q, q.conn = Free,
           request[r].conn \in Connections,
           request' = [request EXCEPT ![r] = q],
           conn' = Closed(request[r].conn), UNCHANGED pool
    PROVE  ConnectionInv' /\ conn' \in [Connections -> ConnRecords]
<1> DEFINE c == request[r].conn
<1>1. /\ Unused \in ConnRecords /\ ~Unused.open
  BY ClientAssumption DEF Unused, ConnRecords
<1>2. /\ conn' \in [Connections -> ConnRecords] /\ ~conn'[c].open
      /\ \A d \in Connections : d # c => conn'[d] = conn[d]
  BY <1>1, ConnectionFacts DEF Closed
<1>3. \A p \in Requests : p # r => request'[p] = request[p] /\ request[p].conn # c
  BY ConnectionFacts, ClientAssumption DEF HeldInv
<1>4. request'[r].conn = Free
  BY ConnectionFacts
<1>5. \A p \in Requests : request[p].conn \in Connections \cup {Free}
  BY ConnectionFacts DEF RequestRecords
<1>6. HeldInv'
  BY <1>2, <1>3, <1>4, <1>5, ConnectionFacts DEF HeldInv
<1>7. \A h \in Hosts : \A i \in DOMAIN pool[h] : pool[h][i] \in Connections /\ pool[h][i] # c
  BY ConnectionFacts DEF PooledInv
<1>8. PooledInv'
  <2> SUFFICES ASSUME NEW h \in Hosts, NEW i \in DOMAIN pool[h]
               PROVE  /\ conn'[pool[h][i]].open /\ conn'[pool[h][i]].host = h
                      /\ conn'[pool[h][i]].asked = Free /\ conn'[pool[h][i]].answer = Free
                      /\ \A p \in Requests : request'[p].conn # pool[h][i]
                      /\ \A j \in DOMAIN pool[h] : pool[h][j] = pool[h][i] => j = i
    BY DEF PooledInv
  <2>1. conn'[pool[h][i]] = conn[pool[h][i]] /\ pool[h][i] # Free
    BY <1>2, <1>7, ClientAssumption
  <2> QED BY <1>3, <1>4, <2>1, ConnectionFacts DEF PooledInv
<1>9. OpenInv'
  <2> SUFFICES ASSUME NEW d \in Connections, conn'[d].open
               PROVE  Pooled(d)' \/ Held(d)'
    BY DEF OpenInv
  <2>1. d # c /\ conn[d].open
    BY <1>2
  <2>2. CASE Pooled(d)
    BY <2>2 DEF Pooled
  <2>3. CASE Held(d)
    <3>1. PICK p \in Requests : request[p].conn = d
      BY <2>3 DEF Held
    <3> QED BY <1>3, <2>1, <3>1 DEF Held
  <2> QED BY <2>1, <2>2, <2>3, ConnectionFacts DEF OpenInv
<1> QED BY <1>2, <1>6, <1>8, <1>9 DEF ConnectionInv

(* r has none before nor after.                                             *)
LEMMA FreeStep ==
    ASSUME IInv, NEW r \in Requests, NEW q, q.conn = Free, request[r].conn = Free,
           request' = [request EXCEPT ![r] = q], UNCHANGED <<conn, pool>>
    PROVE  ConnectionInv' /\ conn' \in [Connections -> ConnRecords]
<1>1. \A p \in Requests : /\ request'[p].conn = request[p].conn
                          /\ request[p].conn # Free => request'[p] = request[p]
  BY ConnectionFacts
<1>2. HeldInv'
  BY <1>1, ConnectionFacts DEF HeldInv
<1>3. PooledInv'
  BY <1>1, ConnectionFacts DEF PooledInv
<1>4. OpenInv'
  BY <1>1, ConnectionFacts DEF OpenInv, Pooled, Held
<1> QED BY <1>2, <1>3, <1>4, ConnectionFacts DEF ConnectionInv

(* The agents answer what they were asked, or end their side.               *)
LEMMA AgentStep ==
    ASSUME IInv, UNCHANGED <<request, pool>>, conn' \in [Connections -> ConnRecords],
           \A c \in Connections :
              /\ conn'[c].open = conn[c].open /\ conn'[c].host = conn[c].host
              /\ conn'[c].asked = conn[c].asked
              /\ \/ conn'[c].answer = conn[c].answer
                 \/ conn[c].asked # Free /\ conn'[c].answer = conn[c].asked
    PROVE  ConnectionInv'
<1>1. \A p \in Requests : request[p].conn \in Connections \cup {Free}
  BY ConnectionFacts DEF RequestRecords
<1>2. \A h \in Hosts : \A i \in DOMAIN pool[h] : pool[h][i] \in Connections
  BY ConnectionFacts
<1>3. HeldInv'
  <2> SUFFICES ASSUME NEW r \in Requests, request[r].conn # Free
               PROVE  /\ conn'[request[r].conn].open /\ conn'[request[r].conn].host \in Hosts
                      /\ conn'[request[r].conn].asked \in {Free, r}
                      /\ conn'[request[r].conn].answer \in {Free, r}
                      /\ request[r].pc # "read" => /\ conn'[request[r].conn].asked = Free
                                                   /\ conn'[request[r].conn].answer = Free
                      /\ \A q \in Requests : request[q].conn = request[r].conn => q = r
    BY DEF HeldInv
  <2>1. request[r].conn \in Connections
    BY <1>1
  <2> QED BY <2>1, ConnectionFacts DEF HeldInv
<1>4. PooledInv'
  BY <1>2, ConnectionFacts DEF PooledInv
<1>5. OpenInv'
  BY ConnectionFacts DEF OpenInv, Pooled, Held
<1> QED BY <1>3, <1>4, <1>5 DEF ConnectionInv

(* r works on what it has: only r's connection changes, and stays as open.  *)
LEMMA WorkStep ==
    ASSUME IInv, NEW r \in Requests, NEW q, NEW c, q.conn = c, request[r].conn = c,
           c \in Connections,
           request' = [request EXCEPT ![r] = q], UNCHANGED pool,
           conn' \in [Connections -> ConnRecords],
           \A d \in Connections : d # c => conn'[d] = conn[d],
           conn'[c].open = conn[c].open, conn'[c].host = conn[c].host,
           conn'[c].asked \in {Free, r}, conn'[c].answer \in {Free, r},
           q.pc # "read" => conn'[c].asked = Free /\ conn'[c].answer = Free
    PROVE  ConnectionInv'
<1>1. \A p \in Requests : /\ request'[p].conn = request[p].conn
                          /\ p # r => request'[p] = request[p] /\ request[p].conn # c
  BY ConnectionFacts, ClientAssumption DEF HeldInv
<1>2. \A p \in Requests : request[p].conn \in Connections \cup {Free}
  BY ConnectionFacts DEF RequestRecords
<1>3. request'[r] = q
  BY ConnectionFacts
<1>4. HeldInv'
  <2> SUFFICES ASSUME NEW p \in Requests, request'[p].conn # Free
               PROVE  /\ conn'[request'[p].conn].open /\ conn'[request'[p].conn].host \in Hosts
                      /\ conn'[request'[p].conn].asked \in {Free, p}
                      /\ conn'[request'[p].conn].answer \in {Free, p}
                      /\ request'[p].pc # "read" => /\ conn'[request'[p].conn].asked = Free
                                                    /\ conn'[request'[p].conn].answer = Free
                      /\ \A s \in Requests : request'[s].conn = request'[p].conn => s = p
    BY DEF HeldInv
  <2>1. /\ conn[request[p].conn].open /\ conn[request[p].conn].host \in Hosts
        /\ \A s \in Requests : request[s].conn = request[p].conn => s = p
    BY <1>1, ConnectionFacts DEF HeldInv
  <2>2. CASE p = r
    BY <1>1, <1>3, <2>1, <2>2
  <2>3. CASE p # r
    <3>1. request'[p] = request[p] /\ conn'[request[p].conn] = conn[request[p].conn]
      BY <1>1, <1>2, <2>3
    <3> QED BY <1>1, <2>1, <3>1, ConnectionFacts DEF HeldInv
  <2> QED BY <2>2, <2>3
<1>5. PooledInv'
  <2>1. \A h \in Hosts : \A i \in DOMAIN pool[h] : pool[h][i] \in Connections /\ pool[h][i] # c
    BY ConnectionFacts DEF PooledInv
  <2>2. \A h \in Hosts : \A i \in DOMAIN pool[h] : conn'[pool[h][i]] = conn[pool[h][i]]
    BY <2>1
  <2> QED BY <1>1, <2>2, ConnectionFacts DEF PooledInv
<1>6. \A d \in Connections : conn'[d].open = conn[d].open
  OBVIOUS
<1>7. OpenInv'
  BY <1>1, <1>6, ConnectionFacts DEF OpenInv, Pooled, Held
<1> QED BY <1>4, <1>5, <1>7 DEF ConnectionInv

(* r takes a connection that nobody has.                                    *)
LEMMA ConnectStep ==
    ASSUME IInv, NEW r \in Requests, NEW q, NEW c \in Connections, q.conn = c,
           request[r].conn = Free, ~conn[c].open,
           request' = [request EXCEPT ![r] = q], UNCHANGED pool,
           conn' \in [Connections -> ConnRecords],
           \A d \in Connections : d # c => conn'[d] = conn[d],
           conn'[c].open, conn'[c].host \in Hosts,
           conn'[c].asked = Free, conn'[c].answer = Free
    PROVE  ConnectionInv'
<1>1. \A p \in Requests : request[p].conn # c
  BY ConnectionFacts, ClientAssumption DEF HeldInv
<1>2. \A h \in Hosts : \A i \in DOMAIN pool[h] : pool[h][i] \in Connections /\ pool[h][i] # c
  BY ConnectionFacts DEF PooledInv
<1>3. request'[r] = q /\ \A p \in Requests : p # r => request'[p] = request[p]
  BY ConnectionFacts
<1>4. \A p \in Requests : request[p].conn \in Connections \cup {Free}
  BY ConnectionFacts DEF RequestRecords
<1>5. HeldInv'
  <2> SUFFICES ASSUME NEW p \in Requests, request'[p].conn # Free
               PROVE  /\ conn'[request'[p].conn].open /\ conn'[request'[p].conn].host \in Hosts
                      /\ conn'[request'[p].conn].asked \in {Free, p}
                      /\ conn'[request'[p].conn].answer \in {Free, p}
                      /\ request'[p].pc # "read" => /\ conn'[request'[p].conn].asked = Free
                                                    /\ conn'[request'[p].conn].answer = Free
                      /\ \A s \in Requests : request'[s].conn = request'[p].conn => s = p
    BY DEF HeldInv
  <2>1. CASE p = r
    BY <1>1, <1>3, <2>1
  <2>2. CASE p # r
    <3>1. request'[p] = request[p] /\ conn'[request[p].conn] = conn[request[p].conn]
      BY <1>1, <1>3, <1>4, <2>2
    <3> QED BY <1>1, <1>3, <3>1, ConnectionFacts DEF HeldInv
  <2> QED BY <2>1, <2>2
<1>6. PooledInv'
  <2>1. \A h \in Hosts : \A i \in DOMAIN pool[h] :
           conn'[pool[h][i]] = conn[pool[h][i]] /\ q.conn # pool[h][i]
    BY <1>2
  <2> QED BY <1>3, <2>1, ConnectionFacts DEF PooledInv
<1>7. OpenInv'
  <2> SUFFICES ASSUME NEW d \in Connections, conn'[d].open, d # c
               PROVE  Pooled(d) \/ \E p \in Requests : p # r /\ request[p].conn = d
    BY <1>3 DEF OpenInv, Pooled, Held
  <2>1. Pooled(d) \/ Held(d)
    BY ConnectionFacts DEF OpenInv
  <2>2. d # Free
    BY ClientAssumption
  <2> QED BY <2>1, <2>2 DEF Held
<1> QED BY <1>5, <1>6, <1>7 DEF ConnectionInv

(* r takes the first connection of the pool.                                *)
LEMMA TakeStep ==
    ASSUME IInv, NEW r \in Requests, NEW q, NEW g \in Hosts, pool[g] # << >>,
           q.conn = Head(pool[g]), q.pc # "read", request[r].conn = Free,
           request' = [request EXCEPT ![r] = q],
           pool' = [pool EXCEPT ![g] = Tail(@)], UNCHANGED conn
    PROVE  ConnectionInv' /\ pool' \in [Hosts -> Seq(Connections)]
<1> DEFINE c == pool[g][1]
<1>1. /\ pool[g] \in Seq(Connections) /\ 1 \in DOMAIN pool[g] /\ c \in Connections
      /\ q.conn = c /\ c # Free
  BY ConnectionFacts, ClientAssumption, EmptySeq
<1>2. request'[r] = q /\ \A p \in Requests : p # r => request'[p] = request[p]
  BY ConnectionFacts
<1>3. /\ pool' \in [Hosts -> Seq(Connections)]
      /\ \A h \in Hosts : h # g => pool'[h] = pool[h]
      /\ \A i \in DOMAIN pool'[g] : i + 1 \in DOMAIN pool[g] /\ pool'[g][i] = pool[g][i + 1]
  <2>1. pool'[g] = Tail(pool[g]) /\ Tail(pool[g]) \in Seq(Connections)
    BY <1>1, ConnectionFacts
  <2>2. /\ pool' \in [Hosts -> Seq(Connections)]
        /\ \A h \in Hosts : h # g => pool'[h] = pool[h]
    BY <2>1, ConnectionFacts
  <2>3. \A i \in DOMAIN Tail(pool[g]) :
           i + 1 \in DOMAIN pool[g] /\ Tail(pool[g])[i] = pool[g][i + 1]
    BY <1>1
  <2> QED BY <2>1, <2>2, <2>3
<1>4. /\ conn[c].open /\ conn[c].host = g /\ conn[c].asked = Free /\ conn[c].answer = Free
      /\ \A p \in Requests : request[p].conn # c
      /\ \A j \in DOMAIN pool[g] : pool[g][j] = c => j = 1
  BY <1>1, ConnectionFacts DEF PooledInv
<1> HIDE DEF c
<1>5. HeldInv'
  <2> SUFFICES ASSUME NEW p \in Requests, request'[p].conn # Free
               PROVE  /\ conn[request'[p].conn].open /\ conn[request'[p].conn].host \in Hosts
                      /\ conn[request'[p].conn].asked \in {Free, p}
                      /\ conn[request'[p].conn].answer \in {Free, p}
                      /\ request'[p].pc # "read" => /\ conn[request'[p].conn].asked = Free
                                                    /\ conn[request'[p].conn].answer = Free
                      /\ \A s \in Requests : request'[s].conn = request'[p].conn => s = p
    BY DEF HeldInv
  <2>1. CASE p = r
    BY <1>1, <1>2, <1>4, <2>1
  <2>2. CASE p # r
    BY <1>1, <1>2, <1>4, <2>2, ConnectionFacts DEF HeldInv
  <2> QED BY <2>1, <2>2
<1>6. \A h \in Hosts : \A i \in DOMAIN pool'[h] : pool'[h][i] # c
  <2> SUFFICES ASSUME NEW h \in Hosts, NEW i \in DOMAIN pool'[h] PROVE pool'[h][i] # c
    OBVIOUS
  <2>1. CASE h = g
    <3>1. i + 1 \in DOMAIN pool[g] /\ pool'[g][i] = pool[g][i + 1] /\ i + 1 # 1
      <4>1. i \in 1..Len(pool'[g])
        BY <1>3, <2>1
      <4> QED BY <1>3, <2>1, <4>1
    <3> QED BY <1>4, <2>1, <3>1
  <2>2. CASE h # g
    BY <1>3, <1>4, <2>2, ConnectionFacts DEF PooledInv
  <2> QED BY <2>1, <2>2
<1>7. PooledInv'
  <2> SUFFICES ASSUME NEW h \in Hosts, NEW i \in DOMAIN pool'[h]
               PROVE  /\ conn[pool'[h][i]].open /\ conn[pool'[h][i]].host = h
                      /\ conn[pool'[h][i]].asked = Free /\ conn[pool'[h][i]].answer = Free
                      /\ \A p \in Requests : request'[p].conn # pool'[h][i]
                      /\ \A j \in DOMAIN pool'[h] : pool'[h][j] = pool'[h][i] => j = i
    BY DEF PooledInv
  <2>1. pool'[h][i] # c
    BY <1>6
  <2>2. CASE h = g
    <3>1. i + 1 \in DOMAIN pool[g] /\ pool'[g][i] = pool[g][i + 1]
      BY <1>3, <2>2
    <3>2. /\ conn[pool[g][i + 1]].open /\ conn[pool[g][i + 1]].host = g
          /\ conn[pool[g][i + 1]].asked = Free /\ conn[pool[g][i + 1]].answer = Free
          /\ \A p \in Requests : request[p].conn # pool[g][i + 1]
          /\ \A j \in DOMAIN pool[g] : pool[g][j] = pool[g][i + 1] => j = i + 1
      BY <3>1, ConnectionFacts DEF PooledInv
    <3>3. \A j \in DOMAIN pool'[g] : pool'[g][j] = pool'[g][i] => j = i
      <4> SUFFICES ASSUME NEW j \in DOMAIN pool'[g], pool'[g][j] = pool'[g][i] PROVE j = i
        OBVIOUS
      <4>1. j + 1 = i + 1
        BY <1>3, <3>1, <3>2
      <4>2. j \in 1..Len(pool'[g]) /\ i \in 1..Len(pool'[g])
        BY <1>3, <2>2
      <4> QED BY <4>1, <4>2
    <3> QED BY <1>1, <1>2, <2>1, <2>2, <3>1, <3>2, <3>3
  <2>3. CASE h # g
    <3>1. pool'[h] = pool[h]
      BY <1>3, <2>3
    <3> QED BY <1>1, <1>2, <2>1, <3>1, ConnectionFacts DEF PooledInv
  <2> QED BY <2>2, <2>3
<1>8. OpenInv'
  <2> SUFFICES ASSUME NEW d \in Connections, conn[d].open PROVE Pooled(d)' \/ Held(d)'
    BY DEF OpenInv
  <2>1. CASE Held(d)
    <3>1. PICK p \in Requests : request[p].conn = d
      BY <2>1 DEF Held
    <3>2. p # r
      BY <3>1, ClientAssumption
    <3> QED BY <1>2, <3>1, <3>2 DEF Held
  <2>2. CASE d = c
    BY <1>1, <1>2, <2>2 DEF Held
  <2>3. CASE Pooled(d) /\ d # c
    <3>1. PICK h \in Hosts : \E i \in DOMAIN pool[h] : pool[h][i] = d
      BY <2>3 DEF Pooled
    <3>2. PICK i \in DOMAIN pool[h] : pool[h][i] = d
      BY <3>1
    <3>3. CASE h = g
      <4>1. i - 1 \in DOMAIN Tail(pool[g]) /\ Tail(pool[g])[i - 1] = pool[g][i]
        <5>1. i # 1
          BY <2>3, <3>2, <3>3 DEF c
        <5> QED BY <1>1, <3>3, <5>1
      <4>2. pool'[g] = Tail(pool[g])
        BY ConnectionFacts
      <4> QED BY <3>2, <3>3, <4>1, <4>2 DEF Pooled
    <3>4. CASE h # g
      BY <1>3, <3>2, <3>4 DEF Pooled
    <3> QED BY <3>3, <3>4
  <2> QED BY <2>1, <2>2, <2>3, ConnectionFacts DEF OpenInv
<1> QED BY <1>3, <1>5, <1>7, <1>8 DEF ConnectionInv

(* r gives its connection c, with nothing to come on it, to the place end   *)
(* of the pool of its host g.                                               *)
Placed(c, g, end) ==
    /\ end \in DOMAIN pool'[g] /\ pool'[g][end] = c
    /\ \A h \in Hosts : \A i \in DOMAIN pool[h] :
          i \in DOMAIN pool'[h] /\ pool'[h][i] = pool[h][i]
    /\ \A h \in Hosts : \A i \in DOMAIN pool'[h] :
          \/ h = g /\ i = end /\ pool'[h][i] = c
          \/ i \in DOMAIN pool[h] /\ pool'[h][i] = pool[h][i]

LEMMA PlacedStep ==
    ASSUME IInv, NEW r \in Requests, NEW q, q.conn = Free, request[r].pc = "put",
           NEW c \in Connections, c = request[r].conn, NEW g \in Hosts, g = conn[c].host,
           NEW end, Placed(c, g, end),
           request' = [request EXCEPT ![r] = q], UNCHANGED conn
    PROVE  ConnectionInv'
<1>1. /\ end \in DOMAIN pool'[g] /\ pool'[g][end] = c
      /\ \A h \in Hosts : \A i \in DOMAIN pool[h] :
            i \in DOMAIN pool'[h] /\ pool'[h][i] = pool[h][i]
      /\ \A h \in Hosts : \A i \in DOMAIN pool'[h] :
            \/ h = g /\ i = end /\ pool'[h][i] = c
            \/ i \in DOMAIN pool[h] /\ pool'[h][i] = pool[h][i]
  BY DEF Placed
<1>2. g \in Hosts /\ c # Free
  BY ClientAssumption
<1>3. /\ request'[r].conn = Free
      /\ \A p \in Requests : p # r => request'[p] = request[p] /\ request[p].conn # c
  BY <1>2, ConnectionFacts DEF HeldInv
<1>4. /\ conn[c].open /\ conn[c].asked = Free /\ conn[c].answer = Free
      /\ \A h \in Hosts : \A i \in DOMAIN pool[h] : pool[h][i] # c
  BY <1>2, ConnectionFacts DEF HeldInv, PooledInv
<1>5. HeldInv'
  BY <1>3, ConnectionFacts DEF HeldInv
<1>6. PooledInv'
  <2> SUFFICES ASSUME NEW h \in Hosts, NEW i \in DOMAIN pool'[h]
               PROVE  /\ conn[pool'[h][i]].open /\ conn[pool'[h][i]].host = h
                      /\ conn[pool'[h][i]].asked = Free /\ conn[pool'[h][i]].answer = Free
                      /\ \A p \in Requests : request'[p].conn # pool'[h][i]
                      /\ \A j \in DOMAIN pool'[h] : pool'[h][j] = pool'[h][i] => j = i
    BY DEF PooledInv
  <2>1. CASE h = g /\ i = end /\ pool'[h][i] = c
    <3>1. \A p \in Requests : request'[p].conn # c
      BY <1>2, <1>3
    <3>2. \A j \in DOMAIN pool'[h] : pool'[h][j] = c => j = i
      BY <1>1, <1>4, <2>1
    <3>3. pool'[h][i] = c /\ conn[c].host = h
      BY <2>1
    <3> QED BY <1>4, <3>1, <3>2, <3>3, Zenon
  <2>2. CASE i \in DOMAIN pool[h] /\ pool'[h][i] = pool[h][i]
    <3>1. pool[h][i] # c /\ pool[h][i] \in Connections /\ pool[h][i] # Free
      BY <1>4, <2>2, ConnectionFacts, ClientAssumption
    <3>2. /\ conn[pool[h][i]].open /\ conn[pool[h][i]].host = h
          /\ conn[pool[h][i]].asked = Free /\ conn[pool[h][i]].answer = Free
          /\ \A p \in Requests : request[p].conn # pool[h][i]
          /\ \A j \in DOMAIN pool[h] : pool[h][j] = pool[h][i] => j = i
      BY <2>2, ConnectionFacts DEF PooledInv
    <3>3. \A j \in DOMAIN pool'[h] : pool'[h][j] = pool'[h][i] => j = i
      BY <1>1, <2>2, <3>1, <3>2
    <3> QED BY <1>3, <2>2, <3>1, <3>2, <3>3
  <2> QED BY <1>1, <2>1, <2>2
<1>7. OpenInv'
  <2> SUFFICES ASSUME NEW d \in Connections, conn[d].open PROVE Pooled(d)' \/ Held(d)'
    BY DEF OpenInv
  <2>1. CASE d = c
    BY <1>1, <1>2, <2>1 DEF Pooled
  <2>2. CASE Held(d) /\ d # c
    <3>1. PICK p \in Requests : request[p].conn = d
      BY <2>2 DEF Held
    <3>2. p # r
      BY <2>2, <3>1
    <3> QED BY <1>3, <3>1, <3>2 DEF Held
  <2>3. CASE Pooled(d)
    <3>1. PICK h \in Hosts : \E i \in DOMAIN pool[h] : pool[h][i] = d
      BY <2>3 DEF Pooled
    <3>2. PICK i \in DOMAIN pool[h] : pool[h][i] = d
      BY <3>1
    <3>3. i \in DOMAIN pool'[h] /\ pool'[h][i] = d
      BY <1>1, <3>2
    <3> QED BY <3>3 DEF Pooled
  <2> QED BY <2>1, <2>2, <2>3, ConnectionFacts DEF OpenInv
<1> QED BY <1>5, <1>6, <1>7 DEF ConnectionInv

LEMMA GiveBackStep ==
    ASSUME IInv, NEW r \in Requests, NEW q, q.conn = Free, request[r].pc = "put",
           NEW c \in Connections, c = request[r].conn, NEW g \in Hosts, g = conn[c].host,
           request' = [request EXCEPT ![r] = q], UNCHANGED conn,
           pool' = [pool EXCEPT ![g] = Append(@, c)]
    PROVE  ConnectionInv' /\ pool' \in [Hosts -> Seq(Connections)]
<1> DEFINE longer == Append(pool[g], c)
           end == Len(pool[g]) + 1
<1>1. pool[g] \in Seq(Connections) /\ Len(pool[g]) \in Nat
  BY ConnectionFacts
<1>2. /\ longer \in Seq(Connections) /\ DOMAIN longer = 1..end /\ DOMAIN pool[g] = 1..end - 1
      /\ longer[end] = c /\ end \in Nat
      /\ \A i \in 1..end - 1 : longer[i] = pool[g][i]
  <2>1. DOMAIN pool[g] = 1..Len(pool[g]) /\ end - 1 = Len(pool[g])
    BY <1>1
  <2>2. /\ longer \in Seq(Connections) /\ Len(longer) = end /\ longer[end] = c
        /\ \A i \in 1..Len(pool[g]) : longer[i] = pool[g][i]
    BY <1>1, AppendProperties
  <2>3. DOMAIN longer = 1..Len(longer)
    <3>1. longer \in Seq(Connections)
      BY <2>2
    <3> HIDE DEF longer
    <3> QED BY ONLY <3>1
  <2>4. end \in Nat
    BY <1>1
  <2> HIDE DEF longer, end
  <2> QED BY <2>1, <2>2, <2>3, <2>4
<1>3. /\ pool'[g] = longer /\ \A h \in Hosts : h # g => pool'[h] = pool[h]
      /\ pool' \in [Hosts -> Seq(Connections)]
  BY <1>1, <1>2, ConnectionFacts
<1> HIDE DEF longer, end
<1>4. \A h \in Hosts : \A i \in DOMAIN pool[h] : i \in DOMAIN pool'[h] /\ pool'[h][i] = pool[h][i]
  <2>1. \A i \in 1..end - 1 : i \in 1..end
    BY <1>2
  <2> QED BY <1>2, <1>3, <2>1
<1>5. \A h \in Hosts : \A i \in DOMAIN pool'[h] :
         \/ h = g /\ i = end /\ pool'[h][i] = c
         \/ i \in DOMAIN pool[h] /\ pool'[h][i] = pool[h][i]
  <2>1. \A i \in 1..end : i = end \/ i \in 1..end - 1
    BY <1>2
  <2> QED BY <1>2, <1>3, <2>1
<1>6. end \in DOMAIN pool'[g] /\ pool'[g][end] = c
  <2>1. end \in 1..end
    <3> DEFINE n == Len(pool[g])
    <3>1. n \in Nat
      BY <1>1
    <3> HIDE DEF n
    <3>2. n + 1 \in 1..(n + 1)
      BY <3>1
    <3> QED BY <3>2 DEF end, n
  <2> QED BY <1>2, <1>3, <2>1
<1>7. ConnectionInv'
  <2>1. Placed(c, g, end)
    BY <1>4, <1>5, <1>6 DEF Placed
  <2> QED BY <2>1, PlacedStep
<1> QED BY <1>3, <1>7

-----------------------------------------------------------------------------
(* Every step.                                                              *)

Kept == RequestInv' /\ ConnectionInv' /\ OthersInv'

LEMMA LocalOf ==
    ASSUME IInv, NEW r \in Requests
    PROVE  /\ Local(r, request[r], sent[r]) /\ request[r] \in RequestRecords /\ RequestInv
           /\ request[r].pc \in Working => request[r].conn \in Connections
           /\ request[r].pc \notin Working => request[r].conn = Free
           /\ request[r].pc \in Working \cup {"connect"} =>
                 /\ request[r].retry <= MaxRetries /\ request[r].redirect <= MaxRedirects
                 /\ request[r].host \in Hosts
BY DEF IInv, RequestInv, Local, Attempt

LEMMA OthersIntro ==
    ASSUME conn' \in [Connections -> ConnRecords], pool' \in [Hosts -> Seq(Connections)],
           running' \subseteq Hosts, faults' \in 0..MaxFaults
    PROVE  OthersInv'
BY DEF OthersInv, ConnRecords

(* An attempt that failed.                                                  *)
LEMMA FailedStep ==
    ASSUME IInv, NEW r \in Requests, request[r].pc \in Working,
           conn' = Closed(request[r].conn),
           request' = [request EXCEPT ![r] = Retried(@)],
           UNCHANGED <<pool, running, sent, faults>>
    PROVE  Kept
<1>1. request' = [request EXCEPT ![r] = Retried(request[r])] /\ Retried(request[r]).conn = Free
  BY LocalOf, RetriedFields DEF Working
<1>2. Local(r, Retried(request[r]), sent[r])
  BY LocalOf, RetriedLocal
<1>3. RequestInv'
  BY <1>1, <1>2, LocalOf, UnsentStep
<1>4. ConnectionInv' /\ conn' \in [Connections -> ConnRecords]
  BY <1>1, LocalOf, DropStep
<1> QED BY <1>3, <1>4, OthersIntro DEF Kept, IInv, OthersInv

LEMMA FinishedStep ==
    ASSUME IInv, NEW r \in Requests, NEW x \in Results,
           \/ request[r].pc = "put" /\ x = "answered"
           \/ request[r].pc \in {"get", "write"} /\ x # "answered",
           request' = [request EXCEPT ![r] = Finished(@, x)], UNCHANGED sent
    PROVE  /\ request' = [request EXCEPT ![r] = Finished(request[r], x)]
           /\ Finished(request[r], x).conn = Free /\ RequestInv'
<1>1. Local(r, Finished(request[r], x), sent[r]) /\ Finished(request[r], x).conn = Free
  BY LocalOf, FinishedLocal, FinishedFields
<1>2. request' = [request EXCEPT ![r] = Finished(request[r], x)]
  OBVIOUS
<1> HIDE DEF Finished
<1> QED BY <1>1, <1>2, LocalOf, UnsentStep

LEMMA ClientKeeps ==
    ASSUME IInv, NEW r \in Requests, Client(r) PROVE Kept
<1> USE DEF At
<1>1. OthersInv /\ ConnectionInv
  BY DEF IInv
<1>2. CASE GiveUp(r)
  <2>1. PICK x \in Results \ {"answered"} :
           request' = [request EXCEPT ![r] = Finished(@, x)]
    BY <1>2 DEF GiveUp, Results
  <2>2. request[r].pc = "get" /\ UNCHANGED <<conn, pool, running, sent, faults>>
    BY <1>2 DEF GiveUp
  <2>3. /\ request' = [request EXCEPT ![r] = Finished(request[r], x)]
        /\ Finished(request[r], x).conn = Free /\ RequestInv'
    BY <2>1, <2>2, FinishedStep
  <2>4. request[r].conn = Free
    BY <2>2, LocalOf DEF Working
  <2>5. ConnectionInv' /\ conn' \in [Connections -> ConnRecords]
    BY <2>2, <2>3, <2>4, FreeStep
  <2> QED BY <1>1, <2>2, <2>3, <2>5, OthersIntro DEF Kept, OthersInv
<1>3. CASE Get(r)
  <2> DEFINE h == request[r].host
  <2>1. /\ request[r].pc = "get" /\ request[r].conn = Free /\ h \in Hosts
        /\ request[r].retry <= MaxRetries /\ request[r].redirect <= MaxRedirects
        /\ UNCHANGED <<conn, running, sent, faults>>
    BY <1>3, LocalOf DEF Get, Tries, Working, RequestRecords
  <2>2. CASE pool[h] = << >>
    <3> DEFINE q == Moved(request[r], "connect", Free)
    <3>1. request' = [request EXCEPT ![r] = q]
      BY <1>3, <2>2 DEF Get, Moved
    <3>2. pool' = pool
      BY <1>1, <1>3, <2>1, <2>2 DEF Get, OthersInv
    <3>3. q.conn = Free
      BY LocalOf DEF Moved, RequestRecords
    <3>4. Local(r, q, sent[r])
      BY <2>1, LocalOf, MovedLocal
    <3> HIDE DEF q
    <3>5. RequestInv'
      BY <2>1, <3>1, <3>4, LocalOf, UnsentStep
    <3>6. ConnectionInv' /\ conn' \in [Connections -> ConnRecords]
      BY <2>1, <3>1, <3>2, <3>3, FreeStep
    <3> QED BY <1>1, <2>1, <3>2, <3>5, <3>6, OthersIntro DEF Kept, OthersInv
  <2>3. CASE pool[h] # << >>
    <3> DEFINE q == Moved(request[r], "write", Head(pool[h]))
    <3>1. request' = [request EXCEPT ![r] = q]
      BY <1>3, <2>3 DEF Get, Moved
    <3>2. pool' = [pool EXCEPT ![h] = Tail(@)]
      BY <1>3, <2>3 DEF Get
    <3>3. q.conn = Head(pool[h]) /\ q.pc = "write"
      BY LocalOf DEF Moved, RequestRecords
    <3>4. Head(pool[h]) \in Connections
      BY <1>1, <2>1, <2>3 DEF OthersInv
    <3>5. Local(r, q, sent[r])
      BY <2>1, <3>4, LocalOf, MovedLocal
    <3> HIDE DEF q
    <3>6. RequestInv'
      BY <2>1, <3>1, <3>5, LocalOf, UnsentStep
    <3>7. ConnectionInv' /\ pool' \in [Hosts -> Seq(Connections)]
      BY <2>1, <2>3, <3>1, <3>2, <3>3, TakeStep
    <3> QED BY <1>1, <2>1, <3>6, <3>7, OthersIntro DEF Kept, OthersInv
  <2> QED BY <2>2, <2>3
<1>4. ASSUME NEW c \in Connections, Connect(r, c) PROVE Kept
  <2> DEFINE q == Moved(request[r], "write", c)
             new == [Unused EXCEPT !.host = request[r].host, !.open = TRUE, !.agent = TRUE]
  <2>1. /\ request[r].pc = "connect" /\ request[r].conn = Free /\ request[r].host \in Hosts
        /\ request[r].retry <= MaxRetries /\ request[r].redirect <= MaxRedirects
        /\ ~conn[c].open /\ conn' = [conn EXCEPT ![c] = new]
        /\ UNCHANGED <<pool, running, sent, faults>>
    BY <1>4, LocalOf DEF Connect, Working
  <2>2. request' = [request EXCEPT ![r] = q]
    BY <1>4 DEF Connect, Moved
  <2>3. /\ new \in ConnRecords /\ new.open /\ new.host = request[r].host
        /\ new.asked = Free /\ new.answer = Free
    <3> DEFINE y == [Unused EXCEPT !.host = request[r].host]
               z == [y EXCEPT !.open = TRUE]
    <3>1. Unused \in ConnRecords /\ Unused.asked = Free /\ Unused.answer = Free
      BY ClientAssumption DEF Unused, ConnRecords
    <3>2. new = [z EXCEPT !.agent = TRUE]
      BY DEF Unused
    <3> HIDE DEF new
    <3>3. y \in ConnRecords /\ y.host = request[r].host /\ y.asked = Free /\ y.answer = Free
      BY <2>1, <3>1 DEF ConnRecords
    <3> HIDE DEF y
    <3>4. z \in ConnRecords /\ z.open /\ z.host = y.host /\ z.asked = Free /\ z.answer = Free
      BY <3>3 DEF ConnRecords
    <3> HIDE DEF z
    <3> QED BY <3>2, <3>3, <3>4 DEF ConnRecords
  <2> HIDE DEF new
  <2>4. /\ conn' \in [Connections -> ConnRecords] /\ conn'[c] = new
        /\ \A d \in Connections : d # c => conn'[d] = conn[d]
    BY <1>1, <2>1, <2>3 DEF OthersInv
  <2>5. Local(r, q, sent[r]) /\ q.conn = c
    BY <2>1, LocalOf, MovedLocal DEF Moved, RequestRecords
  <2> HIDE DEF q
  <2>6. RequestInv'
    BY <2>1, <2>2, <2>5, LocalOf, UnsentStep
  <2>7. ConnectionInv'
    BY <2>1, <2>2, <2>3, <2>4, <2>5, ConnectStep
  <2> QED BY <1>1, <2>1, <2>4, <2>6, <2>7, OthersIntro DEF Kept, OthersInv
<1>5. CASE Refused(r)
  <2>1. /\ request[r].pc = "connect" /\ request[r].conn = Free
        /\ request' = [request EXCEPT ![r] = Retried(request[r])]
        /\ UNCHANGED <<conn, pool, running, sent, faults>>
    BY <1>5, LocalOf DEF Refused, Working
  <2>2. Local(r, Retried(request[r]), sent[r]) /\ Retried(request[r]).conn = Free
    BY <2>1, LocalOf, RetriedLocal, RetriedFields
  <2>3. RequestInv'
    BY <2>1, <2>2, LocalOf, UnsentStep
  <2>4. ConnectionInv' /\ conn' \in [Connections -> ConnRecords]
    BY <2>1, <2>2, FreeStep
  <2> QED BY <1>1, <2>1, <2>3, <2>4, OthersIntro DEF Kept, OthersInv
<1>6. CASE Write(r)
  <2> DEFINE c == request[r].conn
             q == Written(request[r])
  <2>1. /\ request[r].pc = "write" /\ c \in Connections /\ c # Free
        /\ conn' = [conn EXCEPT ![c].asked = r]
        /\ UNCHANGED <<pool, running, faults>>
    BY <1>6, LocalOf, ClientAssumption DEF Write, Working
  <2>2. /\ request' = [request EXCEPT ![r] = q]
        /\ sent' = [sent EXCEPT ![r] = sent[r] + 1]
    BY <1>6 DEF Write, Written
  <2>3. conn[c] \in ConnRecords /\ conn[c].answer = Free
    BY <1>1, <2>1 DEF OthersInv, ConnectionInv, HeldInv
  <2>4. /\ conn' \in [Connections -> ConnRecords]
        /\ \A d \in Connections : d # c => conn'[d] = conn[d]
        /\ conn'[c].open = conn[c].open /\ conn'[c].host = conn[c].host
        /\ conn'[c].asked = r /\ conn'[c].answer = Free
    <3> DEFINE x == [conn[c] EXCEPT !.asked = r]
    <3>1. /\ x \in ConnRecords /\ x.open = conn[c].open /\ x.host = conn[c].host
          /\ x.asked = r /\ x.answer = Free
      BY <2>3 DEF ConnRecords
    <3>2. conn' = [conn EXCEPT ![c] = x]
      BY <2>1
    <3> HIDE DEF x
    <3> QED BY <1>1, <2>1, <3>1, <3>2 DEF OthersInv
  <2>5. Local(r, q, sent[r] + 1) /\ q.conn = c /\ q.pc = "read"
    BY <2>1, LocalOf, WrittenLocal DEF Written, RequestRecords
  <2> HIDE DEF q, c
  <2>6. RequestInv'
    BY <2>2, <2>5, LocalOf, LocalStep
  <2>7. ConnectionInv'
    BY <2>1, <2>2, <2>4, <2>5, WorkStep DEF c
  <2> QED BY <1>1, <2>1, <2>4, <2>6, <2>7, OthersIntro DEF Kept, OthersInv
<1>7. CASE WriteTooLarge(r)
  <2>1. /\ request[r].pc = "write" /\ conn' = Closed(request[r].conn)
        /\ request' = [request EXCEPT ![r] = Finished(@, "too_large")]
        /\ UNCHANGED <<pool, running, sent, faults>>
    BY <1>7 DEF WriteTooLarge
  <2>2. /\ request' = [request EXCEPT ![r] = Finished(request[r], "too_large")]
        /\ Finished(request[r], "too_large").conn = Free /\ RequestInv'
    BY <2>1, FinishedStep DEF Results
  <2>3. request[r].conn \in Connections
    BY <2>1, LocalOf DEF Working
  <2>4. ConnectionInv' /\ conn' \in [Connections -> ConnRecords]
    BY <2>1, <2>2, <2>3, DropStep
  <2> QED BY <1>1, <2>1, <2>2, <2>4, OthersIntro DEF Kept, OthersInv
<1>8. CASE Breaks(r) \/ TimesOut(r) \/ AnswerTooLarge(r)
  <2>1. /\ request[r].pc \in Working /\ conn' = Closed(request[r].conn)
        /\ request' = [request EXCEPT ![r] = Retried(@)]
        /\ UNCHANGED <<pool, running, sent, faults>>
    BY <1>8 DEF Breaks, TimesOut, AnswerTooLarge, Working
  <2> QED BY <2>1, FailedStep
<1>9. CASE Read(r)
  <2> DEFINE c == request[r].conn
             q == Answered(request[r], r)
  <2>1. /\ request[r].pc = "read" /\ c \in Connections /\ c # Free
        /\ conn[c].answer # Free
        /\ conn' = [conn EXCEPT ![c].asked = Free, ![c].answer = Free, ![c].size = 0]
        /\ request' = [request EXCEPT ![r].pc = "put", ![r].answer = conn[c].answer]
        /\ UNCHANGED <<pool, running, sent, faults>>
    BY <1>9, LocalOf, ClientAssumption DEF Read, Working
  <2>2. conn[c] \in ConnRecords /\ conn[c].answer = r
    BY <1>1, <2>1 DEF OthersInv, ConnectionInv, HeldInv
  <2>3. request' = [request EXCEPT ![r] = q]
    BY <2>1, <2>2 DEF Answered
  <2>4. /\ conn' \in [Connections -> ConnRecords]
        /\ \A d \in Connections : d # c => conn'[d] = conn[d]
        /\ conn'[c].open = conn[c].open /\ conn'[c].host = conn[c].host
        /\ conn'[c].asked = Free /\ conn'[c].answer = Free
    <3> DEFINE y == [conn[c] EXCEPT !.asked = Free]
               z == [y EXCEPT !.answer = Free]
               x == [z EXCEPT !.size = 0]
    <3>1. y \in ConnRecords /\ y.open = conn[c].open /\ y.host = conn[c].host /\ y.asked = Free
      BY <2>2 DEF ConnRecords
    <3>2. conn' = [conn EXCEPT ![c] = x]
      BY <2>1
    <3> HIDE DEF y
    <3>3. /\ z \in ConnRecords /\ z.open = y.open /\ z.host = y.host
          /\ z.asked = y.asked /\ z.answer = Free
      BY <3>1 DEF ConnRecords
    <3> HIDE DEF z
    <3>4. /\ x \in ConnRecords /\ x.open = z.open /\ x.host = z.host
          /\ x.asked = z.asked /\ x.answer = z.answer
      BY <3>3, ClientAssumption DEF ConnRecords
    <3> HIDE DEF x
    <3>5. conn \in [Connections -> ConnRecords] /\ c \in Connections
      BY <1>1, <2>1 DEF OthersInv
    <3> HIDE DEF c
    <3>6. /\ conn' \in [Connections -> ConnRecords] /\ conn'[c] = x
          /\ \A d \in Connections : d # c => conn'[d] = conn[d]
      BY <3>2, <3>4, <3>5
    <3> QED BY <3>1, <3>3, <3>4, <3>6
  <2>5. Local(r, q, sent[r]) /\ q.conn = c
    BY <2>1, LocalOf, AnsweredLocal DEF Answered, RequestRecords
  <2> HIDE DEF q, c
  <2>6. RequestInv'
    BY <2>1, <2>3, <2>5, LocalOf, UnsentStep
  <2>7. ConnectionInv'
    <3>1. request[r].conn = c /\ c \in Connections /\ pool' = pool
      BY <2>1 DEF c
    <3>2. conn'[c].asked \in {Free, r} /\ conn'[c].answer \in {Free, r}
      BY <2>4
    <3> QED BY <2>3, <2>4, <2>5, <3>1, <3>2, WorkStep
  <2> QED BY <1>1, <2>1, <2>4, <2>6, <2>7, OthersIntro DEF Kept, OthersInv
<1>10. ASSUME NEW h \in Hosts \cup {NoHost}, ReadRedirect(r, h) PROVE Kept
  <2> DEFINE q == Redirected(request[r], h)
  <2>1. /\ request[r].pc = "read" /\ request[r].conn \in Connections
        /\ conn' = Closed(request[r].conn) /\ UNCHANGED <<pool, running, sent>>
        /\ Fault
    BY <1>10, LocalOf DEF ReadRedirect, Working
  <2>2. request' = [request EXCEPT ![r] = q]
    BY <1>10 DEF ReadRedirect, Redirected
  <2>3. Local(r, q, sent[r]) /\ q.conn = Free
    BY <2>1, LocalOf, RedirectedLocal DEF Redirected, RequestRecords
  <2> HIDE DEF q
  <2>4. RequestInv'
    BY <2>1, <2>2, <2>3, LocalOf, UnsentStep
  <2>5. ConnectionInv' /\ conn' \in [Connections -> ConnRecords]
    BY <2>1, <2>2, <2>3, DropStep
  <2>6. faults' \in 0..MaxFaults
    BY <1>1, <2>1, ClientAssumption DEF Fault, OthersInv
  <2> QED BY <1>1, <2>1, <2>4, <2>5, <2>6, OthersIntro DEF Kept, OthersInv
<1>11. CASE Put(r)
  <2> DEFINE c == request[r].conn
             q == Finished(request[r], "answered")
             room == Len(pool[conn[c].host]) < MaxIdle
  <2>1. /\ request[r].pc = "put" /\ c \in Connections /\ c # Free
        /\ request' = [request EXCEPT ![r] = Finished(@, "answered")]
        /\ UNCHANGED <<running, sent, faults>>
    BY <1>11, LocalOf, ClientAssumption DEF Put, Working
  <2>2. conn[c].host \in Hosts
    BY <1>1, <2>1 DEF ConnectionInv, HeldInv
  <2>3. /\ request' = [request EXCEPT ![r] = q] /\ q.conn = Free /\ RequestInv'
    BY <2>1, FinishedStep DEF Results
  <2>4. CASE room
    <3>1. pool' = [pool EXCEPT ![conn[c].host] = Append(@, c)] /\ UNCHANGED conn
      BY <1>11, <2>4 DEF Put
    <3> HIDE DEF q
    <3>2. ConnectionInv' /\ pool' \in [Hosts -> Seq(Connections)]
      BY <2>1, <2>2, <2>3, <3>1, GiveBackStep
    <3> QED BY <1>1, <2>1, <2>3, <3>1, <3>2, OthersIntro DEF Kept, OthersInv
  <2>5. CASE ~room
    <3>1. UNCHANGED pool /\ conn' = Closed(c)
      BY <1>11, <2>5 DEF Put
    <3> HIDE DEF q
    <3>2. ConnectionInv' /\ conn' \in [Connections -> ConnRecords]
      BY <2>1, <2>3, <3>1, DropStep
    <3> QED BY <1>1, <2>1, <2>3, <3>1, <3>2, OthersIntro DEF Kept, OthersInv
  <2> QED BY <2>4, <2>5
<1> QED BY <1>2, <1>3, <1>4, <1>5, <1>6, <1>7, <1>8, <1>9, <1>10, <1>11 DEF Client

LEMMA BeginKeeps ==
    ASSUME IInv, NEW r \in Requests, NEW h \in Hosts, Begin(r, h) PROVE Kept
<1> DEFINE q == [NoRequest EXCEPT !.pc = "get", !.host = h]
<1>1. /\ request[r].conn = Free /\ OthersInv
      /\ request' = [request EXCEPT ![r] = q] /\ sent' = [sent EXCEPT ![r] = 0]
      /\ UNCHANGED <<conn, pool, running, faults>>
  BY LocalOf DEF Begin, At, Working, IInv
<1>2. /\ q \in RequestRecords /\ q.pc = "get" /\ q.conn = Free
      /\ q.retry = 0 /\ q.redirect = 0 /\ q.result = "none"
  <2>1. /\ NoRequest \in RequestRecords /\ NoRequest.conn = Free
        /\ NoRequest.retry = 0 /\ NoRequest.redirect = 0 /\ NoRequest.result = "none"
    BY ClientAssumption DEF NoRequest, RequestRecords, Results
  <2> HIDE DEF NoRequest
  <2> QED BY <2>1 DEF RequestRecords
<1> HIDE DEF q
<1>3. Local(r, q, 0)
  <2>1. Used(q) = 0 /\ Attempt(q) /\ OwnResult(r, q)
    BY <1>2 DEF Used, Attempt, OwnResult, Working
  <2>2. Total \in Nat
    BY ClientAssumption DEF Total
  <2>3. q.redirect * (MaxRetries + 1) = 0
    BY <1>2, ClientAssumption
  <2>4. Counted(q, 0)
    BY <1>2, <2>1, <2>2, <2>3, ClientAssumption DEF Counted
  <2> QED BY <1>2, <2>1, <2>4 DEF Local
<1>4. RequestInv'
  BY <1>1, <1>3, LocalOf, LocalStep
<1>5. ConnectionInv' /\ conn' \in [Connections -> ConnRecords]
  BY <1>1, <1>2, FreeStep
<1> QED BY <1>1, <1>4, <1>5, OthersIntro DEF Kept, OthersInv

LEMMA ReturnKeeps ==
    ASSUME IInv, NEW r \in Requests, Return(r) PROVE Kept
<1>1. /\ request[r].conn = Free /\ OthersInv /\ Counted(request[r], sent[r])
      /\ request' = [request EXCEPT ![r] = NoRequest]
      /\ UNCHANGED <<conn, pool, running, sent, faults>>
  BY LocalOf DEF Return, At, Working, IInv, Local
<1>2. /\ NoRequest \in RequestRecords /\ NoRequest.pc = "idle" /\ NoRequest.conn = Free
      /\ NoRequest.retry = 0 /\ NoRequest.redirect = 0 /\ NoRequest.result = "none"
  BY ClientAssumption DEF NoRequest, RequestRecords, Results
<1>3. Local(r, NoRequest, sent[r])
  <2>1. Used(NoRequest) = 0 /\ Attempt(NoRequest) /\ OwnResult(r, NoRequest)
    BY <1>2 DEF Used, Attempt, OwnResult, Working
  <2>2. Counted(NoRequest, sent[r])
    BY <1>1, <1>2, <2>1, ClientAssumption DEF Counted
  <2> QED BY <1>2, <2>1, <2>2 DEF Local
<1>4. RequestInv'
  BY <1>1, <1>3, LocalOf, UnsentStep
<1>5. ConnectionInv' /\ conn' \in [Connections -> ConnRecords]
  BY <1>1, <1>2, FreeStep
<1> QED BY <1>1, <1>4, <1>5, OthersIntro DEF Kept, OthersInv

LEMMA AgentKeeps ==
    ASSUME IInv, Agent PROVE Kept
<1>1. RequestInv /\ OthersInv /\ ConnectionInv
  BY DEF IInv
<1>2. UNCHANGED <<request, pool, sent>>
  BY DEF Agent, SessionExpires, Answer, AgentEnds, AgentStarts
<1>3. RequestInv'
  BY <1>1, <1>2 DEF RequestInv, Local, Attempt, OwnResult, Counted, Used, Working, Total,
                    RequestRecords, Results
<1>4. running' \subseteq Hosts /\ faults' \in 0..MaxFaults
  <2>1. running' \subseteq Hosts
    BY <1>1 DEF OthersInv, Agent, SessionExpires, Answer, AgentEnds, AgentStarts
  <2>2. Fault \/ UNCHANGED faults
    BY DEF Agent, SessionExpires, Answer, AgentEnds, AgentStarts
  <2>3. faults' \in 0..MaxFaults
    BY <1>1, <2>2, ClientAssumption DEF OthersInv, Fault
  <2> QED BY <2>1, <2>3
<1> DEFINE Same(c) ==
              /\ conn'[c].open = conn[c].open /\ conn'[c].host = conn[c].host
              /\ conn'[c].asked = conn[c].asked
              /\ \/ conn'[c].answer = conn[c].answer
                 \/ conn[c].asked # Free /\ conn'[c].answer = conn[c].asked
<1>5. conn' \in [Connections -> ConnRecords] /\ \A c \in Connections : Same(c)
  <2>1. ASSUME NEW c \in Connections, NEW x \in ConnRecords, conn' = [conn EXCEPT ![c] = x],
               x.open = conn[c].open, x.host = conn[c].host, x.asked = conn[c].asked,
               \/ x.answer = conn[c].answer
               \/ conn[c].asked # Free /\ x.answer = conn[c].asked
        PROVE  conn' \in [Connections -> ConnRecords] /\ \A d \in Connections : Same(d)
    BY <1>1, <2>1 DEF OthersInv
  <2>2. ASSUME NEW c \in Connections PROVE conn[c] \in ConnRecords
    BY <1>1 DEF OthersInv
  <2>3. ASSUME NEW c \in Connections, NEW s \in 1..MaxSize, Answer(c, s)
        PROVE  conn' \in [Connections -> ConnRecords] /\ \A d \in Connections : Same(d)
    <3> DEFINE y == [conn[c] EXCEPT !.answer = conn[c].asked]
               x == [y EXCEPT !.size = s]
    <3>1. conn' = [conn EXCEPT ![c] = x]
      BY <2>3 DEF Answer
    <3>2. conn[c] \in ConnRecords /\ conn[c].asked # Free
      BY <2>2, <2>3 DEF Answer
    <3>3. /\ y \in ConnRecords /\ y.open = conn[c].open /\ y.host = conn[c].host
          /\ y.asked = conn[c].asked /\ y.answer = conn[c].asked
      BY <3>2 DEF ConnRecords
    <3> HIDE DEF y
    <3>4. /\ x \in ConnRecords /\ x.open = y.open /\ x.host = y.host
          /\ x.asked = y.asked /\ x.answer = y.answer
      BY <3>3, ClientAssumption DEF ConnRecords
    <3> HIDE DEF x
    <3> QED BY <2>1, <3>1, <3>2, <3>3, <3>4
  <2>4. ASSUME NEW c \in Connections, SessionExpires(c)
        PROVE  conn' \in [Connections -> ConnRecords] /\ \A d \in Connections : Same(d)
    <3> DEFINE x == [conn[c] EXCEPT !.agent = FALSE]
    <3>1. conn' = [conn EXCEPT ![c] = x]
      BY <2>4 DEF SessionExpires
    <3>2. /\ x \in ConnRecords /\ x.open = conn[c].open /\ x.host = conn[c].host
          /\ x.asked = conn[c].asked /\ x.answer = conn[c].answer
      BY <2>2 DEF ConnRecords
    <3> HIDE DEF x
    <3> QED BY <2>1, <3>1, <3>2
  <2>5. ASSUME NEW h \in Hosts, AgentEnds(h)
        PROVE  conn' \in [Connections -> ConnRecords] /\ \A d \in Connections : Same(d)
    <3> DEFINE f(c) == [conn[c] EXCEPT !.agent = FALSE]
               g(c) == IF conn[c].host = h THEN f(c) ELSE conn[c]
    <3>1. conn' = [c \in Connections |-> g(c)]
      BY <2>5 DEF AgentEnds
    <3>2. ASSUME NEW c \in Connections
          PROVE  /\ f(c) \in ConnRecords /\ f(c).open = conn[c].open /\ f(c).host = conn[c].host
                 /\ f(c).asked = conn[c].asked /\ f(c).answer = conn[c].answer
      BY <2>2 DEF ConnRecords
    <3> HIDE DEF f
    <3>3. ASSUME NEW c \in Connections
          PROVE  /\ g(c) \in ConnRecords /\ g(c).open = conn[c].open /\ g(c).host = conn[c].host
                 /\ g(c).asked = conn[c].asked /\ g(c).answer = conn[c].answer
      BY <2>2, <3>2
    <3> HIDE DEF g
    <3> QED BY <3>1, <3>3
  <2>6. ASSUME NEW h \in Hosts, AgentStarts(h)
        PROVE  conn' \in [Connections -> ConnRecords] /\ \A d \in Connections : Same(d)
    BY <1>1, <2>6 DEF AgentStarts, OthersInv
  <2> QED BY <2>3, <2>4, <2>5, <2>6 DEF Agent
<1>6. ConnectionInv'
  BY <1>2, <1>5, AgentStep
<1> QED BY <1>1, <1>2, <1>3, <1>4, <1>5, <1>6, OthersIntro DEF Kept, OthersInv

LEMMA IInvNext == IInv /\ [Next]_vars => IInv'
<1> SUFFICES ASSUME IInv, [Next]_vars PROVE Kept
  BY DEF Kept, IInv
<1>1. CASE Next
  BY <1>1, ClientKeeps, BeginKeeps, ReturnKeeps, AgentKeeps DEF Next
<1>2. CASE UNCHANGED vars
  <2>1. RequestInv /\ OthersInv /\ ConnectionInv
    BY DEF IInv
  <2>2. RequestInv'
    BY <1>2, <2>1 DEF vars, RequestInv, Local, Attempt, OwnResult, Counted, Used, Working, Total,
                      RequestRecords, Results
  <2>3. OthersInv'
    BY <1>2, <2>1 DEF vars, OthersInv, ConnRecords
  <2>4. ConnectionInv'
    BY <1>2, <2>1 DEF vars, ConnectionInv, HeldInv, PooledInv, OpenInv, Pooled, Held
  <2> QED BY <2>2, <2>3, <2>4 DEF Kept
<1> QED BY <1>1, <1>2

-----------------------------------------------------------------------------
(* The theorems.                                                            *)

THEOREM InvariantHolds == Spec => []IInv
BY IInvInit, IInvNext, PTL DEF Spec

(* Every variable of the client and the agents keeps its type: in           *)
(* particular no request is beyond one attempt more than it has.            *)
THEOREM TypeCorrect == Spec => []TypeOK
BY InvariantHolds, TypeFromIInv, PTL

(* A connection that is open has one holder, a request or a place in the    *)
(* pool of its host, on every path of request_impl.                         *)
THEOREM OneHolderHolds == Spec => []OneHolder
BY InvariantHolds, HolderFromIInv, PTL

(* A request is answered with its own answer, and no answer is to come on   *)
(* an idle connection.                                                      *)
THEOREM OwnAnswerHolds == Spec => []OwnAnswer
BY InvariantHolds, AnswerFromIInv, PTL

(* Retries and redirections together send a request no more often than      *)
(* (MaxRetries + 1) * (MaxRedirects + 1) times.                             *)
THEOREM SendsAreBoundedHolds == Spec => []SendsAreBounded
BY InvariantHolds, SendsFromIInv, PTL
==============================================================================
