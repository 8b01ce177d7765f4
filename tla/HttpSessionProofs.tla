-------------------------- MODULE HttpSessionProofs --------------------------
(***************************************************************************)
(* Proofs about HttpSession for any clients, kinds of requests, threads    *)
(* and bounds: types, what the handlers are given, the order of answers,   *)
(* and that clients that wait are served.                                  *)
(***************************************************************************)
EXTENDS HttpSession, SequenceTheorems, TLAPS

(* The invariant is one of each client; its parts have the client's state   *)
(* as parameters: k its kinds, s sending, w wire, q its session, h handled, *)
(* g got; out and late are gone and expired.                                *)

Records == [req: Numbers, body: Seq(Units)]

Typed(k, s, w, q, h, g) ==
    /\ k \in Seq(Kinds) /\ Len(k) <= MaxRequests
    /\ s \in Seq(Units) /\ w \in Seq(Units)
    /\ q \in Sessions /\ Len(q.body) <= 2
    /\ h \in Seq(Records) /\ g \in Seq(0..MaxRequests)

-----------------------------------------------------------------------------
(* The stream.                                                              *)

Before(u, v) == u[1] < v[1] \/ (u[1] = v[1] /\ u[2] < v[2])

Following(k, u) ==
    IF u[2] < Size(k[u[1]]) THEN <<u[1], u[2] + 1>> ELSE <<u[1] + 1, 1>>

(* What arrived at the socket and was not read is a part of the stream,     *)
(* which goes on with what the client has still to send.                    *)
Arrived(k, w) ==
    /\ \A x \in DOMAIN w : w[x][1] <= Len(k) /\ w[x][2] <= Size(k[w[x][1]])
    /\ \A x, y \in DOMAIN w : x < y => Before(w[x], w[y])
    /\ \A x \in DOMAIN w : x + 1 \in DOMAIN w => w[x + 1] = Following(k, w[x])

ToSend(k, s) ==
    s # << >> => /\ Len(k) >= 1 /\ Len(s) <= Size(k[Len(k)])
                 /\ \A x \in DOMAIN s : s[x] = <<Len(k), Size(k[Len(k)]) - Len(s) + x>>

Joined(c, out, k, s, w) ==
    /\ w # << >> /\ s # << >> => s[1] = Following(k, w[Len(w)])
    /\ w # << >> /\ s = << >> /\ c \notin out => w[Len(w)] = <<Len(k), Size(k[Len(k)])>>
    /\ \A x \in DOMAIN w, y \in DOMAIN s : Before(w[x], s[y])

Stream(c, out, k, s, w) == Arrived(k, w) /\ ToSend(k, s) /\ Joined(c, out, k, s, w)

-----------------------------------------------------------------------------
(* The session and what it has read of a request.                           *)

Reading == {"body", "upload"}
Busy == Reading \cup {"handle", "write", "send"}

Parts(i, body) == \A x \in DOMAIN body : body[x] = <<i, x + 2>>

Request(c, out, k, s, w, q) ==
    q.pc \in Busy =>
        /\ q.req \in DOMAIN k /\ Parts(q.req, q.body)
        /\ Len(q.body) <= BodySize(k[q.req])
        /\ q.pc \in Reading <=> Len(q.body) < BodySize(k[q.req])
        /\ q.pc \in Reading =>
              /\ w # << >> => w[1] = <<q.req, Len(q.body) + 3>>
              /\ w = << >> /\ s # << >> => s[1] = <<q.req, Len(q.body) + 3>>
              /\ w = << >> /\ s = << >> => c \in out

(* The latest request that was handled, or that the session is at.          *)
Last(h) == IF h = << >> THEN 0 ELSE h[Len(h)].req
Latest(q, h) == IF q.pc \in Busy THEN q.req ELSE Last(h)

Order(s, w, q, h, g) ==
    /\ \A x \in DOMAIN w : Before(<<Latest(q, h), 1>>, w[x])
    /\ \A x \in DOMAIN s : Before(<<Latest(q, h), 1>>, s[x])
    /\ q.pc \in Reading \cup {"handle"} => Last(h) < q.req
    /\ q.pc \in {"write", "send"} => Last(h) = q.req
    /\ q.pc \in {"write", "send"} => \A i \in DOMAIN g : g[i] < q.req
    /\ q.pc # "closed" => \A i \in DOMAIN g : g[i] # 0
    /\ \A i \in DOMAIN g : g[i] <= Last(h)

Whole(k, h) ==
    \A i \in DOMAIN h :
        /\ h[i].req \in DOMAIN k
        /\ h[i].body = [x \in 1..BodySize(k[h[i].req]) |-> <<h[i].req, x + 2>>]
        /\ i > 1 => h[i - 1].req < h[i].req

Rising(g) == \A i, j \in DOMAIN g : i < j => g[i] # 0 /\ (g[j] = 0 \/ g[i] < g[j])

(* A client that waits has one request under way at most.                   *)
Served(c, out, late, k, s, w, q, g) ==
    (\A i \in DOMAIN k : k[i] # "unread") =>
        /\ \A i \in DOMAIN g : g[i] = i
        /\ q.pc # "error"
        /\ q.pc = "closed" => \/ c \in out \cup late
                              \/ k # << >> /\ k[Len(k)] = "close" /\ Len(g) = Len(k)
        /\ q.pc # "closed" => Len(g) = Len(k) \/ Len(g) = Len(k) - 1
        /\ q.pc \in Busy => q.req = Len(k) /\ Len(g) = Len(k) - 1
        /\ q.pc \in Busy \ Reading => s = << >> /\ w = << >>
        /\ q.pc = "header" =>
              /\ \A x \in DOMAIN w : w[x] = <<Len(k), x>>
              /\ s # << >> => s[1] = <<Len(k), Len(w) + 1>>
              /\ Len(g) = Len(k) => s = << >> /\ w = << >>

Inv(c, out, late, k, s, w, q, h, g) ==
    /\ Typed(k, s, w, q, h, g) /\ Stream(c, out, k, s, w) /\ Request(c, out, k, s, w, q)
    /\ Order(s, w, q, h, g) /\ Whole(k, h) /\ Rising(g)
    /\ c \in out => s = << >>
    /\ c \in Waiting => Served(c, out, late, k, s, w, q, g)

ClientInv(c) == Inv(c, gone, expired, kinds[c], sending[c], wire[c], session[c],
                    handled[c], got[c])

IInv == TypeOK /\ \A c \in Clients : ClientInv(c)

-----------------------------------------------------------------------------
LEMMA Sizes ==
    ASSUME NEW kind \in Kinds
    PROVE  /\ Size(kind) \in 2..4 /\ BodySize(kind) \in {0, 2}
           /\ BodySize(kind) = 2 => Size(kind) = 4
BY DEF Kinds, Size, BodySize

LEMMA UnitFacts ==
    ASSUME NEW u \in Units
    PROVE  u = <<u[1], u[2]>> /\ u[1] \in Numbers /\ u[2] \in 1..4 /\ u[1] \in Nat /\ u[2] \in Nat
           /\ u[1] >= 1
BY SessionAssumption DEF Units, Numbers

(* A sequence without its first element and with one more at the end.       *)
LEMMA TailFacts ==
    ASSUME NEW S, NEW s \in Seq(S), s # << >>
    PROVE  /\ Tail(s) \in Seq(S) /\ Len(Tail(s)) = Len(s) - 1 /\ Len(s) \in Nat /\ Len(s) >= 1
           /\ Head(s) = s[1] /\ s[1] \in S
           /\ \A x \in DOMAIN Tail(s) : x + 1 \in DOMAIN s /\ x \in Nat /\ x >= 1
                                        /\ Tail(s)[x] = s[x + 1]
           /\ Tail(s) = << >> <=> Len(s) = 1
<1> DEFINE m == Len(s)
<1>1. m \in Nat /\ m >= 1
  BY EmptySeq
<1>2. /\ Tail(s) \in Seq(S) /\ Len(Tail(s)) = m - 1
      /\ \A x \in 1..m - 1 : Tail(s)[x] = s[x + 1]
  BY <1>1
<1>3. DOMAIN Tail(s) = 1..m - 1 /\ DOMAIN s = 1..m
  BY <1>2
<1>4. Tail(s) = << >> <=> Len(Tail(s)) = 0
  BY <1>2, EmptySeq
<1>5. Head(s) = s[1] /\ s[1] \in S
  BY <1>1
<1> HIDE DEF m
<1>6. \A x \in 1..m - 1 : x + 1 \in 1..m /\ x \in Nat /\ x >= 1
  BY <1>1
<1>7. m - 1 = 0 <=> m = 1
  BY <1>1
<1> QED BY <1>1, <1>2, <1>3, <1>4, <1>5, <1>6, <1>7 DEF m

LEMMA AppendFacts ==
    ASSUME NEW S, NEW s \in Seq(S), NEW e \in S
    PROVE  /\ Append(s, e) \in Seq(S) /\ Len(Append(s, e)) = Len(s) + 1 /\ Len(s) \in Nat
           /\ DOMAIN s = 1..Len(s) /\ DOMAIN Append(s, e) = 1..(Len(s) + 1)
           /\ Append(s, e)[Len(s) + 1] = e
           /\ \A x \in DOMAIN s : Append(s, e)[x] = s[x]
           /\ Append(s, e) # << >>
           /\ \A x \in DOMAIN Append(s, e) :
                 x \in Nat /\ (x = Len(s) + 1 \/ (x \in DOMAIN s /\ x < Len(s) + 1))
<1> DEFINE m == Len(s)
<1>1. /\ Append(s, e) \in Seq(S) /\ Len(Append(s, e)) = m + 1 /\ m \in Nat
      /\ DOMAIN s = 1..m /\ DOMAIN Append(s, e) = 1..(m + 1)
      /\ Append(s, e)[m + 1] = e
      /\ \A x \in DOMAIN s : Append(s, e)[x] = s[x]
      /\ Append(s, e) # << >>
  BY AppendProperties
<1> HIDE DEF m
<1>2. ASSUME NEW x \in 1..(m + 1)
      PROVE  x \in Nat /\ (x = m + 1 \/ (x \in 1..m /\ x < m + 1))
  <2>1. x \in Nat /\ x >= 1 /\ x <= m + 1
    BY <1>1
  <2>2. x # m + 1 => x <= m /\ x < m + 1
    BY <1>1, <2>1
  <2> QED BY <1>1, <2>1, <2>2
<1> QED BY <1>1, <1>2 DEF m

(* A piece of the stream arrives.                                           *)
LEMMA SendStream ==
    ASSUME NEW c, NEW out, NEW k \in Seq(Kinds), NEW s \in Seq(Units), NEW w \in Seq(Units),
           Stream(c, out, k, s, w), s # << >>
    PROVE  Stream(c, out, k, Tail(s), Append(w, Head(s)))
<1> DEFINE n == Len(k)
           z == Size(k[Len(k)])
           m == Len(s)
           t == Tail(s)
           u == Head(s)
           v == Append(w, u)
<1>1. /\ n \in Nat /\ n >= 1 /\ m <= z /\ \A x \in DOMAIN s : s[x] = <<n, z - m + x>>
      /\ k[n] \in Kinds /\ z \in 2..4 /\ n \in DOMAIN k
  BY Sizes DEF Stream, ToSend
<1>2. /\ t \in Seq(Units) /\ Len(t) = m - 1 /\ m \in Nat /\ m >= 1 /\ u = s[1] /\ u \in Units
      /\ \A x \in DOMAIN t : x + 1 \in DOMAIN s /\ x \in Nat /\ x >= 1 /\ t[x] = s[x + 1]
      /\ t = << >> <=> m = 1
      /\ 1 \in DOMAIN s
  BY TailFacts
<1>3. /\ v \in Seq(Units) /\ Len(v) = Len(w) + 1 /\ Len(w) \in Nat
      /\ DOMAIN w = 1..Len(w) /\ DOMAIN v = 1..(Len(w) + 1)
      /\ v[Len(w) + 1] = u /\ v # << >>
      /\ \A x \in DOMAIN w : v[x] = w[x]
      /\ \A x \in DOMAIN v :
            x \in Nat /\ (x = Len(w) + 1 \/ (x \in DOMAIN w /\ x < Len(w) + 1))
  BY <1>2, AppendFacts
<1>4. u = <<n, z - m + 1>> /\ u[1] = n /\ u[2] = z - m + 1
  BY <1>1, <1>2
<1>5. \A x \in DOMAIN v : x = Len(w) + 1 \/ (x \in DOMAIN w /\ x < Len(w) + 1)
  BY <1>3
<1> HIDE DEF n, z, m, t, u, v
<1>6. ToSend(k, t)
  <2>1. ASSUME NEW x \in DOMAIN t PROVE t[x] = <<n, z - Len(t) + x>>
    <3>1. t[x] = <<n, z - m + (x + 1)>>
      <4>1. t[x] = s[x + 1] /\ x + 1 \in DOMAIN s
        BY <1>2
      <4> QED BY <1>1, <4>1
    <3>2. z - m + (x + 1) = z - Len(t) + x
      BY <1>1, <1>2
    <3> QED BY <3>1, <3>2
  <2>2. Len(t) <= z
    BY <1>1, <1>2
  <2> QED BY <1>1, <2>1, <2>2 DEF ToSend, n, z
<1>7. Arrived(k, v)
  <2>1. ASSUME NEW x \in DOMAIN v PROVE v[x][1] <= n /\ v[x][2] <= Size(k[v[x][1]])
    <3>1. CASE x \in DOMAIN w
      BY <1>3, <3>1 DEF Stream, Arrived, n
    <3>2. CASE x = Len(w) + 1
      <4>1. v[x] = u /\ Size(k[n]) = z
        BY <1>3, <3>2 DEF n, z
      <4>2. z - m + 1 <= z
        BY <1>1, <1>2
      <4> QED BY <1>1, <1>4, <4>1, <4>2
    <3> QED BY <1>5, <3>1, <3>2
  <2>2. ASSUME NEW x \in DOMAIN v, NEW y \in DOMAIN v, x < y PROVE Before(v[x], v[y])
    <3>1. x \in DOMAIN w
      BY <1>3, <1>5, <2>2
    <3>2. CASE y \in DOMAIN w
      BY <1>3, <2>2, <3>1, <3>2 DEF Stream, Arrived
    <3>3. CASE y = Len(w) + 1
      <4>1. Before(w[x], s[1])
        BY <1>2, <3>1 DEF Stream, Joined
      <4> QED BY <1>2, <1>3, <3>1, <3>3, <4>1
    <3> QED BY <1>5, <3>2, <3>3
  <2>3. ASSUME NEW x \in DOMAIN v, x + 1 \in DOMAIN v PROVE v[x + 1] = Following(k, v[x])
    <3>1. x \in DOMAIN w
      BY <1>3, <1>5, <2>3
    <3>2. CASE x + 1 \in DOMAIN w
      BY <1>3, <3>1, <3>2 DEF Stream, Arrived
    <3>3. CASE x + 1 = Len(w) + 1
      <4>1. x = Len(w) /\ w # << >>
        BY <1>3, <3>1, <3>3
      <4>2. s[1] = Following(k, w[Len(w)])
        BY <4>1 DEF Stream, Joined
      <4> QED BY <1>2, <1>3, <3>1, <3>3, <4>1, <4>2
    <3> QED BY <1>5, <2>3, <3>2, <3>3
  <2> QED BY <2>1, <2>2, <2>3 DEF Arrived, n
<1>8. Joined(c, out, k, t, v)
  <2>1. v[Len(v)] = u
    BY <1>3
  <2>2. ASSUME t # << >> PROVE t[1] = Following(k, u)
    <3>1. 1 \in DOMAIN t
      BY <1>2, <2>2
    <3>2. t[1] = <<n, z - m + (1 + 1)>>
      BY <1>1, <1>2, <3>1
    <3>3. u[2] < Size(k[u[1]]) /\ z - m + (1 + 1) = u[2] + 1
      BY <1>1, <1>2, <1>4, <2>2 DEF n, z
    <3> QED BY <1>4, <3>2, <3>3 DEF Following
  <2>3. ASSUME t = << >> PROVE u = <<n, z>>
    <3>1. z - m + 1 = z
      BY <1>1, <1>2, <2>3
    <3> QED BY <1>4, <3>1
  <2>4. ASSUME NEW x \in DOMAIN v, NEW y \in DOMAIN t PROVE Before(v[x], t[y])
    <3>1. CASE x \in DOMAIN w
      <4>1. Before(w[x], s[y + 1])
        BY <1>2, <3>1 DEF Stream, Joined
      <4> QED BY <1>2, <1>3, <3>1, <4>1
    <3>2. CASE x = Len(w) + 1
      <4>1. t[y] = <<n, z - m + (y + 1)>>
        BY <1>1, <1>2
      <4>2. t[y][1] = n /\ t[y][2] > u[2]
        <5>1. t[y][1] = n /\ t[y][2] = z - m + (y + 1)
          BY <4>1
        <5>2. z - m + (y + 1) > z - m + 1
          <6>1. y \in Int /\ y >= 1 /\ z \in Int /\ m \in Int
            BY <1>1, <1>2
          <6> QED BY <6>1
        <5> QED BY <1>4, <5>1, <5>2
      <4> QED BY <1>3, <1>4, <3>2, <4>2 DEF Before
    <3> QED BY <1>5, <3>1, <3>2
  <2> QED BY <2>1, <2>2, <2>3, <2>4 DEF Joined, n, z
<1> QED BY <1>6, <1>7, <1>8 DEF Stream, t, u, v

LEMMA SendKeeps ==
    ASSUME NEW c, NEW out, NEW late, NEW k, NEW s, NEW w, NEW q, NEW h, NEW g,
           Inv(c, out, late, k, s, w, q, h, g), s # << >>, c \notin out
    PROVE  Inv(c, out, late, k, Tail(s), Append(w, Head(s)), q, h, g)
<1> DEFINE t == Tail(s)
           v == Append(w, Head(s))
<1>1. /\ Typed(k, s, w, q, h, g) /\ Stream(c, out, k, s, w) /\ Request(c, out, k, s, w, q)
      /\ Order(s, w, q, h, g) /\ Whole(k, h) /\ Rising(g)
      /\ c \in Waiting => Served(c, out, late, k, s, w, q, g)
  BY DEF Inv
<1>2. /\ k \in Seq(Kinds) /\ s \in Seq(Units) /\ w \in Seq(Units)
  BY <1>1 DEF Typed
<1>3. Stream(c, out, k, t, v)
  BY <1>1, <1>2, SendStream
<1>4. /\ t \in Seq(Units) /\ Len(t) = Len(s) - 1 /\ Len(s) \in Nat /\ Len(s) >= 1
      /\ Head(s) = s[1] /\ s[1] \in Units
      /\ \A x \in DOMAIN t : x + 1 \in DOMAIN s /\ x \in Nat /\ x >= 1 /\ t[x] = s[x + 1]
      /\ 1 \in DOMAIN s
  BY <1>2, TailFacts
<1>5. /\ v \in Seq(Units) /\ Len(v) = Len(w) + 1 /\ Len(w) \in Nat
      /\ v[Len(w) + 1] = s[1] /\ v # << >>
      /\ \A x \in DOMAIN w : v[x] = w[x]
      /\ \A x \in DOMAIN v : x \in Nat /\ (x = Len(w) + 1 \/ (x \in DOMAIN w /\ x < Len(w) + 1))
  BY <1>2, <1>4, AppendFacts
<1>6. v[1] = IF w = << >> THEN s[1] ELSE w[1]
  <2>1. CASE w = << >>
    BY <1>5, <2>1
  <2>2. CASE w # << >>
    <3>1. 1 \in DOMAIN w
      BY <1>2, <2>2, EmptySeq
    <3> QED BY <1>5, <2>2, <3>1
  <2> QED BY <2>1, <2>2
<1> HIDE DEF t, v
<1>7. Request(c, out, k, t, v, q)
  BY <1>1, <1>5, <1>6 DEF Request
<1>8. Order(t, v, q, h, g)
  <2>1. \A x \in DOMAIN v : Before(<<Latest(q, h), 1>>, v[x])
    BY <1>1, <1>4, <1>5 DEF Order
  <2>2. \A x \in DOMAIN t : Before(<<Latest(q, h), 1>>, t[x])
    BY <1>1, <1>4 DEF Order
  <2> QED BY <1>1, <2>1, <2>2 DEF Order
<1>9. ASSUME Served(c, out, late, k, s, w, q, g) PROVE Served(c, out, late, k, t, v, q, g)
  <2> SUFFICES ASSUME \A i \in DOMAIN k : k[i] # "unread"
               PROVE  /\ q.pc \in Busy \ Reading => t = << >> /\ v = << >>
                      /\ q.pc = "header" =>
                            /\ \A x \in DOMAIN v : v[x] = <<Len(k), x>>
                            /\ t # << >> => t[1] = <<Len(k), Len(v) + 1>>
                            /\ Len(g) = Len(k) => t = << >> /\ v = << >>
    BY <1>9 DEF Served
  <2>1. q.pc \notin Busy \ Reading /\ (q.pc = "header" => Len(g) # Len(k))
    BY <1>9 DEF Served
  <2>2. ASSUME q.pc = "header"
        PROVE  (\A x \in DOMAIN v : v[x] = <<Len(k), x>>) /\ s[1] = <<Len(k), Len(w) + 1>>
    BY <1>5, <1>9, <2>2 DEF Served
  <2>3. ASSUME q.pc = "header", t # << >> PROVE t[1] = <<Len(k), Len(v) + 1>>
    <3> DEFINE z == Size(k[Len(k)])
    <3>1. /\ z \in 2..4 /\ \A x \in DOMAIN s : s[x] = <<Len(k), z - Len(s) + x>>
      BY <1>1, <1>2, Sizes DEF Stream, ToSend
    <3>2. 1 \in DOMAIN t /\ t[1] = s[1 + 1] /\ 1 + 1 \in DOMAIN s
      BY <1>4, <2>3, EmptySeq
    <3> HIDE DEF z
    <3>3. z - Len(s) + 1 = Len(w) + 1
      <4>1. s[1] = <<Len(k), z - Len(s) + 1>>
        BY <1>4, <3>1
      <4>2. s[1] = <<Len(k), Len(w) + 1>>
        BY <2>2, <2>3
      <4> QED BY <4>1, <4>2
    <3>4. z - Len(s) + (1 + 1) = Len(v) + 1
      BY <1>4, <1>5, <3>1, <3>3
    <3> QED BY <3>1, <3>2, <3>4
  <2> QED BY <2>1, <2>2, <2>3
<1>10. Typed(k, t, v, q, h, g)
  BY <1>1, <1>4, <1>5 DEF Typed
<1> QED BY <1>1, <1>3, <1>7, <1>8, <1>9, <1>10 DEF Inv, t, v

-----------------------------------------------------------------------------
(* The client.                                                              *)

LEMMA LatestFacts ==
    ASSUME NEW c, NEW out, NEW k, NEW s, NEW w, NEW q, NEW h, NEW g,
           Typed(k, s, w, q, h, g), Request(c, out, k, s, w, q), Whole(k, h)
    PROVE  /\ Latest(q, h) \in Nat /\ Latest(q, h) <= Len(k)
           /\ Last(h) \in Nat /\ Last(h) <= Len(k) /\ Len(k) \in Nat
<1>1. k \in Seq(Kinds) /\ h \in Seq(Records) /\ DOMAIN k = 1..Len(k) /\ Len(k) \in Nat
  BY DEF Typed
<1>2. Last(h) \in Nat /\ Last(h) <= Len(k)
  <2>1. CASE h = << >>
    BY <1>1, <2>1 DEF Last
  <2>2. CASE h # << >>
    <3>1. Len(h) \in DOMAIN h
      BY <1>1, <2>2, EmptySeq
    <3>2. h[Len(h)].req \in 1..Len(k)
      BY <1>1, <3>1 DEF Whole
    <3> QED BY <1>1, <2>2, <3>2 DEF Last
  <2> QED BY <2>1, <2>2
<1>3. q.pc \in Busy => q.req \in 1..Len(k)
  BY <1>1 DEF Request
<1> QED BY <1>1, <1>2, <1>3 DEF Latest

LEMMA BeginStream ==
    ASSUME NEW c, NEW out, NEW k \in Seq(Kinds), NEW w \in Seq(Units), NEW kind \in Kinds,
           Stream(c, out, k, << >>, w), c \notin out, Len(k) < MaxRequests
    PROVE  /\ Stream(c, out, Append(k, kind), UnitsOf(Len(k) + 1, kind), w)
           /\ UnitsOf(Len(k) + 1, kind) \in Seq(Units)
           /\ UnitsOf(Len(k) + 1, kind) # << >>
           /\ \A x \in DOMAIN UnitsOf(Len(k) + 1, kind) :
                 x \in Nat /\ UnitsOf(Len(k) + 1, kind)[x] = <<Len(k) + 1, x>>
<1> DEFINE n == Len(k)
           z == Size(kind)
           s == UnitsOf(n + 1, kind)
           l == Append(k, kind)
<1>1. z \in 2..4 /\ n \in Nat /\ n + 1 \in Numbers
  BY Sizes, SessionAssumption DEF Numbers
<1>2. /\ l \in Seq(Kinds) /\ Len(l) = n + 1 /\ l[n + 1] = kind
      /\ \A i \in DOMAIN k : l[i] = k[i]
  BY AppendFacts
<1>3. \A x \in DOMAIN w : w[x][1] \in DOMAIN k /\ w[x] \in Units /\ w[x][1] <= n
  <2> SUFFICES ASSUME NEW x \in DOMAIN w
               PROVE  w[x][1] \in DOMAIN k /\ w[x] \in Units /\ w[x][1] <= n
    OBVIOUS
  <2>1. w[x] \in Units
    OBVIOUS
  <2>2. w[x][1] \in Nat /\ w[x][1] >= 1
    BY <2>1, UnitFacts
  <2>3. w[x][1] <= n
    BY DEF Stream, Arrived
  <2> QED BY <2>1, <2>2, <2>3
<1> HIDE DEF n, z, l
<1>4. s = [x \in 1..z |-> <<n + 1, x>>]
  BY DEF UnitsOf, z
<1>5. \A x \in 1..z : <<n + 1, x>> \in Units
  BY <1>1 DEF Units
<1>6. /\ s \in Seq(Units) /\ Len(s) = z /\ DOMAIN s = 1..z
      /\ \A x \in 1..z : s[x] = <<n + 1, x>>
  BY <1>1, <1>4, <1>5
<1> HIDE DEF s
<1>7. s # << >> /\ 1 \in 1..z /\ \A x \in 1..z : x \in Nat
  BY <1>1, <1>6, EmptySeq
<1>8. ToSend(l, s)
  <2>1. \A x \in 1..z : z - z + x = x
    BY <1>1
  <2>2. Size(l[Len(l)]) = z /\ Len(l) = n + 1 /\ n + 1 >= 1 /\ z <= z
    BY <1>1, <1>2 DEF z
  <2> QED BY <1>6, <2>1, <2>2 DEF ToSend
<1>9. Arrived(l, w)
  <2>1. \A x \in DOMAIN w : w[x][1] <= n + 1 /\ w[x][2] <= Size(l[w[x][1]])
    <3>1. \A x \in DOMAIN w : w[x][1] <= n + 1
      BY <1>1, <1>3, UnitFacts
    <3>2. \A x \in DOMAIN w : w[x][2] <= Size(l[w[x][1]])
      BY <1>2, <1>3 DEF Stream, Arrived
    <3> QED BY <3>1, <3>2
  <2>2. \A x \in DOMAIN w : Following(l, w[x]) = Following(k, w[x])
    BY <1>2, <1>3 DEF Following
  <2> QED BY <1>2, <2>1, <2>2 DEF Stream, Arrived
<1>10. Joined(c, out, l, s, w)
  <2>1. ASSUME w # << >> PROVE s[1] = Following(l, w[Len(w)])
    <3>1. Len(w) \in DOMAIN w
      BY <2>1, EmptySeq
    <3>2. w[Len(w)] = <<n, Size(k[n])>> /\ n \in DOMAIN k
      BY <1>3, <2>1, <3>1 DEF Stream, Joined, n
    <3>3. l[n] = k[n] /\ Size(k[n]) \in 2..4
      BY <1>2, <3>2, Sizes
    <3>4. Following(l, w[Len(w)]) = <<n + 1, 1>>
      BY <3>2, <3>3 DEF Following
    <3> QED BY <1>6, <1>7, <3>4
  <2>2. ASSUME NEW x \in DOMAIN w, NEW y \in DOMAIN s PROVE Before(w[x], s[y])
    <3>1. s[y][1] = n + 1 /\ w[x][1] <= n /\ w[x][1] \in Nat
      BY <1>3, <1>6, UnitFacts
    <3> QED BY <1>1, <3>1 DEF Before
  <2> QED BY <1>7, <2>1, <2>2 DEF Joined
<1> QED BY <1>6, <1>7, <1>8, <1>9, <1>10 DEF Stream, n, l, s

LEMMA BeginKeeps ==
    ASSUME NEW c, NEW out, NEW late, NEW k, NEW w, NEW q, NEW h, NEW g, NEW kind \in Kinds,
           Inv(c, out, late, k, << >>, w, q, h, g), c \notin out, q.pc # "closed",
           c \in Waiting => Len(g) = Len(k), Len(k) < MaxRequests
    PROVE  Inv(c, out, late, Append(k, kind), UnitsOf(Len(k) + 1, kind), w, q, h, g)
<1> DEFINE n == Len(k)
           s == UnitsOf(n + 1, kind)
           l == Append(k, kind)
<1>1. /\ Typed(k, << >>, w, q, h, g) /\ Stream(c, out, k, << >>, w)
      /\ Request(c, out, k, << >>, w, q) /\ Order(<< >>, w, q, h, g) /\ Whole(k, h)
      /\ Rising(g) /\ (c \in Waiting => Served(c, out, late, k, << >>, w, q, g))
  BY DEF Inv
<1>2. k \in Seq(Kinds) /\ w \in Seq(Units) /\ q \in Sessions /\ g \in Seq(0..MaxRequests)
  BY <1>1 DEF Typed
<1>3. /\ Stream(c, out, l, s, w) /\ s \in Seq(Units) /\ s # << >>
      /\ \A x \in DOMAIN s : x \in Nat /\ s[x] = <<n + 1, x>>
  BY <1>1, <1>2, BeginStream
<1>4. /\ l \in Seq(Kinds) /\ Len(l) = n + 1 /\ n \in Nat /\ l # << >>
      /\ DOMAIN k = 1..n /\ DOMAIN l = 1..(n + 1)
      /\ \A i \in DOMAIN k : l[i] = k[i]
  BY <1>2, AppendFacts
<1>5. \A i \in DOMAIN k : i \in DOMAIN l
  <2>1. \A i \in 1..n : i \in 1..(n + 1)
    BY <1>4
  <2> QED BY <1>4, <2>1
<1>6. Latest(q, h) \in Nat /\ Latest(q, h) <= n
  BY <1>1, LatestFacts
<1> HIDE DEF l, s, n
<1>7. Request(c, out, l, s, w, q)
  <2> SUFFICES ASSUME q.pc \in Busy PROVE Request(c, out, l, s, w, q)
    BY DEF Request
  <2>1. q.req \in DOMAIN l /\ l[q.req] = k[q.req]
    BY <1>1, <1>4, <1>5 DEF Request
  <2>2. q.pc \in Reading => w # << >>
    BY <1>1 DEF Request
  <2> QED BY <1>1, <2>1, <2>2 DEF Request
<1>8. Order(s, w, q, h, g)
  <2>1. ASSUME NEW x \in DOMAIN s PROVE Before(<<Latest(q, h), 1>>, s[x])
    <3>1. s[x][1] = n + 1 /\ Latest(q, h) < n + 1
      BY <1>3, <1>4, <1>6
    <3> QED BY <3>1 DEF Before
  <2> QED BY <1>1, <2>1 DEF Order
<1>9. Whole(l, h)
  BY <1>1, <1>4, <1>5 DEF Whole
<1>10. ASSUME c \in Waiting PROVE Served(c, out, late, l, s, w, q, g)
  <2> SUFFICES ASSUME \A i \in DOMAIN l : l[i] # "unread"
               PROVE  Served(c, out, late, l, s, w, q, g)
    BY DEF Served
  <2>1. \A i \in DOMAIN k : k[i] # "unread"
    BY <1>4, <1>5
  <2>2. Len(g) = n /\ n # n - 1
    BY <1>4, <1>10 DEF n
  <2>3. /\ \A i \in DOMAIN g : g[i] = i
        /\ q.pc # "error" /\ q.pc \notin Busy
        /\ q.pc = "header" => w = << >>
    BY <1>1, <1>10, <2>1, <2>2 DEF Served, n
  <2>4. q.pc = "header"
    BY <1>2, <2>3 DEF Sessions, Busy, Reading
  <2>5. w = << >> /\ Len(w) + 1 = 1 /\ DOMAIN w = {}
    BY <2>3, <2>4
  <2>6. s[1] = <<n + 1, 1>>
    <3>1. 1 \in DOMAIN s
      BY <1>3, EmptySeq
    <3> QED BY <1>3, <3>1
  <2>7. Len(g) = Len(l) - 1 /\ Len(g) # Len(l)
    BY <1>4, <2>2
  <2> QED BY <1>4, <2>3, <2>4, <2>5, <2>6, <2>7 DEF Served
<1>11. Typed(l, s, w, q, h, g)
  <2>1. n + 1 <= MaxRequests
    BY <1>4, SessionAssumption DEF n
  <2> QED BY <1>1, <1>3, <1>4, <2>1 DEF Typed
<1> QED BY <1>1, <1>3, <1>7, <1>8, <1>9, <1>10, <1>11 DEF Inv, l, s, n

LEMMA LeaveKeeps ==
    ASSUME NEW c, NEW out, NEW late, NEW k, NEW s, NEW w, NEW q, NEW h, NEW g,
           Inv(c, out, late, k, s, w, q, h, g), q.pc # "closed"
    PROVE  Inv(c, out \cup {c}, late, k, << >>, w, q, h, g)
<1> DEFINE left == out \cup {c}
<1>1. c \in left /\ << >> \in Seq(Units) /\ DOMAIN << >> = {}
  OBVIOUS
<1> HIDE DEF left
<1>2. Typed(k, << >>, w, q, h, g)
  BY <1>1 DEF Inv, Typed
<1>3. Stream(c, left, k, << >>, w)
  BY <1>1 DEF Inv, Stream, Arrived, ToSend, Joined
<1>4. Request(c, left, k, << >>, w, q)
  BY <1>1 DEF Inv, Request
<1>5. Order(<< >>, w, q, h, g)
  BY <1>1 DEF Inv, Order
<1>6. c \in Waiting => Served(c, left, late, k, << >>, w, q, g)
  BY <1>1 DEF Inv, Served
<1> QED BY <1>2, <1>3, <1>4, <1>5, <1>6 DEF Inv, left

(* Only what is said of its own client is in the sets.                      *)
LEMMA SetsKeep ==
    ASSUME NEW c, NEW out, NEW late, NEW k, NEW s, NEW w, NEW q, NEW h, NEW g, NEW o, NEW l,
           Inv(c, out, late, k, s, w, q, h, g), c \in o <=> c \in out,
           c \in late => c \in l
    PROVE  Inv(c, o, l, k, s, w, q, h, g)
<1>1. Stream(c, o, k, s, w)
  BY DEF Inv, Stream, Joined
<1>2. Request(c, o, k, s, w, q)
  BY DEF Inv, Request
<1>3. c \in Waiting => Served(c, o, l, k, s, w, q, g)
  BY DEF Inv, Served
<1> QED BY <1>1, <1>2, <1>3 DEF Inv

-----------------------------------------------------------------------------
(* The end of a request.                                                    *)

LEMMA SessionFacts ==
    /\ NextRequest \in Sessions /\ NextRequest.pc = "header" /\ NextRequest.body = << >>
    /\ Closed \in Sessions /\ Closed.pc = "closed" /\ Closed.body = << >>
    /\ [NextRequest EXCEPT !.pc = "error"] \in Sessions
    /\ [NextRequest EXCEPT !.pc = "error"].pc = "error"
    /\ [NextRequest EXCEPT !.pc = "error"].body = << >>
    /\ 0 \in 0..MaxRequests /\ Len(<< >>) = 0 /\ << >> \in Seq(Units)
<1>1. 0 \in 0..MaxRequests /\ << >> \in Seq(Units) /\ Len(<< >>) = 0
  BY SessionAssumption
<1> QED BY <1>1 DEF NextRequest, Closed, Sessions

(* What the client has got when the session closes.                         *)
Settled(c, out, late, k, h, g) ==
    /\ g \in Seq(0..MaxRequests) /\ Rising(g)
    /\ \A i \in DOMAIN g : g[i] <= Last(h)
    /\ c \in Waiting /\ (\A i \in DOMAIN k : k[i] # "unread") =>
          /\ \A i \in DOMAIN g : g[i] = i
          /\ \/ c \in out \cup late
             \/ k # << >> /\ k[Len(k)] = "close" /\ Len(g) = Len(k)

LEMMA CloseKeeps ==
    ASSUME NEW c, NEW out, NEW late, NEW k, NEW s, NEW w, NEW q, NEW h, NEW g, NEW r,
           Inv(c, out, late, k, s, w, q, h, g), Settled(c, out, late, k, h, r)
    PROVE  Inv(c, out, late, k, << >>, << >>, Closed, h, r)
<1>1. /\ Closed \in Sessions /\ Closed.pc = "closed" /\ Closed.body = << >>
      /\ Len(<< >>) = 0 /\ << >> \in Seq(Units) /\ DOMAIN << >> = {}
      /\ Closed.pc \notin Busy \cup Reading \cup {"header", "error"}
  BY SessionFacts DEF Busy, Reading
<1>2. Typed(k, << >>, << >>, Closed, h, r)
  BY <1>1 DEF Inv, Typed, Settled
<1>3. Stream(c, out, k, << >>, << >>)
  BY <1>1 DEF Stream, Arrived, ToSend, Joined
<1>4. Request(c, out, k, << >>, << >>, Closed)
  BY <1>1 DEF Request
<1>5. Order(<< >>, << >>, Closed, h, r)
  BY <1>1 DEF Order, Settled, Busy
<1>6. c \in Waiting => Served(c, out, late, k, << >>, << >>, Closed, r)
  BY <1>1 DEF Served, Settled
<1>7. Whole(k, h) /\ Rising(r)
  BY DEF Inv, Settled
<1> QED BY <1>2, <1>3, <1>4, <1>5, <1>6, <1>7 DEF Inv

LEMMA LeftOrLate ==
    ASSUME NEW c, NEW out, NEW late, NEW k, NEW s, NEW w, NEW q, NEW h, NEW g,
           Inv(c, out, late, k, s, w, q, h, g), c \in out \cup late
    PROVE  Settled(c, out, late, k, h, g)
BY DEF Inv, Typed, Order, Served, Settled

(* The client takes the answer to a request.                                *)
LEMMA AnswerFacts ==
    ASSUME NEW c, NEW out, NEW late, NEW k, NEW s, NEW w, NEW q, NEW h, NEW g,
           Inv(c, out, late, k, s, w, q, h, g), q.pc \in {"write", "send"}
    PROVE  /\ Append(g, q.req) \in Seq(0..MaxRequests) /\ Rising(Append(g, q.req))
           /\ q.req \in DOMAIN k /\ q.req = Last(h)
           /\ \A i \in DOMAIN Append(g, q.req) :
                 Append(g, q.req)[i] <= Last(h) /\ Append(g, q.req)[i] # 0
           /\ c \in Waiting /\ (\A i \in DOMAIN k : k[i] # "unread") =>
                 /\ \A i \in DOMAIN Append(g, q.req) : Append(g, q.req)[i] = i
                 /\ Len(Append(g, q.req)) = Len(k) /\ q.req = Len(k)
                 /\ Len(g) = Len(k) - 1
<1> DEFINE r == Append(g, q.req)
<1>1. /\ g \in Seq(0..MaxRequests) /\ q.req \in 0..MaxRequests /\ k \in Seq(Kinds)
      /\ Len(k) \in Nat /\ DOMAIN k = 1..Len(k)
  BY DEF Inv, Typed, Sessions
<1>2. /\ r \in Seq(0..MaxRequests) /\ Len(r) = Len(g) + 1 /\ Len(g) \in Nat
      /\ r[Len(g) + 1] = q.req /\ \A i \in DOMAIN g : r[i] = g[i]
      /\ \A i \in DOMAIN r : i \in Nat /\ (i = Len(g) + 1 \/ (i \in DOMAIN g /\ i < Len(g) + 1))
  BY <1>1, AppendFacts
<1>3. /\ q.req \in DOMAIN k /\ q.req \in Nat /\ q.req >= 1 /\ q.req = Last(h)
      /\ \A i \in DOMAIN g : g[i] < q.req /\ g[i] # 0 /\ g[i] \in Nat
  <2>1. q.req \in DOMAIN k
    BY DEF Inv, Request, Busy
  <2>2. q.req = Last(h) /\ \A i \in DOMAIN g : g[i] < q.req /\ g[i] # 0
    BY DEF Inv, Order
  <2>3. \A i \in DOMAIN g : g[i] \in Nat
    BY <1>1, SessionAssumption
  <2> QED BY <1>1, <2>1, <2>2, <2>3
<1> HIDE DEF r
<1>4. Rising(r)
  <2> SUFFICES ASSUME NEW i \in DOMAIN r, NEW j \in DOMAIN r, i < j
               PROVE  r[i] # 0 /\ (r[j] = 0 \/ r[i] < r[j])
    BY DEF Rising
  <2>1. i \in DOMAIN g
    BY <1>2
  <2>2. CASE j \in DOMAIN g
    BY <1>2, <2>1, <2>2 DEF Inv, Rising
  <2>3. CASE j = Len(g) + 1
    BY <1>2, <1>3, <2>1, <2>3
  <2> QED BY <1>2, <2>2, <2>3
<1>5. ASSUME NEW i \in DOMAIN r PROVE r[i] <= Last(h) /\ r[i] # 0
  <2>1. CASE i \in DOMAIN g
    BY <1>2, <1>3, <2>1
  <2>2. CASE i = Len(g) + 1
    BY <1>2, <1>3, <2>2
  <2> QED BY <1>2, <2>1, <2>2
<1>6. ASSUME c \in Waiting, \A i \in DOMAIN k : k[i] # "unread"
      PROVE  /\ \A i \in DOMAIN r : r[i] = i
             /\ Len(r) = Len(k) /\ q.req = Len(k) /\ Len(g) = Len(k) - 1
  <2>1. /\ \A i \in DOMAIN g : g[i] = i
        /\ q.req = Len(k) /\ Len(g) = Len(k) - 1
    BY <1>6 DEF Inv, Served, Busy
  <2>2. Len(g) + 1 = Len(k)
    BY <1>1, <2>1
  <2> QED BY <1>2, <2>1, <2>2
<1> QED BY <1>2, <1>3, <1>4, <1>5, <1>6 DEF r

LEMMA RespondKeeps ==
    ASSUME NEW c, NEW out, NEW late, NEW k, NEW s, NEW w, NEW q, NEW h, NEW g,
           Inv(c, out, late, k, s, w, q, h, g), q.pc \in {"write", "send"},
           NEW r \in {g, Append(g, q.req)}
    PROVE  Inv(c, out, late, k, s, w, NextRequest, h, r)
<1>1. /\ NextRequest \in Sessions /\ NextRequest.pc = "header" /\ Len(NextRequest.body) = 0
      /\ NextRequest.pc \notin Busy \cup Reading
      /\ q.pc \in Busy \ Reading
  BY SessionFacts DEF Busy, Reading
<1>2. /\ r \in Seq(0..MaxRequests) /\ Rising(r) /\ q.req = Last(h)
      /\ \A i \in DOMAIN r : r[i] <= Last(h) /\ r[i] # 0
  <2>1. CASE r = g
    <3>1. /\ g \in Seq(0..MaxRequests) /\ Rising(g) /\ q.pc # "closed" /\ q.req = Last(h)
          /\ Order(s, w, q, h, g)
      BY DEF Inv, Typed, Order
    <3> QED BY <2>1, <3>1 DEF Order
  <2>2. CASE r = Append(g, q.req)
    BY <2>2, AnswerFacts
  <2> QED BY <2>1, <2>2
<1>3. Typed(k, s, w, NextRequest, h, r)
  BY <1>1, <1>2 DEF Inv, Typed
<1>4. Request(c, out, k, s, w, NextRequest)
  BY <1>1 DEF Request
<1>5. Order(s, w, NextRequest, h, r)
  <2>1. Latest(NextRequest, h) = Latest(q, h)
    BY <1>1, <1>2 DEF Latest
  <2> QED BY <1>1, <1>2, <2>1 DEF Inv, Order, Reading
<1>6. ASSUME c \in Waiting PROVE Served(c, out, late, k, s, w, NextRequest, r)
  <2> SUFFICES ASSUME \A i \in DOMAIN k : k[i] # "unread"
               PROVE  Served(c, out, late, k, s, w, NextRequest, r)
    BY DEF Served
  <2>1. /\ \A i \in DOMAIN r : r[i] = i
        /\ Len(r) = Len(k) \/ Len(r) = Len(k) - 1
    BY <1>6, AnswerFacts, <1>1 DEF Inv, Served
  <2>2. s = << >> /\ w = << >>
    BY <1>1, <1>6 DEF Inv, Served
  <2> QED BY <1>1, <2>1, <2>2 DEF Served
<1> QED BY <1>2, <1>3, <1>4, <1>5, <1>6 DEF Inv

(* The answer 500 is the last.                                              *)
LEMMA ReportSettled ==
    ASSUME NEW c, NEW out, NEW late, NEW k, NEW s, NEW w, NEW q, NEW h, NEW g,
           Inv(c, out, late, k, s, w, q, h, g), q.pc = "error",
           NEW r \in {g, Append(g, 0)}
    PROVE  Settled(c, out, late, k, h, r)
<1>1. g \in Seq(0..MaxRequests) /\ 0 \in 0..MaxRequests
  BY SessionFacts DEF Inv, Typed
<1>2. Last(h) \in Nat /\ \A i \in DOMAIN g : g[i] # 0 /\ g[i] <= Last(h)
  BY LatestFacts DEF Inv, Order
<1>3. ~(c \in Waiting /\ \A i \in DOMAIN k : k[i] # "unread")
  BY DEF Inv, Served
<1>4. CASE r = g
  BY <1>1, <1>2, <1>3, <1>4 DEF Settled, Inv
<1>5. CASE r = Append(g, 0)
  <2>1. /\ r \in Seq(0..MaxRequests) /\ Len(g) \in Nat
        /\ r[Len(g) + 1] = 0 /\ \A i \in DOMAIN g : r[i] = g[i]
        /\ \A i \in DOMAIN r :
              i \in Nat /\ (i = Len(g) + 1 \/ (i \in DOMAIN g /\ i < Len(g) + 1))
    BY <1>1, <1>5, AppendFacts
  <2>2. Rising(r)
    <3> SUFFICES ASSUME NEW i \in DOMAIN r, NEW j \in DOMAIN r, i < j
                 PROVE  r[i] # 0 /\ (r[j] = 0 \/ r[i] < r[j])
      BY DEF Rising
    <3>1. i \in DOMAIN g
      BY <2>1
    <3> QED BY <1>2, <2>1, <3>1 DEF Inv, Rising
  <2>3. \A i \in DOMAIN r : r[i] <= Last(h)
    BY <1>2, <2>1
  <2> QED BY <1>3, <2>1, <2>2, <2>3 DEF Settled
<1> QED BY <1>4, <1>5

LEMMA FailKeeps ==
    ASSUME NEW c, NEW out, NEW late, NEW k, NEW s, NEW w, NEW q, NEW h, NEW g,
           Inv(c, out, late, k, s, w, q, h, g), q.pc = "header",
           w # << >>, w[1][2] # 1
    PROVE  Inv(c, out, late, k, s, w, [NextRequest EXCEPT !.pc = "error"], h, g)
<1> DEFINE e == [NextRequest EXCEPT !.pc = "error"]
<1>1. /\ e \in Sessions /\ e.pc = "error" /\ Len(e.body) = 0
      /\ e.pc \notin Busy \cup Reading /\ q.pc \notin Busy
  BY SessionFacts DEF Busy, Reading
<1> HIDE DEF e
<1>2. Typed(k, s, w, e, h, g)
  BY <1>1 DEF Inv, Typed
<1>3. Request(c, out, k, s, w, e)
  BY <1>1 DEF Request
<1>4. Order(s, w, e, h, g)
  BY <1>1 DEF Inv, Order, Latest, Reading
<1>5. c \in Waiting => Served(c, out, late, k, s, w, e, g)
  <2> SUFFICES ASSUME c \in Waiting, \A i \in DOMAIN k : k[i] # "unread" PROVE FALSE
    BY DEF Served
  <2>1. 1 \in DOMAIN w
    BY EmptySeq DEF Inv, Typed
  <2>2. w[1] = <<Len(k), 1>>
    BY <2>1 DEF Inv, Served
  <2> QED BY <2>2
<1> QED BY <1>2, <1>3, <1>4, <1>5 DEF Inv, e

LEMMA HandleKeeps ==
    ASSUME NEW c, NEW out, NEW late, NEW k, NEW s, NEW w, NEW q, NEW h, NEW g,
           Inv(c, out, late, k, s, w, q, h, g), q.pc = "handle",
           NEW pc \in {"write", "send"}
    PROVE  Inv(c, out, late, k, s, w, [q EXCEPT !.pc = pc],
               Append(h, [req |-> q.req, body |-> q.body]), g)
<1> DEFINE e == [q EXCEPT !.pc = pc]
           a == [req |-> q.req, body |-> q.body]
           l == Append(h, a)
<1>1. /\ q \in Sessions /\ k \in Seq(Kinds) /\ h \in Seq(Records) /\ g \in Seq(0..MaxRequests)
      /\ q.body \in Seq(Units) /\ q.req \in 0..MaxRequests
  BY DEF Inv, Typed, Sessions
<1>2. /\ e \in Sessions /\ e.pc = pc /\ e.req = q.req /\ e.body = q.body
      /\ e.pc \in Busy \ Reading /\ q.pc \in Busy \ Reading
      /\ e.pc \notin {"handle", "closed", "error", "header"}
  BY <1>1 DEF Sessions, Busy, Reading
<1>3. /\ q.req \in DOMAIN k /\ Parts(q.req, q.body) /\ q.req \in Numbers
      /\ Len(q.body) = BodySize(k[q.req])
  <2>1. /\ q.req \in DOMAIN k /\ Parts(q.req, q.body) /\ Len(q.body) <= BodySize(k[q.req])
        /\ ~(Len(q.body) < BodySize(k[q.req]))
    BY <1>2 DEF Inv, Request
  <2>2. Len(q.body) \in Nat /\ BodySize(k[q.req]) \in Nat
    BY <1>1, <2>1, Sizes
  <2>3. q.req \in Numbers
    BY <1>1, <2>1 DEF Numbers
  <2> QED BY <2>1, <2>2, <2>3
<1>4. a \in Records
  BY <1>1, <1>3 DEF Records
<1>5. /\ l \in Seq(Records) /\ Len(l) = Len(h) + 1 /\ Len(h) \in Nat
      /\ l[Len(h) + 1] = a /\ l # << >>
      /\ \A i \in DOMAIN h : l[i] = h[i]
      /\ \A i \in DOMAIN l : i \in Nat /\ (i = Len(h) + 1 \/ (i \in DOMAIN h /\ i < Len(h) + 1))
  BY <1>1, <1>4, AppendFacts
<1>6. a.req = q.req /\ a.body = q.body
  OBVIOUS
<1> HIDE DEF e, a, l
<1>7. Last(l) = q.req /\ Last(h) < q.req
  BY <1>5, <1>6 DEF Last, Inv, Order
<1>8. Typed(k, s, w, e, l, g)
  BY <1>2, <1>5 DEF Inv, Typed
<1>9. Request(c, out, k, s, w, e)
  BY <1>2 DEF Inv, Request
<1>10. Order(s, w, e, l, g)
  <2>1. Latest(e, l) = Latest(q, h)
    BY <1>2 DEF Latest
  <2>2. \A i \in DOMAIN g : g[i] < q.req /\ g[i] <= q.req
    <3>1. \A i \in DOMAIN g : g[i] <= Last(h) /\ g[i] \in Nat
      BY <1>1, SessionAssumption DEF Inv, Order
    <3>2. Last(h) \in Nat /\ q.req \in Nat
      BY <1>1, LatestFacts, SessionAssumption DEF Inv
    <3> QED BY <1>7, <3>1, <3>2
  <2> QED BY <1>2, <1>7, <2>1, <2>2 DEF Inv, Order
<1>11. Whole(k, l)
  <2> SUFFICES ASSUME NEW i \in DOMAIN l
               PROVE  /\ l[i].req \in DOMAIN k
                      /\ l[i].body = [x \in 1..BodySize(k[l[i].req]) |-> <<l[i].req, x + 2>>]
                      /\ i > 1 => l[i - 1].req < l[i].req
    BY DEF Whole
  <2>1. CASE i \in DOMAIN h
    <3>1. i > 1 => i - 1 \in DOMAIN h
      BY <1>1, <2>1
    <3> QED BY <1>5, <2>1, <3>1 DEF Inv, Whole
  <2>2. CASE i = Len(h) + 1
    <3>1. l[i] = a
      BY <1>5, <2>2
    <3>2. q.body = [x \in 1..BodySize(k[q.req]) |-> <<q.req, x + 2>>]
      <4>1. q.body = [x \in 1..Len(q.body) |-> q.body[x]] /\ DOMAIN q.body = 1..Len(q.body)
        BY <1>1
      <4>2. \A x \in 1..Len(q.body) : q.body[x] = <<q.req, x + 2>>
        BY <1>3, <4>1 DEF Parts
      <4> QED BY <1>3, <4>1, <4>2
    <3>3. ASSUME i > 1 PROVE l[i - 1].req < q.req
      <4>1. i - 1 = Len(h) /\ Len(h) \in DOMAIN h /\ h # << >>
        BY <1>1, <1>5, <2>2, <3>3
      <4> QED BY <1>5, <1>7, <4>1 DEF Last
    <3> QED BY <1>3, <1>6, <3>1, <3>2, <3>3
  <2> QED BY <1>5, <2>1, <2>2
<1>12. c \in Waiting => Served(c, out, late, k, s, w, e, g)
  BY <1>2 DEF Inv, Served
<1> QED BY <1>8, <1>9, <1>10, <1>11, <1>12 DEF Inv, e, a, l

-----------------------------------------------------------------------------
(* Parsing: the session is at request i and has read the part b of its      *)
(* body; r was read with it or after it, and goes on in s.                  *)

Ready(c, out, k, s, i, b, r) ==
    /\ i \in DOMAIN k /\ b \in Seq(Units) /\ r \in Seq(Units) /\ Parts(i, b)
    /\ b = << >> \/ Len(b) < BodySize(k[i])
    /\ \A x \in DOMAIN r : x + 1 \in DOMAIN r => r[x + 1] = Following(k, r[x])
    /\ r # << >> /\ s # << >> => s[1] = Following(k, r[Len(r)])
    /\ r # << >> /\ s = << >> /\ c \notin out => r[Len(r)] = <<Len(k), Size(k[Len(k)])>>
    /\ Len(b) < BodySize(k[i]) =>
          /\ r # << >> => r[1] = <<i, Len(b) + 3>>
          /\ r = << >> /\ s # << >> => s[1] = <<i, Len(b) + 3>>
          /\ r = << >> /\ s = << >> => c \in out
    /\ \A x \in DOMAIN r, y \in DOMAIN s : Before(r[x], s[y])
    /\ BodySize(k[i]) = 0 => \A y \in DOMAIN s : Before(<<i, 2>>, s[y])

(* What the request is after that, with the body l.                         *)
ReadSoFar(c, out, k, s, i, l) ==
    /\ l \in Seq(Units) /\ Len(l) <= BodySize(k[i]) /\ Len(l) <= 2 /\ Parts(i, l)
    /\ Len(l) < BodySize(k[i]) =>
          /\ s # << >> => s[1] = <<i, Len(l) + 3>>
          /\ s = << >> => c \in out
    /\ ~(Len(l) < BodySize(k[i])) /\ i = Len(k) /\ k[i] # "unread" => s = << >>

(* Of the last request nothing is left when a unit behind its last passed.  *)
LEMMA NothingLeft ==
    ASSUME NEW k \in Seq(Kinds), NEW s \in Seq(Units), ToSend(k, s), NEW e,
           e = Size(k[Len(k)]), \A y \in DOMAIN s : Before(<<Len(k), e>>, s[y])
    PROVE  s = << >>
<1> SUFFICES ASSUME s # << >> PROVE FALSE
  OBVIOUS
<1>1. Len(s) \in Nat /\ Len(s) >= 1 /\ 1 \in DOMAIN s /\ Len(k) \in Nat
  BY TailFacts, EmptySeq
<1>2. s[1] = <<Len(k), e - Len(s) + 1>> /\ Len(k) >= 1
  BY <1>1 DEF ToSend
<1>3. e \in 2..4
  BY <1>1, <1>2, Sizes
<1>4. e < e - Len(s) + 1
  <2>1. Before(<<Len(k), e>>, <<Len(k), e - Len(s) + 1>>)
    BY <1>1, <1>2
  <2> QED BY <1>1, <2>1 DEF Before
<1> QED BY <1>1, <1>3, <1>4

LEMMA ParseNoBody ==
    ASSUME NEW c, NEW out, NEW k \in Seq(Kinds), NEW s \in Seq(Units), ToSend(k, s),
           NEW i, NEW b, NEW r, Ready(c, out, k, s, i, b, r), BodySize(k[i]) = 0
    PROVE  ReadSoFar(c, out, k, s, i, b \o SubSeq(r, 1, Taken(k[i], b, r)))
<1>1. k[i] \in Kinds /\ Len(r) \in Nat /\ r \in Seq(Units)
  BY DEF Ready
<1>2. b = << >> /\ Len(b) = 0
  <2>1. ~(Len(b) < 0)
    BY DEF Ready
  <2> QED BY <2>1 DEF Ready
<1>3. Taken(k[i], b, r) = 0
  <2>1. BodySize(k[i]) - Len(b) = 0 /\ ~(Len(r) < 0)
    <3>1. \A x \in Nat : ~(x < 0)
      OBVIOUS
    <3>2. 0 - 0 = 0
      OBVIOUS
    <3> QED BY <1>1, <1>2, <3>1, <3>2, Zenon
  <2> QED BY <2>1 DEF Taken
<1>4. SubSeq(r, 1, 0) = << >> /\ b \o SubSeq(r, 1, 0) = << >>
  <2>1. SubSeq(r, 1, 0) \in Seq(Units) /\ Len(SubSeq(r, 1, 0)) = 0
    BY <1>1, SubSeqProperties
  <2>2. SubSeq(r, 1, 0) = << >>
    BY <2>1, EmptySeq
  <2> QED BY <1>2, <2>2
<1>5. ASSUME i = Len(k), k[i] # "unread" PROVE s = << >>
  <2>1. Size(k[i]) = 2
    BY <1>1, <1>5 DEF Kinds, Size, BodySize
  <2> QED BY <1>5, <2>1, NothingLeft DEF Ready
<1>6. << >> \in Seq(Units) /\ Len(<< >>) = 0 /\ DOMAIN << >> = {}
  OBVIOUS
<1> QED BY <1>3, <1>4, <1>5, <1>6 DEF ReadSoFar, Parts

LEMMA ParseBody ==
    ASSUME NEW c, NEW out, NEW k \in Seq(Kinds), NEW s \in Seq(Units), ToSend(k, s),
           NEW i, NEW b, NEW r, Ready(c, out, k, s, i, b, r), BodySize(k[i]) = 2
    PROVE  ReadSoFar(c, out, k, s, i, b \o SubSeq(r, 1, Taken(k[i], b, r)))
<1> DEFINE n == Taken(k[i], b, r)
           m == Len(b)
           p == SubSeq(r, 1, n)
           l == b \o p
<1>1. /\ b \in Seq(Units) /\ r \in Seq(Units) /\ i \in DOMAIN k /\ i \in Nat
      /\ Len(r) \in Nat /\ m \in 0..1 /\ Size(k[i]) = 4
  <2>1. b \in Seq(Units) /\ r \in Seq(Units) /\ i \in DOMAIN k /\ m \in Nat /\ Len(r) \in Nat
    BY DEF Ready
  <2>2. m < 2
    BY DEF Ready
  <2>3. i \in Nat /\ k[i] \in Kinds
    BY <2>1
  <2>4. m \in 0..1
    <3> HIDE DEF m
    <3> QED BY <2>1, <2>2
  <2> QED BY <2>1, <2>3, <2>4, Sizes
<1>2. /\ n \in 0..2 /\ m + n <= 2 /\ n <= Len(r)
      /\ m + n < 2 => n = Len(r)
  <2>1. n = IF Len(r) < 2 - m THEN Len(r) ELSE 2 - m
    BY DEF Taken
  <2> DEFINE t == Len(r)
  <2>2. t \in Nat /\ m \in Nat /\ (m = 0 \/ m = 1) /\ n = IF t < 2 - m THEN t ELSE 2 - m
    BY <1>1, <2>1
  <2> HIDE DEF n, m, t
  <2>3. n \in Nat /\ n <= 2 /\ m + n <= 2 /\ n <= t /\ (m + n < 2 => n = t)
    BY <2>2
  <2>4. n \in 0..2
    BY <2>3
  <2> QED BY <2>3, <2>4 DEF t
<1>3. p \in Seq(Units) /\ Len(p) = n /\ \A x \in 1..n : p[x] = r[x] /\ x \in DOMAIN r
  <2>1. \A x \in 1..n : x \in DOMAIN r
    BY <1>1, <1>2
  <2>2. \A x \in 1..n : r[x] \in Units
    BY <1>1, <2>1
  <2>3. p \in Seq(Units) /\ Len(p) = n /\ \A x \in 1..n : p[x] = r[x]
    BY <1>1, <1>2, <2>2
  <2> QED BY <2>1, <2>3
<1>4. /\ l \in Seq(Units) /\ Len(l) = m + n /\ DOMAIN l = 1..(m + n)
      /\ \A x \in 1..(m + n) : l[x] = IF x <= m THEN b[x] ELSE p[x - m]
  <2> HIDE DEF p, n
  <2>1. l \in Seq(Units)
    BY <1>1, <1>3, ConcatProperties
  <2>2. Len(l) = m + n /\ \A x \in 1..(m + n) : l[x] = IF x <= m THEN b[x] ELSE p[x - m]
    BY <1>1, <1>3, ConcatProperties
  <2> QED BY <2>1, <2>2
<1>5. \A x \in 1..m : b[x] = <<i, x + 2>>
  BY <1>1 DEF Ready, Parts
<1>6. r # << >> => r[1] = <<i, m + 3>>
  BY <1>1 DEF Ready
<1>7. r = << >> <=> Len(r) = 0
  BY <1>1, EmptySeq
<1> HIDE DEF n, m, p, l
<1>8. \A x \in 1..n : r[x] = <<i, m + 2 + x>>
  <2> SUFFICES ASSUME NEW x \in 1..n PROVE r[x] = <<i, m + 2 + x>>
    OBVIOUS
  <2>1. r # << >> /\ r[1] = <<i, m + 3>>
    BY <1>1, <1>2, <1>6, <1>7
  <2>2. CASE x = 1
    BY <1>1, <2>1, <2>2
  <2>3. CASE x = 2
    <3>1. m = 0 /\ 1 \in DOMAIN r /\ 1 + 1 \in DOMAIN r
      BY <1>1, <1>2, <1>3, <2>3
    <3>2. r[1 + 1] = Following(k, r[1])
      BY <3>1 DEF Ready
    <3>3. Following(k, <<i, 3>>) = <<i, 4>>
      BY <1>1 DEF Following
    <3> QED BY <2>1, <2>3, <3>1, <3>2, <3>3
  <2> QED BY <1>2, <2>2, <2>3
<1>9. Parts(i, l)
  <2> SUFFICES ASSUME NEW x \in 1..(m + n) PROVE l[x] = <<i, x + 2>>
    BY <1>4 DEF Parts
  <2>1. CASE x <= m
    <3>1. x \in 1..m /\ l[x] = b[x]
      BY <1>1, <1>2, <1>4, <2>1
    <3> QED BY <1>5, <3>1
  <2>2. CASE ~(x <= m)
    <3>1. x - m \in 1..n /\ m + 2 + (x - m) = x + 2
      BY <1>1, <1>2, <2>2
    <3>2. l[x] = p[x - m] /\ p[x - m] = r[x - m]
      BY <1>3, <1>4, <2>2, <3>1
    <3> QED BY <1>8, <3>1, <3>2
  <2> QED BY <2>1, <2>2
<1>10. ASSUME m + n < 2
       PROVE  (s # << >> => s[1] = <<i, m + n + 3>>) /\ (s = << >> => c \in out)
  <2>1. n = Len(r)
    BY <1>2, <1>10
  <2>2. CASE n = 0
    <3>1. r = << >> /\ m + n + 3 = m + 3 /\ m < 2
      BY <1>1, <1>7, <2>1, <2>2
    <3> QED BY <3>1 DEF Ready, m
  <2>3. CASE n # 0
    <3>1. r # << >> /\ n = 1 /\ m = 0
      BY <1>1, <1>2, <1>7, <1>10, <2>1, <2>3
    <3>2. r[Len(r)] = <<i, 3>>
      BY <1>8, <2>1, <3>1
    <3>3. Following(k, <<i, 3>>) = <<i, 4>>
      BY <1>1 DEF Following
    <3>4. s # << >> => s[1] = <<i, 4>>
      BY <3>1, <3>2, <3>3 DEF Ready
    <3>5. s = << >> => c \in out
      <4> SUFFICES ASSUME s = << >>, c \notin out PROVE FALSE
        OBVIOUS
      <4>1. <<i, 3>> = <<Len(k), Size(k[Len(k)])>>
        BY <3>1, <3>2 DEF Ready
      <4> QED BY <1>1, <4>1
    <3> QED BY <3>1, <3>4, <3>5
  <2> QED BY <2>2, <2>3
<1>11. ASSUME ~(m + n < 2), i = Len(k) PROVE s = << >>
  <2>1. m + n = 2 /\ n \in 1..n /\ n \in DOMAIN r /\ m + 2 + n = 4
    BY <1>1, <1>2, <1>3, <1>11
  <2>2. r[n] = <<i, 4>>
    BY <1>8, <2>1
  <2>3. \A y \in DOMAIN s : Before(<<i, 4>>, s[y])
    BY <2>1, <2>2 DEF Ready
  <2> QED BY <1>1, <1>11, <2>3, NothingLeft
<1>12. m + n \in 0..2
  BY <1>1, <1>2
<1>13. ReadSoFar(c, out, k, s, i, l)
  BY <1>4, <1>9, <1>10, <1>11, <1>12 DEF ReadSoFar
<1> QED BY <1>13 DEF l, p, n

LEMMA ParseFacts ==
    ASSUME NEW c, NEW out, NEW k \in Seq(Kinds), NEW s \in Seq(Units), ToSend(k, s),
           NEW i, NEW b, NEW r, Ready(c, out, k, s, i, b, r)
    PROVE  ReadSoFar(c, out, k, s, i, b \o SubSeq(r, 1, Taken(k[i], b, r)))
<1>1. k[i] \in Kinds
  BY DEF Ready
<1>2. BodySize(k[i]) = 0 \/ BodySize(k[i]) = 2
  BY <1>1, Sizes
<1> QED BY <1>2, ParseNoBody, ParseBody

LEMMA ParseKeeps ==
    ASSUME NEW c, NEW out, NEW late, NEW k, NEW s, NEW w, NEW q, NEW h, NEW g,
           Inv(c, out, late, k, s, w, q, h, g), q.pc \in Reading \cup {"header"},
           NEW i, NEW l, i \in DOMAIN k, ReadSoFar(c, out, k, s, i, l),
           Last(h) < i, \A y \in DOMAIN s : Before(<<i, 1>>, s[y]),
           c \in Waiting /\ (\A x \in DOMAIN k : k[x] # "unread") =>
               i = Len(k) /\ Len(g) = Len(k) - 1
    PROVE  Inv(c, out, late, k, s, << >>, [pc |-> After(k[i], l), req |-> i, body |-> l], h, g)
<1> DEFINE e == [pc |-> After(k[i], l), req |-> i, body |-> l]
<1>1. /\ k \in Seq(Kinds) /\ Len(k) <= MaxRequests /\ Len(k) \in Nat /\ k[i] \in Kinds
      /\ s \in Seq(Units) /\ l \in Seq(Units) /\ Len(l) \in Nat /\ Len(l) <= 2
      /\ BodySize(k[i]) \in {0, 2}
  BY Sizes DEF Inv, Typed, ReadSoFar
<1>2. i \in 0..MaxRequests
  BY <1>1, SessionAssumption
<1>3. e.pc = After(k[i], l) /\ e.req = i /\ e.body = l
  OBVIOUS
<1>4. /\ e.pc \in Reading \cup {"handle"}
      /\ e.pc \in Reading <=> Len(l) < BodySize(k[i])
      /\ e.pc \notin {"write", "send", "closed", "error", "header"} /\ e.pc \in Busy
  <2>1. Len(l) >= BodySize(k[i]) <=> ~(Len(l) < BodySize(k[i]))
    BY <1>1
  <2> QED BY <2>1 DEF After, Reading, Busy
<1>5. e \in Sessions
  BY <1>1, <1>2, <1>4 DEF Sessions, Reading
<1> HIDE DEF e
<1>6. << >> \in Seq(Units) /\ DOMAIN << >> = {}
  OBVIOUS
<1>7. Typed(k, s, << >>, e, h, g)
  BY <1>1, <1>3, <1>5, <1>6 DEF Inv, Typed
<1>8. Stream(c, out, k, s, << >>)
  BY <1>6 DEF Inv, Stream, Arrived, Joined
<1>9. Request(c, out, k, s, << >>, e)
  BY <1>3, <1>4 DEF ReadSoFar, Request
<1>10. Order(s, << >>, e, h, g)
  <2>1. Latest(e, h) = i
    BY <1>3, <1>4 DEF Latest
  <2>2. q.pc # "closed"
    BY DEF Reading
  <2> QED BY <1>3, <1>4, <1>6, <2>1, <2>2 DEF Inv, Order
<1>11. ASSUME c \in Waiting, \A x \in DOMAIN k : k[x] # "unread"
       PROVE  Served(c, out, late, k, s, << >>, e, g)
  <2>1. i = Len(k) /\ Len(g) = Len(k) - 1 /\ k[i] # "unread"
    BY <1>11
  <2>2. \A x \in DOMAIN g : g[x] = x
    BY <1>11 DEF Inv, Served
  <2>3. e.pc \in Busy \ Reading => s = << >>
    BY <1>4, <2>1 DEF ReadSoFar
  <2> QED BY <1>3, <1>4, <2>1, <2>2, <2>3 DEF Served
<1>12. c \in Waiting => Served(c, out, late, k, s, << >>, e, g)
  BY <1>11 DEF Served
<1> QED BY <1>7, <1>8, <1>9, <1>10, <1>12 DEF Inv, e

LEMMA ReadBodyKeeps ==
    ASSUME NEW c, NEW out, NEW late, NEW k, NEW s, NEW w, NEW q, NEW h, NEW g,
           Inv(c, out, late, k, s, w, q, h, g), q.pc \in Reading, w # << >>,
           NEW l, l = q.body \o SubSeq(w, 1, Taken(k[q.req], q.body, w))
    PROVE  Inv(c, out, late, k, s, << >>,
               [pc |-> After(k[q.req], l), req |-> q.req, body |-> l], h, g)
<1>1. /\ k \in Seq(Kinds) /\ s \in Seq(Units) /\ w \in Seq(Units) /\ q.body \in Seq(Units)
      /\ ToSend(k, s)
  BY DEF Inv, Typed, Sessions, Stream
<1>2. /\ q.req \in DOMAIN k /\ Parts(q.req, q.body) /\ Len(q.body) < BodySize(k[q.req])
      /\ w # << >> => w[1] = <<q.req, Len(q.body) + 3>>
  BY DEF Inv, Request, Busy
<1>3. BodySize(k[q.req]) # 0
  <2>1. Len(q.body) \in Nat
    BY <1>1
  <2> QED BY <1>2, <2>1
<1>4. Ready(c, out, k, s, q.req, q.body, w)
  BY <1>1, <1>2, <1>3 DEF Inv, Stream, Arrived, Joined, Ready
<1>5. ReadSoFar(c, out, k, s, q.req, l)
  BY <1>1, <1>4, ParseFacts
<1>6. Last(h) < q.req /\ \A y \in DOMAIN s : Before(<<q.req, 1>>, s[y])
  BY DEF Inv, Order, Latest, Busy
<1>7. c \in Waiting /\ (\A x \in DOMAIN k : k[x] # "unread") =>
          q.req = Len(k) /\ Len(g) = Len(k) - 1
  BY DEF Inv, Served, Busy
<1> QED BY <1>2, <1>5, <1>6, <1>7, ParseKeeps

LEMMA ReadHeaderKeeps ==
    ASSUME NEW c, NEW out, NEW late, NEW k, NEW s, NEW w, NEW q, NEW h, NEW g,
           Inv(c, out, late, k, s, w, q, h, g), q.pc = "header",
           Len(w) >= 2, w[1][2] = 1, NEW i, i = w[1][1], NEW r, r = SubSeq(w, 3, Len(w)),
           NEW l, l = << >> \o SubSeq(r, 1, Taken(k[i], << >>, r))
    PROVE  Inv(c, out, late, k, s, << >>,
               [pc |-> After(k[i], l), req |-> i, body |-> l], h, g)
<1>1. /\ k \in Seq(Kinds) /\ s \in Seq(Units) /\ w \in Seq(Units) /\ ToSend(k, s)
      /\ Len(w) \in Nat /\ Len(k) \in Nat
  BY DEF Inv, Typed, Stream
<1>2. 1 \in DOMAIN w /\ 2 \in DOMAIN w /\ w # << >> /\ DOMAIN w = 1..Len(w)
  BY <1>1, EmptySeq
<1>3. i \in Nat /\ i >= 1 /\ w[1] = <<i, 1>>
  <2>1. w[1] \in Units
    BY <1>1, <1>2
  <2> QED BY <2>1, UnitFacts
<1>4. i \in DOMAIN k /\ k[i] \in Kinds
  <2>1. i <= Len(k)
    BY <1>2 DEF Inv, Stream, Arrived
  <2> QED BY <1>1, <1>3, <2>1
<1>5. Size(k[i]) \in 2..4 /\ (BodySize(k[i]) = 2 => Size(k[i]) = 4) /\ BodySize(k[i]) \in {0, 2}
  BY <1>4, Sizes
<1>6. w[2] = <<i, 2>>
  <2>1. w[1 + 1] = Following(k, w[1])
    BY <1>2 DEF Inv, Stream, Arrived
  <2>2. Following(k, <<i, 1>>) = <<i, 2>>
    BY <1>5 DEF Following
  <2> QED BY <1>3, <2>1, <2>2
<1>7. \A y \in DOMAIN s : Before(<<i, 2>>, s[y]) /\ Before(<<i, 1>>, s[y])
  BY <1>2, <1>3, <1>6 DEF Inv, Stream, Joined
<1>8. /\ r \in Seq(Units) /\ Len(r) = Len(w) - 2 /\ DOMAIN r = 1..(Len(w) - 2)
      /\ \A x \in DOMAIN r : r[x] = w[x + 2] /\ x + 2 \in DOMAIN w
  <2>1. \A x \in 3..Len(w) : w[x] \in Units /\ x \in DOMAIN w
    BY <1>1
  <2>2. r \in Seq(Units) /\ Len(r) = Len(w) - 2
    <3> DEFINE z == Len(w)
    <3>0. z \in Nat /\ z >= 2
      BY <1>1
    <3> HIDE DEF z
    <3>1. z - 3 + 1 = z - 2 /\ (~(3 <= z) => z - 2 = 0)
      BY <3>0
    <3>2. r \in Seq(Units) /\ Len(r) = IF 3 <= Len(w) THEN Len(w) - 3 + 1 ELSE 0
      BY <1>1, <2>1, SubSeqProperties
    <3> QED BY <3>1, <3>2 DEF z
  <2>3. \A x \in 1..(Len(w) - 2) : r[x] = w[x + 2] /\ x + 2 \in DOMAIN w
    <3> SUFFICES ASSUME NEW x \in 1..(Len(w) - 2)
                 PROVE  r[x] = w[x + 2] /\ x + 2 \in DOMAIN w
      OBVIOUS
    <3>1. x + 2 \in 3..Len(w)
      BY <1>1
    <3>2. r[x] = w[3 + x - 1] /\ 3 + x - 1 = x + 2
      BY <1>1
    <3> QED BY <2>1, <3>1, <3>2
  <2> QED BY <2>2, <2>3
<1>9. r # << >> => Len(r) \in DOMAIN r /\ Len(r) >= 1 /\ r[Len(r)] = w[Len(w)] /\ 1 \in DOMAIN r
  <2> SUFFICES ASSUME r # << >>
               PROVE  /\ Len(r) \in DOMAIN r /\ Len(r) >= 1 /\ 1 \in DOMAIN r
                      /\ r[Len(r)] = w[Len(w)]
    OBVIOUS
  <2>1. Len(r) \in DOMAIN r /\ Len(r) >= 1 /\ 1 \in DOMAIN r
    BY <1>8, EmptySeq
  <2>2. Len(r) + 2 = Len(w)
    BY <1>1, <1>8
  <2> QED BY <1>8, <2>1, <2>2
<1>10. r = << >> => Len(w) = 2
  <2>1. Len(w) - 2 = 0 => Len(w) = 2
    BY <1>1
  <2> QED BY <1>8, <2>1, EmptySeq
<1>11. \A x \in DOMAIN r : x + 1 \in DOMAIN r => r[x + 1] = Following(k, r[x])
  <2> SUFFICES ASSUME NEW x \in DOMAIN r, x + 1 \in DOMAIN r
               PROVE  r[x + 1] = Following(k, r[x])
    OBVIOUS
  <2>1. r[x] = w[x + 2] /\ r[x + 1] = w[x + 1 + 2] /\ x + 2 \in DOMAIN w /\ x + 1 + 2 \in DOMAIN w
    BY <1>8
  <2>2. x + 1 + 2 = x + 2 + 1
    BY <1>1, <1>8
  <2>3. w[x + 2 + 1] = Following(k, w[x + 2])
    BY <2>1, <2>2 DEF Inv, Stream, Arrived
  <2> QED BY <2>1, <2>2, <2>3
<1>12. ASSUME BodySize(k[i]) = 2 PROVE Following(k, <<i, 2>>) = <<i, 3>>
  BY <1>5, <1>12 DEF Following
<1>13. ASSUME 0 < BodySize(k[i])
       PROVE  /\ r # << >> => r[1] = <<i, 3>>
              /\ r = << >> /\ s # << >> => s[1] = <<i, 3>>
              /\ r = << >> /\ s = << >> => c \in out
  <2>1. BodySize(k[i]) = 2 /\ Size(k[i]) = 4
    BY <1>5, <1>13
  <2>2. ASSUME r # << >> PROVE r[1] = <<i, 3>>
    <3>1. r[1] = w[2 + 1] /\ 2 + 1 \in DOMAIN w
      BY <1>8, <1>9, <2>2
    <3>2. w[2 + 1] = Following(k, w[2])
      BY <1>2, <3>1 DEF Inv, Stream, Arrived
    <3> QED BY <1>6, <1>12, <2>1, <3>1, <3>2
  <2>3. ASSUME r = << >>, s # << >> PROVE s[1] = <<i, 3>>
    <3>1. s[1] = Following(k, w[2])
      BY <1>2, <1>10, <2>3 DEF Inv, Stream, Joined
    <3> QED BY <1>6, <1>12, <2>1, <3>1
  <2>4. ASSUME r = << >>, s = << >>, c \notin out PROVE FALSE
    <3>1. w[2] = <<Len(k), Size(k[Len(k)])>>
      BY <1>2, <1>10, <2>4 DEF Inv, Stream, Joined
    <3> QED BY <1>6, <2>1, <3>1
  <2> QED BY <2>2, <2>3, <2>4
<1>14. Ready(c, out, k, s, i, << >>, r)
  <2>1. /\ << >> \in Seq(Units) /\ Parts(i, << >>) /\ Len(<< >>) = 0 /\ 0 + 3 = 3
    BY DEF Parts
  <2>2. /\ r # << >> /\ s # << >> => s[1] = Following(k, r[Len(r)])
        /\ r # << >> /\ s = << >> /\ c \notin out => r[Len(r)] = <<Len(k), Size(k[Len(k)])>>
    BY <1>2, <1>9 DEF Inv, Stream, Joined
  <2>3. \A x \in DOMAIN r, y \in DOMAIN s : Before(r[x], s[y])
    BY <1>8 DEF Inv, Stream, Joined
  <2> QED BY <1>4, <1>7, <1>8, <1>11, <1>13, <2>1, <2>2, <2>3 DEF Ready
<1>15. ReadSoFar(c, out, k, s, i, l)
  BY <1>1, <1>14, ParseFacts
<1>16. Last(h) < i
  <2>1. Before(<<Last(h), 1>>, <<i, 1>>)
    BY <1>2, <1>3 DEF Inv, Order, Latest, Busy, Reading
  <2> QED BY <2>1 DEF Before
<1>17. c \in Waiting /\ (\A x \in DOMAIN k : k[x] # "unread") =>
           i = Len(k) /\ Len(g) = Len(k) - 1
  <2> SUFFICES ASSUME c \in Waiting, \A x \in DOMAIN k : k[x] # "unread"
               PROVE  i = Len(k) /\ Len(g) = Len(k) - 1
    OBVIOUS
  <2>1. w[1] = <<Len(k), 1>> /\ Len(g) # Len(k) /\ (Len(g) = Len(k) \/ Len(g) = Len(k) - 1)
    BY <1>2 DEF Inv, Served
  <2> QED BY <2>1
<1> QED BY <1>4, <1>7, <1>15, <1>16, <1>17, ParseKeeps

-----------------------------------------------------------------------------
(* The steps: each one changes the state of one client.                     *)

LEMMA Types ==
    ASSUME TypeOK
    PROVE  /\ kinds \in [Clients -> Seq(Kinds)] /\ gone \subseteq Clients
           /\ expired \subseteq Clients /\ session \in [Clients -> Sessions]
           /\ sending \in [Clients -> Seq(Units)] /\ wire \in [Clients -> Seq(Units)]
           /\ buffer \in [Clients -> Seq(Units)]
           /\ handled \in [Clients -> Seq(Records)]
           /\ got \in [Clients -> Seq(0..MaxRequests)]
BY DEF TypeOK, Records

LEMMA Unchanged ==
    ASSUME TypeOK, NEW c \in Clients
    PROVE  /\ kinds = [kinds EXCEPT ![c] = kinds[c]]
           /\ sending = [sending EXCEPT ![c] = sending[c]]
           /\ wire = [wire EXCEPT ![c] = wire[c]]
           /\ session = [session EXCEPT ![c] = session[c]]
           /\ handled = [handled EXCEPT ![c] = handled[c]]
           /\ got = [got EXCEPT ![c] = got[c]]
<1>1. \A f : f = [d \in DOMAIN f |-> f[d]] => f = [f EXCEPT ![c] = f[c]]
  OBVIOUS
<1>2. /\ kinds = [d \in DOMAIN kinds |-> kinds[d]]
      /\ sending = [d \in DOMAIN sending |-> sending[d]]
      /\ wire = [d \in DOMAIN wire |-> wire[d]]
      /\ session = [d \in DOMAIN session |-> session[d]]
      /\ handled = [d \in DOMAIN handled |-> handled[d]]
      /\ got = [d \in DOMAIN got |-> got[d]]
  BY Types
<1> QED BY <1>1, <1>2

(* A step that gives client c this state, and changes no other client's.    *)
Becomes(c, out, late, k, s, w, q, h, g) ==
    /\ gone' = out /\ out \in {gone, gone \cup {c}}
    /\ expired' = late /\ late \in {expired, expired \cup {c}}
    /\ kinds' = [kinds EXCEPT ![c] = k] /\ sending' = [sending EXCEPT ![c] = s]
    /\ wire' = [wire EXCEPT ![c] = w] /\ session' = [session EXCEPT ![c] = q]
    /\ handled' = [handled EXCEPT ![c] = h] /\ got' = [got EXCEPT ![c] = g]
    /\ buffer' \in [Clients -> Seq(Units)]

LEMMA Step ==
    ASSUME NEW c \in Clients, IInv, NEW out, NEW late,
           NEW k, NEW s, NEW w, NEW q, NEW h, NEW g,
           Inv(c, out, late, k, s, w, q, h, g), Becomes(c, out, late, k, s, w, q, h, g)
    PROVE  IInv'
<1>1. /\ kinds \in [Clients -> Seq(Kinds)] /\ gone \subseteq Clients
      /\ expired \subseteq Clients /\ session \in [Clients -> Sessions]
      /\ sending \in [Clients -> Seq(Units)] /\ wire \in [Clients -> Seq(Units)]
      /\ handled \in [Clients -> Seq(Records)]
      /\ got \in [Clients -> Seq(0..MaxRequests)]
  BY Types DEF IInv
<1>2. Typed(k, s, w, q, h, g)
  BY DEF Inv
<1>3. /\ kinds'[c] = k /\ sending'[c] = s /\ wire'[c] = w /\ session'[c] = q
      /\ handled'[c] = h /\ got'[c] = g
  BY <1>1 DEF Becomes
<1>4. ASSUME NEW d \in Clients, d # c
      PROVE  /\ kinds'[d] = kinds[d] /\ sending'[d] = sending[d] /\ wire'[d] = wire[d]
             /\ session'[d] = session[d] /\ handled'[d] = handled[d] /\ got'[d] = got[d]
             /\ d \in gone' <=> d \in gone
             /\ d \in expired => d \in expired'
  BY <1>1, <1>4 DEF Becomes
<1>5. TypeOK'
  <2>1. /\ kinds' \in [Clients -> Seq(Kinds)] /\ gone' \subseteq Clients
        /\ expired' \subseteq Clients /\ session' \in [Clients -> Sessions]
        /\ sending' \in [Clients -> Seq(Units)] /\ wire' \in [Clients -> Seq(Units)]
        /\ handled' \in [Clients -> Seq(Records)]
        /\ got' \in [Clients -> Seq(0..MaxRequests)]
        /\ buffer' \in [Clients -> Seq(Units)]
    BY <1>1, <1>2 DEF Typed, Becomes
  <2>2. ASSUME NEW d \in Clients
        PROVE  Len(kinds'[d]) <= MaxRequests /\ Len(session'[d].body) <= 2
    <3>1. CASE d = c
      BY <1>2, <1>3, <3>1 DEF Typed
    <3>2. CASE d # c
      BY <1>4, <3>2 DEF IInv, TypeOK
    <3> QED BY <3>1, <3>2
  <2> QED BY <2>1, <2>2 DEF TypeOK, Records
<1>6. ASSUME NEW d \in Clients PROVE ClientInv(d)'
  <2>1. CASE d = c
    BY <1>3, <2>1 DEF ClientInv, Becomes
  <2>2. CASE d # c
    <3>1. Inv(d, gone, expired, kinds[d], sending[d], wire[d], session[d], handled[d], got[d])
      BY DEF IInv, ClientInv
    <3>2. Inv(d, gone', expired', kinds[d], sending[d], wire[d], session[d],
              handled[d], got[d])
      <4>1. (d \in gone' <=> d \in gone) /\ (d \in expired => d \in expired')
        BY <1>4, <2>2
      <4> QED BY ONLY <3>1, <4>1, SetsKeep
    <3> QED BY <1>4, <2>2, <3>2 DEF ClientInv
  <2> QED BY <2>1, <2>2
<1> QED BY <1>5, <1>6 DEF IInv

LEMMA InitInv == Init => IInv
<1> SUFFICES ASSUME Init PROVE IInv
  OBVIOUS
<1>1. /\ << >> \in Seq(Kinds) /\ << >> \in Seq(Units) /\ << >> \in Seq(Records)
      /\ << >> \in Seq(0..MaxRequests) /\ Len(<< >>) = 0 /\ DOMAIN << >> = {}
      /\ 0 <= MaxRequests
  BY SessionAssumption
<1>2. /\ NextRequest \in Sessions /\ NextRequest.pc = "header" /\ Len(NextRequest.body) = 0
      /\ NextRequest.pc \notin Busy
  BY SessionFacts DEF Busy, Reading
<1>3. TypeOK
  BY <1>1, <1>2 DEF Init, TypeOK, Records
<1>4. ASSUME NEW c \in Clients
      PROVE  Inv(c, {}, {}, << >>, << >>, << >>, NextRequest, << >>, << >>)
  <2>1. Typed(<< >>, << >>, << >>, NextRequest, << >>, << >>)
    BY <1>1, <1>2 DEF Typed
  <2>2. Stream(c, {}, << >>, << >>, << >>) /\ Request(c, {}, << >>, << >>, << >>, NextRequest)
    BY <1>1, <1>2 DEF Stream, Arrived, ToSend, Joined, Request
  <2>3. Order(<< >>, << >>, NextRequest, << >>, << >>) /\ Whole(<< >>, << >>) /\ Rising(<< >>)
    BY <1>1, <1>2 DEF Order, Whole, Rising, Reading
  <2>4. Served(c, {}, {}, << >>, << >>, << >>, NextRequest, << >>)
    BY <1>1, <1>2 DEF Served
  <2> QED BY <2>1, <2>2, <2>3, <2>4 DEF Inv
<1>5. ASSUME NEW c \in Clients PROVE ClientInv(c)
  BY <1>4, <1>5 DEF Init, ClientInv
<1> QED BY <1>3, <1>5 DEF IInv

(* What a step of c may leave as it is.                                     *)
Same(c) ==
    /\ kinds = [kinds EXCEPT ![c] = kinds[c]] /\ sending = [sending EXCEPT ![c] = sending[c]]
    /\ wire = [wire EXCEPT ![c] = wire[c]] /\ session = [session EXCEPT ![c] = session[c]]
    /\ handled = [handled EXCEPT ![c] = handled[c]] /\ got = [got EXCEPT ![c] = got[c]]
    /\ buffer \in [Clients -> Seq(Units)]
    /\ gone \in {gone, gone \cup {c}} /\ expired \in {expired, expired \cup {c}}

LEMMA Facts ==
    ASSUME IInv, NEW c \in Clients
    PROVE  /\ Same(c)
           /\ Inv(c, gone, expired, kinds[c], sending[c], wire[c], session[c],
                  handled[c], got[c])
           /\ kinds[c] \in Seq(Kinds) /\ wire[c] \in Seq(Units) /\ session[c] \in Sessions
           /\ session[c].body \in Seq(Units)
<1>1. session[c] \in Sessions /\ kinds[c] \in Seq(Kinds) /\ wire[c] \in Seq(Units)
  BY Types DEF IInv
<1>2. Same(c)
  BY Types, Unchanged DEF IInv, Same
<1> QED BY <1>1, <1>2 DEF IInv, ClientInv, Sessions

LEMMA BeginStep ==
    ASSUME IInv, NEW c \in Clients, NEW kind \in Kinds, Begin(c, kind)
    PROVE  IInv'
<1>1. Inv(c, gone, expired, kinds[c], << >>, wire[c], session[c], handled[c], got[c])
  BY Facts DEF Begin
<1>2. Inv(c, gone, expired, Append(kinds[c], kind), UnitsOf(Len(kinds[c]) + 1, kind),
          wire[c], session[c], handled[c], got[c])
  <2>1. /\ c \notin gone /\ session[c].pc # "closed" /\ Len(kinds[c]) < MaxRequests
        /\ c \in Waiting => Len(got[c]) = Len(kinds[c])
    BY DEF Begin, IsOpen
  <2> QED BY <1>1, <2>1, BeginKeeps
<1>3. Becomes(c, gone, expired, Append(kinds[c], kind), UnitsOf(Len(kinds[c]) + 1, kind),
              wire[c], session[c], handled[c], got[c])
  BY Facts DEF Begin, Same, Becomes
<1> QED BY <1>2, <1>3, Step

LEMMA SendStep ==
    ASSUME IInv, NEW c \in Clients, Send(c)
    PROVE  IInv'
<1>1. Inv(c, gone, expired, kinds[c], Tail(sending[c]), Append(wire[c], Head(sending[c])),
          session[c], handled[c], got[c])
  BY Facts, SendKeeps DEF Send, IsOpen
<1>2. Becomes(c, gone, expired, kinds[c], Tail(sending[c]),
              Append(wire[c], Head(sending[c])), session[c], handled[c], got[c])
  BY Facts DEF Send, Same, Becomes
<1> QED BY <1>1, <1>2, Step

LEMMA LeaveStep ==
    ASSUME IInv, NEW c \in Clients, Leave(c)
    PROVE  IInv'
<1>1. Inv(c, gone \cup {c}, expired, kinds[c], << >>, wire[c], session[c], handled[c], got[c])
  BY Facts, LeaveKeeps DEF Leave, IsOpen
<1>2. Becomes(c, gone \cup {c}, expired, kinds[c], << >>, wire[c], session[c],
              handled[c], got[c])
  BY Facts DEF Leave, Same, Becomes
<1> QED BY <1>1, <1>2, Step

LEMMA ExpireStep ==
    ASSUME IInv, NEW c \in Clients, Expire(c)
    PROVE  IInv'
<1>1. Inv(c, gone, expired \cup {c}, kinds[c], sending[c], wire[c], session[c],
          handled[c], got[c])
  <2>1. c \in expired => c \in expired \cup {c}
    OBVIOUS
  <2> QED BY <2>1, Facts, SetsKeep
<1>2. Becomes(c, gone, expired \cup {c}, kinds[c], sending[c], wire[c], session[c],
              handled[c], got[c])
  BY Facts DEF Expire, Same, Becomes
<1> QED BY <1>1, <1>2, Step

LEMMA ParseStep ==
    ASSUME IInv, NEW c \in Clients, NEW i, NEW body \in Seq(Units), NEW input \in Seq(Units),
           Parse(c, i, body, input), kinds[c][i] \in Kinds,
           Len(body) <= BodySize(kinds[c][i]), NEW l,
           l = body \o SubSeq(input, 1, Taken(kinds[c][i], body, input)),
           Inv(c, gone, expired, kinds[c], sending[c], << >>,
               [pc |-> After(kinds[c][i], l), req |-> i, body |-> l], handled[c], got[c])
    PROVE  IInv'
<1> DEFINE n == Taken(kinds[c][i], body, input)
           e == [pc |-> After(kinds[c][i], l), req |-> i, body |-> l]
           rest == SubSeq(input, n + 1, Len(input))
<1>1. n \in Nat /\ Len(input) \in Nat
  <2> DEFINE b == BodySize(kinds[c][i])
             m == Len(body)
             z == Len(input)
  <2>1. b \in Nat /\ m \in Nat /\ z \in Nat /\ m <= b
    BY Sizes
  <2>2. n = IF z < b - m THEN z ELSE b - m
    BY DEF Taken
  <2> HIDE DEF b, m, z, n
  <2> QED BY <2>1, <2>2 DEF z
<1>2. rest \in Seq(Units)
  <2>1. \A x \in (n + 1)..Len(input) : input[x] \in Units
    <3> SUFFICES ASSUME NEW x \in (n + 1)..Len(input) PROVE input[x] \in Units
      OBVIOUS
    <3> HIDE DEF n
    <3>1. x \in 1..Len(input)
      BY <1>1
    <3> QED BY <3>1
  <2> HIDE DEF n
  <2>2. n + 1 \in Int /\ Len(input) \in Int
    BY <1>1
  <2> QED BY <2>1, <2>2, SubSeqProperties
<1>3. Becomes(c, gone, expired, kinds[c], sending[c], << >>, e, handled[c], got[c])
  <2>1. /\ session' = [session EXCEPT ![c] = e] /\ wire' = [wire EXCEPT ![c] = << >>]
        /\ buffer' = [buffer EXCEPT ![c] = rest]
        /\ UNCHANGED <<kinds, sending, gone, expired, handled, got>>
    BY DEF Parse
  <2> HIDE DEF e, rest
  <2> QED BY <1>2, <2>1, Facts DEF Same, Becomes
<1> QED BY <1>3, Step

LEMMA ReadHeaderStep ==
    ASSUME IInv, NEW c \in Clients, ReadHeader(c)
    PROVE  IInv'
<1> DEFINE i == wire[c][1][1]
           r == SubSeq(wire[c], 3, Len(wire[c]))
           l == << >> \o SubSeq(r, 1, Taken(kinds[c][i], << >>, r))
<1>1. Parse(c, i, << >>, r) /\ session[c].pc = "header" /\ Len(wire[c]) >= 2 /\ wire[c][1][2] = 1
  BY DEF ReadHeader
<1>2. Inv(c, gone, expired, kinds[c], sending[c], << >>,
          [pc |-> After(kinds[c][i], l), req |-> i, body |-> l], handled[c], got[c])
  BY <1>1, Facts, ReadHeaderKeeps
<1>3. r \in Seq(Units) /\ << >> \in Seq(Units) /\ Len(<< >>) = 0
  <2>1. wire[c] \in Seq(Units)
    BY Facts
  <2>2. \A x \in 3..Len(wire[c]) : wire[c][x] \in Units
    BY <2>1
  <2>3. 3 \in Int /\ Len(wire[c]) \in Int
    BY <2>1
  <2> QED BY <2>2, <2>3, SubSeqProperties
<1>4. kinds[c][i] \in Kinds /\ 0 <= BodySize(kinds[c][i])
  <2>1. i \in DOMAIN kinds[c]
    BY <1>2, Facts DEF Inv, Request, After, Busy, Reading
  <2>2. kinds[c][i] \in Kinds
    BY <2>1, Facts
  <2> QED BY <2>2, Sizes
<1> HIDE DEF i, r
<1> QED BY <1>1, <1>2, <1>3, <1>4, ParseStep

LEMMA ReadBodyStep ==
    ASSUME IInv, NEW c \in Clients, ReadBody(c)
    PROVE  IInv'
<1> DEFINE q == session[c]
           l == q.body \o SubSeq(wire[c], 1, Taken(kinds[c][q.req], q.body, wire[c]))
<1>1. Parse(c, q.req, q.body, wire[c]) /\ q.pc \in Reading /\ wire[c] # << >>
  BY DEF ReadBody, Reading
<1>2. Inv(c, gone, expired, kinds[c], sending[c], << >>,
          [pc |-> After(kinds[c][q.req], l), req |-> q.req, body |-> l], handled[c], got[c])
  BY <1>1, Facts, ReadBodyKeeps
<1>3. /\ q.req \in DOMAIN kinds[c] /\ Len(q.body) <= BodySize(kinds[c][q.req])
      /\ kinds[c] \in Seq(Kinds) /\ q.body \in Seq(Units) /\ wire[c] \in Seq(Units)
  BY <1>1, Facts DEF Inv, Request, Busy
<1>4. kinds[c][q.req] \in Kinds
  BY <1>3
<1> HIDE DEF q
<1> QED BY <1>1, <1>2, <1>3, <1>4, ParseStep

LEMMA CloseStep ==
    ASSUME IInv, NEW c \in Clients, Close(c), NEW r,
           Settled(c, gone, expired, kinds[c], handled[c], r),
           got' = [got EXCEPT ![c] = r]
    PROVE  IInv'
<1>1. Inv(c, gone, expired, kinds[c], << >>, << >>, Closed, handled[c], r)
  BY Facts, CloseKeeps
<1>2. Becomes(c, gone, expired, kinds[c], << >>, << >>, Closed, handled[c], r)
  <2>1. /\ session' = [session EXCEPT ![c] = Closed]
        /\ sending' = [sending EXCEPT ![c] = << >>] /\ wire' = [wire EXCEPT ![c] = << >>]
        /\ buffer' = [buffer EXCEPT ![c] = << >>]
        /\ UNCHANGED <<kinds, gone, expired, handled>>
    BY DEF Close
  <2>2. buffer' \in [Clients -> Seq(Units)]
    BY <2>1, Facts DEF Same
  <2> QED BY <2>1, <2>2, Facts DEF Same, Becomes
<1> QED BY <1>1, <1>2, Step

LEMMA CloseGone ==
    ASSUME IInv, NEW c \in Clients, Close(c), c \in gone \cup expired, UNCHANGED got
    PROVE  IInv'
<1>1. Settled(c, gone, expired, kinds[c], handled[c], got[c])
  BY Facts, LeftOrLate
<1>2. got' = [got EXCEPT ![c] = got[c]]
  BY Facts DEF Same
<1> QED BY <1>1, <1>2, CloseStep

LEMMA ReadGarbageStep ==
    ASSUME IInv, NEW c \in Clients, ReadGarbage(c)
    PROVE  IInv'
<1> DEFINE e == [NextRequest EXCEPT !.pc = "error"]
<1>1. Inv(c, gone, expired, kinds[c], sending[c], wire[c], e, handled[c], got[c])
  BY Facts, FailKeeps DEF ReadGarbage
<1>2. Becomes(c, gone, expired, kinds[c], sending[c], wire[c], e, handled[c], got[c])
  BY Facts DEF ReadGarbage, Fail, Same, Becomes
<1> QED BY <1>1, <1>2, Step

LEMMA HandleStep ==
    ASSUME IInv, NEW c \in Clients, Handle(c)
    PROVE  IInv'
<1> DEFINE a == [req |-> session[c].req, body |-> session[c].body]
<1>1. PICK pc \in {"write", "send"} :
          session' = [session EXCEPT ![c] = [session[c] EXCEPT !.pc = pc]]
  BY DEF Handle
<1>2. /\ session[c].pc = "handle" /\ handled' = [handled EXCEPT ![c] = Append(handled[c], a)]
      /\ UNCHANGED <<kinds, sending, gone, wire, buffer, expired, got>>
  BY DEF Handle
<1>3. Inv(c, gone, expired, kinds[c], sending[c], wire[c], [session[c] EXCEPT !.pc = pc],
          Append(handled[c], a), got[c])
  BY <1>2, Facts, HandleKeeps
<1> HIDE DEF a
<1>4. Becomes(c, gone, expired, kinds[c], sending[c], wire[c], [session[c] EXCEPT !.pc = pc],
              Append(handled[c], a), got[c])
  BY <1>1, <1>2, Facts DEF Same, Becomes
<1> QED BY <1>3, <1>4, Step

(* What the client takes, unless it is gone.                                *)
LEMMA Received ==
    ASSUME IInv, NEW c \in Clients, NEW number, Receive(c, number)
    PROVE  \E r \in {got[c], Append(got[c], number)} :
               /\ got' = [got EXCEPT ![c] = r]
               /\ r = got[c] => c \in gone
<1>1. CASE c \in gone
  <2>1. got' = [got EXCEPT ![c] = got[c]]
    BY <1>1, Facts DEF Receive, Same
  <2> QED BY <1>1, <2>1
<1>2. CASE c \notin gone
  <2>1. got' = [got EXCEPT ![c] = Append(got[c], number)]
    BY <1>2 DEF Receive
  <2>2. Append(got[c], number) # got[c]
    <3>1. Len(got[c]) \in Nat
      BY Types DEF IInv
    <3>2. Len(Append(got[c], number)) = Len(got[c]) + 1
      BY Types DEF IInv
    <3> QED BY <3>1, <3>2
  <2> QED BY <2>1, <2>2
<1> QED BY <1>1, <1>2

LEMMA RespondStep ==
    ASSUME IInv, NEW c \in Clients, Respond(c)
    PROVE  IInv'
<1> DEFINE q == session[c]
<1>1. q.pc \in {"write", "send"} /\ Receive(c, q.req)
  BY DEF Respond
<1>2. PICK r \in {got[c], Append(got[c], q.req)} :
          /\ got' = [got EXCEPT ![c] = r]
          /\ r = got[c] => c \in gone
  BY <1>1, Received
<1>3. CASE kinds[c][q.req] = "close"
  <2>1. Close(c)
    BY <1>3 DEF Respond
  <2>2. Settled(c, gone, expired, kinds[c], handled[c], r)
    <3>1. CASE r = got[c]
      BY <1>2, <3>1, Facts, LeftOrLate
    <3>2. CASE r = Append(got[c], q.req)
      <4>1. Inv(c, gone, expired, kinds[c], sending[c], wire[c], q, handled[c], got[c])
        BY Facts
      <4>2. q.req \in DOMAIN kinds[c] => kinds[c] # << >>
        OBVIOUS
      <4> HIDE DEF q
      <4> QED BY <1>1, <1>3, <3>2, <4>1, <4>2, AnswerFacts DEF Settled
    <3> QED BY <3>1, <3>2
  <2> QED BY <1>2, <2>1, <2>2, CloseStep
<1>4. CASE kinds[c][q.req] # "close"
  <2>1. Inv(c, gone, expired, kinds[c], sending[c], wire[c], NextRequest, handled[c], r)
    BY <1>1, <1>2, Facts, RespondKeeps
  <2>2. Becomes(c, gone, expired, kinds[c], sending[c], wire[c], NextRequest, handled[c], r)
    <3>1. /\ session' = [session EXCEPT ![c] = NextRequest]
          /\ buffer' = [buffer EXCEPT ![c] = << >>]
          /\ UNCHANGED <<kinds, sending, gone, wire, expired, handled>>
      BY <1>4 DEF Respond
    <3>2. buffer' \in [Clients -> Seq(Units)]
      BY <3>1, Facts DEF Same
    <3> QED BY <1>2, <3>1, <3>2, Facts DEF Same, Becomes
  <2> QED BY <2>1, <2>2, Step
<1> QED BY <1>3, <1>4

LEMMA ReportStep ==
    ASSUME IInv, NEW c \in Clients, Report(c)
    PROVE  IInv'
<1>1. session[c].pc = "error" /\ Receive(c, 0) /\ Close(c)
  BY DEF Report
<1>2. PICK r \in {got[c], Append(got[c], 0)} : got' = [got EXCEPT ![c] = r]
  BY <1>1, Received
<1>3. Settled(c, gone, expired, kinds[c], handled[c], r)
  BY <1>1, <1>2, Facts, ReportSettled
<1> QED BY <1>1, <1>2, <1>3, CloseStep

LEMMA StepInv == IInv /\ [Next]_vars => IInv'
<1> SUFFICES ASSUME IInv, [Next]_vars PROVE IInv'
  OBVIOUS
<1>1. CASE UNCHANGED vars
  BY <1>1 DEF vars, IInv, ClientInv, TypeOK
<1>2. CASE Next
  <2>1. PICK c \in Clients : Session(c) \/ Respond(c) \/ Send(c) \/ Client(c)
    BY <1>2 DEF Next
  <2>2. CASE ReadHeader(c)
    BY <2>2, ReadHeaderStep
  <2>3. CASE ReadGarbage(c)
    BY <2>3, ReadGarbageStep
  <2>4. CASE ReadBody(c)
    BY <2>4, ReadBodyStep
  <2>5. CASE ReadEnd(c)
    BY <2>5, CloseGone DEF ReadEnd
  <2>6. CASE Handle(c)
    BY <2>6, HandleStep
  <2>7. CASE RespondFails(c)
    BY <2>7, CloseGone DEF RespondFails
  <2>8. CASE Report(c)
    BY <2>8, ReportStep
  <2>9. CASE TimesOut(c)
    BY <2>9, CloseGone DEF TimesOut
  <2>10. CASE Respond(c)
    BY <2>10, RespondStep
  <2>11. CASE Send(c)
    BY <2>11, SendStep
  <2>12. ASSUME NEW kind \in KindsOf[c], Begin(c, kind) PROVE IInv'
    <3>1. kind \in Kinds
      BY SessionAssumption
    <3> QED BY <2>12, <3>1, BeginStep
  <2>13. CASE Leave(c)
    BY <2>13, LeaveStep
  <2>14. CASE Expire(c)
    BY <2>14, ExpireStep
  <2> QED BY <2>1, <2>2, <2>3, <2>4, <2>5, <2>6, <2>7, <2>8, <2>9, <2>10, <2>11, <2>12,
             <2>13, <2>14 DEF Session, Client
<1> QED BY <1>1, <1>2

-----------------------------------------------------------------------------
(* In every reachable state the invariant holds of each client.             *)
THEOREM InvariantHolds == Spec => []IInv
BY InitInv, StepInv, PTL DEF Spec

(* No session takes more for a body than belongs to it, and every variable  *)
(* has its type.                                                            *)
THEOREM TypeCorrect == Spec => []TypeOK
<1>1. IInv => TypeOK
  BY DEF IInv
<1> QED BY <1>1, InvariantHolds, PTL

(* However the streams of any number of clients are cut into reads, and     *)
(* whatever of them is lost, a handler gets requests with their own bodies, *)
(* whole, each at most once.                                                *)
THEOREM HandledAreWholeHolds == Spec => []HandledAreWhole
<1>1. IInv => HandledAreWhole
  BY DEF IInv, ClientInv, Inv, Whole, BodySize, HandledAreWhole
<1> QED BY <1>1, InvariantHolds, PTL

(* Each client gets its answers in the order of its requests, and none      *)
(* after an error.                                                          *)
THEOREM AnswersInOrderHolds == Spec => []AnswersInOrder
<1>1. IInv => AnswersInOrder
  BY DEF IInv, ClientInv, Inv, Rising, AnswersInOrder
<1> QED BY <1>1, InvariantHolds, PTL

(* A client that waits for its answers, and sends what the server supports, *)
(* gets them all, and keeps its connection until the session's time is over *)
(* or the client ends it, whatever the other clients do.                    *)
THEOREM WaitingAreServedHolds == Spec => []WaitingAreServed
<1>1. ASSUME IInv, NEW c \in Waiting, \A i \in DOMAIN kinds[c] : kinds[c][i] # "unread"
      PROVE  /\ \A i \in DOMAIN got[c] : got[c][i] = i
             /\ session[c].pc = "closed" =>
                    \/ c \in gone \cup expired
                    \/ kinds[c][Len(kinds[c])] = "close" /\ Len(got[c]) = Len(kinds[c])
  <2>1. c \in Clients
    BY SessionAssumption
  <2>2. Served(c, gone, expired, kinds[c], sending[c], wire[c], session[c], got[c])
    BY <1>1, <2>1 DEF IInv, ClientInv, Inv
  <2> QED BY <1>1, <2>2 DEF Served
<1>2. IInv => WaitingAreServed
  BY <1>1 DEF WaitingAreServed
<1> QED BY <1>2, InvariantHolds, PTL
==============================================================================
