------------------------- MODULE AgentRegistryProofs -------------------------
(***************************************************************************)
(* Proofs about AgentRegistry for every value of its constants: the typing *)
(* of the state, the lifetime of an entry, what a listing may contain, and *)
(* how often a gateway hears of an agent.                                  *)
(***************************************************************************)
EXTENDS AgentRegistry, FiniteSetTheorems, TLAPS

(* The addresses of the announce loop are gateways.                         *)
LEMMA RegistryFacts ==
    /\ Len(Registry) \in Nat \ {0}
    /\ DOMAIN Registry = 1..Len(Registry)
    /\ \A i \in DOMAIN Registry : Registry[i] \in Gateways
  BY RegistryAssumption

(* Times are natural numbers, and None is not one of them.                  *)
LEMMA TimesFacts ==
    /\ Times \subseteq Nat /\ 0 \in Times /\ None \in Never /\ Times \subseteq Never
    /\ \A t \in Never : t # None => t \in Times
    /\ \A t \in Times : t # None /\ t <= MaxClock
  BY TimeAssumption DEF Times, Never, None

(* Both outcomes of an attempt leave a well-formed announce thread.         *)
LEMMA AdvanceType ==
    ASSUME NEW ag \in AgentStates, NEW t \in Nat
    PROVE  Advance(ag, t) \in AgentStates /\ Retry(ag, t) \in AgentStates
<1>1. Advance(ag, t) \in AgentStates
  BY RegistryFacts, TimeAssumption, BudgetAssumption DEF AgentStates, Advance, Sending
<1>2. CASE ag.attempt < MaxRetries
  <2>0. ag.attempt \in 0..MaxRetries /\ ag.i \in DOMAIN Registry
    BY DEF AgentStates
  <2>1. ag.attempt + 1 \in 0..MaxRetries
    BY <1>2, <2>0, BudgetAssumption
  <2>2. Sending(ag.i, ag.attempt + 1, t) \in AgentStates
    BY <2>0, <2>1 DEF AgentStates, Sending
  <2> QED BY <1>1, <1>2, <2>2 DEF Retry
<1>3. CASE ~(ag.attempt < MaxRetries)
  BY <1>3, <1>1 DEF Retry
<1> QED BY <1>1, <1>2, <1>3

(* So are the initial states of the threads.                                *)
LEMMA ThreadTypes ==
    /\ Idle \in ListerStates
    /\ Stopped \in AgentStates
    /\ \A t \in Nat : Asleep(t) \in SweeperStates /\ Sending(1, 0, t) \in AgentStates
  BY RegistryFacts, TimesFacts, TimeAssumption, BudgetAssumption
     DEF Idle, ListerStates, Stopped, AgentStates, Asleep, SweeperStates, Sending

(* Every variable keeps its type.                                           *)
THEOREM TypeCorrect == Spec => []TypeOK
<1>1. Init => TypeOK
  BY ThreadTypes, TimesFacts, BudgetAssumption DEF Init, TypeOK
<1>2. TypeOK /\ [Next]_vars => TypeOK'
  <2> SUFFICES ASSUME TypeOK, [Next]_vars PROVE TypeOK'
    OBVIOUS
  <2> USE ThreadTypes, TimesFacts DEF TypeOK
  <2>1. CASE Tick
    BY <2>1, TimeAssumption DEF Tick, Times
  <2>2. ASSUME NEW g \in Gateways, SweepReadClock(g) PROVE TypeOK'
    <3>1. [pc |-> "locking", now |-> clock, due |-> clock] \in SweeperStates
      BY DEF SweeperStates
    <3> QED BY <2>2, <3>1 DEF SweepReadClock
  <2>3. ASSUME NEW g \in Gateways, SweepErase(g) PROVE TypeOK'
    BY <2>3 DEF SweepErase
  <2>4. ASSUME NEW g \in Gateways, ListReadClock(g) PROVE TypeOK'
    <3>1. [pc |-> "locking", now |-> clock] \in ListerStates
      BY DEF ListerStates
    <3> QED BY <2>4, <3>1 DEF ListReadClock
  <2>5. ASSUME NEW g \in Gateways, ListCollect(g) PROVE TypeOK'
    BY <2>5 DEF ListCollect
  <2>6. ASSUME NEW g \in Gateways, GatewayCrash(g) PROVE TypeOK'
    <3>1. agent' \in [Agents -> AgentStates]
      BY <2>6, AdvanceType DEF GatewayCrash
    <3>2. pooled' \in [Agents -> [Gateways -> {"none", "open", "stale"}]]
      BY <2>6 DEF GatewayCrash
    <3>3. faults' \in 0..MaxFaults
      BY <2>6, BudgetAssumption DEF GatewayCrash, Fault
    <3>4. [a \in Agents |-> None] \in [Agents -> Never]
      OBVIOUS
    <3> QED BY <2>6, <3>1, <3>2, <3>3, <3>4 DEF GatewayCrash
  <2>7. ASSUME NEW g \in Gateways, GatewayStart(g) PROVE TypeOK'
    BY <2>7 DEF GatewayStart
  <2>8. ASSUME NEW g \in Gateways, GatewayStall(g) PROVE TypeOK'
    BY <2>8, BudgetAssumption DEF GatewayStall, Fault
  <2>9. ASSUME NEW g \in Gateways, GatewayResume(g) PROVE TypeOK'
    <3>1. request' \in [Gateways -> [Agents -> Never]]
      BY <2>9 DEF GatewayResume
    <3> QED BY <2>9, <3>1 DEF GatewayResume
  <2>10. ASSUME NEW g \in Gateways, NEW a \in Agents, AddAgent(g, a) PROVE TypeOK'
    <3>1. Advance(agent[a], clock) \in AgentStates
      BY AdvanceType
    <3>2. agent' \in [Agents -> AgentStates]
      <4>1. \/ agent' = [agent EXCEPT ![a] = Advance(agent[a], clock)]
            \/ agent' = agent
        BY <2>10 DEF AddAgent
      <4> QED BY <3>1, <4>1
    <3>3. pooled' \in [Agents -> [Gateways -> {"none", "open", "stale"}]]
      <4>1. \/ pooled' = [pooled EXCEPT ![a][g] = "open"]
            \/ pooled' = pooled
        BY <2>10 DEF AddAgent
      <4>2. [pooled[a] EXCEPT ![g] = "open"] \in [Gateways -> {"none", "open", "stale"}]
        OBVIOUS
      <4> QED BY <4>1, <4>2
    <3>5. last_announce' \in [Gateways -> [Agents -> Never]]
      BY <2>10 DEF AddAgent
    <3>6. request' \in [Gateways -> [Agents -> Never]]
      BY <2>10 DEF AddAgent
    <3>4. agents_' \in [Gateways -> SUBSET Agents]
      BY <2>10 DEF AddAgent
    <3> QED BY <2>10, <3>2, <3>3, <3>4, <3>5, <3>6 DEF AddAgent
  <2>11. ASSUME NEW g \in Gateways, NEW a \in Agents, SessionExpire(g, a) PROVE TypeOK'
    BY <2>11, BudgetAssumption DEF SessionExpire, Fault
  <2>12. ASSUME NEW a \in Agents, AnnounceSend(a) PROVE TypeOK'
    <3>1. Target(a) \in Gateways
      BY RegistryFacts DEF Target, AgentStates
    <3>2. agent' \in [Agents -> AgentStates]
      BY <2>12 DEF AnnounceSend, AgentStates
    <3> QED BY <2>12, <3>1, <3>2 DEF AnnounceSend
  <2>13. ASSUME NEW a \in Agents, AnnounceOnStale(a) PROVE TypeOK'
    <3>1. Target(a) \in Gateways
      BY RegistryFacts DEF Target, AgentStates
    <3> QED BY <2>13, <3>1, AdvanceType DEF AnnounceOnStale
  <2>14. ASSUME NEW a \in Agents, AnnounceRefused(a) PROVE TypeOK'
    <3>1. Advance(agent[a], clock) \in AgentStates
      BY AdvanceType
    <3> QED BY <2>14, <3>1 DEF AnnounceRefused
  <2>15. ASSUME NEW a \in Agents, AgentCrash(a) PROVE TypeOK'
    BY <2>15, BudgetAssumption DEF AgentCrash, Fault
  <2>16. ASSUME NEW a \in Agents, AgentStart(a) PROVE TypeOK'
    BY <2>16 DEF AgentStart
  <2>17. CASE UNCHANGED vars
    BY <2>17 DEF vars
  <2> QED
    BY <2>1, <2>2, <2>3, <2>4, <2>5, <2>6, <2>7, <2>8, <2>9, <2>10, <2>11,
       <2>12, <2>13, <2>14, <2>15, <2>16, <2>17
       DEF Next, GatewayStep, AgentStep
<1> QED BY <1>1, <1>2, PTL DEF Spec

-----------------------------------------------------------------------------
(* What relates the map to the sweep: an entry is as young as the last      *)
(* sweep's clock reading requires, and the clock has not run past the next  *)
(* one.  The time of a sweep is bounded by the sleep and two delays.        *)
SweepInv ==
    \A g \in Gateways : gateway[g] # "down" =>
        LET s == sweeper[g] IN
        /\ s.pc = "sleeping" =>
             /\ clock <= s.due + MaxDelay
             /\ s.due <= clock + Timeout
             /\ \A a \in agents_[g] :
                  last_announce[g][a] >= s.due - 2 * Timeout - MaxDelay
        /\ s.pc = "locking" =>
             /\ s.due = s.now /\ s.now <= clock /\ clock <= s.now + MaxDelay
             /\ \A a \in agents_[g] :
                  last_announce[g][a] >= s.now - 2 * Timeout - 2 * MaxDelay

(* No announcement is from the future.                                      *)
HistoryInv ==
    \A g \in Gateways, a \in Agents : last_announce[g][a] <= clock

(* A gateway that is down has neither entries nor requests.                 *)
DownInv ==
    \A g \in Gateways : gateway[g] = "down" =>
        agents_[g] = {} /\ \A a \in Agents : request[g][a] = None

LifetimeInv == TypeOK /\ DownInv /\ HistoryInv /\ SweepInv

(* An unsigned difference within the time-out is a real one, unless the     *)
(* second operand is later: the wrapped difference exceeds every time-out.  *)
LEMMA ElapsedFacts ==
    ASSUME NEW now \in Times, NEW last \in Never, ~Expired(now, last)
    PROVE  last <= now /\ now - last <= Timeout
  BY TimeAssumption DEF Expired, Elapsed, Times, Never, None

(* The types of the parts of the state that the invariants compare.         *)
LEMMA TypeFacts ==
    ASSUME TypeOK
    PROVE  /\ clock \in Nat /\ clock \in Times
           /\ \A g \in Gateways : /\ sweeper[g].pc \in {"sleeping", "locking"}
                                  /\ sweeper[g].now \in Nat /\ sweeper[g].due \in Nat
                                  /\ sweeper[g].now \in Times
                                  /\ lister[g].now \in Nat /\ lister[g].now \in Times
           /\ \A g \in Gateways, a \in Agents :
                /\ last_announce[g][a] \in Int /\ last_announce[g][a] \in Never
                /\ request[g][a] \in Int
           /\ \A a \in Agents : since[a] \in Nat
           /\ \A g \in Gateways : upSince[g] \in Nat
           /\ \A g \in Gateways : agents_[g] \subseteq Agents
<1>1. \A g \in Gateways : sweeper[g] \in SweeperStates /\ lister[g] \in ListerStates
  BY DEF TypeOK
<1>2. \A g \in Gateways, a \in Agents :
        last_announce[g][a] \in Never /\ request[g][a] \in Never
  BY DEF TypeOK
<1>3. \A t \in Never : t \in Int
  BY TimesFacts DEF Never, None
<1>4. /\ clock \in Times /\ \A a \in Agents : since[a] \in Times
      /\ \A g \in Gateways : upSince[g] \in Times
      /\ \A g \in Gateways : agents_[g] \subseteq Agents
  BY DEF TypeOK
<1>5. /\ \A t \in SweeperStates : /\ t.pc \in {"sleeping", "locking"}
                                 /\ t.now \in Times /\ t.due \in Nat
      /\ \A t \in ListerStates : t.now \in Times
  BY DEF SweeperStates, ListerStates
<1> QED BY <1>1, <1>2, <1>3, <1>4, <1>5, TimesFacts

(* No action but Tick and AddAgent makes an entry older or younger.         *)
LEMMA HistoryStep ==
    ASSUME TypeOK, HistoryInv, [Next]_vars PROVE HistoryInv'
<1> USE TypeFacts DEF HistoryInv
<1>1. CASE Tick
  BY <1>1 DEF Tick
<1>2. ASSUME NEW g \in Gateways, GatewayCrash(g) PROVE HistoryInv'
  BY <1>2 DEF GatewayCrash, None, TypeOK
<1>3. ASSUME NEW g \in Gateways, NEW a \in Agents, AddAgent(g, a) PROVE HistoryInv'
  BY <1>3 DEF AddAgent, TypeOK
<1>4. CASE UNCHANGED <<clock, last_announce>>
  BY <1>4
<1> QED
  BY <1>1, <1>2, <1>3, <1>4
     DEF Next, vars, GatewayStep, AgentStep, SweepReadClock, SweepErase, ListReadClock,
         ListCollect, GatewayStart, GatewayStall, GatewayResume, SessionExpire,
         AnnounceSend, AnnounceOnStale, AnnounceRefused, AgentCrash, AgentStart

(* Entries and requests come only to a gateway that is not down.            *)
LEMMA DownStep ==
    ASSUME TypeOK, DownInv, [Next]_vars PROVE DownInv'
<1> USE DEF DownInv, TypeOK
<1>1. ASSUME NEW g \in Gateways, SweepErase(g) PROVE DownInv'
  BY <1>1 DEF SweepErase
<1>2. ASSUME NEW g \in Gateways, NEW a \in Agents, AddAgent(g, a) PROVE DownInv'
  BY <1>2 DEF AddAgent
<1>3. ASSUME NEW g \in Gateways, GatewayCrash(g) PROVE DownInv'
  BY <1>3 DEF GatewayCrash
<1>4. ASSUME NEW g \in Gateways, GatewayStart(g) \/ GatewayStall(g) PROVE DownInv'
  BY <1>4 DEF GatewayStart, GatewayStall
<1>5. ASSUME NEW g \in Gateways, GatewayResume(g) PROVE DownInv'
  BY <1>5 DEF GatewayResume
<1>6. ASSUME NEW a \in Agents, AnnounceSend(a) PROVE DownInv'
  <2>1. Target(a) \in Gateways
    BY RegistryFacts DEF Target, AgentStates
  <2> QED BY <1>6, <2>1 DEF AnnounceSend
<1>7. CASE UNCHANGED <<gateway, agents_, request>>
  BY <1>7
<1> QED
  BY <1>1, <1>2, <1>3, <1>4, <1>5, <1>6, <1>7
     DEF Next, vars, GatewayStep, AgentStep, Tick, SweepReadClock, ListReadClock,
         ListCollect, SessionExpire, AnnounceOnStale, AnnounceRefused, AgentCrash,
         AgentStart

(* One sweep to the next.                                                   *)
LEMMA SweepStep ==
    ASSUME TypeOK, DownInv, HistoryInv, SweepInv, [Next]_vars PROVE SweepInv'
<1> USE TypeFacts, TimeAssumption DEF SweepInv
<1>1. CASE Tick
  BY <1>1 DEF Tick, OnTime
<1>2. ASSUME NEW g \in Gateways, SweepReadClock(g) PROVE SweepInv'
  BY <1>2 DEF SweepReadClock, TypeOK
<1>3. ASSUME NEW g \in Gateways, SweepErase(g) PROVE SweepInv'
  <2>1. \A a \in agents_'[g] : last_announce[g][a] >= sweeper[g].now - Timeout
    BY <1>3, ElapsedFacts DEF SweepErase, TypeOK
  <2>2. clock <= sweeper[g].now + MaxDelay
    BY <1>3 DEF SweepErase
  <2>3. \A a \in agents_'[g] :
          last_announce[g][a] >= (clock + Timeout) - 2 * Timeout - MaxDelay
    BY <1>3, <2>1, <2>2 DEF SweepErase, TypeOK
  <2> QED BY <1>3, <2>3 DEF SweepErase, TypeOK, Asleep
<1>4. ASSUME NEW g \in Gateways, NEW a \in Agents, AddAgent(g, a) PROVE SweepInv'
  BY <1>4 DEF AddAgent, TypeOK
<1>5. ASSUME NEW g \in Gateways, GatewayCrash(g) PROVE SweepInv'
  BY <1>5 DEF GatewayCrash, TypeOK
<1>6. ASSUME NEW g \in Gateways, GatewayStart(g) PROVE SweepInv'
  BY <1>6 DEF GatewayStart, DownInv, TypeOK, Asleep
<1>7. ASSUME NEW g \in Gateways, GatewayStall(g) \/ GatewayResume(g) PROVE SweepInv'
  BY <1>7 DEF GatewayStall, GatewayResume, TypeOK
<1>8. CASE UNCHANGED <<clock, gateway, agents_, last_announce, sweeper>>
  BY <1>8
<1> QED
  BY <1>1, <1>2, <1>3, <1>4, <1>5, <1>6, <1>7, <1>8
     DEF Next, vars, GatewayStep, AgentStep, ListReadClock, ListCollect, SessionExpire,
         AnnounceSend, AnnounceOnStale, AnnounceRefused, AgentCrash, AgentStart

LEMMA LifetimeInvariant == Spec => []LifetimeInv
<1>1. Init => DownInv /\ HistoryInv /\ SweepInv
  BY TimeAssumption, TimesFacts
     DEF Init, DownInv, HistoryInv, SweepInv, Asleep, None
<1>2. TypeOK /\ DownInv /\ HistoryInv /\ SweepInv /\ [Next]_vars
        => (DownInv /\ HistoryInv /\ SweepInv)'
  BY DownStep, HistoryStep, SweepStep
<1> QED BY <1>1, <1>2, TypeCorrect, PTL DEF Spec, LifetimeInv

(* A running gateway's map never holds an entry older than two time-outs    *)
(* and the delays of one sweep (cleanup_expired_agents, run_cleanup_task).  *)
THEOREM EntryLifetimeHolds == Spec => []EntryLifetime
<1>1. LifetimeInv => EntryLifetime
  <2> SUFFICES ASSUME LifetimeInv, NEW g \in Gateways, gateway[g] # "down",
                      NEW a \in agents_[g]
               PROVE  clock - last_announce[g][a] <= 2 * Timeout + 3 * MaxDelay
    BY DEF EntryLifetime
  <2>1. TypeOK /\ a \in Agents
    BY TypeFacts DEF LifetimeInv
  <2>2. CASE sweeper[g].pc = "sleeping"
    BY <2>1, <2>2, TypeFacts, TimeAssumption DEF LifetimeInv, SweepInv
  <2>3. CASE sweeper[g].pc = "locking"
    BY <2>1, <2>3, TypeFacts, TimeAssumption DEF LifetimeInv, SweepInv
  <2> QED BY <2>1, <2>2, <2>3, TypeFacts
<1> QED BY <1>1, LifetimeInvariant, PTL

-----------------------------------------------------------------------------
(* A lister's clock reading is old by at most its wait for the lock.        *)
ListerInv ==
    \A g \in Gateways : lister[g].pc = "locking" =>
        lister[g].now <= clock /\ clock <= lister[g].now + MaxDelay

LEMMA ListerStep ==
    ASSUME TypeOK, ListerInv, [Next]_vars PROVE ListerInv'
<1> USE TypeFacts, TimeAssumption DEF ListerInv, TypeOK
<1>1. CASE Tick
  BY <1>1 DEF Tick, OnTime
<1>2. ASSUME NEW g \in Gateways, ListReadClock(g) PROVE ListerInv'
  BY <1>2 DEF ListReadClock
<1>3. ASSUME NEW g \in Gateways, ListCollect(g) \/ GatewayCrash(g) PROVE ListerInv'
  <2>1. lister' = [lister EXCEPT ![g] = Idle] /\ clock' = clock
    BY <1>3 DEF ListCollect, GatewayCrash
  <2>2. Idle.pc # "locking"
    BY DEF Idle
  <2> QED BY <2>1, <2>2
<1>4. CASE UNCHANGED <<clock, lister>>
  BY <1>4
<1> QED
  BY <1>1, <1>2, <1>3, <1>4
     DEF Next, vars, GatewayStep, AgentStep, SweepReadClock, SweepErase, GatewayStart,
         GatewayStall, GatewayResume, AddAgent, SessionExpire, AnnounceSend,
         AnnounceOnStale, AnnounceRefused, AgentCrash, AgentStart

LEMMA ListerInvariant == Spec => []ListerInv
<1>1. Init => ListerInv
  BY DEF Init, ListerInv, Idle
<1>2. TypeOK /\ ListerInv /\ [Next]_vars => ListerInv'
  BY ListerStep
<1> QED BY <1>1, <1>2, TypeCorrect, PTL DEF Spec

(* What get_active_agents returns was announced at most a time-out before   *)
(* its call, whatever the interleaving with announcements and sweeps.       *)
THEOREM ListedAreRecentHolds == Spec => ListedAreRecent
<1> DEFINE Recent ==
        \A g \in Gateways : ListCollect(g) =>
          \A a \in listed'[g] : clock - last_announce[g][a] <= Timeout + MaxDelay
<1>1. TypeOK /\ ListerInv => Recent
  <2> SUFFICES ASSUME TypeOK, ListerInv, NEW g \in Gateways, ListCollect(g),
                      NEW a \in listed'[g]
               PROVE  clock - last_announce[g][a] <= Timeout + MaxDelay
    OBVIOUS
  <2>1. a \in Agents /\ ~Expired(lister[g].now, last_announce[g][a])
    BY DEF ListCollect, TypeOK
  <2>2. lister[g].now - last_announce[g][a] <= Timeout
    BY <2>1, ElapsedFacts, TypeFacts
  <2> QED BY <2>1, <2>2, TypeFacts, TimeAssumption DEF ListerInv, ListCollect
<1>2. TypeOK /\ ListerInv => [Recent]_vars
  BY <1>1
<1> QED BY <1>2, TypeCorrect, ListerInvariant, PTL DEF ListedAreRecent

-----------------------------------------------------------------------------
(* A running gateway serves a request within a delay of its arrival, or of  *)
(* its own resumption, and so the last one of an agent within a delay of    *)
(* the agent's end or of the resumption.                                    *)
StoppedInv ==
    /\ \A g \in Gateways, a \in Agents :
         /\ request[g][a] <= clock
         /\ request[g][a] # None /\ gateway[g] = "up" => clock <= request[g][a] + MaxDelay
         /\ upSince[g] <= clock
         /\ agent[a].pc = "down" =>
              /\ request[g][a] <= since[a] \/ request[g][a] <= upSince[g]
              /\ \/ last_announce[g][a] <= since[a] + MaxDelay
                 \/ last_announce[g][a] <= upSince[g] + MaxDelay

(* An attempt, whatever its outcome, leaves the announce thread running.    *)
LEMMA AttemptRuns ==
    ASSUME NEW ag, NEW t
    PROVE  Advance(ag, t).pc = "sending" /\ Retry(ag, t).pc = "sending"
  BY DEF Advance, Retry, Sending

LEMMA StoppedStep ==
    ASSUME TypeOK, DownInv, HistoryInv, StoppedInv, [Next]_vars
    PROVE  StoppedInv'
<1> USE TypeFacts, TimeAssumption DEF StoppedInv, TypeOK
<1>1. CASE Tick
  <2> SUFFICES ASSUME NEW g \in Gateways, NEW a \in Agents, request[g][a] # None,
                      gateway[g] = "up"
               PROVE  clock + 1 <= request[g][a] + MaxDelay
    BY <1>1 DEF Tick
  <2> QED BY <1>1 DEF Tick, OnTime
<1>2. ASSUME NEW g \in Gateways, NEW a \in Agents, AddAgent(g, a) PROVE StoppedInv'
  <2>1. /\ last_announce' = [last_announce EXCEPT ![g][a] = clock]
        /\ request' = [request EXCEPT ![g][a] = None]
        /\ clock' = clock /\ gateway' = gateway /\ since' = since /\ upSince' = upSince
        /\ clock <= request[g][a] + MaxDelay
    BY <1>2 DEF AddAgent
  <2>2. \A b \in Agents : agent'[b].pc = "down" => agent[b].pc = "down"
    <3>1. Advance(agent[a], clock).pc = "sending"
      BY AttemptRuns
    <3>2. \/ agent' = [agent EXCEPT ![a] = Advance(agent[a], clock)]
          \/ agent' = agent
      BY <1>2 DEF AddAgent
    <3> QED BY <3>1, <3>2
  <2>3. agent[a].pc = "down" => \/ clock <= since[a] + MaxDelay
                                \/ clock <= upSince[g] + MaxDelay
    <3>1. /\ request[g][a] \in Int /\ clock \in Nat /\ since[a] \in Nat
          /\ upSince[g] \in Nat /\ MaxDelay \in Nat
      OBVIOUS
    <3>2. agent[a].pc = "down" => \/ request[g][a] <= since[a]
                                  \/ request[g][a] <= upSince[g]
      OBVIOUS
    <3>3. clock <= request[g][a] + MaxDelay
      BY <2>1
    <3> HIDE DEF StoppedInv, TypeOK
    <3> QED BY <3>1, <3>2, <3>3
  <2> QED BY <2>1, <2>2, <2>3 DEF None
<1>3. ASSUME NEW g \in Gateways, GatewayCrash(g) PROVE StoppedInv'
  <2>1. /\ request' = [request EXCEPT ![g] = [a \in Agents |-> None]]
        /\ last_announce' = [last_announce EXCEPT ![g] = [a \in Agents |-> None]]
        /\ gateway' = [gateway EXCEPT ![g] = "down"]
        /\ UNCHANGED <<clock, upSince, since>>
    BY <1>3 DEF GatewayCrash
  <2>2. \A a \in Agents : agent'[a].pc = "down" => agent[a].pc = "down"
    <3> SUFFICES ASSUME NEW a \in Agents PROVE agent'[a].pc = "down" => agent[a].pc = "down"
      OBVIOUS
    <3>1. agent'[a] \in {Retry(agent[a], clock), agent[a]}
      BY <1>3 DEF GatewayCrash
    <3>2. Retry(agent[a], clock).pc = "sending"
      BY AttemptRuns
    <3> QED BY <3>1, <3>2
  <2>3. \A a \in Agents : request'[g][a] = None /\ last_announce'[g][a] = None
    BY <2>1
  <2>4. \A h \in Gateways \ {g} : /\ request'[h] = request[h]
                                 /\ last_announce'[h] = last_announce[h]
                                 /\ gateway'[h] = gateway[h]
    BY <2>1
  <2> QED BY <2>1, <2>2, <2>3, <2>4 DEF None
<1>4. ASSUME NEW g \in Gateways, GatewayStart(g) PROVE StoppedInv'
  BY <1>4 DEF GatewayStart, DownInv
<1>5. ASSUME NEW g \in Gateways, GatewayStall(g) \/ GatewayResume(g) PROVE StoppedInv'
  <2>1. CASE GatewayStall(g)
    BY <2>1 DEF GatewayStall
  <2>2. CASE GatewayResume(g)
    <3>1. /\ upSince' = [upSince EXCEPT ![g] = clock]
          /\ \A a \in Agents : /\ request'[g][a] = clock \/ request'[g][a] = None
                              /\ request'[g][a] <= clock
          /\ \A h \in Gateways \ {g} : request'[h] = request[h] /\ gateway'[h] = gateway[h]
          /\ UNCHANGED <<clock, last_announce, agent, since>>
      BY <2>2 DEF GatewayResume, None
    <3> QED BY <3>1
  <2> QED BY <1>5, <2>1, <2>2
<1>6. ASSUME NEW a \in Agents, AnnounceSend(a) PROVE StoppedInv'
  <2>1. Target(a) \in Gateways
    BY RegistryFacts DEF Target, AgentStates
  <2> QED BY <1>6, <2>1 DEF AnnounceSend
<1>7. ASSUME NEW a \in Agents, AnnounceOnStale(a) \/ AnnounceRefused(a) PROVE StoppedInv'
  <2>1. /\ agent' = [agent EXCEPT ![a] = Retry(agent[a], clock)]
           \/ agent' = [agent EXCEPT ![a] = Advance(agent[a], clock)]
        /\ UNCHANGED <<clock, gateway, upSince, last_announce, request, since>>
    BY <1>7 DEF AnnounceOnStale, AnnounceRefused
  <2>2. /\ Retry(agent[a], clock).pc = "sending"
        /\ Advance(agent[a], clock).pc = "sending"
    BY AttemptRuns
  <2> QED BY <2>1, <2>2
<1>8. ASSUME NEW a \in Agents, AgentCrash(a) \/ AgentStart(a) PROVE StoppedInv'
  <2>1. CASE AgentCrash(a)
    BY <2>1 DEF AgentCrash, HistoryInv
  <2>2. CASE AgentStart(a)
    <3>1. agent' = [agent EXCEPT ![a] = Sending(1, 0, clock)]
      BY <2>2 DEF AgentStart
    <3>2. Sending(1, 0, clock).pc # "down"
      BY DEF Sending
    <3> QED BY <2>2, <3>1, <3>2 DEF AgentStart
  <2> QED BY <1>8, <2>1, <2>2
<1>9. CASE UNCHANGED <<clock, gateway, upSince, last_announce, request, agent, since>>
  BY <1>9
<1> QED
  BY <1>1, <1>2, <1>3, <1>4, <1>5, <1>6, <1>7, <1>8, <1>9
     DEF Next, vars, GatewayStep, AgentStep, SweepReadClock, SweepErase, ListReadClock,
         ListCollect, SessionExpire

LEMMA StoppedInvariant == Spec => []StoppedInv
<1>1. Init => StoppedInv
  BY TimeAssumption DEF Init, StoppedInv, Sending, None
<1>2. TypeOK /\ DownInv /\ HistoryInv /\ StoppedInv /\ [Next]_vars => StoppedInv'
  BY StoppedStep
<1> QED BY <1>1, <1>2, TypeCorrect, LifetimeInvariant, PTL DEF Spec, LifetimeInv

(* An agent that stopped is not returned for longer than a time-out, the    *)
(* service of its last request and the wait of the lister for the lock.     *)
THEOREM StoppedAreUnlistedHolds == Spec => StoppedAreUnlisted
<1> DEFINE Unlisted ==
        \A g \in Gateways : ListCollect(g) =>
          \A a \in listed'[g] : agent[a].pc = "down" =>
             clock - Latest(since[a], upSince[g]) <= Timeout + 2 * MaxDelay
<1>3. TypeOK /\ ListerInv /\ StoppedInv => Unlisted
  <2> SUFFICES ASSUME TypeOK, ListerInv, StoppedInv, NEW g \in Gateways, ListCollect(g),
                      NEW a \in listed'[g], agent[a].pc = "down"
               PROVE  clock - Latest(since[a], upSince[g]) <= Timeout + 2 * MaxDelay
    OBVIOUS
  <2>1. a \in Agents /\ ~Expired(lister[g].now, last_announce[g][a])
    BY DEF ListCollect, TypeOK
  <2>2. lister[g].now - last_announce[g][a] <= Timeout
    BY <2>1, ElapsedFacts, TypeFacts
  <2>3. last_announce[g][a] <= Latest(since[a], upSince[g]) + MaxDelay
    BY <2>1, TypeFacts, TimeAssumption DEF StoppedInv, Latest, ListCollect
  <2> QED BY <2>1, <2>2, <2>3, TypeFacts, TimeAssumption DEF ListerInv, ListCollect, Latest
<1>4. TypeOK /\ ListerInv /\ StoppedInv => [Unlisted]_vars
  BY <1>3
<1> QED BY <1>4, TypeCorrect, ListerInvariant, StoppedInvariant, PTL DEF StoppedAreUnlisted

-----------------------------------------------------------------------------
(* The announce rounds.  The number of a's dead kept-alive connections:     *)
(* each was broken by a fault of its own.                                   *)
StaleOf(a) == {h \in Gateways : pooled[a][h] = "stale"}
Stales(a) == Cardinality(StaleOf(a))

(* The addresses between i and j in the order of the rounds, both left out, *)
(* and the sleep between the rounds if the way from i to j crosses it.      *)
Hops(i, j) == IF i < j THEN j - i - 1 ELSE Len(Registry) - i + j - 1
SleepBetween(i, j) == IF i < j THEN 0 ELSE Interval

(* The time of n sends and as many services of requests.                    *)
Trips(n) == 2 * MaxDelay * n

(* Since when the gateway at address i has had to hear of agent a.          *)
Heard(i, a) ==
    Latest(last_announce[Registry[i]][a], Latest(upSince[Registry[i]], since[a]))

(* A gateway that can stall stands alone in the list: the agents' blocking  *)
(* client waits for it without a time limit, and no other address is served.*)
StallStandsAlone ==
    \A h \in CanStall : \A i \in DOMAIN Registry : Registry[i] = h

(* The announce thread of a: how late it may be, what it waits for, and that*)
(* an attempt that used the kept-alive connection leaves none.              *)
ThreadOK(a) ==
    /\ IsFiniteSet(StaleOf(a)) /\ Stales(a) <= faults
    /\ since[a] <= clock
    /\ agent[a].pc = "sending" =>
         /\ clock <= agent[a].due + MaxDelay
         /\ agent[a].due <= clock + Interval
         /\ agent[a].i > 1 => agent[a].due <= clock
    /\ agent[a].pc # "down" /\ agent[a].attempt > 0 =>
         agent[a].due <= clock /\ pooled[a][Target(a)] = "none"
    /\ agent[a].pc = "waiting" =>
         /\ agent[a].due <= clock
         /\ pooled[a][Target(a)] = "none"
         /\ gateway[Target(a)] # "down"
         /\ request[Target(a)][a] # None
         /\ \/ request[Target(a)][a] = agent[a].due
            \/ Target(a) \in CanStall /\ request[Target(a)][a] <= upSince[Target(a)]

ThreadInv ==
    /\ \A g \in Gateways : gateway[g] = "stalled" => g \in CanStall
    /\ \A a \in Agents : ThreadOK(a)

(* When the thread of a got to where it is: at most this long after the     *)
(* gateway at address i heard of a, counting a send and a service per       *)
(* address in between and per fault whose dead connection is used up.       *)
Allowance(i, ag, spent) ==
    SleepBetween(i, ag.i) + Trips(Hops(i, ag.i) + spent)
      + (IF ag.pc = "waiting" THEN MaxDelay ELSE 0)

OnSchedule(i, a) ==
    gateway[Registry[i]] = "up" /\ agent[a].pc # "down" =>
        agent[a].due <= Heard(i, a) + Allowance(i, agent[a], faults - Stales(a))

ScheduleInv == \A i \in DOMAIN Registry, a \in Agents : OnSchedule(i, a)

(* The parts of an announce thread's state.                                 *)
LEMMA AgentFacts ==
    ASSUME TypeOK
    PROVE  \A a \in Agents :
             /\ agent[a].pc \in {"sending", "waiting", "down"}
             /\ agent[a].i \in DOMAIN Registry /\ agent[a].i \in Nat \ {0}
             /\ agent[a].i <= Len(Registry)
             /\ agent[a].attempt \in Nat /\ agent[a].attempt <= MaxRetries
             /\ agent[a].due \in Nat
             /\ Target(a) \in Gateways
<1> SUFFICES ASSUME NEW a \in Agents
             PROVE  /\ agent[a].pc \in {"sending", "waiting", "down"}
                    /\ agent[a].i \in DOMAIN Registry /\ agent[a].i \in Nat \ {0}
                    /\ agent[a].i <= Len(Registry)
                    /\ agent[a].attempt \in Nat /\ agent[a].attempt <= MaxRetries
                    /\ agent[a].due \in Nat
                    /\ Target(a) \in Gateways
  OBVIOUS
<1>1. agent[a] \in AgentStates
  BY DEF TypeOK
<1>2. /\ agent[a].pc \in {"sending", "waiting", "down"}
      /\ agent[a].i \in DOMAIN Registry /\ agent[a].attempt \in 0..MaxRetries
      /\ agent[a].due \in Nat
  BY <1>1 DEF AgentStates
<1> QED BY <1>2, RegistryFacts, BudgetAssumption DEF Target

(* The threads after one address and after a broken connection.             *)
LEMMA MoveFacts ==
    ASSUME NEW ag \in AgentStates, NEW t \in Nat
    PROVE  /\ Advance(ag, t).pc = "sending" /\ Advance(ag, t).attempt = 0
           /\ \/ /\ ag.i < Len(Registry)
                 /\ Advance(ag, t).i = ag.i + 1 /\ Advance(ag, t).due = t
              \/ /\ ag.i = Len(Registry)
                 /\ Advance(ag, t).i = 1 /\ Advance(ag, t).due = t + Interval
           /\ ag.attempt < MaxRetries =>
                /\ Retry(ag, t).pc = "sending" /\ Retry(ag, t).attempt = ag.attempt + 1
                /\ Retry(ag, t).i = ag.i /\ Retry(ag, t).due = t
           /\ ~(ag.attempt < MaxRetries) => Retry(ag, t) = Advance(ag, t)
<1>1. ag.i \in 1..Len(Registry)
  BY RegistryFacts DEF AgentStates
<1> QED BY <1>1, RegistryFacts DEF Advance, Retry, Sending

(* Sends and services take no less time when there are more of them.        *)
LEMMA TripsFacts ==
    /\ \A n \in Int : Trips(n) \in Int /\ Trips(n + 1) = Trips(n) + 2 * MaxDelay
    /\ \A m, n \in Int : m <= n => Trips(m) <= Trips(n)
    /\ \A n \in Nat : Trips(n) >= 0
<1>1. MaxDelay \in Nat
  BY TimeAssumption
<1>2. \A n \in Int : Trips(n) \in Int /\ Trips(n + 1) = Trips(n) + 2 * MaxDelay
  BY <1>1 DEF Trips
<1>3. ASSUME NEW m \in Int, NEW n \in Int, m <= n PROVE Trips(m) <= Trips(n)
  <2>1. PICK k \in Nat : n = m + k
    <3>1. n - m \in Nat
      BY <1>3
    <3> QED BY <3>1
  <2>2. MaxDelay * k \in Nat
    BY <1>1
  <2>3. 2 * MaxDelay * n = 2 * MaxDelay * m + 2 * (MaxDelay * k)
    BY <1>1, <2>1
  <2>4. 2 * MaxDelay * m \in Int
    BY <1>1
  <2> QED BY <2>2, <2>3, <2>4 DEF Trips
<1>4. ASSUME NEW n \in Nat PROVE Trips(n) >= 0
  <2>1. Trips(0) = 0
    BY <1>1 DEF Trips
  <2> QED BY <1>3, <2>1
<1> QED BY <1>2, <1>3, <1>4

(* The distance from i to j is at most a round, and grows by one step from  *)
(* j to the next address, which crosses the sleep when the list ends.       *)
LEMMA HopsFacts ==
    ASSUME NEW i \in DOMAIN Registry, NEW j \in DOMAIN Registry
    PROVE  /\ Hops(i, j) \in Nat /\ Hops(i, j) <= Len(Registry) - 1
           /\ SleepBetween(i, j) \in Nat /\ SleepBetween(i, j) <= Interval
           /\ ~(i < j) => SleepBetween(i, j) = Interval
           /\ i # j /\ j < Len(Registry) =>
                /\ j + 1 \in DOMAIN Registry
                /\ Hops(i, j + 1) = Hops(i, j) + 1
                /\ SleepBetween(i, j + 1) = SleepBetween(i, j)
           /\ i # j /\ j = Len(Registry) =>
                /\ 1 \in DOMAIN Registry
                /\ Hops(i, 1) = Hops(i, j) + 1
                /\ SleepBetween(i, 1) = SleepBetween(i, j) + Interval
  BY RegistryFacts, TimeAssumption DEF Hops, SleepBetween

(* How one thread's schedule moves: ag is the thread, t the time, spent the *)
(* faults whose dead connection it has used up, h when it was heard.        *)
LEMMA ScheduleFacts ==
    ASSUME NEW ag \in AgentStates, NEW i \in DOMAIN Registry,
           NEW t \in Nat, NEW spent \in Nat
    PROVE  /\ Allowance(i, ag, spent) \in Nat
           /\ Allowance(i, ag, spent) <= Interval + Trips(Len(Registry) - 1 + spent)
                                           + (IF ag.pc = "waiting" THEN MaxDelay ELSE 0)
           /\ \A more \in Nat : spent <= more =>
                Allowance(i, ag, spent) <= Allowance(i, ag, more)
           /\ ag.due <= t + Interval /\ (ag.i > 1 => ag.due <= t) =>
                ag.due <= t + Allowance(i, ag, spent)
<1> DEFINE j == ag.i
           w == IF ag.pc = "waiting" THEN MaxDelay ELSE 0
           hops == Hops(i, j)
           sleep == SleepBetween(i, j)
<1>1. j \in DOMAIN Registry /\ j \in Nat /\ i \in Nat /\ i > 0 /\ ag.due \in Nat
      /\ Interval \in Nat /\ w \in Nat /\ Len(Registry) \in Nat
  BY RegistryFacts, TimeAssumption DEF AgentStates
<1>2. hops \in Nat /\ hops <= Len(Registry) - 1 /\ sleep \in Nat /\ sleep <= Interval
      /\ (~(i < j) => sleep = Interval)
  BY <1>1, HopsFacts
<1>3. \A n \in Nat : Allowance(i, ag, n) = sleep + Trips(hops + n) + w
  BY DEF Allowance
<1> HIDE DEF w, hops, sleep, j
<1>4. \A n \in Nat : Trips(hops + n) \in Int /\ Trips(hops + n) >= 0
  <2> SUFFICES ASSUME NEW n \in Nat
               PROVE  Trips(hops + n) \in Int /\ Trips(hops + n) >= 0
    OBVIOUS
  <2>1. hops + n \in Nat /\ hops + n \in Int
    BY <1>2
  <2> QED BY <2>1, TripsFacts
<1> DEFINE trips == Trips(hops + spent)
<1>9. /\ Allowance(i, ag, spent) = sleep + trips + w
      /\ trips \in Int /\ trips >= 0
  BY <1>3, <1>4
<1> HIDE DEF trips
<1>5. Allowance(i, ag, spent) \in Nat
  BY <1>1, <1>2, <1>9
<1>6. Allowance(i, ag, spent) <= Interval + Trips(Len(Registry) - 1 + spent) + w
  <2>1. hops + spent \in Int /\ Len(Registry) - 1 + spent \in Int
        /\ hops + spent <= Len(Registry) - 1 + spent
    BY <1>1, <1>2
  <2>2. trips <= Trips(Len(Registry) - 1 + spent)
        /\ Trips(Len(Registry) - 1 + spent) \in Int
    BY <2>1, TripsFacts DEF trips
  <2> QED BY <1>1, <1>2, <1>9, <2>2
<1>7. ASSUME NEW more \in Nat, spent <= more
      PROVE  Allowance(i, ag, spent) <= Allowance(i, ag, more)
  <2>1. hops + spent \in Int /\ hops + more \in Int /\ hops + spent <= hops + more
    BY <1>2, <1>7
  <2>2. trips <= Trips(hops + more) /\ Trips(hops + more) \in Int
    BY <2>1, TripsFacts DEF trips
  <2>3. Allowance(i, ag, more) = sleep + Trips(hops + more) + w
    BY <1>3
  <2> QED BY <1>1, <1>2, <1>9, <2>2, <2>3
<1>8. ASSUME ag.due <= t + Interval, j > 1 => ag.due <= t
      PROVE  ag.due <= t + Allowance(i, ag, spent)
  <2>1. ~(i < j) \/ j > 1
    BY <1>1
  <2>2. ag.due <= t + sleep
    BY <1>1, <1>2, <1>8, <2>1
  <2> QED BY <1>1, <1>2, <1>9, <2>2
<1> QED BY <1>5, <1>6, <1>7, <1>8 DEF w, j

(* A thread that acts in time stays on schedule: when it sends, when it     *)
(* goes on to the next address from one that is not i, and when it tries    *)
(* the same address again at the expense of a fault.                        *)
LEMMA MoveKeepsSchedule ==
    ASSUME NEW ag \in AgentStates, NEW i \in DOMAIN Registry,
           NEW t \in Nat, NEW h \in Int, NEW spent \in Nat,
           t <= ag.due + MaxDelay, ag.due <= h + Allowance(i, ag, spent),
           NEW next \in AgentStates
    PROVE  /\ ag.pc = "sending" /\ next.pc = "waiting" /\ next.i = ag.i /\ next.due = t =>
                next.due <= h + Allowance(i, next, spent)
           /\ i # ag.i /\ next = Advance(ag, t) => next.due <= h + Allowance(i, next, spent)
           /\ next.pc = "sending" /\ next.i = ag.i /\ next.due = t =>
                next.due <= h + Allowance(i, next, spent + 1)
<1> DEFINE hops == Hops(i, ag.i)
           sleep == SleepBetween(i, ag.i)
           trips == Trips(hops + spent)
           w == IF ag.pc = "waiting" THEN MaxDelay ELSE 0
<1>1. /\ ag.i \in DOMAIN Registry /\ ag.i \in Nat /\ ag.due \in Nat /\ ag.i <= Len(Registry)
      /\ Interval \in Nat /\ MaxDelay \in Nat /\ Len(Registry) \in Nat
      /\ w \in Nat /\ w <= MaxDelay
  BY RegistryFacts, TimeAssumption DEF AgentStates
<1>2. /\ hops \in Nat /\ sleep \in Nat
      /\ i # ag.i /\ ag.i < Len(Registry) =>
           Hops(i, ag.i + 1) = hops + 1 /\ SleepBetween(i, ag.i + 1) = sleep
      /\ i # ag.i /\ ag.i = Len(Registry) =>
           Hops(i, 1) = hops + 1 /\ SleepBetween(i, 1) = sleep + Interval
  BY <1>1, HopsFacts
<1>3. Allowance(i, ag, spent) = sleep + trips + w
  BY DEF Allowance
<1>4. trips \in Int /\ Trips(hops + spent + 1) = trips + 2 * MaxDelay
  <2>1. hops + spent \in Int
    BY <1>2
  <2> QED BY <2>1, TripsFacts
<1> HIDE DEF hops, sleep, trips
<1>5. ASSUME ag.pc = "sending", next.pc = "waiting", next.i = ag.i, next.due = t
      PROVE  next.due <= h + Allowance(i, next, spent)
  <2>1. Allowance(i, next, spent) = sleep + trips + MaxDelay
    BY <1>5 DEF Allowance, hops, sleep, trips
  <2>2. w = 0
    BY <1>5
  <2> HIDE DEF w
  <2>3. Allowance(i, ag, spent) = sleep + trips
    BY <1>2, <1>3, <1>4, <2>2
  <2> DEFINE u == Allowance(i, next, spent)
             v == Allowance(i, ag, spent)
  <2>4. /\ u = sleep + trips + MaxDelay /\ v = sleep + trips /\ sleep \in Int /\ trips \in Int
        /\ next.due = t /\ t <= ag.due + MaxDelay /\ ag.due <= h + v /\ h \in Int
    BY <1>2, <1>4, <1>5, <2>1, <2>3
  <2> HIDE DEF u, v
  <2>5. next.due <= h + u
    BY ONLY <1>1, <2>4
  <2> QED BY <2>5 DEF u
<1>6. ASSUME i # ag.i, next = Advance(ag, t)
      PROVE  next.due <= h + Allowance(i, next, spent)
  <2>1. next.pc = "sending"
    BY <1>6, MoveFacts
  <2>2. Allowance(i, next, spent)
          = SleepBetween(i, next.i) + Trips(Hops(i, next.i) + spent)
    <3>1. /\ SleepBetween(i, next.i) \in Int /\ Trips(Hops(i, next.i) + spent) \in Int
      <4>1. next.i \in DOMAIN Registry
        BY DEF AgentStates
      <4>2. Hops(i, next.i) + spent \in Int /\ SleepBetween(i, next.i) \in Int
        BY <4>1, HopsFacts
      <4> QED BY <4>2, TripsFacts
    <3> QED BY <2>1, <3>1 DEF Allowance
  <2> HIDE DEF w
  <2>3. CASE ag.i < Len(Registry)
    <3>1. next.i = ag.i + 1 /\ next.due = t
      BY <1>1, <1>6, <2>3, MoveFacts
    <3>2. Allowance(i, next, spent) = sleep + Trips(hops + 1 + spent)
      BY <1>2, <1>6, <2>2, <2>3, <3>1
    <3>3. hops + 1 + spent = hops + spent + 1
      BY <1>2
    <3> DEFINE u == Allowance(i, next, spent)
               v == Allowance(i, ag, spent)
    <3>4. u = sleep + (trips + 2 * MaxDelay) /\ v = sleep + trips + w
          /\ next.due = t /\ t <= ag.due + MaxDelay /\ ag.due <= h + v
      BY <1>3, <1>4, <3>1, <3>2, <3>3
    <3>5. h \in Int /\ t \in Nat /\ sleep \in Int /\ trips \in Int
      BY <1>2, <1>4
    <3> HIDE DEF u, v
    <3>6. next.due <= h + u
      BY ONLY <1>1, <3>4, <3>5
    <3> QED BY <3>6 DEF u
  <2>4. CASE ag.i = Len(Registry)
    <3>0. ~(ag.i < Len(Registry))
      BY <1>1, <2>4
    <3>1. next.i = 1 /\ next.due = t + Interval
      BY <1>6, <3>0, MoveFacts
    <3>2. Allowance(i, next, spent) = sleep + Interval + Trips(hops + 1 + spent)
      BY <1>2, <1>6, <2>2, <2>4, <3>1
    <3>3. hops + 1 + spent = hops + spent + 1
      BY <1>2
    <3> DEFINE u == Allowance(i, next, spent)
               v == Allowance(i, ag, spent)
    <3>4. u = sleep + Interval + (trips + 2 * MaxDelay) /\ v = sleep + trips + w
          /\ next.due = t + Interval /\ t <= ag.due + MaxDelay /\ ag.due <= h + v
      BY <1>3, <1>4, <3>1, <3>2, <3>3
    <3>5. h \in Int /\ t \in Nat /\ sleep \in Int /\ trips \in Int
      BY <1>2, <1>4
    <3> HIDE DEF u, v
    <3>6. next.due <= h + u
      BY ONLY <1>1, <3>4, <3>5
    <3> QED BY <3>6 DEF u
  <2> QED BY <1>1, <2>3, <2>4
<1>7. ASSUME next.pc = "sending", next.i = ag.i, next.due = t
      PROVE  next.due <= h + Allowance(i, next, spent + 1)
  <2>1. Allowance(i, next, spent + 1) = sleep + Trips(hops + (spent + 1)) + 0
    BY <1>7 DEF Allowance, hops, sleep
  <2>2. hops + (spent + 1) = hops + spent + 1
    BY <1>2
  <2> HIDE DEF w
  <2> DEFINE u == Allowance(i, next, spent + 1)
             v == Allowance(i, ag, spent)
  <2>3. u = sleep + (trips + 2 * MaxDelay)
    <3> DEFINE z == Trips(hops + (spent + 1))
    <3>1. z = trips + 2 * MaxDelay
      BY <1>4, <2>2
    <3>2. u = sleep + z + 0 /\ sleep \in Int /\ z \in Int
      BY <1>1, <1>2, <1>4, <2>1, <3>1
    <3> HIDE DEF z, u
    <3> QED BY ONLY <3>1, <3>2
  <2>4. /\ v = sleep + trips + w /\ sleep \in Int /\ trips \in Int
        /\ next.due = t /\ t <= ag.due + MaxDelay /\ ag.due <= h + v /\ h \in Int
    BY <1>2, <1>3, <1>4, <1>7
  <2> HIDE DEF u, v
  <2>5. next.due <= h + u
    BY ONLY <1>1, <2>3, <2>4
  <2> QED BY <2>5 DEF u
<1> QED BY <1>5, <1>6, <1>7

(* A fault breaks at most one kept-alive connection of an agent, and using  *)
(* a broken one up leaves one less.                                         *)
LEMMA CountFacts ==
    ASSUME NEW S, IsFiniteSet(S), NEW T, NEW x
    PROVE  /\ Cardinality(S) \in Nat
           /\ T \subseteq S \cup {x} => /\ IsFiniteSet(T) /\ Cardinality(T) \in Nat
                                        /\ Cardinality(T) <= Cardinality(S) + 1
           /\ T = S \ {x} /\ x \in S => /\ IsFiniteSet(T) /\ Cardinality(T) \in Nat
                                        /\ Cardinality(T) = Cardinality(S) - 1
<1>1. Cardinality(S) \in Nat
  BY FS_CardinalityType
<1>2. ASSUME T \subseteq S \cup {x}
      PROVE  IsFiniteSet(T) /\ Cardinality(T) \in Nat /\ Cardinality(T) <= Cardinality(S) + 1
  <2>1. /\ IsFiniteSet(S \cup {x})
        /\ Cardinality(S \cup {x}) = Cardinality(S) \/ Cardinality(S \cup {x}) = Cardinality(S) + 1
    BY FS_AddElement
  <2>2. IsFiniteSet(T) /\ Cardinality(T) <= Cardinality(S \cup {x})
    BY <1>2, <2>1, FS_Subset
  <2>3. Cardinality(T) \in Nat
    BY <2>2, FS_CardinalityType
  <2> QED BY <1>1, <2>1, <2>2, <2>3
<1>3. ASSUME T = S \ {x}, x \in S
      PROVE  IsFiniteSet(T) /\ Cardinality(T) \in Nat /\ Cardinality(T) = Cardinality(S) - 1
  <2>1. IsFiniteSet(T) /\ Cardinality(T) = Cardinality(S) - 1
    BY <1>3, FS_RemoveElement
  <2> QED BY <2>1, FS_CardinalityType
<1> QED BY <1>1, <1>2, <1>3

-----------------------------------------------------------------------------
(* The two parts of the invariant, action by action.  First what an agent   *)
(* whose thread does not move needs.                                        *)
LEMMA ThreadStays ==
    ASSUME NEW a \in Agents, ThreadOK(a), UNCHANGED <<clock, since>>,
           agent'[a] = agent[a], faults' >= faults, faults \in Nat, faults' \in Nat,
           StaleOf(a)' = StaleOf(a),
           pooled[a][Target(a)] = "none" => pooled'[a][Target(a)] = "none",
           agent[a].pc = "waiting" =>
             /\ gateway'[Target(a)] # "down"
             /\ request'[Target(a)][a] # None
             /\ \/ request'[Target(a)][a] = agent[a].due
                \/ Target(a) \in CanStall /\ request'[Target(a)][a] <= upSince'[Target(a)]
    PROVE  ThreadOK(a)'
<1>1. Target(a)' = Target(a)
  BY DEF Target
<1>2. Stales(a)' = Stales(a)
  BY DEF Stales
<1>3. Stales(a) \in Nat
  BY FS_CardinalityType DEF ThreadOK, Stales
<1> QED BY <1>1, <1>2, <1>3 DEF ThreadOK

LEMMA ScheduleStays ==
    ASSUME TypeOK, TypeOK', ScheduleInv, NEW a \in Agents, NEW i \in DOMAIN Registry,
           gateway'[Registry[i]] = "up" => gateway[Registry[i]] = "up",
           agent'[a] = agent[a],
           faults - Stales(a) \in Nat, faults' - Stales(a)' \in Nat,
           faults - Stales(a) <= faults' - Stales(a)',
           gateway'[Registry[i]] = "up" => Heard(i, a) <= Heard(i, a)',
           Heard(i, a) \in Int, Heard(i, a)' \in Int,
           gateway'[Registry[i]] = "up", agent'[a].pc # "down"
    PROVE  agent'[a].due <= Heard(i, a)' + Allowance(i, agent'[a], faults' - Stales(a)')
<1>1. agent[a] \in AgentStates /\ agent[a].due \in Nat
  BY AgentFacts DEF TypeOK
<1>2. agent[a].due <= Heard(i, a) + Allowance(i, agent[a], faults - Stales(a))
  BY DEF ScheduleInv, OnSchedule
<1> DEFINE x == Allowance(i, agent[a], faults - Stales(a))
           y == Allowance(i, agent[a], faults' - Stales(a)')
<1>3. x \in Nat /\ y \in Nat /\ x <= y
  BY <1>1, ScheduleFacts
<1> HIDE DEF x, y
<1>4. agent[a].due <= Heard(i, a)' + y
  BY <1>1, <1>2, <1>3 DEF x
<1> QED BY <1>4 DEF y

(* The latest of three times.                                               *)
LEMMA LatestFacts ==
    ASSUME NEW t \in Int, NEW u \in Int, NEW v \in Int
    PROVE  /\ Latest(t, Latest(u, v)) \in Int
           /\ t <= Latest(t, Latest(u, v)) /\ u <= Latest(t, Latest(u, v))
           /\ v <= Latest(t, Latest(u, v))
           /\ Latest(t, Latest(u, v)) \in {t, u, v}
  BY DEF Latest

(* What is left of the faults after those whose broken connection an agent  *)
(* has still to use up.                                                     *)
LEMMA SpentFacts ==
    ASSUME TypeOK, ThreadInv
    PROVE  /\ faults \in Nat
           /\ \A a \in Agents : /\ IsFiniteSet(StaleOf(a)) /\ Stales(a) \in Nat
                                /\ faults - Stales(a) \in Nat
<1>1. faults \in Nat
  BY BudgetAssumption DEF TypeOK
<1>2. ASSUME NEW a \in Agents
      PROVE  IsFiniteSet(StaleOf(a)) /\ Stales(a) \in Nat /\ faults - Stales(a) \in Nat
  <2>1. IsFiniteSet(StaleOf(a)) /\ Stales(a) <= faults
    BY DEF ThreadInv, ThreadOK
  <2>2. Stales(a) \in Nat
    BY <2>1, FS_CardinalityType DEF Stales
  <2> QED BY <1>1, <2>1, <2>2
<1> QED BY <1>1, <1>2

(* A gateway starts, stalls or resumes: no thread moves.                    *)
LEMMA ThreadGatewayStep ==
    ASSUME TypeOK, StoppedInv, ThreadInv, NEW g \in Gateways,
           GatewayStart(g) \/ GatewayStall(g) \/ GatewayResume(g)
    PROVE  ThreadInv'
<1>1. /\ UNCHANGED <<clock, since, agent, pooled>>
      /\ faults' \in Nat /\ faults' >= faults
  BY SpentFacts DEF GatewayStart, GatewayStall, GatewayResume, Fault
<1>2. \A h \in Gateways : gateway'[h] = "stalled" => h \in CanStall
  BY DEF GatewayStart, GatewayStall, GatewayResume, ThreadInv, TypeOK
<1>3. ASSUME NEW a \in Agents PROVE ThreadOK(a)'
  <2>1. ThreadOK(a) /\ Target(a) \in Gateways
    BY AgentFacts DEF ThreadInv
  <2>2. StaleOf(a)' = StaleOf(a)
    BY <1>1 DEF StaleOf
  <2>3. ASSUME agent[a].pc = "waiting"
        PROVE  /\ gateway'[Target(a)] # "down"
               /\ request'[Target(a)][a] # None
               /\ \/ request'[Target(a)][a] = agent[a].due
                  \/ Target(a) \in CanStall /\ request'[Target(a)][a] <= upSince'[Target(a)]
    <3>0. /\ gateway[Target(a)] # "down" /\ request[Target(a)][a] # None
          /\ \/ request[Target(a)][a] = agent[a].due
             \/ Target(a) \in CanStall /\ request[Target(a)][a] <= upSince[Target(a)]
      BY <2>1, <2>3 DEF ThreadOK
    <3>1. CASE GatewayStart(g)
      <4>1. Target(a) # g
        BY <3>0, <3>1 DEF GatewayStart
      <4>2. /\ gateway'[Target(a)] = gateway[Target(a)]
            /\ request' = request
            /\ upSince'[Target(a)] = upSince[Target(a)]
        BY <2>1, <3>1, <4>1 DEF GatewayStart, TypeOK
      <4> QED BY <3>0, <4>2
    <3>2. CASE GatewayStall(g)
      BY <2>1, <3>0, <3>2 DEF GatewayStall, TypeOK
    <3>3. CASE GatewayResume(g)
      <4>1. CASE Target(a) # g
        <5>1. /\ gateway'[Target(a)] = gateway[Target(a)]
              /\ request'[Target(a)] = request[Target(a)]
              /\ upSince'[Target(a)] = upSince[Target(a)]
          BY <2>1, <3>3, <4>1 DEF GatewayResume, TypeOK
        <5> QED BY <3>0, <5>1
      <4>2. CASE Target(a) = g
        <5>1. /\ gateway'[g] = "up" /\ upSince'[g] = clock /\ request'[g][a] = clock
              /\ g \in CanStall
          BY <3>0, <3>3, <4>2 DEF GatewayResume, TypeOK, ThreadInv
        <5>2. clock # None /\ clock <= clock
          BY TypeFacts, TimesFacts
        <5> QED BY <4>2, <5>1, <5>2
      <4> QED BY <4>1, <4>2
    <3> QED BY <3>1, <3>2, <3>3
  <2> QED BY <1>1, <2>1, <2>2, <2>3, SpentFacts, ThreadStays
<1> QED BY <1>2, <1>3 DEF ThreadInv

(* What a thread about to send after a move needs.                          *)
LEMMA ThreadMoves ==
    ASSUME TypeOK, ThreadInv, NEW a \in Agents, UNCHANGED <<clock, since>>,
           agent'[a].pc = "sending",
           \/ agent'[a].due = clock
           \/ agent'[a].due = clock + Interval /\ agent'[a].i = 1,
           agent'[a].attempt > 0 =>
              agent'[a].due = clock /\ pooled'[a][Registry[agent'[a].i]] = "none",
           IsFiniteSet(StaleOf(a)'), Cardinality(StaleOf(a)') <= faults'
    PROVE  ThreadOK(a)'
<1>1. clock \in Nat /\ Interval \in Nat /\ MaxDelay \in Nat
  BY TypeFacts, TimeAssumption
<1>2. since[a] <= clock
  BY DEF ThreadInv, ThreadOK
<1> QED BY <1>1, <1>2 DEF ThreadOK, Stales, Target

(* A request is served: the thread that waits for it goes on.               *)
LEMMA ThreadServedStep ==
    ASSUME TypeOK, ThreadInv, NEW g \in Gateways, NEW b \in Agents, AddAgent(g, b)
    PROVE  ThreadInv'
<1>1. /\ UNCHANGED <<clock, gateway, upSince, since, faults>>
      /\ request' = [request EXCEPT ![g][b] = None]
  BY DEF AddAgent
<1>2. \A h \in Gateways, a \in Agents : <<h, a>> # <<g, b>> => request'[h][a] = request[h][a]
  BY <1>1 DEF TypeOK
<1>3. ASSUME NEW a \in Agents, agent'[a] = agent[a], pooled'[a] = pooled[a],
             agent[a].pc = "waiting" => <<Target(a), a>> # <<g, b>>
      PROVE  ThreadOK(a)'
  <2>1. ThreadOK(a) /\ Target(a) \in Gateways
    BY AgentFacts DEF ThreadInv
  <2>2. StaleOf(a)' = StaleOf(a)
    BY <1>3 DEF StaleOf
  <2>3. agent[a].pc = "waiting" => request'[Target(a)][a] = request[Target(a)][a]
    BY <1>2, <1>3, <2>1
  <2>4. ASSUME agent[a].pc = "waiting"
        PROVE  /\ gateway'[Target(a)] # "down"
               /\ request'[Target(a)][a] # None
               /\ \/ request'[Target(a)][a] = agent[a].due
                  \/ Target(a) \in CanStall /\ request'[Target(a)][a] <= upSince'[Target(a)]
    BY <1>1, <2>1, <2>3, <2>4 DEF ThreadOK
  <2> QED BY <1>1, <1>3, <2>1, <2>2, <2>4, SpentFacts, ThreadStays
<1>4. ASSUME NEW a \in Agents, a # b PROVE ThreadOK(a)'
  <2>1. agent'[a] = agent[a] /\ pooled'[a] = pooled[a]
    BY <1>4 DEF AddAgent, TypeOK
  <2> QED BY <1>3, <1>4, <2>1
<1>5. ASSUME ~WaitsFor(b, g) PROVE ThreadOK(b)'
  <2>1. agent' = agent /\ pooled' = pooled
    BY <1>5 DEF AddAgent
  <2> QED BY <1>3, <1>5, <2>1 DEF WaitsFor
<1>6. ASSUME WaitsFor(b, g) PROVE ThreadOK(b)'
  <2>1. /\ agent' = [agent EXCEPT ![b] = Advance(agent[b], clock)]
        /\ pooled' = [pooled EXCEPT ![b][g] = "open"]
        /\ pooled[b][g] = "none"
    BY <1>6 DEF AddAgent, WaitsFor, ThreadInv, ThreadOK
  <2>2. agent'[b] = Advance(agent[b], clock) /\ agent[b] \in AgentStates /\ clock \in Nat
    BY <2>1, TypeFacts DEF TypeOK
  <2>3. /\ agent'[b].pc = "sending" /\ agent'[b].attempt = 0
        /\ \/ agent'[b].due = clock
           \/ agent'[b].due = clock + Interval /\ agent'[b].i = 1
    BY <2>2, MoveFacts
  <2>4. StaleOf(b)' = StaleOf(b)
    BY <2>1 DEF StaleOf, TypeOK
  <2>5. IsFiniteSet(StaleOf(b)') /\ Cardinality(StaleOf(b)') <= faults'
    BY <1>1, <2>4 DEF ThreadInv, ThreadOK, Stales
  <2> QED BY <1>1, <2>3, <2>5, ThreadMoves
<1>7. \A a \in Agents : ThreadOK(a)'
  BY <1>4, <1>5, <1>6
<1> QED BY <1>1, <1>7 DEF ThreadInv

(* A gateway ends: every thread that waits for it tries again or goes on.   *)
LEMMA ThreadCrashStep ==
    ASSUME TypeOK, ThreadInv, NEW g \in Gateways, GatewayCrash(g)
    PROVE  ThreadInv'
<1>1. /\ UNCHANGED <<clock, upSince, since>> /\ faults' = faults + 1
      /\ gateway' = [gateway EXCEPT ![g] = "down"]
      /\ request' = [request EXCEPT ![g] = [a \in Agents |-> None]]
      /\ \A a \in Agents : /\ agent'[a] = IF WaitsFor(a, g) THEN Retry(agent[a], clock)
                                                          ELSE agent[a]
                          /\ pooled'[a] = [pooled[a] EXCEPT ![g] = IF @ = "open" THEN "stale"
                                                                               ELSE @]
  BY DEF GatewayCrash, Fault
<1>2. ASSUME NEW a \in Agents PROVE ThreadOK(a)'
  <2>1. /\ ThreadOK(a) /\ Target(a) \in Gateways /\ agent[a] \in AgentStates /\ clock \in Nat
        /\ pooled[a] \in [Gateways -> {"none", "open", "stale"}]
    BY AgentFacts, TypeFacts DEF ThreadInv, TypeOK
  <2>2. \A h \in Gateways : /\ h # g => pooled'[a][h] = pooled[a][h]
                            /\ pooled[a][h] = "none" => pooled'[a][h] = "none"
    BY <1>1, <2>1
  <2>3. /\ IsFiniteSet(StaleOf(a)') /\ Cardinality(StaleOf(a)') \in Nat
        /\ Cardinality(StaleOf(a)') <= Cardinality(StaleOf(a)) + 1
        /\ Cardinality(StaleOf(a)') <= faults'
    <3>1. StaleOf(a)' \subseteq StaleOf(a) \cup {g}
      BY <2>2 DEF StaleOf
    <3>2. /\ IsFiniteSet(StaleOf(a)) /\ Cardinality(StaleOf(a)) \in Nat /\ faults \in Nat
          /\ Cardinality(StaleOf(a)) <= faults
      BY <2>1, SpentFacts DEF ThreadOK, Stales
    <3>3. /\ IsFiniteSet(StaleOf(a)') /\ Cardinality(StaleOf(a)') \in Nat
          /\ Cardinality(StaleOf(a)') <= Cardinality(StaleOf(a)) + 1
      BY <3>1, <3>2, CountFacts
    <3> QED BY <1>1, <3>2, <3>3
  <2>4. CASE ~WaitsFor(a, g)
    <3>1. agent'[a] = agent[a] /\ Target(a)' = Target(a)
      BY <1>1, <2>4 DEF Target
    <3>2. ASSUME agent[a].pc = "waiting"
          PROVE  /\ gateway'[Target(a)] = gateway[Target(a)]
                 /\ request'[Target(a)] = request[Target(a)]
      <4>1. Target(a) # g
        BY <2>4, <3>2 DEF WaitsFor
      <4> QED BY <1>1, <2>1, <4>1 DEF TypeOK
    <3> QED BY <1>1, <2>1, <2>2, <2>3, <3>1, <3>2 DEF ThreadOK, Stales
  <2>5. CASE WaitsFor(a, g)
    <3>1. agent'[a] = Retry(agent[a], clock) /\ Target(a) = g /\ pooled[a][g] = "none"
          /\ g = Registry[agent[a].i]
      BY <1>1, <2>1, <2>5 DEF WaitsFor, ThreadOK, Target
    <3>2. CASE agent[a].attempt < MaxRetries
      <4>1. /\ agent'[a].pc = "sending" /\ agent'[a].i = agent[a].i
            /\ agent'[a].due = clock
        BY <2>1, <3>1, <3>2, MoveFacts
      <4>2. pooled'[a][Registry[agent'[a].i]] = "none"
        BY <2>1, <2>2, <3>1, <4>1
      <4> QED BY <1>1, <2>3, <4>1, <4>2, ThreadMoves
    <3>3. CASE ~(agent[a].attempt < MaxRetries)
      <4>1. /\ agent'[a].pc = "sending" /\ agent'[a].attempt = 0
            /\ \/ agent'[a].due = clock
               \/ agent'[a].due = clock + Interval /\ agent'[a].i = 1
        BY <2>1, <3>1, <3>3, MoveFacts
      <4> QED BY <1>1, <2>3, <4>1, ThreadMoves
    <3> QED BY <3>2, <3>3
  <2> QED BY <2>4, <2>5
<1> QED BY <1>1, <1>2 DEF ThreadInv, TypeOK

(* An attempt of the announce thread.                                       *)
LEMMA ThreadAttemptStep ==
    ASSUME TypeOK, ThreadInv, NEW b \in Agents,
           AnnounceSend(b) \/ AnnounceOnStale(b) \/ AnnounceRefused(b)
    PROVE  ThreadInv'
<1>1. /\ UNCHANGED <<clock, gateway, upSince, since, faults>>
      /\ \A a \in Agents \ {b} : /\ agent'[a] = agent[a] /\ pooled'[a] = pooled[a]
                                /\ \A h \in Gateways : request'[h][a] = request[h][a]
  BY DEF AnnounceSend, AnnounceOnStale, AnnounceRefused, TypeOK
<1>2. ASSUME NEW a \in Agents \ {b} PROVE ThreadOK(a)'
  <2>1. ThreadOK(a) /\ Target(a) \in Gateways
    BY AgentFacts DEF ThreadInv
  <2>2. StaleOf(a)' = StaleOf(a)
    BY <1>1 DEF StaleOf
  <2>3. agent[a].pc = "waiting" => request'[Target(a)][a] = request[Target(a)][a]
    BY <1>1, <2>1
  <2>4. ASSUME agent[a].pc = "waiting"
        PROVE  /\ gateway'[Target(a)] # "down"
               /\ request'[Target(a)][a] # None
               /\ \/ request'[Target(a)][a] = agent[a].due
                  \/ Target(a) \in CanStall /\ request'[Target(a)][a] <= upSince'[Target(a)]
    BY <1>1, <2>1, <2>3, <2>4 DEF ThreadOK
  <2> QED BY <1>1, <2>1, <2>2, <2>4, SpentFacts, ThreadStays
<1>3. /\ ThreadOK(b) /\ Target(b) \in Gateways /\ agent[b] \in AgentStates /\ clock \in Nat
      /\ Target(b) = Registry[agent[b].i]
      /\ pooled[b] \in [Gateways -> {"none", "open", "stale"}]
      /\ IsFiniteSet(StaleOf(b)) /\ Cardinality(StaleOf(b)) \in Nat
      /\ Cardinality(StaleOf(b)) <= faults /\ faults \in Nat
  BY AgentFacts, TypeFacts, SpentFacts DEF ThreadInv, TypeOK, Target, ThreadOK, Stales
<1>4. ASSUME AnnounceSend(b) PROVE ThreadOK(b)'
  <2>1. /\ agent' = [agent EXCEPT ![b].pc = "waiting", ![b].due = clock]
        /\ request' = [request EXCEPT ![Target(b)][b] = clock]
        /\ pooled' = [pooled EXCEPT ![b][Target(b)] = "none"]
        /\ gateway[Target(b)] # "down" /\ pooled[b][Target(b)] # "stale"
    BY <1>4 DEF AnnounceSend
  <2>2. /\ agent'[b].pc = "waiting" /\ agent'[b].due = clock /\ agent'[b].i = agent[b].i
        /\ request'[Target(b)][b] = clock /\ pooled'[b][Target(b)] = "none"
    BY <1>3, <2>1 DEF TypeOK, AgentStates
  <2>3. StaleOf(b)' = StaleOf(b)
    BY <1>3, <2>1 DEF StaleOf, TypeOK
  <2>4. Target(b)' = Target(b)
    BY <2>2 DEF Target
  <2>5. clock # None /\ clock <= clock
    BY TypeFacts, TimesFacts
  <2> QED BY <1>1, <1>3, <2>1, <2>2, <2>3, <2>4, <2>5 DEF ThreadOK, Stales
<1>5. ASSUME AnnounceOnStale(b) PROVE ThreadOK(b)'
  <2>1. /\ agent'[b] = Retry(agent[b], clock)
        /\ pooled' = [pooled EXCEPT ![b][Target(b)] = "none"]
        /\ pooled[b][Target(b)] = "stale"
    BY <1>5 DEF AnnounceOnStale, TypeOK
  <2>2. StaleOf(b)' = StaleOf(b) \ {Target(b)} /\ Target(b) \in StaleOf(b)
    BY <1>3, <2>1 DEF StaleOf, TypeOK
  <2>3. IsFiniteSet(StaleOf(b)') /\ Cardinality(StaleOf(b)') <= faults'
    <3>1. /\ IsFiniteSet(StaleOf(b)') /\ Cardinality(StaleOf(b)') \in Nat
          /\ Cardinality(StaleOf(b)') = Cardinality(StaleOf(b)) - 1
      BY <1>3, <2>2, CountFacts
    <3> QED BY <1>1, <1>3, <3>1
  <2>4. pooled'[b][Target(b)] = "none"
    BY <1>3, <2>1 DEF TypeOK
  <2>5. CASE agent[b].attempt < MaxRetries
    <3>1. /\ agent'[b].pc = "sending" /\ agent'[b].i = agent[b].i
          /\ agent'[b].due = clock
      BY <1>3, <2>1, <2>5, MoveFacts
    <3> QED BY <1>1, <1>3, <2>3, <2>4, <3>1, ThreadMoves
  <2>6. CASE ~(agent[b].attempt < MaxRetries)
    <3>1. /\ agent'[b].pc = "sending" /\ agent'[b].attempt = 0
          /\ \/ agent'[b].due = clock
             \/ agent'[b].due = clock + Interval /\ agent'[b].i = 1
      BY <1>3, <2>1, <2>6, MoveFacts
    <3> QED BY <1>1, <2>3, <3>1, ThreadMoves
  <2> QED BY <2>5, <2>6
<1>6. ASSUME AnnounceRefused(b) PROVE ThreadOK(b)'
  <2>1. agent'[b] = Advance(agent[b], clock) /\ pooled' = pooled
    BY <1>6 DEF AnnounceRefused, TypeOK
  <2>2. /\ agent'[b].pc = "sending" /\ agent'[b].attempt = 0
        /\ \/ agent'[b].due = clock
           \/ agent'[b].due = clock + Interval /\ agent'[b].i = 1
    BY <1>3, <2>1, MoveFacts
  <2>3. IsFiniteSet(StaleOf(b)') /\ Cardinality(StaleOf(b)') <= faults'
    BY <1>1, <1>3, <2>1 DEF StaleOf
  <2> QED BY <1>1, <2>2, <2>3, ThreadMoves
<1> QED BY <1>1, <1>2, <1>4, <1>5, <1>6 DEF ThreadInv

(* A kept-alive connection is closed, or an agent ends or starts.           *)
LEMMA ThreadFaultStep ==
    ASSUME TypeOK, ThreadInv, NEW b \in Agents,
           \/ \E g \in Gateways : SessionExpire(g, b)
           \/ AgentCrash(b) \/ AgentStart(b)
    PROVE  ThreadInv'
<1>1. /\ UNCHANGED <<clock, gateway, upSince, request>>
      /\ faults' \in Nat /\ faults' >= faults
      /\ \A a \in Agents \ {b} : /\ agent'[a] = agent[a] /\ pooled'[a] = pooled[a]
                                /\ since'[a] = since[a]
  BY SpentFacts DEF SessionExpire, AgentCrash, AgentStart, Fault, TypeOK
<1>2. ASSUME NEW a \in Agents \ {b} PROVE ThreadOK(a)'
  <2>1. ThreadOK(a) /\ Target(a)' = Target(a)
    BY <1>1 DEF ThreadInv, Target
  <2>2. StaleOf(a)' = StaleOf(a)
    BY <1>1 DEF StaleOf
  <2>3. Stales(a) \in Nat /\ faults \in Nat
    BY SpentFacts
  <2> QED BY <1>1, <2>1, <2>2, <2>3 DEF ThreadOK, Stales
<1>3. /\ ThreadOK(b) /\ Target(b) \in Gateways /\ clock \in Nat
      /\ pooled[b] \in [Gateways -> {"none", "open", "stale"}]
      /\ IsFiniteSet(StaleOf(b)) /\ Cardinality(StaleOf(b)) \in Nat
      /\ Cardinality(StaleOf(b)) <= faults /\ faults \in Nat
  BY AgentFacts, TypeFacts, SpentFacts DEF ThreadInv, TypeOK, ThreadOK, Stales
<1>4. ASSUME NEW g \in Gateways, SessionExpire(g, b) PROVE ThreadOK(b)'
  <2>1. /\ UNCHANGED <<agent, since>> /\ faults' = faults + 1
        /\ pooled' = [pooled EXCEPT ![b][g] = "stale"] /\ pooled[b][g] = "open"
    BY <1>4 DEF SessionExpire, Fault
  <2>2. /\ pooled[b][Target(b)] = "none" => pooled'[b][Target(b)] = "none"
        /\ StaleOf(b)' \subseteq StaleOf(b) \cup {g}
    BY <1>3, <2>1 DEF StaleOf, TypeOK
  <2>3. IsFiniteSet(StaleOf(b)') /\ Cardinality(StaleOf(b)') <= faults'
    <3>1. /\ IsFiniteSet(StaleOf(b)') /\ Cardinality(StaleOf(b)') \in Nat
          /\ Cardinality(StaleOf(b)') <= Cardinality(StaleOf(b)) + 1
      BY <1>3, <2>2, CountFacts
    <3> QED BY <1>3, <2>1, <3>1
  <2>4. Target(b)' = Target(b)
    BY <2>1 DEF Target
  <2> QED BY <1>1, <1>3, <2>1, <2>2, <2>3, <2>4 DEF ThreadOK, Stales
<1>5. ASSUME AgentCrash(b) PROVE ThreadOK(b)'
  <2>1. /\ agent'[b] = Stopped /\ since'[b] = clock
        /\ pooled'[b] = [g \in Gateways |-> "none"]
    BY <1>5 DEF AgentCrash, TypeOK
  <2>2. StaleOf(b)' = {}
    BY <2>1 DEF StaleOf
  <2>3. IsFiniteSet(StaleOf(b)') /\ Cardinality(StaleOf(b)') <= faults'
    BY <1>1, <1>3, <2>2, FS_EmptySet
  <2>4. agent'[b].pc = "down"
    BY <2>1 DEF Stopped
  <2> QED BY <1>1, <1>3, <2>1, <2>3, <2>4 DEF ThreadOK, Stales
<1>6. ASSUME AgentStart(b) PROVE ThreadOK(b)'
  <2>1. /\ agent'[b] = Sending(1, 0, clock) /\ since'[b] = clock
        /\ pooled' = pooled
    BY <1>6 DEF AgentStart, TypeOK
  <2>2. /\ agent'[b].pc = "sending" /\ agent'[b].due = clock /\ agent'[b].attempt = 0
        /\ agent'[b].i = 1
    BY <2>1 DEF Sending
  <2>3. IsFiniteSet(StaleOf(b)') /\ Cardinality(StaleOf(b)') <= faults'
    BY <1>1, <1>3, <2>1 DEF StaleOf
  <2>4. MaxDelay \in Nat /\ Interval \in Nat
    BY TimeAssumption
  <2> QED BY <1>1, <1>3, <2>1, <2>2, <2>3, <2>4 DEF ThreadOK, Stales
<1> QED BY <1>1, <1>2, <1>4, <1>5, <1>6 DEF ThreadInv

LEMMA ThreadStep ==
    ASSUME TypeOK, StoppedInv, ThreadInv, [Next]_vars PROVE ThreadInv'
<1>1. CASE Tick
  <2>1. /\ clock' = clock + 1
        /\ UNCHANGED <<gateway, upSince, request, agent, since, pooled, faults>>
        /\ \A a \in Agents : agent[a].pc = "sending" => clock < agent[a].due + MaxDelay
    BY <1>1 DEF Tick, OnTime
  <2>2. ASSUME NEW a \in Agents PROVE ThreadOK(a)'
    <3>1. /\ ThreadOK(a) /\ clock \in Nat /\ agent[a].due \in Nat /\ since[a] \in Nat
          /\ MaxDelay \in Nat /\ Interval \in Nat
      BY AgentFacts, TypeFacts, TimeAssumption DEF ThreadInv
    <3>2. Target(a)' = Target(a) /\ StaleOf(a)' = StaleOf(a) /\ agent'[a] = agent[a]
      BY <2>1 DEF Target, StaleOf
    <3> QED BY <2>1, <3>1, <3>2 DEF ThreadOK, Stales
  <2> QED BY <2>1, <2>2 DEF ThreadInv
<1>2. CASE UNCHANGED <<clock, gateway, upSince, request, agent, since, pooled, faults>>
  BY <1>2 DEF ThreadInv, ThreadOK, Target, Stales, StaleOf
<1>3. ASSUME NEW g \in Gateways, NEW a \in Agents, SessionExpire(g, a) PROVE ThreadInv'
  BY <1>3, ThreadFaultStep
<1>4. ASSUME NEW a \in Agents, AgentStep(a) PROVE ThreadInv'
  BY <1>4, ThreadFaultStep, ThreadAttemptStep DEF AgentStep
<1>5. ASSUME NEW g \in Gateways, GatewayStart(g) \/ GatewayStall(g) \/ GatewayResume(g)
      PROVE  ThreadInv'
  BY <1>5, ThreadGatewayStep
<1> QED
  BY <1>1, <1>2, <1>3, <1>4, <1>5, ThreadServedStep, ThreadCrashStep
     DEF Next, vars, GatewayStep, SweepReadClock, SweepErase, ListReadClock, ListCollect

-----------------------------------------------------------------------------
(* When the gateways of the list heard of an agent, before and after a step.*)
LEMMA HeardFacts ==
    ASSUME TypeOK, NEW i \in DOMAIN Registry, NEW a \in Agents
    PROVE  /\ Heard(i, a) \in Int /\ Registry[i] \in Gateways
           /\ last_announce[Registry[i]][a] <= Heard(i, a)
           /\ upSince[Registry[i]] <= Heard(i, a) /\ since[a] <= Heard(i, a)
<1>1. Registry[i] \in Gateways
  BY RegistryFacts
<1>2. /\ last_announce[Registry[i]][a] \in Int /\ upSince[Registry[i]] \in Int
      /\ since[a] \in Int
  BY <1>1, TypeFacts
<1> QED BY <1>1, <1>2, LatestFacts DEF Heard

LEMMA NextHeardFacts ==
    ASSUME TypeOK', NEW i \in DOMAIN Registry, NEW a \in Agents
    PROVE  /\ Heard(i, a)' \in Int /\ Registry[i] \in Gateways
           /\ last_announce'[Registry[i]][a] <= Heard(i, a)'
           /\ upSince'[Registry[i]] <= Heard(i, a)' /\ since'[a] <= Heard(i, a)'
<1> DEFINE g == Registry[i]
<1>1. g \in Gateways
  BY RegistryFacts
<1>2. /\ last_announce'[g][a] \in Int /\ upSince'[g] \in Int /\ since'[a] \in Int
  <2>1. last_announce'[g][a] \in Never /\ upSince'[g] \in Times /\ since'[a] \in Times
    BY <1>1 DEF TypeOK
  <2>2. \A t \in Never : t \in Int
    BY TimesFacts DEF Never, None
  <2> QED BY <2>1, <2>2, TimesFacts
<1> QED BY <1>1, <1>2, LatestFacts DEF Heard

(* An agent of which the gateway heard just now is on schedule.             *)
LEMMA ScheduleFresh ==
    ASSUME TypeOK', ThreadInv', NEW i \in DOMAIN Registry, NEW a \in Agents,
           agent'[a].pc # "down", clock' <= Heard(i, a)'
    PROVE  agent'[a].due <= Heard(i, a)' + Allowance(i, agent'[a], faults' - Stales(a)')
<1>1. /\ agent'[a] \in AgentStates /\ agent'[a].pc \in {"sending", "waiting"}
      /\ agent'[a].due \in Nat /\ Interval \in Nat /\ clock' \in Nat /\ faults' \in Nat
  BY TimesFacts, TimeAssumption, BudgetAssumption DEF TypeOK, AgentStates
<1>2. ThreadOK(a)'
  BY DEF ThreadInv
<1>3. Stales(a)' \in Nat /\ faults' - Stales(a)' \in Nat
  <2>1. IsFiniteSet(StaleOf(a)') /\ Stales(a)' <= faults'
    BY <1>2 DEF ThreadOK
  <2>2. Stales(a)' \in Nat
    BY <2>1, FS_CardinalityType DEF Stales
  <2> QED BY <1>1, <2>1, <2>2
<1>4. /\ agent'[a].due <= clock' + Interval
      /\ agent'[a].i > 1 => agent'[a].due <= clock'
  BY <1>1, <1>2 DEF ThreadOK
<1> DEFINE b == agent'[a]
           t == clock'
           spent == faults' - Stales(a)'
           x == Allowance(i, b, spent)
<1>5. b.due <= t + x /\ x \in Nat
  <2>1. b \in AgentStates /\ t \in Nat /\ spent \in Nat
    BY <1>1, <1>3
  <2>2. b.due <= t + Interval /\ (b.i > 1 => b.due <= t)
    BY <1>4
  <2> HIDE DEF b, t, spent
  <2> QED BY <2>1, <2>2, ScheduleFacts
<1>6. Heard(i, a)' \in Int
  BY NextHeardFacts
<1> HIDE DEF x
<1>7. agent'[a].due <= Heard(i, a)' + x
  BY <1>1, <1>5, <1>6
<1> QED BY <1>7 DEF x

(* An agent whose thread, entry and start a step leaves alone.              *)
LEMMA ScheduleKept ==
    ASSUME TypeOK, TypeOK', ThreadInv, ThreadInv', ScheduleInv,
           NEW i \in DOMAIN Registry, NEW a \in Agents,
           gateway'[Registry[i]] = "up" =>
             /\ gateway[Registry[i]] = "up"
             /\ last_announce'[Registry[i]][a] = last_announce[Registry[i]][a]
             /\ upSince'[Registry[i]] = upSince[Registry[i]],
           agent'[a] = agent[a], since'[a] = since[a],
           faults - Stales(a) <= faults' - Stales(a)'
    PROVE  OnSchedule(i, a)'
<1> SUFFICES ASSUME gateway'[Registry[i]] = "up", agent'[a].pc # "down"
             PROVE  agent'[a].due <= Heard(i, a)' + Allowance(i, agent'[a], faults' - Stales(a)')
  BY DEF OnSchedule
<1>1. Heard(i, a)' = Heard(i, a)
  BY DEF Heard
<1>2. Heard(i, a) \in Int
  BY HeardFacts
<1>3. faults - Stales(a) \in Nat
  BY SpentFacts
<1>4. faults' - Stales(a)' \in Nat
  <2>1. /\ faults' \in Nat /\ IsFiniteSet(StaleOf(a)') /\ Stales(a)' <= faults'
    BY BudgetAssumption DEF TypeOK, ThreadInv, ThreadOK
  <2>2. Stales(a)' \in Nat
    BY <2>1, FS_CardinalityType DEF Stales
  <2> QED BY <2>1, <2>2
<1>5. Heard(i, a)' \in Int /\ Heard(i, a) <= Heard(i, a)'
  BY <1>1, <1>2
<1> QED BY <1>2, <1>3, <1>4, <1>5, ScheduleStays

(* A gateway starts, stalls or resumes.                                     *)
LEMMA ScheduleGatewayStep ==
    ASSUME TypeOK, TypeOK', ThreadInv, ThreadInv', ScheduleInv, NEW g \in Gateways,
           GatewayStart(g) \/ GatewayStall(g) \/ GatewayResume(g),
           NEW i \in DOMAIN Registry, NEW a \in Agents
    PROVE  OnSchedule(i, a)'
<1>1. /\ UNCHANGED <<clock, last_announce, agent, since, pooled>>
      /\ faults' \in Nat /\ faults' >= faults
      /\ \A h \in Gateways \ {g} : gateway'[h] = gateway[h] /\ upSince'[h] = upSince[h]
      /\ gateway'[g] = "up" => upSince'[g] = clock
  BY SpentFacts DEF GatewayStart, GatewayStall, GatewayResume, Fault, TypeOK
<1>2. CASE Registry[i] # g
  <2>1. Stales(a)' = Stales(a) /\ Stales(a) \in Nat /\ faults \in Nat
    BY <1>1, SpentFacts DEF Stales, StaleOf
  <2>2. faults - Stales(a) <= faults' - Stales(a)'
    BY <1>1, <2>1
  <2>3. Registry[i] \in Gateways
    BY HeardFacts
  <2> QED BY <1>1, <1>2, <2>2, <2>3, ScheduleKept
<1>3. CASE Registry[i] = g
  <2> SUFFICES ASSUME gateway'[g] = "up" /\ agent'[a].pc # "down"
               PROVE  agent'[a].due <= Heard(i, a)' + Allowance(i, agent'[a], faults' - Stales(a)')
    BY <1>3 DEF OnSchedule
  <2>1. upSince'[g] <= Heard(i, a)' /\ upSince'[g] = clock'
    BY <1>1, <1>3, NextHeardFacts
  <2> QED BY <2>1, ScheduleFresh
<1> QED BY <1>2, <1>3

(* A request is served.  Only at address i itself, or late after a stall    *)
(* that stands alone in the list, does the thread pass i or lose time.      *)
LEMMA ScheduleServedStep ==
    ASSUME TypeOK, TypeOK', StoppedInv, ThreadInv, ThreadInv', ScheduleInv, StallStandsAlone,
           NEW g \in Gateways, NEW b \in Agents, AddAgent(g, b),
           NEW i \in DOMAIN Registry, NEW a \in Agents
    PROVE  OnSchedule(i, a)'
<1>1. /\ UNCHANGED <<clock, gateway, upSince, since, faults>>
      /\ last_announce' = [last_announce EXCEPT ![g][b] = clock]
      /\ request[g][b] # None /\ gateway[g] = "up"
      /\ \A c \in Agents \ {b} : agent'[c] = agent[c] /\ pooled'[c] = pooled[c]
  BY DEF AddAgent, TypeOK
<1>2. Registry[i] \in Gateways
  BY HeardFacts
<1>3. Stales(a)' = Stales(a) /\ Stales(a) \in Nat /\ faults \in Nat
  <2>1. StaleOf(a)' = StaleOf(a)
    <3>1. CASE a # b
      BY <1>1, <3>1 DEF StaleOf
    <3>2. CASE a = b /\ ~WaitsFor(b, g)
      BY <3>2 DEF AddAgent, StaleOf
    <3>3. CASE a = b /\ WaitsFor(b, g)
      <4>1. pooled' = [pooled EXCEPT ![b][g] = "open"] /\ pooled[b][g] = "none"
        BY <3>3 DEF AddAgent, WaitsFor, ThreadInv, ThreadOK
      <4> QED BY <3>3, <4>1 DEF StaleOf, TypeOK
    <3> QED BY <3>1, <3>2, <3>3
  <2> QED BY <2>1, SpentFacts DEF Stales
<1>4. faults - Stales(a) <= faults' - Stales(a)' /\ faults' - Stales(a)' = faults - Stales(a)
  BY <1>1, <1>3
<1>5. CASE a # b
  <2>1. last_announce'[Registry[i]][a] = last_announce[Registry[i]][a]
    BY <1>1, <1>2, <1>5 DEF TypeOK
  <2> QED BY <1>1, <1>4, <1>5, <2>1, ScheduleKept
<1>6. CASE a = b /\ Registry[i] = g
  <2> SUFFICES ASSUME agent'[a].pc # "down"
               PROVE  agent'[a].due <= Heard(i, a)' + Allowance(i, agent'[a], faults' - Stales(a)')
    BY DEF OnSchedule
  <2>1. last_announce'[g][b] = clock'
    BY <1>1 DEF TypeOK
  <2>2. clock' <= Heard(i, a)'
    BY <1>6, <2>1, NextHeardFacts
  <2> QED BY <2>2, ScheduleFresh
<1>7. CASE a = b /\ Registry[i] # g
  <2>1. last_announce'[Registry[i]][a] = last_announce[Registry[i]][a]
    BY <1>1, <1>2, <1>7 DEF TypeOK
  <2>2. CASE ~WaitsFor(b, g)
    <3>1. agent' = agent
      BY <2>2 DEF AddAgent
    <3> QED BY <1>1, <1>4, <2>1, <3>1, ScheduleKept
  <2>3. CASE WaitsFor(b, g)
    <3> SUFFICES ASSUME gateway[Registry[i]] = "up"
                 PROVE  agent'[a].due
                          <= Heard(i, a)' + Allowance(i, agent'[a], faults' - Stales(a)')
      BY <1>1 DEF OnSchedule
    <3>1. /\ agent'[a] = Advance(agent[a], clock) /\ agent[a] \in AgentStates
          /\ agent'[a] \in AgentStates /\ clock \in Nat /\ Heard(i, a) \in Int
          /\ agent[a].pc = "waiting" /\ agent[a].due \in Nat
          /\ request[g][a] \in Int /\ MaxDelay \in Nat
      BY <1>7, <2>3, HeardFacts, TypeFacts, AgentFacts, TimeAssumption
         DEF AddAgent, TypeOK, WaitsFor
    <3>2. Heard(i, a)' = Heard(i, a)
      BY <1>1, <2>1 DEF Heard
    <3>3. Target(a) = g /\ agent[a].i # i /\ g \notin CanStall
      BY <1>7, <2>3 DEF WaitsFor, Target, StallStandsAlone
    <3>4. clock <= agent[a].due + MaxDelay
      <4>1. request[g][a] = agent[a].due
        BY <3>1, <3>3 DEF ThreadInv, ThreadOK
      <4>2. clock <= request[g][a] + MaxDelay
        BY <1>1, <1>7 DEF StoppedInv
      <4> QED BY <4>1, <4>2
    <3>5. agent[a].due <= Heard(i, a) + Allowance(i, agent[a], faults - Stales(a))
      BY <3>1 DEF ScheduleInv, OnSchedule
    <3>6. faults - Stales(a) \in Nat
      BY SpentFacts
    <3>7. agent'[a].due <= Heard(i, a) + Allowance(i, agent'[a], faults - Stales(a))
      BY <3>1, <3>3, <3>4, <3>5, <3>6, MoveKeepsSchedule
    <3> QED BY <1>4, <3>2, <3>7
  <2> QED BY <2>2, <2>3
<1> QED BY <1>5, <1>6, <1>7

(* A gateway ends: who waited for it loses its wait, one more at address i  *)
(* for each fault.                                                          *)
LEMMA ScheduleCrashStep ==
    ASSUME TypeOK, TypeOK', StoppedInv, ThreadInv, ThreadInv', ScheduleInv, StallStandsAlone,
           NEW g \in Gateways, GatewayCrash(g), NEW i \in DOMAIN Registry, NEW a \in Agents
    PROVE  OnSchedule(i, a)'
<1>1. /\ UNCHANGED <<clock, upSince, since>> /\ faults' = faults + 1
      /\ gateway' = [gateway EXCEPT ![g] = "down"]
      /\ last_announce' = [last_announce EXCEPT ![g] = [c \in Agents |-> None]]
      /\ agent'[a] = IF WaitsFor(a, g) THEN Retry(agent[a], clock) ELSE agent[a]
      /\ pooled'[a] = [pooled[a] EXCEPT ![g] = IF @ = "open" THEN "stale" ELSE @]
      /\ pooled[a] \in [Gateways -> {"none", "open", "stale"}]
      /\ agent[a] \in AgentStates /\ agent'[a] \in AgentStates
  BY DEF GatewayCrash, Fault, TypeOK
<1> SUFFICES ASSUME gateway'[Registry[i]] = "up", agent'[a].pc # "down"
             PROVE  OnSchedule(i, a)'
  BY DEF OnSchedule
<1>2. Registry[i] \in Gateways /\ Heard(i, a) \in Int
  BY HeardFacts
<1>3. /\ Registry[i] # g /\ gateway[Registry[i]] = "up"
      /\ last_announce'[Registry[i]][a] = last_announce[Registry[i]][a]
      /\ upSince'[Registry[i]] = upSince[Registry[i]]
  BY <1>1, <1>2 DEF TypeOK
<1>4. /\ IsFiniteSet(StaleOf(a)) /\ Stales(a) \in Nat /\ faults \in Nat
      /\ faults - Stales(a) \in Nat
  BY SpentFacts
<1>5. CASE ~WaitsFor(a, g)
  <2>1. StaleOf(a)' \subseteq StaleOf(a) \cup {g}
    BY <1>1 DEF StaleOf
  <2>2. Cardinality(StaleOf(a)') \in Nat /\ Cardinality(StaleOf(a)') <= Stales(a) + 1
    BY <1>4, <2>1, CountFacts DEF Stales
  <2>3. faults - Stales(a) <= faults' - Stales(a)'
    BY <1>1, <1>4, <2>2 DEF Stales
  <2> QED BY <1>1, <1>3, <1>5, <2>3, ScheduleKept
<1>6. CASE WaitsFor(a, g)
  <2>1. /\ agent[a].pc = "waiting" /\ Target(a) = g /\ pooled[a][g] = "none"
        /\ gateway[g] # "down" /\ request[g][a] # None
    BY <1>6 DEF WaitsFor, ThreadInv, ThreadOK
  <2>2. g \notin CanStall /\ agent[a].i # i /\ gateway[g] = "up"
    BY <1>3, <2>1 DEF StallStandsAlone, Target, ThreadInv, TypeOK
  <2>3. Stales(a)' = Stales(a)
    <3>1. StaleOf(a)' = StaleOf(a)
      BY <1>1, <2>1 DEF StaleOf
    <3> QED BY <3>1 DEF Stales
  <2> DEFINE spent == faults - Stales(a)
  <2>4. spent \in Nat /\ spent + 1 \in Nat /\ spent <= spent + 1
        /\ faults' - Stales(a)' = spent + 1
    BY <1>1, <1>4, <2>3
  <2>5. /\ clock \in Nat /\ agent[a].due \in Nat /\ request[g][a] \in Int
        /\ MaxDelay \in Nat
    BY TypeFacts, AgentFacts, TimeAssumption
  <2>6. clock <= agent[a].due + MaxDelay
    <3>1. request[g][a] = agent[a].due
      BY <2>1, <2>2 DEF ThreadInv, ThreadOK
    <3>2. clock <= request[g][a] + MaxDelay
      BY <2>1, <2>2 DEF StoppedInv
    <3> QED BY <3>1, <3>2
  <2>7. agent[a].due <= Heard(i, a) + Allowance(i, agent[a], spent)
    BY <1>3, <2>1 DEF ScheduleInv, OnSchedule
  <2>8. Heard(i, a)' = Heard(i, a)
    BY <1>1, <1>3 DEF Heard
  <2> HIDE DEF spent
  <2>9. agent'[a].due <= Heard(i, a) + Allowance(i, agent'[a], spent + 1)
    <3>1. CASE agent[a].attempt < MaxRetries
      <4>1. /\ agent'[a].pc = "sending" /\ agent'[a].i = agent[a].i
            /\ agent'[a].due = clock
        BY <1>1, <1>6, <2>5, <3>1, MoveFacts
      <4> QED BY <1>1, <1>2, <2>4, <2>5, <2>6, <2>7, <4>1, MoveKeepsSchedule
    <3>2. CASE ~(agent[a].attempt < MaxRetries)
      <4>1. agent'[a] = Advance(agent[a], clock)
        BY <1>1, <1>6, <2>5, <3>2, MoveFacts
      <4>2. agent'[a].due <= Heard(i, a) + Allowance(i, agent'[a], spent)
        BY <1>1, <1>2, <2>2, <2>4, <2>5, <2>6, <2>7, <4>1, MoveKeepsSchedule
      <4> DEFINE b == agent'[a]
                 x == Allowance(i, b, spent)
                 y == Allowance(i, b, spent + 1)
      <4>3. x \in Nat /\ y \in Nat /\ x <= y
        <5>1. b \in AgentStates
          BY <1>1
        <5> HIDE DEF b
        <5> QED BY <2>4, <5>1, ScheduleFacts
      <4>5. agent'[a].due \in Nat
        BY <1>1 DEF AgentStates
      <4>6. agent'[a].due <= Heard(i, a) + x
        BY <4>2
      <4> HIDE DEF x, y
      <4>4. agent'[a].due <= Heard(i, a) + y
        BY <1>2, <4>3, <4>5, <4>6
      <4> QED BY <4>4 DEF y
    <3> QED BY <3>1, <3>2
  <2> QED BY <2>4, <2>8, <2>9 DEF OnSchedule
<1> QED BY <1>5, <1>6

(* An attempt of the announce thread.  A retry on a new connection is at    *)
(* the expense of the fault that broke the old one.                         *)
LEMMA ScheduleAttemptStep ==
    ASSUME TypeOK, TypeOK', ThreadInv, ThreadInv', ScheduleInv, MaxRetries >= 1,
           NEW b \in Agents,
           AnnounceSend(b) \/ AnnounceOnStale(b) \/ AnnounceRefused(b),
           NEW i \in DOMAIN Registry, NEW a \in Agents
    PROVE  OnSchedule(i, a)'
<1>1. /\ UNCHANGED <<clock, gateway, upSince, since, faults, last_announce>>
      /\ a # b => agent'[a] = agent[a] /\ pooled'[a] = pooled[a]
      /\ agent[a] \in AgentStates /\ agent'[a] \in AgentStates
  BY DEF AnnounceSend, AnnounceOnStale, AnnounceRefused, TypeOK
<1>2. /\ IsFiniteSet(StaleOf(a)) /\ Stales(a) \in Nat /\ faults \in Nat
      /\ faults - Stales(a) \in Nat
  BY SpentFacts
<1>3. CASE a # b
  <2>1. Stales(a)' = Stales(a)
    BY <1>1, <1>3 DEF Stales, StaleOf
  <2>2. faults - Stales(a) <= faults' - Stales(a)'
    BY <1>1, <1>2, <2>1
  <2> QED BY <1>1, <1>3, <2>2, ScheduleKept
<1>4. CASE a = b
  <2> SUFFICES ASSUME gateway[Registry[i]] = "up"
               PROVE  agent'[a].due <= Heard(i, a)' + Allowance(i, agent'[a], faults' - Stales(a)')
    BY <1>1 DEF OnSchedule
  <2> DEFINE spent == faults - Stales(a)
  <2>1. /\ agent[a].pc = "sending" /\ clock \in Nat /\ Heard(i, a) \in Int
        /\ Target(a) \in Gateways /\ pooled[a] \in [Gateways -> {"none", "open", "stale"}]
    BY <1>4, TypeFacts, HeardFacts, AgentFacts
       DEF AnnounceSend, AnnounceOnStale, AnnounceRefused, TypeOK
  <2>2. clock <= agent[a].due + MaxDelay
    BY <2>1 DEF ThreadInv, ThreadOK
  <2>3. agent[a].due <= Heard(i, a) + Allowance(i, agent[a], spent)
    BY <2>1 DEF ScheduleInv, OnSchedule
  <2>4. Heard(i, a)' = Heard(i, a)
    BY <1>1 DEF Heard
  <2>5. CASE AnnounceSend(b)
    <3>1. agent'[a].pc = "waiting" /\ agent'[a].i = agent[a].i /\ agent'[a].due = clock
      BY <1>1, <1>4, <2>5 DEF AnnounceSend, TypeOK, AgentStates
    <3>2. Stales(a)' = Stales(a)
      <4>1. StaleOf(a)' = StaleOf(a)
        BY <1>4, <2>1, <2>5 DEF AnnounceSend, StaleOf, TypeOK
      <4> QED BY <4>1 DEF Stales
    <3>3. agent'[a].due <= Heard(i, a) + Allowance(i, agent'[a], spent)
      BY <1>1, <1>2, <2>1, <2>2, <2>3, <3>1, MoveKeepsSchedule
    <3> QED BY <1>1, <2>4, <3>2, <3>3
  <2>6. CASE AnnounceOnStale(b)
    <3>1. /\ agent'[a] = Retry(agent[a], clock) /\ pooled[a][Target(a)] = "stale"
          /\ pooled'[a] = [pooled[a] EXCEPT ![Target(a)] = "none"]
      BY <1>4, <2>6 DEF AnnounceOnStale, TypeOK
    <3>2. agent[a].attempt < MaxRetries
      <4>1. ~(agent[a].attempt > 0)
        BY <2>1, <3>1 DEF ThreadInv, ThreadOK
      <4> QED BY <4>1, AgentFacts, BudgetAssumption
    <3>3. agent'[a].pc = "sending" /\ agent'[a].i = agent[a].i /\ agent'[a].due = clock
      BY <1>1, <2>1, <3>1, <3>2, MoveFacts
    <3>4. faults' - Stales(a)' = spent + 1
      <4>1. StaleOf(a)' = StaleOf(a) \ {Target(a)} /\ Target(a) \in StaleOf(a)
        BY <2>1, <3>1 DEF StaleOf
      <4>2. Stales(a)' = Stales(a) - 1
        BY <1>2, <4>1, CountFacts DEF Stales
      <4> QED BY <1>1, <1>2, <4>2
    <3>5. agent'[a].due <= Heard(i, a) + Allowance(i, agent'[a], spent + 1)
      BY <1>1, <1>2, <2>1, <2>2, <2>3, <3>3, MoveKeepsSchedule
    <3> QED BY <2>4, <3>4, <3>5
  <2>7. CASE AnnounceRefused(b)
    <3>1. agent'[a] = Advance(agent[a], clock) /\ pooled' = pooled /\ agent[a].i # i
      BY <1>4, <2>7 DEF AnnounceRefused, TypeOK, Target
    <3>2. Stales(a)' = Stales(a)
      BY <3>1 DEF Stales, StaleOf
    <3>3. agent'[a].due <= Heard(i, a) + Allowance(i, agent'[a], spent)
      BY <1>1, <1>2, <2>1, <2>2, <2>3, <3>1, MoveKeepsSchedule
    <3> QED BY <1>1, <2>4, <3>2, <3>3
  <2> QED BY <2>5, <2>6, <2>7
<1> QED BY <1>3, <1>4

(* A kept-alive connection is closed, or an agent ends or starts.           *)
LEMMA ScheduleFaultStep ==
    ASSUME TypeOK, TypeOK', ThreadInv, ThreadInv', ScheduleInv, NEW b \in Agents,
           \/ \E g \in Gateways : SessionExpire(g, b)
           \/ AgentCrash(b) \/ AgentStart(b),
           NEW i \in DOMAIN Registry, NEW a \in Agents
    PROVE  OnSchedule(i, a)'
<1>1. /\ UNCHANGED <<clock, gateway, upSince, last_announce>>
      /\ faults' \in Nat /\ faults' >= faults
      /\ a # b => agent'[a] = agent[a] /\ pooled'[a] = pooled[a] /\ since'[a] = since[a]
  BY SpentFacts DEF SessionExpire, AgentCrash, AgentStart, Fault, TypeOK
<1>2. /\ IsFiniteSet(StaleOf(a)) /\ Stales(a) \in Nat /\ faults \in Nat
  BY SpentFacts
<1>3. CASE a # b
  <2>1. Stales(a)' = Stales(a)
    BY <1>1, <1>3 DEF Stales, StaleOf
  <2>2. faults - Stales(a) <= faults' - Stales(a)'
    BY <1>1, <1>2, <2>1
  <2> QED BY <1>1, <1>3, <2>2, ScheduleKept
<1>4. CASE a = b /\ \E g \in Gateways : SessionExpire(g, b)
  <2>1. PICK g \in Gateways : SessionExpire(g, b)
    BY <1>4
  <2>2. /\ UNCHANGED <<agent, since>> /\ faults' = faults + 1
        /\ pooled' = [pooled EXCEPT ![a][g] = "stale"]
    BY <1>4, <2>1 DEF SessionExpire, Fault
  <2>3. StaleOf(a)' \subseteq StaleOf(a) \cup {g}
    BY <2>2 DEF StaleOf, TypeOK
  <2>4. Cardinality(StaleOf(a)') \in Nat /\ Cardinality(StaleOf(a)') <= Stales(a) + 1
    BY <1>2, <2>3, CountFacts DEF Stales
  <2>5. faults - Stales(a) <= faults' - Stales(a)'
    BY <1>2, <2>2, <2>4 DEF Stales
  <2> QED BY <1>1, <2>2, <2>5, ScheduleKept
<1>5. CASE a = b /\ AgentCrash(b)
  <2>1. agent'[a].pc = "down"
    BY <1>5 DEF AgentCrash, TypeOK, Stopped
  <2> QED BY <2>1 DEF OnSchedule
<1>6. CASE a = b /\ AgentStart(b)
  <2>1. since'[a] = clock'
    BY <1>6 DEF AgentStart, TypeOK
  <2>2. clock' <= Heard(i, a)'
    BY <2>1, NextHeardFacts
  <2> QED BY <2>2, ScheduleFresh DEF OnSchedule
<1> QED BY <1>3, <1>4, <1>5, <1>6

LEMMA ScheduleStep ==
    ASSUME TypeOK, TypeOK', StoppedInv, ThreadInv, ThreadInv', ScheduleInv,
           MaxRetries >= 1, StallStandsAlone, [Next]_vars
    PROVE  ScheduleInv'
<1>1. CASE UNCHANGED <<gateway, upSince, last_announce, agent, since, pooled, faults>>
  BY <1>1 DEF ScheduleInv, OnSchedule, Heard, Stales, StaleOf
<1>2. ASSUME NEW g \in Gateways, NEW a \in Agents, SessionExpire(g, a) PROVE ScheduleInv'
  BY <1>2, ScheduleFaultStep DEF ScheduleInv, OnSchedule
<1>3. ASSUME NEW a \in Agents, AgentStep(a) PROVE ScheduleInv'
  BY <1>3, ScheduleFaultStep, ScheduleAttemptStep DEF AgentStep, ScheduleInv, OnSchedule
<1>4. ASSUME NEW g \in Gateways, GatewayStart(g) \/ GatewayStall(g) \/ GatewayResume(g)
      PROVE  ScheduleInv'
  BY <1>4, ScheduleGatewayStep DEF ScheduleInv, OnSchedule
<1>5. ASSUME NEW g \in Gateways, NEW a \in Agents, AddAgent(g, a) PROVE ScheduleInv'
  BY <1>5, ScheduleServedStep DEF ScheduleInv, OnSchedule
<1>6. ASSUME NEW g \in Gateways, GatewayCrash(g) PROVE ScheduleInv'
  BY <1>6, ScheduleCrashStep DEF ScheduleInv, OnSchedule
<1> QED
  BY <1>1, <1>2, <1>3, <1>4, <1>5, <1>6
     DEF Next, vars, GatewayStep, Tick, SweepReadClock, SweepErase, ListReadClock, ListCollect

LEMMA RoundsInvariant ==
    ASSUME MaxRetries >= 1, StallStandsAlone
    PROVE  Spec => [](ThreadInv /\ ScheduleInv)
<1>1. Init => ThreadInv /\ ScheduleInv
  <2> SUFFICES ASSUME Init PROVE ThreadInv /\ ScheduleInv
    OBVIOUS
  <2>1. /\ clock = 0 /\ faults = 0
        /\ \A g \in Gateways : gateway[g] = "up" /\ upSince[g] = 0
        /\ \A a \in Agents : /\ since[a] = 0 /\ agent[a] = Sending(1, 0, 0)
                             /\ \A g \in Gateways : pooled[a][g] = "none"
                             /\ \A g \in Gateways : last_announce[g][a] = -1
    BY DEF Init, None
  <2>2. Interval \in Nat /\ MaxDelay \in Nat /\ Len(Registry) \in Nat \ {0}
    BY TimeAssumption, RegistryFacts
  <2>3. ASSUME NEW a \in Agents
        PROVE  /\ StaleOf(a) = {} /\ IsFiniteSet(StaleOf(a)) /\ Stales(a) = 0
               /\ agent[a].pc = "sending" /\ agent[a].due = 0
               /\ agent[a].i = 1 /\ agent[a].attempt = 0
               /\ agent[a] \in AgentStates
    <3>1. StaleOf(a) = {}
      BY <2>1 DEF StaleOf
    <3> QED BY <2>1, <3>1, FS_EmptySet, ThreadTypes DEF Stales, Sending
  <2>4. ThreadInv
    BY <2>1, <2>2, <2>3 DEF ThreadInv, ThreadOK
  <2>5. ASSUME NEW i \in DOMAIN Registry, NEW a \in Agents PROVE OnSchedule(i, a)
    <3>1. Registry[i] \in Gateways
      BY RegistryFacts
    <3>2. Heard(i, a) = 0
      BY <2>1, <3>1 DEF Heard, Latest
    <3> DEFINE x == Allowance(i, agent[a], faults - Stales(a))
    <3>3. faults - Stales(a) \in Nat
      BY <2>1, <2>3
    <3>4. x \in Nat
      BY <2>3, <3>3, ScheduleFacts
    <3> HIDE DEF x
    <3>5. agent[a].due <= Heard(i, a) + x
      BY <2>3, <3>2, <3>4
    <3> QED BY <3>5 DEF x, OnSchedule
  <2> QED BY <2>4, <2>5 DEF ScheduleInv
<1>2. TypeOK /\ StoppedInv /\ ThreadInv /\ [Next]_vars => ThreadInv'
  BY ThreadStep
<1>3. /\ TypeOK /\ TypeOK' /\ StoppedInv /\ ThreadInv /\ ThreadInv' /\ ScheduleInv
      /\ [Next]_vars
      => ScheduleInv'
  BY ScheduleStep
<1> QED BY <1>1, <1>2, <1>3, TypeCorrect, StoppedInvariant, PTL DEF Spec

(* A running agent is heard by every running gateway of its list once per   *)
(* round (the loop of run_announce_task with its sleep, and the retries of  *)
(* the client's request_impl), when a gateway that may stall stands alone.  *)
THEOREM HeardEveryRoundHolds ==
    ASSUME MaxRetries >= 1, StallStandsAlone
    PROVE  Spec => []HeardEveryRound
<1>1. TypeOK /\ StoppedInv /\ ThreadInv /\ ScheduleInv => HeardEveryRound
  <2> SUFFICES ASSUME TypeOK, StoppedInv, ThreadInv, ScheduleInv,
                      NEW i \in DOMAIN Registry, NEW a \in Agents,
                      gateway[Registry[i]] = "up", agent[a].pc # "down"
               PROVE  clock - Heard(i, a) <= RoundBound
    BY DEF HeardEveryRound, Heard
  <2> DEFINE L == Len(Registry)
             spent == faults - Stales(a)
             x == Allowance(i, agent[a], spent)
             y == Trips(L - 1 + spent)
  <2>1. /\ Heard(i, a) \in Int /\ clock \in Nat /\ agent[a].due \in Nat /\ L \in Nat \ {0}
        /\ Interval \in Nat /\ MaxDelay \in Nat /\ agent[a] \in AgentStates
        /\ Registry[i] \in Gateways /\ upSince[Registry[i]] <= Heard(i, a)
        /\ agent[a].pc \in {"sending", "waiting"} /\ MaxFaults \in Nat
        /\ upSince[Registry[i]] \in Nat
    BY HeardFacts, TypeFacts, AgentFacts, TimeAssumption, BudgetAssumption, RegistryFacts
       DEF TypeOK
  <2>2. spent \in Nat /\ spent <= MaxFaults
    <3>1. faults \in Nat /\ faults <= MaxFaults /\ Stales(a) \in Nat /\ spent \in Nat
      BY SpentFacts, BudgetAssumption DEF TypeOK
    <3> QED BY <2>1, <3>1
  <2>3. agent[a].due <= Heard(i, a) + x
    BY DEF ScheduleInv, OnSchedule
  <2>4. x <= Interval + y + (IF agent[a].pc = "waiting" THEN MaxDelay ELSE 0)
    BY <2>1, <2>2, ScheduleFacts
  <2>8. x \in Nat
    BY <2>1, <2>2, ScheduleFacts
  <2>5. y \in Int /\ y >= 0 /\ Interval + y + 2 * MaxDelay <= RoundBound /\ RoundBound \in Int
    <3>1. /\ L - 1 + spent \in Nat /\ L - 1 + spent + 1 \in Int /\ L + MaxFaults \in Int
          /\ L - 1 + spent + 1 <= L + MaxFaults
      BY <2>1, <2>2
    <3>2. /\ y \in Int /\ y >= 0 /\ Trips(L - 1 + spent + 1) = y + 2 * MaxDelay
          /\ Trips(L - 1 + spent + 1) <= Trips(L + MaxFaults) /\ Trips(L + MaxFaults) \in Int
      BY <3>1, TripsFacts
    <3>3. RoundBound = Interval + Trips(L + MaxFaults)
      BY DEF RoundBound, Trips
    <3> HIDE DEF y, spent, L
    <3> QED BY <2>1, <3>2, <3>3
  <2>6. CASE agent[a].pc = "sending"
    <3>1. clock <= agent[a].due + MaxDelay
      BY <2>6 DEF ThreadInv, ThreadOK
    <3>2. x <= Interval + y
      BY <2>1, <2>4, <2>5, <2>6
    <3> DEFINE h == Heard(i, a)
    <3>3. clock \in Nat /\ agent[a].due \in Nat /\ h \in Int /\ agent[a].due <= h + x
      BY <2>1, <2>3
    <3> HIDE DEF x, y, h
    <3>4. clock - h <= RoundBound
      BY ONLY <2>5, <2>8, <3>1, <3>2, <3>3, TimeAssumption
    <3> QED BY <3>4 DEF h
  <2>7. CASE agent[a].pc = "waiting"
    <3> DEFINE h == Target(a)
    <3>1. /\ gateway[h] # "down" /\ request[h][a] # None /\ h \in Gateways
          /\ request[h][a] \in Int
          /\ \/ request[h][a] = agent[a].due
             \/ h \in CanStall /\ request[h][a] <= upSince[h]
      BY <2>7, AgentFacts, TypeFacts DEF ThreadInv, ThreadOK
    <3>2. h \in CanStall => Registry[i] = h
      BY DEF StallStandsAlone
    <3>3. gateway[h] = "up"
      BY <3>1, <3>2 DEF ThreadInv, TypeOK
    <3>4. clock <= request[h][a] + MaxDelay
      BY <3>1, <3>3 DEF StoppedInv
    <3>5. x <= Interval + y + MaxDelay
      BY <2>1, <2>4, <2>5, <2>7
    <3> HIDE DEF x, y
    <3>6. CASE request[h][a] = agent[a].due
      <4> DEFINE d == Heard(i, a)
      <4>1. /\ clock \in Nat /\ agent[a].due \in Nat /\ d \in Int
            /\ agent[a].due <= d + x /\ clock <= agent[a].due + MaxDelay
        BY <2>1, <2>3, <3>4, <3>6
      <4> HIDE DEF d
      <4>2. clock - d <= RoundBound
        BY ONLY <2>5, <2>8, <3>5, <4>1, TimeAssumption
      <4> QED BY <4>2 DEF d
    <3>7. CASE h \in CanStall /\ request[h][a] <= upSince[h]
      <4>1. upSince[h] <= Heard(i, a)
        BY <2>1, <3>2, <3>7
      <4>2. upSince[h] \in Nat
        BY <2>1, <3>2, <3>7
      <4>3. clock <= Heard(i, a) + MaxDelay
        BY <2>1, <3>1, <3>4, <3>7, <4>1, <4>2
      <4> QED BY <2>1, <2>5, <4>3
    <3> QED BY <3>1, <3>6, <3>7
  <2> QED BY <2>1, <2>6, <2>7
<1> QED BY <1>1, TypeCorrect, StoppedInvariant, RoundsInvariant, PTL

-----------------------------------------------------------------------------
(* Only a gateway of the list has entries and requests.                     *)
IsListed(g) == \E i \in DOMAIN Registry : Registry[i] = g

ListedInv ==
    \A g \in Gateways, a \in Agents :
        a \in agents_[g] \/ request[g][a] # None => IsListed(g)

LEMMA ListedStep ==
    ASSUME TypeOK, ListedInv, [Next]_vars PROVE ListedInv'
<1> USE DEF ListedInv, TypeOK
<1>1. ASSUME NEW g \in Gateways, SweepErase(g) PROVE ListedInv'
  BY <1>1 DEF SweepErase
<1>2. ASSUME NEW g \in Gateways, NEW a \in Agents, AddAgent(g, a) PROVE ListedInv'
  BY <1>2 DEF AddAgent
<1>3. ASSUME NEW g \in Gateways, GatewayCrash(g) PROVE ListedInv'
  BY <1>3 DEF GatewayCrash
<1>4. ASSUME NEW g \in Gateways, GatewayResume(g) PROVE ListedInv'
  BY <1>4 DEF GatewayResume
<1>5. ASSUME NEW a \in Agents, AnnounceSend(a) PROVE ListedInv'
  <2>1. Target(a) \in Gateways /\ IsListed(Target(a))
    BY AgentFacts DEF Target, IsListed
  <2>2. /\ agents_' = agents_
        /\ request' = [request EXCEPT ![Target(a)][a] = clock]
    BY <1>5 DEF AnnounceSend
  <2> QED BY <2>1, <2>2
<1>6. CASE UNCHANGED <<agents_, request>>
  BY <1>6
<1> QED
  BY <1>1, <1>2, <1>3, <1>4, <1>5, <1>6
     DEF Next, vars, GatewayStep, AgentStep, Tick, SweepReadClock, ListReadClock,
         ListCollect, GatewayStart, GatewayStall, SessionExpire, AnnounceOnStale,
         AnnounceRefused, AgentCrash, AgentStart

(* While a round is shorter than the time-out, cleanup_expired_agents never *)
(* erases a running agent for the age of its entry: what it erases is an    *)
(* entry stamped after its clock reading, or one of a gateway that stalled. *)
THEOREM NeverErasedByAgeHolds ==
    ASSUME MaxRetries >= 1, StallStandsAlone
    PROVE  Spec => NeverErasedByAge
<1> DEFINE Kept ==
        \A g \in Gateways : SweepErase(g) /\ RoundBound <= Timeout =>
          \A a \in agents_[g] \ agents_'[g] :
             agent[a].pc # "down" =>
                \/ gateway[g] = "stalled"
                \/ last_announce[g][a] > sweeper[g].now
                \/ clock - Latest(upSince[g], since[a]) <= RoundBound
<1>1. Init => ListedInv
  BY DEF Init, ListedInv
<1>2. TypeOK /\ ListedInv /\ [Next]_vars => ListedInv'
  BY ListedStep
<1>3. TypeOK /\ SweepInv /\ ListedInv /\ HeardEveryRound => Kept
  <2> SUFFICES ASSUME TypeOK, SweepInv, ListedInv, HeardEveryRound,
                      NEW g \in Gateways, SweepErase(g), RoundBound <= Timeout,
                      NEW a \in agents_[g] \ agents_'[g], agent[a].pc # "down",
                      gateway[g] # "stalled", ~(last_announce[g][a] > sweeper[g].now)
               PROVE  clock - Latest(upSince[g], since[a]) <= RoundBound
    OBVIOUS
  <2>1. /\ a \in Agents /\ Expired(sweeper[g].now, last_announce[g][a])
        /\ gateway[g] = "up" /\ sweeper[g].pc = "locking"
    BY DEF SweepErase, TypeOK
  <2>2. PICK i \in DOMAIN Registry : Registry[i] = g
    BY <2>1 DEF ListedInv, IsListed
  <2>3. clock - Latest(last_announce[g][a], Latest(upSince[g], since[a])) <= RoundBound
    BY <2>1, <2>2 DEF HeardEveryRound
  <2> DEFINE last == last_announce[g][a]
             now == sweeper[g].now
             fresh == Latest(upSince[g], since[a])
  <2>4. /\ last \in Int /\ now \in Nat /\ clock \in Nat /\ fresh \in Int
        /\ Timeout \in Nat /\ RoundBound \in Int
    <3>1. MaxDelay * (Len(Registry) + MaxFaults) \in Int
      BY TimeAssumption, RegistryFacts, BudgetAssumption
    <3>2. RoundBound \in Int
      BY <3>1, TimeAssumption, RegistryFacts, BudgetAssumption DEF RoundBound
    <3> QED BY <2>1, <3>2, TypeFacts, TimeAssumption DEF Latest
  <2>5. now <= clock
    BY <2>1 DEF SweepInv
  <2>6. last <= now /\ now - last > Timeout
    BY <2>1, <2>4 DEF Expired, Elapsed
  <2> HIDE DEF last, now, fresh
  <2>7. clock - last > RoundBound
    BY <2>4, <2>5, <2>6
  <2>8. Latest(last, fresh) = fresh
    BY <2>3, <2>4, <2>7 DEF Latest, last, fresh
  <2> QED BY <2>3, <2>8 DEF last, fresh
<1>4. TypeOK /\ SweepInv /\ ListedInv /\ HeardEveryRound => [Kept]_vars
  BY <1>3
<1>5. Spec => []ListedInv
  BY <1>1, <1>2, TypeCorrect, PTL DEF Spec
<1>6. Spec => []SweepInv
  BY LifetimeInvariant, PTL DEF LifetimeInv
<1> QED BY <1>4, <1>5, <1>6, TypeCorrect, HeardEveryRoundHolds, PTL DEF NeverErasedByAge
==============================================================================
