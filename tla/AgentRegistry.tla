---------------------------- MODULE AgentRegistry ----------------------------
(***************************************************************************)
(* The membership half of drlog-search: each gateway's AgentManager        *)
(* (src/gateway/agent_manager.cpp) and the announce thread of every agent  *)
(* (run_announce_task in src/agent/main_agent.cpp), with the blocking HTTP *)
(* client that thread uses (libs/bst-http/http_client.hpp).                *)
(*                                                                         *)
(* Time is the clock that std::time returns, in ticks.  A step of a thread *)
(* that is ready at time t is taken by t + MaxDelay: Tick is not enabled   *)
(* while a ready thread is that late.  Everything that happens without the *)
(* clock advancing interleaves freely.                                     *)
(***************************************************************************)
EXTENDS Integers, Sequences

CONSTANTS
    Agents,       \* the agents; an agent_id is the hash of the address
    Gateways,     \* the gateways
    Registry,     \* the registry_address vector of the agents' configuration
    Timeout,      \* AGENT_TIMEOUT_SECONDS: age limit and period of the sweep
    Interval,     \* AGENT_ANNOUNCE_INTERVAL_SECONDS
    MaxRetries,   \* max_retries_ of the blocking client
    Word,         \* 2^64: unsigned arithmetic is modulo Word
    MaxDelay,     \* bound: how late a ready thread may run
    MaxClock,     \* bound on the clock
    MaxFaults,    \* bound on crashes, stalls and expired sessions
    CanStall      \* the gateways that may stop serving requests for a while

ASSUME RegistryAssumption == Registry \in Seq(Gateways) /\ Registry # << >>
ASSUME TimeAssumption ==
    /\ Timeout \in Nat /\ Interval \in Nat \ {0} /\ MaxDelay \in Nat
    /\ MaxClock \in Nat /\ Word \in Nat /\ MaxClock + Timeout < Word
ASSUME BudgetAssumption ==
    MaxRetries \in Nat /\ MaxFaults \in Nat /\ CanStall \subseteq Gateways

VARIABLES
    clock,          \* the wall clock
    gateway,        \* gateway[g]: "up", "stalled" (serves no request) or "down"
    upSince,        \* upSince[g]: when g was last started or resumed
    agents_,        \* agents_[g]: the keys of AgentManager's map
    last_announce,  \* last_announce[g][a]; of an erased entry, its last value
    sweeper,        \* sweeper[g]: the cleanup thread
    lister,         \* lister[g]: a caller of get_active_agents
    listed,         \* listed[g]: what get_active_agents last returned
    request,        \* request[g][a]: when an unserved announce arrived, or None
    agent,          \* agent[a]: the announce thread of a
    since,          \* since[a]: when a was last started or stopped
    pooled,         \* pooled[a][g]: a's kept-alive connection to g
    faults          \* how many faults have happened

vars == <<clock, gateway, upSince, agents_, last_announce, sweeper, lister,
          listed, request, agent, since, pooled, faults>>

None == -1
Times == 0..MaxClock
Never == Times \cup {None}

(* An unsigned difference of two times: negative differences wrap.          *)
Elapsed(now, last) == IF now >= last THEN now - last ELSE now - last + Word

(* Mistake: a sleep of two periods.                                         *)
AsleepTwice(t) == [pc |-> "sleeping", now |-> 0, due |-> t + 2 * Timeout]

(* The test of cleanup_expired_agents, get_active_agents, get_agent_by_id.  *)
Expired(now, last) == Elapsed(now, last) > Timeout

Asleep(t) == [pc |-> "sleeping", now |-> 0, due |-> t + Timeout]
Idle == [pc |-> "idle", now |-> 0]

(* The announce thread about to send to Registry[i] once the clock is due.  *)
Sending(i, attempt, t) ==
    [pc |-> "sending", i |-> i, attempt |-> attempt, due |-> t]
Stopped == [pc |-> "down", i |-> 1, attempt |-> 0, due |-> 0]

(* Mistake: the loop over the addresses runs past the end.                  *)
AdvanceOffByOne(ag, t) ==
    IF ag.i <= Len(Registry) THEN Sending(ag.i + 1, 0, t)
                             ELSE Sending(1, 0, t + Interval)

(* After one address: the next one at once, or the next round.              *)
Advance(ag, t) ==
    IF ag.i < Len(Registry) THEN Sending(ag.i + 1, 0, t)
                            ELSE Sending(1, 0, t + Interval)

(* After a broken connection: another attempt at once, until MaxRetries.    *)
Retry(ag, t) ==
    IF ag.attempt < MaxRetries THEN Sending(ag.i, ag.attempt + 1, t)
                               ELSE Advance(ag, t)

Target(a) == Registry[agent[a].i]
WaitsFor(a, g) == agent[a].pc = "waiting" /\ Target(a) = g

SweeperStates == [pc: {"sleeping", "locking"}, now: Times, due: Nat]
ListerStates == [pc: {"idle", "locking"}, now: Times]
AgentStates == [pc: {"sending", "waiting", "down"}, i: DOMAIN Registry,
                attempt: 0..MaxRetries, due: Nat]

TypeOK ==
    /\ clock \in Times
    /\ gateway \in [Gateways -> {"up", "stalled", "down"}]
    /\ upSince \in [Gateways -> Times]
    /\ agents_ \in [Gateways -> SUBSET Agents]
    /\ last_announce \in [Gateways -> [Agents -> Never]]
    /\ sweeper \in [Gateways -> SweeperStates]
    /\ lister \in [Gateways -> ListerStates]
    /\ listed \in [Gateways -> SUBSET Agents]
    /\ request \in [Gateways -> [Agents -> Never]]
    /\ agent \in [Agents -> AgentStates]
    /\ since \in [Agents -> Times]
    /\ pooled \in [Agents -> [Gateways -> {"none", "open", "stale"}]]
    /\ faults \in 0..MaxFaults

(* Every gateway has just started with an empty map; so has every agent,    *)
(* which announces itself before anything else.                             *)
Init ==
    /\ clock = 0
    /\ gateway = [g \in Gateways |-> "up"]
    /\ upSince = [g \in Gateways |-> 0]
    /\ agents_ = [g \in Gateways |-> {}]
    /\ last_announce = [g \in Gateways |-> [a \in Agents |-> None]]
    /\ sweeper = [g \in Gateways |-> Asleep(0)]
    /\ lister = [g \in Gateways |-> Idle]
    /\ listed = [g \in Gateways |-> {}]
    /\ request = [g \in Gateways |-> [a \in Agents |-> None]]
    /\ agent = [a \in Agents |-> Sending(1, 0, 0)]
    /\ since = [a \in Agents |-> 0]
    /\ pooled = [a \in Agents |-> [g \in Gateways |-> "none"]]
    /\ faults = 0

-----------------------------------------------------------------------------
(* Time.                                                                    *)

OnTime(due) == clock < due + MaxDelay

(* One second passes; no ready thread is more than MaxDelay late.           *)
Tick ==
    /\ clock < MaxClock
    /\ \A g \in Gateways :
         /\ gateway[g] # "down" => OnTime(sweeper[g].due)
         /\ lister[g].pc = "locking" => OnTime(lister[g].now)
         /\ gateway[g] = "up" =>
              \A a \in Agents : request[g][a] # None => OnTime(request[g][a])
    /\ \A a \in Agents : agent[a].pc = "sending" => OnTime(agent[a].due)
    /\ clock' = clock + 1
    /\ UNCHANGED <<gateway, upSince, agents_, last_announce, sweeper, lister,
                   listed, request, agent, since, pooled, faults>>

-----------------------------------------------------------------------------
(* The gateway.                                                             *)

(* cleanup_expired_agents, first half: the thread wakes up and reads the    *)
(* clock, before it has the lock.                                           *)
SweepReadClock(g) ==
    /\ gateway[g] # "down"
    /\ sweeper[g].pc = "sleeping"
    /\ clock >= sweeper[g].due
    /\ sweeper' = [sweeper EXCEPT ![g] =
                     [pc |-> "locking", now |-> clock, due |-> clock]]
    /\ UNCHANGED <<clock, gateway, upSince, agents_, last_announce, lister,
                   listed, request, agent, since, pooled, faults>>

(* Second half, under the lock: every expired entry is erased, and the      *)
(* thread goes back to sleep.                                               *)
SweepErase(g) ==
    /\ gateway[g] # "down"
    /\ sweeper[g].pc = "locking"
    /\ agents_' = [agents_ EXCEPT ![g] =
                     {a \in @ : ~Expired(sweeper[g].now, last_announce[g][a])}]
    /\ sweeper' = [sweeper EXCEPT ![g] = Asleep(clock)]
    /\ UNCHANGED <<clock, gateway, upSince, last_announce, lister, listed,
                   request, agent, since, pooled, faults>>

(* Mistake: the age check is left to the sweep.                             *)
ListEverything(g) ==
    /\ lister[g].pc = "locking"
    /\ listed' = [listed EXCEPT ![g] = agents_[g]]
    /\ lister' = [lister EXCEPT ![g] = Idle]
    /\ UNCHANGED <<clock, gateway, upSince, agents_, last_announce, sweeper,
                   request, agent, since, pooled, faults>>

(* get_active_agents, called by a list, search or agent_list request: the   *)
(* clock is read before the lock is taken.                                  *)
ListReadClock(g) ==
    /\ gateway[g] = "up"
    /\ lister[g].pc = "idle"
    /\ lister' = [lister EXCEPT ![g] = [pc |-> "locking", now |-> clock]]
    /\ UNCHANGED <<clock, gateway, upSince, agents_, last_announce, sweeper,
                   listed, request, agent, since, pooled, faults>>

ListCollect(g) ==
    /\ lister[g].pc = "locking"
    /\ listed' = [listed EXCEPT ![g] =
                    {a \in agents_[g] : ~Expired(lister[g].now, last_announce[g][a])}]
    /\ lister' = [lister EXCEPT ![g] = Idle]
    /\ UNCHANGED <<clock, gateway, upSince, agents_, last_announce, sweeper,
                   request, agent, since, pooled, faults>>

(* Mistake: only a new entry is stamped.                                    *)
AddOnlyNew(g, a) ==
    /\ gateway[g] = "up"
    /\ request[g][a] # None
    /\ agents_' = [agents_ EXCEPT ![g] = @ \cup {a}]
    /\ last_announce' = [last_announce EXCEPT ![g][a] =
                           IF a \in agents_[g] THEN @ ELSE clock]
    /\ request' = [request EXCEPT ![g][a] = None]
    /\ agent' = [agent EXCEPT ![a] = IF WaitsFor(a, g) THEN Advance(@, clock) ELSE @]
    /\ pooled' = [pooled EXCEPT ![a][g] = IF WaitsFor(a, g) THEN "open" ELSE @]
    /\ UNCHANGED <<clock, gateway, upSince, sweeper, lister, listed, since, faults>>

(* The announce handler: add_agent stamps the entry, new or old, with the   *)
(* time read under the lock.  The answer reaches the agent if it waits.     *)
AddAgent(g, a) ==
    /\ gateway[g] = "up"
    /\ request[g][a] # None
    /\ agents_' = [agents_ EXCEPT ![g] = @ \cup {a}]
    /\ last_announce' = [last_announce EXCEPT ![g][a] = clock]
    /\ request' = [request EXCEPT ![g][a] = None]
    /\ IF WaitsFor(a, g)
         THEN /\ agent' = [agent EXCEPT ![a] = Advance(@, clock)]
              /\ pooled' = [pooled EXCEPT ![a][g] = "open"]
         ELSE UNCHANGED <<agent, pooled>>
    /\ UNCHANGED <<clock, gateway, upSince, sweeper, lister, listed, since, faults>>

-----------------------------------------------------------------------------
(* The announce thread.                                                     *)

(* A new or a kept-alive connection carries the request to the gateway; one *)
(* to a stalled gateway is accepted by its host and waits there.            *)
AnnounceSend(a) ==
    LET g == Target(a) IN
    /\ agent[a].pc = "sending"
    /\ clock >= agent[a].due
    /\ gateway[g] # "down"
    /\ pooled[a][g] # "stale"
    /\ request' = [request EXCEPT ![g][a] = clock]
    /\ agent' = [agent EXCEPT ![a].pc = "waiting", ![a].due = clock]
    /\ pooled' = [pooled EXCEPT ![a][g] = "none"]
    /\ UNCHANGED <<clock, gateway, upSince, agents_, last_announce, sweeper,
                   lister, listed, since, faults>>

(* Mistake: the dead connection is not closed before the retry.             *)
RetryOnSameConnection(a) ==
    /\ agent[a].pc = "sending"
    /\ clock >= agent[a].due
    /\ pooled[a][Target(a)] = "stale"
    /\ agent' = [agent EXCEPT ![a] = Retry(@, clock)]
    /\ UNCHANGED <<clock, gateway, upSince, agents_, last_announce, sweeper,
                   lister, listed, request, since, pooled, faults>>

(* The kept-alive connection is dead: it is closed and the request retried. *)
AnnounceOnStale(a) ==
    LET g == Target(a) IN
    /\ agent[a].pc = "sending"
    /\ clock >= agent[a].due
    /\ pooled[a][g] = "stale"
    /\ pooled' = [pooled EXCEPT ![a][g] = "none"]
    /\ agent' = [agent EXCEPT ![a] = Retry(@, clock)]
    /\ UNCHANGED <<clock, gateway, upSince, agents_, last_announce, sweeper,
                   lister, listed, request, since, faults>>

(* Mistake: the try block encloses the loop, so a failure ends the round.   *)
RefusedEndsRound(a) ==
    /\ agent[a].pc = "sending"
    /\ clock >= agent[a].due
    /\ gateway[Target(a)] = "down"
    /\ pooled[a][Target(a)] = "none"
    /\ agent' = [agent EXCEPT ![a] = Sending(1, 0, clock + Interval)]
    /\ UNCHANGED <<clock, gateway, upSince, agents_, last_announce, sweeper,
                   lister, listed, request, since, pooled, faults>>

(* Connecting fails: the exception is caught in the loop over the           *)
(* addresses, which goes on with the next one.                              *)
AnnounceRefused(a) ==
    LET g == Target(a) IN
    /\ agent[a].pc = "sending"
    /\ clock >= agent[a].due
    /\ gateway[g] = "down"
    /\ pooled[a][g] = "none"
    /\ agent' = [agent EXCEPT ![a] = Advance(@, clock)]
    /\ UNCHANGED <<clock, gateway, upSince, agents_, last_announce, sweeper,
                   lister, listed, request, since, pooled, faults>>

-----------------------------------------------------------------------------
(* Faults.                                                                  *)

Fault == faults < MaxFaults /\ faults' = faults + 1

(* The gateway process ends: its map, its threads and its connections go.   *)
GatewayCrash(g) ==
    /\ gateway[g] # "down"
    /\ Fault
    /\ gateway' = [gateway EXCEPT ![g] = "down"]
    /\ agents_' = [agents_ EXCEPT ![g] = {}]
    /\ last_announce' = [last_announce EXCEPT ![g] = [a \in Agents |-> None]]
    /\ lister' = [lister EXCEPT ![g] = Idle]
    /\ listed' = [listed EXCEPT ![g] = {}]
    /\ request' = [request EXCEPT ![g] = [a \in Agents |-> None]]
    /\ agent' = [a \in Agents |->
                   IF WaitsFor(a, g) THEN Retry(agent[a], clock) ELSE agent[a]]
    /\ pooled' = [a \in Agents |->
                    [pooled[a] EXCEPT ![g] = IF @ = "open" THEN "stale" ELSE @]]
    /\ UNCHANGED <<clock, upSince, sweeper, since>>

(* main: the cleanup thread starts, then the server.                        *)
GatewayStart(g) ==
    /\ gateway[g] = "down"
    /\ gateway' = [gateway EXCEPT ![g] = "up"]
    /\ upSince' = [upSince EXCEPT ![g] = clock]
    /\ sweeper' = [sweeper EXCEPT ![g] = Asleep(clock)]
    /\ UNCHANGED <<clock, agents_, last_announce, lister, listed, request,
                   agent, since, pooled, faults>>

(* The gateway keeps its connections and its threads but serves no request, *)
(* until it does again.                                                     *)
GatewayStall(g) ==
    /\ g \in CanStall
    /\ gateway[g] = "up"
    /\ Fault
    /\ gateway' = [gateway EXCEPT ![g] = "stalled"]
    /\ UNCHANGED <<clock, upSince, agents_, last_announce, sweeper, lister,
                   listed, request, agent, since, pooled>>

GatewayResume(g) ==
    /\ gateway[g] = "stalled"
    /\ gateway' = [gateway EXCEPT ![g] = "up"]
    /\ upSince' = [upSince EXCEPT ![g] = clock]
    /\ request' = [request EXCEPT ![g] =
                     [a \in Agents |-> IF @[a] # None THEN clock ELSE None]]
    /\ UNCHANGED <<clock, agents_, last_announce, sweeper, lister, listed,
                   agent, since, pooled, faults>>

(* The gateway's session timeout closes an idle kept-alive connection.      *)
SessionExpire(g, a) ==
    /\ gateway[g] = "up"
    /\ pooled[a][g] = "open"
    /\ Fault
    /\ pooled' = [pooled EXCEPT ![a][g] = "stale"]
    /\ UNCHANGED <<clock, gateway, upSince, agents_, last_announce, sweeper,
                   lister, listed, request, agent, since>>

(* The agent process ends; a request already sent may still be served.      *)
AgentCrash(a) ==
    /\ agent[a].pc # "down"
    /\ Fault
    /\ agent' = [agent EXCEPT ![a] = Stopped]
    /\ since' = [since EXCEPT ![a] = clock]
    /\ pooled' = [pooled EXCEPT ![a] = [g \in Gateways |-> "none"]]
    /\ UNCHANGED <<clock, gateway, upSince, agents_, last_announce, sweeper,
                   lister, listed, request>>

AgentStart(a) ==
    /\ agent[a].pc = "down"
    /\ agent' = [agent EXCEPT ![a] = Sending(1, 0, clock)]
    /\ since' = [since EXCEPT ![a] = clock]
    /\ UNCHANGED <<clock, gateway, upSince, agents_, last_announce, sweeper,
                   lister, listed, request, pooled, faults>>

-----------------------------------------------------------------------------
GatewayStep(g) ==
    \/ SweepReadClock(g) \/ SweepErase(g)
    \/ ListReadClock(g) \/ ListCollect(g)
    \/ GatewayCrash(g) \/ GatewayStart(g)
    \/ GatewayStall(g) \/ GatewayResume(g)
    \/ \E a \in Agents : AddAgent(g, a) \/ SessionExpire(g, a)

AgentStep(a) ==
    \/ AnnounceSend(a) \/ AnnounceOnStale(a) \/ AnnounceRefused(a)
    \/ AgentCrash(a) \/ AgentStart(a)

Next ==
    \/ Tick
    \/ \E g \in Gateways : GatewayStep(g)
    \/ \E a \in Agents : AgentStep(a)

Spec == Init /\ [][Next]_vars

-----------------------------------------------------------------------------
(* Properties.                                                              *)

(* An entry that is not refreshed is gone after two time-outs and the       *)
(* delays of one sweep: however the sweep's early clock reading, its        *)
(* waiting for the lock and its sleep interleave with announcements, a      *)
(* running gateway's map never keeps an older one.                          *)
EntryLifetime ==
    \A g \in Gateways : gateway[g] # "down" =>
        \A a \in agents_[g] :
            clock - last_announce[g][a] <= 2 * Timeout + 3 * MaxDelay

(* What get_active_agents returns was announced at most one time-out before *)
(* the call: its clock reading is old by at most the wait for the lock, and *)
(* the wrapping subtraction never makes an old entry look young.            *)
ListedAreRecent ==
    [][\A g \in Gateways : ListCollect(g) =>
         \A a \in listed'[g] :
            clock - last_announce[g][a] <= Timeout + MaxDelay]_vars

Latest(t, u) == IF t >= u THEN t ELSE u

(* Health monitoring: an agent that stopped longer ago than a time-out, the *)
(* service of its last request and the lister's own delay is not returned,  *)
(* counted from the gateway's resumption if it stalled and then served that *)
(* request late.                                                            *)
StoppedAreUnlisted ==
    [][\A g \in Gateways : ListCollect(g) =>
         \A a \in listed'[g] : agent[a].pc = "down" =>
            clock - Latest(since[a], upSince[g]) <= Timeout + 2 * MaxDelay]_vars

(* The longest round over the addresses when no other gateway of the list   *)
(* stalls: the sleep, the sending and the service of one request per        *)
(* address, and one more of each for every fault that breaks a connection.  *)
RoundBound == Interval + 2 * MaxDelay * (Len(Registry) + MaxFaults)

(* A running agent is heard by every running gateway of its list once per   *)
(* round, although the others crash, restart and break connections.  (With  *)
(* several addresses it is claimed where no gateway stalls: the client has  *)
(* no time-out that would end the wait for one that does.)                  *)
HeardEveryRound ==
    \A i \in DOMAIN Registry, a \in Agents :
        LET g == Registry[i] IN
        gateway[g] = "up" /\ agent[a].pc # "down" =>
            clock - Latest(last_announce[g][a], Latest(upSince[g], since[a]))
                <= RoundBound

(* When a round is shorter than the time-out, as 10 s is than 60 s, an      *)
(* agent that keeps running is never erased because its entry got old while *)
(* the gateway served requests: the only erasure is that of an entry        *)
(* younger than the sweep's clock reading.                                  *)
NeverErasedByAge ==
    [][\A g \in Gateways : SweepErase(g) /\ RoundBound <= Timeout =>
         \A a \in agents_[g] \ agents_'[g] :
            agent[a].pc # "down" =>
               \/ gateway[g] = "stalled"
               \/ last_announce[g][a] > sweeper[g].now
               \/ clock - Latest(upSince[g], since[a]) <= RoundBound]_vars

(* What the log line of cleanup_expired_agents says of each agent it names, *)
(* "Agent expired and removed".                                             *)
RemovedAreExpired ==
    [][\A g \in Gateways : SweepErase(g) =>
         \A a \in agents_[g] \ agents_'[g] :
            clock - last_announce[g][a] > Timeout]_vars
==============================================================================
