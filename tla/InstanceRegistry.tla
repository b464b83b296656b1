--------------------------- MODULE InstanceRegistry ---------------------------
(* The list of running instances: InstanceCoordinator's registration,        *)
(* heartbeat, watch and adjustment timers over the rows of                   *)
(* InstanceRepository in the shared cache, and the tunnel whose address an   *)
(* instance lists (TunnelService, CloudflareTunnel).  A row expires by       *)
(* itself when it is not written for Ttl ticks of 30 seconds.  Workers for   *)
(* stream transfers and the addressee of forwarded webhooks are taken from   *)
(* this list; the instance with the smallest id calls itself the leader.     *)
EXTENDS Naturals, FiniteSets

CONSTANTS
  Instances,   \* ids, ordered as numbers
  Tunnelled,   \* those whose configuration enables a tunnel
  Ttl,         \* instanceTimeout in ticks (90 s)
  Many,        \* number of instances above which heartbeats slow down (200)
  MaxStarts, MaxFails, MaxUrls  \* bounds on starts, failed writes and addresses

VARIABLES
  life,     \* "off" or "up": start() has succeeded and stop() has not been called
  timers,   \* the timers that are set
  interval, \* heartbeatInterval, in ticks
  due,      \* ticks until the next heartbeat
  beat,     \* the heartbeat under way: what it read, or Idle
  row,      \* the row in the cache, or NoRow
  leads,    \* isLeader
  tunnel,   \* currentUrl of the tunnel, 0 for none
  orphan,   \* history: stop() was called while the first adjustment was pending
  starts, fails, urls

registryVars == <<life, timers, interval, due, beat, row, leads, tunnel, orphan,
                  starts, fails, urls>>

NoRow == [age |-> Ttl, url |-> 0]
Idle  == [age |-> Ttl + 1, url |-> 0]

Listed(i) == row[i] # NoRow

RegistryInit ==
  /\ life = [i \in Instances |-> "off"] /\ timers = [i \in Instances |-> {}]
  /\ interval = [i \in Instances |-> 1] /\ due = [i \in Instances |-> 0]
  /\ beat = [i \in Instances |-> Idle] /\ row = [i \in Instances |-> NoRow]
  /\ leads = [i \in Instances |-> FALSE] /\ tunnel = [i \in Instances |-> 0]
  /\ orphan = [i \in Instances |-> FALSE]
  /\ starts = 0 /\ fails = 0 /\ urls = 0

-----------------------------------------------------------------------------
\* start: registerInstance must succeed before any timer is set; the first heartbeat
\* comes after one interval.
Registered(i) == [age |-> 0, url |-> tunnel[i]]

Start(i) ==
  /\ life[i] = "off" /\ starts < MaxStarts
  /\ starts' = starts + 1
  /\ \/ /\ life' = [life EXCEPT ![i] = "up"]
        /\ row' = [row EXCEPT ![i] = Registered(i)]
        /\ timers' = [timers EXCEPT ![i] = @ \union {"heartbeat", "first", "watch"}]
        /\ due' = [due EXCEPT ![i] = interval[i]]
        /\ UNCHANGED fails
     \/ /\ fails < MaxFails /\ fails' = fails + 1
        /\ UNCHANGED <<life, row, timers, due>>
  /\ UNCHANGED <<interval, beat, leads, tunnel, orphan, urls>>

\* stop: the handles are cleared and the row is deleted; the one-shot timer of the
\* first adjustment has no handle, and a heartbeat under way goes on.  An error of the
\* deletion is logged.
Cleared == {"heartbeat", "adjust", "watch"}

Stop(i) ==
  /\ life[i] = "up"
  /\ life' = [life EXCEPT ![i] = "off"]
  /\ timers' = [timers EXCEPT ![i] = @ \ Cleared]
  /\ orphan' = [orphan EXCEPT ![i] = @ \/ "first" \in timers[i]]
  /\ due' = [due EXCEPT ![i] = 0]
  /\ \/ row' = [row EXCEPT ![i] = NoRow] /\ UNCHANGED fails
     \/ fails < MaxFails /\ fails' = fails + 1 /\ UNCHANGED row
  /\ UNCHANGED <<interval, beat, leads, tunnel, starts, urls>>

\* The process dies; a new one has none of its state.
Die(i) ==
  /\ life[i] = "up"
  /\ life' = [life EXCEPT ![i] = "off"]
  /\ timers' = [timers EXCEPT ![i] = {}]
  /\ beat' = [beat EXCEPT ![i] = Idle] /\ due' = [due EXCEPT ![i] = 0]
  /\ interval' = [interval EXCEPT ![i] = 1]
  /\ leads' = [leads EXCEPT ![i] = FALSE]
  /\ tunnel' = [tunnel EXCEPT ![i] = 0]
  /\ orphan' = [orphan EXCEPT ![i] = FALSE]
  /\ UNCHANGED <<row, starts, fails, urls>>

-----------------------------------------------------------------------------
\* startHeartbeat: the timer reads the own row ...
HeartbeatRead(i) ==
  /\ "heartbeat" \in timers[i] /\ due[i] = 0 /\ beat[i] = Idle
  /\ beat' = [beat EXCEPT ![i] = row[i]]
  /\ due' = [due EXCEPT ![i] = interval[i]]
  /\ UNCHANGED <<life, timers, interval, row, leads, tunnel, orphan, starts, fails, urls>>

\* ... and, after the tunnel has been asked, writes it, anew when it was gone.  An
\* address that is there is kept; a missing one is asked for again.
Beaten(i) ==
  IF beat[i] = NoRow THEN Registered(i)
  ELSE [age |-> 0, url |-> IF beat[i].url = 0 THEN tunnel[i] ELSE beat[i].url]

HeartbeatWrite(i) ==
  /\ beat[i] # Idle
  /\ beat' = [beat EXCEPT ![i] = Idle]
  /\ \/ row' = [row EXCEPT ![i] = Beaten(i)] /\ UNCHANGED fails
     \/ fails < MaxFails /\ fails' = fails + 1 /\ UNCHANGED row
  /\ UNCHANGED <<life, timers, interval, due, leads, tunnel, orphan, starts, urls>>

\* Mutant: the slow heartbeat is as slow as the time-out.
NewIntervalTooLong == IF Cardinality({j \in Instances : Listed(j)}) > Many THEN 3 ELSE 1

\* startHeartbeatAdjustment: the first time after 30 seconds, then every five minutes,
\* the heartbeat slows down when there are many instances.  A change starts the
\* heartbeat again, also that of a coordinator which was stopped.  Both periods divide
\* five minutes, so that an adjustment falls on a heartbeat, which goes first.
NewInterval == IF Cardinality({j \in Instances : Listed(j)}) > Many THEN 2 ELSE 1

Adjust(i) ==
  /\ timers[i] \intersect {"first", "adjust"} # {}
  /\ "heartbeat" \in timers[i] => due[i] = interval[i] /\ beat[i] = Idle
  /\ LET new == NewInterval
     IN /\ interval' = [interval EXCEPT ![i] = new]
        /\ timers' = [timers EXCEPT ![i] = (@ \ {"first"}) \union {"adjust"}
                         \union IF new # interval[i] THEN {"heartbeat"} ELSE {}]
        /\ due' = [due EXCEPT ![i] = IF new # interval[i] THEN new ELSE @]
        /\ timers' # timers \/ interval' # interval
  /\ UNCHANGED <<life, beat, row, leads, tunnel, orphan, starts, fails, urls>>

\* watchInstances: the smallest id of the listed instances leads, and deletes the rows
\* older than twice the time-out (which have expired long before).
Leads(i) == Listed(i) /\ \A j \in Instances : Listed(j) => i <= j

Watch(i) ==
  /\ "watch" \in timers[i]
  /\ leads' = [leads EXCEPT ![i] = Leads(i)]
  /\ row' = [j \in Instances |-> IF Leads(i) /\ row[j].age > 2 * Ttl THEN NoRow ELSE row[j]]
  /\ leads' # leads \/ row' # row
  /\ UNCHANGED <<life, timers, interval, due, beat, tunnel, orphan, starts, fails, urls>>

-----------------------------------------------------------------------------
\* CloudflareTunnel: the polling loop or the output of the process yields an address ...
TunnelUrl(i) ==
  /\ i \in Tunnelled /\ life[i] = "up" /\ urls < MaxUrls
  /\ urls' = urls + 1
  /\ tunnel' = [tunnel EXCEPT ![i] = urls + 1]
  /\ UNCHANGED <<life, timers, interval, due, beat, row, leads, orphan, starts, fails>>

\* ... or finds no address and the service down.
TunnelDown(i) ==
  /\ life[i] = "up" /\ tunnel[i] # 0
  /\ tunnel' = [tunnel EXCEPT ![i] = 0]
  /\ UNCHANGED <<life, timers, interval, due, beat, row, leads, orphan, starts, fails, urls>>

\* Thirty seconds pass.  Heartbeats are quicker than that, and timers are punctual; a
\* row as old as the time-out is no longer found.
Tick ==
  /\ \A i \in Instances : beat[i] = Idle /\ ("heartbeat" \in timers[i] => due[i] > 0)
  /\ row' = [i \in Instances |->
               IF row[i].age + 1 < Ttl THEN [row[i] EXCEPT !.age = @ + 1] ELSE NoRow]
  /\ due' = [i \in Instances |-> IF "heartbeat" \in timers[i] THEN due[i] - 1 ELSE due[i]]
  /\ UNCHANGED <<life, timers, interval, beat, leads, tunnel, orphan, starts, fails, urls>>

RegistryNext ==
  \/ Tick
  \/ \E i \in Instances :
       Start(i) \/ Stop(i) \/ Die(i) \/ HeartbeatRead(i) \/ HeartbeatWrite(i)
       \/ Adjust(i) \/ Watch(i) \/ TunnelUrl(i) \/ TunnelDown(i)

\* Timers fire and calls of the cache return; time passes only when no heartbeat is due.
Beats == Tick \/ \E i \in Instances : HeartbeatRead(i) \/ HeartbeatWrite(i)

RegistryFairness ==
  WF_registryVars(Beats) /\ \A i \in Instances : WF_registryVars(Watch(i))

RegistrySpec == RegistryInit /\ [][RegistryNext]_registryVars /\ RegistryFairness

-----------------------------------------------------------------------------
\* Properties

\* Every variable has its type.
RegistryTypeOK ==
  LET Rows == [age : 0..(Ttl + 1), url : 0..MaxUrls]
  IN /\ life \in [Instances -> {"off", "up"}]
     /\ timers \in [Instances -> SUBSET {"heartbeat", "first", "adjust", "watch"}]
     /\ interval \in [Instances -> 1..2] /\ due \in [Instances -> 0..2]
     /\ beat \in [Instances -> Rows] /\ row \in [Instances -> Rows]
     /\ leads \in [Instances -> BOOLEAN] /\ tunnel \in [Instances -> 0..MaxUrls]
     /\ orphan \in [Instances -> BOOLEAN]
     /\ starts \in 0..MaxStarts /\ fails \in 0..MaxFails /\ urls \in 0..MaxUrls

\* As long as the cache takes every write, a running instance is in the list at every
\* moment, also when the number of instances has changed its heartbeat.
RunningIsListed ==
  \A i \in Instances : life[i] = "up" /\ fails = 0 => Listed(i)

\* An instance that has stopped or died leaves the list, although a heartbeat may have
\* been under way and its deletion may have failed; unless the timer of its first
\* adjustment was still to fire.
GoneIsForgotten ==
  \A i \in Instances :
    (life[i] = "off" /\ ~orphan[i]) ~> (~Listed(i) \/ life[i] = "up")

\* When starts, stops and errors have ceased, the running instances agree on one leader
\* and only that one believes it leads.
OneLeaderAtLast ==
  <>[](\A i \in Instances :
         life[i] = "up" /\ (\A j \in Instances : ~orphan[j])
           => (leads[i] <=> \A j \in Instances : life[j] = "up" => i <= j))

\* An instance whose tunnel keeps an address is in the list with an address.
AddressIsListed ==
  <>[](\A i \in Instances : life[i] = "up" /\ tunnel[i] # 0 => Listed(i) /\ row[i].url # 0)

\* The list shows the instances that run, and in the end only those, with one leader.
RegistryHolds ==
  [](RegistryTypeOK /\ RunningIsListed) /\ GoneIsForgotten /\ OneLeaderAtLast /\ AddressIsListed

=============================================================================
