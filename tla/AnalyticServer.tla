--------------------------- MODULE AnalyticServer ---------------------------
(***************************************************************************)
(* The Analytic Server (AnalyticStarter): one thread that serves start,    *)
(* stop and kill-all requests, each to its end.  It keeps a stack of free  *)
(* ports and a map from analytic instance to AnalyticProcess object; the   *)
(* operating system keeps the AnalyticRunner processes, which may end at   *)
(* any time by themselves.                                                 *)
(*                                                                         *)
(* A runner is numbered by its start.  Its record joins the AnalyticProcess*)
(* object (instance, ports, deleted), the process (running) and the reply  *)
(* to the start (done); they part when the map loses the object, or keeps  *)
(* it after its delete.                                                    *)
(* Using a deleted object is undefined: the server aborts, acts on what is *)
(* left of the object, or acts on a younger object in the same memory.     *)
(***************************************************************************)
EXTENDS Integers, Sequences, FiniteSets

CONSTANTS
  Ids,           \* analytic instance ids
  NO_ANALYTICS,  \* number_of_analytics of the config
  STARTING_PORT,
  MaxStarts      \* bound: runners ever started

ASSUME ServerAssumption ==
  /\ IsFiniteSet(Ids)
  /\ NO_ANALYTICS \in Nat /\ STARTING_PORT \in Nat /\ MaxStarts \in Nat

VARIABLES
  up,         \* the Analytic Server is running
  ports,      \* _vPorts, taken and returned at its end
  processes,  \* _mAnalyticProcesses: the runner of each instance, 0 for none
  runners,
  lost,       \* pairs of ports neither free nor in a reachable object
  misused     \* a deleted object was used and the server survived it

vars == <<up, ports, processes, runners, lost, misused>>

Ports == STARTING_PORT + 1 .. STARTING_PORT + 2 * NO_ANALYTICS

\* fillIOPorts
AllPorts == [i \in 1 .. 2 * NO_ANALYTICS |-> STARTING_PORT + i]

Runner == [id : Ids, in : Ports, out : Ports,
           done : BOOLEAN, running : BOOLEAN, deleted : BOOLEAN]

TypeOK ==
  /\ up \in BOOLEAN /\ misused \in BOOLEAN
  /\ ports \in Seq(Ports)
  /\ runners \in Seq(Runner) /\ Len(runners) <= MaxStarts
  /\ processes \in [Ids -> 0 .. Len(runners)]
  /\ lost \in Nat

Init ==
  /\ up = TRUE /\ misused = FALSE
  /\ ports = AllPorts
  /\ processes = [id \in Ids |-> 0]
  /\ runners = <<>>
  /\ lost = 0

Mapped == {processes[id] : id \in Ids} \ {0}
Live == {i \in Mapped : ~ runners[i].deleted}
Dangling == {id \in Ids : processes[id] # 0 /\ runners[processes[id]].deleted}

(***************************************************************************)
(* startAnalytic                                                           *)
(***************************************************************************)

In == ports[Len(ports)]
Out == ports[Len(ports) - 1]
OtherPorts == SubSeq(ports, 1, Len(ports) - 2)

CanStart == up /\ ports # <<>> /\ Len(runners) < MaxStarts

NewRunner(id, done) ==
  [id |-> id, in |-> In, out |-> Out, done |-> done, running |-> TRUE, deleted |-> FALSE]

\* An instance that is in the map already is overwritten: its object is not
\* reachable any more, and its process is not stopped.
StartAnalytic(id) ==
  /\ CanStart
  /\ runners' = Append(runners, NewRunner(id, TRUE))
  /\ processes' = [processes EXCEPT ![id] = Len(runners) + 1]
  /\ ports' = OtherPorts
  /\ lost' = lost + (IF processes[id] \in Live THEN 1 ELSE 0)
  /\ UNCHANGED <<up, misused>>

\* Mutant: the ports are not reclaimed.
StartFailsKeepsPorts ==
  /\ CanStart
  /\ ports' = OtherPorts
  /\ UNCHANGED <<up, processes, runners, lost, misused>>

\* The process gave no PID: the ports are pushed back, input first.
StartFails ==
  /\ CanStart
  /\ ports' = OtherPorts \o <<In, Out>>
  /\ UNCHANGED <<up, processes, runners, lost, misused>>

\* popen failed, or the first line is no PID message and the process runs on:
\* nobody pushes the ports back.
StartThrows(id) ==
  /\ CanStart
  /\ \/ UNCHANGED runners
     \/ runners' = Append(runners, NewRunner(id, FALSE))
  /\ ports' = OtherPorts
  /\ lost' = lost + 1
  /\ UNCHANGED <<up, processes, misused>>

\* The runner returns (no port to bind, no plugin, init fails) or crashes.
RunnerExits(i) ==
  /\ i \in DOMAIN runners
  /\ runners[i].running
  /\ runners' = [runners EXCEPT ![i].running = FALSE]
  /\ UNCHANGED <<up, ports, processes, lost, misused>>

(***************************************************************************)
(* stopAnalytic.  Whatever stop() returns, the process has ended when      *)
(* pclose returns.                                                         *)
(***************************************************************************)

Stopped(r) ==
  [id |-> r.id, in |-> r.in, out |-> r.out, done |-> r.done,
   running |-> FALSE, deleted |-> TRUE]

StopRunners(set) ==
  runners' = [i \in DOMAIN runners |-> IF i \in set THEN Stopped(runners[i]) ELSE runners[i]]

\* Mutant: the input port is pushed back twice.
StopAnalyticInputTwice(id) ==
  /\ up
  /\ processes[id] \in Live
  /\ StopRunners({processes[id]})
  /\ ports' = ports \o <<runners[processes[id]].in, runners[processes[id]].in>>
  /\ processes' = [processes EXCEPT ![id] = 0]
  /\ UNCHANGED <<up, lost, misused>>

\* Mutant: the process is not signalled.
StopAnalyticNoKill(id) ==
  /\ up
  /\ processes[id] \in Live
  /\ runners' = [runners EXCEPT ![processes[id]].deleted = TRUE]
  /\ ports' = ports \o <<runners[processes[id]].in, runners[processes[id]].out>>
  /\ processes' = [processes EXCEPT ![id] = 0]
  /\ UNCHANGED <<up, lost, misused>>

StopAnalytic(id) ==
  /\ up
  /\ processes[id] \in Live
  /\ StopRunners({processes[id]})
  /\ ports' = ports \o <<runners[processes[id]].in, runners[processes[id]].out>>
  /\ processes' = [processes EXCEPT ![id] = 0]
  /\ UNCHANGED <<up, lost, misused>>

StopOfDeletedAborts(id) ==
  /\ up
  /\ id \in Dangling
  /\ up' = FALSE
  /\ UNCHANGED <<ports, processes, runners, lost, misused>>

\* i is the object found in the memory: the deleted one, or a younger one.
StopOfDeletedGoesOn(id) ==
  /\ up
  /\ id \in Dangling
  /\ \E i \in DOMAIN runners :
       /\ i = processes[id] \/ (i > processes[id] /\ ~ runners[i].deleted)
       /\ IF runners[i].deleted THEN UNCHANGED runners ELSE StopRunners({i})
       /\ ports' = ports \o <<runners[i].in, runners[i].out>>
  /\ processes' = [processes EXCEPT ![id] = 0]
  /\ misused' = TRUE
  /\ UNCHANGED <<up, lost>>

(***************************************************************************)
(* killAllAnalytics: it empties a COPY of the map, so the map keeps a      *)
(* pointer to every object it deletes.                                     *)
(***************************************************************************)

KillAllAnalytics ==
  /\ up
  /\ StopRunners(Live)
  /\ ports' = AllPorts
  /\ lost' = 0
  /\ misused' = (misused \/ Dangling # {})
  /\ UNCHANGED <<up, processes>>

\* A pointer left by an earlier kill-all aborts it when some are killed.
KillAllAborts ==
  /\ up
  /\ Dangling # {}
  /\ up' = FALSE
  /\ \E killed \in SUBSET Live : StopRunners(killed)
  /\ UNCHANGED <<ports, processes, lost, misused>>

Next ==
  \/ \E id \in Ids :
       \/ StartAnalytic(id)
       \/ StartThrows(id)
       \/ StopAnalytic(id)
       \/ StopOfDeletedAborts(id)
       \/ StopOfDeletedGoesOn(id)
  \/ StartFails
  \/ \E i \in DOMAIN runners : RunnerExits(i)
  \/ KillAllAnalytics
  \/ KillAllAborts

Spec == Init /\ [][Next]_vars

-----------------------------------------------------------------------------
PortsOf(i) == {runners[i].in, runners[i].out}
Free == {ports[k] : k \in DOMAIN ports}

(***************************************************************************)
(* No port is in two hands: not twice in the stack, not in the stack and   *)
(* with an instance, not with two instances, until a deleted object is     *)
(* used.  Start, failed start, stop, kill-all and restart of a known id    *)
(* all move ports.                                                         *)
(***************************************************************************)
PortsHandedOutOnce ==
  ~ misused =>
    /\ \A j, k \in DOMAIN ports : ports[j] = ports[k] => j = k
    /\ \A i \in Live : PortsOf(i) \cap Free = {} /\ runners[i].in # runners[i].out
    /\ \A i, j \in Live : i # j => PortsOf(i) \cap PortsOf(j) = {}

(***************************************************************************)
(* The capacity is accounted for: free pairs, instances in the map and     *)
(* pairs lost (by a restart of a known id or by a start that threw) make   *)
(* NO_ANALYTICS.  So "maximum number of analytic instances" is reached     *)
(* early by exactly the number of lost pairs, and the stack never has half *)
(* a pair, which the second back() of startAnalytic relies on.             *)
(***************************************************************************)
CapacityAccounted ==
  up /\ ~ misused => Len(ports) + 2 * Cardinality(Live) + 2 * lost = 2 * NO_ANALYTICS

\* A later start of the same id went well.
Overwritten(i) ==
  \E j \in DOMAIN runners : j > i /\ runners[j].done /\ runners[j].id = runners[i].id

(***************************************************************************)
(* A running process can be stopped through its instance's id, unless its  *)
(* start was refused to the client or the same id was started again after. *)
(***************************************************************************)
RunningIsReachable ==
  \A i \in DOMAIN runners :
    runners[i].running /\ runners[i].done /\ ~ misused =>
      processes[runners[i].id] = i \/ Overwritten(i)

(***************************************************************************)
(* What killAllAnalytics says of itself: a killed analytic is removed from *)
(* the model.                                                              *)
(***************************************************************************)
KilledAreRemoved == Dangling = {}
=============================================================================
