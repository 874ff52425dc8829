------------------------- MODULE AnalyticLinkProofs -------------------------
(***************************************************************************)
(* Proofs about AnalyticServer and AnalyticLink, for any number of ids,    *)
(* ports, starts and crashes.                                              *)
(*                                                                         *)
(* What is inductive about the ports needs two facts that hold even after  *)
(* a deleted object was used: ports move in pairs, so a start that finds   *)
(* the stack not empty finds two ports; and no two instances share an      *)
(* object, so one stop takes one object out of the map.                    *)
(*                                                                         *)
(* A client only makes the Analytic Server take steps it takes in          *)
(* AnalyticServer, so that all that is proved there holds with a client;   *)
(* and what the client keeps agrees with what the Analytic Server has.     *)
(***************************************************************************)
EXTENDS AnalyticLink, FiniteSetTheorems, SequenceTheorems, TLAPS

InPairs == Len(ports) % 2 = 0

OwnObject ==
  \A a, b \in Ids : processes[a] = processes[b] /\ processes[a] # 0 => a = b

MapInv == TypeOK /\ InPairs /\ OwnObject

\* The three parts of PortsHandedOutOnce.
StackOnce == \A j, k \in DOMAIN ports : ports[j] = ports[k] => j = k
LiveOnce == \A i \in Live : PortsOf(i) \cap Free = {} /\ runners[i].in # runners[i].out
LiveApart == \A i, j \in Live : i # j => PortsOf(i) \cap PortsOf(j) = {}

PortsInv == ~ misused => StackOnce /\ LiveOnce /\ LiveApart

-----------------------------------------------------------------------------
\* Objects in the map are runners, and finitely many.
LEMMA LiveFinite ==
  ASSUME TypeOK
  PROVE  /\ Mapped \subseteq DOMAIN runners
         /\ Live \subseteq DOMAIN runners
         /\ IsFiniteSet(Live) /\ Cardinality(Live) \in Nat
<1>1. DOMAIN runners = 1 .. Len(runners) /\ Len(runners) \in Nat
  BY DEF TypeOK
<1>2. Mapped \subseteq DOMAIN runners
  BY <1>1 DEF Mapped, TypeOK
<1>3. Live \subseteq DOMAIN runners
  BY <1>2 DEF Live
<1>4. IsFiniteSet(DOMAIN runners)
  BY <1>1, FS_Interval
<1>5. QED
  BY <1>2, <1>3, <1>4, FS_Subset, FS_CardinalityType

\* fillIOPorts gives every port once.
LEMMA FullStack ==
  /\ AllPorts \in Seq(Ports)
  /\ Len(AllPorts) = 2 * NO_ANALYTICS
  /\ \A j, k \in DOMAIN AllPorts : AllPorts[j] = AllPorts[k] => j = k
<1>1. NO_ANALYTICS \in Nat /\ STARTING_PORT \in Nat
  BY ServerAssumption
<1>2. \A i \in 1 .. 2 * NO_ANALYTICS : STARTING_PORT + i \in Ports
  BY <1>1 DEF Ports
<1>3. AllPorts \in [1 .. 2 * NO_ANALYTICS -> Ports]
  BY <1>2 DEF AllPorts
<1>4. AllPorts \in Seq(Ports) /\ Len(AllPorts) = 2 * NO_ANALYTICS
  BY <1>1, <1>3
<1>5. \A j, k \in DOMAIN AllPorts : AllPorts[j] = AllPorts[k] => j = k
  BY <1>1 DEF AllPorts
<1>6. QED
  BY <1>4, <1>5

\* A start finds two ports, and leaves the rest of the stack as it is.
LEMMA TopOfStack ==
  ASSUME TypeOK, InPairs, ports # <<>>
  PROVE  /\ Len(ports) \in Nat /\ Len(ports) >= 2
         /\ In \in Ports /\ Out \in Ports
         /\ OtherPorts \in Seq(Ports)
         /\ Len(OtherPorts) = Len(ports) - 2
         /\ \A k \in 1 .. Len(ports) - 2 : OtherPorts[k] = ports[k]
<1>1. Len(ports) \in Nat /\ Len(ports) # 0
  BY DEF TypeOK
<1>2. Len(ports) >= 2
  BY <1>1 DEF InPairs
<1>3. \A k \in 1 .. Len(ports) : ports[k] \in Ports
  BY DEF TypeOK
<1>4. In \in Ports /\ Out \in Ports
  BY <1>1, <1>2, <1>3 DEF In, Out
<1>5. /\ OtherPorts \in Seq(Ports)
      /\ Len(OtherPorts) = Len(ports) - 2
      /\ \A k \in 1 .. Len(ports) - 2 : OtherPorts[k] = ports[k]
  <2> DEFINE n == Len(ports) - 2
  <2>1. n \in Int /\ 1 \in Int /\ \A i \in 1 .. n : ports[i] \in Ports
    BY <1>1, <1>2, <1>3
  <2>2. /\ SubSeq(ports, 1, n) \in Seq(Ports)
        /\ Len(SubSeq(ports, 1, n)) = IF 1 <= n THEN n - 1 + 1 ELSE 0
        /\ \A i \in 1 .. n - 1 + 1 : SubSeq(ports, 1, n)[i] = ports[1 + i - 1]
    <3> HIDE DEF n
    <3>1. QED
      BY <2>1, SubSeqProperties
  <2>3. n \in Nat
    BY <1>1, <1>2
  <2>4. Len(SubSeq(ports, 1, n)) = n
    <3> HIDE DEF n
    <3>1. QED
      BY <2>2, <2>3
  <2>5. \A k \in 1 .. n : SubSeq(ports, 1, n)[k] = ports[k]
    <3> HIDE DEF n
    <3>1. \A k \in 1 .. n : k \in 1 .. n - 1 + 1 /\ 1 + k - 1 = k
      BY <2>3
    <3>2. QED
      BY <2>2, <3>1
  <2>6. QED
    BY <2>2, <2>4, <2>5 DEF OtherPorts
<1>6. QED
  BY <1>1, <1>2, <1>4, <1>5

\* Two ports pushed on a stack that has each port once, and neither of these.
LEMMA PushPair ==
  ASSUME NEW stack \in Seq(Ports), NEW a \in Ports, NEW b \in Ports
  PROVE  LET new == stack \o <<a, b>> IN
         /\ new \in Seq(Ports)
         /\ Len(new) = Len(stack) + 2
         /\ \A k \in 1 .. Len(stack) : new[k] = stack[k]
         /\ new[Len(stack) + 1] = a /\ new[Len(stack) + 2] = b
OBVIOUS

\* Stopping runners deletes them and changes nothing else of the map's objects.
LEMMA StopKeeps ==
  ASSUME TypeOK, NEW set, StopRunners(set)
  PROVE  /\ runners' \in Seq(Runner) /\ Len(runners') = Len(runners)
         /\ \A i \in DOMAIN runners :
              /\ runners'[i].in = runners[i].in /\ runners'[i].out = runners[i].out
              /\ runners'[i].id = runners[i].id
              /\ runners'[i].deleted <=> runners[i].deleted \/ i \in set
<1>1. DOMAIN runners = 1 .. Len(runners) /\ Len(runners) \in Nat
  BY DEF TypeOK
<1>2. \A i \in DOMAIN runners : runners[i] \in Runner
  BY <1>1 DEF TypeOK
<1>3. \A r \in Runner : Stopped(r) \in Runner
  BY DEF Runner, Stopped
<1>4. runners' = [i \in 1 .. Len(runners) |->
                    IF i \in set THEN Stopped(runners[i]) ELSE runners[i]]
  BY <1>1 DEF StopRunners
<1>5. runners' \in [1 .. Len(runners) -> Runner]
  BY <1>1, <1>2, <1>3, <1>4
<1>6. runners' \in Seq(Runner) /\ Len(runners') = Len(runners)
  BY <1>1, <1>5
<1>7. ASSUME NEW i \in DOMAIN runners
      PROVE  /\ runners'[i].in = runners[i].in /\ runners'[i].out = runners[i].out
             /\ runners'[i].id = runners[i].id
             /\ runners'[i].deleted <=> runners[i].deleted \/ i \in set
  <2>1. CASE i \in set
    <3>1. runners'[i] = Stopped(runners[i])
      BY <1>1, <1>4, <2>1
    <3>2. QED
      BY <2>1, <3>1 DEF Stopped
  <2>2. CASE i \notin set
    <3>1. runners'[i] = runners[i]
      BY <1>1, <1>4, <2>2
    <3>2. QED
      BY <2>2, <3>1
  <2>3. QED
    BY <2>1, <2>2
<1>8. QED
  BY <1>6, <1>7

\* A runner that starts is the last one; the others stay as they are.
LEMMA AppendRunner ==
  ASSUME NEW list \in Seq(Runner), NEW r \in Runner
  PROVE  /\ Append(list, r) \in Seq(Runner) /\ Len(Append(list, r)) = Len(list) + 1
         /\ \A i \in DOMAIN list : Append(list, r)[i] = list[i]
         /\ Append(list, r)[Len(list) + 1] = r
<1> HIDE DEF Runner
<1>1. QED
  BY AppendProperties

\* The end of a process changes one flag of one runner.
LEMMA ExitKeeps ==
  ASSUME TypeOK, NEW i \in DOMAIN runners, RunnerExits(i)
  PROVE  /\ runners' \in Seq(Runner) /\ Len(runners') = Len(runners)
         /\ \A j \in DOMAIN runners :
              /\ runners'[j].in = runners[j].in /\ runners'[j].out = runners[j].out
              /\ runners'[j].deleted = runners[j].deleted
<1>1. DOMAIN runners = 1 .. Len(runners) /\ Len(runners) \in Nat
  BY DEF TypeOK
<1>2. \A j \in DOMAIN runners : runners[j] \in Runner
  BY <1>1 DEF TypeOK
<1>3. \A r \in Runner :
        LET ended == [r EXCEPT !.running = FALSE] IN
        ended \in Runner /\ ended.in = r.in /\ ended.out = r.out /\ ended.deleted = r.deleted
  BY DEF Runner
<1>4. runners' = [runners EXCEPT ![i] = [runners[i] EXCEPT !.running = FALSE]]
  BY DEF RunnerExits
<1>5. runners' = [j \in 1 .. Len(runners) |->
                    IF j = i THEN [runners[i] EXCEPT !.running = FALSE] ELSE runners[j]]
  BY <1>1, <1>4
<1> HIDE DEF Runner
<1>6. runners' \in [1 .. Len(runners) -> Runner]
  BY <1>1, <1>2, <1>3, <1>5
<1>7. runners' \in Seq(Runner) /\ Len(runners') = Len(runners)
  BY <1>1, <1>6
<1>8. \A j \in DOMAIN runners :
        runners'[j] = IF j = i THEN [runners[i] EXCEPT !.running = FALSE] ELSE runners[j]
  BY <1>1, <1>5
<1>9. QED
  BY <1>2, <1>3, <1>7, <1>8

-----------------------------------------------------------------------------
\* An object that is not deleted leaves the map when its only instance does.
LEMMA LiveAfterStop ==
  ASSUME MapInv, NEW id \in Ids, processes[id] \in Live,
         StopRunners({processes[id]}), processes' = [processes EXCEPT ![id] = 0]
  PROVE  Live' = Live \ {processes[id]}
<1>1. \A i \in DOMAIN runners :
        runners'[i].deleted <=> runners[i].deleted \/ i = processes[id]
  BY StopKeeps DEF MapInv
<1>2. \A a \in Ids : processes'[a] = IF a = id THEN 0 ELSE processes[a]
  BY DEF MapInv, TypeOK
<1>3. processes[id] \in Mapped /\ Mapped \subseteq DOMAIN runners
  BY LiveFinite DEF Live, MapInv
<1>4. Mapped' = Mapped \ {processes[id]}
  BY <1>2, <1>3 DEF Mapped, MapInv, OwnObject
<1>5. QED
  BY <1>1, <1>3, <1>4 DEF Live

\* A start puts its object in the map, and the one the instance had out of it.
LEMMA LiveAfterStart ==
  ASSUME MapInv, NEW id \in Ids, StartAnalytic(id)
  PROVE  /\ runners' \in Seq(Runner) /\ Len(runners') = Len(runners) + 1
         /\ \A i \in DOMAIN runners : runners'[i] = runners[i]
         /\ runners'[Len(runners) + 1].in = In
         /\ runners'[Len(runners) + 1].out = Out
         /\ Live' = (Live \ {processes[id]}) \cup {Len(runners) + 1}
<1> DEFINE new == Len(runners) + 1
<1>1. In \in Ports /\ Out \in Ports
  BY TopOfStack DEF StartAnalytic, CanStart, MapInv
<1>2. NewRunner(id, TRUE) \in Runner /\ ~ NewRunner(id, TRUE).deleted
      /\ NewRunner(id, TRUE).in = In /\ NewRunner(id, TRUE).out = Out
  BY <1>1 DEF NewRunner, Runner
<1>3. /\ runners' \in Seq(Runner) /\ Len(runners') = new
      /\ \A i \in DOMAIN runners : runners'[i] = runners[i]
      /\ runners'[new] = NewRunner(id, TRUE)
  BY <1>2, AppendRunner DEF StartAnalytic, MapInv, TypeOK
<1>4. \A a \in Ids : processes'[a] = IF a = id THEN new ELSE processes[a]
  BY DEF StartAnalytic, MapInv, TypeOK
<1>5. Mapped \subseteq DOMAIN runners /\ new \notin DOMAIN runners /\ new # 0
  BY LiveFinite DEF MapInv, TypeOK
<1>6. Mapped' = (Mapped \ {processes[id]}) \cup {new}
  <2> HIDE DEF new
  <2>1. QED
    BY <1>4, <1>5 DEF Mapped, MapInv, OwnObject
<1>7. Live' = (Live \ {processes[id]}) \cup {new}
  <2> HIDE DEF new
  <2>1. QED
    BY <1>2, <1>3, <1>5, <1>6 DEF Live
<1>8. QED
  BY <1>2, <1>3, <1>7

\* A start that throws leaves the map and its objects alone.
LEMMA ThrownStartKeepsLive ==
  ASSUME MapInv, NEW id \in Ids, StartThrows(id)
  PROVE  Live' = Live /\ \A i \in DOMAIN runners : runners'[i] = runners[i]
<1>1. TypeOK /\ Mapped' = Mapped /\ Mapped \subseteq DOMAIN runners
  BY LiveFinite DEF MapInv, StartThrows, Mapped
<1>2. \A i \in DOMAIN runners : runners'[i] = runners[i]
  <2>1. In \in Ports /\ Out \in Ports
    BY TopOfStack DEF StartThrows, CanStart, MapInv
  <2>2. NewRunner(id, FALSE) \in Runner
    BY <2>1 DEF NewRunner, Runner
  <2>3. \A i \in DOMAIN runners : Append(runners, NewRunner(id, FALSE))[i] = runners[i]
    BY <1>1, <2>2, AppendRunner DEF TypeOK
  <2>4. QED
    BY <2>3 DEF StartThrows
<1>3. QED
  BY <1>1, <1>2 DEF Live

\* The server's map starts empty and its stack full.
LEMMA MapInit == Init => MapInv
<1> SUFFICES ASSUME Init PROVE MapInv
  OBVIOUS
<1>1. ports \in Seq(Ports) /\ Len(ports) = 2 * NO_ANALYTICS
  BY FullStack DEF Init
<1>2. InPairs
  BY <1>1, ServerAssumption DEF InPairs
<1>3. runners \in Seq(Runner) /\ Len(runners) = 0
  BY DEF Init
<1>4. processes = [id \in Ids |-> 0]
  BY DEF Init
<1>5. processes \in [Ids -> 0 .. Len(runners)] /\ OwnObject
  BY <1>3, <1>4 DEF OwnObject
<1>6. Len(runners) <= MaxStarts /\ lost \in Nat
  BY <1>3, ServerAssumption DEF Init
<1>7. up \in BOOLEAN /\ misused \in BOOLEAN
  BY DEF Init
<1>8. QED
  BY <1>1, <1>2, <1>3, <1>5, <1>6, <1>7 DEF MapInv, TypeOK

\* A start that ends well or throws takes two ports.
LEMMA StartKeepsMap ==
  ASSUME MapInv, NEW id \in Ids,
         StartAnalytic(id) \/ StartThrows(id)
  PROVE  MapInv'
<1> USE DEF MapInv
<1>1. CanStart
  BY DEF StartAnalytic, StartThrows
<1>2. /\ Len(ports) \in Nat /\ Len(ports) >= 2 /\ In \in Ports /\ Out \in Ports
      /\ OtherPorts \in Seq(Ports) /\ Len(OtherPorts) = Len(ports) - 2
  BY <1>1, TopOfStack DEF CanStart
<1>3. (Len(ports) - 2) % 2 = 0 /\ (Len(ports) - 2) + 2 = Len(ports)
  BY <1>2 DEF InPairs
<1>4. CASE StartAnalytic(id)
  <2>1. runners' \in Seq(Runner) /\ Len(runners') = Len(runners) + 1
    BY <1>4, LiveAfterStart
  <2>2. processes' \in [Ids -> 0 .. Len(runners')] /\ OwnObject'
    BY <1>4, <2>1 DEF StartAnalytic, TypeOK, OwnObject
  <2>3. Len(runners') <= MaxStarts
    BY <1>1, <2>1, ServerAssumption DEF CanStart, TypeOK
  <2>4. lost' \in Nat
    BY <1>4 DEF StartAnalytic, TypeOK
  <2>5. QED
    BY <1>2, <1>3, <1>4, <2>1, <2>2, <2>3, <2>4 DEF StartAnalytic, TypeOK, InPairs
<1>5. CASE StartThrows(id)
  <2>1. runners' \in Seq(Runner) /\ Len(runners') \in {Len(runners), Len(runners) + 1}
    <3>1. NewRunner(id, FALSE) \in Runner
      BY <1>2 DEF NewRunner, Runner
    <3>2. runners \in Seq(Runner)
      BY DEF TypeOK
    <3>3. runners' = runners \/ runners' = Append(runners, NewRunner(id, FALSE))
      BY <1>5 DEF StartThrows
    <3>4. QED
      BY <3>1, <3>2, <3>3, AppendRunner
  <2>2. processes' \in [Ids -> 0 .. Len(runners')] /\ OwnObject'
    BY <1>5, <2>1 DEF StartThrows, TypeOK, OwnObject
  <2>3. Len(runners') <= MaxStarts
    BY <1>1, <2>1, ServerAssumption DEF CanStart, TypeOK
  <2>4. ports' \in Seq(Ports) /\ InPairs'
    BY <1>2, <1>3, <1>5 DEF StartThrows, InPairs
  <2>5. up' \in BOOLEAN /\ misused' \in BOOLEAN /\ lost' \in Nat
    BY <1>5 DEF StartThrows, TypeOK
  <2>6. QED
    BY <2>1, <2>2, <2>3, <2>4, <2>5 DEF TypeOK
<1>6. QED
  BY <1>4, <1>5

\* A start that gets no PID gives the two ports back.
LEMMA StartFailsKeepsMap ==
  ASSUME MapInv, StartFails
  PROVE  MapInv'
<1> USE DEF MapInv
<1>1. /\ Len(ports) \in Nat /\ Len(ports) >= 2 /\ In \in Ports /\ Out \in Ports
      /\ OtherPorts \in Seq(Ports) /\ Len(OtherPorts) = Len(ports) - 2
  BY TopOfStack DEF StartFails, CanStart
<1>2. ports' \in Seq(Ports) /\ Len(ports') = Len(ports)
  BY <1>1, PushPair DEF StartFails
<1>3. QED
  BY <1>2 DEF StartFails, TypeOK, InPairs, OwnObject

\* A stop, also of a deleted object, pushes the two ports of one object.
LEMMA StopKeepsMap ==
  ASSUME MapInv, NEW id \in Ids,
         StopAnalytic(id) \/ StopOfDeletedAborts(id) \/ StopOfDeletedGoesOn(id)
  PROVE  MapInv'
<1> USE DEF MapInv
<1>1. CASE StopOfDeletedAborts(id)
  BY <1>1 DEF StopOfDeletedAborts, TypeOK, InPairs, OwnObject
<1>2. CASE StopAnalytic(id) \/ StopOfDeletedGoesOn(id)
  <2>1. PICK i \in DOMAIN runners :
          /\ StopRunners({i}) \/ UNCHANGED runners
          /\ ports' = ports \o <<runners[i].in, runners[i].out>>
    <3>1. CASE StopAnalytic(id)
      BY <3>1, LiveFinite DEF StopAnalytic
    <3>2. CASE StopOfDeletedGoesOn(id)
      BY <3>2 DEF StopOfDeletedGoesOn
    <3>3. QED
      BY <1>2, <3>1, <3>2
  <2>2. runners' \in Seq(Runner) /\ Len(runners') = Len(runners)
    BY <2>1, StopKeeps DEF TypeOK
  <2>3. runners[i].in \in Ports /\ runners[i].out \in Ports
    <3>1. runners[i] \in Runner
      BY DEF TypeOK
    <3>2. QED
      BY <3>1 DEF Runner
  <2>4. ports' \in Seq(Ports) /\ Len(ports') = Len(ports) + 2
    BY <2>1, <2>3, PushPair DEF TypeOK
  <2>5. InPairs'
    BY <2>4 DEF InPairs, TypeOK
  <2>6. processes' \in [Ids -> 0 .. Len(runners')] /\ OwnObject'
    <3>1. processes' = [processes EXCEPT ![id] = 0]
      BY <1>2 DEF StopAnalytic, StopOfDeletedGoesOn
    <3>2. processes \in [Ids -> 0 .. Len(runners)] /\ Len(runners) \in Nat
      BY DEF TypeOK
    <3>3. \A a \in Ids : processes'[a] = IF a = id THEN 0 ELSE processes[a]
      BY <3>1, <3>2
    <3>4. OwnObject'
      BY <3>3 DEF OwnObject
    <3>5. processes' \in [Ids -> 0 .. Len(runners)]
      BY <3>1, <3>2
    <3>6. QED
      BY <2>2, <3>4, <3>5
  <2>7. up' \in BOOLEAN /\ misused' \in BOOLEAN /\ lost' \in Nat
    BY <1>2 DEF StopAnalytic, StopOfDeletedGoesOn, TypeOK
  <2>8. QED
    BY <2>2, <2>4, <2>5, <2>6, <2>7 DEF TypeOK
<1>3. QED
  BY <1>1, <1>2

\* A kill-all refills the stack, and a runner's end is no business of the map's.
LEMMA OthersKeepMap ==
  ASSUME MapInv,
         \/ \E i \in DOMAIN runners : RunnerExits(i)
         \/ KillAllAnalytics \/ KillAllAborts \/ UNCHANGED vars
  PROVE  MapInv'
<1> USE DEF MapInv
<1>1. ASSUME NEW i \in DOMAIN runners, RunnerExits(i) PROVE MapInv'
  <2>1. runners' \in Seq(Runner) /\ Len(runners') = Len(runners)
    BY <1>1, ExitKeeps
  <2>2. QED
    BY <1>1, <2>1 DEF RunnerExits, TypeOK, InPairs, OwnObject
<1>2. CASE KillAllAnalytics
  <2>1. runners' \in Seq(Runner) /\ Len(runners') = Len(runners)
    BY <1>2, StopKeeps DEF KillAllAnalytics
  <2>2. ports' \in Seq(Ports) /\ InPairs'
    BY <1>2, FullStack, ServerAssumption DEF KillAllAnalytics, InPairs
  <2>3. QED
    BY <1>2, <2>1, <2>2 DEF KillAllAnalytics, TypeOK, OwnObject
<1>3. CASE KillAllAborts
  <2>1. runners' \in Seq(Runner) /\ Len(runners') = Len(runners)
    BY <1>3, StopKeeps DEF KillAllAborts
  <2>2. QED
    BY <1>3, <2>1 DEF KillAllAborts, TypeOK, InPairs, OwnObject
<1>4. CASE UNCHANGED vars
  BY <1>4 DEF vars, TypeOK, InPairs, OwnObject
<1>5. QED
  BY <1>1, <1>2, <1>3, <1>4

\* MapInv is inductive.
LEMMA MapInductive == MapInv /\ [Next]_vars => MapInv'
<1> SUFFICES ASSUME MapInv, [Next]_vars PROVE MapInv'
  OBVIOUS
<1>1. CASE \E id \in Ids : StartAnalytic(id) \/ StartThrows(id)
  BY <1>1, StartKeepsMap
<1>2. CASE \E id \in Ids :
             StopAnalytic(id) \/ StopOfDeletedAborts(id) \/ StopOfDeletedGoesOn(id)
  BY <1>2, StopKeepsMap
<1>3. CASE StartFails
  BY <1>3, StartFailsKeepsMap
<1>4. CASE \/ \E i \in DOMAIN runners : RunnerExits(i)
           \/ KillAllAnalytics \/ KillAllAborts \/ UNCHANGED vars
  BY <1>4, OthersKeepMap
<1>5. QED
  BY <1>1, <1>2, <1>3, <1>4 DEF Next

\* The map and the stack keep their shape, also after a misuse.
THEOREM MapHolds == Spec => []MapInv
BY MapInit, MapInductive, PTL DEF Spec

\* The variables keep their types.
THEOREM TypeCorrect == Spec => []TypeOK
<1>1. MapInv => TypeOK
  BY DEF MapInv
<1>2. QED
  BY <1>1, MapHolds, PTL
-----------------------------------------------------------------------------
\* What the ports invariant asks of the stack, as a set: what is on the next
\* stack was on this one or was just pushed.
LEMMA ShrinkKeepsPorts ==
  ASSUME TypeOK, PortsInv, ~ misused, StackOnce', Free' \subseteq Free, Live' \subseteq Live,
         \A i \in Live : runners'[i].in = runners[i].in /\ runners'[i].out = runners[i].out
  PROVE  PortsInv'
<1>1. StackOnce /\ LiveOnce /\ LiveApart
  BY DEF PortsInv
<1>2. \A i \in Live' : PortsOf(i)' = PortsOf(i)
  BY DEF PortsOf
<1>3. LiveOnce'
  BY <1>1, <1>2 DEF LiveOnce
<1>4. LiveApart'
  BY <1>1, <1>2 DEF LiveApart
<1>5. QED
  BY <1>3, <1>4 DEF PortsInv

\* The two ports a start takes differ, and are off the stack after it.
LEMMA TakenPorts ==
  ASSUME MapInv, StackOnce, ports # <<>>, ports' = OtherPorts
  PROVE  /\ In \in Free /\ Out \in Free /\ In # Out
         /\ StackOnce' /\ Free' \subseteq Free \ {In, Out}
<1>1. /\ Len(ports) \in Nat /\ Len(ports) >= 2
      /\ ports' \in Seq(Ports) /\ Len(ports') = Len(ports) - 2
      /\ \A k \in 1 .. Len(ports) - 2 : ports'[k] = ports[k]
  BY TopOfStack DEF MapInv
<1>2. DOMAIN ports = 1 .. Len(ports) /\ DOMAIN ports' = 1 .. Len(ports) - 2
  BY <1>1 DEF MapInv, TypeOK
<1>3. Len(ports) \in DOMAIN ports /\ Len(ports) - 1 \in DOMAIN ports
      /\ Len(ports) # Len(ports) - 1
  BY <1>1, <1>2
<1>4. In \in Free /\ Out \in Free /\ In # Out
  BY <1>3 DEF Free, In, Out, StackOnce
<1>5. \A k \in DOMAIN ports' :
        k \in DOMAIN ports /\ ports'[k] = ports[k] /\ k # Len(ports) /\ k # Len(ports) - 1
  BY <1>1, <1>2
<1>6. StackOnce'
  BY <1>5 DEF StackOnce
<1>7. Free' \subseteq Free \ {In, Out}
  BY <1>3, <1>5 DEF Free, In, Out, StackOnce
<1>8. QED
  BY <1>4, <1>6, <1>7

\* A start moves two ports from the stack to the new object.
LEMMA StartKeepsPorts ==
  ASSUME MapInv, PortsInv, NEW id \in Ids, StartAnalytic(id)
  PROVE  PortsInv'
<1> SUFFICES ASSUME ~ misused PROVE StackOnce' /\ LiveOnce' /\ LiveApart'
  BY DEF PortsInv, StartAnalytic
<1>0. PICK new : new = Len(runners) + 1
  OBVIOUS
<1>1. StackOnce /\ LiveOnce /\ LiveApart
  BY DEF PortsInv
<1>2. /\ In \in Free /\ Out \in Free /\ In # Out
      /\ StackOnce' /\ Free' \subseteq Free \ {In, Out}
  BY <1>1, TakenPorts DEF StartAnalytic, CanStart
<1>3. /\ \A i \in DOMAIN runners : runners'[i] = runners[i]
      /\ runners'[new].in = In /\ runners'[new].out = Out
      /\ Live' = (Live \ {processes[id]}) \cup {new}
  BY <1>0, LiveAfterStart
<1>4. Live \subseteq DOMAIN runners
  BY LiveFinite DEF MapInv
<1>5. \A i \in Live : PortsOf(i)' = PortsOf(i) /\ runners'[i] = runners[i]
  BY <1>3, <1>4 DEF PortsOf
<1>6. PortsOf(new)' = {In, Out} /\ runners'[new].in # runners'[new].out
  BY <1>2, <1>3 DEF PortsOf
<1>7. LiveOnce'
  <2> SUFFICES ASSUME NEW i \in Live'
               PROVE  PortsOf(i)' \cap Free' = {} /\ runners'[i].in # runners'[i].out
    BY DEF LiveOnce
  <2>1. CASE i \in Live
    BY <1>1, <1>2, <1>5, <2>1 DEF LiveOnce
  <2>2. CASE i = new
    BY <1>2, <1>6, <2>2
  <2>3. QED
    BY <1>3, <2>1, <2>2
<1>8. \A i \in Live : PortsOf(i) \cap {In, Out} = {}
  BY <1>1, <1>2 DEF LiveOnce
<1>9. LiveApart'
  <2> SUFFICES ASSUME NEW i \in Live', NEW j \in Live', i # j
               PROVE  PortsOf(i)' \cap PortsOf(j)' = {}
    BY DEF LiveApart
  <2>1. CASE i \in Live /\ j \in Live
    BY <1>1, <1>5, <2>1 DEF LiveApart
  <2>2. CASE i \in Live /\ j = new
    BY <1>5, <1>6, <1>8, <2>2
  <2>3. CASE i = new /\ j \in Live
    BY <1>5, <1>6, <1>8, <2>3
  <2>4. QED
    BY <1>3, <2>1, <2>2, <2>3
<1>10. QED
  BY <1>2, <1>7, <1>9

\* A start that throws drops two ports; one that gets no PID swaps them.
LEMMA NoStartKeepsPorts ==
  ASSUME MapInv, PortsInv, StartFails \/ \E id \in Ids : StartThrows(id)
  PROVE  PortsInv'
<1>0. misused' = misused
  BY DEF StartThrows, StartFails
<1> SUFFICES ASSUME ~ misused PROVE PortsInv'
  BY <1>0 DEF PortsInv
<1>1. StackOnce /\ TypeOK
  BY DEF PortsInv, MapInv
<1>2. CASE StartFails
  <2> DEFINE n == Len(ports)
  <2>1. /\ n \in Nat /\ n >= 2 /\ In \in Ports /\ Out \in Ports
        /\ OtherPorts \in Seq(Ports) /\ Len(OtherPorts) = n - 2
        /\ \A k \in 1 .. n - 2 : OtherPorts[k] = ports[k]
    BY <1>2, TopOfStack DEF StartFails, CanStart, MapInv
  <2>2. /\ ports' \in Seq(Ports) /\ Len(ports') = (n - 2) + 2
        /\ \A k \in 1 .. n - 2 : ports'[k] = OtherPorts[k]
        /\ ports'[(n - 2) + 1] = In /\ ports'[(n - 2) + 2] = Out
    <3>1. ports' = OtherPorts \o <<In, Out>>
      BY <1>2 DEF StartFails
    <3>2. /\ ports' \in Seq(Ports) /\ Len(ports') = Len(OtherPorts) + 2
          /\ \A k \in 1 .. Len(OtherPorts) : ports'[k] = OtherPorts[k]
          /\ ports'[Len(OtherPorts) + 1] = In /\ ports'[Len(OtherPorts) + 2] = Out
      BY <2>1, <3>1, PushPair
    <3> HIDE DEF n
    <3>3. QED
      BY <2>1, <3>2
  <2>3. (n - 2) + 2 = n /\ (n - 2) + 1 = n - 1
    BY <2>1
  <2>4. In = ports[n] /\ Out = ports[n - 1]
    BY DEF In, Out
  <2>5. DOMAIN ports = 1 .. n /\ DOMAIN ports' = 1 .. n
    BY <1>1, <2>2, <2>3 DEF TypeOK
  <2> HIDE DEF n
  <2> DEFINE was(k) == IF k = n THEN n - 1 ELSE IF k = n - 1 THEN n ELSE k
  <2>6. \A k \in 1 .. n : was(k) \in 1 .. n /\ ports'[k] = ports[was(k)]
    BY <2>1, <2>2, <2>3, <2>4
  <2>7. \A j, k \in 1 .. n : was(j) = was(k) => j = k
    BY <2>1
  <2> HIDE DEF was
  <2>8. StackOnce'
    BY <1>1, <2>5, <2>6, <2>7 DEF StackOnce
  <2>9. Free' \subseteq Free
    BY <2>5, <2>6 DEF Free
  <2>10. Live' = Live
    BY <1>2 DEF StartFails, Live, Mapped
  <2>11. QED
    BY <1>1, <1>2, <2>8, <2>9, <2>10, ShrinkKeepsPorts DEF StartFails
<1>3. ASSUME NEW id \in Ids, StartThrows(id) PROVE PortsInv'
  <2>1. StackOnce' /\ Free' \subseteq Free
    BY <1>1, <1>3, TakenPorts DEF StartThrows, CanStart
  <2>2. /\ Live' = Live /\ Live \subseteq DOMAIN runners
        /\ \A i \in DOMAIN runners : runners'[i] = runners[i]
    BY <1>1, <1>3, LiveFinite, ThrownStartKeepsLive
  <2>3. QED
    BY <1>1, <2>1, <2>2, ShrinkKeepsPorts
<1>4. QED
  BY <1>2, <1>3

\* A stop gives the stack the two ports of the object it deletes.
LEMMA StopKeepsPorts ==
  ASSUME MapInv, PortsInv, NEW id \in Ids, StopAnalytic(id)
  PROVE  PortsInv'
<1> SUFFICES ASSUME ~ misused PROVE StackOnce' /\ LiveOnce' /\ LiveApart'
  BY DEF PortsInv, StopAnalytic
<1> DEFINE p == processes[id]
           n == Len(ports)
<1>1. StackOnce /\ LiveOnce /\ LiveApart /\ TypeOK
  BY DEF PortsInv, MapInv
<1>2. p \in Live /\ Live \subseteq DOMAIN runners
  BY <1>1, LiveFinite DEF StopAnalytic
<1>3. Live' = Live \ {p}
  BY LiveAfterStop DEF StopAnalytic
<1>4. \A i \in DOMAIN runners :
        runners'[i].in = runners[i].in /\ runners'[i].out = runners[i].out
  BY <1>1, StopKeeps DEF StopAnalytic
<1>5. \A i \in Live' : PortsOf(i)' = PortsOf(i) /\ i \in Live
  BY <1>2, <1>3, <1>4 DEF PortsOf
<1>6. runners[p].in \in Ports /\ runners[p].out \in Ports
  <2>1. runners[p] \in Runner
    BY <1>1, <1>2 DEF TypeOK
  <2>2. QED
    BY <2>1 DEF Runner
<1>7. /\ n \in Nat /\ ports' \in Seq(Ports) /\ Len(ports') = n + 2
      /\ \A k \in 1 .. n : ports'[k] = ports[k]
      /\ ports'[n + 1] = runners[p].in /\ ports'[n + 2] = runners[p].out
  BY <1>1, <1>6, PushPair DEF StopAnalytic, TypeOK
<1>8. DOMAIN ports = 1 .. n /\ DOMAIN ports' = 1 .. n + 2
  BY <1>1, <1>7 DEF TypeOK
<1> HIDE DEF p, n
<1>9. \A k \in 1 .. n + 2 : k \in 1 .. n \/ k = n + 1 \/ k = n + 2
  BY <1>7
<1>10. \A k \in 1 .. n : ports[k] \in Free
  BY <1>8 DEF Free
<1>11. /\ \A k \in 1 .. n : ports[k] # runners[p].in /\ ports[k] # runners[p].out
       /\ runners[p].in # runners[p].out
  BY <1>1, <1>2, <1>10 DEF LiveOnce, PortsOf
<1>12. \A j, k \in 1 .. n : ports[j] = ports[k] => j = k
  BY <1>1, <1>8 DEF StackOnce
<1>13. StackOnce'
  BY <1>7, <1>8, <1>9, <1>11, <1>12 DEF StackOnce
<1>14. Free' \subseteq Free \cup PortsOf(p)
  BY <1>7, <1>8, <1>9, <1>10 DEF Free, PortsOf
<1>15. LiveOnce'
  <2> SUFFICES ASSUME NEW i \in Live'
               PROVE  PortsOf(i)' \cap Free' = {} /\ runners'[i].in # runners'[i].out
    BY DEF LiveOnce
  <2>1. PortsOf(i) \cap PortsOf(p) = {}
    BY <1>1, <1>2, <1>3 DEF LiveApart
  <2>2. PortsOf(i) \cap Free = {} /\ runners[i].in # runners[i].out
    BY <1>1, <1>5 DEF LiveOnce
  <2>3. QED
    BY <1>2, <1>4, <1>5, <1>14, <2>1, <2>2
<1>16. LiveApart'
  BY <1>1, <1>5 DEF LiveApart
<1>17. QED
  BY <1>13, <1>15, <1>16

\* A deleted object's use ends the promise; a kill-all renews the stack; the
\* others move no port.
LEMMA OthersKeepPorts ==
  ASSUME MapInv, PortsInv,
         \/ \E id \in Ids : StopOfDeletedAborts(id) \/ StopOfDeletedGoesOn(id)
         \/ \E i \in DOMAIN runners : RunnerExits(i)
         \/ KillAllAnalytics \/ KillAllAborts \/ UNCHANGED vars
  PROVE  PortsInv'
<1>1. TypeOK /\ Live \subseteq DOMAIN runners /\ Mapped \subseteq DOMAIN runners
  BY LiveFinite DEF MapInv
<1>2. CASE \E id \in Ids : StopOfDeletedGoesOn(id)
  BY <1>2 DEF StopOfDeletedGoesOn, PortsInv
<1>3. CASE (\E id \in Ids : StopOfDeletedAborts(id)) \/ UNCHANGED vars
  BY <1>3 DEF StopOfDeletedAborts, vars, PortsInv, StackOnce, LiveOnce, LiveApart,
              Live, Mapped, PortsOf, Free
<1>4. CASE KillAllAnalytics
  <2>1. \A i \in DOMAIN runners : runners'[i].deleted <=> runners[i].deleted \/ i \in Live
    BY <1>1, <1>4, StopKeeps DEF KillAllAnalytics
  <2>2. Live' = {}
    BY <1>1, <1>4, <2>1 DEF KillAllAnalytics, Live, Mapped
  <2>3. StackOnce'
    BY <1>4, FullStack DEF KillAllAnalytics, StackOnce
  <2>4. QED
    BY <2>2, <2>3 DEF PortsInv, LiveOnce, LiveApart
<1>5. ASSUME NEW i \in DOMAIN runners, RunnerExits(i) PROVE PortsInv'
  <2>1. \A j \in DOMAIN runners :
          /\ runners'[j].in = runners[j].in /\ runners'[j].out = runners[j].out
          /\ runners'[j].deleted = runners[j].deleted
    BY <1>1, <1>5, ExitKeeps
  <2>2. Live' = Live
    BY <1>1, <1>5, <2>1 DEF RunnerExits, Live, Mapped
  <2>3. ports' = ports /\ misused' = misused
    BY <1>5 DEF RunnerExits
  <2>4. PortsInv => (misused \/ StackOnce')
    BY <2>3 DEF PortsInv, StackOnce
  <2>5. Free' \subseteq Free
    BY <2>3 DEF Free
  <2>6. CASE misused
    BY <2>3, <2>6 DEF PortsInv
  <2>7. QED
    BY <1>1, <2>1, <2>2, <2>4, <2>5, <2>6, ShrinkKeepsPorts
<1>6. CASE KillAllAborts
  <2>1. PICK killed \in SUBSET Live : StopRunners(killed)
    BY <1>6 DEF KillAllAborts
  <2>2. \A j \in DOMAIN runners :
          /\ runners'[j].in = runners[j].in /\ runners'[j].out = runners[j].out
          /\ runners[j].deleted => runners'[j].deleted
    BY <1>1, <2>1, StopKeeps
  <2>3. Live' \subseteq Live
    BY <1>1, <1>6, <2>2 DEF KillAllAborts, Live, Mapped
  <2>4. ports' = ports /\ misused' = misused
    BY <1>6 DEF KillAllAborts
  <2>5. PortsInv => (misused \/ StackOnce')
    BY <2>4 DEF PortsInv, StackOnce
  <2>6. Free' \subseteq Free
    BY <2>4 DEF Free
  <2>7. CASE misused
    BY <2>4, <2>7 DEF PortsInv
  <2>8. QED
    BY <1>1, <2>2, <2>3, <2>5, <2>6, <2>7, ShrinkKeepsPorts
<1>7. QED
  BY <1>2, <1>3, <1>4, <1>5, <1>6

\* PortsInv is inductive, given the shape of the map and of the stack.
LEMMA PortsInductive == MapInv /\ PortsInv /\ [Next]_vars => PortsInv'
<1> SUFFICES ASSUME MapInv, PortsInv, [Next]_vars PROVE PortsInv'
  OBVIOUS
<1>1. CASE \E id \in Ids : StartAnalytic(id)
  BY <1>1, StartKeepsPorts
<1>2. CASE StartFails \/ \E id \in Ids : StartThrows(id)
  BY <1>2, NoStartKeepsPorts
<1>3. CASE \E id \in Ids : StopAnalytic(id)
  BY <1>3, StopKeepsPorts
<1>4. CASE \/ \E id \in Ids : StopOfDeletedAborts(id) \/ StopOfDeletedGoesOn(id)
           \/ \E i \in DOMAIN runners : RunnerExits(i)
           \/ KillAllAnalytics \/ KillAllAborts \/ UNCHANGED vars
  BY <1>4, OthersKeepPorts
<1>5. QED
  BY <1>1, <1>2, <1>3, <1>4 DEF Next

\* No port is handed out twice while no deleted object was used.
THEOREM PortsAreHandedOutOnce == Spec => []PortsHandedOutOnce
<1>1. Init => PortsInv
  <2> SUFFICES ASSUME Init PROVE StackOnce /\ LiveOnce /\ LiveApart
    BY DEF PortsInv
  <2>1. StackOnce
    BY FullStack DEF Init, StackOnce
  <2>2. Live = {}
    BY DEF Init, Live, Mapped
  <2>3. QED
    BY <2>1, <2>2 DEF LiveOnce, LiveApart
<1>2. PortsInv => PortsHandedOutOnce
  BY DEF PortsInv, PortsHandedOutOnce, StackOnce, LiveOnce, LiveApart
<1>3. QED
  BY <1>1, <1>2, PortsInductive, MapHolds, PTL DEF Spec
-----------------------------------------------------------------------------
\* A start takes a pair of ports for one object more, or loses a pair with the
\* object it overwrites.
LEMMA StartKeepsCapacity ==
  ASSUME MapInv, CapacityAccounted, NEW id \in Ids, StartAnalytic(id)
  PROVE  CapacityAccounted'
<1> SUFFICES ASSUME ~ misused PROVE Len(ports') + 2 * Cardinality(Live') + 2 * lost'
                                      = 2 * NO_ANALYTICS
  BY DEF CapacityAccounted, StartAnalytic
<1>1. /\ Len(ports') = Len(ports) - 2 /\ Len(ports) \in Nat
  BY TopOfStack DEF StartAnalytic, CanStart, MapInv
<1>2. Len(ports) + 2 * Cardinality(Live) + 2 * lost = 2 * NO_ANALYTICS
  BY DEF CapacityAccounted, StartAnalytic, CanStart
<1>3. /\ lost \in Nat /\ NO_ANALYTICS \in Nat
      /\ IsFiniteSet(Live) /\ Cardinality(Live) \in Nat /\ Live \subseteq DOMAIN runners
  BY LiveFinite, ServerAssumption DEF MapInv, TypeOK
<1>4. PICK new : new = Len(runners) + 1
  OBVIOUS
<1>5. Live' = (Live \ {processes[id]}) \cup {new}
  BY <1>4, LiveAfterStart
<1>6. new \notin DOMAIN runners
  BY <1>4 DEF MapInv, TypeOK
<1>7. CASE processes[id] \in Live
  <2>1. IsFiniteSet(Live \ {processes[id]})
        /\ Cardinality(Live \ {processes[id]}) = Cardinality(Live) - 1
    BY <1>3, <1>7, FS_RemoveElement
  <2>2. new \notin Live \ {processes[id]}
    BY <1>3, <1>6
  <2>3. Cardinality(Live') = Cardinality(Live) - 1 + 1
    BY <1>5, <2>1, <2>2, FS_AddElement
  <2>4. lost' = lost + 1
    BY <1>7 DEF StartAnalytic
  <2>5. QED
    BY <1>1, <1>2, <1>3, <2>3, <2>4
<1>8. CASE processes[id] \notin Live
  <2>1. Live' = Live \cup {new} /\ new \notin Live
    BY <1>3, <1>5, <1>6, <1>8
  <2>2. Cardinality(Live') = Cardinality(Live) + 1
    BY <1>3, <2>1, FS_AddElement
  <2>3. lost' = lost
    BY <1>3, <1>8 DEF StartAnalytic
  <2>4. QED
    BY <1>1, <1>2, <1>3, <2>2, <2>3
<1>9. QED
  BY <1>7, <1>8

\* A start that throws loses a pair, one that gets no PID none.
LEMMA NoStartKeepsCapacity ==
  ASSUME MapInv, CapacityAccounted, StartFails \/ \E id \in Ids : StartThrows(id)
  PROVE  CapacityAccounted'
<1>1. /\ Len(ports) \in Nat /\ Len(ports) >= 2 /\ In \in Ports /\ Out \in Ports
      /\ OtherPorts \in Seq(Ports) /\ Len(OtherPorts) = Len(ports) - 2
  BY TopOfStack DEF StartFails, StartThrows, CanStart, MapInv
<1>2. /\ lost \in Nat /\ NO_ANALYTICS \in Nat /\ Cardinality(Live) \in Nat
      /\ Mapped \subseteq DOMAIN runners /\ Live \subseteq DOMAIN runners
  BY LiveFinite, ServerAssumption DEF MapInv, TypeOK
<1>3. CASE StartFails
  <2>1. Len(ports') = Len(ports)
    <3>1. ports' = OtherPorts \o <<In, Out>>
      BY <1>3 DEF StartFails
    <3>2. Len(ports') = Len(OtherPorts) + 2
      BY <1>1, <3>1, PushPair
    <3>3. QED
      BY <1>1, <3>2
  <2>2. Live' = Live
    BY <1>3 DEF StartFails, Live, Mapped
  <2>3. lost' = lost /\ (up' <=> up) /\ (misused' <=> misused)
    BY <1>3 DEF StartFails
  <2>4. QED
    BY <2>1, <2>2, <2>3 DEF CapacityAccounted
<1>4. ASSUME NEW id \in Ids, StartThrows(id) PROVE CapacityAccounted'
  <2>1. Len(ports') = Len(ports) - 2 /\ lost' = lost + 1
    BY <1>1, <1>4 DEF StartThrows
  <2>2. (up' <=> up) /\ (misused' <=> misused)
    BY <1>4 DEF StartThrows
  <2>3. Live' = Live
    BY <1>4, ThrownStartKeepsLive
  <2>4. Len(ports) + 2 * Cardinality(Live) + 2 * lost = 2 * NO_ANALYTICS
        => Len(ports') + 2 * Cardinality(Live') + 2 * lost' = 2 * NO_ANALYTICS
    BY <1>1, <1>2, <2>1, <2>3
  <2>5. QED
    BY <2>2, <2>4 DEF CapacityAccounted
<1>5. QED
  BY <1>3, <1>4

\* A stop gives back the pair of the object it takes out of the map.
LEMMA StopKeepsCapacity ==
  ASSUME MapInv, CapacityAccounted, NEW id \in Ids, StopAnalytic(id)
  PROVE  CapacityAccounted'
<1> SUFFICES ASSUME ~ misused PROVE Len(ports') + 2 * Cardinality(Live') + 2 * lost'
                                      = 2 * NO_ANALYTICS
  BY DEF CapacityAccounted, StopAnalytic
<1>1. Len(ports) + 2 * Cardinality(Live) + 2 * lost = 2 * NO_ANALYTICS
  BY DEF CapacityAccounted, StopAnalytic
<1>2. /\ lost \in Nat /\ NO_ANALYTICS \in Nat /\ Len(ports) \in Nat
      /\ IsFiniteSet(Live) /\ Cardinality(Live) \in Nat /\ Live \subseteq DOMAIN runners
  BY LiveFinite, ServerAssumption DEF MapInv, TypeOK
<1>3. processes[id] \in Live /\ Live' = Live \ {processes[id]}
  BY LiveAfterStop DEF StopAnalytic
<1>4. Cardinality(Live') = Cardinality(Live) - 1
  BY <1>2, <1>3, FS_RemoveElement
<1>5. Len(ports') = Len(ports) + 2
  <2>1. runners[processes[id]] \in Runner
    BY <1>2, <1>3 DEF MapInv, TypeOK
  <2>2. runners[processes[id]].in \in Ports /\ runners[processes[id]].out \in Ports
    BY <2>1 DEF Runner
  <2>3. QED
    BY <2>2, PushPair DEF StopAnalytic, MapInv, TypeOK
<1>6. lost' = lost
  BY DEF StopAnalytic
<1>7. QED
  BY <1>1, <1>2, <1>4, <1>5, <1>6

\* The use of a deleted object, or the server's abort, ends the promise; a
\* kill-all starts the count anew.
LEMMA OthersKeepCapacity ==
  ASSUME MapInv, CapacityAccounted,
         \/ \E id \in Ids : StopOfDeletedAborts(id) \/ StopOfDeletedGoesOn(id)
         \/ \E i \in DOMAIN runners : RunnerExits(i)
         \/ KillAllAnalytics \/ KillAllAborts \/ UNCHANGED vars
  PROVE  CapacityAccounted'
<1>1. TypeOK /\ Live \subseteq DOMAIN runners /\ Mapped \subseteq DOMAIN runners
  BY LiveFinite DEF MapInv
<1>2. CASE (\E id \in Ids : StopOfDeletedAborts(id) \/ StopOfDeletedGoesOn(id))
           \/ KillAllAborts
  BY <1>2 DEF StopOfDeletedGoesOn, StopOfDeletedAborts, KillAllAborts, CapacityAccounted
<1>3. CASE UNCHANGED vars
  BY <1>3 DEF vars, CapacityAccounted, Live, Mapped
<1>4. ASSUME NEW i \in DOMAIN runners, RunnerExits(i) PROVE CapacityAccounted'
  <2>1. \A j \in DOMAIN runners : runners'[j].deleted = runners[j].deleted
    BY <1>1, <1>4, ExitKeeps
  <2>2. Live' = Live
    BY <1>1, <1>4, <2>1 DEF RunnerExits, Live, Mapped
  <2>3. ports' = ports /\ lost' = lost /\ (up' <=> up) /\ (misused' <=> misused)
    BY <1>4 DEF RunnerExits
  <2>4. QED
    BY <2>2, <2>3 DEF CapacityAccounted
<1>5. CASE KillAllAnalytics
  <2>1. \A i \in DOMAIN runners : runners'[i].deleted <=> runners[i].deleted \/ i \in Live
    BY <1>1, <1>5, StopKeeps DEF KillAllAnalytics
  <2>2. Live' = {}
    BY <1>1, <1>5, <2>1 DEF KillAllAnalytics, Live, Mapped
  <2>3. Cardinality(Live') = 0
    BY <2>2, FS_EmptySet
  <2>4. Len(ports') = 2 * NO_ANALYTICS /\ lost' = 0 /\ NO_ANALYTICS \in Nat
    BY <1>5, FullStack, ServerAssumption DEF KillAllAnalytics
  <2>5. QED
    BY <2>3, <2>4 DEF CapacityAccounted
<1>6. QED
  BY <1>2, <1>3, <1>4, <1>5

\* CapacityAccounted is inductive, given the shape of the map and of the stack.
LEMMA CapacityInductive == MapInv /\ CapacityAccounted /\ [Next]_vars => CapacityAccounted'
<1> SUFFICES ASSUME MapInv, CapacityAccounted, [Next]_vars PROVE CapacityAccounted'
  OBVIOUS
<1>1. CASE \E id \in Ids : StartAnalytic(id)
  BY <1>1, StartKeepsCapacity
<1>2. CASE StartFails \/ \E id \in Ids : StartThrows(id)
  BY <1>2, NoStartKeepsCapacity
<1>3. CASE \E id \in Ids : StopAnalytic(id)
  BY <1>3, StopKeepsCapacity
<1>4. CASE \/ \E id \in Ids : StopOfDeletedAborts(id) \/ StopOfDeletedGoesOn(id)
           \/ \E i \in DOMAIN runners : RunnerExits(i)
           \/ KillAllAnalytics \/ KillAllAborts \/ UNCHANGED vars
  BY <1>4, OthersKeepCapacity
<1>5. QED
  BY <1>1, <1>2, <1>3, <1>4 DEF Next

\* Free pairs, instances in the map and lost pairs make the capacity.
THEOREM CapacityIsAccounted == Spec => []CapacityAccounted
<1>1. Init => CapacityAccounted
  <2> SUFFICES ASSUME Init PROVE CapacityAccounted
    OBVIOUS
  <2>1. Live = {}
    BY DEF Init, Live, Mapped
  <2>2. Cardinality(Live) = 0
    BY <2>1, FS_EmptySet
  <2>3. Len(ports) = 2 * NO_ANALYTICS /\ lost = 0 /\ NO_ANALYTICS \in Nat
    BY FullStack, ServerAssumption DEF Init
  <2>4. QED
    BY <2>2, <2>3 DEF CapacityAccounted
<1>2. QED
  BY <1>1, CapacityInductive, MapHolds, PTL DEF Spec

-----------------------------------------------------------------------------
\* Of the other fields of a runner, a stop and an exit change only running.
LEMMA StopEnds ==
  ASSUME TypeOK, NEW set, StopRunners(set), NEW i \in DOMAIN runners
  PROVE  /\ runners'[i].id = runners[i].id /\ runners'[i].done = runners[i].done
         /\ runners'[i].running => runners[i].running /\ i \notin set
<1>1. runners'[i] = IF i \in set THEN Stopped(runners[i]) ELSE runners[i]
  BY DEF StopRunners
<1>2. QED
  BY <1>1 DEF Stopped

LEMMA ExitEnds ==
  ASSUME TypeOK, NEW i \in DOMAIN runners, RunnerExits(i), NEW j \in DOMAIN runners
  PROVE  /\ runners'[j].id = runners[j].id /\ runners'[j].done = runners[j].done
         /\ runners'[j].running => runners[j].running
<1>1. runners[i] \in Runner
  BY DEF TypeOK
<1>2. runners'[j] = IF j = i THEN [runners[i] EXCEPT !.running = FALSE] ELSE runners[j]
  BY DEF RunnerExits
<1>3. QED
  BY <1>1, <1>2 DEF Runner

\* Steps that keep the map, and end runners at most, keep what is reachable.
LEMMA EndsKeepReachable ==
  ASSUME TypeOK, RunningIsReachable, ~ misused' => ~ misused,
         DOMAIN runners' = DOMAIN runners, UNCHANGED processes,
         \A i \in DOMAIN runners :
           /\ runners'[i].id = runners[i].id /\ runners'[i].done = runners[i].done
           /\ runners'[i].running => runners[i].running
  PROVE  RunningIsReachable'
BY DEF RunningIsReachable, Overwritten

LEMMA StartKeepsReachable ==
  ASSUME MapInv, RunningIsReachable, NEW id \in Ids, NEW done \in BOOLEAN,
         CanStart, runners' = Append(runners, NewRunner(id, done)),
         \/ done /\ processes' = [processes EXCEPT ![id] = Len(runners) + 1]
         \/ ~ done /\ UNCHANGED processes,
         UNCHANGED misused
  PROVE  RunningIsReachable'
<1> DEFINE new == Len(runners) + 1
<1>1. Len(runners) \in Nat /\ DOMAIN runners = 1 .. Len(runners)
  BY DEF MapInv, TypeOK
<1>2. In \in Ports /\ Out \in Ports
  BY TopOfStack DEF CanStart, MapInv
<1>3. NewRunner(id, done) \in Runner /\ NewRunner(id, done).id = id
      /\ NewRunner(id, done).done = done
  BY <1>2 DEF NewRunner, Runner
<1>4. /\ runners' \in Seq(Runner) /\ Len(runners') = new
      /\ \A i \in DOMAIN runners : runners'[i] = runners[i]
      /\ runners'[new] = NewRunner(id, done)
  BY <1>3, AppendRunner DEF MapInv, TypeOK
<1>5. DOMAIN runners' = 1 .. new
  BY <1>4
<1>6. SUFFICES ASSUME NEW i \in DOMAIN runners', ~ misused,
                      runners'[i].running, runners'[i].done
               PROVE  \/ processes'[runners'[i].id] = i
                      \/ \E j \in DOMAIN runners' :
                           j > i /\ runners'[j].done /\ runners'[j].id = runners'[i].id
  BY DEF RunningIsReachable, Overwritten
<1>7. CASE i = new
  <2>1. done /\ runners'[i].id = id
    BY <1>3, <1>4, <1>6, <1>7
  <2>2. processes'[id] = new
    BY <2>1 DEF MapInv, TypeOK
  <2>3. QED
    BY <1>7, <2>1, <2>2
<1>8. CASE i # new
  <2>1. i \in DOMAIN runners /\ i < new /\ runners'[i] = runners[i]
    BY <1>1, <1>4, <1>5, <1>6, <1>8
  <2>2. CASE done /\ runners[i].id = id
    <3>1. runners'[new].done
      <4>1. done
        BY <2>2
      <4>2. runners'[new] = NewRunner(id, done)
        BY <1>4
      <4>3. NewRunner(id, done).done
        BY <1>3, <4>1, Zenon
      <4>4. QED
        BY <4>2, <4>3, Zenon
    <3>2. new \in DOMAIN runners' /\ new > i /\ runners'[new].id = runners'[i].id
      <4>1. new \in DOMAIN runners' /\ new > i
        BY <1>1, <1>5, <2>1
      <4>2. runners'[new].id = id
        BY <1>3, <1>4, Zenon
      <4>3. runners'[i].id = id
        BY <2>1, <2>2, Zenon
      <4>4. QED
        BY <4>1, <4>2, <4>3
    <3>3. QED
      BY <3>1, <3>2
  <2>3. CASE ~ done \/ runners[i].id # id
    <3>1. processes'[runners[i].id] = processes[runners[i].id]
      <4>1. runners[i] \in Runner
        BY <2>1 DEF MapInv, TypeOK
      <4>2. runners[i].id \in Ids
        BY <4>1 DEF Runner
      <4>3. QED
        BY <2>3, <4>2 DEF MapInv, TypeOK
    <3>2. \/ processes[runners[i].id] = i
          \/ \E j \in DOMAIN runners :
               j > i /\ runners[j].done /\ runners[j].id = runners[i].id
      BY <1>6, <2>1 DEF RunningIsReachable, Overwritten
    <3>3. \A j \in DOMAIN runners : j \in DOMAIN runners' /\ runners'[j] = runners[j]
      BY <1>1, <1>4, <1>5
    <3>4. QED
      BY <2>1, <3>1, <3>2, <3>3
  <2>4. QED
    BY <2>2, <2>3
<1>9. QED
  BY <1>7, <1>8

LEMMA ReachableInductive ==
  MapInv /\ RunningIsReachable /\ [Next]_vars => RunningIsReachable'
<1> SUFFICES ASSUME MapInv, RunningIsReachable, [Next]_vars
             PROVE  RunningIsReachable'
  OBVIOUS
<1>0. TypeOK /\ Len(runners) \in Nat /\ DOMAIN runners = 1 .. Len(runners)
  BY DEF MapInv, TypeOK
<1>1. ASSUME NEW id \in Ids, StartAnalytic(id) PROVE RunningIsReachable'
  BY <1>1, StartKeepsReachable DEF StartAnalytic
<1>2. ASSUME NEW id \in Ids, StartThrows(id) PROVE RunningIsReachable'
  <2>1. CASE UNCHANGED runners
    BY <1>0, <1>2, <2>1 DEF StartThrows, RunningIsReachable, Overwritten
  <2>2. CASE runners' = Append(runners, NewRunner(id, FALSE))
    BY <1>2, <2>2, StartKeepsReachable DEF StartThrows
  <2>3. QED
    BY <1>2, <2>1, <2>2 DEF StartThrows
<1>3. ASSUME NEW id \in Ids, StopAnalytic(id) PROVE RunningIsReachable'
  <2>1. StopRunners({processes[id]}) /\ DOMAIN runners' = DOMAIN runners
    BY <1>3 DEF StopAnalytic, StopRunners
  <2>2. \A i \in DOMAIN runners :
          /\ runners'[i].id = runners[i].id /\ runners'[i].done = runners[i].done
          /\ runners'[i].running => runners[i].running /\ i # processes[id]
    BY <1>0, <2>1, StopEnds
  <2>3. \A i \in DOMAIN runners : runners[i].id \in Ids
    <3>1. \A i \in DOMAIN runners : runners[i] \in Runner
      BY <1>0 DEF TypeOK
    <3>2. QED
      BY <3>1 DEF Runner
  <2>4. \A a \in Ids : processes'[a] = IF a = id THEN 0 ELSE processes[a]
    BY <1>0, <1>3 DEF StopAnalytic, TypeOK
  <2>5. misused' = misused
    BY <1>3 DEF StopAnalytic
  <2>6. QED
    BY <2>1, <2>2, <2>3, <2>4, <2>5 DEF RunningIsReachable, Overwritten
<1>4. ASSUME NEW id \in Ids, StopOfDeletedAborts(id) PROVE RunningIsReachable'
  BY <1>4 DEF StopOfDeletedAborts, RunningIsReachable, Overwritten
<1>5. ASSUME NEW id \in Ids, StopOfDeletedGoesOn(id) PROVE RunningIsReachable'
  BY <1>5 DEF StopOfDeletedGoesOn, RunningIsReachable, Overwritten
<1>6. CASE StartFails
  BY <1>6 DEF StartFails, RunningIsReachable, Overwritten
<1>7. ASSUME NEW i \in DOMAIN runners, RunnerExits(i) PROVE RunningIsReachable'
  <2>1. DOMAIN runners' = DOMAIN runners /\ UNCHANGED <<processes, misused>>
    BY <1>7 DEF RunnerExits
  <2>2. QED
    BY <1>0, <1>7, <2>1, ExitEnds, EndsKeepReachable
<1>8. CASE KillAllAnalytics
  <2>1. StopRunners(Live) /\ DOMAIN runners' = DOMAIN runners /\ UNCHANGED processes
    BY <1>8 DEF KillAllAnalytics, StopRunners
  <2>2. ~ misused' => ~ misused
    BY <1>8 DEF KillAllAnalytics
  <2>3. QED
    BY <1>0, <2>1, <2>2, StopEnds, EndsKeepReachable
<1>9. CASE KillAllAborts
  <2>1. PICK killed \in SUBSET Live : StopRunners(killed)
    BY <1>9 DEF KillAllAborts
  <2>2. DOMAIN runners' = DOMAIN runners /\ UNCHANGED <<processes, misused>>
    BY <1>9, <2>1 DEF KillAllAborts, StopRunners
  <2>3. QED
    BY <1>0, <2>1, <2>2, StopEnds, EndsKeepReachable
<1>10. CASE UNCHANGED vars
  BY <1>10 DEF vars, RunningIsReachable, Overwritten
<1>11. QED
  BY <1>1, <1>2, <1>3, <1>4, <1>5, <1>6, <1>7, <1>8, <1>9, <1>10 DEF Next

\* A running process is reached through its instance's id, for any number of
\* ids and starts (RunningIsReachable).
THEOREM RunningCanBeStopped == Spec => []RunningIsReachable
<1>1. Init => RunningIsReachable
  BY DEF Init, RunningIsReachable
<1>2. QED
  BY <1>1, MapHolds, ReachableInductive, PTL DEF Spec

-----------------------------------------------------------------------------
(***************************************************************************)
(* The client.                                                             *)
(***************************************************************************)
Requests ==
  {AnalyticStartRequest(id) : id \in Ids}
    \cup {AnalyticStopRequest(id) : id \in Ids}
    \cup {KillAllAnalyticProcessesRequest}

\* What the client knows of itself and of its request.
ClientInv ==
  /\ stage \in {"ready", "sent", "replied"} /\ crashes \in Nat
  /\ stage # "ready" => request \in Requests
  /\ DOMAIN addresses = Ids
  /\ ~ alive => ~ manager /\ stage # "replied"
  /\ ~ alive /\ stage # "ready" => crashes > 0
  /\ alive /\ stage # "ready" => manager
  /\ ~ manager => addresses = NoAddresses

-----------------------------------------------------------------------------
\* Requests carry what the other side takes out of them.
LEMMA RequestForms ==
  ASSUME NEW m \in Requests
  PROVE  /\ m.operation \in {Start, Stop, KillAll}
         /\ m.operation # KillAll => m.analyticinstanceid \in Ids
         /\ ExtractsRequest(m)
<1>1. ASSUME NEW id \in Ids, m = AnalyticStartRequest(id)
      PROVE  /\ m.operation = Start /\ m.analyticinstanceid \in Ids
             /\ ExtractsRequest(m)
  BY <1>1 DEF AnalyticStartRequest, ExtractsRequest, Survives, Start, Stop
<1>2. ASSUME NEW id \in Ids, m = AnalyticStopRequest(id)
      PROVE  /\ m.operation = Stop /\ m.analyticinstanceid \in Ids
             /\ ExtractsRequest(m)
  BY <1>2 DEF AnalyticStopRequest, ExtractsRequest, Survives, Start, Stop
<1>3. ASSUME m = KillAllAnalyticProcessesRequest
      PROVE  m.operation = KillAll /\ ExtractsRequest(m)
  BY <1>3 DEF KillAllAnalyticProcessesRequest, ExtractsRequest, Survives, Start, Stop, KillAll
<1>4. QED
  BY <1>1, <1>2, <1>3 DEF Requests

\* The reply to a start that was done says so; the others do not.
LEMMA DoneReplies ==
  /\ \A in, out : Done(AnalyticStartReply(TRUE, in, out))
  /\ ~ Done(StartErrorReply) /\ ~ Done(NotXML)
<1>1. ASSUME NEW in, NEW out PROVE AnalyticStartReply(TRUE, in, out) # NotXML
  <2>1. "done" \in DOMAIN AnalyticStartReply(TRUE, in, out)
    BY DEF AnalyticStartReply
  <2>2. "done" \notin DOMAIN NotXML
    BY DEF NotXML
  <2>3. QED
    BY <2>1, <2>2
<1>2. ASSUME NEW in, NEW out PROVE AnalyticStartReply(TRUE, in, out).done
  BY DEF AnalyticStartReply
<1>3. ~ StartErrorReply.done
  BY DEF StartErrorReply, AnalyticStartReply
<1>4. QED
  BY <1>1, <1>2, <1>3 DEF Done

\* Serving a request answers it, or ends the Analytic Server.
LEMMA ServeAnswers ==
  ASSUME ExecuteOperation
  PROVE  /\ stage = "sent"
         /\ UNCHANGED linkVars \/ \E m : Answer(m)
<1>1. stage = "sent"
  BY DEF ExecuteOperation, Asked
<1>2. ASSUME NEW id, ServeStart(id) PROVE \E m : Answer(m)
  BY <1>2 DEF ServeStart
<1>3. ASSUME NEW id, ServeStop(id) PROVE UNCHANGED linkVars \/ \E m : Answer(m)
  BY <1>3 DEF ServeStop
<1>4. ASSUME ServeKillAll PROVE UNCHANGED linkVars \/ \E m : Answer(m)
  BY <1>4 DEF ServeKillAll
<1>5. QED
  BY <1>1, <1>2, <1>3, <1>4 DEF ExecuteOperation

LEMMA ClientInit == LinkInit => ClientInv
  BY DEF LinkInit, ClientInv, NoAddresses

LEMMA ClientSends ==
  ASSUME ClientInv,
         \/ CreateManager \/ KillAllAnalyticInstances \/ Terminate
         \/ \E id \in Ids : StartAnalyticInstance(id) \/ StopAnalyticInstance(id)
  PROVE  ClientInv'
<1>1. CASE CreateManager
  BY <1>1 DEF ClientInv, CreateManager, NoAddresses
<1>2. ASSUME NEW m \in Requests, WriteToSocket(m) PROVE ClientInv'
  BY <1>2 DEF ClientInv, WriteToSocket, NoAddresses, Requests
<1>3. CASE KillAllAnalyticInstances
  BY <1>2, <1>3 DEF KillAllAnalyticInstances, Requests
<1>4. CASE \E id \in Ids : StartAnalyticInstance(id) \/ StopAnalyticInstance(id)
  BY <1>2, <1>4 DEF StartAnalyticInstance, StopAnalyticInstance, Requests
<1>5. CASE Terminate
  <2>1. CASE WriteToSocket(KillAllAnalyticProcessesRequest)
    BY <1>2, <2>1 DEF Requests
  <2>2. CASE ~ WriteToSocket(KillAllAnalyticProcessesRequest)
    BY <1>5, <2>2 DEF Terminate, ClientInv, NoAddresses
  <2>3. QED
    BY <2>1, <2>2
<1>6. QED
  BY <1>1, <1>3, <1>4, <1>5

LEMMA ClientServed ==
  ASSUME ClientInv, ExecuteOperation \/ RunnerEnds
  PROVE  ClientInv'
<1>1. CASE UNCHANGED linkVars
  BY <1>1 DEF linkVars, clientVars, ClientInv, NoAddresses, Requests
<1>2. CASE stage = "sent" /\ \E m : Answer(m)
  BY <1>2 DEF Answer, clientVars, ClientInv, NoAddresses, Requests
<1>3. QED
  BY <1>1, <1>2, ServeAnswers DEF RunnerEnds

LEMMA ClientReads ==
  ASSUME ClientInv, StartReplied \/ StopReplied \/ KillAllReplied
  PROVE  ClientInv'
<1>1. stage = "replied" /\ stage' = "ready" /\ UNCHANGED crashes
  BY DEF StartReplied, StopReplied, KillAllReplied, ReadFromSocket
<1>2. alive /\ manager
  BY <1>1 DEF ClientInv
<1>3. CASE StartReplied \/ StopReplied
  <2>1. DOMAIN addresses' = Ids
    BY <1>3 DEF StartReplied, StopReplied, ClientInv
  <2>2. alive' /\ manager'
    BY <1>2, <1>3 DEF StartReplied, StopReplied
  <2>3. QED
    BY <1>1, <2>1, <2>2 DEF ClientInv
<1>4. CASE KillAllReplied
  <2>1. addresses' = NoAddresses /\ DOMAIN addresses' = Ids
    BY <1>4 DEF KillAllReplied, NoAddresses
  <2>2. ~ alive' => ~ manager'
    BY <1>4 DEF KillAllReplied
  <2>3. QED
    BY <1>1, <2>1, <2>2 DEF ClientInv, NoAddresses
<1>5. QED
  BY <1>3, <1>4

LEMMA ClientEnds ==
  ASSUME ClientInv, Crash \/ Begin
  PROVE  ClientInv'
<1>1. CASE Crash
  <2>1. crashes' \in Nat /\ crashes' > 0
    BY <1>1 DEF Crash, ClientInv
  <2>2. addresses' = NoAddresses /\ DOMAIN addresses' = Ids
    BY <1>1 DEF Crash, NoAddresses
  <2>3. stage' \in {"ready", "sent"} /\ (stage' # "ready" => request' \in Requests)
    BY <1>1 DEF Crash, ClientInv
  <2>4. ~ alive' /\ ~ manager'
    BY <1>1 DEF Crash
  <2>5. QED
    BY <2>1, <2>2, <2>3, <2>4 DEF ClientInv, NoAddresses, Requests
<1>2. CASE Begin
  BY <1>2 DEF Begin, ClientInv, NoAddresses, Requests
<1>3. QED
  BY <1>1, <1>2

LEMMA ClientInductive ==
  ClientInv /\ [LinkNext]_<<vars, linkVars>> => ClientInv'
<1> SUFFICES ASSUME ClientInv, [LinkNext]_<<vars, linkVars>>
             PROVE  ClientInv'
  OBVIOUS
<1>1. CASE UNCHANGED <<vars, linkVars>>
  BY <1>1 DEF linkVars, clientVars, ClientInv, NoAddresses, Requests
<1>2. CASE LinkNext
  BY <1>2, ClientSends, ClientServed, ClientReads, ClientEnds DEF LinkNext
<1>3. QED
  BY <1>1, <1>2

-----------------------------------------------------------------------------
\* The Analytic Server's part of a step.
LEMMA ServerStep ==
  ASSUME ClientInv, [LinkNext]_<<vars, linkVars>>
  PROVE  [Next]_vars
<1>1. CASE UNCHANGED <<vars, linkVars>>
  BY <1>1
<1>2. CASE CreateManager \/ Terminate \/ Crash \/ Begin
  BY <1>2 DEF CreateManager, Terminate, Crash, Begin, WriteToSocket
<1>3. CASE \E id \in Ids : StartAnalyticInstance(id) \/ StopAnalyticInstance(id)
  BY <1>3 DEF StartAnalyticInstance, StopAnalyticInstance, WriteToSocket
<1>4. CASE KillAllAnalyticInstances
  BY <1>4 DEF KillAllAnalyticInstances, WriteToSocket
<1>5. CASE StartReplied \/ StopReplied \/ KillAllReplied
  BY <1>5 DEF StartReplied, StopReplied, KillAllReplied, ReadFromSocket
<1>6. CASE RunnerEnds
  BY <1>6 DEF RunnerEnds, Next
<1>7. CASE ExecuteOperation
  <2>1. request \in Requests
    BY <1>7, ServeAnswers DEF ClientInv
  <2>2. CASE Asked(Start) /\ ServeStart(request.analyticinstanceid)
    <3> DEFINE id == request.analyticinstanceid
    <3>1. id \in Ids
      BY <2>1, <2>2, RequestForms DEF Asked, Start, KillAll
    <3>2. UNCHANGED vars \/ StartThrows(id) \/ StartAnalytic(id) \/ StartFails
      BY <2>2 DEF ServeStart
    <3>3. QED
      BY <3>1, <3>2 DEF Next
  <2>3. CASE Asked(Stop) /\ ServeStop(request.analyticinstanceid)
    <3> DEFINE id == request.analyticinstanceid
    <3>1. id \in Ids
      BY <2>1, <2>3, RequestForms DEF Asked, Stop, KillAll
    <3>2. \/ UNCHANGED vars \/ StopAnalytic(id)
          \/ StopOfDeletedGoesOn(id) \/ StopOfDeletedAborts(id)
      BY <2>3 DEF ServeStop
    <3>3. QED
      BY <3>1, <3>2 DEF Next
  <2>4. CASE Asked(KillAll) /\ ServeKillAll
    BY <2>4 DEF ServeKillAll, Next
  <2>5. QED
    BY <1>7, <2>2, <2>3, <2>4 DEF ExecuteOperation
<1>8. QED
  BY <1>1, <1>2, <1>3, <1>4, <1>5, <1>6, <1>7 DEF LinkNext

\* The client is well: its request is one it can send, it keeps addresses only
\* under a manager, and a request of a client that has gone needs a crash.
THEOREM ClientHolds == LinkSpec => []ClientInv
  BY ClientInit, ClientInductive, PTL DEF LinkSpec

\* Everything the pair does to the Analytic Server is a behaviour of it:
\* AnalyticLink implements AnalyticServer.
THEOREM LinkRefinesServer == LinkSpec => Spec
<1>1. LinkInit => Init
  BY DEF LinkInit
<1>2. ClientInv /\ [LinkNext]_<<vars, linkVars>> => [Next]_vars
  BY ServerStep
<1>3. QED
  BY <1>1, <1>2, ClientHolds, PTL DEF LinkSpec, Spec

\* No port is in two hands, whatever the client asks and however it ends
\* (PortsHandedOutOnce).
THEOREM LinkPortsOnce == LinkSpec => []PortsHandedOutOnce
  BY LinkRefinesServer, PortsAreHandedOutOnce, PTL

\* The capacity is accounted for (CapacityAccounted).
THEOREM LinkCapacity == LinkSpec => []CapacityAccounted
  BY LinkRefinesServer, CapacityIsAccounted, PTL

\* A running process can be stopped through its id (RunningIsReachable).
THEOREM LinkReachable == LinkSpec => []RunningIsReachable
  BY LinkRefinesServer, RunningCanBeStopped, PTL

\* No message ends its reader (MessagesAreRead).
LEMMA MessagesInductive ==
  ClientInv /\ ClientInv' /\ MessagesAreRead /\ [LinkNext]_<<vars, linkVars>> => MessagesAreRead'
<1> SUFFICES ASSUME ClientInv, ClientInv', MessagesAreRead, [LinkNext]_<<vars, linkVars>>,
                    stage' # "ready"
             PROVE  MessagesAreRead'
  BY DEF MessagesAreRead
<1>1. stage' = "sent" => ExtractsRequest(request')
  BY RequestForms DEF ClientInv
<1>2. ASSUME stage' = "replied" PROVE ExtractsReply(request', reply')
  <2>1. CASE ExecuteOperation
    <3>1. request' = request /\ request \in Requests
      BY <1>2, <2>1, ServeAnswers DEF Answer, linkVars, clientVars, ClientInv
    <3>2. CASE Asked(Start) /\ ServeStart(request.analyticinstanceid)
      <4>1. reply' = NotXML \/ \E done, in, out : reply' = AnalyticStartReply(done, in, out)
        BY <1>2, <3>2 DEF ServeStart, Answer, StartErrorReply
      <4>2. ExtractsReply(request, reply')
        BY <3>2, <4>1 DEF Asked, ExtractsReply, Survives, AnalyticStartReply, Start
      <4>3. QED
        BY <3>1, <4>2
    <3>3. CASE Asked(Stop) /\ ServeStop(request.analyticinstanceid)
      <4>1. \E done : reply' = AnalyticStopReply(done)
        BY <1>2, <3>3 DEF ServeStop, Answer, linkVars, clientVars, Asked
      <4>2. ExtractsReply(request, reply')
        BY <3>3, <4>1 DEF Asked, ExtractsReply, Survives, AnalyticStopReply, Start, Stop
      <4>3. QED
        BY <3>1, <4>2
    <3>4. CASE Asked(KillAll) /\ ServeKillAll
      <4>1. \E done : reply' = KillAllAnalyticProcessesReply(done)
        BY <1>2, <3>4 DEF ServeKillAll, Answer, linkVars, clientVars, Asked
      <4>2. ExtractsReply(request, reply')
        BY <3>4, <4>1 DEF Asked, ExtractsReply, Survives, KillAllAnalyticProcessesReply,
                          Start, Stop, KillAll
      <4>3. QED
        BY <3>1, <4>2
    <3>5. QED
      BY <2>1, <3>2, <3>3, <3>4 DEF ExecuteOperation
  <2>2. CASE ~ ExecuteOperation
    <3>1. stage = "replied" /\ request' = request /\ reply' = reply
      BY <1>2, <2>2 DEF LinkNext, linkVars, clientVars, CreateManager, StartAnalyticInstance,
           StopAnalyticInstance, KillAllAnalyticInstances, WriteToSocket, StartReplied,
           StopReplied, KillAllReplied, ReadFromSocket, Terminate, Crash, Begin, RunnerEnds
    <3>2. ExtractsReply(request, reply)
      BY <3>1 DEF MessagesAreRead
    <3>3. QED
      BY <3>1, <3>2
  <2>3. QED
    BY <2>1, <2>2
<1>3. QED
  BY <1>1, <1>2 DEF MessagesAreRead

\* No request and no reply ends its reader (MessagesAreRead).
THEOREM MessagesReadByAll == LinkSpec => []MessagesAreRead
<1>1. LinkInit => MessagesAreRead
  BY DEF LinkInit, MessagesAreRead
<1>2. QED
  BY <1>1, ClientHolds, MessagesInductive, PTL DEF LinkSpec

-----------------------------------------------------------------------------
\* The Analytic Server has a process for the id, with these ports.
Serves(id, queues) ==
  /\ processes[id] \in Live
  /\ queues = <<runners[processes[id]].in, runners[processes[id]].out>>

\* The reply that has come, or a kill-all, changes the addresses of the id.
Superseded(id) ==
  /\ stage # "ready"
  /\ \/ request.operation = KillAll
     \/ request.operation = Stop /\ request.analyticinstanceid = id
     \/ /\ request.operation = Start /\ request.analyticinstanceid = id
        /\ stage = "replied" /\ Done(reply)

StartDone == stage = "replied" /\ request.operation = Start /\ Done(reply)

AddressInv ==
  up /\ ~ misused =>
    /\ \A id \in Ids :
         addresses[id] # None /\ ~ Superseded(id) => Serves(id, addresses[id])
    /\ StartDone => Serves(request.analyticinstanceid,
                           <<reply.analyticqueueinaddress, reply.analyticqueueoutaddress>>)

RunningNotDeleted ==
  \A i \in DOMAIN runners : runners[i].running => ~ runners[i].deleted

\* Every process in the map has its addresses with the client, or they are on
\* their way; until a crash.
OrphanInv ==
  up /\ ~ misused /\ crashes = 0 =>
    /\ \A id \in Ids : processes[id] \in Live =>
         addresses[id] # None \/ (StartDone /\ request.analyticinstanceid = id)
    /\ stage = "replied" /\ request.operation = Stop =>
         processes[request.analyticinstanceid] \notin Live
    /\ stage = "replied" /\ request.operation = KillAll => Live = {}

-----------------------------------------------------------------------------
\* What is served stays served when neither the map's entry nor the object's
\* ports change.
LEMMA ServesStays ==
  ASSUME NEW id, NEW queues, Serves(id, queues), processes'[id] = processes[id],
         processes[id] \in Live',
         runners'[processes[id]].in = runners[processes[id]].in,
         runners'[processes[id]].out = runners[processes[id]].out
  PROVE  Serves(id, queues)'
BY DEF Serves

\* The outcomes of a start request that leave the Analytic Server sound.
LEMMA StartOutcomes ==
  ASSUME MapInv, NEW id \in Ids, ServeStart(id)
  PROVE  \E m :
           /\ Answer(m)
           /\ (up' <=> up) /\ (misused' <=> misused)
           /\ \A a \in Ids \ {id} : processes'[a] = processes[a]
           /\ \A i \in DOMAIN runners : runners'[i] = runners[i]
           /\ \/ /\ Done(m) /\ Live \ {processes[id]} \subseteq Live'
                 /\ Live' \subseteq Live \cup {processes'[id]}
                 /\ Serves(id, <<m.analyticqueueinaddress, m.analyticqueueoutaddress>>)'
              \/ ~ Done(m) /\ Live' = Live /\ UNCHANGED processes
<1>0. TypeOK /\ DOMAIN runners = 1 .. Len(runners) /\ Len(runners) \in Nat
  BY DEF MapInv, TypeOK
<1>1. CASE UNCHANGED vars /\ Answer(AnalyticStartReply(FALSE, NoAddress, NoAddress))
  <2>1. ~ Done(AnalyticStartReply(FALSE, NoAddress, NoAddress))
    BY DoneReplies DEF StartErrorReply
  <2>2. Live' = Live
    BY <1>1 DEF vars, Live, Mapped
  <2>3. QED
    BY <1>1, <2>1, <2>2 DEF vars
<1>2. CASE StartThrows(id) /\ \E m \in {StartErrorReply, NotXML} : Answer(m)
  <2>1. Live' = Live /\ \A i \in DOMAIN runners : runners'[i] = runners[i]
    BY <1>2, ThrownStartKeepsLive
  <2>2. UNCHANGED <<up, misused, processes>>
    BY <1>2 DEF StartThrows
  <2>3. QED
    BY <1>2, <2>1, <2>2, DoneReplies
<1>3. CASE StartAnalytic(id) /\ Answer(AnalyticStartReply(TRUE, In, Out))
  <2> DEFINE new == Len(runners) + 1
             m == AnalyticStartReply(TRUE, In, Out)
  <2>1. /\ \A i \in DOMAIN runners : runners'[i] = runners[i]
        /\ runners'[new].in = In /\ runners'[new].out = Out
        /\ Live' = (Live \ {processes[id]}) \cup {new}
    BY <1>3, LiveAfterStart
  <2>2. processes'[id] = new /\ \A a \in Ids \ {id} : processes'[a] = processes[a]
    BY <1>0, <1>3 DEF StartAnalytic, TypeOK
  <2>3. m.analyticqueueinaddress = In /\ m.analyticqueueoutaddress = Out
    BY DEF AnalyticStartReply
  <2>4. UNCHANGED <<up, misused>>
    BY <1>3 DEF StartAnalytic
  <2>5. Done(m)
    BY DoneReplies
  <2>6. PICK n : n = m
    OBVIOUS
  <2>7. Serves(id, <<n.analyticqueueinaddress, n.analyticqueueoutaddress>>)'
    BY <2>1, <2>2, <2>3, <2>6 DEF Serves
  <2>8. Answer(n) /\ Done(n)
    BY <1>3, <2>5, <2>6
  <2>9. QED
    BY <2>1, <2>2, <2>4, <2>7, <2>8
<1>4. CASE StartFails /\ Answer(StartErrorReply)
  <2>1. UNCHANGED <<up, misused, processes, runners>>
    BY <1>4 DEF StartFails
  <2>2. Live' = Live
    BY <2>1 DEF Live, Mapped
  <2>3. QED
    BY <1>4, <2>1, <2>2, DoneReplies
<1>5. QED
  BY <1>1, <1>2, <1>3, <1>4 DEF ServeStart

\* The outcomes of a stop request that leave the Analytic Server sound.
LEMMA StopOutcomes ==
  ASSUME MapInv, NEW id \in Ids, ServeStop(id), up', ~ misused'
  PROVE  /\ up /\ ~ misused /\ \E m : Answer(m)
         /\ \A a \in Ids \ {id} : processes'[a] = processes[a]
         /\ \A i \in DOMAIN runners :
              runners'[i].in = runners[i].in /\ runners'[i].out = runners[i].out
         /\ Live' = Live \ {processes[id]} /\ processes'[id] = 0
<1>0. TypeOK /\ 0 \notin Live
  BY DEF MapInv, Live, Mapped
<1>1. CASE UNCHANGED vars /\ processes[id] = 0 /\ Answer(AnalyticStopReply(FALSE))
  <2>1. Live' = Live
    BY <1>1 DEF vars, Live, Mapped
  <2>2. QED
    BY <1>0, <1>1, <2>1 DEF vars
<1>2. CASE StopAnalytic(id) /\ \E done \in BOOLEAN : Answer(AnalyticStopReply(done))
  <2>1. Live' = Live \ {processes[id]}
    BY <1>2, LiveAfterStop DEF StopAnalytic
  <2>2. \A a \in Ids : processes'[a] = IF a = id THEN 0 ELSE processes[a]
    BY <1>0, <1>2 DEF StopAnalytic, TypeOK
  <2>3. \A i \in DOMAIN runners :
          runners'[i].in = runners[i].in /\ runners'[i].out = runners[i].out
    BY <1>0, <1>2, StopKeeps DEF StopAnalytic
  <2>4. UNCHANGED <<up, misused>>
    BY <1>2 DEF StopAnalytic
  <2>5. QED
    BY <1>2, <2>1, <2>2, <2>3, <2>4
<1>3. ~ StopOfDeletedGoesOn(id) /\ ~ StopOfDeletedAborts(id)
  BY DEF StopOfDeletedGoesOn, StopOfDeletedAborts
<1>4. QED
  BY <1>1, <1>2, <1>3 DEF ServeStop

\* The outcome of a kill-all that leaves the Analytic Server sound.
LEMMA KillAllOutcome ==
  ASSUME MapInv, ServeKillAll, up', ~ misused'
  PROVE  up /\ ~ misused /\ (\E m : Answer(m)) /\ Live' = {}
<1>1. KillAllAnalytics /\ \E m : Answer(m)
  BY DEF ServeKillAll, KillAllAborts
<1>2. \A i \in DOMAIN runners : runners'[i].deleted <=> runners[i].deleted \/ i \in Live
  BY <1>1, StopKeeps DEF KillAllAnalytics, MapInv
<1>3. Live' = {}
  BY <1>1, <1>2, LiveFinite DEF KillAllAnalytics, Live, Mapped, MapInv
<1>4. QED
  BY <1>1, <1>3 DEF KillAllAnalytics

\* The end of a process changes nothing that is served.
LEMMA ExitOutcome ==
  ASSUME MapInv, RunnerEnds
  PROVE  /\ UNCHANGED <<up, misused, processes, linkVars>> /\ Live' = Live
         /\ \A i \in DOMAIN runners :
              runners'[i].in = runners[i].in /\ runners'[i].out = runners[i].out
<1>1. PICK i \in DOMAIN runners : RunnerExits(i)
  BY DEF RunnerEnds
<1>2. \A j \in DOMAIN runners :
        /\ runners'[j].in = runners[j].in /\ runners'[j].out = runners[j].out
        /\ runners'[j].deleted = runners[j].deleted
  BY <1>1, ExitKeeps DEF MapInv
<1>3. UNCHANGED <<up, misused, processes, linkVars>>
  BY <1>1 DEF RunnerExits, RunnerEnds
<1>4. Live' = Live
  BY <1>2, <1>3, LiveFinite DEF Live, Mapped, MapInv
<1>5. QED
  BY <1>2, <1>3, <1>4

\* What an answer does with the link: a client that has gone holds nothing.
LEMMA AnswerArrives ==
  ASSUME ClientInv, NEW m, Answer(m)
  PROVE  /\ UNCHANGED <<addresses, alive, crashes>>
         /\ alive => stage' = "replied" /\ request' = request /\ reply' = m
         /\ ~ alive => stage' = "ready" /\ addresses = NoAddresses
BY DEF Answer, clientVars, ClientInv

-----------------------------------------------------------------------------
\* AddressInv over the steps of the Analytic Server.
LEMMA ServeKeepsAddresses ==
  ASSUME ClientInv, MapInv, AddressInv, ExecuteOperation, up', ~ misused'
  PROVE  AddressInv'
<1> DEFINE rid == request.analyticinstanceid
<1>0. stage = "sent" /\ request \in Requests
  BY ServeAnswers DEF ClientInv
<1>1. CASE Asked(Start) /\ ServeStart(rid)
  <2>1. PICK id \in Ids : id = rid /\ request.operation = Start
    BY <1>0, <1>1, RequestForms DEF Asked, Start, KillAll
  <2>2. PICK m :
           /\ Answer(m)
           /\ (up' <=> up) /\ (misused' <=> misused)
           /\ \A a \in Ids \ {id} : processes'[a] = processes[a]
           /\ \A i \in DOMAIN runners : runners'[i] = runners[i]
           /\ \/ /\ Done(m) /\ Live \ {processes[id]} \subseteq Live'
                 /\ Live' \subseteq Live \cup {processes'[id]}
                 /\ Serves(id, <<m.analyticqueueinaddress, m.analyticqueueoutaddress>>)'
              \/ ~ Done(m) /\ Live' = Live /\ UNCHANGED processes
    BY <1>1, <2>1, StartOutcomes
  <2>3. CASE ~ alive
    BY <2>2, <2>3, AnswerArrives DEF AddressInv, NoAddresses, StartDone
  <2>4. CASE alive
    <3>1. /\ addresses' = addresses /\ stage' = "replied"
          /\ request' = request /\ reply' = m
      BY <2>2, <2>4, AnswerArrives
    <3>2. ASSUME NEW a \in Ids, addresses[a] # None, ~ Superseded(a)'
          PROVE  Serves(a, addresses[a])'
      <4>1. ~ Superseded(a) /\ Serves(a, addresses[a])
        BY <1>0, <2>1, <2>2, <3>2 DEF Superseded, AddressInv, Start, Stop, KillAll
      <4>2. processes[a] \in DOMAIN runners
        BY <4>1, LiveFinite DEF Serves, MapInv
      <4>3. CASE Done(m)
        <5>1. a # id
          BY <2>1, <3>1, <3>2, <4>3 DEF Superseded
        <5>2. processes[a] # processes[id]
          BY <2>1, <4>1, <5>1 DEF MapInv, OwnObject, Serves, Live, Mapped
        <5>3. processes'[a] = processes[a] /\ processes[a] \in Live'
          BY <2>2, <4>1, <4>3, <5>1, <5>2 DEF Serves
        <5>4. QED
          BY <2>2, <3>1, <4>1, <4>2, <5>3 DEF Serves
      <4>4. CASE ~ Done(m)
        BY <2>2, <3>1, <4>1, <4>2, <4>4 DEF Serves
      <4>5. QED
        BY <4>3, <4>4
    <3>3. StartDone' => Serves(id, <<m.analyticqueueinaddress, m.analyticqueueoutaddress>>)'
      BY <2>2, <3>1 DEF StartDone
    <3>4. rid' = id
      BY <2>1, <3>1
    <3>5. QED
      BY <3>1, <3>2, <3>3, <3>4 DEF AddressInv, Serves
  <2>5. QED
    BY <2>3, <2>4
<1>2. CASE Asked(Stop) /\ ServeStop(rid)
  <2>1. rid \in Ids /\ request.operation = Stop
    BY <1>0, <1>2, RequestForms DEF Asked, Stop, KillAll
  <2>2. /\ up /\ ~ misused /\ \E m : Answer(m)
        /\ \A a \in Ids \ {rid} : processes'[a] = processes[a]
        /\ \A i \in DOMAIN runners :
             runners'[i].in = runners[i].in /\ runners'[i].out = runners[i].out
        /\ Live' = Live \ {processes[rid]}
    BY <1>2, <2>1, StopOutcomes
  <2>3. CASE ~ alive
    BY <2>2, <2>3, AnswerArrives DEF AddressInv, NoAddresses, StartDone
  <2>4. CASE alive
    <3>1. addresses' = addresses /\ stage' = "replied" /\ request' = request
      BY <2>2, <2>4, AnswerArrives
    <3>2. ASSUME NEW a \in Ids, addresses[a] # None, ~ Superseded(a)'
          PROVE  Serves(a, addresses[a])'
      <4>1. a # rid /\ ~ Superseded(a)
        BY <1>0, <2>1, <3>1, <3>2 DEF Superseded, Start, Stop, KillAll
      <4>2. Serves(a, addresses[a])
        BY <2>2, <3>2, <4>1 DEF AddressInv
      <4>3. processes[a] \in DOMAIN runners /\ processes[a] # processes[rid]
        BY <2>1, <4>1, <4>2, LiveFinite DEF Serves, MapInv, OwnObject, Live, Mapped
      <4>4. QED
        BY <2>2, <3>1, <4>1, <4>2, <4>3 DEF Serves
    <3>3. ~ StartDone'
      BY <2>1, <3>1 DEF StartDone, Start, Stop
    <3>4. QED
      BY <3>1, <3>2, <3>3 DEF AddressInv, Serves
  <2>5. QED
    BY <2>3, <2>4
<1>3. CASE Asked(KillAll) /\ ServeKillAll
  <2>1. up /\ ~ misused /\ \E m : Answer(m)
    BY <1>3, KillAllOutcome
  <2>2. CASE ~ alive
    BY <2>1, <2>2, AnswerArrives DEF AddressInv, NoAddresses, StartDone
  <2>3. CASE alive
    <3>1. stage' = "replied" /\ request' = request /\ request.operation = KillAll
      BY <1>3, <2>1, <2>3, AnswerArrives DEF Asked
    <3>2. (\A a \in Ids : Superseded(a)') /\ ~ StartDone'
      BY <3>1 DEF Superseded, StartDone, Start, KillAll
    <3>3. QED
      BY <3>2 DEF AddressInv
  <2>4. QED
    BY <2>2, <2>3
<1>4. QED
  BY <1>1, <1>2, <1>3 DEF ExecuteOperation

\* AddressInv over the steps of the client that leave the server alone.
LEMMA ClientKeepsAddresses ==
  ASSUME ClientInv, AddressInv, UNCHANGED vars,
         \/ CreateManager \/ KillAllAnalyticInstances \/ Terminate \/ Crash \/ Begin
         \/ \E id \in Ids : StartAnalyticInstance(id) \/ StopAnalyticInstance(id)
         \/ StartReplied \/ StopReplied \/ KillAllReplied
  PROVE  AddressInv'
<1> USE DEF vars
<1>0. Live' = Live
  BY DEF Live, Mapped
<1>1. ASSUME addresses' = addresses, stage = "ready", stage' # "replied"
      PROVE  AddressInv'
  BY <1>0, <1>1 DEF AddressInv, Serves, Superseded, StartDone
<1>2. ASSUME addresses' = NoAddresses, stage' # "replied"
      PROVE  AddressInv'
  BY <1>2 DEF AddressInv, NoAddresses, StartDone
<1>3. CASE CreateManager \/ KillAllAnalyticInstances \/ Terminate \/ Begin
  BY <1>1, <1>3 DEF ClientInv, CreateManager, KillAllAnalyticInstances, Terminate, Begin,
                    WriteToSocket
<1>4. CASE \E id \in Ids : StartAnalyticInstance(id) \/ StopAnalyticInstance(id)
  BY <1>1, <1>4 DEF StartAnalyticInstance, StopAnalyticInstance, WriteToSocket
<1>5. CASE Crash
  BY <1>2, <1>5 DEF Crash
<1>6. CASE KillAllReplied
  BY <1>2, <1>6 DEF KillAllReplied, ReadFromSocket
<1>7. CASE StopReplied
  <2>1. stage = "replied" /\ stage' = "ready" /\ request.operation = Stop
    BY <1>7 DEF StopReplied, ReadFromSocket
  <2>2. \A a \in Ids : addresses'[a] = IF a = request.analyticinstanceid THEN None ELSE addresses[a]
    BY <1>7 DEF StopReplied, ClientInv
  <2>3. \A a \in Ids : a # request.analyticinstanceid => ~ Superseded(a)
    BY <2>1 DEF Superseded, Start, Stop, KillAll
  <2>4. QED
    BY <1>0, <2>1, <2>2, <2>3 DEF AddressInv, Serves, StartDone
<1>8. CASE StartReplied
  <2> DEFINE rid == request.analyticinstanceid
             queues == <<reply.analyticqueueinaddress, reply.analyticqueueoutaddress>>
  <2>1. stage = "replied" /\ stage' = "ready" /\ request.operation = Start
    BY <1>8 DEF StartReplied, ReadFromSocket
  <2>2. CASE Done(reply)
    <3>1. \A a \in Ids : addresses'[a] = IF a = rid THEN queues ELSE addresses[a]
      BY <1>8, <2>2 DEF StartReplied, ClientInv
    <3>2. \A a \in Ids : a # rid => ~ Superseded(a)
      BY <2>1 DEF Superseded, Start, Stop, KillAll
    <3>3. up /\ ~ misused => Serves(rid, queues)
      BY <2>1, <2>2 DEF AddressInv, StartDone
    <3>4. QED
      BY <1>0, <2>1, <3>1, <3>2, <3>3 DEF AddressInv, Serves, StartDone
  <2>3. CASE ~ Done(reply)
    <3>1. addresses' = addresses
      BY <1>8, <2>3 DEF StartReplied
    <3>2. \A a \in Ids : ~ Superseded(a)
      BY <2>1, <2>3 DEF Superseded, Start, Stop, KillAll
    <3>3. QED
      BY <1>0, <2>1, <3>1, <3>2 DEF AddressInv, Serves, StartDone
  <2>4. QED
    BY <2>2, <2>3
<1>9. QED
  BY <1>3, <1>4, <1>5, <1>6, <1>7, <1>8

\* The steps of the client leave the Analytic Server's state alone.
LEMMA ClientSteps ==
  ASSUME LinkNext, ~ ExecuteOperation, ~ RunnerEnds
  PROVE  /\ UNCHANGED vars
         /\ \/ CreateManager \/ KillAllAnalyticInstances \/ Terminate \/ Crash \/ Begin
            \/ \E id \in Ids : StartAnalyticInstance(id) \/ StopAnalyticInstance(id)
            \/ StartReplied \/ StopReplied \/ KillAllReplied
BY DEF LinkNext, CreateManager, StartAnalyticInstance, StopAnalyticInstance,
       KillAllAnalyticInstances, WriteToSocket, StartReplied, StopReplied, KillAllReplied,
       ReadFromSocket, Terminate, Crash, Begin

LEMMA AddressInductive ==
  ClientInv /\ MapInv /\ AddressInv /\ [LinkNext]_<<vars, linkVars>> => AddressInv'
<1> SUFFICES ASSUME ClientInv, MapInv, AddressInv, [LinkNext]_<<vars, linkVars>>,
                    up', ~ misused'
             PROVE  AddressInv'
  BY DEF AddressInv
<1>1. CASE UNCHANGED <<vars, linkVars>>
  BY <1>1 DEF vars, linkVars, clientVars, AddressInv, Serves, Superseded, StartDone, Live, Mapped
<1>2. CASE ExecuteOperation
  BY <1>2, ServeKeepsAddresses
<1>3. CASE RunnerEnds
  <2>1. /\ UNCHANGED <<up, misused, processes, linkVars>> /\ Live' = Live
        /\ \A i \in DOMAIN runners :
             runners'[i].in = runners[i].in /\ runners'[i].out = runners[i].out
    BY <1>3, ExitOutcome
  <2>2. Live \subseteq DOMAIN runners
    BY LiveFinite DEF MapInv
  <2>3. QED
    BY <2>1, <2>2 DEF linkVars, clientVars, AddressInv, Serves, Superseded, StartDone
<1>4. CASE LinkNext /\ ~ ExecuteOperation /\ ~ RunnerEnds
  BY <1>4, ClientSteps, ClientKeepsAddresses
<1>5. QED
  BY <1>1, <1>2, <1>3, <1>4

\* The client holds addresses only of a process the Analytic Server has, and
\* exactly its ports (AddressesAreServed).
THEOREM AddressesHold == LinkSpec => []AddressesAreServed
<1>1. LinkInit => AddressInv
  BY DEF LinkInit, AddressInv, NoAddresses, StartDone
<1>2. LinkSpec => []MapInv
  BY LinkRefinesServer, MapHolds, PTL
<1>3. ClientInv /\ AddressInv => AddressesAreServed
  BY DEF ClientInv, AddressInv, AddressesAreServed, InQuestion, Superseded, Serves
<1>4. QED
  BY <1>1, <1>2, <1>3, ClientHolds, AddressInductive, PTL DEF LinkSpec

-----------------------------------------------------------------------------
\* OrphanInv over the steps of the Analytic Server.  Its client is there: one
\* that has gone with a request on its way has crashed.
LEMMA ServeKeepsOrphans ==
  ASSUME ClientInv, MapInv, OrphanInv, ExecuteOperation, up', ~ misused', crashes' = 0
  PROVE  OrphanInv'
<1> DEFINE rid == request.analyticinstanceid
<1>0. stage = "sent" /\ request \in Requests
  BY ServeAnswers DEF ClientInv
<1>1. CASE Asked(Start) /\ ServeStart(rid)
  <2>1. PICK id \in Ids : id = rid /\ request.operation = Start
    BY <1>0, <1>1, RequestForms DEF Asked, Start, KillAll
  <2>2. PICK m :
           /\ Answer(m)
           /\ (up' <=> up) /\ (misused' <=> misused)
           /\ \A a \in Ids \ {id} : processes'[a] = processes[a]
           /\ \A i \in DOMAIN runners : runners'[i] = runners[i]
           /\ \/ /\ Done(m) /\ Live \ {processes[id]} \subseteq Live'
                 /\ Live' \subseteq Live \cup {processes'[id]}
                 /\ Serves(id, <<m.analyticqueueinaddress, m.analyticqueueoutaddress>>)'
              \/ ~ Done(m) /\ Live' = Live /\ UNCHANGED processes
    BY <1>1, <2>1, StartOutcomes
  <2>3. MapInv'
    <3>1. [Next]_vars
      BY <1>1, <2>1 DEF ServeStart, Next
    <3>2. QED
      BY <3>1, MapInductive
  <2>4. crashes = 0 /\ alive
    BY <1>0, <2>2, AnswerArrives DEF ClientInv
  <2>5. /\ addresses' = addresses /\ stage' = "replied"
        /\ request' = request /\ reply' = m
    BY <2>2, <2>4, AnswerArrives
  <2>6. ASSUME NEW a \in Ids, processes'[a] \in Live'
        PROVE  addresses[a] # None \/ (Done(m) /\ a = id)
    <3>1. CASE Done(m) /\ a # id
      <4>1. processes'[a] # processes'[id]
        <5>1. processes'[a] # 0
          BY <2>6 DEF Live, Mapped
        <5>2. QED
          BY <2>3, <3>1, <5>1 DEF MapInv, OwnObject
      <4>2. processes[a] \in Live
        BY <2>2, <2>6, <3>1, <4>1
      <4>3. QED
        BY <1>0, <2>2, <2>4, <4>2 DEF OrphanInv, StartDone
    <3>2. CASE ~ Done(m)
      BY <1>0, <2>2, <2>4, <2>6, <3>2 DEF OrphanInv, StartDone
    <3>3. QED
      BY <3>1, <3>2
  <2>7. StartDone' <=> Done(m)
    BY <2>1, <2>5 DEF StartDone
  <2>8. request'.operation = Start /\ rid' = id
    BY <2>1, <2>5
  <2>9. QED
    BY <2>5, <2>6, <2>7, <2>8 DEF OrphanInv, Start, Stop, KillAll
<1>2. CASE Asked(Stop) /\ ServeStop(rid)
  <2>1. PICK id \in Ids : id = rid /\ request.operation = Stop
    BY <1>0, <1>2, RequestForms DEF Asked, Stop, KillAll
  <2>2. /\ up /\ ~ misused /\ \E m : Answer(m)
        /\ \A a \in Ids \ {id} : processes'[a] = processes[a]
        /\ Live' = Live \ {processes[id]} /\ processes'[id] = 0
    BY <1>2, <2>1, StopOutcomes
  <2>3. crashes = 0 /\ alive
    BY <1>0, <2>2, AnswerArrives DEF ClientInv
  <2>4. addresses' = addresses /\ stage' = "replied" /\ request' = request
    BY <2>2, <2>3, AnswerArrives
  <2>5. 0 \notin Live'
    BY DEF Live, Mapped
  <2>6. \A a \in Ids : processes'[a] \in Live' => addresses[a] # None
    BY <1>0, <2>2, <2>3, <2>5 DEF OrphanInv, StartDone
  <2>7. request'.operation = Stop /\ rid' = id
    BY <2>1, <2>4
  <2>8. QED
    BY <2>2, <2>4, <2>5, <2>6, <2>7 DEF OrphanInv, Stop, KillAll
<1>3. CASE Asked(KillAll) /\ ServeKillAll
  <2>1. (\E m : Answer(m)) /\ Live' = {}
    BY <1>3, KillAllOutcome
  <2>2. QED
    BY <2>1 DEF OrphanInv
<1>4. QED
  BY <1>1, <1>2, <1>3 DEF ExecuteOperation

\* OrphanInv over the steps of the client.
LEMMA ClientKeepsOrphans ==
  ASSUME ClientInv, MapInv, AddressInv, OrphanInv, UNCHANGED vars, up, ~ misused, crashes' = 0,
         \/ CreateManager \/ KillAllAnalyticInstances \/ Terminate \/ Crash \/ Begin
         \/ \E id \in Ids : StartAnalyticInstance(id) \/ StopAnalyticInstance(id)
         \/ StartReplied \/ StopReplied \/ KillAllReplied
  PROVE  OrphanInv'
<1> USE DEF vars
<1>0. Live' = Live
  BY DEF Live, Mapped
<1>1. ASSUME addresses' = addresses, crashes' = crashes, stage = "ready", stage' # "replied"
      PROVE  OrphanInv'
  BY <1>0, <1>1 DEF OrphanInv, StartDone
<1>2. CASE CreateManager \/ KillAllAnalyticInstances \/ Terminate \/ Begin
  BY <1>1, <1>2 DEF ClientInv, CreateManager, KillAllAnalyticInstances, Terminate, Begin,
                    WriteToSocket
<1>3. CASE \E id \in Ids : StartAnalyticInstance(id) \/ StopAnalyticInstance(id)
  BY <1>1, <1>3 DEF StartAnalyticInstance, StopAnalyticInstance, WriteToSocket
<1>4. CASE Crash
  BY <1>4 DEF Crash, ClientInv
<1>5. CASE KillAllReplied
  <2>1. stage = "replied" /\ request.operation = KillAll /\ crashes = 0
    BY <1>5 DEF KillAllReplied, ReadFromSocket
  <2>2. Live = {}
    BY <2>1 DEF OrphanInv
  <2>3. QED
    BY <1>0, <2>2 DEF OrphanInv
<1>6. CASE StopReplied
  <2>1. /\ stage = "replied" /\ stage' = "ready" /\ crashes = 0
        /\ request.operation = Stop
    BY <1>6 DEF StopReplied, ReadFromSocket
  <2>2. \A a \in Ids : addresses'[a] = IF a = request.analyticinstanceid THEN None ELSE addresses[a]
    BY <1>6 DEF StopReplied, ClientInv
  <2>3. processes[request.analyticinstanceid] \notin Live /\ ~ StartDone
    BY <2>1 DEF OrphanInv, StartDone, Start, Stop
  <2>4. QED
    BY <1>0, <2>1, <2>2, <2>3 DEF OrphanInv, StartDone
<1>7. CASE StartReplied
  <2> DEFINE rid == request.analyticinstanceid
             queues == <<reply.analyticqueueinaddress, reply.analyticqueueoutaddress>>
  <2>1. /\ stage = "replied" /\ stage' = "ready" /\ crashes = 0
        /\ request.operation = Start
    BY <1>7 DEF StartReplied, ReadFromSocket
  <2>2. CASE Done(reply)
    <3>1. \A a \in Ids : addresses'[a] = IF a = rid THEN queues ELSE addresses[a]
      BY <1>7, <2>2 DEF StartReplied, ClientInv
    <3>2. queues # None
      <4>1. Serves(rid, queues)
        BY <2>1, <2>2 DEF AddressInv, StartDone
      <4>2. processes[rid] \in DOMAIN runners
        BY <4>1, LiveFinite DEF Serves, MapInv
      <4>3. runners[processes[rid]] \in Runner
        BY <4>2 DEF MapInv, TypeOK
      <4>4. queues \in Ports \X Ports
        BY <4>1, <4>3 DEF Serves, Runner
      <4>5. QED
        BY <4>4, LinkAssumption
    <3>3. QED
      BY <1>0, <2>1, <3>1, <3>2 DEF OrphanInv, StartDone
  <2>3. CASE ~ Done(reply)
    <3>1. addresses' = addresses
      BY <1>7, <2>3 DEF StartReplied
    <3>2. QED
      BY <1>0, <2>1, <2>3, <3>1 DEF OrphanInv, StartDone
  <2>4. QED
    BY <2>2, <2>3
<1>8. QED
  BY <1>2, <1>3, <1>4, <1>5, <1>6, <1>7

LEMMA OrphanInductive ==
  ClientInv /\ MapInv /\ AddressInv /\ OrphanInv /\ [LinkNext]_<<vars, linkVars>> => OrphanInv'
<1> SUFFICES ASSUME ClientInv, MapInv, AddressInv, OrphanInv, [LinkNext]_<<vars, linkVars>>,
                    up', ~ misused', crashes' = 0
             PROVE  OrphanInv'
  BY DEF OrphanInv
<1>1. CASE UNCHANGED <<vars, linkVars>>
  BY <1>1 DEF vars, linkVars, clientVars, OrphanInv, StartDone, Live, Mapped
<1>2. CASE ExecuteOperation
  BY <1>2, ServeKeepsOrphans
<1>3. CASE RunnerEnds
  <2>1. UNCHANGED <<up, misused, processes, linkVars>> /\ Live' = Live
    BY <1>3, ExitOutcome
  <2>2. /\ UNCHANGED <<addresses, stage, request, reply, crashes>>
        /\ up /\ ~ misused /\ crashes = 0 /\ (StartDone' <=> StartDone)
    BY <2>1 DEF linkVars, clientVars, StartDone
  <2>3. \A id \in Ids : processes'[id] = processes[id]
    BY <2>1
  <2>4. QED
    BY <2>1, <2>2, <2>3 DEF OrphanInv
<1>4. CASE LinkNext /\ ~ ExecuteOperation /\ ~ RunnerEnds
  <2>1. UNCHANGED vars
    BY <1>4, ClientSteps
  <2>2. up /\ ~ misused
    BY <2>1 DEF vars
  <2>3. QED
    BY <1>4, <2>1, <2>2, ClientSteps, ClientKeepsOrphans
<1>5. QED
  BY <1>1, <1>2, <1>3, <1>4

\* What runs is not deleted.
LEMMA RunningAreKept == MapInv /\ RunningNotDeleted /\ [Next]_vars => RunningNotDeleted'
<1> SUFFICES ASSUME MapInv, RunningNotDeleted, [Next]_vars,
                    NEW i \in DOMAIN runners', runners'[i].running
             PROVE  ~ runners'[i].deleted
  BY DEF RunningNotDeleted
<1>0. TypeOK /\ Len(runners) \in Nat /\ DOMAIN runners = 1 .. Len(runners)
  BY DEF MapInv, TypeOK
<1>1. ASSUME NEW id \in Ids, NEW done \in BOOLEAN, CanStart,
             runners' = Append(runners, NewRunner(id, done))
      PROVE  ~ runners'[i].deleted
  <2>1. In \in Ports /\ Out \in Ports
    BY <1>1, TopOfStack DEF CanStart, MapInv
  <2>2. NewRunner(id, done) \in Runner /\ ~ NewRunner(id, done).deleted
    BY <2>1 DEF NewRunner, Runner
  <2>3. /\ DOMAIN runners' = 1 .. Len(runners) + 1
        /\ \A j \in DOMAIN runners : runners'[j] = runners[j]
        /\ runners'[Len(runners) + 1] = NewRunner(id, done)
    BY <1>0, <1>1, <2>2, AppendRunner DEF TypeOK
  <2>4. CASE i = Len(runners) + 1
    BY <2>2, <2>3, <2>4
  <2>5. CASE i # Len(runners) + 1
    BY <1>0, <2>3, <2>5 DEF RunningNotDeleted
  <2>6. QED
    BY <2>4, <2>5
<1>2. ASSUME NEW set, StopRunners(set) PROVE ~ runners'[i].deleted
  BY <1>2 DEF StopRunners, Stopped, RunningNotDeleted
<1>3. ASSUME NEW k \in DOMAIN runners, RunnerExits(k) PROVE ~ runners'[i].deleted
  <2>1. runners[k] \in Runner
    BY <1>0, <1>3 DEF TypeOK
  <2>2. i \in DOMAIN runners
    BY <1>3 DEF RunnerExits
  <2>3. runners'[i] = IF i = k THEN [runners[k] EXCEPT !.running = FALSE] ELSE runners[i]
    BY <1>3, <2>2 DEF RunnerExits
  <2>4. QED
    BY <2>1, <2>2, <2>3 DEF RunningNotDeleted, Runner
<1>4. CASE UNCHANGED runners
  BY <1>4 DEF RunningNotDeleted
<1>5. QED
  BY <1>1, <1>2, <1>3, <1>4 DEF Next, vars, StartAnalytic, StartThrows, StartFails,
     StopAnalytic, StopOfDeletedAborts, StopOfDeletedGoesOn, KillAllAnalytics, KillAllAborts

\* A process that runs without a client that knows of it has one of the
\* causes named, for any number of ids and starts (OrphansHaveACause).
THEOREM OrphansAreCaused == LinkSpec => []OrphansHaveACause
<1>1. LinkInit => AddressInv /\ OrphanInv
  BY DEF LinkInit, Init, AddressInv, OrphanInv, NoAddresses, StartDone, Live, Mapped
<1>2. LinkSpec => []MapInv
  BY LinkRefinesServer, MapHolds, PTL
<1>3. LinkSpec => []RunningNotDeleted
  <2>1. Init => RunningNotDeleted
    BY DEF Init, RunningNotDeleted
  <2>2. Spec => []RunningNotDeleted
    BY <2>1, MapHolds, RunningAreKept, PTL DEF Spec
  <2>3. QED
    BY <2>2, LinkRefinesServer, PTL
<1>4. ClientInv /\ MapInv /\ AddressInv /\ OrphanInv /\ RunningNotDeleted
        /\ RunningIsReachable => OrphansHaveACause
  <2> SUFFICES ASSUME ClientInv, MapInv, AddressInv, OrphanInv, RunningNotDeleted,
                      RunningIsReachable, up, ~ misused, crashes = 0,
                      NEW i \in DOMAIN runners, runners[i].running,
                      ~ InQuestion(runners[i].id), runners[i].done, ~ Overwritten(i)
               PROVE  addresses[runners[i].id] = <<runners[i].in, runners[i].out>>
    BY DEF OrphansHaveACause
  <2> DEFINE id == runners[i].id
  <2>1. id \in Ids /\ i \in Nat \ {0}
    <3>1. runners[i] \in Runner
      BY DEF MapInv, TypeOK
    <3>2. DOMAIN runners \subseteq Nat \ {0}
      BY DEF MapInv, TypeOK
    <3>3. QED
      BY <3>1, <3>2 DEF Runner
  <2>2. processes[id] = i /\ ~ runners[i].deleted
    BY DEF RunningIsReachable, RunningNotDeleted
  <2>3. processes[id] \in Live
    BY <2>1, <2>2 DEF Live, Mapped
  <2>4. ~ (StartDone /\ request.analyticinstanceid = id) /\ ~ Superseded(id)
    BY DEF InQuestion, StartDone, Superseded, Start, Stop, KillAll
  <2>5. addresses[id] # None
    BY <2>1, <2>3, <2>4 DEF OrphanInv
  <2>6. Serves(id, addresses[id])
    BY <2>1, <2>4, <2>5 DEF AddressInv
  <2>7. QED
    BY <2>2, <2>6 DEF Serves
<1>5. QED
  BY <1>1, <1>2, <1>3, <1>4, ClientHolds, LinkReachable, AddressInductive, OrphanInductive,
     PTL DEF LinkSpec
=============================================================================
