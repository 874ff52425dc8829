---------------------------- MODULE AnalyticLink ----------------------------
(***************************************************************************)
(* The Analytic Server with its client, the OpenCCTV Server: the REQ/REP   *)
(* pair, the requests of AnalyticInstanceManager, what the client keeps of *)
(* the replies, and how the client ends: in order, by a signal, or not.    *)
(*                                                                         *)
(* The client asks what the Analytic Server can be asked, at any time and  *)
(* for any instance: which of it ServerControl lets happen is not repeated *)
(* here.  The client has one request at a time on its way, and waits for   *)
(* the reply without a limit.                                              *)
(***************************************************************************)
EXTENDS AnalyticServer, AnalyticMessages

CONSTANTS
  None,        \* no message, no addresses
  MaxCrashes   \* bound: ends of the client that are not in order

ASSUME LinkAssumption == None \notin Ports \X Ports

VARIABLES
  alive,       \* the OpenCCTV Server's process is running
  manager,     \* an AnalyticInstanceManager is in its ApplicationModel
  terminating, \* it is in terminateHandler
  addresses,   \* its image input and results output queue addresses
  stage,       \* of the request: "ready" (there is none), "sent", "replied"
  request, reply,
  crashes

clientVars == <<alive, manager, terminating, addresses>>
linkVars == <<clientVars, stage, request, reply, crashes>>

NoAddresses == [id \in Ids |-> None]

LinkInit ==
  /\ Init
  /\ alive = TRUE /\ manager = FALSE /\ terminating = FALSE
  /\ addresses = NoAddresses
  /\ stage = "ready" /\ request = None /\ reply = None
  /\ crashes = 0

(***************************************************************************)
(* The client sends.                                                       *)
(***************************************************************************)

\* A start of the server; one that went wrong before has left a manager.
CreateManager ==
  /\ alive /\ stage = "ready" /\ ~ manager
  /\ manager' = TRUE
  /\ UNCHANGED <<vars, alive, terminating, addresses, stage, request, reply, crashes>>

WriteToSocket(message) ==
  /\ alive /\ manager /\ stage = "ready"
  /\ stage' = "sent"
  /\ request' = message
  /\ UNCHANGED <<vars, alive, manager, addresses, reply, crashes>>

StartAnalyticInstance(id) ==
  /\ Len(runners) < MaxStarts
  /\ WriteToSocket(AnalyticStartRequest(id))
  /\ UNCHANGED terminating

StopAnalyticInstance(id) ==
  /\ WriteToSocket(AnalyticStopRequest(id))
  /\ UNCHANGED terminating

\* ApplicationModel::clear, of a stop of the server.
KillAllAnalyticInstances ==
  /\ WriteToSocket(KillAllAnalyticProcessesRequest)
  /\ UNCHANGED terminating

(***************************************************************************)
(* The Analytic Server takes a request, serves it and replies.  When the   *)
(* client has gone the reply is dropped.                                   *)
(***************************************************************************)

Asked(operation) == stage = "sent" /\ request.operation = operation

Answer(message) ==
  /\ stage' = IF alive THEN "replied" ELSE "ready"
  /\ request' = IF alive THEN request ELSE None
  /\ reply' = IF alive THEN message ELSE None
  /\ UNCHANGED <<clientVars, crashes>>

\* AnalyticProcess::startAnalytic, by the first line of the process.
ServeStart(id) ==
  \/ /\ up /\ ports = <<>>
     /\ UNCHANGED vars
     /\ Answer(AnalyticStartReply(FALSE, NoAddress, NoAddress))
  \/ \E line \in FirstLines :
       IF line = NotXML
       THEN StartThrows(id) /\ \E m \in {StartErrorReply, NotXML} : Answer(m)
       ELSE \/ GetPid(line) > 0 /\ StartAnalytic(id) /\ Answer(AnalyticStartReply(TRUE, In, Out))
            \/ GetPid(line) = 0 /\ StartFails /\ Answer(StartErrorReply)

ServeStop(id) ==
  \/ /\ up /\ processes[id] = 0
     /\ UNCHANGED vars
     /\ Answer(AnalyticStopReply(FALSE))
  \/ /\ StopAnalytic(id) \/ StopOfDeletedGoesOn(id)
     /\ \E done \in BOOLEAN : Answer(AnalyticStopReply(done))
  \/ StopOfDeletedAborts(id) /\ UNCHANGED linkVars

ServeKillAll ==
  \/ KillAllAnalytics /\ Answer(KillAllAnalyticProcessesReply(TRUE))
  \/ KillAllAborts /\ UNCHANGED linkVars

ExecuteOperation ==
  \/ Asked(Start) /\ ServeStart(request.analyticinstanceid)
  \/ Asked(Stop) /\ ServeStop(request.analyticinstanceid)
  \/ Asked(KillAll) /\ ServeKillAll

(***************************************************************************)
(* The client reads the reply.                                             *)
(***************************************************************************)

ReadFromSocket(operation) ==
  /\ stage = "replied" /\ request.operation = operation
  /\ stage' = "ready" /\ request' = None /\ reply' = None
  /\ UNCHANGED <<vars, crashes>>

StartReplied ==
  /\ ReadFromSocket(Start)
  /\ addresses' =
       IF Done(reply)
       THEN [addresses EXCEPT ![request.analyticinstanceid] =
               <<reply.analyticqueueinaddress, reply.analyticqueueoutaddress>>]
       ELSE addresses
  /\ UNCHANGED <<alive, manager, terminating>>

\* Mutant: the addresses of an instance that was not stopped are kept.
StopRepliedIfDone ==
  /\ ReadFromSocket(Stop)
  /\ addresses' = IF Done(reply)
                  THEN [addresses EXCEPT ![request.analyticinstanceid] = None]
                  ELSE addresses
  /\ UNCHANGED <<alive, manager, terminating>>

\* Whatever the reply says.
StopReplied ==
  /\ ReadFromSocket(Stop)
  /\ addresses' = [addresses EXCEPT ![request.analyticinstanceid] = None]
  /\ UNCHANGED <<alive, manager, terminating>>

KillAllReplied ==
  /\ ReadFromSocket(KillAll)
  /\ addresses' = NoAddresses
  /\ manager' = (manager /\ ~ Done(reply) /\ ~ terminating)
  /\ alive' = ~ terminating
  /\ terminating' = FALSE

(***************************************************************************)
(* The client ends and begins again.                                       *)
(***************************************************************************)

\* Mutant: the Analytic Server is not asked.
TerminateExits ==
  /\ alive /\ stage = "ready"
  /\ alive' = FALSE /\ manager' = FALSE /\ addresses' = NoAddresses
  /\ UNCHANGED <<vars, terminating, stage, request, reply, crashes>>

\* terminateHandler, when no request is on its way.
Terminate ==
  \/ WriteToSocket(KillAllAnalyticProcessesRequest) /\ terminating' = TRUE
  \/ /\ alive /\ ~ manager
     /\ alive' = FALSE
     /\ UNCHANGED <<vars, manager, terminating, addresses, stage, request, reply, crashes>>

\* Any other end: an abort, SIGKILL, or a signal while a request is on its
\* way, when the REQ socket refuses the kill-all with an exception that no
\* handler catches.  The message may still be in the process then.
Crash ==
  /\ alive /\ crashes < MaxCrashes
  /\ crashes' = crashes + 1
  /\ alive' = FALSE /\ manager' = FALSE /\ terminating' = FALSE
  /\ addresses' = NoAddresses
  /\ \/ stage' = "ready" /\ request' = None
     \/ stage = "sent" /\ UNCHANGED <<stage, request>>
  /\ reply' = None
  /\ UNCHANGED vars

\* The Analytic Server, idle otherwise, has the request of the one that ended
\* before any of the new one.
Begin ==
  /\ ~ alive /\ stage = "ready"
  /\ alive' = TRUE
  /\ UNCHANGED <<vars, manager, terminating, addresses, stage, request, reply, crashes>>

RunnerEnds ==
  /\ \E i \in DOMAIN runners : RunnerExits(i)
  /\ UNCHANGED linkVars

LinkNext ==
  \/ CreateManager
  \/ \E id \in Ids : StartAnalyticInstance(id) \/ StopAnalyticInstance(id)
  \/ KillAllAnalyticInstances
  \/ ExecuteOperation
  \/ StartReplied \/ StopReplied \/ KillAllReplied
  \/ Terminate \/ Crash \/ Begin
  \/ RunnerEnds

LinkSpec == LinkInit /\ [][LinkNext]_<<vars, linkVars>>

-----------------------------------------------------------------------------
\* A request that may change the process of the instance is on its way.
InQuestion(id) ==
  /\ stage # "ready"
  /\ request.operation # KillAll => request.analyticinstanceid = id

(***************************************************************************)
(* The client holds addresses only of a process the Analytic Server has,   *)
(* and exactly its ports: images never go to a port that is free or        *)
(* another instance's, through failed starts, stops that were not done,    *)
(* restarts of a known instance, kill-alls and crashes.                    *)
(***************************************************************************)
AddressesAreServed ==
  up /\ ~ misused =>
    \A id \in Ids : addresses[id] # None /\ ~ InQuestion(id) =>
      /\ processes[id] \in Live
      /\ addresses[id] = <<runners[processes[id]].in, runners[processes[id]].out>>

(***************************************************************************)
(* Every analytic process that runs is one whose addresses the client      *)
(* holds, as long as no client ended but in order, with three exceptions   *)
(* that the code makes: a request that may change it is on its way; its    *)
(* start was refused to the client, who never had its addresses; or the    *)
(* client started the same instance again, which overwrites the server's   *)
(* only pointer to it.  An end in order, by a stop or by a signal, leaves  *)
(* no other process behind.                                                *)
(***************************************************************************)
OrphansHaveACause ==
  up /\ ~ misused /\ crashes = 0 =>
    \A i \in DOMAIN runners :
      runners[i].running /\ ~ InQuestion(runners[i].id) =>
        \/ addresses[runners[i].id] = <<runners[i].in, runners[i].out>>
        \/ ~ runners[i].done
        \/ Overwritten(i)

(***************************************************************************)
(* No message ends its reader: everything the extractor of the other side  *)
(* takes from a request or from a reply, one of a failed operation         *)
(* included, is in it.                                                     *)
(***************************************************************************)
MessagesAreRead ==
  /\ stage = "sent" => ExtractsRequest(request)
  /\ stage = "replied" => ExtractsReply(request, reply)
=============================================================================
