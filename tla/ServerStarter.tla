--------------------------- MODULE ServerStarter ----------------------------
(***************************************************************************)
(* The Server Starter (OpenCCTVServer_Starter): one thread that serves     *)
(* start, stop, restart and status requests for the OpenCCTV Server, its   *)
(* child process.  It keeps the pid of the child and a status; the         *)
(* operating system keeps the children, which end when they like.  The     *)
(* starter learns of it only through waitpid, which it calls in readStatus *)
(* and in the loop of stop, and which forgets a child once it was told.    *)
(* SIGINT ends the starter and leaves the child alone; the next starter    *)
(* knows of no child.                                                      *)
(*                                                                         *)
(* Its socket is a REP socket: it takes the next request only after it     *)
(* answered the last one.                                                  *)
(*                                                                         *)
(* A child is numbered by its fork, and the number stands for its pid.     *)
(***************************************************************************)
EXTENDS Integers, Sequences

CONSTANTS
  Tries,     \* waitpid calls of a stop: 9 in Process::stop
  MaxForks   \* bound: children ever forked

ASSUME StarterAssumption == Tries \in Nat \ {0} /\ MaxForks \in Nat

VARIABLES
  serverStatus,  \* _sServerStatus
  pid,           \* _pid, 0 for none
  children,
  request,       \* "start", "check" (fork done), "stop" or "restart" (in the loop)
  tries,         \* waitpid calls of this stop
  reply,         \* type of the last reply
  orphans        \* children of starters that ended

starterVars == <<serverStatus, pid, children, request, tries, reply, orphans>>

(***************************************************************************)
(* A child: forked and not in execv yet; serving; failed, when execv       *)
(* returned and the child is a copy of the starter on its way to an end;   *)
(* killed by SIGKILL; exited and not waited for; reaped, so that its pid   *)
(* is anybody's.                                                           *)
(***************************************************************************)
Child == {"forked", "serving", "failed", "killed", "exited", "reaped"}
Alive == {"forked", "serving", "failed", "killed"}

StarterTypeOK ==
  /\ serverStatus \in {"STOPPED", "RUNNING"}
  /\ children \in Seq(Child) /\ Len(children) <= MaxForks
  /\ pid \in 0 .. Len(children)
  /\ request \in {"idle", "start", "check", "stop", "restart"}
  /\ tries \in 0 .. Tries
  /\ reply \in {"None", "StartReply", "StopReply", "StatusReply", "Error"}
  /\ orphans \subseteq 1 .. Len(children)
  /\ request = "check" => pid > 0

StarterInit ==
  /\ serverStatus = "STOPPED" /\ pid = 0 /\ children = <<>>
  /\ request = "idle" /\ tries = 0
  /\ reply = "None" /\ orphans = {}

Becomes(i, state) == children' = [children EXCEPT ![i] = state]

\* readFromSocket: it waits for a request.
Listening == request = "idle"

\* A reply is sent to the client that waits for it.
Answer(type) == request' = "idle" /\ reply' = type

\* Its text, whatever its type, has the status and the pid kept by then.
Message == [type |-> reply, serverstatus |-> serverStatus, serverpid |-> pid]

SendErrorReply == Answer("Error")

(***************************************************************************)
(* The child process.  A server ends of itself or on SIGTERM, or hangs in  *)
(* its handler, which waits for the Analytic Server.                       *)
(***************************************************************************)

Exec(i) == children[i] = "forked" /\ (Becomes(i, "serving") \/ Becomes(i, "failed"))

Exits(i) == children[i] \in Alive /\ Becomes(i, "exited")

ChildStep ==
  /\ \E i \in DOMAIN children : Exec(i) \/ Exits(i)
  /\ UNCHANGED <<serverStatus, pid, request, tries, reply, orphans>>

\* waitpid with WNOHANG gave no child: it is alive.
WaitAlive == children[pid] \in Alive /\ UNCHANGED children

\* waitpid gave the child: its pid is free from now on.
WaitReaps == children[pid] = "exited" /\ Becomes(pid, "reaped")

\* waitpid failed: there is no such child.
WaitFails == children[pid] = "reaped" /\ UNCHANGED children

(***************************************************************************)
(* execServerStart                                                         *)
(***************************************************************************)

TakeStart ==
  /\ Listening
  /\ request' = "start"
  /\ UNCHANGED <<serverStatus, pid, children, tries, reply, orphans>>

\* Mutant: the status is not looked at.
ForkAnyway ==
  /\ request = "start"
  /\ Len(children) < MaxForks
  /\ children' = Append(children, "forked")
  /\ pid' = Len(children) + 1
  /\ request' = "check"
  /\ UNCHANGED <<serverStatus, tries, reply, orphans>>

Fork ==
  /\ request = "start"
  /\ serverStatus = "STOPPED"
  /\ Len(children) < MaxForks
  /\ children' = Append(children, "forked")
  /\ pid' = Len(children) + 1
  /\ request' = "check"
  /\ UNCHANGED <<serverStatus, tries, reply, orphans>>

ForkFails ==
  /\ request = "start"
  /\ serverStatus = "STOPPED"
  /\ SendErrorReply
  /\ UNCHANGED <<serverStatus, pid, children, tries, orphans>>

RefuseStart ==
  /\ request = "start"
  /\ serverStatus = "RUNNING"
  /\ SendErrorReply
  /\ UNCHANGED <<serverStatus, pid, children, tries, orphans>>

\* readStatus right after the fork.
CheckStart ==
  /\ request = "check"
  /\ \/ WaitAlive /\ serverStatus' = "RUNNING" /\ Answer("StartReply")
     \/ WaitReaps /\ serverStatus' = "STOPPED" /\ SendErrorReply
  /\ UNCHANGED <<pid, tries, orphans>>

(***************************************************************************)
(* execServerStop and execServerRestart                                    *)
(***************************************************************************)

\* kill with SIGTERM: its effect is up to the child.
TakeStop(o) ==
  /\ Listening
  /\ request' = o
  /\ tries' = 0
  /\ UNCHANGED <<serverStatus, pid, children, reply, orphans>>

\* Mutant: the loop has no limit.
WaitUnlimited ==
  /\ request \in {"stop", "restart"} /\ pid > 0
  /\ tries < Tries
  /\ WaitAlive \/ WaitReaps
  /\ UNCHANGED <<serverStatus, pid, request, tries, reply, orphans>>

\* One turn of the loop, but the one that breaks it.
Wait ==
  /\ request \in {"stop", "restart"} /\ pid > 0
  /\ tries < Tries
  /\ WaitAlive \/ WaitReaps
  /\ tries' = tries + 1
  /\ UNCHANGED <<serverStatus, pid, request, reply, orphans>>

\* stop returns; restart goes on with execServerStart and the status it had.
StopReturns ==
  /\ pid' = 0
  /\ \/ request = "stop" /\ serverStatus' = "STOPPED" /\ Answer("StopReply")
     \/ request = "restart" /\ request' = "start" /\ UNCHANGED <<serverStatus, reply>>
  /\ UNCHANGED <<tries, orphans>>

Died ==
  /\ request \in {"stop", "restart"}
  /\ pid > 0 => tries < Tries /\ WaitFails
  /\ UNCHANGED children
  /\ StopReturns

\* Mutant: a child that does not end is left alone.
GiveUp ==
  /\ request \in {"stop", "restart"} /\ pid > 0
  /\ tries = Tries
  /\ UNCHANGED children
  /\ StopReturns

\* kill with SIGKILL; nobody waits for this child any more.
Kill ==
  /\ request \in {"stop", "restart"} /\ pid > 0
  /\ tries = Tries
  /\ IF children[pid] \in Alive THEN Becomes(pid, "killed") ELSE UNCHANGED children
  /\ StopReturns

(***************************************************************************)
(* sendStatusReply                                                         *)
(***************************************************************************)

Status ==
  /\ Listening
  /\ \/ pid > 0 /\ WaitAlive /\ serverStatus' = "RUNNING"
     \/ pid > 0 /\ (WaitReaps \/ WaitFails) /\ serverStatus' = "STOPPED"
     \/ pid = 0 /\ UNCHANGED children /\ serverStatus' = "STOPPED"
  /\ Answer("StatusReply")
  /\ UNCHANGED <<pid, tries, orphans>>

\* A request that does not parse, or whose type is none of the four.
RejectRequest ==
  /\ Listening
  /\ SendErrorReply
  /\ UNCHANGED <<serverStatus, pid, children, tries, orphans>>

(***************************************************************************)
(* exitHandler, on SIGINT: the child is not stopped.  A client that waits  *)
(* for a reply gets none.                                                  *)
(***************************************************************************)

Exit ==
  /\ serverStatus' = "STOPPED" /\ pid' = 0
  /\ request' = "idle" /\ tries' = 0 /\ reply' = "None"
  /\ orphans' = DOMAIN children
  /\ UNCHANGED children

-----------------------------------------------------------------------------
StarterSteps ==
  Fork \/ ForkFails \/ RefuseStart \/ CheckStart \/ Wait \/ Died \/ Kill

StarterRequests ==
  TakeStart \/ (\E o \in {"stop", "restart"} : TakeStop(o)) \/ Status \/ RejectRequest

StarterNext == StarterRequests \/ StarterSteps \/ ChildStep \/ Exit

StarterSpec == StarterInit /\ [][StarterNext]_starterVars

\* The starter goes on with the request it serves; a child need never end.
LiveStarterSpec == StarterSpec /\ WF_starterVars(StarterSteps)

-----------------------------------------------------------------------------
InUse == {i \in DOMAIN children : children[i] \in Alive \ {"killed"}}

(***************************************************************************)
(* A starter never loses hold of a server it forked: one that lives and    *)
(* was not sent SIGKILL is the one whose pid it keeps.  So only the end of *)
(* a starter makes for two servers that write to the same database.        *)
(***************************************************************************)
NoServerLost == InUse \subseteq {pid} \cup orphans

(***************************************************************************)
(* A reply that says Stopped is true of what this starter forked, whatever *)
(* starts failed, servers crashed or would not end, so that the start that *)
(* follows it makes the only server.                                       *)
(***************************************************************************)
StoppedIsTrue ==
  Listening /\ Message.serverstatus = "STOPPED" => InUse \subseteq orphans

(***************************************************************************)
(* Every request is answered, also when the server hangs on SIGTERM.       *)
(***************************************************************************)
RequestsAreAnswered == ~ Listening ~> Listening
=============================================================================
