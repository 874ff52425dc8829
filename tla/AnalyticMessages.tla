-------------------------- MODULE AnalyticMessages --------------------------
(***************************************************************************)
(* The messages between the OpenCCTV Server and the Analytic Server, and   *)
(* the first line an analytic process writes.  A message is a record whose *)
(* domain is the set of the elements that are in the XML document.  The    *)
(* extractors turn a text that is no XML into an opencctv::Exception, but  *)
(* an element that is not there ends the program: ptree_bad_path is caught *)
(* nowhere.                                                                *)
(***************************************************************************)

Start == "startanalytic"
Stop == "stopanalytic"
KillAll == "killallanalytics"

\* An error text is put between the tags as it is.  One with "<" or "&" in
\* it, like the output of a process, makes this.
NotXML == [text |-> "not XML"]

\* "", the address in the reply to a start that was not done.
NoAddress == 0

Survives(message, elements) == message = NotXML \/ elements \subseteq DOMAIN message

(***************************************************************************)
(* Requests.                                                               *)
(***************************************************************************)

AnalyticStartRequest(id) ==
  [operation |-> Start, analyticinstanceid |-> id, analyticdirlocation |-> "plugin"]

AnalyticStopRequest(id) == [operation |-> Stop, analyticinstanceid |-> id]

KillAllAnalyticProcessesRequest == [operation |-> KillAll]

ExtractsRequest(m) ==
  /\ Survives(m, {"operation"})
  /\ m.operation = Start => Survives(m, {"analyticinstanceid", "analyticdirlocation"})
  /\ m.operation = Stop => Survives(m, {"analyticinstanceid"})

(***************************************************************************)
(* Replies.                                                                *)
(***************************************************************************)

AnalyticStartReply(done, in, out) ==
  [operation |-> Start, done |-> done, message |-> "",
   analyticqueueinaddress |-> in, analyticqueueoutaddress |-> out]

ErrorReply(operation) == [operation |-> operation, done |-> FALSE, message |-> ""]

\* Mutant: the reply of the other operations.
StartErrorReplyShort == ErrorReply(Start)

\* The addresses are those of the function, not of the block where the ports
\* were taken: they are empty.
StartErrorReply == AnalyticStartReply(FALSE, NoAddress, NoAddress)

AnalyticStopReply(done) == [operation |-> Stop, done |-> done, message |-> ""]

KillAllAnalyticProcessesReply(done) == [operation |-> KillAll, done |-> done, message |-> ""]

ExtractsReply(request, m) ==
  CASE request.operation = Start ->
         Survives(m, {"done", "message", "analyticqueueinaddress", "analyticqueueoutaddress"})
    [] request.operation = Stop -> Survives(m, {"done", "message"})
    [] request.operation = KillAll -> Survives(m, {"done", "message"})

Done(m) == m # NotXML /\ m.done

(***************************************************************************)
(* The first line of an analytic process.                                  *)
(***************************************************************************)

NoLine == [text |-> ""]

PidMessage(pid) == [pid |-> pid]

FirstLines == {NoLine, NotXML, PidMessage(1)}

GetPid(line) == IF line = NoLine THEN 0 ELSE line.pid
=============================================================================
