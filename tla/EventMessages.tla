--------------------------- MODULE EventMessages ----------------------------
(***************************************************************************)
(* The messages between the web interface and the OpenCCTV Server, both    *)
(* sides of them.  A message is an XML document with the root opencctvmsg; *)
(* here it is a record whose domain is the set of the elements that are in *)
(* it.  The builders are pt.put or Nokogiri calls, the extractors pt.get   *)
(* or xpath(...)[0]: both sides fail on an element that is not there.      *)
(***************************************************************************)

Has(message, elements) == elements \subseteq DOMAIN message

(***************************************************************************)
(* Requests, built by the web interface.                                   *)
(***************************************************************************)

\* inputs: pairs of the name of an input and the stream it is given.
StartAnalyticInstance(i, plugin, inputs) ==
  [type |-> "StartAnalyticInstance", analyticinstanceid |-> i,
   analyticplugindir |-> plugin, inputstreams |-> inputs]

StopAnalyticInstance(i) ==
  [type |-> "StopAnalyticInstance", analyticinstanceid |-> i]

StopAnalyticInstances(a, ids) ==
  [type |-> "StopAnalyticInstances", analyticid |-> a, analyticinstances |-> ids]

ServerRequest(type) == [type |-> type]

ServerEvents == {"StartServer", "StopServer", "RestartServer", "ServerStatus"}

(***************************************************************************)
(* Their extraction by the server, before it acts.                         *)
(***************************************************************************)

ExtractsStart(m) ==
  /\ Has(m, {"analyticinstanceid", "analyticplugindir", "inputstreams"})
  /\ m.inputstreams # {}

ExtractsStop(m) == Has(m, {"analyticinstanceid"})

ExtractsStopAll(m) == Has(m, {"analyticid", "analyticinstances"})

(***************************************************************************)
(* Replies, built by the server.  What content says is not kept, but that  *)
(* the replies of success have no "error" in it is: stopAnalytics searches *)
(* its partial replies for the word.                                       *)
(***************************************************************************)

StartReply(status) ==
  [type |-> "StartReply", content |-> "", serverstatus |-> status, serverpid |-> ""]

StopReply(status) ==
  [type |-> "StopReply", content |-> "", serverstatus |-> status, serverpid |-> ""]

StatusReply(status) ==
  [type |-> "StatusReply", content |-> "", serverstatus |-> status, serverpid |-> ""]

AnalyticStartReply == [type |-> "AnalyticStartReply", content |-> ""]

AnalyticStopReply == [type |-> "AnalyticStopReply", content |-> ""]

AnalyticsStopReply == [type |-> "AnalyticsStopReply", content |-> ""]

\* Mutant: an error reply without the state of the server.
InvalidReplyShort(status) == [type |-> "Error", content |-> "error"]
InvalidReply(status) ==
  [type |-> "Error", content |-> "error", serverstatus |-> status, serverpid |-> ""]

(***************************************************************************)
(* What the models of the web interface take from a reply: the one of the  *)
(* server and those of an instance and an analytic.                        *)
(***************************************************************************)

ParsesServerReply(m) == Has(m, {"type", "content", "serverstatus", "serverpid"})

ParsesAnalyticReply(m) == Has(m, {"type", "content"})

Understands(request, reply) ==
  IF request.type \in ServerEvents
  THEN ParsesServerReply(reply) ELSE ParsesAnalyticReply(reply)
=============================================================================
