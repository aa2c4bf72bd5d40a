----------------------------- MODULE ClientSession -----------------------------
(***************************************************************************)
(* One connection on port 9997: RelayTTSDaemon.handle_client, with          *)
(* _recv_request, _send_response, _handle_batch and                         *)
(* _handle_batch_streaming (relaytts_daemon.py).  The handler reads one     *)
(* request, answers it, writes at most one end line to the log, and closes. *)
(*                                                                          *)
(* The peer and the network are the environment: the request may be any     *)
(* frame or none, and every send may time out after part of its bytes (the  *)
(* peer stalls, and may read on later) or find the connection reset.        *)
(***************************************************************************)
EXTENDS Naturals, Sequences, FiniteSets

CONSTANT MaxItems  \* bound on the items of a batch; the code's is 64

ASSUME ItemsAssumption == MaxItems \in Nat

VARIABLES
    pc,      \* where handle_client stands
    req,     \* what _recv_request returned: its kind, and its number of items
    results, \* per item of a batch: synthesized or not
    wire,    \* what the kernel has taken for the peer, in order
    reset,   \* the connection is known to be gone
    scope,   \* the request's trace id is in scope in the handler's thread
    end,     \* the local `end`: status, and ok_items where it has them
    log      \* history: the end lines written

vars == <<pc, req, results, wire, reset, scope, end, log>>

\* A frame that _recv_request or request.get raises on: cut short or stalled,
\* raw JSON, too large, undecodable, or JSON but no object.
BadFrames == {"truncated", "rawjson", "toolarge", "undecodable", "notobject"}
Refusable == {"batchnotlist", "batchtoolarge", "notext"}
Batches   == {"batch", "stream"}

NoRequest == [kind |-> "none", items |-> 0]
Requests  == [kind : BadFrames \cup Refusable \cup {"hangup", "voices", "single"},
              items : {0}]
             \cup [kind : Batches, items : 0..MaxItems]

\* Units the daemon sends.  "part" is a proper part of the unit it was part of.
Unit(what, ok) == [what |-> what, ok |-> ok]
Frames == {"refusal", "voices", "audio", "results", "error"}
Lines  == {"chunk", "complete"}

Count(rs) == Cardinality({i \in DOMAIN rs : rs[i]})

Silent == [status |-> "none", ok |-> 0]

Init ==
    /\ pc = "receive"
    /\ req = NoRequest
    /\ results = <<>>
    /\ wire = <<>>
    /\ reset = FALSE
    /\ scope = FALSE
    /\ end = Silent
    /\ log = <<>>

-------------------------------------------------------------------------------
(* sendall on the client's socket *)

Sent(u) == /\ ~reset
           /\ wire' = Append(wire, u)
           /\ UNCHANGED reset

\* A timeout, after some of the bytes or none; or a connection that is gone.
NotSent(u) == \/ ~reset /\ wire' = Append(wire, Unit("part", 0)) /\ UNCHANGED reset
              \/ ~reset /\ UNCHANGED <<wire, reset>>
              \/ reset' = TRUE /\ UNCHANGED wire

-------------------------------------------------------------------------------
(* handle_client *)

\* The except clause: whatever was decided before, the request failed.
Raise == /\ pc' = "report"
         /\ end' = [status |-> "error", ok |-> 0]

\* _recv_request.  A close before the first byte is a probe: nothing to say.
Receive(r) ==
    /\ pc = "receive"
    /\ req' = r
    /\ scope' = (r.kind \notin BadFrames \cup {"hangup"})
    /\ CASE r.kind \in BadFrames -> Raise
         [] r.kind = "hangup"    -> pc' = "close" /\ UNCHANGED end
         [] OTHER                -> pc' = "decide" /\ UNCHANGED end
    /\ UNCHANGED <<results, wire, reset, log>>

Decide ==
    /\ pc = "decide"
    /\ CASE req.kind \in Refusable ->
              pc' = "refuse" /\ end' = [status |-> "denied", ok |-> 0]
         [] req.kind = "voices" -> pc' = "answer" /\ UNCHANGED end
         [] OTHER               -> pc' = "synthesize" /\ UNCHANGED end
    /\ UNCHANGED <<req, results, wire, reset, scope, log>>

\* refuse(): the end line is decided first, then the refusal is sent.
Refuse ==
    /\ pc = "refuse"
    /\ \/ Sent(Unit("refusal", 0)) /\ pc' = "close" /\ UNCHANGED end
       \/ NotSent(Unit("refusal", 0)) /\ Raise
    /\ UNCHANGED <<req, results, scope, log>>

\* A single request: what synthesize() raises fails the request.
Synthesize(ok) ==
    /\ pc = "synthesize" /\ req.kind = "single"
    /\ IF ok THEN pc' = "answer" /\ UNCHANGED end ELSE Raise
    /\ UNCHANGED <<req, results, wire, reset, scope, log>>

\* Mutant: the loop runs once too often.
SynthesizeItemTooMany(ok) ==
    /\ pc = "synthesize" /\ req.kind \in Batches
    /\ Len(results) <= req.items
    /\ results' = Append(results, ok)
    /\ pc' = IF req.kind = "stream" THEN "chunk" ELSE "synthesize"
    /\ UNCHANGED <<req, wire, reset, scope, end, log>>

\* One more item of a batch: what synthesize() raises fails only this item.
SynthesizeItem(ok) ==
    /\ pc = "synthesize" /\ req.kind \in Batches
    /\ Len(results) < req.items
    /\ results' = Append(results, ok)
    /\ pc' = IF req.kind = "stream" THEN "chunk" ELSE "synthesize"
    /\ UNCHANGED <<req, wire, reset, scope, end, log>>

\* The items are done; the reply is made.
EndOfBatch ==
    /\ pc = "synthesize" /\ req.kind \in Batches
    /\ Len(results) = req.items
    /\ pc' = "answer"
    /\ UNCHANGED <<req, results, wire, reset, scope, end, log>>

Chunk == Unit("chunk", IF results[Len(results)] THEN 1 ELSE 0)

\* Mutant: a chunk that cannot be sent is skipped.
SendChunkOrSkip ==
    /\ pc = "chunk"
    /\ Sent(Chunk) \/ NotSent(Chunk)
    /\ pc' = "synthesize"
    /\ UNCHANGED <<req, results, scope, end, log>>

\* One chunk of a stream.
SendChunk ==
    /\ pc = "chunk"
    /\ \/ Sent(Chunk) /\ pc' = "synthesize" /\ UNCHANGED end
       \/ NotSent(Chunk) /\ Raise
    /\ UNCHANGED <<req, results, scope, log>>

\* The frame or line that completes the reply.
Final == CASE req.kind = "voices" -> Unit("voices", 0)
           [] req.kind = "single" -> Unit("audio", 1)
           [] req.kind = "batch"  -> Unit("results", Count(results))
           [] req.kind = "stream" -> Unit("complete", Count(results))

\* Mutant: the request is decided before its reply is sent, and stays decided.
AnswerDecidedEarly ==
    /\ pc = "answer"
    /\ end' = [status |-> "ok", ok |-> Final.ok]
    /\ \/ Sent(Final) /\ pc' = "close"
       \/ NotSent(Final) /\ pc' = "report"
    /\ UNCHANGED <<req, results, scope, log>>

\* The reply is sent, and only then is the request decided.
Answer ==
    /\ pc = "answer"
    /\ \/ /\ Sent(Final)
          /\ pc' = "close"
          /\ end' = [status |-> "ok", ok |-> Final.ok]
       \/ NotSent(Final) /\ Raise
    /\ UNCHANGED <<req, results, scope, log>>

\* Mutant: the except clause waits for an error frame the peer will take.
ReportUntilSent ==
    /\ pc = "report"
    /\ \/ Sent(Unit("error", 0)) /\ pc' = "close"
       \/ NotSent(Unit("error", 0)) /\ UNCHANGED pc
    /\ UNCHANGED <<req, results, scope, end, log>>

\* The except clause sends an error frame, and gives up on it if it cannot.
Report ==
    /\ pc = "report"
    /\ Sent(Unit("error", 0)) \/ NotSent(Unit("error", 0))
    /\ pc' = "close"
    /\ UNCHANGED <<req, results, scope, end, log>>

\* The finally clause: the end line, if there is one, with the trace id that is
\* in scope; then the scope and the socket are closed.
Close ==
    /\ pc = "close"
    /\ log' = IF end = Silent THEN log
              ELSE Append(log, [status |-> end.status, ok |-> end.ok, traced |-> scope])
    /\ scope' = FALSE
    /\ pc' = "done"
    /\ UNCHANGED <<req, results, wire, reset, end>>

Handle == \/ Decide \/ Refuse \/ EndOfBatch \/ SendChunk \/ Answer \/ Report
          \/ Close
          \/ \E r \in Requests : Receive(r)
          \/ \E ok \in BOOLEAN : Synthesize(ok) \/ SynthesizeItem(ok)

Done == pc = "done" /\ UNCHANGED vars

Next == Handle \/ Done

Safety == Init /\ [][Next]_vars

\* Every recv and sendall is bounded by CLIENT_TIMEOUT_S and the frame size,
\* every synthesis by the engine's timeout and attempts.
Spec == Safety /\ WF_vars(Handle)

-------------------------------------------------------------------------------
Units == [what : Frames \cup Lines \cup {"part"}, ok : 0..(MaxItems + 1)]

TypeOK ==
    /\ pc \in {"receive", "decide", "refuse", "synthesize", "chunk", "answer",
               "report", "close", "done"}
    /\ req \in Requests \cup {NoRequest}
    /\ results \in Seq(BOOLEAN) /\ Len(results) <= req.items
    /\ wire \in Seq(Units)
    /\ reset \in BOOLEAN
    /\ scope \in BOOLEAN
    /\ end \in [status : {"none", "ok", "denied", "error"}, ok : 0..(MaxItems + 1)]
    /\ log \in Seq([status : {"ok", "denied", "error"}, ok : 0..(MaxItems + 1),
                   traced : BOOLEAN])

\* The whole reply to `req`, unit by unit, when these are its items' results.
Reply == CASE req.kind = "none"   -> <<>>
           [] req.kind = "stream" ->
                Append([i \in DOMAIN results |->
                          Unit("chunk", IF results[i] THEN 1 ELSE 0)],
                       Unit("complete", Count(results)))
           [] req.kind \in Refusable -> <<Unit("refusal", 0)>>
           [] req.kind \in BadFrames \cup {"hangup"} -> <<Unit("error", 0)>>
           [] OTHER -> <<Final>>

(* The log and the wire agree: "ok" or "denied" is logged exactly when the   *)
(* peer was given the whole reply, with as many successes as were logged.    *)
(* The one end line can be traced to its request, unless that could not be   *)
(* read; a port probe gets no answer and no line.                            *)
EndTellsTruth ==
    pc = "done" =>
        \/ req.kind = "hangup" /\ wire = <<>> /\ log = <<>>
        \/ /\ req.kind # "hangup" /\ Len(log) = 1
           /\ (log[1].status = "ok") =
                (wire = Reply /\ Len(results) = req.items
                   /\ req.kind \notin Refusable \cup BadFrames)
           /\ (log[1].status = "denied") = (wire = Reply /\ req.kind \in Refusable)
           /\ log[1].status = "ok" => log[1].ok = wire[Len(wire)].ok
           /\ log[1].traced = (req.kind \notin BadFrames)

(* "complete" closes a stream that has one chunk for every item, in order,   *)
(* and counts the successful ones; no chunk is skipped or sent twice.        *)
StreamIsWhole ==
    \A n \in DOMAIN wire : wire[n].what = "complete" =>
        /\ n = req.items + 1 /\ n = Len(wire)
        /\ \A i \in 1..req.items :
              wire[i] = Unit("chunk", IF results[i] THEN 1 ELSE 0)
        /\ wire[n].ok = Count(results)

(* Every request is over after a while, whatever the peer does.              *)
SessionEnds == pc = "receive" ~> pc = "done"
===============================================================================
