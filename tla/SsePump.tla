------------------------------- MODULE SsePump -------------------------------
(***************************************************************************)
(* One server-sent event stream: the source a handler returned, pump_sse   *)
(* on the worker loop (_runtime.py), the bounded channel to the connection *)
(* (responder.rs) and the client.  It begins once start_stream has sent    *)
(* the status and the disconnect is being watched.                         *)
(***************************************************************************)
EXTENDS Naturals, Sequences, FiniteSets

CONSTANTS
    Buffer,        \* STREAM_BUFFER
    MaxEvents,     \* bound: events the source yields
    Pings          \* whether sse.ping is set

SsePumpAssumption == Buffer \in Nat \ {0} /\ MaxEvents \in Nat /\ Pings \in BOOLEAN

VARIABLES
    produced,      \* events the source has yielded
    pending,       \* __anext__: "none", "asked", "event", "end" or "raised"
    pump,          \* where pump_sse is
    held,          \* the events it has formatted and not yet passed on
    gone,          \* its future: "no", "queued" to be set, "set"
    sourceClosed,  \* source.close() was called
    chunks,        \* what is in the channel; 0 is a ping
    client,        \* "reading", "gone", or "told" that the stream ended
    got            \* events the client has read

vars == <<produced, pending, pump, held, gone, sourceClosed, chunks, client, got>>

-----------------------------------------------------------------------------
(* The source yields, ends, or raises when it is asked.                    *)
Yield ==
    /\ pending = "asked" /\ produced < MaxEvents
    /\ produced' = produced + 1
    /\ pending' = "event"
    /\ UNCHANGED <<pump, held, gone, sourceClosed, chunks, client, got>>

SourceEnds ==
    /\ pending = "asked"
    /\ pending' \in {"end", "raised"}
    /\ UNCHANGED <<produced, pump, held, gone, sourceClosed, chunks, client, got>>

-----------------------------------------------------------------------------
(* asyncio.wait over the next event and the disconnect: the disconnect is  *)
(* looked at first.                                                        *)

Waits == pump = "wait" /\ gone # "set"

(* Mutant of Break: the disconnect is looked at only with an event.        *)
BreakOnEvent ==
    /\ pump = "wait" /\ gone = "set" /\ pending # "asked"
    /\ pump' = "ending"
    /\ UNCHANGED <<produced, pending, held, gone, sourceClosed, chunks, client, got>>

Break ==
    /\ pump = "wait" /\ gone = "set"
    /\ pump' = "ending"
    /\ UNCHANGED <<produced, pending, held, gone, sourceClosed, chunks, client, got>>

(* Ended or raised: the stream is over, and ends as it would have.         *)
TakeEnd ==
    /\ Waits /\ pending \in {"end", "raised"}
    /\ pending' = "none"
    /\ pump' = "ending"
    /\ UNCHANGED <<produced, held, gone, sourceClosed, chunks, client, got>>

(* format_event raises.                                                    *)
TakeUnsendable ==
    /\ Waits /\ pending = "event"
    /\ pending' = "none"
    /\ pump' = "ending"
    /\ UNCHANGED <<produced, held, gone, sourceClosed, chunks, client, got>>

TakeEvent ==
    /\ Waits /\ pending = "event"
    /\ pending' = "none"
    /\ held' = <<produced>>
    /\ pump' = "sending"
    /\ UNCHANGED <<produced, gone, sourceClosed, chunks, client, got>>

(* What send_chunk answers.                                                *)
Full == client # "gone" /\ Len(chunks) >= Buffer
Sent == client # "gone" /\ Len(chunks) < Buffer

(* The loop's next turn asks the source again.                             *)
Again == pump' = "wait" /\ pending' = "asked" /\ held' = <<>>

(* Mutant of SendChunk: FULL is taken for sent.                            *)
SendChunkOnce ==
    /\ pump = "sending"
    /\ \/ Sent /\ chunks' = chunks \o held /\ Again
       \/ Full /\ Again /\ UNCHANGED chunks
       \/ client = "gone" /\ pump' = "ending" /\ held' = <<>> /\ UNCHANGED <<chunks, pending>>
    /\ UNCHANGED <<produced, gone, sourceClosed, client, got>>

SendChunk ==
    /\ pump = "sending"
    /\ \/ Sent /\ chunks' = chunks \o held /\ Again
       \/ Full /\ pump' = "full" /\ UNCHANGED <<chunks, pending, held>>
       \/ client = "gone" /\ pump' = "ending" /\ held' = <<>> /\ UNCHANGED <<chunks, pending>>
    /\ UNCHANGED <<produced, gone, sourceClosed, client, got>>

(* _wait_for_room: every few milliseconds, until there is room or the      *)
(* client is known to have left, when the event is let go.                 *)
Retry ==
    /\ pump = "full"
    /\ \/ Sent /\ chunks' = chunks \o held /\ Again
       \/ gone = "set" /\ Again /\ UNCHANGED chunks
       \/ client = "gone" /\ pump' = "ending" /\ held' = <<>> /\ UNCHANGED <<chunks, pending>>
    /\ UNCHANGED <<produced, gone, sourceClosed, client, got>>

(* An idle stream: a comment, which a full buffer does without.            *)
Ping ==
    /\ Pings /\ Waits /\ pending = "asked"
    /\ chunks' = IF Sent THEN Append(chunks, 0) ELSE chunks
    /\ pump' = IF client = "gone" THEN "ending" ELSE pump
    /\ UNCHANGED <<produced, pending, held, gone, sourceClosed, client, got>>

(* finally: __anext__ is cancelled, the channel left to be read to its end *)
(* and the source closed.                                                  *)
End ==
    /\ pump = "ending"
    /\ pump' = "over"
    /\ pending' = "none"
    /\ sourceClosed' = TRUE
    /\ UNCHANGED <<produced, held, gone, chunks, client, got>>

-----------------------------------------------------------------------------
(* The connection.  A client that is gone, or has read the stream to its   *)
(* end, drops the body, and with it the guard notify_disconnect watches.   *)

ClientReads ==
    /\ client = "reading"
    /\ \/ /\ chunks # <<>>
          /\ got' = IF Head(chunks) = 0 THEN got ELSE Append(got, Head(chunks))
          /\ chunks' = Tail(chunks)
          /\ UNCHANGED client
       \/ /\ chunks = <<>> /\ pump = "over"
          /\ client' = "told"
          /\ UNCHANGED <<chunks, got>>
    /\ UNCHANGED <<produced, pending, pump, held, gone, sourceClosed>>

ClientLeaves ==
    /\ client = "reading"
    /\ client' = "gone"
    /\ UNCHANGED <<produced, pending, pump, held, gone, sourceClosed, chunks, got>>

Notice ==
    /\ client # "reading" /\ gone = "no"
    /\ gone' = "queued"
    /\ UNCHANGED <<produced, pending, pump, held, sourceClosed, chunks, client, got>>

(* _client_left, from the worker's queue.                                  *)
ClientLeft ==
    /\ gone = "queued"
    /\ gone' = "set"
    /\ UNCHANGED <<produced, pending, pump, held, sourceClosed, chunks, client, got>>

-----------------------------------------------------------------------------

Init ==
    /\ produced = 0 /\ pending = "asked" /\ pump = "wait" /\ held = <<>>
    /\ gone = "no" /\ sourceClosed = FALSE /\ chunks = <<>>
    /\ client = "reading" /\ got = <<>>

Pump ==
    \/ Break \/ TakeEnd \/ TakeUnsendable \/ TakeEvent \/ SendChunk \/ Retry \/ End
    \/ ClientLeft

Next ==
    \/ Yield \/ SourceEnds \/ Pump \/ Ping \/ ClientReads \/ ClientLeaves \/ Notice

(* The loop runs the pump, tokio tells of a dropped body, and a client     *)
(* that stays reads; the source need yield nothing.                        *)
Fairness == WF_vars(Pump) /\ WF_vars(Notice) /\ WF_vars(ClientReads)

Spec == Init /\ [][Next]_vars /\ Fairness

-----------------------------------------------------------------------------
(* Properties.                                                             *)

(* The shape of the state, with the channel within its bound.              *)
TypeOK ==
    /\ produced \in 0 .. MaxEvents
    /\ pending \in {"none", "asked", "event", "end", "raised"}
    /\ pump \in {"wait", "sending", "full", "ending", "over"}
    /\ held \in Seq(1 .. MaxEvents) /\ gone \in {"no", "queued", "set"}
    /\ sourceClosed \in BOOLEAN /\ client \in {"reading", "gone", "told"}
    /\ chunks \in Seq(0 .. MaxEvents) /\ Len(chunks) <= Buffer
    /\ got \in Seq(1 .. MaxEvents)

(* How many of the first n chunks are events.                              *)
Events(n) == Cardinality({k \in 1 .. n : chunks[k] # 0})

(* "A client that reads more slowly than the source produces will not miss *)
(* events": what it read, and what is on its way to it, are the source's   *)
(* events in order from the first, without a gap (pump_sse).               *)
NoGap ==
    client # "gone" =>
        /\ \A k \in DOMAIN got : got[k] = k
        /\ \A k \in DOMAIN chunks : chunks[k] # 0 => chunks[k] = Len(got) + Events(k)
        /\ \A k \in DOMAIN held : held[k] = Len(got) + Events(Len(chunks)) + k

(* "Without it, a stream waiting on a quiet topic would ... never discover *)
(* its client had gone": the source is closed, so its subscription given   *)
(* up, once the client is gone, with or without pings, whether the pump    *)
(* was waiting for an event or for room.                                   *)
LeftIsReleased == client = "gone" ~> sourceClosed

(* A source that ends has all of its events read by a client that stays,   *)
(* which then sees the end, unless an event could not be formatted.        *)
AllArrive ==
    pending \in {"end", "raised"} ~> client = "gone" \/ (client = "told" /\ Len(got) = produced)

(* The stream a client is sent has no gap: every event in order up to the  *)
(* last one sent (pump_sse).                                               *)
Safety == TypeOK /\ NoGap

(* A source whose client left is closed, and a source that ends reaches    *)
(* the client whole (pump_sse).                                            *)
Liveness == LeftIsReleased /\ AllArrive

=============================================================================
