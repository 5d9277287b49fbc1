-------------------------------- MODULE SSE --------------------------------
(***************************************************************************)
(* sse/event_stream.py and sse/broker.py: one worker's SSEBroker, the      *)
(* EventStream of each connected client, and the fan-outs that feed them   *)
(* (callers of publish and broadcast, or the one loop of run over Redis    *)
(* pub/sub).                                                               *)
(*                                                                         *)
(* One event loop.  _put suspends only where the queue has a native bound, *)
(* under "block", and is full: a fan-out is one step up to the first such  *)
(* stream, and goes on from there when it gets its slot.  It iterates a    *)
(* snapshot of a set, in an order nobody chose.  Heartbeats change nothing *)
(* and payloads are all alike: an event is "event", the sentinel "close".  *)
(***************************************************************************)
EXTENDS Integers, SequencesExt

CONSTANTS
    Streams,        \* connections that may be opened
    Channels,
    Emitters,       \* concurrent fan-outs, and calls of close
    MaxQueue,       \* `max_queue`
    None,
    MaxEvents,      \* bound: publish and broadcast calls
    MaxCloses       \* bound: close calls

ASSUME SSEAssumption ==
    MaxQueue \in Nat /\ MaxEvents \in Nat /\ MaxCloses \in Nat
      /\ None \notin Streams \cup Channels /\ IsFiniteSet(Emitters)

VARIABLES
    overflow,   \* the broker's policy, fixed
    channel,    \* channel[s]: where _channels holds s, None: nowhere
    client,     \* client[s]: the response that reads s
    queue,      \* queue[s]: the stream's _queue
    dropped,    \* dropped[s]: its _dropped
    emit,       \* emit[p]: item, stream waited on, streams still to do
    events, closes,
    received,   \* history: received[s]: events its client was sent
    offered,    \* history: offered[s]: events of fan-outs that saw s
    unseated    \* history: unseated[s]: sentinels a later event evicted

callVars == <<events, closes>>
streamVars == <<overflow, channel, client, queue, dropped, emit, callVars,
               received, offered, unseated>>

NoEmit == [item |-> "none", on |-> None, todo |-> {}]

StreamInit ==
    /\ overflow \in {"block", "drop_oldest", "drop_newest"}
    /\ channel = [s \in Streams |-> None] /\ client = [s \in Streams |-> "new"]
    /\ queue = [s \in Streams |-> <<>>] /\ dropped = [s \in Streams |-> 0]
    /\ emit = [p \in Emitters |-> NoEmit] /\ events = 0 /\ closes = 0
    /\ received = [s \in Streams |-> 0] /\ offered = [s \in Streams |-> 0]
    /\ unseated = [s \in Streams |-> 0]

-----------------------------------------------------------------------------
(* A connection                                                            *)

(* response: register, and a generator not started yet.                    *)
Open(s, c) ==
    /\ client[s] = "new"
    /\ client' = [client EXCEPT ![s] = "opened"]
    /\ channel' = [channel EXCEPT ![s] = c]
    /\ UNCHANGED <<overflow, queue, dropped, emit, callVars, received, offered, unseated>>

Start(s) ==
    /\ client[s] = "opened"
    /\ client' = [client EXCEPT ![s] = "reading"]
    /\ UNCHANGED <<overflow, channel, queue, dropped, emit, callVars, received, offered,
                   unseated>>

(* The client leaves before the generator ran: its finally never does, and *)
(* the stream stays registered.                                            *)
LeaveUnstarted(s) ==
    /\ client[s] = "opened"
    /\ client' = [client EXCEPT ![s] = "ghost"]
    /\ UNCHANGED <<overflow, channel, queue, dropped, emit, callVars, received, offered,
                   unseated>>

(* The client disconnects: the finally unregisters.                        *)
Leave(s) ==
    /\ client[s] = "reading"
    /\ client' = [client EXCEPT ![s] = "gone"]
    /\ channel' = [channel EXCEPT ![s] = None]
    /\ UNCHANGED <<overflow, queue, dropped, emit, callVars, received, offered, unseated>>

(* stream: the next item; the sentinel ends the generator, and its finally *)
(* unregisters.                                                            *)
ReadPastClose(s) ==   \* mutant
    /\ client[s] = "reading" /\ queue[s] # <<>>
    /\ queue' = [queue EXCEPT ![s] = Tail(@)]
    /\ received' = [received EXCEPT ![s] = @ + IF Head(queue[s]) = "close" THEN 0 ELSE 1]
    /\ UNCHANGED <<overflow, channel, client, dropped, emit, callVars, offered, unseated>>
Read(s) ==
    /\ client[s] = "reading" /\ queue[s] # <<>>
    /\ queue' = [queue EXCEPT ![s] = Tail(@)]
    /\ IF Head(queue[s]) = "close"
       THEN /\ client' = [client EXCEPT ![s] = "gone"]
            /\ channel' = [channel EXCEPT ![s] = None]
            /\ UNCHANGED received
       ELSE /\ received' = [received EXCEPT ![s] = @ + 1]
            /\ UNCHANGED <<client, channel>>
    /\ UNCHANGED <<overflow, dropped, emit, callVars, offered, unseated>>

-----------------------------------------------------------------------------
(* _put                                                                    *)

AtBound(s) == MaxQueue > 0 /\ Len(queue[s]) >= MaxQueue

(* The queue of the "block" policy is the only one with a native maxsize.  *)
Blocks(s) == overflow = "block" /\ AtBound(s)

(* The policy applies to data events only: the sentinel goes past it.      *)
OverflowsLate(s, item) == /\ overflow # "block" /\ item # "close"   \* mutant
                          /\ MaxQueue > 0 /\ Len(queue[s]) > MaxQueue
Overflows(s, item) == overflow # "block" /\ item # "close" /\ AtBound(s)

Evicts(s, item) == overflow = "drop_oldest" /\ Overflows(s, item)

QueueAfter(s, item) ==
    IF Evicts(s, item) THEN Append(Tail(queue[s]), item)
    ELSE IF Overflows(s, item) THEN queue[s]
    ELSE Append(queue[s], item)

(* Put item on each stream of a set, none of which suspends.               *)
DropCount(s, item) == IF Overflows(s, item) /\ ~Evicts(s, item) THEN 1 ELSE 0   \* mutant
Drop(s, item) == IF Overflows(s, item) THEN 1 ELSE 0

PutOn(S, item) ==
    /\ queue' = [s \in Streams |-> IF s \in S THEN QueueAfter(s, item) ELSE queue[s]]
    /\ dropped' = [s \in Streams |-> dropped[s] + IF s \in S THEN Drop(s, item) ELSE 0]
    /\ unseated' = [s \in Streams |->
                      unseated[s] + IF s \in S /\ Evicts(s, item) /\ Head(queue[s]) = "close"
                                    THEN 1 ELSE 0]

-----------------------------------------------------------------------------
(* Fan-outs                                                                *)

(* _emit_local and _emit_everywhere from their next stream on: put the     *)
(* item on every stream of todo, the ones in `must` first, or on those     *)
(* before one that suspends.                                               *)
Run(p, item, todo, must) ==
    \E S \in SUBSET todo :
        /\ must \subseteq S /\ \A s \in S : ~Blocks(s)
        /\ PutOn(S, item)
        /\ \/ S = todo /\ emit' = [emit EXCEPT ![p] = NoEmit]
           \/ \E s \in todo \ S :
                 /\ Blocks(s)
                 /\ emit' = [emit EXCEPT ![p] =
                               [item |-> item, on |-> s, todo |-> todo \ (S \cup {s})]]

Offer(S) ==
    offered' = [s \in Streams |-> offered[s] + IF s \in S THEN 1 ELSE 0]

Registered == {s \in Streams : channel[s] # None}

Publish(p, c) ==
    /\ emit[p] = NoEmit /\ events < MaxEvents /\ events' = events + 1
    /\ LET members == {s \in Registered : channel[s] = c}
       IN  Offer(members) /\ Run(p, "event", members, {})
    /\ UNCHANGED <<overflow, channel, client, closes, received>>

Broadcast(p) ==
    /\ emit[p] = NoEmit /\ events < MaxEvents /\ events' = events + 1
    /\ Offer(Registered) /\ Run(p, "event", Registered, {})
    /\ UNCHANGED <<overflow, channel, client, closes, received>>

(* EventStream.close, by whoever holds the stream.                         *)
Close(p, s) ==
    /\ emit[p] = NoEmit /\ client[s] # "new" /\ closes < MaxCloses
    /\ closes' = closes + 1
    /\ Run(p, "close", {s}, {})
    /\ UNCHANGED <<overflow, channel, client, events, received, offered>>

(* The stream waited on has a slot.                                        *)
Resume(p) ==
    /\ emit[p].on # None /\ ~Blocks(emit[p].on)
    /\ Run(p, emit[p].item, emit[p].todo \cup {emit[p].on}, {emit[p].on})
    /\ UNCHANGED <<overflow, channel, client, callVars, received, offered>>

(* The task of a waiting fan-out is cancelled: the rest never get it.      *)
Cancelled(p) ==
    /\ emit[p].on # None
    /\ offered' = [s \in Streams |->
                     offered[s] - IF /\ emit[p].item = "event"
                                     /\ s \in emit[p].todo \cup {emit[p].on}
                                  THEN 1 ELSE 0]
    /\ emit' = [emit EXCEPT ![p] = NoEmit]
    /\ UNCHANGED <<overflow, channel, client, queue, dropped, callVars, received, unseated>>

StreamNext ==
    \/ \E s \in Streams :
          \/ \E c \in Channels : Open(s, c)
          \/ Start(s) \/ LeaveUnstarted(s) \/ Leave(s) \/ Read(s)
    \/ \E p \in Emitters :
          \/ \E c \in Channels : Publish(p, c)
          \/ \E s \in Streams : Close(p, s)
          \/ Broadcast(p) \/ Resume(p) \/ Cancelled(p)

StreamSpec == StreamInit /\ [][StreamNext]_streamVars

(* The loop runs what is ready: a response starts or its client left       *)
(* first, a connected client is sent what is queued, a fan-out goes on     *)
(* when it has its slot.  Nothing makes a client leave, or a caller close. *)
StreamFairness ==
    /\ \A s \in Streams : /\ WF_streamVars(Start(s) \/ LeaveUnstarted(s))
                          /\ WF_streamVars(Read(s))
    /\ \A p \in Emitters : WF_streamVars(Resume(p))

StreamFairSpec == StreamSpec /\ StreamFairness

-----------------------------------------------------------------------------
(* Properties                                                              *)

EventsIn(q) == Cardinality({i \in DOMAIN q : q[i] = "event"})

(* Every variable stays in its domain; the events of a stream exceed       *)
(* max_queue only by the sentinels they evicted, which had been let past   *)
(* it, and under "block" the whole queue never does.                       *)
StreamTypeOK ==
    /\ channel \in [Streams -> Channels \cup {None}]
    /\ client \in [Streams -> {"new", "opened", "reading", "gone", "ghost"}]
    /\ queue \in [Streams -> Seq({"event", "close"})]
    /\ \A s \in Streams :
          /\ MaxQueue > 0 => EventsIn(queue[s]) <= MaxQueue + unseated[s]
          /\ MaxQueue > 0 /\ overflow = "block" => Len(queue[s]) <= MaxQueue
    /\ emit \in [Emitters -> [item : {"none", "event", "close"},
                              on : Streams \cup {None}, todo : SUBSET Streams]]
    /\ {dropped, received, offered, unseated} \subseteq [Streams -> Nat]

Awaiting(s) == {p \in Emitters : emit[p].item = "event" /\ s \in emit[p].todo \cup {emit[p].on}}

(* Nothing vanishes on its way to a client, and dropped_events is true:    *)
(* every event whose fan-out saw the stream has been sent, is queued, was  *)
(* counted as dropped, or is still in a waiting fan-out; the counter       *)
(* exceeds the events lost by the sentinels it counted (event_stream.py    *)
(* :226, broker.py:482).                                                   *)
EveryEventAccounted ==
    \A s \in Streams :
        offered[s] = received[s] + EventsIn(queue[s]) + Cardinality(Awaiting(s))
                       + dropped[s] - unseated[s]

(* A close ends the stream of a client that stays, unless an event         *)
(* published after it evicted its sentinel, and a fan-out ends unless it   *)
(* waits for a slot of a client that is not there to free one              *)
(* (event_stream.py:240, broker.py:482).                                   *)
CloseAndEmitEnd ==
    /\ \A s \in Streams :
          (client[s] = "reading" /\ "close" \in ToSet(queue[s]))
             ~> (client[s] = "gone" \/ unseated[s] > 0)
    /\ \A p \in Emitters :
          emit[p] # NoEmit
             ~> (emit[p] = NoEmit \/ client[emit[p].on] \in {"gone", "ghost"})
=============================================================================
