------------------------- MODULE FleetSubscriptions -------------------------
(***************************************************************************)
(* Sessions and event channels of the hub's fleet service                  *)
(*   internal/grpc/fleet_service.go                                        *)
(*                                                                         *)
(* Agents register, subscribe and deregister; deployment goroutines send   *)
(* events.  Three kinds of goroutines meet at the map of subscribers: the  *)
(* handler of a stream, the handler of a Deregister, and a sender, which   *)
(* uses the channel it found after it has given the lock back.             *)
(*                                                                         *)
(* A channel is made by one call of Subscribe and is named after it.       *)
(***************************************************************************)
EXTENDS Naturals, Sequences, FiniteSets

CONSTANTS
  Instance,      \* instance IDs
  Token,         \* session tokens that may be generated (bound)
  Stream,        \* calls of Subscribe, each with the channel it makes (bound)
  Closer,        \* calls of Deregister at work at once (bound)
  Sender,        \* goroutines sending to one instance at once (bound)
  Capacity,      \* room in a channel (100 in the code)
  MaxEvents,     \* bound: events created
  MaxRestarts,   \* bound: times the hub process ends
  NoInstance, NoStream

ASSUME CapacityAssumption == Capacity \in Nat \ {0}
ASSUME EventsAssumption == MaxEvents \in Nat /\ MaxRestarts \in Nat
ASSUME NamesAssumption == NoInstance \notin Instance /\ NoStream \notin Stream

Event == 1..MaxEvents

VARIABLES
  sessions,     \* the instance a token stands for, or NoInstance
  fresh,        \* tokens not generated yet
  subscribers,  \* the channel an instance is mapped to, or NoStream
  queue,        \* events buffered in a channel
  closed,       \* closed channels
  phase,        \* of a call of Subscribe: "none", "valid", "loop", "leaving", "over"
  owner,        \* the instance of a call of Subscribe
  gone,         \* streams whose client is gone: their context is done
  closer,       \* a Deregister at work: phase and token
  sender,       \* a SendEventToInstance at work: phase, channel and event
  events,       \* events created so far
  accepted,     \* <<stream, event>>: the send succeeded
  delivered,    \* <<stream, event>>: the client was sent the event
  panics,       \* what panicked: "send", "broadcast", "close"
  restarts      \* times the process ended

authVars == <<sessions, fresh>>
chanVars == <<subscribers, queue, closed>>
loopVars == <<phase, owner, gone, delivered>>
sendVars == <<sender, events, accepted>>
endVars  == <<panics, restarts>>
vars == <<authVars, chanVars, loopVars, sendVars, endVars, closer>>

Resting == [phase |-> "none"]
Subscribed(i) == subscribers[i] # NoStream

-----------------------------------------------------------------------------
\* Sessions.

\* Register adds a session and leaves older ones of the instance alone.
Register(i) ==
  \E t \in fresh :
    /\ fresh' = fresh \ {t}
    /\ sessions' = [sessions EXCEPT ![t] = i]
    /\ UNCHANGED <<chanVars, loopVars, sendVars, endVars, closer>>

\* Deregister: the token is checked (and the instance's status written), then
\* the session is removed, then the channel, each under its own lock.
DeregisterCheck(c) ==
  /\ closer[c] = Resting
  /\ \E t \in Token :
       /\ sessions[t] # NoInstance
       /\ closer' = [closer EXCEPT ![c] = [phase |-> "session", token |-> t,
                                           inst |-> sessions[t]]]
  /\ UNCHANGED <<authVars, chanVars, loopVars, sendVars, endVars>>

DeregisterSession(c) ==
  /\ closer[c].phase = "session"
  /\ sessions' = [sessions EXCEPT ![closer[c].token] = NoInstance]
  /\ closer' = [closer EXCEPT ![c].phase = "channel"]
  /\ UNCHANGED <<fresh, chanVars, loopVars, sendVars, endVars>>

\* Closing a channel that is already closed panics.
Close(s) ==
  /\ closed' = closed \cup {s}
  /\ panics' = IF s \in closed THEN panics \cup {"close"} ELSE panics

\* Fault: the channel is closed but stays in the map.
FaultyDeregisterChannel(c) ==
  /\ closer[c].phase = "channel"
  /\ IF Subscribed(closer[c].inst)
       THEN Close(subscribers[closer[c].inst]) /\ UNCHANGED subscribers
       ELSE UNCHANGED <<subscribers, closed, panics>>
  /\ closer' = [closer EXCEPT ![c] = Resting]
  /\ UNCHANGED <<authVars, queue, loopVars, sendVars, restarts>>

DeregisterChannel(c) ==
  /\ closer[c].phase = "channel"
  /\ IF Subscribed(closer[c].inst)
       THEN /\ Close(subscribers[closer[c].inst])
            /\ subscribers' = [subscribers EXCEPT ![closer[c].inst] = NoStream]
       ELSE UNCHANGED <<subscribers, closed, panics>>
  /\ closer' = [closer EXCEPT ![c] = Resting]
  /\ UNCHANGED <<authVars, queue, loopVars, sendVars, restarts>>

-----------------------------------------------------------------------------
\* Subscribe.

SubscribeCheck(s) ==
  /\ phase[s] = "none"
  /\ \E t \in Token :
       /\ sessions[t] # NoInstance
       /\ owner' = [owner EXCEPT ![s] = sessions[t]]
  /\ phase' = [phase EXCEPT ![s] = "valid"]
  /\ UNCHANGED <<authVars, chanVars, gone, delivered, sendVars, endVars, closer>>

\* Fault: the old channel is replaced but not closed.
FaultySubscribeOpen(s) ==
  /\ phase[s] = "valid"
  /\ subscribers' = [subscribers EXCEPT ![owner[s]] = s]
  /\ phase' = [phase EXCEPT ![s] = "loop"]
  /\ UNCHANGED <<authVars, queue, closed, owner, gone, delivered, sendVars,
                 endVars, closer>>

\* Under the lock: the old channel is closed and the new one takes its place.
SubscribeOpen(s) ==
  /\ phase[s] = "valid"
  /\ IF Subscribed(owner[s])
       THEN Close(subscribers[owner[s]])
       ELSE UNCHANGED <<closed, panics>>
  /\ subscribers' = [subscribers EXCEPT ![owner[s]] = s]
  /\ phase' = [phase EXCEPT ![s] = "loop"]
  /\ UNCHANGED <<authVars, queue, owner, gone, delivered, sendVars, restarts, closer>>

\* The client closes its connection, crashes or is cut off.
ClientGoes(s) ==
  /\ phase[s] \in {"valid", "loop"} /\ s \notin gone
  /\ gone' = gone \cup {s}
  /\ UNCHANGED <<authVars, chanVars, phase, owner, delivered, sendVars, endVars, closer>>

\* The select loop.  A closed channel yields what is buffered in it first.
\* Sending to a client that is gone may fail, which ends the loop, or succeed
\* into the void.  Pings change nothing, except that they may fail.
LoopReceive(s) ==
  /\ phase[s] = "loop" /\ queue[s] # <<>>
  /\ queue' = [queue EXCEPT ![s] = Tail(@)]
  /\ IF s \in gone
       THEN /\ phase' \in {phase, [phase EXCEPT ![s] = "leaving"]}
            /\ UNCHANGED delivered
       ELSE /\ delivered' = delivered \cup {<<s, Head(queue[s])>>}
            /\ UNCHANGED phase
  /\ UNCHANGED <<authVars, subscribers, closed, owner, gone, sendVars, endVars, closer>>

\* Fault: a closed channel ends the loop at once.
FaultyClosedAndEmpty(s) == s \in closed

ClosedAndEmpty(s) == s \in closed /\ queue[s] = <<>>

LoopEnds(s) ==
  /\ phase[s] = "loop"
  /\ s \in gone \/ ClosedAndEmpty(s)
  /\ phase' = [phase EXCEPT ![s] = "leaving"]
  /\ UNCHANGED <<authVars, chanVars, owner, gone, delivered, sendVars, endVars, closer>>

\* Fault: the deferred function removes whatever channel is mapped.
FaultyStillMapped(s) == Subscribed(owner[s])

\* The deferred function removes the channel if it is still the mapped one.
\* It does not close it.
StillMapped(s) == subscribers[owner[s]] = s

SubscribeReturns(s) ==
  /\ phase[s] = "leaving"
  /\ subscribers' = IF StillMapped(s)
                      THEN [subscribers EXCEPT ![owner[s]] = NoStream]
                      ELSE subscribers
  /\ phase' = [phase EXCEPT ![s] = "over"]
  /\ UNCHANGED <<authVars, queue, closed, owner, gone, delivered, sendVars, endVars, closer>>

-----------------------------------------------------------------------------
\* Sending.

\* The process ends: every goroutine, session and channel is lost with it.
Die ==
  /\ restarts' = restarts + 1
  /\ sessions' = [t \in Token |-> NoInstance]
  /\ subscribers' = [i \in Instance |-> NoStream]
  /\ phase' = [s \in Stream |-> IF phase[s] = "none" THEN "none" ELSE "over"]
  /\ gone' = gone \cup {s \in Stream : phase[s] # "none"}
  /\ closer' = [c \in Closer |-> Resting]
  /\ sender' = [x \in Sender |-> Resting]
  /\ UNCHANGED <<fresh, queue, closed, owner, delivered, events, accepted>>

Restart == restarts < MaxRestarts /\ Die /\ UNCHANGED panics

\* Fault: whatever the map answers is used, even if it has no channel.
FaultySendLookup(x, i) ==
  /\ sender[x] = Resting /\ events < MaxEvents
  /\ events' = events + 1
  /\ sender' = [sender EXCEPT ![x] = [phase |-> "send", chan |-> subscribers[i],
                                      event |-> events + 1]]
  /\ UNCHANGED <<authVars, chanVars, loopVars, accepted, endVars, closer>>

\* SendEventToInstance finds the channel under the lock ...
SendLookup(x, i) ==
  /\ sender[x] = Resting /\ events < MaxEvents
  /\ Subscribed(i)
  /\ events' = events + 1
  /\ sender' = [sender EXCEPT ![x] = [phase |-> "send", chan |-> subscribers[i],
                                      event |-> events + 1]]
  /\ UNCHANGED <<authVars, chanVars, loopVars, accepted, endVars, closer>>

\* Fault: a new event goes before those that wait.
FaultyEnqueue(q, e) == <<e>> \o q

Enqueue(q, e) == Append(q, e)

\* ... and sends without it, or fails when the channel is full.
SendEvent(x) ==
  /\ sender[x].phase = "send" /\ sender[x].chan \notin closed
  /\ IF Len(queue[sender[x].chan]) < Capacity
       THEN /\ queue' = [queue EXCEPT ![sender[x].chan] = Enqueue(@, sender[x].event)]
            /\ accepted' = accepted \cup {<<sender[x].chan, sender[x].event>>}
       ELSE UNCHANGED <<queue, accepted>>
  /\ sender' = [sender EXCEPT ![x] = Resting]
  /\ UNCHANGED <<authVars, subscribers, closed, loopVars, events, endVars, closer>>

\* Sending on a closed channel panics, and nobody recovers a deployment's
\* goroutine: the process dies.
SendPanics(x) ==
  /\ sender[x].phase = "send" /\ sender[x].chan \in closed
  /\ restarts < MaxRestarts
  /\ panics' = panics \cup {"send"}
  /\ Die

\* BroadcastEvent holds the lock for all its sends and drops what finds no room.
Reached == {s \in Stream : \E i \in Instance : subscribers[i] = s}

BroadcastEvent ==
  /\ events < MaxEvents
  /\ events' = events + 1
  /\ panics' = IF Reached \cap closed # {} THEN panics \cup {"broadcast"} ELSE panics
  /\ LET room == {s \in Reached \ closed : Len(queue[s]) < Capacity}
     IN /\ queue' = [s \in Stream |-> IF s \in room THEN Enqueue(queue[s], events + 1)
                                      ELSE queue[s]]
        /\ accepted' = accepted \cup {<<s, events + 1>> : s \in room}
  /\ UNCHANGED <<authVars, subscribers, closed, loopVars, sender, restarts, closer>>

-----------------------------------------------------------------------------
Init ==
  /\ sessions = [t \in Token |-> NoInstance] /\ fresh = Token
  /\ subscribers = [i \in Instance |-> NoStream]
  /\ queue = [s \in Stream |-> <<>>] /\ closed = {}
  /\ phase = [s \in Stream |-> "none"] /\ owner = [s \in Stream |-> NoInstance]
  /\ gone = {} /\ delivered = {} /\ accepted = {}
  /\ closer = [c \in Closer |-> Resting]
  /\ sender = [x \in Sender |-> Resting]
  /\ events = 0 /\ panics = {} /\ restarts = 0

LoopStep(s) == LoopReceive(s) \/ LoopEnds(s) \/ SubscribeReturns(s)

StreamStep(s) ==
  SubscribeCheck(s) \/ SubscribeOpen(s) \/ ClientGoes(s) \/ LoopStep(s)

CloserStep(c) == DeregisterCheck(c) \/ DeregisterSession(c) \/ DeregisterChannel(c)

SenderStep(x) ==
  (\E i \in Instance : SendLookup(x, i)) \/ SendEvent(x) \/ SendPanics(x)

Next ==
  \/ \E i \in Instance : Register(i)
  \/ \E s \in Stream : StreamStep(s)
  \/ \E c \in Closer : CloserStep(c)
  \/ \E x \in Sender : SenderStep(x)
  \/ BroadcastEvent
  \/ Restart

Spec == Init /\ [][Next]_vars

\* The scheduler runs the handler of every stream that can go on.
Fairness == \A s \in Stream : WF_vars(LoopStep(s))

FairSpec == Spec /\ Fairness

-----------------------------------------------------------------------------
Phase == {"none", "valid", "loop", "leaving", "over"}
Deregistration == [phase: {"session", "channel"}, token: Token, inst: Instance]
                    \cup {Resting}
Sending == [phase: {"send"}, chan: Stream, event: Event] \cup {Resting}
Message == Stream \X Event

\* Every variable keeps its type; in particular a sender that goes on has found
\* a channel.
TypeOK ==
  /\ sessions \in [Token -> Instance \cup {NoInstance}] /\ fresh \subseteq Token
  /\ subscribers \in [Instance -> Stream \cup {NoStream}]
  /\ queue \in [Stream -> Seq(Event)]
  /\ closed \subseteq Stream /\ gone \subseteq Stream
  /\ phase \in [Stream -> Phase]
  /\ owner \in [Stream -> Instance \cup {NoInstance}]
  /\ closer \in [Closer -> Deregistration]
  /\ sender \in [Sender -> Sending]
  /\ events \in 0..MaxEvents
  /\ accepted \subseteq Message /\ delivered \subseteq Message
  /\ panics \subseteq {"send", "broadcast", "close"}
  /\ restarts \in 0..MaxRestarts

\* The map and the event loops agree, however subscriptions, returns and
\* deregistrations of one instance cross: a mapped channel is open and its loop
\* has not returned, and a loop whose channel is open is reachable.  (Subscribe's
\* deferred function looks whether its channel is still the mapped one.)
MapMatchesLoops ==
  /\ \A i \in Instance : Subscribed(i) =>
       /\ subscribers[i] \notin closed
       /\ owner[subscribers[i]] = i
       /\ phase[subscribers[i]] \in {"loop", "leaving"}
  /\ \A s \in Stream : phase[s] = "loop" /\ s \notin closed => StillMapped(s)

\* An accepted event reaches its client or the client goes.
AcceptedArrives ==
  []<>(\A m \in accepted : m \in delivered \/ m[1] \in gone)

\* A stream whose channel is no longer mapped comes to an end
\* (grpc_test.go: "First subscription should have ended").
ReplacedStreamsEnd ==
  \A s \in Stream : (phase[s] = "loop" /\ ~StillMapped(s)) ~> phase[s] = "over"

\* A stream is over when its loop has ended, sealed when its channel is closed.
Streams == INSTANCE EventStreams WITH
  sealed <- closed,
  ended <- {s \in Stream : phase[s] \in {"leaving", "over"}}

\* Whatever is replaced, deregistered or restarted meanwhile, events of a stream
\* arrive in the order their sends succeeded in, once, and none is lost unless the
\* client goes: an event sent through a channel that was looked up before is either
\* refused or delivered by the old loop, which drains its channel
\* (SendEventToInstance, BroadcastEvent, Subscribe).
ImplementsStreams == Streams!Spec

\* What the tests say and the code does not do: sending to an instance that has
\* no subscription is an error (TestFleetService_SendEventToInstance).
SendsReturnErrors == "send" \notin panics

=============================================================================
