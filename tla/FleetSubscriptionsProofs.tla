---------------------- MODULE FleetSubscriptionsProofs ----------------------
(***************************************************************************)
(* Theorems about FleetSubscriptions, for all sets of instances, tokens,   *)
(* streams and goroutines, every capacity and any number of restarts.      *)
(*                                                                         *)
(* The invariant adds to the properties                                    *)
(*   Unopened   a call of Subscribe that has not opened its channel has    *)
(*              left no trace of it                                        *)
(*   Finished   a loop that ended on its own has drained a closed channel  *)
(*   Buffered   what was accepted is delivered or still in the channel     *)
(*   Numbered   an event that a sender holds was not accepted anywhere     *)
(*   Once       a channel holds accepted, undelivered, distinct events     *)
(***************************************************************************)
EXTENDS FleetSubscriptions, TLAPS

Unopened ==
  \A s \in Stream : phase[s] \in {"none", "valid"} =>
    /\ s \notin closed
    /\ \A m \in accepted : m[1] # s
    /\ \A x \in Sender : sender[x] # Resting => sender[x].chan # s

Owned == \A s \in Stream : phase[s] # "none" => owner[s] \in Instance

Finished ==
  \A s \in Stream : phase[s] \in {"leaving", "over"} /\ s \notin gone =>
    s \in closed /\ queue[s] = <<>>

Holds(q, e) == \E k \in 1..Len(q) : q[k] = e
Buffered ==
  \A m \in accepted : m[1] \notin gone => m \in delivered \/ Holds(queue[m[1]], m[2])

Numbered ==
  /\ \A m \in accepted : m[2] <= events
  /\ \A x \in Sender : sender[x] # Resting =>
       /\ sender[x].event <= events
       /\ \A m \in accepted : m[2] # sender[x].event
       /\ \A y \in Sender \ {x} : sender[y] # Resting => sender[y].event # sender[x].event

Distinct(q) == \A k, l \in 1..Len(q) : q[k] = q[l] => k = l

Once ==
  /\ delivered \subseteq accepted
  /\ \A s \in Stream :
       /\ Distinct(queue[s])
       /\ \A k \in 1..Len(queue[s]) : <<s, queue[s][k]>> \in accepted \ delivered

\* Nothing that holds the lock panics: neither a broadcast meets a closed
\* channel, nor is a channel closed twice (Subscribe, Deregister).
OnlySendsPanic == panics \subseteq {"send"}

\* An event whose send succeeded was sent to the client before its stream
\* returned, unless the client had gone: replacing or deregistering a
\* subscription loses nothing that was accepted.
ReturnedMeansDelivered ==
  \A m \in accepted :
    phase[m[1]] \in {"leaving", "over"} /\ m[1] \notin gone => m \in delivered

IInv ==
  /\ TypeOK
  /\ MapMatchesLoops
  /\ Unopened
  /\ Owned
  /\ Finished
  /\ Buffered
  /\ Numbered
  /\ Once
  /\ OnlySendsPanic

\* Closing a channel keeps the types of what it writes.
LEMMA CloseTypes ==
  ASSUME TypeOK, NEW s \in Stream, Close(s)
  PROVE  closed' \subseteq Stream /\ panics' \subseteq {"send", "broadcast", "close"}
<1>1. closed' = closed \cup {s} /\ panics' \subseteq panics \cup {"close"}
  BY DEF Close
<1>2. closed \subseteq Stream /\ panics \subseteq {"send", "broadcast", "close"}
  BY DEF TypeOK
<1>. QED
  BY <1>1, <1>2

\* Every step keeps the types.
LEMMA TypeStep == ASSUME IInv, [Next]_vars PROVE TypeOK'
<1> USE DEF TypeOK, authVars, chanVars, loopVars, sendVars, endVars
<1>0. TypeOK /\ Owned
  BY DEF IInv
<1>1. ASSUME NEW i \in Instance, Register(i)
      PROVE  TypeOK'
  BY <1>0, <1>1 DEF Register
<1>2. ASSUME NEW c \in Closer, CloserStep(c)
      PROVE  TypeOK'
  <2>1. CASE DeregisterCheck(c)
    BY <1>0, <2>1 DEF DeregisterCheck, Deregistration
  <2>2. CASE DeregisterSession(c)
    <3>1. closer[c] \in [phase: {"session", "channel"}, token: Token, inst: Instance]
      BY <1>0, <1>2, <2>2 DEF DeregisterSession, Deregistration, Resting
    <3>2. [closer[c] EXCEPT !.phase = "channel"] \in Deregistration
      BY <3>1 DEF Deregistration
    <3>. QED
      BY <1>0, <1>2, <2>2, <3>1, <3>2 DEF DeregisterSession
  <2>3. CASE DeregisterChannel(c)
    <3>1. closer[c].inst \in Instance
      BY <1>0, <1>2, <2>3 DEF DeregisterChannel, Deregistration, Resting
    <3>2. closed' \subseteq Stream /\ panics' \subseteq {"send", "broadcast", "close"}
      <4>1. CASE Subscribed(closer[c].inst)
        BY <1>0, <2>3, <3>1, <4>1, CloseTypes DEF DeregisterChannel, Subscribed
      <4>2. CASE ~Subscribed(closer[c].inst)
        BY <1>0, <2>3, <4>2 DEF DeregisterChannel
      <4>. QED
        BY <4>1, <4>2
    <3>3. subscribers' \in [Instance -> Stream \cup {NoStream}]
      BY <1>0, <2>3 DEF DeregisterChannel
    <3>4. closer' \in [Closer -> Deregistration]
      BY <1>0, <2>3 DEF DeregisterChannel, Deregistration
    <3>. QED
      BY <1>0, <2>3, <3>2, <3>3, <3>4 DEF DeregisterChannel
  <2>. QED
    BY <1>2, <2>1, <2>2, <2>3 DEF CloserStep
<1>3. ASSUME NEW s \in Stream, StreamStep(s)
      PROVE  TypeOK'
  <2>1. CASE SubscribeCheck(s)
    BY <1>0, <2>1 DEF SubscribeCheck, Phase
  <2>2. CASE SubscribeOpen(s)
    <3>1. owner[s] \in Instance
      BY <1>0, <1>3, <2>2 DEF SubscribeOpen, Owned
    <3>2. closed' \subseteq Stream /\ panics' \subseteq {"send", "broadcast", "close"}
      <4>1. CASE Subscribed(owner[s])
        BY <1>0, <2>2, <3>1, <4>1, CloseTypes DEF SubscribeOpen, Subscribed
      <4>2. CASE ~Subscribed(owner[s])
        BY <1>0, <2>2, <4>2 DEF SubscribeOpen
      <4>. QED
        BY <4>1, <4>2
    <3>3. subscribers' \in [Instance -> Stream \cup {NoStream}] /\ phase' \in [Stream -> Phase]
      BY <1>0, <1>3, <2>2 DEF SubscribeOpen, Phase
    <3>. QED
      BY <1>0, <2>2, <3>2, <3>3 DEF SubscribeOpen
  <2>3. CASE ClientGoes(s)
    BY <1>0, <2>3 DEF ClientGoes
  <2>4. CASE LoopReceive(s)
    <3>1. Tail(queue[s]) \in Seq(Event) /\ Head(queue[s]) \in Event
      BY <1>0, <1>3, <2>4 DEF LoopReceive
    <3>2. queue' \in [Stream -> Seq(Event)]
      BY <1>0, <2>4, <3>1 DEF LoopReceive
    <3>3. phase' \in [Stream -> Phase]
      BY <1>0, <1>3, <2>4 DEF LoopReceive, Phase
    <3>4. delivered' \subseteq Message
      BY <1>0, <1>3, <2>4, <3>1 DEF LoopReceive, Message
    <3>. QED
      BY <1>0, <2>4, <3>2, <3>3, <3>4 DEF LoopReceive
  <2>5. CASE LoopEnds(s)
    BY <1>0, <2>5 DEF LoopEnds, Phase
  <2>6. CASE SubscribeReturns(s)
    BY <1>0, <2>6 DEF SubscribeReturns, Phase
  <2>. QED
    BY <1>3, <2>1, <2>2, <2>3, <2>4, <2>5, <2>6 DEF StreamStep, LoopStep
<1>4. ASSUME Die, restarts < MaxRestarts, panics' \subseteq panics \cup {"send"}
      PROVE  TypeOK'
  BY <1>0, <1>4, EventsAssumption DEF Die, Phase, Deregistration, Sending
<1>5. ASSUME NEW x \in Sender, SenderStep(x)
      PROVE  TypeOK'
  <2>1. ASSUME NEW i \in Instance, SendLookup(x, i)
        PROVE  TypeOK'
    <3>1. subscribers[i] \in Stream /\ events + 1 \in Event
      BY <1>0, <2>1, EventsAssumption DEF SendLookup, Subscribed, Event
    <3>. QED
      BY <1>0, <2>1, <3>1, EventsAssumption DEF SendLookup, Sending, Event
  <2>2. CASE SendEvent(x)
    <3>1. sender[x] \in [phase: {"send"}, chan: Stream, event: Event]
      BY <1>0, <1>5, <2>2 DEF SendEvent, Sending, Resting
    <3>2. Append(queue[sender[x].chan], sender[x].event) \in Seq(Event)
      BY <1>0, <3>1
    <3>3. sender[x].chan \in Stream /\ sender[x].event \in Event
      BY <3>1
    <3>4. queue' \in [Stream -> Seq(Event)]
      BY <1>0, <2>2, <3>2, <3>3 DEF Enqueue, SendEvent
    <3>5. accepted' \subseteq Message
      BY <1>0, <2>2, <3>3 DEF SendEvent, Message
    <3>6. sender' \in [Sender -> Sending]
      BY <1>0, <2>2 DEF SendEvent, Sending
    <3>. QED
      BY <1>0, <2>2, <3>4, <3>5, <3>6 DEF SendEvent
  <2>3. CASE SendPanics(x)
    BY <1>4, <2>3 DEF SendPanics
  <2>. QED
    BY <1>5, <2>1, <2>2, <2>3 DEF SenderStep
<1>6. CASE BroadcastEvent
  <2>1. events + 1 \in Event
    BY <1>0, <1>6, EventsAssumption DEF BroadcastEvent, Event
  <2>2. \A s \in Stream : Append(queue[s], events + 1) \in Seq(Event)
    BY <1>0, <2>1
  <2>3. queue' \in [Stream -> Seq(Event)] /\ accepted' \subseteq Message
    BY <1>0, <1>6, <2>1, <2>2 DEF Enqueue, BroadcastEvent, Message, Reached
  <2>. QED
    BY <1>0, <1>6, <2>1, <2>3, EventsAssumption DEF BroadcastEvent, Event
<1>7. CASE Restart
  BY <1>4, <1>7 DEF Restart
<1>8. CASE UNCHANGED vars
  BY <1>0, <1>8 DEF vars
<1>. QED
  BY <1>1, <1>2, <1>3, <1>5, <1>6, <1>7, <1>8 DEF Next

\* Registering, the first two steps of a Deregister and sending touch neither
\* the map nor the streams.
Elsewhere ==
  \/ \E i \in Instance : Register(i)
  \/ \E c \in Closer : DeregisterCheck(c) \/ DeregisterSession(c)
  \/ \E x \in Sender : (\E i \in Instance : SendLookup(x, i)) \/ SendEvent(x)
  \/ BroadcastEvent
  \/ UNCHANGED vars

\* A step is one of those, a step of a stream, the end of a Deregister or the
\* end of the process.
LEMMA Steps ==
  ASSUME [Next]_vars
  PROVE  \/ Elsewhere
         \/ \E s \in Stream : StreamStep(s)
         \/ \E c \in Closer : DeregisterChannel(c)
         \/ Die /\ panics' \subseteq panics \cup {"send"}
<1>1. ASSUME NEW x \in Sender, SendPanics(x)
      PROVE  Die /\ panics' \subseteq panics \cup {"send"}
  BY <1>1 DEF SendPanics
<1>2. ASSUME Restart
      PROVE  Die /\ panics' \subseteq panics \cup {"send"}
  BY <1>2 DEF Restart
<1>3. ASSUME \E c \in Closer : CloserStep(c)
      PROVE  Elsewhere \/ \E c \in Closer : DeregisterChannel(c)
  BY <1>3 DEF CloserStep, Elsewhere
<1>4. ASSUME \E x \in Sender : SenderStep(x)
      PROVE  Elsewhere \/ \E x \in Sender : SendPanics(x)
  BY <1>4 DEF SenderStep, Elsewhere
<1>5. ASSUME (\E i \in Instance : Register(i)) \/ BroadcastEvent \/ UNCHANGED vars
      PROVE  Elsewhere
  BY <1>5 DEF Elsewhere
<1>. QED
  BY <1>1, <1>2, <1>3, <1>4, <1>5 DEF Next

\* What the steps elsewhere leave alone.
LEMMA ElsewhereFrame ==
  ASSUME Elsewhere
  PROVE  UNCHANGED <<subscribers, closed, phase, owner, gone, delivered>>
<1> USE DEF authVars, chanVars, loopVars, sendVars, endVars
<1>1. ASSUME NEW i \in Instance, Register(i)
      PROVE  UNCHANGED <<subscribers, closed, phase, owner, gone, delivered>>
  BY <1>1 DEF Register
<1>2. ASSUME NEW c \in Closer, DeregisterCheck(c) \/ DeregisterSession(c)
      PROVE  UNCHANGED <<subscribers, closed, phase, owner, gone, delivered>>
  BY <1>2 DEF DeregisterCheck, DeregisterSession
<1>3. ASSUME NEW x \in Sender, NEW i \in Instance, SendLookup(x, i)
      PROVE  UNCHANGED <<subscribers, closed, phase, owner, gone, delivered>>
  BY <1>3 DEF SendLookup
<1>4. ASSUME NEW x \in Sender, SendEvent(x)
      PROVE  UNCHANGED <<subscribers, closed, phase, owner, gone, delivered>>
  BY <1>4 DEF SendEvent
<1>5. ASSUME BroadcastEvent \/ UNCHANGED vars
      PROVE  UNCHANGED <<subscribers, closed, phase, owner, gone, delivered>>
  BY <1>5 DEF BroadcastEvent, vars
<1>. QED
  BY <1>1, <1>2, <1>3, <1>4, <1>5 DEF Elsewhere

\* The steps elsewhere do not panic: what broadcast reaches is open.
LEMMA ElsewherePanics == ASSUME IInv, Elsewhere PROVE panics' = panics
<1> USE DEF authVars, chanVars, loopVars, sendVars, endVars
<1>1. ASSUME NEW i \in Instance, Register(i)
      PROVE  panics' = panics
  BY <1>1 DEF Register
<1>2. ASSUME NEW c \in Closer, DeregisterCheck(c) \/ DeregisterSession(c)
      PROVE  panics' = panics
  BY <1>2 DEF DeregisterCheck, DeregisterSession
<1>3. ASSUME NEW x \in Sender, NEW i \in Instance, SendLookup(x, i)
      PROVE  panics' = panics
  BY <1>3 DEF SendLookup
<1>4. ASSUME NEW x \in Sender, SendEvent(x)
      PROVE  panics' = panics
  BY <1>4 DEF SendEvent
<1>5. ASSUME BroadcastEvent
      PROVE  panics' = panics
  <2>1. Reached \cap closed = {}
    BY NamesAssumption DEF IInv, MapMatchesLoops, Reached, Subscribed
  <2>. QED
    BY <1>5, <2>1 DEF BroadcastEvent
<1>6. ASSUME UNCHANGED vars
      PROVE  panics' = panics
  BY <1>6 DEF vars
<1>. QED
  BY <1>1, <1>2, <1>3, <1>4, <1>5, <1>6 DEF Elsewhere

\* The map and the loops change together.
LEMMA MapStep == ASSUME IInv, [Next]_vars PROVE MapMatchesLoops'
<1> USE DEF Subscribed, StillMapped, authVars, chanVars, loopVars, sendVars, endVars
<1>0. /\ MapMatchesLoops /\ Owned /\ Unopened
      /\ subscribers \in [Instance -> Stream \cup {NoStream}] /\ phase \in [Stream -> Phase]
      /\ owner \in [Stream -> Instance \cup {NoInstance}] /\ closed \subseteq Stream
  BY DEF IInv, TypeOK
<1>1. ASSUME NEW c \in Closer, DeregisterChannel(c)
      PROVE  MapMatchesLoops'
  <2>1. UNCHANGED <<phase, owner>>
    BY <1>1 DEF DeregisterChannel
  <2>2. CASE ~Subscribed(closer[c].inst)
    <3>1. UNCHANGED <<subscribers, closed>>
      BY <1>1, <2>2 DEF DeregisterChannel
    <3>. QED
      BY <1>0, <2>1, <3>1 DEF MapMatchesLoops
  <2>3. CASE Subscribed(closer[c].inst)
    <3>. DEFINE i == closer[c].inst
    <3>1. subscribers' = [subscribers EXCEPT ![i] = NoStream] /\ closed' = closed \cup {subscribers[i]}
      BY <1>1, <2>3 DEF DeregisterChannel, Close
    <3>2. i \in Instance
      BY <1>1 DEF DeregisterChannel, IInv, TypeOK, Deregistration, Resting
    <3>3. owner[subscribers[i]] = i
      BY <1>0, <2>3, <3>2 DEF MapMatchesLoops
    <3>4. ASSUME NEW j \in Instance, subscribers'[j] # NoStream
          PROVE  j # i /\ subscribers'[j] = subscribers[j] /\ subscribers[j] # subscribers[i]
      <4>1. j # i /\ subscribers'[j] = subscribers[j]
        BY <1>0, <3>1, <3>2, <3>4
      <4>. QED
        BY <1>0, <3>3, <3>4, <4>1 DEF MapMatchesLoops
    <3>5. ASSUME NEW s \in Stream, phase[s] = "loop", s \notin closed'
          PROVE  subscribers'[owner[s]] = s
      <4>1. s # subscribers[i] /\ subscribers[owner[s]] = s /\ owner[s] \in Instance
        BY <1>0, <3>1, <3>5 DEF MapMatchesLoops, Owned
      <4>. QED
        BY <1>0, <3>1, <4>1
    <3>. HIDE DEF i
    <3>. QED
      BY <1>0, <2>1, <3>1, <3>4, <3>5 DEF MapMatchesLoops
  <2>. QED
    BY <2>2, <2>3
<1>2. ASSUME NEW s \in Stream, SubscribeCheck(s)
      PROVE  MapMatchesLoops'
  <2>1. /\ UNCHANGED <<subscribers, closed>> /\ phase[s] = "none"
        /\ phase' = [phase EXCEPT ![s] = "valid"]
        /\ \A u \in Stream : u # s => owner'[u] = owner[u]
    BY <1>0, <1>2 DEF SubscribeCheck
  <2>. QED
    BY <1>0, <2>1 DEF MapMatchesLoops
<1>3. ASSUME NEW s \in Stream, SubscribeOpen(s)
      PROVE  MapMatchesLoops'
  <2>1. phase[s] = "valid" /\ owner[s] \in Instance /\ s \notin closed
    BY <1>0, <1>3 DEF SubscribeOpen, Owned, Unopened
  <2>2. \A j \in Instance : subscribers[j] # s
    BY <1>0, <2>1, NamesAssumption DEF MapMatchesLoops
  <2>3. /\ subscribers' = [subscribers EXCEPT ![owner[s]] = s] /\ owner' = owner
        /\ phase' = [phase EXCEPT ![s] = "loop"]
        /\ closed' = IF subscribers[owner[s]] # NoStream
                       THEN closed \cup {subscribers[owner[s]]} ELSE closed
    BY <1>3 DEF SubscribeOpen, Close
  <2>4. ASSUME NEW j \in Instance, j # owner[s], subscribers[j] # NoStream
        PROVE  /\ subscribers[j] \notin closed' /\ owner[subscribers[j]] = j
               /\ phase'[subscribers[j]] \in {"loop", "leaving"}
    <3>1. /\ subscribers[j] \notin closed /\ owner[subscribers[j]] = j
          /\ phase[subscribers[j]] \in {"loop", "leaving"} /\ subscribers[j] \in Stream
      BY <1>0, <2>4 DEF MapMatchesLoops
    <3>2. subscribers[owner[s]] # NoStream => owner[subscribers[owner[s]]] = owner[s]
      BY <1>0, <2>1 DEF MapMatchesLoops
    <3>3. subscribers[j] \notin closed'
      BY <2>3, <2>4, <3>1, <3>2
    <3>. QED
      BY <1>0, <2>3, <3>1, <3>3
  <2>5. s \notin closed' /\ phase'[s] = "loop" /\ subscribers'[owner[s]] = s
    BY <1>0, <2>1, <2>2, <2>3
  <2>6. ASSUME NEW u \in Stream, u # s, phase[u] = "loop", u \notin closed'
        PROVE  subscribers'[owner[u]] = u
    <3>1. subscribers[owner[u]] = u /\ owner[u] \in Instance
      BY <1>0, <2>3, <2>6 DEF MapMatchesLoops, Owned
    <3>2. owner[u] # owner[s]
      BY <1>0, <2>3, <2>6, <3>1, NamesAssumption
    <3>. QED
      BY <1>0, <2>3, <3>1, <3>2
  <2>7. \A j \in Instance : subscribers'[j] # NoStream =>
          /\ subscribers'[j] \notin closed' /\ owner'[subscribers'[j]] = j
          /\ phase'[subscribers'[j]] \in {"loop", "leaving"}
    BY <1>0, <2>1, <2>3, <2>4, <2>5
  <2>8. \A u \in Stream : phase'[u] = "loop" /\ u \notin closed' => subscribers'[owner'[u]] = u
    BY <1>0, <2>1, <2>3, <2>5, <2>6
  <2>. QED
    BY <2>7, <2>8 DEF MapMatchesLoops
<1>4. ASSUME NEW s \in Stream, ClientGoes(s) \/ LoopReceive(s) \/ LoopEnds(s)
      PROVE  MapMatchesLoops'
  <2>1. /\ UNCHANGED <<subscribers, closed, owner>>
        /\ phase' = phase \/ (phase[s] = "loop" /\ phase' = [phase EXCEPT ![s] = "leaving"])
    BY <1>4 DEF ClientGoes, LoopReceive, LoopEnds
  <2>. QED
    BY <1>0, <2>1 DEF MapMatchesLoops
<1>5. ASSUME NEW s \in Stream, SubscribeReturns(s)
      PROVE  MapMatchesLoops'
  <2>1. /\ UNCHANGED <<closed, owner>> /\ phase[s] = "leaving"
        /\ phase' = [phase EXCEPT ![s] = "over"]
        /\ subscribers' = IF subscribers[owner[s]] = s
                            THEN [subscribers EXCEPT ![owner[s]] = NoStream] ELSE subscribers
    BY <1>5 DEF SubscribeReturns
  <2>2. ASSUME NEW j \in Instance, subscribers'[j] # NoStream
        PROVE  subscribers'[j] = subscribers[j] /\ subscribers[j] # s
    <3>1. owner[s] \in Instance
      BY <1>0, <2>1 DEF Owned
    <3>2. subscribers[j] = s => j = owner[s]
      BY <1>0, <2>2, NamesAssumption DEF MapMatchesLoops
    <3>. QED
      BY <1>0, <2>1, <2>2, <3>1, <3>2
  <2>3. ASSUME NEW u \in Stream, phase'[u] = "loop", u \notin closed
        PROVE  subscribers'[owner[u]] = u
    <3>1. u # s /\ phase[u] = "loop" /\ subscribers[owner[u]] = u /\ owner[u] \in Instance
      BY <1>0, <2>1, <2>3 DEF MapMatchesLoops, Owned
    <3>. QED
      BY <1>0, <2>1, <3>1
  <2>4. \A u \in Stream : u # s => phase'[u] = phase[u]
    BY <1>0, <2>1
  <2>5. \A j \in Instance : subscribers'[j] # NoStream =>
          /\ subscribers'[j] \notin closed' /\ owner'[subscribers'[j]] = j
          /\ phase'[subscribers'[j]] \in {"loop", "leaving"}
    BY <1>0, <2>1, <2>2, <2>4 DEF MapMatchesLoops
  <2>. QED
    BY <2>1, <2>3, <2>5 DEF MapMatchesLoops
<1>6. ASSUME Die
      PROVE  MapMatchesLoops'
  BY <1>0, <1>6 DEF Die, MapMatchesLoops
<1>7. ASSUME Elsewhere
      PROVE  MapMatchesLoops'
  <2>1. UNCHANGED <<subscribers, closed, phase, owner>>
    BY <1>7, ElsewhereFrame
  <2>. QED
    BY <1>0, <2>1 DEF MapMatchesLoops
<1>. QED
  BY <1>1, <1>2, <1>3, <1>4, <1>5, <1>6, <1>7, Steps DEF StreamStep, LoopStep

\* A stream that has started has an instance.
LEMMA OwnedStep == ASSUME IInv, [Next]_vars PROVE Owned'
<1> USE DEF authVars, chanVars, loopVars, sendVars, endVars
<1>0. /\ Owned /\ sessions \in [Token -> Instance \cup {NoInstance}]
      /\ phase \in [Stream -> Phase] /\ owner \in [Stream -> Instance \cup {NoInstance}]
  BY DEF IInv, TypeOK
<1>1. ASSUME NEW c \in Closer, DeregisterChannel(c)
      PROVE  Owned'
  BY <1>0, <1>1 DEF DeregisterChannel, Owned
<1>2. ASSUME NEW s \in Stream, SubscribeCheck(s)
      PROVE  Owned'
  BY <1>0, <1>2 DEF SubscribeCheck, Owned
<1>3. ASSUME NEW s \in Stream, SubscribeOpen(s) \/ ClientGoes(s) \/ LoopStep(s)
      PROVE  Owned'
  <2>1. owner' = owner /\ \A u \in Stream : phase'[u] # "none" => phase[u] # "none"
    BY <1>0, <1>3 DEF SubscribeOpen, ClientGoes, LoopStep, LoopReceive, LoopEnds, SubscribeReturns
  <2>. QED
    BY <1>0, <2>1 DEF Owned
<1>4. ASSUME Die
      PROVE  Owned'
  BY <1>0, <1>4 DEF Die, Owned
<1>5. ASSUME Elsewhere
      PROVE  Owned'
  BY <1>0, <1>5, ElsewhereFrame DEF Owned
<1>. QED
  BY <1>1, <1>2, <1>3, <1>4, <1>5, Steps DEF StreamStep

\* No channel is closed twice and no broadcast meets a closed one: what the map
\* holds is open.
LEMMA PanicStep == ASSUME IInv, [Next]_vars PROVE OnlySendsPanic'
<1> USE DEF authVars, chanVars, loopVars, sendVars, endVars, OnlySendsPanic
<1>0. OnlySendsPanic /\ MapMatchesLoops /\ Owned
  BY DEF IInv
<1>1. ASSUME NEW c \in Closer, DeregisterChannel(c)
      PROVE  OnlySendsPanic'
  <2>1. closer[c].inst \in Instance
    BY <1>1 DEF DeregisterChannel, IInv, TypeOK, Deregistration, Resting
  <2>. QED
    BY <1>0, <1>1, <2>1 DEF DeregisterChannel, Close, MapMatchesLoops
<1>2. ASSUME NEW s \in Stream, SubscribeOpen(s)
      PROVE  OnlySendsPanic'
  BY <1>0, <1>2 DEF SubscribeOpen, Close, MapMatchesLoops, Owned
<1>3. ASSUME NEW s \in Stream, SubscribeCheck(s) \/ ClientGoes(s) \/ LoopStep(s)
      PROVE  OnlySendsPanic'
  BY <1>0, <1>3 DEF SubscribeCheck, ClientGoes, LoopStep, LoopReceive, LoopEnds, SubscribeReturns
<1>. QED
  BY <1>0, <1>1, <1>2, <1>3, ElsewherePanics, Steps DEF StreamStep

\* A mapped channel belongs to a stream that has opened it.
LEMMA MappedIsOpened ==
  ASSUME IInv, NEW i \in Instance, Subscribed(i)
  PROVE  subscribers[i] \in Stream /\ phase[subscribers[i]] \in {"loop", "leaving"}
  BY DEF IInv, TypeOK, MapMatchesLoops, Subscribed

\* Nothing is sent to, held for or closed on behalf of a stream not yet opened.
LEMMA UnopenedStep == ASSUME IInv, [Next]_vars PROVE Unopened'
<1> USE DEF authVars, chanVars, loopVars, sendVars, endVars
<1>0. /\ Unopened /\ phase \in [Stream -> Phase] /\ closed \subseteq Stream
      /\ sender \in [Sender -> Sending]
  BY DEF IInv, TypeOK
<1>1. ASSUME NEW c \in Closer, DeregisterChannel(c)
      PROVE  Unopened'
  <2>1. closer[c].inst \in Instance
    BY <1>1 DEF DeregisterChannel, IInv, TypeOK, Deregistration, Resting
  <2>2. \A s \in Stream : phase[s] \in {"none", "valid"} => (s \in closed' => s \in closed)
    BY <1>0, <1>1, <2>1, MappedIsOpened DEF DeregisterChannel, Close
  <2>3. UNCHANGED <<phase, accepted, sender>>
    BY <1>1 DEF DeregisterChannel
  <2>. QED
    BY <1>0, <2>2, <2>3 DEF Unopened
<1>2. ASSUME NEW s \in Stream, SubscribeOpen(s)
      PROVE  Unopened'
  <2>1. owner[s] \in Instance
    BY <1>2 DEF SubscribeOpen, IInv, Owned
  <2>2. \A u \in Stream : phase[u] \in {"none", "valid"} => (u \in closed' => u \in closed)
    BY <1>0, <1>2, <2>1, MappedIsOpened DEF SubscribeOpen, Close
  <2>3. /\ UNCHANGED <<accepted, sender>>
        /\ \A u \in Stream : phase'[u] \in {"none", "valid"} => phase[u] \in {"none", "valid"}
    BY <1>0, <1>2 DEF SubscribeOpen
  <2>. QED
    BY <1>0, <2>2, <2>3 DEF Unopened
<1>3. ASSUME NEW s \in Stream, SubscribeCheck(s) \/ ClientGoes(s) \/ LoopStep(s)
      PROVE  Unopened'
  <2>1. /\ UNCHANGED <<accepted, sender, closed>>
        /\ \A u \in Stream : phase'[u] \in {"none", "valid"} => phase[u] \in {"none", "valid"}
    BY <1>0, <1>3 DEF SubscribeCheck, ClientGoes, LoopStep, LoopReceive, LoopEnds, SubscribeReturns
  <2>. QED
    BY <1>0, <2>1 DEF Unopened
<1>4. ASSUME Die
      PROVE  Unopened'
  <2>1. /\ UNCHANGED <<accepted, closed>> /\ \A x \in Sender : sender'[x] = Resting
        /\ \A u \in Stream : phase'[u] \in {"none", "valid"} => phase[u] \in {"none", "valid"}
    BY <1>0, <1>4 DEF Die
  <2>. QED
    BY <1>0, <2>1 DEF Unopened
<1>5. ASSUME Elsewhere
      PROVE  Unopened'
  <2>0. UNCHANGED <<phase, closed>>
    BY <1>5, ElsewhereFrame
  <2>1. ASSUME UNCHANGED <<accepted, sender>>
        PROVE  Unopened'
    BY <1>0, <2>0, <2>1 DEF Unopened
  <2>2. ASSUME NEW x \in Sender, NEW i \in Instance, SendLookup(x, i)
        PROVE  Unopened'
    <3>1. /\ accepted' = accepted /\ sender'[x].chan = subscribers[i]
          /\ \A y \in Sender : y # x => sender'[y] = sender[y]
      BY <1>0, <2>2 DEF SendLookup
    <3>2. subscribers[i] \in Stream /\ phase[subscribers[i]] \in {"loop", "leaving"}
      BY <2>2, MappedIsOpened DEF SendLookup
    <3>. QED
      BY <1>0, <2>0, <3>1, <3>2 DEF Unopened
  <2>3. ASSUME NEW x \in Sender, SendEvent(x)
        PROVE  Unopened'
    <3>1. /\ accepted' \subseteq accepted \cup {<<sender[x].chan, sender[x].event>>}
          /\ \A y \in Sender : sender'[y] # Resting => sender'[y] = sender[y]
          /\ sender[x] # Resting
      BY <1>0, <2>3 DEF SendEvent, Resting
    <3>. QED
      BY <1>0, <2>0, <3>1 DEF Unopened
  <2>4. ASSUME BroadcastEvent
        PROVE  Unopened'
    <3>1. \A s \in Reached : phase[s] \in {"loop", "leaving"}
      BY NamesAssumption, MappedIsOpened DEF Reached, Subscribed
    <3>2. sender' = sender /\ \A m \in accepted' : m \in accepted \/ m[1] \in Reached
      BY <2>4 DEF BroadcastEvent
    <3>. QED
      BY <1>0, <2>0, <3>1, <3>2 DEF Unopened
  <2>. QED
    BY <1>5, <2>1, <2>2, <2>3, <2>4
    DEF Elsewhere, Register, DeregisterCheck, DeregisterSession, vars
<1>. QED
  BY <1>1, <1>2, <1>3, <1>4, <1>5, Steps DEF StreamStep

\* Sending leaves closed channels alone.
LEMMA ClosedKeepQueues ==
  ASSUME IInv, Elsewhere
  PROVE  \A s \in closed : queue'[s] = queue[s]
<1> USE DEF authVars, chanVars, loopVars, sendVars, endVars
<1>0. queue \in [Stream -> Seq(Event)] /\ closed \subseteq Stream
  BY DEF IInv, TypeOK
<1>1. ASSUME NEW x \in Sender, SendEvent(x)
      PROVE  \A s \in closed : queue'[s] = queue[s]
  BY <1>0, <1>1 DEF SendEvent
<1>2. ASSUME BroadcastEvent
      PROVE  \A s \in closed : queue'[s] = queue[s]
  BY <1>0, <1>2 DEF BroadcastEvent
<1>3. ASSUME NEW x \in Sender, NEW i \in Instance, SendLookup(x, i)
      PROVE  queue' = queue
  BY <1>3 DEF SendLookup
<1>. QED
  BY <1>1, <1>2, <1>3 DEF Elsewhere, Register, DeregisterCheck, DeregisterSession, vars

\* A loop that ends on its own leaves nothing behind, and nothing comes after.
LEMMA FinishedStep == ASSUME IInv, [Next]_vars PROVE Finished'
<1> USE DEF authVars, chanVars, loopVars, sendVars, endVars
<1>0. /\ Finished /\ phase \in [Stream -> Phase] /\ closed \subseteq Stream
      /\ queue \in [Stream -> Seq(Event)]
  BY DEF IInv, TypeOK
<1>1. ASSUME NEW c \in Closer, DeregisterChannel(c)
      PROVE  Finished'
  <2>1. UNCHANGED <<phase, gone, queue>> /\ closed \subseteq closed'
    BY <1>1 DEF DeregisterChannel, Close
  <2>. QED
    BY <1>0, <2>1 DEF Finished
<1>2. ASSUME NEW s \in Stream, SubscribeCheck(s) \/ SubscribeOpen(s) \/ ClientGoes(s)
      PROVE  Finished'
  <2>1. /\ queue' = queue /\ closed \subseteq closed' /\ gone \subseteq gone'
        /\ \A u \in Stream : phase'[u] \in {"leaving", "over"} => phase[u] = phase'[u]
    BY <1>0, <1>2 DEF SubscribeCheck, SubscribeOpen, ClientGoes, Close
  <2>. QED
    BY <1>0, <2>1 DEF Finished
<1>3. ASSUME NEW s \in Stream, LoopReceive(s)
      PROVE  Finished'
  <2>1. /\ UNCHANGED <<gone, closed>> /\ phase[s] = "loop"
        /\ \A u \in Stream : u # s => phase'[u] = phase[u] /\ queue'[u] = queue[u]
        /\ s \notin gone => phase'[s] = "loop"
    BY <1>0, <1>3 DEF LoopReceive
  <2>. QED
    BY <1>0, <2>1 DEF Finished
<1>4. ASSUME NEW s \in Stream, LoopEnds(s)
      PROVE  Finished'
  BY <1>0, <1>4 DEF LoopEnds, ClosedAndEmpty, Finished
<1>5. ASSUME NEW s \in Stream, SubscribeReturns(s)
      PROVE  Finished'
  BY <1>0, <1>5 DEF SubscribeReturns, Finished
<1>6. ASSUME Die
      PROVE  Finished'
  <2>1. \A s \in Stream : phase'[s] \in {"leaving", "over"} => s \in gone'
    BY <1>0, <1>6 DEF Die
  <2>. QED
    BY <2>1 DEF Finished
<1>7. ASSUME Elsewhere
      PROVE  Finished'
  BY <1>0, <1>7, ElsewhereFrame, ClosedKeepQueues DEF Finished
<1>. QED
  BY <1>1, <1>2, <1>3, <1>4, <1>5, <1>6, <1>7, Steps DEF StreamStep, LoopStep

\* A queue holds what it held and what is appended.
LEMMA HoldsAppend ==
  ASSUME NEW q \in Seq(Event), NEW e \in Event
  PROVE  /\ Holds(Append(q, e), e)
         /\ \A f : Holds(q, f) => Holds(Append(q, e), f)
<1>1. /\ Len(Append(q, e)) = Len(q) + 1 /\ Append(q, e)[Len(q) + 1] = e
      /\ \A k \in 1..Len(q) : Append(q, e)[k] = q[k] /\ k \in 1..(Len(q) + 1)
      /\ Len(q) + 1 \in 1..(Len(q) + 1)
  OBVIOUS
<1>. QED
  BY <1>1 DEF Holds

\* What a queue held is its head or in its tail.
LEMMA HoldsTail ==
  ASSUME NEW q \in Seq(Event), q # <<>>, NEW f, Holds(q, f)
  PROVE  f = Head(q) \/ Holds(Tail(q), f)
<1>1. PICK k \in 1..Len(q) : q[k] = f
  BY DEF Holds
<1>2. CASE k = 1
  BY <1>1, <1>2
<1>3. CASE k # 1
  <2>1. k - 1 \in 1..Len(Tail(q)) /\ Tail(q)[k - 1] = q[k]
    BY <1>3
  <2>. QED
    BY <1>1, <2>1 DEF Holds
<1>. QED
  BY <1>2, <1>3

\* What was accepted stays in its channel until it is delivered.
LEMMA BufferedStep == ASSUME IInv, [Next]_vars PROVE Buffered'
<1> USE DEF authVars, chanVars, loopVars, sendVars, endVars
<1>0. Buffered /\ queue \in [Stream -> Seq(Event)] /\ accepted \subseteq Message
  BY DEF IInv, TypeOK
<1>1. ASSUME UNCHANGED <<queue, accepted, delivered>>, gone \subseteq gone'
      PROVE  Buffered'
  BY <1>0, <1>1 DEF Buffered
<1>2. ASSUME NEW s \in Stream, LoopReceive(s)
      PROVE  Buffered'
  <2>1. /\ UNCHANGED <<accepted, gone>> /\ delivered \subseteq delivered'
        /\ queue' = [queue EXCEPT ![s] = Tail(@)] /\ queue[s] # <<>>
        /\ s \notin gone => <<s, Head(queue[s])>> \in delivered'
    BY <1>2 DEF LoopReceive
  <2>2. ASSUME NEW m \in accepted, m[1] \notin gone, m \notin delivered'
        PROVE  Holds(queue'[m[1]], m[2])
    <3>1. /\ Holds(queue[m[1]], m[2]) /\ m[1] \in Stream /\ m = <<m[1], m[2]>>
      BY <1>0, <2>1, <2>2 DEF Buffered, Message
    <3>2. CASE m[1] # s
      BY <1>0, <2>1, <3>1, <3>2
    <3>3. CASE m[1] = s
      <4>1. m[2] # Head(queue[s])
        BY <2>1, <2>2, <3>1, <3>3
      <4>2. Holds(Tail(queue[s]), m[2])
        BY <1>0, <2>1, <3>1, <3>3, <4>1, HoldsTail
      <4>. QED
        BY <1>0, <2>1, <3>3, <4>2
    <3>. QED
      BY <3>2, <3>3
  <2>. QED
    BY <2>1, <2>2 DEF Buffered
<1>3. ASSUME NEW x \in Sender, SendEvent(x)
      PROVE  Buffered'
  <2>. DEFINE c == sender[x].chan
              e == sender[x].event
  <2>1. c \in Stream /\ e \in Event
    BY <1>3 DEF SendEvent, IInv, TypeOK, Sending, Resting
  <2>2. UNCHANGED <<delivered, gone>>
    BY <1>3 DEF SendEvent
  <2>3. CASE UNCHANGED <<queue, accepted>>
    BY <1>1, <2>2, <2>3
  <2>4. CASE ~UNCHANGED <<queue, accepted>>
    <3>1. queue' = [queue EXCEPT ![c] = Append(@, e)] /\ accepted' = accepted \cup {<<c, e>>}
      BY <1>3, <2>4 DEF Enqueue, SendEvent
    <3>. HIDE DEF c, e
    <3>2. ASSUME NEW m \in accepted, m[1] \notin gone, m \notin delivered
          PROVE  Holds(queue'[m[1]], m[2])
      <4>1. Holds(queue[m[1]], m[2]) /\ m[1] \in Stream /\ queue[c] \in Seq(Event)
        BY <1>0, <2>1, <3>2 DEF Buffered, Message
      <4>. QED
        BY <1>0, <2>1, <3>1, <4>1, HoldsAppend
    <3>3. Holds(queue'[c], e)
      BY <1>0, <2>1, <3>1, HoldsAppend
    <3>. QED
      BY <2>2, <3>1, <3>2, <3>3 DEF Buffered
  <2>. QED
    BY <2>3, <2>4
<1>4. ASSUME BroadcastEvent
      PROVE  Buffered'
  <2>. DEFINE e == events + 1
              room == {s \in Reached \ closed : Len(queue[s]) < Capacity}
  <2>1. e \in Event
    BY <1>4, EventsAssumption DEF BroadcastEvent, IInv, TypeOK, Event
  <2>2. /\ UNCHANGED <<delivered, gone>> /\ room \subseteq Stream
        /\ queue' = [s \in Stream |-> IF s \in room THEN Append(queue[s], e) ELSE queue[s]]
        /\ accepted' = accepted \cup {<<s, e>> : s \in room}
    BY <1>4 DEF Enqueue, BroadcastEvent, Reached
  <2>. HIDE DEF e, room
  <2>3. ASSUME NEW m \in accepted, m[1] \notin gone, m \notin delivered
        PROVE  Holds(queue'[m[1]], m[2])
    <3>1. Holds(queue[m[1]], m[2]) /\ m[1] \in Stream /\ queue[m[1]] \in Seq(Event)
      BY <1>0, <2>3 DEF Buffered, Message
    <3>2. queue'[m[1]] = queue[m[1]] \/ queue'[m[1]] = Append(queue[m[1]], e)
      BY <2>2, <3>1
    <3>. QED
      BY <2>1, <3>1, <3>2, HoldsAppend
  <2>4. ASSUME NEW s \in room
        PROVE  Holds(queue'[s], e)
    BY <1>0, <2>1, <2>2, <2>4, HoldsAppend
  <2>5. \A m \in accepted' : m \in accepted \/ (m[1] \in room /\ m[2] = e)
    BY <2>2
  <2>. QED
    BY <2>2, <2>3, <2>4, <2>5 DEF Buffered
<1>5. ASSUME NEW x \in Sender, NEW i \in Instance, SendLookup(x, i)
      PROVE  Buffered'
  BY <1>1, <1>5 DEF SendLookup
<1>6. ASSUME Elsewhere
      PROVE  Buffered'
  BY <1>1, <1>3, <1>4, <1>5, <1>6
  DEF Elsewhere, Register, DeregisterCheck, DeregisterSession, vars
<1>7. ASSUME Die
      PROVE  Buffered'
  BY <1>1, <1>7 DEF Die
<1>8. ASSUME NEW c \in Closer, DeregisterChannel(c)
      PROVE  Buffered'
  BY <1>1, <1>8 DEF DeregisterChannel
<1>9. ASSUME NEW s \in Stream,
             SubscribeCheck(s) \/ SubscribeOpen(s) \/ ClientGoes(s) \/ LoopEnds(s)
               \/ SubscribeReturns(s)
      PROVE  Buffered'
  BY <1>1, <1>9 DEF SubscribeCheck, SubscribeOpen, ClientGoes, LoopEnds, SubscribeReturns
<1>. QED
  BY <1>2, <1>6, <1>7, <1>8, <1>9, Steps DEF StreamStep, LoopStep

\* Every event is created once, and is accepted when its sender has let go of it.
LEMMA NumberedStep == ASSUME IInv, [Next]_vars PROVE Numbered'
<1> USE DEF authVars, chanVars, loopVars, sendVars, endVars
<1>0. /\ Numbered /\ sender \in [Sender -> Sending] /\ events \in Nat
      /\ accepted \subseteq Message
  BY DEF IInv, TypeOK
<1>1. ASSUME UNCHANGED <<accepted, events>>, sender' = sender \/ \A x \in Sender : sender'[x] = Resting
      PROVE  Numbered'
  BY <1>0, <1>1 DEF Numbered
<1>2. ASSUME NEW x \in Sender, NEW i \in Instance, SendLookup(x, i)
      PROVE  Numbered'
  <2>1. /\ accepted' = accepted /\ events' = events + 1 /\ sender'[x].event = events + 1
        /\ \A y \in Sender \ {x} : sender'[y] = sender[y]
    BY <1>0, <1>2 DEF SendLookup
  <2>2. \A m \in accepted : m[2] \in Nat /\ m[2] <= events
    BY <1>0, EventsAssumption DEF Numbered, Message, Event
  <2>3. \A y \in Sender : sender[y] # Resting => sender[y].event \in Nat /\ sender[y].event <= events
    BY <1>0, EventsAssumption DEF Numbered, Sending, Event
  <2>4. /\ events + 1 <= events'
        /\ \A m \in accepted' : m[2] <= events' /\ m[2] # events + 1
    BY <1>0, <2>1, <2>2
  <2>5. \A y \in Sender \ {x} : sender'[y] # Resting =>
          /\ sender'[y].event <= events' /\ sender'[y].event # events + 1
          /\ \A m \in accepted' : m[2] # sender'[y].event
    BY <1>0, <2>1, <2>3 DEF Numbered
  <2>. QED
    BY <1>0, <2>1, <2>4, <2>5 DEF Numbered
<1>3. ASSUME NEW x \in Sender, SendEvent(x)
      PROVE  Numbered'
  <2>1. /\ events' = events /\ sender[x] # Resting
        /\ accepted' \subseteq accepted \cup {<<sender[x].chan, sender[x].event>>}
        /\ \A y \in Sender : sender'[y] # Resting => sender'[y] = sender[y] /\ y # x
    BY <1>0, <1>3 DEF SendEvent, Resting
  <2>2. \A m \in accepted' : m \in accepted \/ m[2] = sender[x].event
    BY <2>1
  <2>. QED
    BY <1>0, <2>1, <2>2 DEF Numbered
<1>4. ASSUME BroadcastEvent
      PROVE  Numbered'
  <2>1. /\ events' = events + 1 /\ sender' = sender
        /\ \A m \in accepted' : m \in accepted \/ m[2] = events + 1
    BY <1>4 DEF BroadcastEvent
  <2>2. \A m \in accepted : m[2] \in Nat /\ m[2] <= events
    BY <1>0, EventsAssumption DEF Numbered, Message, Event
  <2>3. \A y \in Sender : sender[y] # Resting => sender[y].event \in Nat /\ sender[y].event <= events
    BY <1>0, EventsAssumption DEF Numbered, Sending, Event
  <2>4. \A m \in accepted' : m[2] <= events'
    BY <1>0, <2>1, <2>2
  <2>5. \A y \in Sender : sender[y] # Resting =>
          /\ sender[y].event <= events'
          /\ \A m \in accepted' : m[2] # sender[y].event
    BY <1>0, <2>1, <2>3 DEF Numbered
  <2>. QED
    BY <1>0, <2>1, <2>4, <2>5 DEF Numbered
<1>5. ASSUME Elsewhere
      PROVE  Numbered'
  BY <1>1, <1>2, <1>3, <1>4, <1>5
  DEF Elsewhere, Register, DeregisterCheck, DeregisterSession, vars
<1>6. ASSUME Die
      PROVE  Numbered'
  BY <1>1, <1>6 DEF Die
<1>7. ASSUME NEW s \in Stream, LoopReceive(s)
      PROVE  Numbered'
  BY <1>1, <1>7 DEF LoopReceive
<1>8. ASSUME NEW c \in Closer, DeregisterChannel(c)
      PROVE  Numbered'
  BY <1>1, <1>8 DEF DeregisterChannel
<1>9. ASSUME NEW s \in Stream,
             SubscribeCheck(s) \/ SubscribeOpen(s) \/ ClientGoes(s) \/ LoopEnds(s)
               \/ SubscribeReturns(s)
      PROVE  Numbered'
  BY <1>1, <1>9 DEF SubscribeCheck, SubscribeOpen, ClientGoes, LoopEnds, SubscribeReturns
<1>. QED
  BY <1>5, <1>6, <1>7, <1>8, <1>9, Steps DEF StreamStep, LoopStep

\* Appending what a queue does not hold keeps its entries distinct.
LEMMA AppendEntries ==
  ASSUME NEW q \in Seq(Event), NEW e \in Event
  PROVE  /\ \A k \in 1..Len(Append(q, e)) :
              \/ k \in 1..Len(q) /\ Append(q, e)[k] = q[k]
              \/ k = Len(q) + 1 /\ Append(q, e)[k] = e
         /\ Distinct(q) /\ ~Holds(q, e) => Distinct(Append(q, e))
<1>1. \A k \in 1..Len(Append(q, e)) :
        \/ k \in 1..Len(q) /\ Append(q, e)[k] = q[k]
        \/ k = Len(q) + 1 /\ Append(q, e)[k] = e
  OBVIOUS
<1>2. ASSUME Distinct(q), ~Holds(q, e),
             NEW k \in 1..Len(Append(q, e)), NEW l \in 1..Len(Append(q, e)),
             Append(q, e)[k] = Append(q, e)[l]
      PROVE  k = l
  <2>1. k \in 1..Len(q) => Append(q, e)[k] = q[k] /\ q[k] # e
    BY <1>1, <1>2 DEF Holds
  <2>2. l \in 1..Len(q) => Append(q, e)[l] = q[l] /\ q[l] # e
    BY <1>1, <1>2 DEF Holds
  <2>. QED
    BY <1>1, <1>2, <2>1, <2>2 DEF Distinct
<1>. QED
  BY <1>1, <1>2 DEF Distinct

\* The tail of a queue of distinct entries is one, without its head.
LEMMA TailEntries ==
  ASSUME NEW q \in Seq(Event), q # <<>>
  PROVE  /\ \A k \in 1..Len(Tail(q)) : k + 1 \in 1..Len(q) /\ Tail(q)[k] = q[k + 1]
         /\ Distinct(q) => /\ Distinct(Tail(q))
                           /\ \A k \in 1..Len(Tail(q)) : Tail(q)[k] # Head(q)
<1>1. /\ \A k \in 1..Len(Tail(q)) : k + 1 \in 1..Len(q) /\ Tail(q)[k] = q[k + 1]
      /\ 1 \in 1..Len(q) /\ Head(q) = q[1] /\ Len(q) \in Nat
  OBVIOUS
<1>2. ASSUME Distinct(q), NEW k \in 1..Len(Tail(q)), NEW l \in 1..Len(Tail(q)),
             Tail(q)[k] = Tail(q)[l]
      PROVE  k = l
  <2>1. k + 1 = l + 1
    BY <1>1, <1>2 DEF Distinct
  <2>. QED
    BY <2>1
<1>3. ASSUME Distinct(q), NEW k \in 1..Len(Tail(q)), Tail(q)[k] = Head(q)
      PROVE  FALSE
  <2>1. k + 1 = 1
    BY <1>1, <1>3 DEF Distinct
  <2>. QED
    BY <2>1
<1>. QED
  BY <1>1, <1>2, <1>3 DEF Distinct

\* What a stream accepts anew is appended once.
LEMMA OnceAccept ==
  ASSUME IInv, NEW S \in SUBSET Stream, NEW e \in Event,
         \A s \in S : <<s, e>> \notin accepted,
         queue' = [s \in Stream |-> IF s \in S THEN Append(queue[s], e) ELSE queue[s]],
         accepted' = accepted \cup {<<s, e>> : s \in S},
         delivered' = delivered
  PROVE  Once'
<1>0. Once /\ queue \in [Stream -> Seq(Event)]
  BY DEF IInv, TypeOK
<1>1. ASSUME NEW s \in Stream
      PROVE  /\ Distinct(queue'[s])
             /\ \A k \in 1..Len(queue'[s]) : <<s, queue'[s][k]>> \in accepted' \ delivered'
  <2>1. CASE s \notin S
    BY <1>0, <2>1 DEF Once
  <2>2. CASE s \in S
    <3>1. queue[s] \in Seq(Event) /\ queue'[s] = Append(queue[s], e)
      BY <1>0, <2>2
    <3>2. ~Holds(queue[s], e)
      BY <1>0, <2>2 DEF Once, Holds
    <3>3. <<s, e>> \in accepted' \ delivered'
      BY <1>0, <2>2 DEF Once
    <3>4. Distinct(queue[s])
      BY <1>0 DEF Once
    <3>5. Distinct(queue'[s])
      BY <3>1, <3>2, <3>4, AppendEntries
    <3>6. ASSUME NEW k \in 1..Len(queue'[s])
          PROVE  <<s, queue'[s][k]>> \in accepted' \ delivered'
      <4>1. \/ k \in 1..Len(queue[s]) /\ queue'[s][k] = queue[s][k]
            \/ queue'[s][k] = e
        BY <3>1, AppendEntries
      <4>. QED
        BY <1>0, <3>3, <4>1 DEF Once
    <3>. QED
      BY <3>5, <3>6
  <2>. QED
    BY <2>1, <2>2
<1>2. delivered' \subseteq accepted'
  BY <1>0 DEF Once
<1>. QED
  BY <1>1, <1>2 DEF Once

\* SendEvent is refused or accepted by one stream ...
LEMMA SendAccepts ==
  ASSUME IInv, NEW x \in Sender, SendEvent(x), ~UNCHANGED <<queue, accepted>>
  PROVE  \E S \in SUBSET Stream, e \in Event :
           /\ S \cap closed = {} /\ \A s \in S : <<s, e>> \notin accepted
           /\ queue' = [s \in Stream |-> IF s \in S THEN Append(queue[s], e) ELSE queue[s]]
           /\ accepted' = accepted \cup {<<s, e>> : s \in S}
<1>. DEFINE c == sender[x].chan
            e == sender[x].event
<1>1. c \in Stream /\ e \in Event /\ sender[x] # Resting
  BY DEF SendEvent, IInv, TypeOK, Sending, Resting
<1>2. /\ queue' = [queue EXCEPT ![c] = Append(@, e)]
      /\ accepted' = accepted \cup {<<c, e>>} /\ c \notin closed
  BY DEF Enqueue, SendEvent
<1>3. <<c, e>> \notin accepted
  BY <1>1 DEF IInv, Numbered
<1>4. queue \in [Stream -> Seq(Event)]
  BY DEF IInv, TypeOK
<1>. HIDE DEF c, e
<1>5. queue' = [s \in Stream |-> IF s \in {c} THEN Append(queue[s], e) ELSE queue[s]]
  BY <1>1, <1>2, <1>4
<1>6. accepted' = accepted \cup {<<s, e>> : s \in {c}}
  BY <1>2
<1>7. {c} \in SUBSET Stream /\ {c} \cap closed = {} /\ \A s \in {c} : <<s, e>> \notin accepted
  BY <1>1, <1>2, <1>3
<1>. QED
  BY <1>1, <1>5, <1>6, <1>7

\* ... and a broadcast by all that have room.
LEMMA BroadcastAccepts ==
  ASSUME IInv, BroadcastEvent
  PROVE  \E S \in SUBSET Stream, e \in Event :
           /\ S \cap closed = {} /\ \A s \in S : <<s, e>> \notin accepted
           /\ queue' = [s \in Stream |-> IF s \in S THEN Append(queue[s], e) ELSE queue[s]]
           /\ accepted' = accepted \cup {<<s, e>> : s \in S}
<1>. DEFINE e == events + 1
            room == {s \in Reached \ closed : Len(queue[s]) < Capacity}
<1>1. e \in Event
  BY EventsAssumption DEF BroadcastEvent, IInv, TypeOK, Event
<1>2. room \in SUBSET Stream /\ room \cap closed = {}
  BY DEF Reached
<1>3. /\ queue' = [s \in Stream |-> IF s \in room THEN Append(queue[s], e) ELSE queue[s]]
      /\ accepted' = accepted \cup {<<s, e>> : s \in room}
  BY DEF Enqueue, BroadcastEvent
<1>4. \A m \in accepted : m[2] # e
  BY EventsAssumption DEF IInv, TypeOK, Numbered, Message, Event
<1>5. \A s \in room : <<s, e>> \notin accepted
  BY <1>4
<1>. QED
  BY <1>1, <1>2, <1>3, <1>5

\* An event enters a channel once and leaves it once.
LEMMA OnceStep == ASSUME IInv, [Next]_vars PROVE Once'
<1> USE DEF authVars, chanVars, loopVars, sendVars, endVars
<1>0. Once /\ queue \in [Stream -> Seq(Event)]
  BY DEF IInv, TypeOK
<1>1. ASSUME UNCHANGED <<queue, accepted, delivered>>
      PROVE  Once'
  BY <1>0, <1>1 DEF Once
<1>2. ASSUME NEW s \in Stream, LoopReceive(s)
      PROVE  Once'
  <2>1. /\ accepted' = accepted /\ queue[s] # <<>>
        /\ queue'[s] = Tail(queue[s]) /\ \A u \in Stream : u # s => queue'[u] = queue[u]
        /\ delivered' \subseteq delivered \cup {<<s, Head(queue[s])>>}
    BY <1>0, <1>2 DEF LoopReceive
  <2>2. queue[s] \in Seq(Event) /\ Distinct(queue[s])
    BY <1>0 DEF Once
  <2>3. <<s, Head(queue[s])>> \in accepted
    <3>1. 1 \in 1..Len(queue[s]) /\ Head(queue[s]) = queue[s][1]
      BY <2>1, <2>2
    <3>. QED
      BY <1>0, <3>1 DEF Once
  <2>4. Distinct(queue'[s]) /\ \A k \in 1..Len(queue'[s]) :
          queue'[s][k] # Head(queue[s]) /\ <<s, queue'[s][k]>> \in accepted \ delivered
    BY <1>0, <2>1, <2>2, TailEntries DEF Once
  <2>5. \A u \in Stream : u # s => Distinct(queue'[u]) /\ \A k \in 1..Len(queue'[u]) :
          <<u, queue'[u][k]>> \in accepted \ delivered
    BY <1>0, <2>1 DEF Once
  <2>6. delivered' \subseteq accepted'
    BY <1>0, <2>1, <2>3 DEF Once
  <2>7. ASSUME NEW u \in Stream
        PROVE  Distinct(queue'[u]) /\ \A k \in 1..Len(queue'[u]) :
                 <<u, queue'[u][k]>> \in accepted' \ delivered'
    <3>1. CASE u = s
      BY <2>1, <2>4, <3>1
    <3>2. CASE u # s
      BY <2>1, <2>5, <3>2
    <3>. QED
      BY <3>1, <3>2
  <2>. QED
    BY <2>6, <2>7 DEF Once
<1>3. ASSUME NEW x \in Sender, SendEvent(x)
      PROVE  Once'
  <2>1. delivered' = delivered
    BY <1>3 DEF SendEvent
  <2>. QED
    BY <1>1, <1>3, <2>1, SendAccepts, OnceAccept
<1>4. ASSUME BroadcastEvent
      PROVE  Once'
  <2>1. delivered' = delivered
    BY <1>4 DEF BroadcastEvent
  <2>. QED
    BY <1>4, <2>1, BroadcastAccepts, OnceAccept
<1>5. ASSUME NEW x \in Sender, NEW i \in Instance, SendLookup(x, i)
      PROVE  Once'
  BY <1>1, <1>5 DEF SendLookup
<1>6. ASSUME Elsewhere
      PROVE  Once'
  BY <1>1, <1>3, <1>4, <1>5, <1>6
  DEF Elsewhere, Register, DeregisterCheck, DeregisterSession, vars
<1>7. ASSUME Die
      PROVE  Once'
  BY <1>1, <1>7 DEF Die
<1>8. ASSUME NEW c \in Closer, DeregisterChannel(c)
      PROVE  Once'
  BY <1>1, <1>8 DEF DeregisterChannel
<1>9. ASSUME NEW s \in Stream,
             SubscribeCheck(s) \/ SubscribeOpen(s) \/ ClientGoes(s) \/ LoopEnds(s)
               \/ SubscribeReturns(s)
      PROVE  Once'
  BY <1>1, <1>9 DEF SubscribeCheck, SubscribeOpen, ClientGoes, LoopEnds, SubscribeReturns
<1>. QED
  BY <1>2, <1>6, <1>7, <1>8, <1>9, Steps DEF StreamStep, LoopStep

\* The invariant holds at the start.
LEMMA Initially == Init => IInv
<1>1. ASSUME Init
      PROVE  TypeOK
  <2>1. /\ queue \in [Stream -> Seq(Event)] /\ accepted \subseteq Message
        /\ delivered \subseteq Message
    BY <1>1 DEF Init
  <2>2. closer \in [Closer -> Deregistration] /\ sender \in [Sender -> Sending]
    BY <1>1 DEF Init, Deregistration, Sending
  <2>3. events \in 0..MaxEvents /\ restarts \in 0..MaxRestarts
    BY <1>1, EventsAssumption DEF Init
  <2>. QED
    BY <1>1, <2>1, <2>2, <2>3 DEF Init, TypeOK, Phase
<1>2. ASSUME Init
      PROVE  /\ MapMatchesLoops /\ Unopened /\ Owned /\ Finished /\ Buffered /\ OnlySendsPanic
  BY <1>2 DEF Init, MapMatchesLoops, Subscribed, Unopened, Owned, Finished, Buffered, OnlySendsPanic
<1>3. ASSUME Init
      PROVE  Numbered /\ Once
  BY <1>3 DEF Init, Numbered, Once, Distinct
<1>. QED
  BY <1>1, <1>2, <1>3 DEF IInv

\* IInv is inductive: Register, Subscribe, Deregister, SendEventToInstance,
\* BroadcastEvent and the end of the process all keep it.
THEOREM Invariance == Spec => []IInv
<1>1. IInv /\ [Next]_vars => IInv'
  BY TypeStep, MapStep, UnopenedStep, OwnedStep, FinishedStep, BufferedStep, NumberedStep,
     OnceStep, PanicStep DEF IInv
<1>. QED
  BY Initially, <1>1, PTL DEF Spec

\* The types of all variables; a sender that goes on has found a channel.
THEOREM TypesHold == Spec => []TypeOK
<1>1. IInv => TypeOK
  BY DEF IInv
<1>. QED
  BY Invariance, <1>1, PTL

\* Subscribe, its deferred cleanup and Deregister keep the map, the channels and
\* the event loops in agreement, however many of them cross.
THEOREM MapAndLoopsAgree == Spec => []MapMatchesLoops
<1>1. IInv => MapMatchesLoops
  BY DEF IInv
<1>. QED
  BY Invariance, <1>1, PTL

\* Under the lock nothing panics: no channel is closed twice, and BroadcastEvent
\* meets no closed channel.
THEOREM LockHoldersDoNotPanic == Spec => []OnlySendsPanic
<1>1. IInv => OnlySendsPanic
  BY DEF IInv
<1>. QED
  BY Invariance, <1>1, PTL

\* A stream that returned without losing its client has delivered every event
\* whose send succeeded.
THEOREM NothingAcceptedIsLost == Spec => []ReturnedMeansDelivered
<1>1. IInv => ReturnedMeansDelivered
  <2>. SUFFICES ASSUME IInv, NEW m \in accepted, phase[m[1]] \in {"leaving", "over"},
                       m[1] \notin gone
                PROVE  m \in delivered
    BY DEF ReturnedMeansDelivered
  <2>1. m[1] \in Stream
    BY DEF IInv, TypeOK, Message
  <2>2. queue[m[1]] = <<>>
    BY <2>1 DEF IInv, Finished
  <2>3. ~Holds(queue[m[1]], m[2])
    BY <2>2 DEF Holds
  <2>. QED
    BY <2>3 DEF IInv, Buffered
<1>. QED
  BY Invariance, <1>1, PTL

\* What an accepted event waits for is never lost: it is in the channel of a
\* stream whose loop still runs, unless it has arrived or the client is gone.
\* What fairness adds is that the loop goes on (AcceptedArrives).
UnderWay ==
  \A m \in accepted : m \in delivered \/ m[1] \in gone
    \/ (phase[m[1]] = "loop" /\ Holds(queue[m[1]], m[2]))

THEOREM AcceptedIsUnderWay == Spec => []UnderWay
<1>1. IInv => UnderWay
  <2>. SUFFICES ASSUME IInv, NEW m \in accepted, m \notin delivered, m[1] \notin gone
                PROVE  phase[m[1]] = "loop" /\ Holds(queue[m[1]], m[2])
    BY DEF UnderWay
  <2>1. m[1] \in Stream /\ phase[m[1]] \in Phase
    BY DEF IInv, TypeOK, Message
  <2>2. Holds(queue[m[1]], m[2])
    BY DEF IInv, Buffered
  <2>3. queue[m[1]] # <<>>
    BY <2>2 DEF Holds
  <2>. QED
    BY <2>1, <2>2, <2>3 DEF IInv, Unopened, Finished, Phase
<1>. QED
  BY Invariance, <1>1, PTL

-----------------------------------------------------------------------------
\* The refinement of EventStreams.

\* The streams that are over.
Over == {s \in Stream : phase[s] \in {"leaving", "over"}}

\* At the start there is nothing.
LEMMA StreamsInit == Init => Streams!Init
BY DEF Init, Streams!Init

\* Closing the channel of an instance seals its stream.
LEMMA CloseSeals ==
  ASSUME NEW s \in Stream, Close(s), Over' = Over,
         UNCHANGED <<queue, gone, accepted, delivered>>
  PROVE  Streams!Next
<1>1. Streams!Seal(s)
  BY DEF Close, Over, Streams!Seal
<1>. QED
  BY <1>1 DEF Streams!Next

\* What leaves the channels, the clients and the ends of streams alone is
\* invisible.
LEMMA Invisible ==
  ASSUME Over' = Over, UNCHANGED <<queue, closed, gone, accepted, delivered>>
  PROVE  UNCHANGED Streams!vars
BY DEF Over, Streams!vars

\* Sending is accepting, looking up and the sessions are invisible.
LEMMA ElsewhereMaps ==
  ASSUME IInv, Elsewhere
  PROVE  [Streams!Next]_(Streams!vars)
<1> USE DEF authVars, chanVars, loopVars, sendVars, endVars
<1>0. /\ UNCHANGED <<closed, phase, gone, delivered>> /\ Over' = Over
  BY ElsewhereFrame DEF Over
<1>1. ASSUME UNCHANGED <<queue, accepted>>
      PROVE  UNCHANGED Streams!vars
  BY <1>0, <1>1, Invisible
<1>2. ASSUME NEW S \in SUBSET Stream, NEW e \in Event,
             S \cap closed = {}, \A s \in S : <<s, e>> \notin accepted,
             queue' = [s \in Stream |-> IF s \in S THEN Append(queue[s], e) ELSE queue[s]],
             accepted' = accepted \cup {<<s, e>> : s \in S}
      PROVE  Streams!Next
  <2>1. Streams!Accept(S, e)
    BY <1>0, <1>2 DEF Over, Streams!Accept
  <2>. QED
    BY <2>1 DEF Streams!Next
<1>3. ASSUME NEW x \in Sender, SendEvent(x)
      PROVE  [Streams!Next]_(Streams!vars)
  BY <1>1, <1>2, <1>3, SendAccepts
<1>4. ASSUME BroadcastEvent
      PROVE  Streams!Next
  BY <1>2, <1>4, BroadcastAccepts
<1>5. ASSUME NEW x \in Sender, NEW i \in Instance, SendLookup(x, i)
      PROVE  UNCHANGED <<queue, accepted>>
  BY <1>5 DEF SendLookup
<1>6. ASSUME NEW i \in Instance, Register(i)
      PROVE  UNCHANGED <<queue, accepted>>
  BY <1>6 DEF Register
<1>7. ASSUME NEW c \in Closer, DeregisterCheck(c) \/ DeregisterSession(c)
      PROVE  UNCHANGED <<queue, accepted>>
  BY <1>7 DEF DeregisterCheck, DeregisterSession
<1>8. ASSUME UNCHANGED vars
      PROVE  UNCHANGED <<queue, accepted>>
  BY <1>8 DEF vars
<1>. QED
  BY <1>1, <1>3, <1>4, <1>5, <1>6, <1>7, <1>8 DEF Elsewhere

\* A step of the loop delivers, drops or ends; opening a channel seals the one
\* it replaces.
LEMMA StreamMaps ==
  ASSUME IInv, NEW s \in Stream, StreamStep(s)
  PROVE  [Streams!Next]_(Streams!vars)
<1> USE DEF authVars, chanVars, loopVars, sendVars, endVars
<1>0. /\ phase \in [Stream -> Phase] /\ queue \in [Stream -> Seq(Event)]
      /\ subscribers \in [Instance -> Stream \cup {NoStream}] /\ Owned /\ Once
  BY DEF IInv, TypeOK
<1>1. CASE SubscribeCheck(s)
  <2>1. Over' = Over
    BY <1>0, <1>1 DEF SubscribeCheck, Over
  <2>. QED
    BY <1>1, <2>1, Invisible DEF SubscribeCheck
<1>2. CASE SubscribeOpen(s)
  <2>1. Over' = Over
    BY <1>0, <1>2 DEF SubscribeOpen, Over
  <2>2. UNCHANGED <<queue, gone, accepted, delivered>>
    BY <1>2 DEF SubscribeOpen
  <2>3. CASE Subscribed(owner[s])
    <3>1. subscribers[owner[s]] \in Stream
      BY <1>0, <1>2, <2>3 DEF SubscribeOpen, Owned, Subscribed
    <3>2. Close(subscribers[owner[s]])
      BY <1>2, <2>3 DEF SubscribeOpen
    <3>. QED
      BY <2>1, <2>2, <3>1, <3>2, CloseSeals
  <2>4. CASE ~Subscribed(owner[s])
    BY <1>2, <2>1, <2>2, <2>4, Invisible DEF SubscribeOpen
  <2>. QED
    BY <2>3, <2>4
<1>3. CASE ClientGoes(s)
  <2>1. Streams!ClientGoes(s)
    BY <1>3 DEF ClientGoes, Streams!ClientGoes
  <2>. QED
    BY <2>1 DEF Streams!Next
<1>4. CASE LoopReceive(s)
  <2>1. s \notin Over /\ queue[s] # <<>> /\ queue' = [queue EXCEPT ![s] = Tail(@)]
        /\ UNCHANGED <<closed, gone, accepted>>
    BY <1>4 DEF LoopReceive, Over
  <2>2. CASE s \in gone
    <3>1. Over' \in {Over, Over \cup {s}} /\ delivered' = delivered
      BY <1>0, <1>4, <2>2 DEF LoopReceive, Over
    <3>2. Streams!Drop(s)
      BY <2>1, <2>2, <3>1 DEF Over, Streams!Drop
    <3>. QED
      BY <3>2 DEF Streams!Next
  <2>3. CASE s \notin gone
    <3>1. Over' = Over /\ delivered' = delivered \cup {<<s, Head(queue[s])>>}
      BY <1>0, <1>4, <2>3 DEF LoopReceive, Over
    <3>2. <<s, Head(queue[s])>> \in accepted \ delivered
      <4>1. 1 \in 1..Len(queue[s]) /\ Head(queue[s]) = queue[s][1]
        BY <1>0, <2>1
      <4>. QED
        BY <1>0, <4>1 DEF Once
    <3>3. Streams!Deliver(s)
      BY <2>1, <2>3, <3>1, <3>2 DEF Over, Streams!Deliver
    <3>. QED
      BY <3>3 DEF Streams!Next
  <2>. QED
    BY <2>2, <2>3
<1>5. CASE LoopEnds(s)
  <2>1. Over' = Over \cup {s}
    BY <1>0, <1>5 DEF LoopEnds, Over
  <2>2. Streams!End(s)
    BY <1>5, <2>1 DEF LoopEnds, ClosedAndEmpty, Over, Streams!End
  <2>. QED
    BY <2>2 DEF Streams!Next
<1>6. CASE SubscribeReturns(s)
  <2>1. Over' = Over
    BY <1>0, <1>6 DEF SubscribeReturns, Over
  <2>. QED
    BY <1>6, <2>1, Invisible DEF SubscribeReturns
<1>. QED
  BY <1>1, <1>2, <1>3, <1>4, <1>5, <1>6 DEF StreamStep, LoopStep

\* The last step of a Deregister seals the stream of the instance, if it has one.
LEMMA DeregisterMaps ==
  ASSUME IInv, NEW c \in Closer, DeregisterChannel(c)
  PROVE  [Streams!Next]_(Streams!vars)
<1> USE DEF authVars, chanVars, loopVars, sendVars, endVars
<1>1. Over' = Over /\ UNCHANGED <<queue, gone, accepted, delivered>>
  BY DEF DeregisterChannel, Over
<1>2. CASE Subscribed(closer[c].inst)
  <2>1. closer[c].inst \in Instance
    BY DEF DeregisterChannel, IInv, TypeOK, Deregistration, Resting
  <2>2. subscribers[closer[c].inst] \in Stream
    BY <1>2, <2>1, MappedIsOpened
  <2>3. Close(subscribers[closer[c].inst])
    BY <1>2 DEF DeregisterChannel
  <2>. QED
    BY <1>1, <2>2, <2>3, CloseSeals
<1>3. CASE ~Subscribed(closer[c].inst)
  BY <1>1, <1>3, Invisible DEF DeregisterChannel
<1>. QED
  BY <1>2, <1>3

\* When the process ends, every stream that was begun is cut.
LEMMA DieCuts ==
  ASSUME IInv, Die
  PROVE  Streams!Next
<1>1. PICK C \in SUBSET Stream : C = {s \in Stream : phase[s] # "none"}
  OBVIOUS
<1>2. /\ gone' = gone \cup C /\ UNCHANGED <<queue, closed, accepted, delivered>>
  BY <1>1 DEF Die
<1>3. Over' = Over \cup C
  BY <1>1 DEF IInv, TypeOK, Die, Over
<1>4. Streams!Cut(C)
  BY <1>2, <1>3 DEF Over, Streams!Cut
<1>. QED
  BY <1>4 DEF Streams!Next

\* Sessions, the map, its lock, replaced and deregistered channels and restarts
\* implement the event streams: in the order they were accepted in, at most
\* once, and without loss while the client is there.
THEOREM ImplementsEventStreams == Spec => ImplementsStreams
<1>1. IInv /\ [Next]_vars => [Streams!Next]_(Streams!vars)
  BY Steps, ElsewhereMaps, StreamMaps, DeregisterMaps, DieCuts
<1>. QED
  BY StreamsInit, Invariance, <1>1, PTL DEF Spec, ImplementsStreams, Streams!Spec

=============================================================================
