---------------------------- MODULE EventStreams ----------------------------
(***************************************************************************)
(* What the hub's event streams promise, without sessions, maps, locks or  *)
(* goroutines: events of a stream arrive in the order they were accepted   *)
(* in, each at most once, and none is lost while the client is there.      *)
(* A stream that is sealed (replaced or deregistered) accepts nothing more *)
(* and ends when it has delivered what it had (docs/fleet-management.md,   *)
(* SendEventToInstance, Subscribe).                                        *)
(***************************************************************************)
EXTENDS Naturals, Sequences

CONSTANTS Stream, Event

VARIABLES
  queue,      \* what a stream has accepted and not delivered
  sealed,     \* streams that accept no more
  gone,       \* streams whose client is gone
  ended,      \* streams that are over
  accepted,   \* <<stream, event>>
  delivered   \* <<stream, event>>

vars == <<queue, sealed, gone, ended, accepted, delivered>>

Init ==
  /\ queue = [s \in Stream |-> <<>>]
  /\ sealed = {} /\ gone = {} /\ ended = {}
  /\ accepted = {} /\ delivered = {}

\* One event, for one stream or for several.
Accept(S, e) ==
  /\ S \cap sealed = {}
  /\ \A s \in S : <<s, e>> \notin accepted
  /\ queue' = [s \in Stream |-> IF s \in S THEN Append(queue[s], e) ELSE queue[s]]
  /\ accepted' = accepted \cup {<<s, e>> : s \in S}
  /\ UNCHANGED <<sealed, gone, ended, delivered>>

Deliver(s) ==
  /\ s \notin gone \cup ended /\ queue[s] # <<>>
  /\ <<s, Head(queue[s])>> \in accepted \ delivered
  /\ delivered' = delivered \cup {<<s, Head(queue[s])>>}
  /\ queue' = [queue EXCEPT ![s] = Tail(@)]
  /\ UNCHANGED <<sealed, gone, ended, accepted>>

\* Into the void; the stream may notice.
Drop(s) ==
  /\ s \in gone \ ended /\ queue[s] # <<>>
  /\ queue' = [queue EXCEPT ![s] = Tail(@)]
  /\ ended' \in {ended, ended \cup {s}}
  /\ UNCHANGED <<sealed, gone, accepted, delivered>>

Seal(s) ==
  /\ sealed' = sealed \cup {s}
  /\ UNCHANGED <<queue, gone, ended, accepted, delivered>>

End(s) ==
  /\ s \in gone \/ (s \in sealed /\ queue[s] = <<>>)
  /\ ended' = ended \cup {s}
  /\ UNCHANGED <<queue, sealed, gone, accepted, delivered>>

ClientGoes(s) ==
  /\ gone' = gone \cup {s}
  /\ UNCHANGED <<queue, sealed, ended, accepted, delivered>>

\* The process that serves them ends.
Cut(S) ==
  /\ gone' = gone \cup S /\ ended' = ended \cup S
  /\ UNCHANGED <<queue, sealed, accepted, delivered>>

Next ==
  \/ \E S \in SUBSET Stream, e \in Event : Accept(S, e)
  \/ \E s \in Stream : Deliver(s) \/ Drop(s) \/ Seal(s) \/ End(s) \/ ClientGoes(s)
  \/ \E S \in SUBSET Stream : Cut(S)

Spec == Init /\ [][Next]_vars

=============================================================================
