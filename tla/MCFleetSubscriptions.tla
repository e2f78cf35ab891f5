------------------------ MODULE MCFleetSubscriptions ------------------------
(***************************************************************************)
(* Instances of FleetSubscriptions for TLC.                                *)
(***************************************************************************)
EXTENDS FleetSubscriptions, TLC

\* Tokens, streams, closers and senders are interchangeable.
Interchangeable ==
  Permutations(Token) \cup Permutations(Stream) \cup Permutations(Closer)
    \cup Permutations(Sender) \cup Permutations(Instance)

=============================================================================
