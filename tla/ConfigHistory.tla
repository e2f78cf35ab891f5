---------------------------- MODULE ConfigHistory -----------------------------
(***************************************************************************)
(* What the table config_versions promises: the "immutable history" of the *)
(* schema.  A version is stored once and never changes, and versions are   *)
(* stored in the order of their numbers, except the first one, which is    *)
(* stored apart from the configuration and may come late or never.         *)
(***************************************************************************)
EXTENDS Naturals

CONSTANTS Config, Content, NoContent, MaxVersion

VARIABLE history  \* the content of every version of every configuration

Version == 1..MaxVersion
Stored(c, v) == history[c][v] # NoContent

Init == history = [c \in Config |-> [v \in Version |-> NoContent]]

\* Version v of c is stored: nothing is overwritten, skipped or overtaken.
Append(c, v, x) ==
  /\ ~Stored(c, v)
  /\ \A w \in 2..(v - 1) : Stored(c, w)
  /\ v > 1 => \A w \in (v + 1)..MaxVersion : ~Stored(c, w)
  /\ history' = [history EXCEPT ![c][v] = x]

Next == \E c \in Config, v \in Version, x \in Content : Append(c, v, x)

Spec == Init /\ [][Next]_history
=============================================================================
