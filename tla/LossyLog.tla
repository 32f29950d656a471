------------------------------- MODULE LossyLog -------------------------------
(***************************************************************************)
(* What the live view of the logs promises to a reader who opens it: each  *)
(* line he is shown was written, is one he asked for, and is shown to him  *)
(* once; the lines the panel itself writes come in the order they were     *)
(* written.  Any line may be missing.  LogStream implements it.            *)
(***************************************************************************)
EXTENDS Naturals, Sequences, SequencesExt

CONSTANTS
  Readers,   \* the connections that watch the log
  Entries,   \* the lines: [from |-> "panel" or "node", n |-> a number]
  Wanted     \* Wanted[r]: the lines that pass the filter of r

VARIABLES
  written,   \* the lines written so far
  shown      \* shown[r]: what r has been sent, in order

vars == <<written, shown>>

Init == written = {} /\ shown = [r \in Readers |-> <<>>]

Write(e) ==
  /\ e \notin written
  /\ written' = written \cup {e}
  /\ UNCHANGED shown

NoRepetition(s) == \A i, j \in DOMAIN s : s[i] = s[j] => i = j

PanelInOrder(s) ==
  \A i, j \in DOMAIN s :
    (s[i].from = "panel" /\ s[j].from = "panel" /\ s[i].n < s[j].n) => i < j

Show(r) ==
  /\ shown' = [shown EXCEPT ![r] = shown'[r]]
  /\ IsPrefix(shown[r], shown'[r])
  /\ ToSet(shown'[r]) \subseteq written \cap Wanted[r]
  /\ NoRepetition(shown'[r])
  /\ PanelInOrder(shown'[r])
  /\ UNCHANGED written

Next == (\E e \in Entries : Write(e)) \/ (\E r \in Readers : Show(r))

Spec == Init /\ [][Next]_vars
===============================================================================
