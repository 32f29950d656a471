----------------------------- MODULE MCWorkers -----------------------------
(***************************************************************************)
(* The panel and its workers on small instances.                           *)
(***************************************************************************)
EXTENDS Workers, MCNodeManager, Sequences

LOCAL INSTANCE SequencesExt

(* Two inbounds that may claim one port, two workers, one blocked address: *)
(* three edits of the panel's rows, or two and a core stopped by hand.     *)
FleetWith(edits_, stops_) ==
  [Nodes |-> {"n1", "n2"}, Inbounds |-> {"i1", "i2"}, Ports |-> {1, 2}, Rule |-> "rule",
   Given |-> {<<"i1", "n1">>}, Profiled |-> {}, Blocks |-> TRUE,
   MaxAsks |-> 1, MaxEdits |-> edits_, MaxFaults |-> 1, MaxStops |-> stops_]

(* Two lines of the panel and one of a worker, which may crash; and two    *)
(* readers, one of whom sees the panel's lines only.  Every queue fills.   *)
LogOf(source, lines, dies) ==
  [Readers |-> DOMAIN source, Source |-> source,
   MaxLines |-> [panel |-> lines, node |-> 1], FullBuffer |-> 1, FullBatch |-> 2,
   InCap |-> 2, ReaderCap |-> 1, MaxCrashes |-> dies]

MCOf ==
  [fleet |-> FleetWith(3, 0), stopped |-> FleetWith(2, 1),
   \* Two workers, one of which serves the inbound of one client.
   traffic |->
     [Nodes |-> {"n1", "n2"}, Clients |-> {"c1"}, Inbounds |-> {"i1"},
      Given |-> {<<"n1", "i1">>}, MaxTries |-> 2, MaxMoved |-> 2, MaxRuns |-> 2,
      MaxEvents |-> 1],
   lines |-> LogOf([a |-> "all"], 2, 1),
   watched |-> LogOf([a |-> "all", p |-> "panel"], 1, 0),
   \* Two inbounds of protocol telemt with one client, changed twice by two
   \* handlers.
   sidecars |->
     [Handlers |-> {"h1", "h2"}, Tags |-> {"t", "s"}, Clients |-> {"u"},
      MaxChanges |-> 2, MaxFaults |-> 1],
   \* A request for statistics that is given up beside its retry, and the page
   \* that asks for the same; the process starts twice.
   octets |->
     [Handlers |-> {"h1", "h2"}, Clients |-> {"u"}, MaxMoved |-> 3, MaxStarts |-> 1,
      MaxAsks |-> 3]]

(* What a reader's filter leaves is what SelectSeq selects.                *)
ASSUME FilteredSelects ==
  \A r \in {"a", "p"}, s \in BoundedSeq(Watched!Entry, 3) :
    Watched!Filtered(r, s) = SelectSeq(s, LAMBDA e : Watched!Passes(r, e))
=============================================================================
