------------------------------ MODULE MCPanel ------------------------------
(***************************************************************************)
(* The panel's server on small instances.                                  *)
(***************************************************************************)
EXTENDS Panel, MCLocalCore

(* The file: an address in two spellings, and clients with none.           *)
FileLower == "A" :> "a" @@ "a" :> "a" @@ "b" :> "b"

FileInbounds ==
  1 :> [tag |-> "t1", members |-> {"A", "none"}]
  @@ 2 :> [tag |-> "t2", members |-> {"a", "b"}]
  @@ 3 :> [tag |-> "t3", members |-> {"none"}]

(* The panel: empty, with an inbound of a tag of the file, or with an      *)
(* inbound and a client of the file.                                       *)
PanelWith(inbounds, used, members) ==
  [users |-> {1}, keys |-> "webPort" :> "panel", inbounds |-> inbounds,
   used |-> used, links |-> members]

(* A WireGuard inbound: without peers, with one of nobody, or with two     *)
(* that name the clients; a free address for each of them.                 *)
GivenPeer(name, n, host) == [name |-> name, key |-> <<"given", n>>, host |-> host]
GivenPeers == {{}, {GivenPeer("manual", 1, 2)},
               {GivenPeer("u", 1, 0), GivenPeer("v", 2, 2)}}

TunnelOf(most, forms, dropped) ==
  [Handlers |-> Requests, Names |-> <<"u", "v">>, Servers |-> {1, 3}, Pool |-> {2, 3},
   Given |-> GivenPeers, MaxToggles |-> most, MaxEdits |-> forms, MaxFaults |-> dropped]

FilesOf(requests_, sites, texts) ==
  [Requests |-> requests_, Nodes |-> sites, Contents |-> texts, Default |-> "d",
   MaxFaults |-> 1]

UpkeepOf(updates, dumps, leaves, deaths) ==
  [Updates |-> updates, Imports |-> dumps, MaxAsks |-> 1, MaxExits |-> leaves,
   MaxFaults |-> 1, MaxKills |-> deaths]

(* The interchangeable requests of the core also name the requests of the  *)
(* other parts, and the workers.                                           *)
MCOf ==
  [import |->
     [Lower |-> FileLower, NoEmail |-> "none", FileUsers |-> {1, 2},
      FileKeys |-> {"webPort", "other"}, Ignored |-> {"webPort"}, File |-> FileInbounds,
      Usage |-> "A" :> 1 @@ "a" :> 1,
      Panels |-> {PanelWith(<<>>, <<>>, {}),
                  PanelWith(1 :> [tag |-> "t2", names |-> {}], <<>>, {}),
                  PanelWith(1 :> [tag |-> "t0", names |-> {"a"}], "a" :> 2, {<<"a", 1>>})},
      NewTags |-> {"t1", "n"}, MaxId |-> 2, MaxImports |-> 2],
   \* Two handlers at once on the panel's own geofiles, and one that goes
   \* through two workers.
   uploads |-> FilesOf(Requests, {}, {"x"}),
   workers |-> FilesOf({"r"}, Requests, {"x", "y"}),
   \* Two goroutines, one inbound, and a manager that may be dropped once.
   sidecars |->
     [Handlers |-> Requests, Tags |-> {"t"}, Clients |-> {"u"}, MaxManagers |-> 2,
      MaxChanges |-> 2, MaxFaults |-> 0],
   tunnel |-> TunnelOf(3, 0, 1), form |-> TunnelOf(2, 1, 0),
   \* Two updates at once, one beside a dump that is restored, two dumps.
   versions |-> UpkeepOf(Requests, {}, 0, 0),
   restore |-> UpkeepOf({"v1"}, {"i1"}, 1, 1),
   dumps |-> UpkeepOf({}, {"i1", "i2"}, 0, 1)]
=============================================================================
