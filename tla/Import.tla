-------------------------------- MODULE Import --------------------------------
(***************************************************************************)
(* The import of another panel's SQLite file (web/service/migration.go):   *)
(* table after table, row after row, in one PostgreSQL transaction, while  *)
(* the panel goes on serving.  A row that cannot be written is only warned *)
(* about and the loop goes on, but PostgreSQL has by then given the whole  *)
(* transaction up: every later statement fails, and so does the last one,  *)
(* whose error is not ignored.  The module says what an administrator may  *)
(* then count on: all of the file, or nothing of it.                       *)
(*                                                                         *)
(* The tables of outbound traffic, of addresses and of seeders are left    *)
(* out: they are written row by row in the same manner and nothing else    *)
(* of the panel refers to them.  Rows are keyed as the code looks them up: *)
(* inbounds by id, clients by their address in lower case, settings by     *)
(* key.                                                                    *)
(***************************************************************************)
EXTENDS Naturals, FiniteSets, Functions

CONSTANTS
  Lower,      \* Lower[n]: the address n of the file in lower case
  NoEmail,    \* a client of the file that has none
  FileUsers,  \* the ids of the file's users
  FileKeys,   \* the keys of the file's settings
  Ignored,    \* ignoredPanelSettings
  File,       \* File[i] = [tag, members]: the file's inbound i
  Usage,      \* Usage[n]: traffic of the client n of the file
  Panels,     \* what the panel's database may hold before
  NewTags,    \* tags of the inbounds an administrator adds meanwhile
  MaxId,      \* bound on the ids the panel has given out
  MaxImports

\* A database's tables, by name.
Shaped(d) == d = [users |-> d.users, keys |-> d.keys, inbounds |-> d.inbounds,
                  used |-> d.used, links |-> d.links]

\* Each panel's inbounds list the clients linked to them; the file's clients are in
\* Lower.
ImportAssumption ==
  /\ MaxImports \in Nat /\ DOMAIN File \subseteq Nat
  /\ \A i \in DOMAIN File : File[i].members \subseteq DOMAIN Lower \cup {NoEmail}
  /\ IsFiniteSet(DOMAIN Usage) /\ \A n \in DOMAIN Usage : Usage[n] \in Nat
  /\ \A p \in Panels :
       /\ Shaped(p)
       /\ Cardinality(DOMAIN p.inbounds) \in Nat /\ DOMAIN p.inbounds \subseteq Nat
       /\ p.links \subseteq (DOMAIN p.used) \X (DOMAIN p.inbounds)
       /\ \A e \in DOMAIN p.used : p.used[e] \in Nat
       /\ \A i \in DOMAIN p.inbounds :
            p.inbounds[i].names = {e \in DOMAIN p.used : <<e, i>> \in p.links}

VARIABLES
  db,       \* committed: [users, keys, inbounds, used, links]
  given,    \* the last id the sequence of inbounds has given out
  stage,    \* of the import: "idle" or the table it is writing
  todo,     \* the rows of that table still to write
  tx,       \* what the transaction has written
  aborted,  \* PostgreSQL has given the transaction up
  imports

vars == <<db, given, stage, todo, tx, aborted, imports>>

Nothing == [users |-> {}, keys |-> <<>>, inbounds |-> <<>>, used |-> <<>>, links |-> {}]

\* What g says where it says something, and f elsewhere.
Over(f, g) == [x \in DOMAIN f \cup DOMAIN g |-> IF x \in DOMAIN g THEN g[x] ELSE f[x]]

Put(f, x, v) == Over(f, [y \in {x} |-> v])

\* What a statement of the transaction sees, and what its commit leaves.
Seen == [users    |-> db.users \cup tx.users,
         keys     |-> Over(db.keys, tx.keys),
         inbounds |-> Over(db.inbounds, tx.inbounds),
         used     |-> Over(db.used, tx.used),
         links    |-> db.links \cup tx.links]

MembersOf(d, i) == {e \in DOMAIN d.used : <<e, i>> \in d.links}

Init ==
  /\ db \in Panels
  /\ given = Cardinality(DOMAIN db.inbounds)
  /\ stage = "idle" /\ todo = {} /\ tx = Nothing /\ aborted = FALSE /\ imports = 0

-------------------------------------------------------------------------------
(* The rows of the file, by table *)

Stages == {"idle", "users", "settings", "inbounds", "clients", "traffics", "rebuild"}

After == [users |-> "settings", settings |-> "inbounds", inbounds |-> "clients",
          clients |-> "traffics", traffics |-> "rebuild"]

\* The settings of the panel itself are skipped.
Imported == FileKeys \ Ignored

Rows(t) ==
  CASE t = "users"    -> FileUsers
    [] t = "settings" -> Imported
    [] t = "inbounds" -> DOMAIN File
    [] t = "clients"  -> {m \in (DOMAIN Lower \cup {NoEmail}) \X DOMAIN File :
                            m[1] \in File[m[2]].members}
    [] t = "traffics" -> DOMAIN Usage
    [] OTHER          -> {}

Begin ==
  /\ stage = "idle" /\ imports < MaxImports
  /\ stage' = "users" /\ todo' = Rows("users")
  /\ tx' = Nothing /\ aborted' = FALSE /\ imports' = imports + 1
  /\ UNCHANGED <<db, given>>

NextTable ==
  /\ stage \in DOMAIN After /\ todo = {}
  /\ stage' = After[stage] /\ todo' = Rows(stage')
  /\ UNCHANGED <<db, given, tx, aborted, imports>>

\* After an error every statement of the transaction fails.  (Mutant: as if
\* each row had a transaction of its own.)
RowOnly == FALSE
GivenUp == TRUE

\* One row: written is what the transaction holds afterwards if it can be
\* written, fits says whether a unique index admits it.
Row(t, x, fits, written) ==
  /\ stage = t /\ x \in todo
  /\ todo' = todo \ {x}
  /\ \/ ~aborted /\ fits /\ tx' = written /\ UNCHANGED aborted
     \/ aborted' = (aborted \/ GivenUp) /\ UNCHANGED tx
  /\ UNCHANGED <<db, given, stage, imports>>

\* A user whose id is taken is left as he is.
MigrateUser(u) == Row("users", u, TRUE, [tx EXCEPT !.users = @ \cup {u}])

MigrateSetting(k) == Row("settings", k, TRUE, [tx EXCEPT !.keys = Put(@, k, "file")])

\* An inbound of the same id is overwritten, whatever it was; its settings
\* are the file's until they are rebuilt.
MigrateInbound(i) ==
  Row("inbounds", i,
      \A j \in DOMAIN Seen.inbounds : Seen.inbounds[j].tag = File[i].tag => j = i,
      [tx EXCEPT !.inbounds = Put(@, i, [tag |-> File[i].tag, names |-> File[i].members])])

\* A member of the file's inbound: the client is found or created, and linked.
\* One without an address is skipped with a warning.
MigrateClient(n, i) ==
  IF n = NoEmail
    THEN /\ stage = "clients" /\ <<n, i>> \in todo
         /\ todo' = todo \ {<<n, i>>}
         /\ UNCHANGED <<db, given, stage, tx, aborted, imports>>
    ELSE LET e == Lower[n] IN
         Row("clients", <<n, i>>, TRUE,
             [tx EXCEPT !.links = @ \cup {<<e, i>>},
                        !.used = IF e \in DOMAIN Seen.used THEN @ ELSE Put(@, e, 0)])

\* The old traffic is added to the client's; without a client it is dropped.
MigrateTraffic(n) ==
  LET e == Lower[n] IN
    Row("traffics", n, TRUE,
        IF e \in DOMAIN Seen.used
          THEN [tx EXCEPT !.used = Put(@, e, Seen.used[e] + Usage[n])]
          ELSE tx)

\* rebuildInboundsSettings: every inbound of the panel lists the clients
\* linked to it.  (Mutant: an inbound without clients is left alone.)
RebuiltLinked(d, i) ==
  IF MembersOf(d, i) = {} THEN d.inbounds[i].names ELSE MembersOf(d, i)
Rebuilt(d, i) == MembersOf(d, i)

Committed ==
  [Seen EXCEPT !.inbounds =
     [i \in DOMAIN @ |-> [tag |-> @[i].tag, names |-> Rebuilt(Seen, i)]]]

Commit ==
  /\ stage = "rebuild" /\ ~aborted
  /\ stage' = "idle" /\ db' = Committed /\ tx' = Nothing
  /\ UNCHANGED <<given, todo, aborted, imports>>

\* The list of inbounds cannot be read in an aborted transaction; it, the
\* commit or a whole table may also fail, or the process end.
RollBack ==
  /\ stage # "idle"
  /\ stage' = "idle" /\ todo' = {} /\ tx' = Nothing /\ aborted' = FALSE
  /\ UNCHANGED <<db, given, imports>>

-------------------------------------------------------------------------------
(* An administrator adds an inbound meanwhile: AddInbound takes an id from *)
(* the sequence, which knows nothing of the ids the file brought; a row    *)
(* the transaction has written makes it wait.                              *)
AddInbound(t) ==
  /\ given < MaxId
  /\ given' = given + 1
  /\ stage # "idle" =>
       given' \notin DOMAIN tx.inbounds /\ \A i \in DOMAIN tx.inbounds : tx.inbounds[i].tag # t
  /\ db' = IF given' \in DOMAIN db.inbounds \/ \E i \in DOMAIN db.inbounds : db.inbounds[i].tag = t
             THEN db
             ELSE [db EXCEPT !.inbounds = Put(@, given', [tag |-> t, names |-> {}])]
  /\ UNCHANGED <<stage, todo, tx, aborted, imports>>

Next ==
  \/ Begin \/ NextTable \/ Commit \/ RollBack
  \/ \E u \in FileUsers : MigrateUser(u)
  \/ \E k \in FileKeys : MigrateSetting(k)
  \/ \E i \in DOMAIN File : MigrateInbound(i)
  \/ \E r \in Rows("clients") : MigrateClient(r[1], r[2])
  \/ \E n \in DOMAIN Usage : MigrateTraffic(n)
  \/ \E t \in NewTags : AddInbound(t)

Spec == Init /\ [][Next]_vars

-------------------------------------------------------------------------------
(* Properties *)

TypeOK ==
  /\ stage \in Stages /\ aborted \in BOOLEAN /\ imports \in 0 .. MaxImports
  /\ given \in Nat /\ DOMAIN db.inbounds \subseteq Nat
  /\ \A i \in DOMAIN db.inbounds : db.inbounds[i].names \subseteq DOMAIN db.used
  /\ \A l \in db.links : l[1] \in DOMAIN db.used

Plus(S) == FoldFunctionOnSet(+, 0, Usage, S)

OldUse(e) == IF e \in DOMAIN db.used THEN db.used[e] ELSE 0

\* The database afterwards holds the file: each inbound under its id, each
\* member with an address linked, and the traffic of the file added once.
Whole ==
  /\ FileUsers \subseteq db'.users
  /\ \A i \in DOMAIN File :
       /\ i \in DOMAIN db'.inbounds /\ db'.inbounds[i].tag = File[i].tag
       /\ \A n \in File[i].members \ {NoEmail} : <<Lower[n], i>> \in db'.links
  /\ \A e \in DOMAIN db'.used :
       db'.used[e] = OldUse(e) + Plus({n \in DOMAIN Usage : Lower[n] = e})

Ends == stage # "idle" /\ stage' = "idle" /\ db' # db

\* Whatever row fails and wherever the import ends, what the panel's other
\* requests see is either untouched by it or has the whole file, with its
\* traffic counted once (ExecuteMigration, whose loops only warn of a row that
\* cannot be written).
AllOrNothing == [][Ends => Whole]_vars

\* The settings of an inbound list exactly the clients linked to it, after any
\* import, over whatever inbound was there before
\* (rebuildInboundsSettings).
SettingsFollowLinks ==
  \A i \in DOMAIN db.inbounds : db.inbounds[i].names = MembersOf(db, i)

KeepsAccess ==
  /\ \A k \in DOMAIN db.keys \cap Ignored : k \in DOMAIN db'.keys /\ db'.keys[k] = db.keys[k]
  /\ db.users \subseteq db'.users

\* An import never changes how the panel itself is reached: the keys of
\* ignoredPanelSettings keep their values, and an existing user stays.
AccessKept == [][KeepsAccess]_vars

-------------------------------------------------------------------------------
(* The inductive invariants behind SettingsFollowLinks and AllOrNothing    *)
(* (LocalCoreProofs).                                                      *)

\* Clients are linked to inbounds there are.
Linked(d) == d.links \subseteq (DOMAIN d.used) \X (DOMAIN d.inbounds)

\* While the transaction lives, the inbounds of the file are written before
\* the first client is linked to one of them.
Ordered ==
  /\ tx.links # {} => stage \in {"clients", "traffics", "rebuild"}
  /\ stage = "inbounds" => DOMAIN File \subseteq todo \cup DOMAIN tx.inbounds
  /\ stage \in {"clients", "traffics", "rebuild"} => DOMAIN File \subseteq DOMAIN tx.inbounds
  /\ tx.links \subseteq (DOMAIN Seen.used) \X (DOMAIN File)

ImportInv ==
  /\ TypeOK /\ SettingsFollowLinks
  /\ Shaped(db) /\ Linked(db)
  /\ Shaped(tx) /\ DOMAIN tx.inbounds \subseteq Nat
  /\ stage # "idle" /\ ~aborted => Ordered

Turn == [users |-> 1, settings |-> 2, inbounds |-> 3, clients |-> 4, traffics |-> 5,
         rebuild |-> 6]

\* The rows of a table that the import has been through.
Through(t) == {x \in Rows(t) : Turn[t] < Turn[stage] \/ (t = stage /\ x \notin todo)}

\* While the transaction lives, it has written every row it has been through, none that
\* is to be skipped, and each traffic once.
Progress ==
  /\ todo \subseteq Rows(stage)
  /\ Through("users") \subseteq tx.users /\ (DOMAIN tx.keys) \cap Ignored = {}
  /\ \A i \in DOMAIN tx.inbounds : i \in DOMAIN File /\ tx.inbounds[i].tag = File[i].tag
  /\ \A m \in Through("clients") :
       m[1] # NoEmail => <<Lower[m[1]], m[2]>> \in tx.links
  /\ \A e \in DOMAIN Seen.used :
       Seen.used[e] = OldUse(e) + Plus({n \in Through("traffics") : Lower[n] = e})

ProgressInv ==
  /\ ImportInv /\ \A e \in DOMAIN db.used : db.used[e] \in Nat
  /\ stage # "idle" /\ ~aborted => Progress
===============================================================================
