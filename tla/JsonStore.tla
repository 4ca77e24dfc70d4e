----------------------------- MODULE JsonStore -----------------------------
(***************************************************************************)
(* The JSON files of the data directory that hold something per port:      *)
(* aliases, tags, profiles and locks, and how a request changes them.      *)
(*                                                                         *)
(* A handler loads a file, changes one entry and saves the file without an *)
(* await, so it is one step.  A file that cannot be read loads as an empty *)
(* one, and that is then saved with the change.  Saving truncates the file *)
(* before it writes it: a full disk or a crash leaves a file that does not *)
(* parse, and that loads as an empty one from then on.  A file that cannot *)
(* even be opened for writing stays as it is, which is no step.            *)
(***************************************************************************)
EXTENDS Naturals, FiniteSets

CONSTANTS User, Port,
          Value,      \* what is stored for a port (an alias, tags, a profile)
          None,       \* no entry
          MaxSaves    \* bound: how often files are saved

ASSUME StoreAssumption == None \notin Value \cup User /\ MaxSaves \in Nat

VARIABLES disk,       \* the files as they load
          saves       \* number of saves

Store == {"port_aliases", "port_tags", "port_profiles", "port_locks"}
Empty == [p \in Port |-> None]

StoreInit == disk = [f \in Store |-> Empty] /\ saves = 0

Role == {"admin", "user", "viewer"}
Level(r) == CASE r = "admin" -> 3 [] r = "user" -> 2 [] r = "viewer" -> 1

\* require_role: what caller c (a name and a role) may do.
Requires(c, r) == Level(c.role) >= Level(r)

Save(f, content, ok) ==
    /\ saves < MaxSaves /\ saves' = saves + 1
    /\ disk' = [disk EXCEPT ![f] = IF ok THEN content ELSE Empty]

\* What the handler goes by: the file, or an empty one when reading it fails.
Load(f, read) == IF read THEN disk[f] ELSE Empty

\* Sets the entry of a port in what was loaded, or drops it.
SetEntry(f, p, v, read, ok) == Save(f, [Load(f, read) EXCEPT ![p] = v], ok)

\* A blank alias and an empty list of tags drop the entry.
RenamePort(c, p, v, read, ok) ==
    Requires(c, "admin") /\ SetEntry("port_aliases", p, v, read, ok)

SetTags(c, p, v, read, ok) ==
    Requires(c, "admin") /\ SetEntry("port_tags", p, v, read, ok)

SaveProfile(c, p, v, read, ok) ==
    Requires(c, "admin") /\ v # None /\ SetEntry("port_profiles", p, v, read, ok)

DeleteProfile(c, p, read, ok) ==
    Requires(c, "admin") /\ SetEntry("port_profiles", p, None, read, ok)

\* (A slip: whether the port is locked already is not asked.)
MutLockPort(c, p, read, ok) ==
    /\ Requires(c, "user")
    /\ SetEntry("port_locks", p, c.name, read, ok)

LockPort(c, p, read, ok) ==
    /\ Requires(c, "user")
    /\ Load("port_locks", read)[p] = None
    /\ SetEntry("port_locks", p, c.name, read, ok)

\* Without the file there is no lock to release, and nothing is saved.
UnlockPort(c, p, ok) ==
    /\ Requires(c, "user")
    /\ disk["port_locks"][p] # None
    /\ disk["port_locks"][p] = c.name \/ c.role = "admin"
    /\ SetEntry("port_locks", p, None, TRUE, ok)

PortRequest(c) ==
    \E p \in Port, read, ok \in BOOLEAN :
       \/ \E v \in Value \cup {None} :
             \/ RenamePort(c, p, v, read, ok) \/ SetTags(c, p, v, read, ok)
             \/ SaveProfile(c, p, v, read, ok)
       \/ DeleteProfile(c, p, read, ok)
       \/ LockPort(c, p, read, ok) \/ UnlockPort(c, p, ok)

-----------------------------------------------------------------------------
StoreTypeOK ==
    /\ saves \in Nat
    /\ disk \in [Store -> [Port -> Value \cup User \cup {None}]]
    /\ \A f \in Store : f # "port_locks" => disk[f] \in [Port -> Value \cup {None}]
    /\ disk["port_locks"] \in [Port -> User \cup {None}]

\* A lock goes from one user to another only by being released, or lost with its
\* file, in between; unless the file could not be read when the other one locked
\* the port: then every other lock of the file is gone as well (config.py:253-254,
\* routes_api.py:691-706).
LockChangesHands ==
    [][\A p \in Port :
          LET before == disk["port_locks"][p]
              after  == disk'["port_locks"][p] IN
          before # None /\ after \notin {before, None} =>
             \A q \in Port \ {p} : disk'["port_locks"][q] = None]_disk
=============================================================================
