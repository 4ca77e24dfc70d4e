--------------------------- MODULE AccountsProofs ---------------------------
(***************************************************************************)
(* For any accounts, ports, values and any number of saves, whichever of   *)
(* them and of the reads fail: names are unique, what one request may      *)
(* change and what a stale update may undo, and how long a token outlives  *)
(* its account; and for RADIUS attributes of any number, that their order  *)
(* does not matter.                                                        *)
(***************************************************************************)
EXTENDS Accounts, FiniteSetTheorems, SequenceTheorems, WellFoundedInduction, TLAPS

Unique(accounts) ==
    /\ Names(accounts) \cap Names(ConfigUsers) = {}
    /\ \A u, v \in accounts : u.name = v.name => u = v

\* The lists that waiting updates hold are unique, too, have the target, and
\* differ from users.json only in the accounts noted as changed.
CopiesOK ==
    \A k \in Call :
       /\ Unique(upd[k].copy)
       /\ upd[k].busy =>
             /\ upd[k].target \in Names(upd[k].copy)
             /\ \A m \in User \ upd[k].changed : Of(users, m) = Of(upd[k].copy, m)

\* What users.json lists now it listed last now.
HeldOK ==
    \A x \in User \X Role :
       /\ held[x] <= now
       /\ Listed(users, x) => held[x] = now

\* A token was given out while its account was listed.
TokensOK ==
    \A t \in tokens :
       t.by = "runtime" =>
          held[<<t.name, t.role>>] >= 0 /\ t.exp <= held[<<t.name, t.role>>] + Life

\* The inductive invariant.
IInv == TypeOK /\ Unique(users) /\ CopiesOK /\ HeldOK /\ TokensOK

-----------------------------------------------------------------------------
(* The files of JsonStore                                                  *)

LEMMA EmptyFile ==
    /\ Empty \in [Port -> Value \cup {None}] /\ Empty \in [Port -> User \cup {None}]
    /\ Empty \in [Port -> Value \cup User \cup {None}]
BY DEF Empty

\* Setting an entry touches one file, and keeps what is stored there.
LEMMA SetEntryKeeps ==
    ASSUME StoreTypeOK, NEW f \in Store, NEW p \in Port, NEW v,
           NEW read \in BOOLEAN, NEW ok \in BOOLEAN,
           v \in IF f = "port_locks" THEN User \cup {None} ELSE Value \cup {None},
           SetEntry(f, p, v, read, ok)
    PROVE  StoreTypeOK'
<1>1. /\ disk' = [disk EXCEPT ![f] = IF ok THEN [Load(f, read) EXCEPT ![p] = v] ELSE Empty]
      /\ saves' = saves + 1
  BY DEF SetEntry, Save
<1>2. /\ disk'[f] = IF ok THEN [Load(f, read) EXCEPT ![p] = v] ELSE Empty
      /\ \A g \in Store \ {f} : disk'[g] = disk[g]
      /\ DOMAIN disk' = Store
  BY <1>1 DEF StoreTypeOK
<1>3. CASE f = "port_locks"
  <2>1. disk'[f] \in [Port -> User \cup {None}]
    BY <1>2, <1>3, EmptyFile DEF StoreTypeOK, Load
  <2>2. disk'[f] \in [Port -> Value \cup User \cup {None}]
    BY <2>1
  <2>3. disk' \in [Store -> [Port -> Value \cup User \cup {None}]]
    BY <1>1, <1>2, <2>2 DEF StoreTypeOK
  <2> QED BY <1>1, <1>2, <1>3, <2>1, <2>3 DEF StoreTypeOK
<1>4. CASE f # "port_locks"
  <2>1. disk'[f] \in [Port -> Value \cup {None}]
    BY <1>2, <1>4, EmptyFile DEF StoreTypeOK, Load
  <2>2. disk'[f] \in [Port -> Value \cup User \cup {None}]
    BY <2>1
  <2>3. disk' \in [Store -> [Port -> Value \cup User \cup {None}]]
    BY <1>1, <1>2, <2>2 DEF StoreTypeOK
  <2>4. "port_locks" \in Store
    BY DEF Store
  <2> QED BY <1>1, <1>2, <1>4, <2>1, <2>3, <2>4 DEF StoreTypeOK
<1> QED BY <1>3, <1>4

\* Whoever asks, a request about a port sets or drops one entry of one file.
LEMMA PortRequestSets ==
    ASSUME StoreTypeOK, NEW c, c.name \in User, PortRequest(c)
    PROVE  \E f \in Store, p \in Port, read, ok \in BOOLEAN :
           \E v \in IF f = "port_locks" THEN User \cup {None} ELSE Value \cup {None} :
              SetEntry(f, p, v, read, ok)
<1>1. PICK p \in Port, read \in BOOLEAN, ok \in BOOLEAN :
         \/ \E v \in Value \cup {None} :
               \/ RenamePort(c, p, v, read, ok) \/ SetTags(c, p, v, read, ok)
               \/ SaveProfile(c, p, v, read, ok)
         \/ DeleteProfile(c, p, read, ok)
         \/ LockPort(c, p, read, ok) \/ UnlockPort(c, p, ok)
  BY DEF PortRequest
<1>2. CASE \E v \in Value \cup {None} :
              \/ RenamePort(c, p, v, read, ok) \/ SetTags(c, p, v, read, ok)
              \/ SaveProfile(c, p, v, read, ok)
  <2>1. PICK v \in Value \cup {None} :
           \/ SetEntry("port_aliases", p, v, read, ok) \/ SetEntry("port_tags", p, v, read, ok)
           \/ SetEntry("port_profiles", p, v, read, ok)
    BY <1>2 DEF RenamePort, SetTags, SaveProfile
  <2>2. PICK f \in Store \ {"port_locks"} : SetEntry(f, p, v, read, ok)
    BY <2>1 DEF Store
  <2> QED BY <2>2
<1>3. CASE DeleteProfile(c, p, read, ok)
  <2>1. /\ "port_profiles" \in Store \ {"port_locks"}
        /\ SetEntry("port_profiles", p, None, read, ok)
    BY <1>3 DEF DeleteProfile, Store
  <2> QED BY <2>1
<1>4. CASE LockPort(c, p, read, ok)
  <2>1. /\ "port_locks" \in Store /\ SetEntry("port_locks", p, c.name, read, ok)
        /\ c.name \in User \cup {None}
    BY <1>4 DEF LockPort, Store
  <2> QED BY <2>1
<1>5. CASE UnlockPort(c, p, ok)
  <2>1. "port_locks" \in Store /\ SetEntry("port_locks", p, None, TRUE, ok)
    BY <1>5 DEF UnlockPort, Store
  <2> QED BY <2>1
<1> QED BY <1>1, <1>2, <1>3, <1>4, <1>5

\* What LockChangesHands says of one step.
HandsOver ==
    \A p \in Port :
       LET before == disk["port_locks"][p]
           after  == disk'["port_locks"][p] IN
       before # None /\ after \notin {before, None} =>
          \A q \in Port \ {p} : disk'["port_locks"][q] = None

\* A request about a port gives a held lock to another user only when it has found
\* the file of locks empty.
LEMMA PortRequestHandsOver ==
    ASSUME StoreTypeOK, NEW c, PortRequest(c)
    PROVE  HandsOver
<1>1. PICK p \in Port, read \in BOOLEAN, ok \in BOOLEAN :
         \/ \E v \in Value \cup {None} :
               \/ RenamePort(c, p, v, read, ok) \/ SetTags(c, p, v, read, ok)
               \/ SaveProfile(c, p, v, read, ok)
         \/ DeleteProfile(c, p, read, ok)
         \/ LockPort(c, p, read, ok) \/ UnlockPort(c, p, ok)
  BY DEF PortRequest
<1>2. disk \in [Store -> [Port -> Value \cup User \cup {None}]] /\ "port_locks" \in Store
  BY DEF StoreTypeOK, Store
<1>3. ASSUME NEW f \in Store \ {"port_locks"}, NEW v, SetEntry(f, p, v, read, ok)
      PROVE  HandsOver
  <2>1. disk'["port_locks"] = disk["port_locks"]
    BY <1>2, <1>3 DEF SetEntry, Save
  <2> QED BY <2>1 DEF HandsOver
<1>4. CASE LockPort(c, p, read, ok)
  <2>1. disk'["port_locks"] =
           IF ok THEN [Load("port_locks", read) EXCEPT ![p] = c.name] ELSE Empty
    BY <1>2, <1>4 DEF LockPort, SetEntry, Save
  <2>2. CASE ~ok
    BY <2>1, <2>2 DEF HandsOver, Empty
  <2>3. CASE ok /\ read
    <3>1. disk["port_locks"][p] = None /\ disk["port_locks"] \in [Port -> User \cup {None}]
      BY <1>4, <2>3 DEF LockPort, Load, StoreTypeOK
    <3>2. \A q \in Port \ {p} : disk'["port_locks"][q] = disk["port_locks"][q]
      BY <2>1, <2>3, <3>1 DEF Load
    <3> QED BY <3>1, <3>2 DEF HandsOver
  <2>4. CASE ok /\ ~read
    <3>1. \A q \in Port \ {p} : disk'["port_locks"][q] = None
      BY <2>1, <2>4, EmptyFile DEF Load, Empty
    <3> QED BY <3>1 DEF HandsOver
  <2> QED BY <2>2, <2>3, <2>4
<1>5. CASE UnlockPort(c, p, ok)
  <2>1. disk'["port_locks"] = IF ok THEN [disk["port_locks"] EXCEPT ![p] = None] ELSE Empty
    BY <1>2, <1>5 DEF UnlockPort, SetEntry, Save, Load
  <2>2. \A q \in Port : disk'["port_locks"][q] \in {disk["port_locks"][q], None}
    BY <1>2, <2>1 DEF Empty
  <2> QED BY <2>2 DEF HandsOver
<1>6. CASE \E v \in Value \cup {None} :
              \/ RenamePort(c, p, v, read, ok) \/ SetTags(c, p, v, read, ok)
              \/ SaveProfile(c, p, v, read, ok)
  <2>1. PICK v \in Value \cup {None} :
           \/ SetEntry("port_aliases", p, v, read, ok) \/ SetEntry("port_tags", p, v, read, ok)
           \/ SetEntry("port_profiles", p, v, read, ok)
    BY <1>6 DEF RenamePort, SetTags, SaveProfile
  <2> QED BY <2>1, <1>3 DEF Store
<1>7. CASE DeleteProfile(c, p, read, ok)
  BY <1>7, <1>3 DEF DeleteProfile, Store
<1> QED BY <1>1, <1>4, <1>5, <1>6, <1>7

LEMMA CallersAreUsers == ASSUME IInv, NEW c \in Caller PROVE c.name \in User
BY AccountsAssumption DEF IInv, TypeOK, Caller, Bearer, Basic, Account

-----------------------------------------------------------------------------
(* The accounts                                                            *)

LEMMA Initial == Init => IInv
<1> SUFFICES ASSUME Init PROVE IInv
  OBVIOUS
<1>1. StoreTypeOK
  BY EmptyFile DEF Init, StoreInit, StoreTypeOK, Store
<1>2. /\ users = {} /\ tokens = {} /\ now = 0
      /\ upd = [k \in Call |-> Waits] /\ held = [x \in User \X Role |-> -1]
  BY DEF Init
<1>3. TypeOK
  BY <1>1, <1>2 DEF TypeOK, Waits
<1>4. Unique({})
  BY DEF Unique, Names
<1>5. CopiesOK
  BY <1>2, <1>4 DEF CopiesOK, Waits
<1>6. HeldOK /\ TokensOK
  BY <1>2 DEF HeldOK, TokensOK, Listed
<1> QED BY <1>2, <1>3, <1>4, <1>5, <1>6 DEF IInv

\* users.json is saved: the waiting updates are told whose accounts changed, and
\* what it lists is stamped.
LEMMA SaveKeeps ==
    ASSUME IInv, NEW accounts \in SUBSET Account, NEW ok \in BOOLEAN,
           NEW calls \in [Call -> [busy : BOOLEAN, copy : SUBSET Account,
                                   target : User \cup {None}, changed : SUBSET User]],
           \A k \in Call : calls[k] = upd[k] \/ calls[k] = Waits,
           Unique(accounts), SaveUsers(accounts, ok, calls)
    PROVE  IInv'
<1> DEFINE after == IF ok THEN accounts ELSE {}
           touched == {n \in User : {u \in users : u.name = n} # {u \in after : u.name = n}}
<1>1. /\ users' = after /\ after \subseteq Account
      /\ held' = [x \in DOMAIN held |-> IF Listed(after, x) THEN now ELSE held[x]]
      /\ upd' = [k \in Call |-> IF calls[k].busy THEN [calls[k] EXCEPT !.changed = @ \cup touched]
                                                 ELSE calls[k]]
      /\ UNCHANGED <<disk, tokens, now>> /\ saves' = saves + 1
  BY DEF SaveUsers
<1>2. touched \in SUBSET User
  OBVIOUS
<1> HIDE DEF touched, after
<1>3. TypeOK
  BY DEF IInv
<1>4. upd' \in [Call -> [busy : BOOLEAN, copy : SUBSET Account,
                         target : User \cup {None}, changed : SUBSET User]]
  BY <1>1, <1>2
<1>5. held' \in [User \X Role -> Int]
  BY <1>1, <1>3 DEF TypeOK
<1>6. TypeOK'
  <2>1. StoreTypeOK'
    BY <1>1, <1>3 DEF TypeOK, StoreTypeOK
  <2> QED BY <2>1, <1>1, <1>3, <1>4, <1>5 DEF TypeOK
<1>7. Unique({}) /\ Unique(users')
  <2>1. Unique({})
    BY DEF Unique, Names
  <2> QED BY <2>1, <1>1 DEF after
<1>8. CopiesOK'
  <2> SUFFICES ASSUME NEW k \in Call
               PROVE  /\ Unique(upd'[k].copy)
                      /\ upd'[k].busy =>
                            /\ upd'[k].target \in Names(upd'[k].copy)
                            /\ \A m \in User \ upd'[k].changed : Of(users', m) = Of(upd'[k].copy, m)
    BY DEF CopiesOK, Unique
  <2>1. CASE calls[k].busy
    <3>1. calls[k] = upd[k]
      BY <2>1 DEF Waits
    <3>2. /\ upd'[k].copy = upd[k].copy /\ upd'[k].target = upd[k].target
          /\ upd'[k].changed = upd[k].changed \cup touched /\ upd[k].busy
      BY <1>1, <2>1, <3>1
    <3>3. \A m \in User \ touched : Of(users, m) = Of(users', m)
      BY <1>1 DEF touched, Of
    <3> QED BY <3>2, <3>3 DEF IInv, CopiesOK
  <2>2. CASE ~calls[k].busy
    <3>1. upd'[k] = calls[k]
      BY <1>1, <2>2
    <3>2. Unique(calls[k].copy)
      <4>1. Waits.copy = {}
        BY DEF Waits
      <4>2. Unique(upd[k].copy)
        BY DEF IInv, CopiesOK
      <4> QED BY <4>1, <4>2, <1>7
    <3> QED BY <3>1, <3>2, <2>2
  <2> QED BY <2>1, <2>2
<1>9. now \in Int /\ \A x \in User \X Role : held[x] \in Int /\ held[x] <= now
  BY <1>3 DEF TypeOK, IInv, HeldOK
<1>10. \A x \in User \X Role :
          /\ held'[x] = IF Listed(users', x) THEN now ELSE held[x]
          /\ held'[x] \in Int /\ held[x] <= held'[x] /\ held'[x] <= now
  BY <1>1, <1>3, <1>9 DEF TypeOK
<1>11. HeldOK'
  BY <1>1, <1>10 DEF HeldOK, Listed
<1>12. TokensOK'
  <2> SUFFICES ASSUME NEW t \in tokens, t.by = "runtime"
               PROVE  held'[<<t.name, t.role>>] >= 0 /\ t.exp <= held'[<<t.name, t.role>>] + Life
    BY <1>1 DEF TokensOK
  <2>1. <<t.name, t.role>> \in User \X Role /\ t.exp \in Int /\ Life \in Int
    BY <1>3, AccountsAssumption DEF TypeOK
  <2>2. held[<<t.name, t.role>>] >= 0 /\ t.exp <= held[<<t.name, t.role>>] + Life
    BY DEF IInv, TokensOK
  <2> QED BY <2>1, <2>2, <1>9, <1>10
<1> QED BY <1>6, <1>7, <1>8, <1>11, <1>12 DEF IInv

CallRec == [busy : BOOLEAN, copy : SUBSET Account, target : User \cup {None},
            changed : SUBSET User]

\* The accounts that the three requests save; without the list that could not be
\* read, a new account is saved alone.
LEMMA CreateSaves ==
    ASSUME IInv, NEW c, NEW n \in User, NEW pw \in Password, NEW r \in Role,
           NEW read \in BOOLEAN, NEW ok \in BOOLEAN, CreateUser(c, n, pw, r, read, ok)
    PROVE  /\ IInv'
           /\ ok => \/ \A m \in User \ {n} : Of(users', m) = Of(users, m)
                    \/ Cardinality(users') = 1
           /\ \A k \in Call : upd'[k].busy = upd[k].busy
<1> DEFINE u == [name |-> n, pw |-> pw, role |-> r]
           listed == LoadUsers(read)
           accounts == listed \cup {u}
<1>1. /\ n \notin Names(ConfigUsers \cup listed)
      /\ SaveUsers(accounts, ok, upd)
  BY DEF CreateUser
<1>2. u \in Account /\ u.name = n
  BY DEF Account
<1>3. listed = users \/ listed = {}
  BY DEF LoadUsers
<1> HIDE DEF u, listed
<1>4. accounts \in SUBSET Account /\ upd \in [Call -> CallRec]
  BY <1>2, <1>3 DEF IInv, TypeOK, CallRec
<1>5. Unique(accounts)
  BY <1>1, <1>2, <1>3 DEF IInv, Unique, Names
<1>6. IInv'
  BY <1>1, <1>4, <1>5, SaveKeeps DEF CallRec
<1>7. ASSUME ok
      PROVE  \/ \A m \in User \ {n} : Of(users', m) = Of(users, m)
             \/ Cardinality(users') = 1
  <2>1. users' = accounts
    BY <1>1, <1>7 DEF SaveUsers
  <2>2. CASE listed = users
    BY <1>2, <2>1, <2>2 DEF Of
  <2>3. CASE listed = {}
    <3>1. users' = {u}
      BY <2>1, <2>3
    <3> QED BY <3>1, FS_Singleton, Zenon
  <2> QED BY <1>3, <2>2, <2>3
<1>8. \A k \in Call : upd'[k].busy = upd[k].busy
  BY <1>1, <1>4 DEF SaveUsers, CallRec
<1> QED BY <1>6, <1>7, <1>8

LEMMA DeleteSaves ==
    ASSUME IInv, NEW c, NEW n \in User, NEW ok \in BOOLEAN, DeleteUser(c, n, ok)
    PROVE  /\ IInv'
           /\ ok => \A m \in User \ {n} : Of(users', m) = Of(users, m)
           /\ \A k \in Call : upd'[k].busy = upd[k].busy
<1> DEFINE accounts == {u \in users : u.name # n}
<1>1. SaveUsers(accounts, ok, upd)
  BY DEF DeleteUser
<1>2. accounts \in SUBSET Account /\ upd \in [Call -> CallRec]
  BY DEF IInv, TypeOK, CallRec
<1>3. Unique(accounts)
  BY DEF IInv, Unique, Names
<1>4. IInv'
  BY <1>1, <1>2, <1>3, SaveKeeps DEF CallRec
<1>5. ok => \A m \in User \ {n} : Of(users', m) = Of(users, m)
  BY <1>1 DEF SaveUsers, Of
<1>6. \A k \in Call : upd'[k].busy = upd[k].busy
  BY <1>1, <1>2 DEF SaveUsers, CallRec
<1> QED BY <1>4, <1>5, <1>6

\* A changed account keeps its name.
LEMMA UpdatedAccount ==
    ASSUME IInv, NEW k \in Call, NEW u \in Account,
           NEW pw \in Password \cup {None}, NEW r \in Role \cup {None}
    PROVE  /\ Updated(u, k, pw, r) \in Account /\ Updated(u, k, pw, r).name = u.name
           /\ u.name # upd[k].target => Updated(u, k, pw, r) = u
<1>1. u.name \in User /\ u.pw \in Password /\ u.role \in Role
  BY DEF Account
<1> DEFINE newPw == IF pw = None THEN u.pw ELSE pw
           newRole == IF r = None THEN u.role ELSE r
<1>2. newPw \in Password /\ newRole \in Role
  BY <1>1
<1>3. Updated(u, k, pw, r) =
         IF u.name # upd[k].target THEN u ELSE [u EXCEPT !.pw = newPw, !.role = newRole]
  BY DEF Updated
<1> HIDE DEF newPw, newRole
<1>4. /\ [u EXCEPT !.pw = newPw, !.role = newRole] \in Account
      /\ [u EXCEPT !.pw = newPw, !.role = newRole].name = u.name
  BY <1>2 DEF Account
<1> QED BY <1>3, <1>4

\* What an update saves differs from users.json only where it missed a change, and
\* in its target.
LEMMA UpdateSavesKeeps ==
    ASSUME IInv, NEW k \in Call, NEW pw \in Password \cup {None}, NEW r \in Role \cup {None},
           NEW ok \in BOOLEAN, UpdateSaves(k, pw, r, ok)
    PROVE  /\ IInv'
           /\ upd[k].busy /\ ~upd'[k].busy
           /\ ok => \A n \in User : Of(users', n) # Of(users, n) =>
                       n \in upd[k].changed \/ (n = upd[k].target /\ Of(users, n) # {})
<1> DEFINE accounts == {Updated(u, k, pw, r) : u \in upd[k].copy}
           calls == [upd EXCEPT ![k] = Waits]
<1>1. upd[k].busy /\ SaveUsers(accounts, ok, calls)
  BY DEF UpdateSaves
<1>2. upd \in [Call -> CallRec] /\ upd[k].copy \in SUBSET Account /\ Waits \in CallRec
  BY DEF IInv, TypeOK, CallRec, Waits
<1>3. \A u \in upd[k].copy :
         /\ Updated(u, k, pw, r) \in Account /\ Updated(u, k, pw, r).name = u.name
         /\ u.name # upd[k].target => Updated(u, k, pw, r) = u
  BY <1>2, UpdatedAccount
<1>4. accounts \in SUBSET Account /\ calls \in [Call -> CallRec]
      /\ calls[k] = Waits /\ \A j \in Call : calls[j] = upd[j] \/ calls[j] = Waits
  BY <1>2, <1>3
<1>5. Unique(accounts)
  <2>1. Unique(upd[k].copy)
    BY DEF IInv, CopiesOK
  <2>2. Names(accounts) = Names(upd[k].copy)
    BY <1>3 DEF Names
  <2>3. \A x, y \in accounts : x.name = y.name => x = y
    <3> SUFFICES ASSUME NEW u \in upd[k].copy, NEW v \in upd[k].copy,
                        Updated(u, k, pw, r).name = Updated(v, k, pw, r).name
                 PROVE  Updated(u, k, pw, r) = Updated(v, k, pw, r)
      OBVIOUS
    <3>1. u.name = v.name
      BY <1>3
    <3> QED BY <3>1, <2>1 DEF Unique
  <2> QED BY <2>1, <2>2, <2>3 DEF Unique
<1> HIDE DEF calls
<1>6. IInv'
  <2> HIDE DEF accounts
  <2> QED BY <1>1, <1>4, <1>5, SaveKeeps DEF CallRec
<1>7. ~upd'[k].busy
  BY <1>1, <1>4 DEF SaveUsers, Waits
<1>8. ASSUME ok, NEW n \in User, Of(users', n) # Of(users, n)
      PROVE  n \in upd[k].changed \/ (n = upd[k].target /\ Of(users, n) # {})
  <2>1. users' = accounts
    BY <1>1, <1>8 DEF SaveUsers
  <2>2. SUFFICES ASSUME n \notin upd[k].changed
                 PROVE  n = upd[k].target /\ Of(users, n) # {}
    OBVIOUS
  <2>3. Of(users, n) = Of(upd[k].copy, n) /\ upd[k].target \in Names(upd[k].copy)
    BY <2>2, <1>1 DEF IInv, CopiesOK
  <2>4. n # upd[k].target => Of(accounts, n) = Of(upd[k].copy, n)
    BY <1>3 DEF Of
  <2>5. n = upd[k].target
    BY <2>1, <2>3, <2>4, <1>8
  <2>6. Of(upd[k].copy, n) # {}
    BY <2>3, <2>5 DEF Of, Names
  <2> QED BY <2>3, <2>5, <2>6
<1> QED BY <1>1, <1>6, <1>7, <1>8

\* A login gives out a token for an account that is listed now.
LEMMA LoginKeeps ==
    ASSUME IInv, NEW n \in User, NEW pw, NEW read \in BOOLEAN, Login(n, pw, read)
    PROVE  IInv'
<1>1. UNCHANGED <<disk, saves, users, upd, now, held>>
  BY DEF Login, storeVars
<1>2. PICK r \in Role, by \in {"config", "runtime", "directory"} :
         /\ tokens' = tokens \cup {Token(n, r, by)}
         /\ by = "runtime" => Listed(users, <<n, r>>)
  <2>1. CASE \E u \in ConfigUsers : tokens' = tokens \cup {Token(n, u.role, "config")}
    BY <2>1, AccountsAssumption DEF Account
  <2>2. CASE \E u \in users : u.name = n /\ tokens' = tokens \cup {Token(n, u.role, "runtime")}
    <3>1. PICK u \in users : u.name = n /\ tokens' = tokens \cup {Token(n, u.role, "runtime")}
      BY <2>2
    <3>2. u.role \in Role /\ Listed(users, <<n, u.role>>)
      BY <3>1 DEF IInv, TypeOK, Account, Listed
    <3> QED BY <3>1, <3>2
  <2>0. LoadUsers(read) \subseteq users
    BY DEF LoadUsers
  <2>3. CASE \E a \in Answers : tokens' = tokens \cup {Token(n, RoleOf(a), "directory")}
    BY <2>3, AccountsAssumption
  <2> QED BY <2>0, <2>1, <2>2, <2>3 DEF Login
<1>3. now \in Nat /\ Life \in Nat /\ now + Life \in Nat
  BY AccountsAssumption DEF IInv, TypeOK
<1>4. Token(n, r, by) \in [name : User, role : Role, by : {"config", "runtime", "directory"},
                           exp : Nat]
  BY <1>3 DEF Token
<1>5. TypeOK'
  BY <1>1, <1>2, <1>4 DEF IInv, TypeOK, StoreTypeOK
<1>6. Unique(users)' /\ CopiesOK' /\ HeldOK'
  BY <1>1 DEF IInv, Unique, CopiesOK, HeldOK, Listed, Of, Names
<1>7. TokensOK'
  <2>1. by = "runtime" => held[<<n, r>>] = now
    BY <1>2 DEF IInv, HeldOK
  <2>2. /\ Token(n, r, by).name = n /\ Token(n, r, by).role = r /\ Token(n, r, by).by = by
        /\ Token(n, r, by).exp = now + Life
    BY DEF Token
  <2> QED BY <2>1, <2>2, <1>1, <1>2, <1>3 DEF IInv, TokensOK
<1> QED BY <1>5, <1>6, <1>7, <1>1 DEF IInv, Unique, Names

LEMMA TickKeeps ==
    ASSUME IInv, Tick
    PROVE  IInv'
<1>1. /\ now' = now + 1 /\ UNCHANGED <<disk, saves, users, upd, tokens>>
      /\ held' = [x \in DOMAIN held |-> IF Listed(users, x) THEN now + 1 ELSE held[x]]
      /\ now \in Nat /\ held \in [User \X Role -> Int]
  BY DEF Tick, storeVars, IInv, TypeOK
<1>2. \A x \in User \X Role : held[x] \in Int /\ held[x] <= now
  BY <1>1 DEF IInv, HeldOK
<1>3. \A x \in User \X Role : /\ held'[x] = IF Listed(users, x) THEN now + 1 ELSE held[x]
                              /\ held'[x] \in Int /\ held[x] <= held'[x] /\ held'[x] <= now + 1
  BY <1>1, <1>2
<1>4. TypeOK'
  BY <1>1 DEF IInv, TypeOK, StoreTypeOK
<1>5. HeldOK' /\ CopiesOK' /\ Unique(users')
  BY <1>1, <1>3 DEF IInv, HeldOK, CopiesOK, Listed, Unique, Of, Names
<1>6. TokensOK'
  <2> SUFFICES ASSUME NEW t \in tokens, t.by = "runtime"
               PROVE  held'[<<t.name, t.role>>] >= 0 /\ t.exp <= held'[<<t.name, t.role>>] + Life
    BY <1>1 DEF TokensOK
  <2>1. <<t.name, t.role>> \in User \X Role /\ t.exp \in Int /\ Life \in Int
    BY AccountsAssumption DEF IInv, TypeOK
  <2>2. held[<<t.name, t.role>>] >= 0 /\ t.exp <= held[<<t.name, t.role>>] + Life
    BY DEF IInv, TokensOK
  <2> QED BY <2>1, <2>2, <1>2, <1>3
<1> QED BY <1>4, <1>5, <1>6 DEF IInv

\* Everything else leaves the accounts alone, and at most forgets or begins an update.
LEMMA OtherKeeps ==
    ASSUME IInv, StoreTypeOK', UNCHANGED <<users, tokens, now, held>>,
           \/ UNCHANGED upd
           \/ \E k \in Call : UpdateEnds(k)
           \/ Restart
           \/ \E c \in Caller, k \in Call, n \in User : UpdateBegins(c, k, n)
    PROVE  IInv'
<1>1. /\ users \subseteq Account /\ upd \in [Call -> CallRec] /\ Waits \in CallRec
      /\ ~Waits.busy /\ Waits.copy = {} /\ Unique({})
  BY DEF IInv, TypeOK, CallRec, Waits, Unique, Names
<1>2. upd' \in [Call -> CallRec] /\ CopiesOK'
  <2>1. CASE UNCHANGED upd
    BY <2>1, <1>1 DEF IInv, CopiesOK, Unique, Of, Names
  <2>2. CASE Restart \/ \E k \in Call : UpdateEnds(k)
    <3>1. upd' \in [Call -> CallRec] /\ \A k \in Call : upd'[k] = upd[k] \/ upd'[k] = Waits
      BY <2>2, <1>1 DEF Restart, UpdateEnds
    <3>2. ASSUME NEW j \in Call
          PROVE  /\ Unique(upd'[j].copy)
                 /\ upd'[j].busy =>
                       /\ upd'[j].target \in Names(upd'[j].copy)
                       /\ \A m \in User \ upd'[j].changed : Of(users, m) = Of(upd'[j].copy, m)
      <4>1. CASE upd'[j] = upd[j]
        BY <4>1 DEF IInv, CopiesOK
      <4>2. CASE upd'[j] = Waits
        BY <4>2, <1>1
      <4> QED BY <4>1, <4>2, <3>1
    <3> QED BY <3>1, <3>2 DEF CopiesOK, Unique, Of, Names
  <2>3. ASSUME NEW c \in Caller, NEW k \in Call, NEW n \in User, UpdateBegins(c, k, n)
        PROVE  upd' \in [Call -> CallRec] /\ CopiesOK'
    <3> DEFINE x == [busy |-> TRUE, copy |-> users, target |-> n, changed |-> {}]
    <3>1. x \in CallRec /\ x.copy = users /\ x.target = n /\ n \in Names(users)
      BY <2>3, <1>1 DEF CallRec, UpdateBegins
    <3>2. upd' = [upd EXCEPT ![k] = x]
      BY <2>3 DEF UpdateBegins
    <3> HIDE DEF x
    <3>3. upd' \in [Call -> CallRec] /\ upd'[k] = x /\ \A j \in Call : j # k => upd'[j] = upd[j]
      BY <3>1, <3>2, <1>1
    <3>4. ASSUME NEW j \in Call
          PROVE  /\ Unique(upd'[j].copy)
                 /\ upd'[j].busy =>
                       /\ upd'[j].target \in Names(upd'[j].copy)
                       /\ \A m \in User \ upd'[j].changed : Of(users, m) = Of(upd'[j].copy, m)
      <4>1. CASE j = k
        BY <4>1, <3>1, <3>3 DEF IInv
      <4>2. CASE j # k
        BY <4>2, <3>3 DEF IInv, CopiesOK
      <4> QED BY <4>1, <4>2
    <3> QED BY <3>3, <3>4 DEF CopiesOK, Unique, Of, Names
  <2> QED BY <2>1, <2>2, <2>3
<1>3. TypeOK'
  BY <1>2 DEF IInv, TypeOK, CallRec
<1>4. Unique(users') /\ HeldOK' /\ TokensOK'
  BY DEF IInv, Unique, HeldOK, TokensOK, Listed, Names
<1> QED BY <1>2, <1>3, <1>4 DEF IInv

-----------------------------------------------------------------------------
LEMMA StepKeeps == IInv /\ [Next]_vars => IInv'
<1> SUFFICES ASSUME IInv, [Next]_vars PROVE IInv'
  OBVIOUS
<1>1. StoreTypeOK
  BY DEF IInv, TypeOK
<1>2. CASE UNCHANGED vars
  <2>1. StoreTypeOK'
    BY <1>1, <1>2 DEF vars, StoreTypeOK
  <2> QED BY <1>2, <2>1, OtherKeeps DEF vars
<1>3. CASE \E n \in User, pw \in Password \cup {None}, read \in BOOLEAN : Login(n, pw, read)
  BY <1>3, LoginKeeps
<1>4. CASE \E c \in Caller : PortRequest(c) /\ UNCHANGED accountVars
  <2>1. PICK c \in Caller : PortRequest(c) /\ UNCHANGED accountVars
    BY <1>4
  <2>2. PICK f \in Store, p \in Port, read \in BOOLEAN, ok \in BOOLEAN :
           \E v \in IF f = "port_locks" THEN User \cup {None} ELSE Value \cup {None} :
              SetEntry(f, p, v, read, ok)
    BY <2>1, <1>1, PortRequestSets, CallersAreUsers
  <2>3. StoreTypeOK'
    BY <2>2, <1>1, SetEntryKeeps
  <2> QED BY <2>1, <2>3, OtherKeeps DEF accountVars
<1>5. CASE \E c \in Caller, n \in User, ok \in BOOLEAN :
              \E pw \in Password, r \in Role, read \in BOOLEAN : CreateUser(c, n, pw, r, read, ok)
  BY <1>5, CreateSaves
<1>6. CASE \E c \in Caller, n \in User, ok \in BOOLEAN : DeleteUser(c, n, ok)
  BY <1>6, DeleteSaves
<1>7. CASE \E c \in Caller, n \in User, k \in Call : UpdateBegins(c, k, n)
  <2>1. StoreTypeOK' /\ UNCHANGED <<users, tokens, now, held>>
    BY <1>1, <1>7 DEF UpdateBegins, storeVars, StoreTypeOK
  <2> QED BY <1>7, <2>1, OtherKeeps
<1>8. CASE \E k \in Call, pw \in Password \cup {None}, r \in Role \cup {None}, ok \in BOOLEAN :
              UpdateSaves(k, pw, r, ok)
  BY <1>8, UpdateSavesKeeps
<1>9. CASE Restart \/ \E k \in Call : UpdateEnds(k)
  <2>1. StoreTypeOK' /\ UNCHANGED <<users, tokens, now, held>>
    BY <1>1, <1>9 DEF Restart, UpdateEnds, storeVars, StoreTypeOK
  <2> QED BY <1>9, <2>1, OtherKeeps
<1>10. CASE Tick
  BY <1>10, TickKeeps
<1> QED BY <1>2, <1>3, <1>4, <1>5, <1>6, <1>7, <1>8, <1>9, <1>10 DEF Next

\* The inductive invariant holds throughout.
THEOREM Invariant == Spec => []IInv
BY Initial, StepKeeps, PTL DEF Spec

\* Every variable of the accounts and the files keeps its type.
THEOREM TypeCorrect == Spec => []TypeOK
<1>1. IInv => TypeOK
  BY DEF IInv
<1> QED BY <1>1, Invariant, PTL

\* A name has one account at most, also when a stale list is saved
\* (routes_api.py:773-784, 819).
THEOREM NamesAreUniqueHolds == Spec => []NamesAreUnique
<1>1. IInv => NamesAreUnique
  BY DEF IInv, Unique, NamesAreUnique
<1> QED BY <1>1, Invariant, PTL

\* A token of a users.json account gives what the account had within the lifetime
\* of tokens (auth.py:136-145, 390-433).
THEOREM AccessFollowsTheAccountHolds == Spec => []AccessFollowsTheAccount
<1>1. ASSUME IInv PROVE AccessFollowsTheAccount
  <2> SUFFICES ASSUME NEW t \in tokens, Valid(t), t.by = "runtime"
               PROVE  held[<<t.name, t.role>>] >= 0 /\ now - held[<<t.name, t.role>>] <= Life
    BY DEF AccessFollowsTheAccount
  <2>1. /\ held[<<t.name, t.role>>] \in Int /\ t.exp \in Int /\ now \in Int /\ Life \in Int
    BY <1>1, AccountsAssumption DEF IInv, TypeOK
  <2>2. held[<<t.name, t.role>>] >= 0 /\ t.exp <= held[<<t.name, t.role>>] + Life /\ t.exp >= now
    BY <1>1 DEF IInv, TokensOK, Valid
  <2> QED BY <2>1, <2>2
<1> QED BY <1>1, Invariant, PTL

\* An account changes by a request for it, by a save or a read that failed, or by an
\* update that had not seen what others did to it (config.py:253-261,
\* routes_api.py:777-784, 800-841).
THEOREM UndoesOnlyWhatItMissedHolds == Spec => UndoesOnlyWhatItMissed
<1> DEFINE Step == \A n \in User :
                      Of(users', n) # Of(users, n) =>
                         \/ users' = {}
                         \/ /\ \A k \in Call : upd[k].busy => upd'[k].busy
                            /\ \/ \A m \in User \ {n} : Of(users', m) = Of(users, m)
                               \/ Cardinality(users') = 1
                         \/ \E k \in Call :
                               /\ upd[k].busy /\ ~upd'[k].busy
                               /\ n \in upd[k].changed \/ (n = upd[k].target /\ Of(users, n) # {})
<1>1. ASSUME IInv, [Next]_vars PROVE [Step]_users
  <2>1. CASE UNCHANGED users
    BY <2>1
  <2>2. ASSUME NEW n \in User, NEW ok \in BOOLEAN,
               ok => \/ \A m \in User \ {n} : Of(users', m) = Of(users, m)
                     \/ Cardinality(users') = 1,
               \A k \in Call : upd'[k].busy = upd[k].busy, ~ok => users' = {}
        PROVE  Step
    <3>1. ASSUME NEW i \in User, Of(users', i) # Of(users, i), ok
          PROVE  i = n \/ Cardinality(users') = 1
      BY <2>2, <3>1
    <3> QED BY <2>2, <3>1
  <2>3. CASE \E c \in Caller, n \in User, ok \in BOOLEAN :
                \E pw \in Password, r \in Role, read \in BOOLEAN : CreateUser(c, n, pw, r, read, ok)
    <3>1. PICK c \in Caller, n \in User, ok \in BOOLEAN :
             \E pw \in Password, r \in Role, read \in BOOLEAN : CreateUser(c, n, pw, r, read, ok)
      BY <2>3
    <3>2. ~ok => users' = {}
      BY <3>1 DEF CreateUser, SaveUsers
    <3> QED BY <3>1, <3>2, <2>2, <1>1, CreateSaves
  <2>4. CASE \E c \in Caller, n \in User, ok \in BOOLEAN : DeleteUser(c, n, ok)
    <3>1. PICK c \in Caller, n \in User, ok \in BOOLEAN : DeleteUser(c, n, ok)
      BY <2>4
    <3>2. ~ok => users' = {}
      BY <3>1 DEF DeleteUser, SaveUsers
    <3> QED BY <3>1, <3>2, <2>2, <1>1, DeleteSaves
  <2>5. CASE \E k \in Call, pw \in Password \cup {None}, r \in Role \cup {None},
                ok \in BOOLEAN : UpdateSaves(k, pw, r, ok)
    <3>1. PICK k \in Call, pw \in Password \cup {None}, r \in Role \cup {None}, ok \in BOOLEAN :
             UpdateSaves(k, pw, r, ok)
      BY <2>5
    <3>2. ~ok => users' = {}
      BY <3>1 DEF UpdateSaves, SaveUsers
    <3>3. /\ upd[k].busy /\ ~upd'[k].busy
          /\ ok => \A n \in User : Of(users', n) # Of(users, n) =>
                      n \in upd[k].changed \/ (n = upd[k].target /\ Of(users, n) # {})
      BY <3>1, <1>1, UpdateSavesKeeps
    <3> QED BY <3>2, <3>3
  <2>6. \/ UNCHANGED users
        \/ \E c \in Caller, n \in User, ok \in BOOLEAN :
              \/ \E pw \in Password, r \in Role, read \in BOOLEAN : CreateUser(c, n, pw, r, read, ok)
              \/ DeleteUser(c, n, ok)
        \/ \E k \in Call, pw \in Password \cup {None}, r \in Role \cup {None}, ok \in BOOLEAN :
              UpdateSaves(k, pw, r, ok)
    BY <1>1 DEF Next, vars, accountVars, Login, UpdateBegins, UpdateEnds, Restart, Tick
  <2> QED BY <2>1, <2>3, <2>4, <2>5, <2>6
<1>2. Spec => [][Step]_users
  BY <1>1, Invariant, PTL DEF Spec
<1> QED BY <1>2 DEF UndoesOnlyWhatItMissed

\* A lock passes to another user without a release only where the file of locks
\* could not be read, which loses every other lock of it too (config.py:253-254,
\* routes_api.py:691-706).
THEOREM LockChangesHandsHolds == Spec => LockChangesHands
<1>1. ASSUME IInv, [Next]_vars PROVE [HandsOver]_disk
  <2>1. ASSUME NEW accounts, NEW ok, NEW calls, SaveUsers(accounts, ok, calls)
        PROVE  UNCHANGED disk
    BY <2>1 DEF SaveUsers
  <2>2. ASSUME NEW c, NEW n, NEW ok,
               \/ \E pw \in Password, r \in Role, read \in BOOLEAN : CreateUser(c, n, pw, r, read, ok)
               \/ DeleteUser(c, n, ok)
        PROVE  UNCHANGED disk
    BY <2>1, <2>2, Zenon DEF CreateUser, DeleteUser
  <2>3. ASSUME NEW k, NEW pw, NEW r, NEW ok, UpdateSaves(k, pw, r, ok)
        PROVE  UNCHANGED disk
    BY <2>1, <2>3, Zenon DEF UpdateSaves
  <2>4. ASSUME NEW n, NEW pw, NEW read, Login(n, pw, read)
        PROVE  UNCHANGED disk
    BY <2>4 DEF Login, storeVars
  <2>5. ASSUME \/ \E c \in Caller, k \in Call, n \in User : UpdateBegins(c, k, n)
               \/ \E k \in Call : UpdateEnds(k)
               \/ Restart \/ Tick \/ UNCHANGED vars
        PROVE  UNCHANGED disk
    BY <2>5 DEF UpdateBegins, UpdateEnds, Restart, Tick, storeVars, vars
  <2>6. UNCHANGED disk \/ \E c \in Caller : PortRequest(c)
    BY <1>1, <2>2, <2>3, <2>4, <2>5, Zenon DEF Next
  <2> QED BY <1>1, <2>6, PortRequestHandsOver DEF IInv, TypeOK
<1>2. Spec => [][HandsOver]_disk
  BY <1>1, Invariant, PTL DEF Spec
<1> QED BY <1>2 DEF LockChangesHands, HandsOver

-----------------------------------------------------------------------------
(* The roles that the directories give                                     *)

\* A set that has 0 and the successor of each of its members has all numbers.
LEMMA SetInduction ==
    ASSUME NEW T, 0 \in T, \A n \in Nat : n \in T => n + 1 \in T
    PROVE  Nat \subseteq T
<1> SUFFICES ASSUME Nat \ T # {} PROVE FALSE
  OBVIOUS
<1>1. PICK x \in Nat \ T : \A y \in Nat \ T : ~(<<y, x>> \in OpToRel(<, Nat))
  <2>1. Nat \ T \subseteq Nat
    OBVIOUS
  <2> QED BY <2>1, NatLessThanWellFounded, WFMin
<1>2. \A y \in Nat \ T : y < x => <<y, x>> \in OpToRel(<, Nat)
  BY DEF OpToRel
<1>3. \A y \in Nat \ T : ~(y < x)
  BY <1>1, <1>2
<1>4. x # 0 /\ x - 1 \in Nat /\ x - 1 \in T
  BY <1>3
<1> QED BY <1>4

\* A set of places has a largest member, unless it is empty.
LEMMA MaxOfPlaces ==
    ASSUME NEW n \in Nat, NEW t \in SUBSET (1..n), t # {}
    PROVE  Max(t) \in t /\ \A y \in t : Max(t) >= y
<1> DEFINE T == {k \in Nat : \A s \in SUBSET (1..k) : s # {} => \E x \in s : \A y \in s : x >= y}
<1>1. 0 \in T
  <2>1. 1..0 = {}
    OBVIOUS
  <2> QED BY <2>1
<1>2. ASSUME NEW k \in Nat, k \in T PROVE k + 1 \in T
  <2> SUFFICES ASSUME NEW s \in SUBSET (1..k + 1), s # {} PROVE \E x \in s : \A y \in s : x >= y
    OBVIOUS
  <2>1. CASE k + 1 \in s
    BY <2>1
  <2>2. CASE k + 1 \notin s
    <3>1. s \in SUBSET (1..k)
      BY <2>2
    <3> QED BY <1>2, <3>1
  <2> QED BY <2>1, <2>2
<1>3. n \in T
  <2> HIDE DEF T
  <2> QED BY <1>1, <1>2, SetInduction
<1>4. \E x \in t : \A y \in t : x >= y
  BY <1>3
<1> QED BY <1>4 DEF Max

\* What the loop over the attributes knows after those at some places: whether it
\* has met the admin attribute, and otherwise the viewer attribute.
Met(ids, places) ==
    [role |-> IF \E i \in places : ids[i] = "admin" THEN "admin"
              ELSE IF \E i \in places : ids[i] = "viewer" THEN "viewer" ELSE RadiusDefault,
     stop |-> \E i \in places : ids[i] = "admin"]

\* One more attribute.
LEMMA MetNext ==
    ASSUME NEW ids \in Seq(Mark), NEW places \in SUBSET DOMAIN ids, NEW x \in places
    PROVE  RadiusStep(Met(ids, places \ {x}), ids[x]) = Met(ids, places)
<1> DEFINE m == Met(ids, places \ {x})
<1>1. /\ m.role = IF \E i \in places \ {x} : ids[i] = "admin" THEN "admin"
                  ELSE IF \E i \in places \ {x} : ids[i] = "viewer" THEN "viewer" ELSE RadiusDefault
      /\ m.stop = \E i \in places \ {x} : ids[i] = "admin"
  BY DEF Met
<1>2. m = [role |-> m.role, stop |-> m.stop]
  BY DEF Met
<1> HIDE DEF m
<1>3. ids[x] \in Mark
  BY ElementOfSeq, LenProperties
<1>4. CASE \E i \in places \ {x} : ids[i] = "admin"
  <2>1. RadiusStep(m, ids[x]) = m
    BY <1>1, <1>4 DEF RadiusStep
  <2>2. m.role = "admin" /\ m.stop = TRUE
    BY <1>1, <1>4
  <2>3. Met(ids, places) = [role |-> "admin", stop |-> TRUE]
    BY <1>4 DEF Met
  <2> QED BY <1>2, <2>1, <2>2, <2>3 DEF m
<1>5. CASE ~\E i \in places \ {x} : ids[i] = "admin"
  <2>1. m.stop = FALSE
    BY <1>1, <1>5
  <2>2. CASE ids[x] = "other"
    <3>1. RadiusStep(m, ids[x]) = m
      BY <2>2 DEF RadiusStep
    <3>2. /\ (\E i \in places : ids[i] = "admin") = (\E i \in places \ {x} : ids[i] = "admin")
          /\ (\E i \in places : ids[i] = "viewer") = (\E i \in places \ {x} : ids[i] = "viewer")
      BY <2>2
    <3>3. Met(ids, places) = Met(ids, places \ {x})
      BY <3>2 DEF Met
    <3> QED BY <3>1, <3>3 DEF m
  <2>3. CASE ids[x] = "admin"
    <3>1. RadiusStep(m, ids[x]) = [role |-> "admin", stop |-> TRUE]
      BY <2>1, <2>3 DEF RadiusStep
    <3>2. Met(ids, places) = [role |-> "admin", stop |-> TRUE]
      BY <2>3 DEF Met
    <3> QED BY <3>1, <3>2 DEF m
  <2>4. CASE ids[x] = "viewer"
    <3>1. RadiusStep(m, ids[x]) = [role |-> "viewer", stop |-> FALSE]
      BY <2>1, <2>4 DEF RadiusStep
    <3>2. Met(ids, places) = [role |-> "viewer", stop |-> FALSE]
      BY <1>5, <2>4 DEF Met
    <3> QED BY <3>1, <3>2 DEF m
  <2> QED BY <1>3, <2>2, <2>3, <2>4 DEF Mark
<1> QED BY <1>4, <1>5

\* One step of the fold over the attributes, from the last place on.
FoldStep(ids, f, places) ==
    IF places = {} THEN [role |-> RadiusDefault, stop |-> FALSE]
    ELSE RadiusStep(f[places \ {Max(places)}], ids[Max(places)])

\* The fold ends with what the loop has met at all places.
LEMMA RadiusMeets ==
    ASSUME NEW ids \in Seq(Mark)
    PROVE  RadiusRole(ids) = Met(ids, DOMAIN ids).role
<1> DEFINE P == SUBSET DOMAIN ids
           Folds(f) == f = [s \in P |-> FoldStep(ids, f, s)]
           g == [s \in P |-> Met(ids, s)]
<1>1. DOMAIN ids = 1..Len(ids) /\ Len(ids) \in Nat
  BY LenProperties
<1>2. Met(ids, {}) = [role |-> RadiusDefault, stop |-> FALSE]
  BY DEF Met
<1>3. Folds(g)
  <2>1. ASSUME NEW s \in P PROVE Met(ids, s) = FoldStep(ids, g, s)
    <3>1. CASE s = {}
      BY <1>2, <3>1 DEF FoldStep
    <3>2. CASE s # {}
      <4>1. Max(s) \in s
        BY <1>1, <3>2, MaxOfPlaces
      <4>2. g[s \ {Max(s)}] = Met(ids, s \ {Max(s)})
        OBVIOUS
      <4>3. FoldStep(ids, g, s) = RadiusStep(Met(ids, s \ {Max(s)}), ids[Max(s)])
        BY <3>2, <4>2 DEF FoldStep
      <4> QED BY <4>1, <4>3, MetNext
    <3> QED BY <3>1, <3>2
  <2> QED BY <2>1
<1>4. PICK f : Folds(f) /\ RadiusRole(ids) = f[DOMAIN ids].role
  <2> DEFINE h == CHOOSE f : Folds(f)
  <2>1. Folds(h)
    BY <1>3
  <2>2. RadiusRole(ids) = h[DOMAIN ids].role
    BY DEF RadiusRole, FoldLeft, MapThenFoldSet, FoldStep
  <2> QED BY <2>1, <2>2
<1> DEFINE T == {n \in Nat : \A s \in P : s \subseteq 1..n => f[s] = Met(ids, s)}
<1>5. \A s \in P : f[s] = FoldStep(ids, f, s)
  BY <1>4
<1> HIDE DEF P, g
<1>6. 0 \in T
  <2>1. 1..0 = {} /\ f[{}] = Met(ids, {})
    <3>1. {} \in P
      BY DEF P
    <3>2. f[{}] = FoldStep(ids, f, {})
      BY ONLY <1>5, <3>1
    <3>3. FoldStep(ids, f, {}) = Met(ids, {})
      BY <1>2 DEF FoldStep
    <3> QED BY <3>2, <3>3
  <2>2. \A s : s \subseteq 1..0 => s = {}
    BY <2>1
  <2> QED BY <2>1, <2>2
<1>7. ASSUME NEW n \in Nat, n \in T PROVE n + 1 \in T
  <2> SUFFICES ASSUME NEW s \in P, s \subseteq 1..n + 1 PROVE f[s] = Met(ids, s)
    OBVIOUS
  <2>1. CASE s = {}
    BY <1>2, <1>5, <2>1 DEF FoldStep
  <2>2. CASE s # {}
    <3>1. Max(s) \in s /\ \A y \in s : Max(s) >= y
      <4>1. n + 1 \in Nat /\ s \in SUBSET (1..n + 1)
        OBVIOUS
      <4> QED BY <2>2, <4>1, MaxOfPlaces
    <3>2. s \ {Max(s)} \in P /\ s \ {Max(s)} \subseteq 1..n
      <4>1. \A y \in s \ {Max(s)} : y \in 1..n
        <5>1. s \subseteq 1..n + 1 /\ Max(s) \in 1..n + 1
          BY <3>1
        <5> SUFFICES ASSUME NEW y \in s, y # Max(s) PROVE y \in 1..n
          OBVIOUS
        <5>2. y \in 1..n + 1 /\ Max(s) >= y
          BY <3>1, <5>1
        <5> QED BY <5>1, <5>2
      <4> QED BY <4>1 DEF P
    <3>3. f[s \ {Max(s)}] = Met(ids, s \ {Max(s)})
      BY <1>7, <3>2
    <3>4. f[s] = RadiusStep(Met(ids, s \ {Max(s)}), ids[Max(s)])
      BY <1>5, <2>2, <3>3 DEF FoldStep
    <3> QED BY <3>1, <3>4, MetNext DEF P
  <2> QED BY <2>1, <2>2
<1>8. Len(ids) \in T
  <2> HIDE DEF T
  <2> QED BY <1>1, <1>6, <1>7, SetInduction
<1> QED BY <1>1, <1>4, <1>8 DEF P

\* However many attributes a user has: a server that sends them in another order, or
\* some of them twice, gives the same role (auth.py:264-272).
THEOREM RadiusIgnoresOrder ==
    \A ids, jds \in Seq(Mark) :
       {ids[i] : i \in DOMAIN ids} = {jds[i] : i \in DOMAIN jds} =>
          RadiusRole(ids) = RadiusRole(jds)
<1> SUFFICES ASSUME NEW ids \in Seq(Mark), NEW jds \in Seq(Mark),
                    {ids[i] : i \in DOMAIN ids} = {jds[i] : i \in DOMAIN jds}
             PROVE  RadiusRole(ids) = RadiusRole(jds)
  OBVIOUS
<1>1. ASSUME NEW m
      PROVE  (\E i \in DOMAIN ids : ids[i] = m) <=> (\E i \in DOMAIN jds : jds[i] = m)
  <2>1. (\E i \in DOMAIN ids : ids[i] = m) <=> m \in {ids[i] : i \in DOMAIN ids}
    OBVIOUS
  <2>2. (\E i \in DOMAIN jds : jds[i] = m) <=> m \in {jds[i] : i \in DOMAIN jds}
    OBVIOUS
  <2> QED BY <2>1, <2>2
<1>2. Met(ids, DOMAIN ids).role = Met(jds, DOMAIN jds).role
  BY <1>1 DEF Met
<1> QED BY <1>2, RadiusMeets
=============================================================================
