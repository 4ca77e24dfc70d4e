------------------------------ MODULE Accounts ------------------------------
(***************************************************************************)
(* The users of the server and what their requests change: the accounts of *)
(* config.toml and of users.json, the user management requests, logins and *)
(* tokens, and under them the requests that change the files of JsonStore. *)
(*                                                                         *)
(* Every request is one step except update_user, which loads the accounts, *)
(* waits for its body and then saves what it loaded.  As in JsonStore, a   *)
(* file that cannot be read loads as an empty one.                         *)
(***************************************************************************)
EXTENDS JsonStore, Directories

CONSTANTS ConfigUsers,   \* the accounts of config.toml
          Password,
          Answers,       \* what the directories may say
          Call,          \* calls of update_user
          Life,          \* token_expire_minutes, in ticks
          MaxTime,       \* bound: ticks of the clock
          MaxTokens      \* bound: tokens at a time

Account == [name : User, pw : Password, role : Role]
Names(accounts) == {u.name : u \in accounts}

ASSUME AccountsAssumption ==
    /\ ConfigUsers \subseteq Account
    /\ \A a \in Answers : RoleOf(a) \in Role
    /\ {Life, MaxTime, MaxTokens} \subseteq Nat

VARIABLES
  users,    \* users.json as it loads
  upd,      \* calls of update_user that wait for their body
  tokens,   \* the tokens that were given out
  now,      \* the time of day
  held      \* history: when users.json last listed a name with a role

accountVars == <<users, upd, tokens, now, held>>
storeVars == <<disk, saves>>
vars == <<disk, saves, users, upd, tokens, now, held>>

\* A call of update_user: the accounts it loaded and whom it changes; history:
\* whose accounts changed since then.
Waits == [busy |-> FALSE, copy |-> {}, target |-> None, changed |-> {}]

Listed(accounts, x) == \E u \in accounts : u.name = x[1] /\ u.role = x[2]

Init ==
    /\ StoreInit
    /\ users = {} /\ tokens = {} /\ now = 0
    /\ upd = [k \in Call |-> Waits]
    /\ held = [x \in User \X Role |-> -1]

-----------------------------------------------------------------------------
(* Who may do what                                                         *)

\* (A slip: tokens do not expire.)
MutValid(t) == t \in tokens

Valid(t) == t.exp >= now

\* The callers that a request can come from: a valid token speaks for the name and
\* the role it was given for, Basic authentication for the account as it is now or
\* for what a directory says of the user.
Bearer == {[name |-> t.name, role |-> t.role] : t \in {s \in tokens : Valid(s)}}
Basic == {[name |-> u.name, role |-> u.role] : u \in ConfigUsers \cup users}
            \cup {[name |-> n, role |-> RoleOf(a)] : n \in User, a \in Answers}
Caller == Bearer \cup Basic

Token(n, r, by) == [name |-> n, role |-> r, by |-> by, exp |-> now + Life]

\* The accounts of users.json that a handler goes by.
LoadUsers(read) == IF read THEN users ELSE {}

\* authenticate_user: config.toml, then users.json, then the directories; a password
\* of None is one that no account has.
Login(n, pw, read) ==
    LET In(accounts) == {u \in accounts : u.name = n /\ u.pw = pw} IN
    /\ Cardinality(tokens) < MaxTokens
    /\ \/ \E u \in In(ConfigUsers) : tokens' = tokens \cup {Token(n, u.role, "config")}
       \/ /\ In(ConfigUsers) = {}
          /\ \E u \in In(LoadUsers(read)) : tokens' = tokens \cup {Token(n, u.role, "runtime")}
       \/ /\ In(ConfigUsers \cup LoadUsers(read)) = {}
          /\ \E a \in Answers : tokens' = tokens \cup {Token(n, RoleOf(a), "directory")}
    /\ UNCHANGED <<storeVars, users, upd, now, held>>

-----------------------------------------------------------------------------
(* User management                                                         *)

\* Saves users.json; for the calls that wait, notes whose accounts changed.
SaveUsers(accounts, ok, calls) ==
    LET after == IF ok THEN accounts ELSE {}
        touched == {n \in User : {u \in users : u.name = n} # {u \in after : u.name = n}}
    IN /\ saves < MaxSaves /\ saves' = saves + 1
       /\ users' = after
       /\ held' = [x \in DOMAIN held |-> IF Listed(after, x) THEN now ELSE held[x]]
       /\ upd' = [k \in Call |-> IF calls[k].busy THEN [calls[k] EXCEPT !.changed = @ \cup touched]
                                                  ELSE calls[k]]
       /\ UNCHANGED <<disk, tokens, now>>

\* (A slip: only users.json is searched for the name.)
MutCreateUser(c, n, pw, r, read, ok) ==
    /\ Requires(c, "admin")
    /\ n \notin Names(LoadUsers(read))
    /\ SaveUsers(LoadUsers(read) \cup {[name |-> n, pw |-> pw, role |-> r]}, ok, upd)

CreateUser(c, n, pw, r, read, ok) ==
    /\ Requires(c, "admin")
    /\ n \notin Names(ConfigUsers \cup LoadUsers(read))
    /\ SaveUsers(LoadUsers(read) \cup {[name |-> n, pw |-> pw, role |-> r]}, ok, upd)

\* Here and in update_user a list that cannot be read does not have the name: the
\* request is refused.
DeleteUser(c, n, ok) ==
    /\ Requires(c, "admin")
    /\ n \in Names(users) \ Names(ConfigUsers)
    /\ SaveUsers({u \in users : u.name # n}, ok, upd)

\* update_user finds its target and waits for its body.
UpdateBegins(c, k, n) ==
    /\ Requires(c, "admin")
    /\ ~upd[k].busy
    /\ n \in Names(users) \ Names(ConfigUsers)
    /\ upd' = [upd EXCEPT ![k] = [busy |-> TRUE, copy |-> users, target |-> n, changed |-> {}]]
    /\ UNCHANGED <<storeVars, users, tokens, now, held>>

\* (A slip: the change is made to every account of the list.)
MutUpdated(u, k, pw, r) ==
    [u EXCEPT !.pw = IF pw = None THEN @ ELSE pw, !.role = IF r = None THEN @ ELSE r]

\* An account with the new password and the new role, where the body has them.
Updated(u, k, pw, r) ==
    IF u.name # upd[k].target THEN u
    ELSE [u EXCEPT !.pw = IF pw = None THEN @ ELSE pw, !.role = IF r = None THEN @ ELSE r]

UpdateSaves(k, pw, r, ok) ==
    /\ upd[k].busy
    /\ SaveUsers({Updated(u, k, pw, r) : u \in upd[k].copy}, ok, [upd EXCEPT ![k] = Waits])

\* The body is bad or never comes.
UpdateEnds(k) ==
    /\ upd[k].busy
    /\ upd' = [upd EXCEPT ![k] = Waits]
    /\ UNCHANGED <<storeVars, users, tokens, now, held>>

\* The server stops, or dies, and starts again: the files and the tokens stay.
Restart ==
    /\ upd # [k \in Call |-> Waits]
    /\ upd' = [k \in Call |-> Waits]
    /\ UNCHANGED <<storeVars, users, tokens, now, held>>

Tick ==
    /\ now < MaxTime /\ now' = now + 1
    /\ held' = [x \in DOMAIN held |-> IF Listed(users, x) THEN now + 1 ELSE held[x]]
    /\ UNCHANGED <<storeVars, users, upd, tokens>>

Next ==
    \/ \E n \in User, pw \in Password \cup {None}, read \in BOOLEAN : Login(n, pw, read)
    \/ \E c \in Caller :
          \/ PortRequest(c) /\ UNCHANGED accountVars
          \/ \E n \in User, ok \in BOOLEAN :
                \/ \E pw \in Password, r \in Role, read \in BOOLEAN :
                      CreateUser(c, n, pw, r, read, ok)
                \/ DeleteUser(c, n, ok)
                \/ \E k \in Call : UpdateBegins(c, k, n)
    \/ \E k \in Call :
          \/ \E pw \in Password \cup {None}, r \in Role \cup {None}, ok \in BOOLEAN :
                UpdateSaves(k, pw, r, ok)
          \/ UpdateEnds(k)
    \/ Restart \/ Tick

Spec == Init /\ [][Next]_vars

-----------------------------------------------------------------------------
(* Properties                                                              *)

TypeOK ==
    /\ StoreTypeOK
    /\ users \subseteq Account
    /\ upd \in [Call -> [busy : BOOLEAN, copy : SUBSET Account,
                         target : User \cup {None}, changed : SUBSET User]]
    /\ tokens \subseteq [name : User, role : Role, by : {"config", "runtime", "directory"},
                         exp : Nat]
    /\ now \in Nat
    /\ held \in [User \X Role -> Int]

\* A name has one account at most in users.json, and none when config.toml has one,
\* also when a stale list is saved (routes_api.py:773-784, 819).
NamesAreUnique ==
    /\ Names(users) \cap Names(ConfigUsers) = {}
    /\ \A u, v \in users : u.name = v.name => u = v

Of(accounts, n) == {u \in accounts : u.name = n}

\* A request changes one account.  More change only when a save fails, when a new
\* account is saved alone because the list could not be read, or when an update
\* undoes what others did to them while it waited for its body; an account that was
\* deleted meanwhile comes back in no other way (config.py:253-261,
\* routes_api.py:777-784, 800-841).
UndoesOnlyWhatItMissed ==
    [][\A n \in User :
          Of(users', n) # Of(users, n) =>
             \/ users' = {}
             \/ /\ \A k \in Call : upd[k].busy => upd'[k].busy
                /\ \/ \A m \in User \ {n} : Of(users', m) = Of(users, m)
                   \/ Cardinality(users') = 1
             \/ \E k \in Call :
                   /\ upd[k].busy /\ ~upd'[k].busy
                   /\ n \in upd[k].changed \/ (n = upd[k].target /\ Of(users, n) # {})]_users

\* What a token of a users.json account still gives, that account had within the
\* lifetime of tokens: a deletion or a lower role takes hold then at the latest
\* (auth.py:136-145, 390-433).
AccessFollowsTheAccount ==
    \A t \in tokens :
       Valid(t) /\ t.by = "runtime" =>
          held[<<t.name, t.role>>] >= 0 /\ now - held[<<t.name, t.role>>] <= Life
=============================================================================
