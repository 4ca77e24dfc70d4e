----------------------------- MODULE MCAccounts -----------------------------
(* A small instance of Accounts: root is an admin of config.toml.           *)
EXTENDS Accounts, TLC

CONSTANTS root, bob, eve, pw1, p1, p2

MCConfigUsers == {[name |-> root, pw |-> pw1, role |-> "admin"]}
MCAnswers == {[by |-> "ldap", says |-> {"other"}],
              [by |-> "radius", says |-> <<"viewer", "admin">>],
              [by |-> "tacacs", says |-> <<1>>]}
\* The two other users differ in nothing, nor do the ports.
MCSymmetry == Permutations({bob, eve}) \cup Permutations({p1, p2})
=============================================================================
