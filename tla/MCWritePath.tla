---------------------------- MODULE MCWritePath ----------------------------
(* Small instances of WritePath: each user has one session, which uses its   *)
(* channels one at a time.                                                  *)
EXTENDS WritePath

CONSTANTS ann, bob, eve
MCUserOf == [s \in Session |-> s]
=============================================================================
