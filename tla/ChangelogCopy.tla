---------------------------- MODULE ChangelogCopy ----------------------------
(***************************************************************************)
(* What the replication of the changelog promises: a replica chooses one   *)
(* primary once and from then on copies its changelog, row after row, and  *)
(* nothing else.  Replication implements this module.                      *)
(***************************************************************************)
EXTENDS Integers, Sequences

CONSTANTS
    Servers,        \* servers which can be a primary
    NoServer        \* the replica has not chosen one; no member of Servers

VARIABLES
    last,           \* the serial of the last commit of each server, -1 before the first
    origin,         \* the server the replica copies
    copy            \* the rows of the replica, each with its server and serial

vars == <<last, origin, copy>>

Row == [by : Servers, serial : Nat]

Init ==
    /\ last = [s \in Servers |-> -1]
    /\ origin = NoServer
    /\ copy = <<>>

Commit(s) ==
    /\ last' = [last EXCEPT ![s] = @ + 1]
    /\ UNCHANGED <<origin, copy>>

Choose(s) ==
    /\ origin = NoServer
    /\ origin' = s
    /\ UNCHANGED <<last, copy>>

\* The row after those the replica has.
Import ==
    /\ origin \in Servers
    /\ Len(copy) <= last[origin]
    /\ copy' = Append(copy, [by |-> origin, serial |-> Len(copy)])
    /\ UNCHANGED <<last, origin>>

Next == (\E s \in Servers : Commit(s) \/ Choose(s)) \/ Import

Spec == Init /\ [][Next]_vars
=============================================================================
