-------------------------- MODULE ConnectionLending --------------------------
(***************************************************************************)
(* What the connection pool promises, without channels, counters or        *)
(* goroutine steps: at most MaxConnections connections exist, each is idle *)
(* or lent to exactly one client or condemned, and a condemned connection  *)
(* is never lent again: all that is left for it is to be closed.           *)
(***************************************************************************)
EXTENDS Naturals, FiniteSets

CONSTANTS Clients, Conns, MaxConnections, NoConn

VARIABLES idle,      \* open connections nobody uses
          lent,      \* the connection each client uses, or NoConn
          condemned  \* open connections on their way to being closed

lendingVars == <<idle, lent, condemned>>

Lent == {lent[c] : c \in Clients} \ {NoConn}
Existing == idle \cup Lent \cup condemned

LendingInit ==
  /\ idle = {}
  /\ lent = [c \in Clients |-> NoConn]
  /\ condemned = {}

(* A new connection is opened for a client, within the budget.             *)
Open(c, n) ==
  /\ lent[c] = NoConn
  /\ n \in Conns \ Existing
  /\ Cardinality(Existing) < MaxConnections
  /\ lent' = [lent EXCEPT ![c] = n]
  /\ UNCHANGED <<idle, condemned>>

Lend(c, n) ==
  /\ lent[c] = NoConn
  /\ n \in idle
  /\ idle' = idle \ {n}
  /\ lent' = [lent EXCEPT ![c] = n]
  /\ UNCHANGED condemned

Return(c) ==
  /\ lent[c] # NoConn
  /\ idle' = idle \cup {lent[c]}
  /\ lent' = [lent EXCEPT ![c] = NoConn]
  /\ UNCHANGED condemned

(* A client gives up a connection that must not be reused.                 *)
Drop(c) ==
  /\ lent[c] # NoConn
  /\ condemned' = condemned \cup {lent[c]}
  /\ lent' = [lent EXCEPT ![c] = NoConn]
  /\ UNCHANGED idle

(* The pool gives up an idle connection.                                   *)
Evict(n) ==
  /\ n \in idle
  /\ idle' = idle \ {n}
  /\ condemned' = condemned \cup {n}
  /\ UNCHANGED lent

Shut(n) ==
  /\ n \in condemned
  /\ condemned' = condemned \ {n}
  /\ UNCHANGED <<idle, lent>>

LendingNext ==
  \/ \E c \in Clients : Return(c) \/ Drop(c)
  \/ \E c \in Clients, n \in Conns : Open(c, n) \/ Lend(c, n)
  \/ \E n \in Conns : Evict(n) \/ Shut(n)

LendingSpec == LendingInit /\ [][LendingNext]_lendingVars

=============================================================================
