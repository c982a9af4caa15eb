--------------------------- MODULE InternalConnPool ---------------------------
(***************************************************************************)
(* InternalConnPool, the pool of connections to one host, and              *)
(* internalPooledConn, the handle whose Close gives a connection back.     *)
(* Every action below is what happens under one hold of the pool's mutex,  *)
(* or between two of them; `locked' is the mutex that a Get which found    *)
(* the pool closed never unlocks.                                          *)
(***************************************************************************)
EXTENDS Naturals, Sequences, FiniteSets, SequencesExt

CONSTANTS
  Pools,
  Conns,
  NoPool,
  MaxIdleConns   \* 0: no limit

ASSUME PoolAssumption == NoPool \notin Pools /\ MaxIdleConns \in Nat

VARIABLES
  pools,   \* [idleConns, closed, locked]
  conns    \* [pool, open, returned]; pool = NoPool: opened by the driver's provider

poolVars == <<pools, conns>>

NewConnPool == [idleConns |-> <<>>, closed |-> FALSE, locked |-> FALSE]
\* Also what is left of a connection that was closed.
NoConn == [pool |-> NoPool, open |-> FALSE, returned |-> TRUE]

PoolTypeOK ==
  /\ pools \in [Pools -> [idleConns : Seq(Conns), closed : BOOLEAN, locked : BOOLEAN]]
  /\ conns \in [Conns -> [pool : Pools \cup {NoPool}, open : BOOLEAN, returned : BOOLEAN]]

PoolInit ==
  /\ pools = [p \in Pools |-> NewConnPool] /\ conns = [x \in Conns |-> NoConn]

CreatePool(p) == pools' = [pools EXCEPT ![p] = NewConnPool] /\ UNCHANGED conns

Idle(p) == ToSet(pools[p].idleConns)

-----------------------------------------------------------------------------
(* Get: its loop takes the first idle connection, which is closed when it  *)
(* is too old or its session cannot be reset, both with the mutex unlocked.*)

GetClosed(p) == ~ pools[p].locked /\ pools[p].closed /\ UNCHANGED poolVars

\* MUTANT of TakeIdle: the connection stays in the list.
PeekIdle(p) ==
  /\ ~ pools[p].locked /\ ~ pools[p].closed /\ pools[p].idleConns # <<>>
  /\ UNCHANGED poolVars

TakeIdle(p) ==
  /\ ~ pools[p].locked /\ ~ pools[p].closed /\ pools[p].idleConns # <<>>
  /\ pools' = [pools EXCEPT ![p].idleConns = Tail(@)]
  /\ UNCHANGED conns

NoneIdle(p) ==
  /\ ~ pools[p].locked /\ ~ pools[p].closed /\ pools[p].idleConns = <<>>
  /\ UNCHANGED poolVars

\* pc.Conn.Close(), of an expired connection or after a failed ResetSession.
CloseConn(x) == conns' = [conns EXCEPT ![x] = NoConn] /\ UNCHANGED pools

\* ResetSession worked: the handle is used again.
ReuseConn(x) == conns' = [conns EXCEPT ![x].returned = FALSE] /\ UNCHANGED pools

\* The mutex is locked again; on finding the pool closed, Get returns without
\* unlocking it.
RelockOpen(p) == ~ pools[p].locked /\ ~ pools[p].closed /\ UNCHANGED poolVars
RelockClosed(p) ==
  /\ ~ pools[p].locked /\ pools[p].closed
  /\ pools' = [pools EXCEPT ![p].locked = TRUE] /\ UNCHANGED conns

\* newConnFunc, and DriverConnectionProvider.Connect.
OpenConn(x, p) ==
  /\ conns' = [conns EXCEPT ![x] = [pool |-> p, open |-> TRUE, returned |-> FALSE]]
  /\ UNCHANGED pools

-----------------------------------------------------------------------------
(* internalPooledConn.Close, in two steps: the handle is marked, then the  *)
(* connection goes back to the pool or is closed.                          *)

MarkReturned(x) == conns' = [conns EXCEPT ![x].returned = TRUE] /\ UNCHANGED pools

\* MUTANT of GiveBack: a pool that is closed is not told from one that is not.
GiveBackBlindly(x) ==
  LET p == conns[x].pool IN
  /\ ~ pools[p].locked
  /\ IF MaxIdleConns = 0 \/ Len(pools[p].idleConns) < MaxIdleConns
       THEN pools' = [pools EXCEPT ![p].idleConns = Append(@, x)] /\ UNCHANGED conns
       ELSE CloseConn(x)

\* MUTANT of GiveBack: Close waits until there is room.
GiveBackWhenRoom(x) ==
  LET p == conns[x].pool IN
  /\ ~ pools[p].locked
  /\ IF pools[p].closed THEN CloseConn(x)
     ELSE /\ MaxIdleConns = 0 \/ Len(pools[p].idleConns) < MaxIdleConns
          /\ pools' = [pools EXCEPT ![p].idleConns = Append(@, x)] /\ UNCHANGED conns

GiveBack(x) ==
  LET p == conns[x].pool IN
  /\ ~ pools[p].locked
  /\ IF ~ pools[p].closed /\ (MaxIdleConns = 0 \/ Len(pools[p].idleConns) < MaxIdleConns)
       THEN pools' = [pools EXCEPT ![p].idleConns = Append(@, x)] /\ UNCHANGED conns
       ELSE CloseConn(x)

\* InternalConnPool.Close, once.
ClosePool(p) ==
  /\ ~ pools[p].locked
  /\ pools' = [pools EXCEPT ![p] = [idleConns |-> <<>>, closed |-> TRUE, locked |-> FALSE]]
  /\ conns' = [x \in Conns |-> IF x \in Idle(p) THEN NoConn ELSE conns[x]]

=============================================================================
