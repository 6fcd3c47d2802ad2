---------------------------- MODULE MCPingServer ----------------------------
(* Two clients, one request each, a submission ring of one entry so that  *)
(* three fibers contend for it.                                            *)
EXTENDS PingServer, TLC

MCConns    == {1, 2}
MCAcceptor == 0
MCTasks    == MCConns \cup {MCAcceptor}

(* One client: the acceptor and the connection fiber still contend for   *)
(* the single ring entry; small enough for liveness checking.            *)
MCConn1  == {1}
MCTasks1 == MCConn1 \cup {MCAcceptor}

TokenSymmetry == Permutations(Tokens)
=============================================================================
