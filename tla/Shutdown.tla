------------------------------ MODULE Shutdown ------------------------------
(***************************************************************************)
(* How a server daemon ends (src/vpnd.c, src/signals.c, src/tcp.c,         *)
(* src/peer.c): the main thread in the loop of tcp_server, interrupted by  *)
(* signals, then in close_vpnd, which frees what the connections' threads  *)
(* and the tun thread use.                                                 *)
(*                                                                         *)
(* The handlers run on the main thread, to which the kernel delivers a     *)
(* signal of the process.  A slot serves one connection here (PeerTable    *)
(* has their reuse).  How the daemon gets here is in Daemon.               *)
(***************************************************************************)
EXTENDS Naturals, Sequences, SequencesExt

CONSTANTS
  Peer,     \* connections that may be accepted (bounds the model)
  MaxWait,  \* seconds destroy_peer waits: 10 in the code (bounds the model)
  MaxInterrupts  \* most SIGINTs (bounds the model)

\* "read" and "ended" are states of the tun thread beside the peers.
ASSUME ShutdownAssumption ==
  /\ {"read", "ended"} \cap Peer = {}
  /\ MaxWait \in Nat \ {0}
  /\ MaxInterrupts \in Nat

VARIABLES
  main,       \* where the main thread is
  handler,    \* where interrupt_program_handler is, on top of it
  at,         \* the list position it broadcasts to
  listening,  \* the listening sockets are open
  if_fd,      \* the device is open
  peers,      \* the list of peers
  rest,       \* destroy_peers' `current`: the peers it still has to free
  waited,     \* seconds destroy_peer has waited
  alive,      \* peer->alive
  conn,       \* where the connection's threads are
  remote,     \* whether the remote end has its socket open, and has been sent CLOSE
  tun,        \* the peer the tun thread sends to, with its mutex, or where it is
  interrupts, \* SIGINTs so far
  freed,      \* history: how often each peer has been freed
  keys_freed  \* history: how often the daemon's keys have been freed

vars == <<main, handler, at, listening, if_fd, peers, rest, waited, alive, conn,
          remote, tun, interrupts, freed, keys_freed>>

Init ==
  /\ main = "poll"
  /\ handler = "none"
  /\ at = 1
  /\ listening = TRUE
  /\ if_fd = TRUE
  /\ peers = <<>>
  /\ rest = <<>>
  /\ waited = 0
  /\ alive = [p \in Peer |-> FALSE]
  /\ conn = [p \in Peer |-> "none"]
  /\ remote = [p \in Peer |-> "open"]
  /\ tun = "read"
  /\ interrupts = 0
  /\ freed = [p \in Peer |-> 0]
  /\ keys_freed = 0

\* The main thread itself only runs when no handler runs on top of it.
Main(from, to) ==
  /\ handler = "none"
  /\ main = from
  /\ main' = to

-----------------------------------------------------------------------------
(***************************************************************************)
(* The signals.                                                            *)
(***************************************************************************)

\* Mutant: the listening sockets stay open.
InterruptKeepsSockets ==
  /\ handler = "none"
  /\ main # "exited"
  /\ interrupts < MaxInterrupts
  /\ interrupts' = interrupts + 1
  /\ handler' = "broadcast"
  /\ at' = 1
  /\ UNCHANGED <<main, listening, if_fd, peers, rest, waited, alive, conn, remote, tun, freed,
                 keys_freed>>

\* SIGINT, wherever the main thread is: interrupt_program_handler starts with
\* tcp_server_close.
Interrupt ==
  /\ handler = "none"
  /\ main # "exited"
  /\ interrupts < MaxInterrupts
  /\ interrupts' = interrupts + 1
  /\ handler' = "broadcast"
  /\ listening' = FALSE
  /\ at' = 1
  /\ UNCHANGED <<main, if_fd, peers, rest, waited, alive, conn, remote, tun, freed,
                 keys_freed>>

\* broadcast_data_to_peers: CLOSE to the next peer, if it is alive; waits for a mutex
\* that the tun thread holds.
BroadcastClose ==
  /\ handler = "broadcast"
  /\ at <= Len(peers)
  /\ LET p == peers[at] IN
       /\ alive[p] => tun # p
       /\ remote' = IF alive[p] /\ remote[p] = "open" THEN [remote EXCEPT ![p] = "told"]
                    ELSE remote
  /\ at' = at + 1
  /\ UNCHANGED <<main, handler, listening, if_fd, peers, rest, waited, alive, conn, tun,
                 interrupts, freed, keys_freed>>

\* tuntap_close, and the handler returns.
HandlerEnds ==
  /\ handler = "broadcast"
  /\ at > Len(peers)
  /\ handler' = "none"
  /\ if_fd' = FALSE
  /\ UNCHANGED <<main, at, listening, peers, rest, waited, alive, conn, remote, tun,
                 interrupts, freed, keys_freed>>

\* Any signal with a handler, SIGUSR1 too, makes poll() return -1: tcp_server closes
\* the listening sockets and returns.
PollInterrupted ==
  /\ listening
  /\ Main("poll", "close")
  /\ listening' = FALSE
  /\ UNCHANGED <<handler, at, if_fd, peers, rest, waited, alive, conn, remote, tun,
                 interrupts, freed, keys_freed>>

-----------------------------------------------------------------------------
(***************************************************************************)
(* The main thread.                                                        *)
(***************************************************************************)

\* tcp_accept_connection, peer_connection
Accept(p) ==
  /\ listening
  /\ Main("poll", "poll")
  /\ conn[p] = "none"
  /\ conn' = [conn EXCEPT ![p] = "recv"]
  /\ alive' = [alive EXCEPT ![p] = TRUE]
  /\ peers' = Append(peers, p)
  /\ UNCHANGED <<handler, at, listening, if_fd, rest, waited, remote, tun, interrupts,
                 freed, keys_freed>>

\* tcp_server's loop ends when the sockets have been closed.
LoopEnds ==
  /\ ~listening
  /\ Main("poll", "close")
  /\ UNCHANGED <<handler, at, listening, if_fd, peers, rest, waited, alive, conn, remote,
                 tun, interrupts, freed, keys_freed>>

\* close_vpnd: tuntap_close; destroy_peers empties the list before it frees the peers.
close_vpnd ==
  /\ Main("close", "destroy")
  /\ if_fd' = FALSE
  /\ rest' = peers
  /\ peers' = <<>>
  /\ UNCHANGED <<handler, at, listening, waited, alive, conn, remote, tun, interrupts,
                 freed, keys_freed>>

\* Mutant: destroy_peers does not go on to the next peer.
FreeStays(p) ==
  /\ freed' = [freed EXCEPT ![p] = @ + 1]
  /\ UNCHANGED rest

Free(p) ==
  /\ freed' = [freed EXCEPT ![p] = @ + 1]
  /\ rest' = Tail(rest)

\* destroy_peer: the peer is dead, or it is waited for.  close() of its socket does not
\* wake the thread that is in recv() on it.
DestroyDead ==
  /\ Main("destroy", "destroy")
  /\ rest # <<>>
  /\ ~alive[Head(rest)]
  /\ Free(Head(rest))
  /\ UNCHANGED <<handler, at, listening, if_fd, peers, waited, alive, conn, remote, tun,
                 interrupts, keys_freed>>

DestroyAlive ==
  /\ Main("destroy", "wait")
  /\ rest # <<>>
  /\ alive[Head(rest)]
  /\ waited' = 0
  /\ UNCHANGED <<handler, at, listening, if_fd, peers, rest, alive, conn, remote, tun,
                 interrupts, freed, keys_freed>>

\* Mutants: one second too many; no limit.
WaitOneMore ==
  /\ Main("wait", "wait")
  /\ alive[Head(rest)]
  /\ waited <= MaxWait
  /\ waited' = waited + 1
  /\ UNCHANGED <<handler, at, listening, if_fd, peers, rest, alive, conn, remote, tun,
                 interrupts, freed, keys_freed>>

WaitEndsWhenDead ==
  /\ Main("wait", "destroy")
  /\ ~alive[Head(rest)]
  /\ Free(Head(rest))
  /\ UNCHANGED <<handler, at, listening, if_fd, peers, waited, alive, conn, remote, tun,
                 interrupts, keys_freed>>

Wait ==
  /\ Main("wait", "wait")
  /\ alive[Head(rest)]
  /\ waited < MaxWait
  /\ waited' = waited + 1
  /\ UNCHANGED <<handler, at, listening, if_fd, peers, rest, alive, conn, remote, tun,
                 interrupts, freed, keys_freed>>

\* The peer is dead, or it was waited for too long: it is freed.
WaitEnds ==
  /\ Main("wait", "destroy")
  /\ ~alive[Head(rest)] \/ waited = MaxWait
  /\ Free(Head(rest))
  /\ UNCHANGED <<handler, at, listening, if_fd, peers, waited, alive, conn, remote, tun,
                 interrupts, keys_freed>>

\* The rest of close_vpnd: free_daemon_keys, clear_trusted_keys, free_config_dir.
FreeKeys ==
  /\ Main("destroy", "cancel")
  /\ rest = <<>>
  /\ keys_freed' = keys_freed + 1
  /\ UNCHANGED <<handler, at, listening, if_fd, peers, rest, waited, alive, conn, remote,
                 tun, interrupts, freed>>

\* vpnd cancels the tun thread, wherever it waits, and joins it.
CancelTun ==
  /\ Main("cancel", "exit")
  /\ tun' = "ended"
  /\ UNCHANGED <<handler, at, listening, if_fd, peers, rest, waited, alive, conn, remote,
                 interrupts, freed, keys_freed>>

\* Mutant: close_vpnd does not remember that it has been called.
ExitClosesAgain ==
  /\ Main("exit", "exited")
  /\ keys_freed' = keys_freed + 1
  /\ UNCHANGED <<handler, at, listening, if_fd, peers, rest, waited, alive, conn, remote,
                 tun, interrupts, freed>>

\* main returns: exit() calls close_vpnd again, which is already_closing.
Exit ==
  /\ Main("exit", "exited")
  /\ UNCHANGED <<handler, at, listening, if_fd, peers, rest, waited, alive, conn, remote,
                 tun, interrupts, freed, keys_freed>>

-----------------------------------------------------------------------------
(***************************************************************************)
(* The other threads, and the remote daemons.                              *)
(***************************************************************************)

\* The remote daemon closes its socket, after a CLOSE or of its own accord.
RemoteCloses(p) ==
  /\ conn[p] # "none"
  /\ remote[p] # "closed"
  /\ remote' = [remote EXCEPT ![p] = "closed"]
  /\ UNCHANGED <<main, handler, at, listening, if_fd, peers, rest, waited, alive, conn,
                 tun, interrupts, freed, keys_freed>>

\* destroy_peer has closed peer->s: a thread that was not in recv() then notices.
ClosedHere(p) == freed[p] > 0 \/ (main = "wait" /\ p = Head(rest))

\* peer_receive ends, when the remote end or destroy_peer has closed the socket, and is
\* joined: _peer_connection stores alive = false.
ConnDies(p) ==
  /\ main # "exited"
  /\ conn[p] = "recv"
  /\ remote[p] = "closed" \/ ClosedHere(p)
  /\ conn' = [conn EXCEPT ![p] = "leaving"]
  /\ alive' = [alive EXCEPT ![p] = FALSE]
  /\ UNCHANGED <<main, handler, at, listening, if_fd, peers, rest, waited, remote, tun,
                 interrupts, freed, keys_freed>>

\* close(peer->s), the last message with peer->address and peer->port, and the end.
ConnExits(p) ==
  /\ main # "exited"
  /\ conn[p] = "leaving"
  /\ conn' = [conn EXCEPT ![p] = "exited"]
  /\ UNCHANGED <<main, handler, at, listening, if_fd, peers, rest, waited, alive, remote,
                 tun, interrupts, freed, keys_freed>>

\* The tun thread has a packet for a peer and takes its mutex; the remote daemon reads
\* what it sends; the thread ends when the device is closed.
TunSends(p) ==
  /\ tun = "read"
  /\ if_fd
  /\ p \in Range(peers)
  /\ alive[p]
  /\ tun' = p
  /\ UNCHANGED <<main, handler, at, listening, if_fd, peers, rest, waited, alive, conn,
                 remote, interrupts, freed, keys_freed>>

TunSent ==
  /\ tun \in Peer
  /\ main # "exited"
  /\ tun' = "read"
  /\ UNCHANGED <<main, handler, at, listening, if_fd, peers, rest, waited, alive, conn,
                 remote, interrupts, freed, keys_freed>>

TunEnds ==
  /\ tun = "read"
  /\ ~if_fd
  /\ tun' = "ended"
  /\ UNCHANGED <<main, handler, at, listening, if_fd, peers, rest, waited, alive, conn,
                 remote, interrupts, freed, keys_freed>>

-----------------------------------------------------------------------------
Handler == BroadcastClose \/ HandlerEnds

MainThread ==
  \/ LoopEnds \/ close_vpnd \/ DestroyDead \/ DestroyAlive \/ Wait \/ WaitEnds
  \/ FreeKeys \/ CancelTun \/ Exit

Next ==
  \/ Interrupt \/ PollInterrupted \/ Handler \/ MainThread \/ TunSent \/ TunEnds
  \/ \E p \in Peer :
       Accept(p) \/ RemoteCloses(p) \/ ConnDies(p) \/ ConnExits(p) \/ TunSends(p)

Spec == Init /\ [][Next]_vars

-----------------------------------------------------------------------------
(***************************************************************************)
(* Properties.                                                             *)
(***************************************************************************)

\* The variables keep their types and the wait its limit.
TypeOK ==
  /\ main \in {"poll", "close", "destroy", "wait", "cancel", "exit", "exited"}
  /\ handler \in {"none", "broadcast"}
  /\ at \in Nat \ {0}
  /\ listening \in BOOLEAN
  /\ if_fd \in BOOLEAN
  /\ peers \in Seq(Peer)
  /\ rest \in Seq(Peer)
  /\ waited \in 0..MaxWait
  /\ alive \in [Peer -> BOOLEAN]
  /\ conn \in [Peer -> {"none", "recv", "leaving", "exited"}]
  /\ remote \in [Peer -> {"open", "told", "closed"}]
  /\ tun \in Peer \cup {"read", "ended"}
  /\ interrupts \in 0..MaxInterrupts
  /\ freed \in [Peer -> Nat]
  /\ keys_freed \in Nat

\* peer.c:108 "Waiting for thread ... to exit": when the wait for a connection's threads
\* was successful they no longer use the peer that is freed.
FreedAfterExit == \A p \in Peer : freed[p] > 0 => conn[p] # "leaving"
=============================================================================
