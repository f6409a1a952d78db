-------------------------------- MODULE Daemon --------------------------------
(***************************************************************************)
(* The life of a daemon, from its command line to its exit (src/args.c,    *)
(* src/vpnd.c, src/rsa.c, src/interface.c, src/scripts.c, src/tcp.c): what *)
(* it loads and opens on its way to tcp_server or tcp_client, each step of *)
(* which may fail or be interrupted, and what it does about it at the end, *)
(* which is in Shutdown.                                                   *)
(*                                                                         *)
(* A signal before override_signals kills the process and is left out.     *)
(* Options that only choose a value (mode, port, interface, level) are     *)
(* valid or not; memory is assumed available.                              *)
(***************************************************************************)
EXTENDS Shutdown

VARIABLES
  boot,        \* where main() is on the way to the loop of the server
  server,      \* args->server
  todo,        \* what the options leave to be done: detach, and the sockets to bind
  config_dir,  \* the directory's name, allocated by set_config_dir
  keys,        \* which of the daemon's keys have been loaded
  trusted,     \* the list of trusted keys
  failed,      \* vpnd returned before it started the tun thread
  early        \* history: an interrupt came between tuntap_open and the loop

boots == <<boot, server, todo, config_dir, keys, trusted, failed, early>>
dvars == <<vars, boots>>

DaemonInit ==
  /\ main = "poll"
  /\ handler = "none"
  /\ at = 1
  /\ listening = FALSE
  /\ if_fd = FALSE
  /\ peers = <<>>
  /\ rest = <<>>
  /\ waited = 0
  /\ alive = [p \in Peer |-> FALSE]
  /\ conn = [p \in Peer |-> "none"]
  /\ remote = [p \in Peer |-> "open"]
  /\ tun = "ended"
  /\ interrupts = 0
  /\ freed = [p \in Peer |-> 0]
  /\ keys_freed = 0
  /\ boot = "options"
  /\ server = FALSE
  /\ todo = {"ip4", "ip6"}
  /\ config_dir = "live"
  /\ keys = "none"
  /\ trusted = "none"
  /\ failed = FALSE
  /\ early = FALSE

\* The main thread goes on with its way to the loop.
Boot(from, to) ==
  /\ handler = "none"
  /\ boot = from
  /\ boot' = to

\* vpnd returns, so that exit() runs close_vpnd.
Fail ==
  /\ boot' = "up"
  /\ main' = "close"
  /\ failed' = TRUE

-----------------------------------------------------------------------------
(***************************************************************************)
(* The command line.                                                       *)
(***************************************************************************)

\* free() of config_dir, which keeps its value.
free_config_dir == IF config_dir = "live" THEN "freed" ELSE "freed twice"

\* set_config_dir frees the last name and allocates one; other options set flags.
Option ==
  /\ Boot("options", "options")
  /\ \/ server' = TRUE /\ UNCHANGED <<todo, config_dir>>
     \/ \E t \in {todo \cup {"detach"}, todo \ {"ip4"}, todo \ {"ip6"}} :
          todo' = t /\ UNCHANGED <<server, config_dir>>
     \/ /\ config_dir' = IF free_config_dir = "freed" THEN "live" ELSE "freed twice"
        /\ UNCHANGED <<server, todo>>
  /\ UNCHANGED <<vars, keys, trusted, failed, early>>

\* --help, --version, an option or a value that is not valid: exit().
OptionExits ==
  /\ Boot("options", "gone")
  /\ UNCHANGED <<vars, server, todo, config_dir, keys, trusted, failed, early>>

\* The rest of the command line must be an address for a client, nothing for a server.
EndOptions(given) ==
  /\ Boot("options", IF server <=> given THEN "gone" ELSE "fork")
  /\ UNCHANGED <<vars, server, todo, config_dir, keys, trusted, failed, early>>

\* main goes on in the child, or without a child; override_signals.
Detach ==
  /\ Boot("fork", "privkey")
  /\ todo' = todo \ {"detach"}
  /\ UNCHANGED <<vars, server, config_dir, keys, trusted, failed, early>>

ForkFails ==
  /\ "detach" \in todo
  /\ Boot("fork", "gone")
  /\ UNCHANGED <<vars, server, todo, config_dir, keys, trusted, failed, early>>

-----------------------------------------------------------------------------
(***************************************************************************)
(* vpnd, up to the loop.                                                   *)
(***************************************************************************)

LoadPrivkey ==
  /\ Boot("privkey", "pubkey")
  /\ keys' = "private"
  /\ UNCHANGED <<vars, server, todo, config_dir, trusted, failed, early>>

LoadPubkey ==
  /\ Boot("pubkey", "trusted")
  /\ keys' = "both"
  /\ UNCHANGED <<vars, server, todo, config_dir, trusted, failed, early>>

\* A key cannot be loaded: free_daemon_keys, and again at exit.
LoadKeyFails ==
  /\ handler = "none"
  /\ boot \in {"privkey", "pubkey"}
  /\ Fail
  /\ keys_freed' = keys_freed + 1
  /\ UNCHANGED <<handler, at, listening, if_fd, peers, rest, waited, alive, conn, remote, tun,
                 interrupts, freed, server, todo, config_dir, keys, trusted, early>>

\* load_trusted_keys: the keys that can be loaded are trusted; there may be none.
LoadTrustedKeys ==
  /\ Boot("trusted", "device")
  /\ trusted' \in {"none", "live"}
  /\ UNCHANGED <<vars, server, todo, config_dir, keys, failed, early>>

tuntap_open ==
  /\ Boot("device", "opened")
  /\ if_fd' = TRUE
  /\ UNCHANGED <<main, handler, at, listening, peers, rest, waited, alive, conn, remote, tun,
                 interrupts, freed, keys_freed, server, todo, config_dir, keys, trusted,
                 failed, early>>

tuntap_open_fails ==
  /\ handler = "none"
  /\ boot = "device"
  /\ Fail
  /\ UNCHANGED <<handler, at, listening, if_fd, peers, rest, waited, alive, conn, remote, tun,
                 interrupts, freed, keys_freed, server, todo, config_dir, keys, trusted, early>>

\* execute_script: system() ignores SIGINT until the script ends.
ExecuteScript ==
  /\ Boot("opened", "script")
  /\ UNCHANGED <<vars, server, todo, config_dir, keys, trusted, failed, early>>

\* broadcast_tuntap_device starts the tun thread.
StartTun ==
  /\ Boot("script", IF server THEN "bind" ELSE "connect")
  /\ tun' = "read"
  /\ UNCHANGED <<main, handler, at, listening, if_fd, peers, rest, waited, alive, conn, remote,
                 interrupts, freed, keys_freed, server, todo, config_dir, keys, trusted,
                 failed, early>>

\* tcp4_bind, then tcp6_bind, which gives a listening socket or fails.
Bind(family) ==
  /\ Boot("bind", "bind")
  /\ family \in todo
  /\ family = "ip6" => "ip4" \notin todo
  /\ todo' = todo \ {family}
  /\ listening' \in {listening, TRUE}
  /\ UNCHANGED <<main, handler, at, if_fd, peers, rest, waited, alive, conn, remote, tun,
                 interrupts, freed, keys_freed, server, config_dir, keys, trusted, failed, early>>

\* tcp_server comes to its loop, with no socket, one or two.
Serve ==
  /\ Boot("bind", "up")
  /\ todo = {}
  /\ UNCHANGED <<vars, server, todo, config_dir, keys, trusted, failed, early>>

\* tcp_client: the name does not resolve, there is no socket, or no connection.
ConnectFails ==
  /\ Boot("connect", "up")
  /\ main' = "close"
  /\ UNCHANGED <<handler, at, listening, if_fd, peers, rest, waited, alive, conn, remote, tun,
                 interrupts, freed, keys_freed, server, todo, config_dir, keys, trusted,
                 failed, early>>

\* tcp_client: connected; peer_connection starts the connection's thread and joins it.
Connect(p) ==
  /\ Boot("connect", "up")
  /\ conn' = [conn EXCEPT ![p] = "recv"]
  /\ alive' = [alive EXCEPT ![p] = TRUE]
  /\ peers' = <<p>>
  /\ UNCHANGED <<main, handler, at, listening, if_fd, rest, waited, remote, tun, interrupts,
                 freed, keys_freed, server, todo, config_dir, keys, trusted, failed, early>>

-----------------------------------------------------------------------------
(***************************************************************************)
(* The steps of Shutdown.                                                  *)
(***************************************************************************)

\* A client's main thread waits in pthread_join.
Joining == boot = "up" /\ ~server /\ main = "poll"

\* Mutants: the thread is only waited for until it is dead; for as long as nobody
\* has interrupted the daemon.
JoinEndsWhenDead ==
  /\ Joining
  /\ Main("poll", "close")
  /\ \A p \in Range(peers) : ~alive[p]
  /\ UNCHANGED <<handler, at, listening, if_fd, peers, rest, waited, alive, conn, remote,
                 tun, interrupts, freed, keys_freed, boots>>

JoinEndsInterrupted ==
  /\ Joining
  /\ Main("poll", "close")
  /\ interrupts > 0
  /\ \A p \in Range(peers) : conn[p] = "exited"
  /\ UNCHANGED <<handler, at, listening, if_fd, peers, rest, waited, alive, conn, remote,
                 tun, interrupts, freed, keys_freed, boots>>

\* The connection's thread has ended: tcp_client returns.
JoinEnds ==
  /\ Joining
  /\ Main("poll", "close")
  /\ \A p \in Range(peers) : conn[p] = "exited"
  /\ UNCHANGED <<handler, at, listening, if_fd, peers, rest, waited, alive, conn, remote,
                 tun, interrupts, freed, keys_freed, boots>>

\* The handlers are set from override_signals on.
InterruptDaemon ==
  /\ boot \notin {"options", "fork", "gone", "script"}
  /\ Interrupt
  /\ early' = (early \/ (if_fd /\ boot # "up"))
  /\ UNCHANGED <<boot, server, todo, config_dir, keys, trusted, failed>>

\* Mutant: clear_trusted_keys forgets to clear the list.
FreeConfigKeepsTrusted ==
  /\ config_dir' = free_config_dir
  /\ trusted' = IF trusted = "live" THEN "dangling" ELSE trusted
  /\ UNCHANGED <<boot, server, todo, keys, failed, early>>

\* clear_trusted_keys, free_config_dir
FreeConfig ==
  /\ config_dir' = free_config_dir
  /\ trusted' = "none"
  /\ UNCHANGED <<boot, server, todo, keys, failed, early>>

\* exit() has run close_vpnd after vpnd failed.
ExitFailed ==
  /\ failed
  /\ Main("cancel", "exited")
  /\ UNCHANGED <<handler, at, listening, if_fd, peers, rest, waited, alive, conn, remote,
                 tun, interrupts, freed, keys_freed, boots>>

ServerLoop ==
  /\ boot = "up" /\ server
  /\ PollInterrupted \/ LoopEnds \/ \E p \in Peer : Accept(p)
  /\ UNCHANGED boots

Closing ==
  \/ FreeKeys /\ FreeConfig
  \/ /\ close_vpnd \/ DestroyDead \/ DestroyAlive \/ Wait \/ WaitEnds \/ (~failed /\ CancelTun) \/ Exit
     /\ UNCHANGED boots

Loading ==
  \/ Detach \/ ForkFails \/ LoadPrivkey \/ LoadPubkey \/ LoadKeyFails \/ LoadTrustedKeys
  \/ tuntap_open \/ tuntap_open_fails \/ ExecuteScript

Starting == StartTun \/ Bind("ip4") \/ Bind("ip6") \/ Serve

Connecting == ConnectFails \/ (\E p \in Peer : Connect(p))

CommandLine == Option \/ OptionExits \/ (\E given \in BOOLEAN : EndOptions(given))

DaemonThread == JoinEnds \/ ExitFailed \/ Closing \/ (LoopEnds /\ ServerLoop)

Threads(p) == (ConnDies(p) \/ ConnExits(p)) /\ UNCHANGED boots

DaemonNext ==
  \/ CommandLine \/ Loading \/ Starting \/ Connecting \/ InterruptDaemon
  \/ JoinEnds \/ ExitFailed \/ ServerLoop \/ Closing
  \/ (Handler \/ TunSent \/ TunEnds) /\ UNCHANGED boots
  \/ \E p \in Peer : Threads(p) \/ ((RemoteCloses(p) \/ TunSends(p)) /\ UNCHANGED boots)

DaemonSpec == DaemonInit /\ [][DaemonNext]_dvars

\* The threads are scheduled, and a script ends; the threads of a connection are only
\* counted on when the remote end has closed it; the handler gets a mutex that is free
\* again and again; remote daemons read what the tun thread sends, and need do no more.
DaemonFairSpec ==
  /\ DaemonSpec
  /\ WF_dvars(Loading) /\ WF_dvars(Starting)
  /\ SF_dvars(Handler /\ UNCHANGED boots)
  /\ WF_dvars(DaemonThread)
  /\ WF_dvars(TunSent /\ UNCHANGED boots)
  /\ \A p \in Peer : WF_dvars(remote[p] = "closed" /\ Threads(p))

-----------------------------------------------------------------------------
(***************************************************************************)
(* Properties.                                                             *)
(***************************************************************************)

\* The variables keep their types.
DaemonTypeOK ==
  /\ boot \in {"options", "fork", "privkey", "pubkey", "trusted", "device", "opened", "script",
               "bind", "connect", "up", "gone"}
  /\ todo \subseteq {"detach", "ip4", "ip6"}
  /\ config_dir \in {"live", "freed", "freed twice"}
  /\ keys \in {"none", "private", "both"}
  /\ trusted \in {"none", "live"}
  /\ server \in BOOLEAN
  /\ failed \in BOOLEAN
  /\ early \in BOOLEAN

\* Wherever the daemon fails or is told to stop, close_vpnd, which vpnd and exit() may
\* both call, frees what was loaded and allocated, once: each peer that was accepted
\* while threads may still die, the keys and the directory's name.  Only the private
\* key of a daemon without a public key is freed twice (vpnd.c:59, vpnd.c:47).
FreedExactlyOnce ==
  /\ keys_freed <= IF keys = "both" THEN 1 ELSE 2
  /\ config_dir # "freed twice"
  /\ \A p \in Peer : freed[p] <= 1
  /\ main = "exited" =>
       /\ keys_freed > 0 /\ trusted = "none" /\ config_dir = "freed"
       /\ \A p \in Peer : freed[p] = IF conn[p] = "none" THEN 0 ELSE 1

\* A server that no longer listens, or never could, ends: whoever holds a mutex,
\* whichever remotes do not answer the CLOSE, and whenever connections die.
Terminates == (boot = "up" /\ server /\ ~listening) ~> (main = "exited")

\* A client ends when its server has closed the connection, or when there was none.
ClientEnds ==
  (boot = "up" /\ ~server /\ \A p \in Peer : conn[p] = "none" \/ remote[p] = "closed")
    ~> (main = "exited")

\* Steps the main thread still has before it, at most, when each peer is waited for as
\* long as destroy_peer waits.
ToDo ==
  CASE main = "poll"    -> Len(peers) * (MaxWait + 2) + 5
    [] main = "close"   -> Len(peers) * (MaxWait + 2) + 4
    [] main = "destroy" -> Len(rest) * (MaxWait + 2) + 3
    [] main = "wait"    -> Len(rest) * (MaxWait + 2) + 2 - waited
    [] main = "cancel"  -> 2
    [] main = "exit"    -> 1
    [] main = "exited"  -> 0

\* Once a daemon does not listen, each step of its main thread brings its exit nearer, and
\* no interrupt, no other thread and no remote puts it off: it is at most MaxWait seconds
\* per peer, and a few steps, away.
EndsInTime ==
  [][boot = "up" /\ ~listening =>
       /\ ToDo' \in 0..ToDo
       /\ <<main, rest, waited>>' # <<main, rest, waited>> => ToDo' < ToDo]_dvars

\* A daemon that listens has its device: an interrupt closes the sockets before the
\* device and all ways to close it end the loop.  But an interrupt that comes before
\* the sockets are open leaves a server without a device.
DeviceWhileListening == boot = "up" /\ listening => if_fd \/ early

\* A client, which joins its connection's thread, frees the peer only when no thread
\* uses it any more.
JoinedBeforeFreed == ~server => \A p \in Peer : freed[p] > 0 => conn[p] = "exited"
=============================================================================
