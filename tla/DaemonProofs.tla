----------------------------- MODULE DaemonProofs -----------------------------
(***************************************************************************)
(* Proofs, for any number of connections and interrupts, that a daemon     *)
(* frees what it has loaded and accepted exactly once, however it ends,    *)
(* that it listens only with its device, and that a client frees its peer  *)
(* only after the peer's thread.                                           *)
(*                                                                         *)
(* The argument.  Where the main thread is says what has been freed:       *)
(* before close_vpnd the list holds every peer that was accepted, once;    *)
(* then destroy_peers has moved it to where it frees one peer after the    *)
(* other, and the list stays empty, since nothing is accepted any more.    *)
(***************************************************************************)
EXTENDS Daemon, TLAPS

Loop   == {"poll", "close"}
Freers == {"destroy", "wait"}

\* The first steps after tuntap_open.
Opening == {"opened", "script", "bind", "connect"}

Once(list) == \A i, j \in 1..Len(list) : list[i] = list[j] => i = j

\* Before the loop there is nothing to clean up but what the start has loaded.
Started ==
  boot # "up" => /\ main = "poll" /\ ~failed /\ peers = <<>>
                 /\ \A p \in Peer : conn[p] = "none"

KeysLoaded ==
  /\ boot \in {"options", "fork", "privkey"} => keys = "none"
  /\ boot = "pubkey" => keys = "private"
  /\ boot \in {"trusted", "device"} \cup Opening => keys = "both"
  /\ boot = "up" /\ ~failed => keys = "both"

\* A key that cannot be loaded has had the keys freed once already.
Freeing ==
  LET before == IF boot = "up" /\ keys # "both" THEN 1 ELSE 0 IN
  IF main \in Loop \cup Freers
  THEN keys_freed = before /\ config_dir = "live"
  ELSE keys_freed = before + 1 /\ config_dir = "freed" /\ trusted = "none"

Listed ==
  main \in Loop =>
    /\ rest = <<>>
    /\ Once(peers)
    /\ \A p \in Peer : freed[p] = 0 /\ (p \in Range(peers) <=> conn[p] # "none")

Left ==
  main \in Freers =>
    /\ peers = <<>>
    /\ Once(rest)
    /\ main = "wait" => rest # <<>>
    /\ \A p \in Peer :
         /\ freed[p] = IF conn[p] = "none" \/ p \in Range(rest) THEN 0 ELSE 1
         /\ p \in Range(rest) => conn[p] # "none"

AllFreed ==
  main \in {"cancel", "exit", "exited"} =>
    \A p \in Peer : freed[p] = IF conn[p] = "none" THEN 0 ELSE 1

\* A client leaves the loop only when its connection's thread has ended.
Joined == ~server /\ main # "poll" => \A p \in Peer : conn[p] \in {"none", "exited"}

\* Only servers listen; an interrupt during the start leaves its trace in early.
Device ==
  /\ listening => boot \in {"bind", "up"} /\ server
  /\ boot = "bind" => server
  /\ main # "poll" => ~listening
  /\ boot \in Opening => if_fd \/ early
  /\ boot = "up" /\ listening => if_fd \/ early
  /\ handler = "broadcast" => ~listening /\ (boot \in Opening => early)

DInv ==
  /\ TypeOK /\ DaemonTypeOK
  /\ Started /\ KeysLoaded /\ Freeing
  /\ Listed /\ Left /\ AllFreed
  /\ Joined /\ Device

-----------------------------------------------------------------------------
(***************************************************************************)
(* Every step keeps the invariant.                                         *)
(***************************************************************************)

LEMMA StartedStep ==
  ASSUME DInv, DaemonNext
  PROVE  Started'
<1>1. CASE CommandLine
  BY <1>1 DEF DInv, Started, Listed, Loop, Freers, TypeOK, DaemonTypeOK, CommandLine,
     Option, OptionExits, EndOptions, Boot, free_config_dir, vars
<1>2. CASE Loading
  BY <1>2 DEF DInv, Started, Listed, Loop, Freers, TypeOK, DaemonTypeOK, Loading, Detach,
     ForkFails, LoadPrivkey, LoadPubkey, LoadKeyFails, LoadTrustedKeys, tuntap_open,
     tuntap_open_fails, ExecuteScript, Boot, Fail, vars
<1>3. CASE Starting
  BY <1>3 DEF DInv, Started, Listed, Loop, Freers, TypeOK, DaemonTypeOK, Starting, StartTun,
     Bind, Serve, Boot, vars
<1>4. CASE Connecting
  BY <1>4 DEF DInv, Started, Listed, Loop, Freers, TypeOK, DaemonTypeOK, Connecting,
     ConnectFails, Connect, Boot
<1>5. CASE InterruptDaemon
  BY <1>5 DEF DInv, Started, Listed, Loop, Freers, TypeOK, DaemonTypeOK, InterruptDaemon,
     Interrupt
<1>6. CASE JoinEnds \/ ExitFailed
  BY <1>6 DEF DInv, Started, Listed, Loop, Freers, TypeOK, DaemonTypeOK, JoinEnds, Joining,
     ExitFailed, Main, boots
<1>7. CASE ServerLoop
  BY <1>7 DEF DInv, Started, Listed, Loop, Freers, TypeOK, DaemonTypeOK, ServerLoop,
     PollInterrupted, LoopEnds, Accept, Main, boots
<1>8. CASE Closing
  BY <1>8 DEF DInv, Started, Listed, Loop, Freers, TypeOK, DaemonTypeOK, Closing, FreeKeys,
     FreeConfig, close_vpnd, DestroyDead, DestroyAlive, Wait, WaitEnds, CancelTun, Exit,
     Free, free_config_dir, Main, boots
<1>9. CASE (Handler \/ TunSent \/ TunEnds) /\ UNCHANGED boots
  BY <1>9 DEF DInv, Started, Listed, Loop, Freers, TypeOK, DaemonTypeOK, Handler,
     BroadcastClose, HandlerEnds, TunSent, TunEnds, boots
<1>10. ASSUME NEW p \in Peer, Threads(p) \/ ((RemoteCloses(p) \/ TunSends(p)) /\ UNCHANGED boots)
      PROVE  Started'
  BY <1>10 DEF DInv, Started, Listed, Loop, Freers, TypeOK, DaemonTypeOK, Threads, ConnDies,
     ConnExits, RemoteCloses, TunSends, boots
<1> QED
  BY <1>1, <1>2, <1>3, <1>4, <1>5, <1>6, <1>7, <1>8, <1>9, <1>10 DEF DaemonNext

LEMMA KeysStep ==
  ASSUME DInv, DaemonNext
  PROVE  KeysLoaded'
<1>1. CASE CommandLine
  BY <1>1 DEF DInv, Started, KeysLoaded, Opening, DaemonTypeOK, CommandLine, Option,
     OptionExits, EndOptions, Boot, free_config_dir, vars
<1>2. CASE Loading
  BY <1>2 DEF DInv, Started, KeysLoaded, Opening, DaemonTypeOK, Loading, Detach, ForkFails,
     LoadPrivkey, LoadPubkey, LoadKeyFails, LoadTrustedKeys, tuntap_open, tuntap_open_fails,
     ExecuteScript, Boot, Fail, vars
<1>3. CASE Starting
  BY <1>3 DEF DInv, Started, KeysLoaded, Opening, DaemonTypeOK, Starting, StartTun, Bind,
     Serve, Boot, vars
<1>4. CASE Connecting
  BY <1>4 DEF DInv, Started, KeysLoaded, Opening, DaemonTypeOK, Connecting, ConnectFails,
     Connect, Boot
<1>5. CASE InterruptDaemon
  BY <1>5 DEF DInv, Started, KeysLoaded, Opening, DaemonTypeOK, InterruptDaemon, Interrupt
<1>6. CASE JoinEnds \/ ExitFailed
  BY <1>6 DEF DInv, Started, KeysLoaded, Opening, DaemonTypeOK, JoinEnds, Joining,
     ExitFailed, Main, boots
<1>7. CASE ServerLoop
  BY <1>7 DEF DInv, Started, KeysLoaded, Opening, DaemonTypeOK, ServerLoop, PollInterrupted,
     LoopEnds, Accept, Main, boots
<1>8. CASE Closing
  BY <1>8 DEF DInv, Started, KeysLoaded, Opening, DaemonTypeOK, Closing, FreeKeys,
     FreeConfig, close_vpnd, DestroyDead, DestroyAlive, Wait, WaitEnds, CancelTun, Exit,
     Free, free_config_dir, Main, boots
<1>9. CASE (Handler \/ TunSent \/ TunEnds) /\ UNCHANGED boots
  BY <1>9 DEF DInv, Started, KeysLoaded, Opening, DaemonTypeOK, Handler, BroadcastClose,
     HandlerEnds, TunSent, TunEnds, boots
<1>10. ASSUME NEW p \in Peer, Threads(p) \/ ((RemoteCloses(p) \/ TunSends(p)) /\ UNCHANGED boots)
      PROVE  KeysLoaded'
  BY <1>10 DEF DInv, Started, KeysLoaded, Opening, DaemonTypeOK, Threads, ConnDies,
     ConnExits, RemoteCloses, TunSends, boots
<1> QED
  BY <1>1, <1>2, <1>3, <1>4, <1>5, <1>6, <1>7, <1>8, <1>9, <1>10 DEF DaemonNext

LEMMA FreeingStep ==
  ASSUME DInv, DaemonNext
  PROVE  Freeing'
<1>1. CASE CommandLine
  BY <1>1 DEF DInv, Started, KeysLoaded, Freeing, Loop, Freers, Opening, DaemonTypeOK,
     CommandLine, Option, OptionExits, EndOptions, Boot, free_config_dir, vars
<1>2. CASE Loading
  <2>1. CASE LoadKeyFails
    BY <1>2, <2>1 DEF DInv, Started, KeysLoaded, Freeing, Loop, Freers, LoadKeyFails, Fail
  <2>2. CASE tuntap_open_fails
    BY <1>2, <2>2 DEF DInv, Started, KeysLoaded, Freeing, Loop, Freers, tuntap_open_fails, Fail
  <2>3. ASSUME ~LoadKeyFails, ~tuntap_open_fails PROVE Freeing'
    <3>1. /\ boot # "up" /\ boot' # "up"
          /\ UNCHANGED <<main, keys_freed, config_dir>>
      BY <1>2, <2>3 DEF Loading, Detach, ForkFails, LoadPrivkey, LoadPubkey, LoadTrustedKeys, tuntap_open, ExecuteScript, Boot, vars
    <3> QED
      BY <3>1 DEF DInv, Started, Freeing, Loop, Freers
  <2> QED
    BY <2>1, <2>2, <2>3
<1>3. CASE Starting
  BY <1>3 DEF DInv, Started, KeysLoaded, Freeing, Loop, Freers, Opening, DaemonTypeOK,
     Starting, StartTun, Bind, Serve, Boot, vars
<1>4. CASE Connecting
  BY <1>4 DEF DInv, Started, KeysLoaded, Freeing, Loop, Freers, Opening, DaemonTypeOK,
     Connecting, ConnectFails, Connect, Boot
<1>5. CASE InterruptDaemon
  BY <1>5 DEF DInv, Started, KeysLoaded, Freeing, Loop, Freers, Opening, DaemonTypeOK,
     InterruptDaemon, Interrupt
<1>6. CASE JoinEnds \/ ExitFailed
  BY <1>6 DEF DInv, Started, KeysLoaded, Freeing, Loop, Freers, Opening, DaemonTypeOK,
     JoinEnds, Joining, ExitFailed, Main, boots
<1>7. CASE ServerLoop
  BY <1>7 DEF DInv, Started, KeysLoaded, Freeing, Loop, Freers, Opening, DaemonTypeOK,
     ServerLoop, PollInterrupted, LoopEnds, Accept, Main, boots
<1>8. CASE Closing
  BY <1>8 DEF DInv, Started, KeysLoaded, Freeing, Loop, Freers, Opening, DaemonTypeOK,
     Closing, FreeKeys, FreeConfig, close_vpnd, DestroyDead, DestroyAlive, Wait, WaitEnds,
     CancelTun, Exit, Free, free_config_dir, Main, boots
<1>9. CASE (Handler \/ TunSent \/ TunEnds) /\ UNCHANGED boots
  BY <1>9 DEF DInv, Started, KeysLoaded, Freeing, Loop, Freers, Opening, DaemonTypeOK,
     Handler, BroadcastClose, HandlerEnds, TunSent, TunEnds, boots
<1>10. ASSUME NEW p \in Peer, Threads(p) \/ ((RemoteCloses(p) \/ TunSends(p)) /\ UNCHANGED boots)
      PROVE  Freeing'
  BY <1>10 DEF DInv, Started, KeysLoaded, Freeing, Loop, Freers, Opening, DaemonTypeOK,
     Threads, ConnDies, ConnExits, RemoteCloses, TunSends, boots
<1> QED
  BY <1>1, <1>2, <1>3, <1>4, <1>5, <1>6, <1>7, <1>8, <1>9, <1>10 DEF DaemonNext

LEMMA JoinedStep ==
  ASSUME DInv, DaemonNext
  PROVE  Joined'
<1>1. CASE CommandLine
  BY <1>1 DEF DInv, Started, Joined, Listed, Loop, TypeOK, DaemonTypeOK, CommandLine,
     Option, OptionExits, EndOptions, Boot, free_config_dir, vars
<1>2. CASE Loading
  BY <1>2 DEF DInv, Started, Joined, Listed, Loop, TypeOK, DaemonTypeOK, Loading, Detach,
     ForkFails, LoadPrivkey, LoadPubkey, LoadKeyFails, LoadTrustedKeys, tuntap_open,
     tuntap_open_fails, ExecuteScript, Boot, Fail, vars
<1>3. CASE Starting
  BY <1>3 DEF DInv, Started, Joined, Listed, Loop, TypeOK, DaemonTypeOK, Starting, StartTun,
     Bind, Serve, Boot, vars
<1>4. CASE Connecting
  BY <1>4 DEF DInv, Started, Joined, Listed, Loop, TypeOK, DaemonTypeOK, Connecting,
     ConnectFails, Connect, Boot
<1>5. CASE InterruptDaemon
  BY <1>5 DEF DInv, Started, Joined, Listed, Loop, TypeOK, DaemonTypeOK, InterruptDaemon,
     Interrupt
<1>6. CASE JoinEnds \/ ExitFailed
  BY <1>6 DEF DInv, Started, Joined, Listed, Loop, TypeOK, DaemonTypeOK, JoinEnds, Joining,
     ExitFailed, Main, boots
<1>7. CASE ServerLoop
  BY <1>7 DEF DInv, Started, Joined, Listed, Loop, TypeOK, DaemonTypeOK, ServerLoop,
     PollInterrupted, LoopEnds, Accept, Main, boots
<1>8. CASE Closing
  BY <1>8 DEF DInv, Started, Joined, Listed, Loop, TypeOK, DaemonTypeOK, Closing, FreeKeys,
     FreeConfig, close_vpnd, DestroyDead, DestroyAlive, Wait, WaitEnds, CancelTun, Exit,
     Free, free_config_dir, Main, boots
<1>9. CASE (Handler \/ TunSent \/ TunEnds) /\ UNCHANGED boots
  BY <1>9 DEF DInv, Started, Joined, Listed, Loop, TypeOK, DaemonTypeOK, Handler,
     BroadcastClose, HandlerEnds, TunSent, TunEnds, boots
<1>10. ASSUME NEW p \in Peer, Threads(p) \/ ((RemoteCloses(p) \/ TunSends(p)) /\ UNCHANGED boots)
      PROVE  Joined'
  BY <1>10 DEF DInv, Started, Joined, Listed, Loop, TypeOK, DaemonTypeOK, Threads, ConnDies,
     ConnExits, RemoteCloses, TunSends, boots
<1> QED
  BY <1>1, <1>2, <1>3, <1>4, <1>5, <1>6, <1>7, <1>8, <1>9, <1>10 DEF DaemonNext

LEMMA Flags ==
  ASSUME DInv
  PROVE  /\ listening \in BOOLEAN /\ if_fd \in BOOLEAN
         /\ server \in BOOLEAN /\ early \in BOOLEAN /\ failed \in BOOLEAN
BY DEF DInv, TypeOK, DaemonTypeOK

LEMMA DeviceStep ==
  ASSUME DInv, DaemonNext
  PROVE  Device'
<1>1. CASE CommandLine
  <2>1. /\ boot = "options" /\ boot' \in {"options", "gone", "fork"} /\ handler = "none"
        /\ UNCHANGED <<main, handler, listening>>
    BY <1>1 DEF CommandLine, Option, OptionExits, EndOptions, Boot, vars
  <2> QED
    BY <2>1 DEF DInv, Started, Device, Opening
<1>2. CASE Loading
  BY <1>2, Flags DEF DInv, Started, Device, Opening, Loading, Detach, ForkFails,
     LoadPrivkey, LoadPubkey, LoadKeyFails, LoadTrustedKeys, tuntap_open, tuntap_open_fails,
     ExecuteScript, Boot, Fail, vars
<1>3. CASE Starting
  <2>1. CASE StartTun
    BY <2>1, Flags DEF DInv, Started, Device, Opening, StartTun, Boot
  <2>2. ASSUME NEW family, Bind(family) PROVE Device'
    BY <2>2, Flags DEF DInv, Started, Device, Opening, Bind, Boot
  <2>3. CASE Serve
    BY <2>3, Flags DEF DInv, Started, Device, Opening, Serve, Boot, vars
  <2> QED
    BY <1>3, <2>1, <2>2, <2>3 DEF Starting
<1>4. CASE Connecting
  BY <1>4, Flags DEF DInv, Started, Device, Opening, Connecting, ConnectFails, Connect, Boot
<1>5. CASE InterruptDaemon
  BY <1>5, Flags DEF DInv, Started, Device, Opening, InterruptDaemon, Interrupt
<1>6. CASE JoinEnds \/ ExitFailed
  BY <1>6, Flags DEF DInv, Started, Device, Opening, JoinEnds, Joining, ExitFailed, Main,
     boots
<1>7. CASE ServerLoop
  BY <1>7, Flags DEF DInv, Started, Device, Opening, ServerLoop, PollInterrupted, LoopEnds,
     Accept, Main, boots
<1>8. CASE Closing
  <2>1. main # "poll" /\ main' # "poll" /\ UNCHANGED <<handler, boot, server, early, listening>>
    BY <1>8 DEF Closing, FreeKeys, FreeConfig, close_vpnd, DestroyDead, DestroyAlive, Wait,
       WaitEnds, CancelTun, Exit, Main, boots
  <2> QED
    BY <2>1 DEF DInv, Started, Device, Opening
<1>9. CASE (Handler \/ TunSent \/ TunEnds) /\ UNCHANGED boots
  BY <1>9, Flags DEF DInv, Started, Device, Opening, Handler, BroadcastClose, HandlerEnds,
     TunSent, TunEnds, boots
<1>10. ASSUME NEW p \in Peer, Threads(p) \/ ((RemoteCloses(p) \/ TunSends(p)) /\ UNCHANGED boots)
      PROVE  Device'
  BY <1>10, Flags DEF DInv, Started, Device, Opening, Threads, ConnDies, ConnExits,
     RemoteCloses, TunSends, boots
<1> QED
  BY <1>1, <1>2, <1>3, <1>4, <1>5, <1>6, <1>7, <1>8, <1>9, <1>10 DEF DaemonNext

LEMMA DaemonTypeStep ==
  ASSUME DInv, DaemonNext
  PROVE  DaemonTypeOK'
<1>1. CASE CommandLine
  BY <1>1 DEF DInv, Freeing, Started, Loop, Freers, TypeOK, DaemonTypeOK, CommandLine,
     Option, OptionExits, EndOptions, Boot, free_config_dir, vars
<1>2. CASE Loading
  BY <1>2 DEF DInv, Freeing, Started, Loop, Freers, TypeOK, DaemonTypeOK, Loading, Detach,
     ForkFails, LoadPrivkey, LoadPubkey, LoadKeyFails, LoadTrustedKeys, tuntap_open,
     tuntap_open_fails, ExecuteScript, Boot, Fail, vars
<1>3. CASE Starting
  BY <1>3 DEF DInv, Freeing, Started, Loop, Freers, TypeOK, DaemonTypeOK, Starting,
     StartTun, Bind, Serve, Boot, vars
<1>4. CASE Connecting
  BY <1>4 DEF DInv, Freeing, Started, Loop, Freers, TypeOK, DaemonTypeOK, Connecting,
     ConnectFails, Connect, Boot
<1>5. CASE InterruptDaemon
  BY <1>5 DEF DInv, Freeing, Started, Loop, Freers, TypeOK, DaemonTypeOK, InterruptDaemon,
     Interrupt
<1>6. CASE JoinEnds \/ ExitFailed
  BY <1>6 DEF DInv, Freeing, Started, Loop, Freers, TypeOK, DaemonTypeOK, JoinEnds, Joining,
     ExitFailed, Main, boots
<1>7. CASE ServerLoop
  BY <1>7 DEF DInv, Freeing, Started, Loop, Freers, TypeOK, DaemonTypeOK, ServerLoop,
     PollInterrupted, LoopEnds, Accept, Main, boots
<1>8. CASE Closing
  BY <1>8 DEF DInv, Freeing, Started, Loop, Freers, TypeOK, DaemonTypeOK, Closing, FreeKeys,
     FreeConfig, close_vpnd, DestroyDead, DestroyAlive, Wait, WaitEnds, CancelTun, Exit,
     Free, free_config_dir, Main, boots
<1>9. CASE (Handler \/ TunSent \/ TunEnds) /\ UNCHANGED boots
  BY <1>9 DEF DInv, Freeing, Started, Loop, Freers, TypeOK, DaemonTypeOK, Handler,
     BroadcastClose, HandlerEnds, TunSent, TunEnds, boots
<1>10. ASSUME NEW p \in Peer, Threads(p) \/ ((RemoteCloses(p) \/ TunSends(p)) /\ UNCHANGED boots)
      PROVE  DaemonTypeOK'
  BY <1>10 DEF DInv, Freeing, Started, Loop, Freers, TypeOK, DaemonTypeOK, Threads,
     ConnDies, ConnExits, RemoteCloses, TunSends, boots
<1> QED
  BY <1>1, <1>2, <1>3, <1>4, <1>5, <1>6, <1>7, <1>8, <1>9, <1>10 DEF DaemonNext

LEMMA TypeStep ==
  ASSUME DInv, DaemonNext
  PROVE  TypeOK'
<1>0. TypeOK
  BY DEF DInv
<1> USE <1>0
<1>1. CASE CommandLine
  BY <1>1 DEF TypeOK, CommandLine, Option, OptionExits, EndOptions, Boot,
     free_config_dir, vars
<1>2. CASE Loading
  <2>1. CASE LoadKeyFails
    BY <2>1 DEF LoadKeyFails, Fail, TypeOK
  <2>2. CASE tuntap_open
    BY <2>2 DEF tuntap_open, TypeOK
  <2>3. CASE tuntap_open_fails
    BY <2>3 DEF tuntap_open_fails, Fail, TypeOK
  <2>4. ASSUME ~LoadKeyFails, ~tuntap_open, ~tuntap_open_fails PROVE TypeOK'
    <3>1. UNCHANGED vars
      BY <1>2, <2>4 DEF Loading, Detach, ForkFails, LoadPrivkey, LoadPubkey, LoadTrustedKeys,
         ExecuteScript
    <3> QED
      BY <3>1 DEF TypeOK, vars
  <2> QED
    BY <2>1, <2>2, <2>3, <2>4
<1>3. CASE Starting
  BY <1>3 DEF TypeOK, Starting, StartTun, Bind, Serve, Boot, vars
<1>4. CASE Connecting
  <2>1. CASE ConnectFails
    BY <2>1 DEF ConnectFails, TypeOK
  <2>2. ASSUME NEW p \in Peer, Connect(p) PROVE TypeOK'
    BY <2>2 DEF Connect, TypeOK
  <2> QED
    BY <1>4, <2>1, <2>2 DEF Connecting
<1>5. CASE InterruptDaemon
  <2>1. Interrupt
    BY <1>5 DEF InterruptDaemon
  <2>2. interrupts' \in 0..MaxInterrupts /\ at' \in Nat \ {0}
    BY <2>1, ShutdownAssumption DEF Interrupt, TypeOK
  <2> QED
    BY <2>1, <2>2 DEF Interrupt, TypeOK
<1>6. CASE JoinEnds \/ ExitFailed
  BY <1>6 DEF TypeOK, JoinEnds, Joining, ExitFailed, Main, boots
<1>7. CASE ServerLoop
  <2>1. CASE PollInterrupted
    BY <2>1 DEF PollInterrupted, Main, TypeOK
  <2>2. CASE LoopEnds
    BY <2>2 DEF LoopEnds, Main, TypeOK
  <2>3. ASSUME NEW p \in Peer, Accept(p) PROVE TypeOK'
    BY <2>3 DEF Accept, Main, TypeOK
  <2> QED
    BY <1>7, <2>1, <2>2, <2>3 DEF ServerLoop
<1>8. CASE Closing
  <2>1. CASE FreeKeys
    BY <2>1 DEF FreeKeys, Main, TypeOK
  <2>2. CASE close_vpnd
    <3>1. peers' \in Seq(Peer) /\ rest' \in Seq(Peer)
      BY <2>2 DEF close_vpnd, TypeOK
    <3> QED
      BY <2>2, <3>1 DEF close_vpnd, Main, TypeOK
  <2>3. CASE DestroyDead \/ WaitEnds
    <3>1. rest # <<>>
      BY <2>3 DEF DestroyDead, WaitEnds, Main, DInv, Left, Freers
    <3>2. Head(rest) \in Peer /\ Tail(rest) \in Seq(Peer)
      BY <3>1 DEF TypeOK
    <3>3. freed' \in [Peer -> Nat] /\ rest' \in Seq(Peer)
      <4>1. freed' = [freed EXCEPT ![Head(rest)] = freed[Head(rest)] + 1] /\ rest' = Tail(rest)
        BY <2>3 DEF DestroyDead, WaitEnds, Free
      <4> QED
        BY <3>2, <4>1 DEF TypeOK
    <3> QED
      BY <2>3, <3>3 DEF DestroyDead, WaitEnds, Main, TypeOK
  <2>4. CASE DestroyAlive
    BY <2>4, ShutdownAssumption DEF DestroyAlive, Main, TypeOK
  <2>5. CASE Wait
    BY <2>5, ShutdownAssumption DEF Wait, Main, TypeOK
  <2>6. CASE CancelTun
    BY <2>6 DEF CancelTun, Main, TypeOK
  <2>7. CASE Exit
    BY <2>7 DEF Exit, Main, TypeOK
  <2> QED
    BY <1>8, <2>1, <2>2, <2>3, <2>4, <2>5, <2>6, <2>7 DEF Closing
<1>9. CASE (Handler \/ TunSent \/ TunEnds) /\ UNCHANGED boots
  <2>1. CASE BroadcastClose
    <3>1. peers[at] \in Peer /\ at + 1 \in Nat \ {0}
      BY <2>1 DEF BroadcastClose, TypeOK
    <3>2. remote' \in [Peer -> {"open", "told", "closed"}]
      BY <2>1, <3>1 DEF BroadcastClose, TypeOK
    <3> QED
      BY <2>1, <3>1, <3>2 DEF BroadcastClose, TypeOK
  <2>2. CASE HandlerEnds
    BY <2>2 DEF HandlerEnds, TypeOK
  <2>3. CASE TunSent \/ TunEnds
    BY <2>3 DEF TunSent, TunEnds, TypeOK
  <2> QED
    BY <1>9, <2>1, <2>2, <2>3 DEF Handler
<1>10. ASSUME NEW p \in Peer, Threads(p) \/ ((RemoteCloses(p) \/ TunSends(p)) /\ UNCHANGED boots)
      PROVE  TypeOK'
  BY <1>10 DEF TypeOK, Threads, ConnDies, ConnExits, RemoteCloses, TunSends, boots
<1> QED
  BY <1>1, <1>2, <1>3, <1>4, <1>5, <1>6, <1>7, <1>8, <1>9, <1>10 DEF DaemonNext

-----------------------------------------------------------------------------
(***************************************************************************)
(* The lists of peers.                                                     *)
(***************************************************************************)

LEMMA EmptyOnce == Once(<<>>) /\ Range(<<>>) = {}
BY DEF Once, Range

\* A connection that is accepted is added to a list that does not have it.
LEMMA AppendOnce ==
  ASSUME NEW list \in Seq(Peer), Once(list), NEW p \in Peer, p \notin Range(list)
  PROVE  Once(Append(list, p)) /\ Range(Append(list, p)) = Range(list) \cup {p}
<1> DEFINE longer == Append(list, p)
<1>1. /\ Len(longer) = Len(list) + 1 /\ DOMAIN longer = 1..Len(list) + 1
      /\ DOMAIN list = 1..Len(list)
      /\ \A i \in 1..Len(list) : longer[i] = list[i]
      /\ longer[Len(list) + 1] = p
  OBVIOUS
<1>2. \A i \in 1..Len(list) : list[i] # p
  BY <1>1 DEF Range
<1> HIDE DEF longer
<1>3. Once(longer)
  BY <1>1, <1>2 DEF Once
<1>4. Range(longer) = Range(list) \cup {p}
  BY <1>1 DEF Range
<1> QED
  BY <1>3, <1>4 DEF longer

\* A peer that is freed is the head of the list, and not in the rest of it.
LEMMA TailOnce ==
  ASSUME NEW list \in Seq(Peer), list # <<>>, Once(list)
  PROVE  /\ Head(list) \in Peer /\ Head(list) \in Range(list)
         /\ Once(Tail(list)) /\ Range(Tail(list)) = Range(list) \ {Head(list)}
<1> DEFINE shorter == Tail(list)
<1>1. /\ Len(list) \in Nat \ {0}
      /\ Len(shorter) = Len(list) - 1 /\ DOMAIN shorter = 1..Len(list) - 1
      /\ DOMAIN list = 1..Len(list)
      /\ \A i \in 1..Len(list) - 1 : shorter[i] = list[i + 1]
      /\ Head(list) = list[1] /\ list[1] \in Peer
  OBVIOUS
<1> HIDE DEF shorter
<1>2. Once(shorter)
  BY <1>1 DEF Once
<1>3. \A i \in 1..Len(list) : i # 1 => list[i] # list[1]
  BY <1>1 DEF Once
<1>4. ASSUME NEW p PROVE p \in Range(shorter) <=> p \in Range(list) /\ p # Head(list)
  <2>1. ASSUME NEW i \in 1..Len(list) - 1, p = shorter[i]
        PROVE  p \in Range(list) /\ p # Head(list)
    BY <1>1, <1>3, <2>1 DEF Range
  <2>2. ASSUME NEW i \in 1..Len(list), p = list[i], p # Head(list) PROVE p \in Range(shorter)
    <3>1. i - 1 \in 1..Len(list) - 1 /\ p = shorter[i - 1]
      BY <1>1, <2>2
    <3> QED
      BY <1>1, <3>1 DEF Range
  <2> QED
    BY <1>1, <2>1, <2>2 DEF Range
<1>5. Head(list) \in Peer /\ Head(list) \in Range(list)
  BY <1>1 DEF Range
<1> QED
  BY <1>2, <1>4, <1>5 DEF shorter

AllLists == Listed /\ Left /\ AllFreed

\* Most steps leave the lists alone, and the main thread in the same part of the end.
LEMMA QuietStep ==
  ASSUME DInv, UNCHANGED <<peers, rest, freed>>,
         \A p \in Peer : conn'[p] = "none" <=> conn[p] = "none",
         \/ main' = main
         \/ {main, main'} \subseteq Loop
         \/ {main, main'} \subseteq {"cancel", "exit", "exited"}
  PROVE  AllLists'
<1>1. CASE main \in Loop
  BY <1>1 DEF DInv, AllLists, Listed, Left, AllFreed, Loop, Freers
<1>2. CASE main \in Freers
  BY <1>2 DEF DInv, AllLists, Listed, Left, AllFreed, Loop, Freers
<1>3. CASE main \in {"cancel", "exit", "exited"}
  BY <1>3 DEF DInv, AllLists, Listed, Left, AllFreed, Loop, Freers
<1> QED
  BY <1>1, <1>2, <1>3 DEF DInv, TypeOK, Loop, Freers

\* Accept, Connect
LEMMA AcceptStep ==
  ASSUME DInv, NEW p \in Peer, main = "poll", main' = "poll", conn[p] = "none",
         peers' = Append(peers, p), conn' = [conn EXCEPT ![p] = "recv"],
         UNCHANGED <<rest, freed>>
  PROVE  AllLists'
<1>1. /\ peers \in Seq(Peer) /\ Once(peers) /\ rest = <<>>
      /\ \A q \in Peer : freed[q] = 0 /\ (q \in Range(peers) <=> conn[q] # "none")
  BY DEF DInv, TypeOK, Listed, Loop
<1>2. Once(peers') /\ Range(peers') = Range(peers) \cup {p}
  BY <1>1, AppendOnce
<1>3. \A q \in Peer : conn'[q] # "none" <=> conn[q] # "none" \/ q = p
  BY DEF DInv, TypeOK
<1>4. \A q \in Peer : q \in Range(peers') <=> conn'[q] # "none"
  BY <1>1, <1>2, <1>3
<1>5. Listed'
  <2>1. Range(peers)' = Range(peers') /\ Once(peers)' = Once(peers')
    BY DEF Range, Once
  <2> QED
    BY <1>1, <1>2, <1>4, <2>1 DEF Listed
<1> QED
  BY <1>5 DEF AllLists, Left, AllFreed, Freers

\* close_vpnd
LEMMA CloseStep ==
  ASSUME DInv, close_vpnd
  PROVE  AllLists'
<1>1. /\ Once(peers)
      /\ \A q \in Peer : freed[q] = 0 /\ (q \in Range(peers) <=> conn[q] # "none")
  BY DEF DInv, Listed, Loop, close_vpnd, Main
<1>2. main' = "destroy" /\ rest' = peers /\ peers' = <<>> /\ UNCHANGED <<conn, freed>>
  BY DEF close_vpnd, Main
<1>3. Left'
  BY <1>1, <1>2 DEF Left, Once, Range
<1> QED
  BY <1>2, <1>3 DEF AllLists, Listed, AllFreed, Loop

\* DestroyDead, WaitEnds
LEMMA FreeStep ==
  ASSUME DInv, DestroyDead \/ WaitEnds
  PROVE  AllLists'
<1>1. /\ main \in Freers /\ main' = "destroy" /\ Free(Head(rest)) /\ rest # <<>>
      /\ UNCHANGED <<peers, conn>>
  BY DEF DInv, Left, Freers, DestroyDead, WaitEnds, Main
<1>2. /\ rest \in Seq(Peer) /\ Once(rest) /\ peers = <<>>
      /\ \A p \in Peer :
           /\ freed[p] = IF conn[p] = "none" \/ p \in Range(rest) THEN 0 ELSE 1
           /\ p \in Range(rest) => conn[p] # "none"
  BY <1>1 DEF DInv, Left, TypeOK
<1> DEFINE h == Head(rest)
<1>3. h \in Peer /\ h \in Range(rest) /\ Once(rest') /\ Range(rest') = Range(rest) \ {h}
  BY <1>1, <1>2, TailOnce DEF Free
<1>4. \A p \in Peer : freed'[p] = IF p = h THEN freed[p] + 1 ELSE freed[p]
  BY <1>1, <1>3 DEF Free, DInv, TypeOK
<1> HIDE DEF h
<1>5. \A p \in Peer :
        /\ freed'[p] = IF conn[p] = "none" \/ p \in Range(rest') THEN 0 ELSE 1
        /\ p \in Range(rest') => conn[p] # "none"
  BY <1>2, <1>3, <1>4
<1>6. Left'
  <2>1. Range(rest)' = Range(rest') /\ Once(rest)' = Once(rest')
    BY DEF Range, Once
  <2> QED
    BY <1>1, <1>2, <1>3, <1>5, <2>1 DEF Left
<1> QED
  BY <1>1, <1>6 DEF AllLists, Listed, AllFreed, Loop

\* DestroyAlive, FreeKeys
LEMMA AliveStep ==
  ASSUME DInv, DestroyAlive
  PROVE  AllLists'
BY DEF DInv, AllLists, Listed, Left, AllFreed, Loop, Freers, DestroyAlive, Main, Once, Range

LEMMA KeysFreedStep ==
  ASSUME DInv, FreeKeys
  PROVE  AllLists'
<1>1. /\ main = "destroy" /\ main' = "cancel" /\ rest = <<>>
      /\ UNCHANGED <<conn, freed>>
  BY DEF FreeKeys, Main
<1>2. \A p \in Peer : freed[p] = IF conn[p] = "none" THEN 0 ELSE 1
  BY <1>1, EmptyOnce DEF DInv, Left, Freers
<1> QED
  BY <1>1, <1>2 DEF AllLists, Listed, Left, AllFreed, Loop, Freers

LEMMA ListsStep ==
  ASSUME DInv, DaemonNext
  PROVE  AllLists'
<1>1. CASE CommandLine
  <2>1. UNCHANGED vars
    BY <1>1 DEF CommandLine, Option, OptionExits, EndOptions
  <2> QED
    BY <2>1, QuietStep DEF vars
<1>2. CASE Loading
  <2>1. boot # "up" /\ UNCHANGED <<peers, rest, freed, conn>> /\ main' \in {main, "close"}
    BY <1>2 DEF Loading, Detach, ForkFails, LoadPrivkey, LoadPubkey, LoadKeyFails,
       LoadTrustedKeys, tuntap_open, tuntap_open_fails, ExecuteScript, Boot, Fail, vars
  <2>2. main = "poll"
    BY <2>1 DEF DInv, Started
  <2> QED
    BY <2>1, <2>2, QuietStep DEF Loop
<1>3. CASE Starting
  <2>1. UNCHANGED <<peers, rest, freed, conn, main>>
    BY <1>3 DEF Starting, StartTun, Bind, Serve, vars
  <2> QED
    BY <2>1, QuietStep
<1>4. CASE Connecting
  <2>1. main = "poll" /\ \A p \in Peer : conn[p] = "none"
    BY <1>4 DEF Connecting, ConnectFails, Connect, Boot, DInv, Started
  <2>2. CASE ConnectFails
    BY <2>1, <2>2, QuietStep DEF ConnectFails, Loop
  <2>3. ASSUME NEW p \in Peer, Connect(p) PROVE AllLists'
    <3>1. peers = <<>> /\ main' = "poll"
      BY <2>1, <2>3 DEF Connect, DInv, Started, Boot
    <3>2. peers' = Append(peers, p)
      BY <2>3, <3>1 DEF Connect
    <3> QED
      BY <2>1, <2>3, <3>1, <3>2, AcceptStep DEF Connect
  <2> QED
    BY <1>4, <2>2, <2>3 DEF Connecting
<1>5. CASE InterruptDaemon
  BY <1>5, QuietStep DEF InterruptDaemon, Interrupt
<1>6. CASE JoinEnds \/ ExitFailed
  BY <1>6, QuietStep DEF JoinEnds, Joining, ExitFailed, Main, Loop
<1>7. CASE ServerLoop
  <2>1. CASE PollInterrupted \/ LoopEnds
    BY <2>1, QuietStep DEF PollInterrupted, LoopEnds, Main, Loop
  <2>2. ASSUME NEW p \in Peer, Accept(p) PROVE AllLists'
    BY <2>2, AcceptStep DEF Accept, Main
  <2> QED
    BY <1>7, <2>1, <2>2 DEF ServerLoop
<1>8. CASE Closing
  <2>1. CASE Wait \/ CancelTun \/ Exit
    BY <2>1, QuietStep DEF Wait, CancelTun, Exit, Main
  <2> QED
    BY <1>8, <2>1, CloseStep, FreeStep, AliveStep, KeysFreedStep DEF Closing
<1>9. CASE (Handler \/ TunSent \/ TunEnds) /\ UNCHANGED boots
  BY <1>9, QuietStep DEF Handler, BroadcastClose, HandlerEnds, TunSent, TunEnds
<1>10. ASSUME NEW p \in Peer, Threads(p) \/ ((RemoteCloses(p) \/ TunSends(p)) /\ UNCHANGED boots)
      PROVE  AllLists'
  <2>1. UNCHANGED <<peers, rest, freed, main>>
    BY <1>10 DEF Threads, ConnDies, ConnExits, RemoteCloses, TunSends
  <2>2. \A q \in Peer : conn'[q] = "none" <=> conn[q] = "none"
    BY <1>10 DEF Threads, ConnDies, ConnExits, RemoteCloses, TunSends, DInv, TypeOK
  <2> QED
    BY <2>1, <2>2, QuietStep
<1> QED
  BY <1>1, <1>2, <1>3, <1>4, <1>5, <1>6, <1>7, <1>8, <1>9, <1>10 DEF DaemonNext

LEMMA DInvInit ==
  ASSUME DaemonInit
  PROVE  DInv
<1>1. TypeOK /\ DaemonTypeOK
  <2>1. <<>> \in Seq(Peer)
    OBVIOUS
  <2>2. waited \in 0..MaxWait /\ interrupts \in 0..MaxInterrupts /\ at \in Nat \ {0}
    BY ShutdownAssumption DEF DaemonInit
  <2>3. freed \in [Peer -> Nat] /\ keys_freed \in Nat
    BY DEF DaemonInit
  <2>4. /\ alive \in [Peer -> BOOLEAN]
        /\ conn \in [Peer -> {"none", "recv", "leaving", "exited"}]
        /\ remote \in [Peer -> {"open", "told", "closed"}]
    BY DEF DaemonInit
  <2>5. DaemonTypeOK
    BY DEF DaemonInit, DaemonTypeOK
  <2> QED
    BY <2>1, <2>2, <2>3, <2>4, <2>5 DEF DaemonInit, TypeOK
<1>2. Started /\ KeysLoaded /\ Freeing /\ Joined /\ Device
  BY DEF DaemonInit, Started, KeysLoaded, Freeing, Joined, Device, Loop, Freers, Opening
<1>3. Listed /\ Left /\ AllFreed
  BY EmptyOnce DEF DaemonInit, Listed, Left, AllFreed, Loop, Freers
<1> QED
  BY <1>1, <1>2, <1>3 DEF DInv

LEMMA DInvStep ==
  ASSUME DInv, [DaemonNext]_dvars
  PROVE  DInv'
<1>1. CASE DaemonNext
  BY <1>1, TypeStep, DaemonTypeStep, StartedStep, KeysStep, FreeingStep, ListsStep,
     JoinedStep, DeviceStep DEF DInv, AllLists
<1>2. CASE UNCHANGED dvars
  <2>1. TypeOK' /\ DaemonTypeOK'
    <3>1. TypeOK'
      BY <1>2 DEF dvars, vars, DInv, TypeOK
    <3>2. DaemonTypeOK'
      BY <1>2 DEF dvars, boots, DInv, DaemonTypeOK
    <3> QED
      BY <3>1, <3>2
  <2>2. Started' /\ KeysLoaded' /\ Freeing' /\ Joined' /\ Device'
    BY <1>2 DEF dvars, vars, boots, DInv, Started, KeysLoaded, Freeing, Joined, Device
  <2>3. Listed' /\ Left' /\ AllFreed'
    BY <1>2 DEF dvars, vars, boots, DInv, Listed, Left, AllFreed, Once, Range
  <2> QED
    BY <2>1, <2>2, <2>3 DEF DInv
<1> QED
  BY <1>1, <1>2

-----------------------------------------------------------------------------
(***************************************************************************)
(* The theorems.                                                           *)
(***************************************************************************)

\* The inductive invariant holds in every state of every daemon.
THEOREM DaemonInvariance == DaemonSpec => []DInv
<1>1. DaemonInit => DInv
  BY DInvInit
<1>2. DInv /\ [DaemonNext]_dvars => DInv'
  BY DInvStep
<1> QED
  BY <1>1, <1>2, PTL DEF DaemonSpec

\* The variables keep their types, and the wait for a thread its limit.
THEOREM DaemonTypes == DaemonSpec => [](DaemonTypeOK /\ TypeOK)
<1>1. DInv => DaemonTypeOK /\ TypeOK
  BY DEF DInv
<1> QED
  BY <1>1, DaemonInvariance, PTL

\* close_vpnd, which vpnd and exit() may both call, frees what the daemon has loaded
\* and accepted exactly once, however far it got before it failed or was told to stop.
THEOREM FreedOnce == DaemonSpec => []FreedExactlyOnce
<1>1. ASSUME DInv PROVE FreedExactlyOnce
  <2>1. main \in Loop \/ main \in Freers \/ main \in {"cancel", "exit", "exited"}
    BY <1>1 DEF DInv, TypeOK, Loop, Freers
  <2>2. keys_freed <= (IF keys = "both" THEN 1 ELSE 2) /\ config_dir # "freed twice"
    <3>1. /\ keys_freed \in {0, 1, 2} /\ config_dir \in {"live", "freed"}
          /\ keys = "both" => keys_freed \in {0, 1}
      BY <1>1 DEF DInv, Freeing
    <3>2. keys_freed <= 2 /\ (keys = "both" => keys_freed <= 1)
      BY <3>1
    <3>3. CASE keys = "both"
      BY <3>1, <3>2, <3>3
    <3>4. CASE keys # "both"
      BY <3>1, <3>2, <3>4
    <3> QED
      BY <3>3, <3>4
  <2>3. \A p \in Peer : freed[p] \in {0, 1}
    BY <1>1, <2>1 DEF DInv, Listed, Left, AllFreed
  <2>4. main = "exited" =>
          /\ keys_freed > 0 /\ trusted = "none" /\ config_dir = "freed"
          /\ \A p \in Peer : freed[p] = IF conn[p] = "none" THEN 0 ELSE 1
    BY <1>1 DEF DInv, Freeing, AllFreed, Loop, Freers
  <2>5. \A p \in Peer : freed[p] <= 1
    BY <2>3
  <2> QED
    BY <2>2, <2>4, <2>5 DEF FreedExactlyOnce
<1> QED
  BY <1>1, DaemonInvariance, PTL

\* A server listens only while it has its device, unless it was interrupted on its way
\* to the loop.
THEOREM Listening == DaemonSpec => []DeviceWhileListening
<1>1. DInv => DeviceWhileListening
  BY DEF DInv, Device, DeviceWhileListening
<1> QED
  BY <1>1, DaemonInvariance, PTL

\* A client frees its peer only when the connection's thread, which uses it, has ended.
THEOREM JoinedFirst == DaemonSpec => []JoinedBeforeFreed
<1>1. ASSUME DInv PROVE JoinedBeforeFreed
  <2>1. ASSUME ~server, NEW p \in Peer, freed[p] > 0 PROVE conn[p] = "exited"
    <3>1. main # "poll" /\ conn[p] # "none"
      BY <1>1, <2>1 DEF DInv, Listed, Left, AllFreed, TypeOK, Loop, Freers
    <3> QED
      BY <1>1, <2>1, <3>1 DEF DInv, Joined
  <2> QED
    BY <2>1 DEF JoinedBeforeFreed
<1> QED
  BY <1>1, DaemonInvariance, PTL

\* The variables of Shutdown keep their types throughout the life of a daemon.
THEOREM ShutdownTypes == DaemonSpec => []TypeOK
<1>1. DInv => TypeOK
  BY DEF DInv
<1> QED
  BY <1>1, DaemonInvariance, PTL

-----------------------------------------------------------------------------
(***************************************************************************)
(* How far the exit is.                                                    *)
(***************************************************************************)

\* ToDo of a state in which the main thread is at m, its lists are ps and rs and it has
\* waited w seconds.
Count(m, ps, rs, w) ==
  CASE m = "poll"    -> Len(ps) * (MaxWait + 2) + 5
    [] m = "close"   -> Len(ps) * (MaxWait + 2) + 4
    [] m = "destroy" -> Len(rs) * (MaxWait + 2) + 3
    [] m = "wait"    -> Len(rs) * (MaxWait + 2) + 2 - w
    [] m = "cancel"  -> 2
    [] m = "exit"    -> 1
    [] m = "exited"  -> 0

LEMMA ToDoIsCount ==
  ToDo = Count(main, peers, rest, waited) /\ ToDo' = Count(main', peers', rest', waited')
BY DEF ToDo, Count

\* Seconds and steps for a list of peers, and for one that is one peer shorter.
LEMMA PerPeer ==
  ASSUME NEW n \in Nat
  PROVE  /\ n * (MaxWait + 2) \in Nat
         /\ n > 0 => n * (MaxWait + 2) = (n - 1) * (MaxWait + 2) + (MaxWait + 2)
         /\ n > 0 => (n - 1) * (MaxWait + 2) \in Nat
<1>1. MaxWait + 2 \in Nat
  BY ShutdownAssumption
<1>2. \A a, b \in Nat : a * b \in Nat
  OBVIOUS
<1>3. \A a, b \in Nat : a * b = (a - 1) * b + b
  OBVIOUS
<1>4. n > 0 => n - 1 \in Nat
  OBVIOUS
<1> QED
  BY <1>1, <1>2, <1>3, <1>4

\* A step that leaves the main thread where it is.
LEMMA Elsewhere ==
  ASSUME DInv, UNCHANGED <<main, peers, rest, waited>>
  PROVE  ToDo' \in 0..ToDo /\ <<main, rest, waited>>' = <<main, rest, waited>>
<1>1. /\ peers \in Seq(Peer) /\ rest \in Seq(Peer) /\ waited \in 0..MaxWait
      /\ Len(peers) \in Nat /\ Len(rest) \in Nat
      /\ MaxWait \in Nat
      /\ main \in {"poll", "close", "destroy", "wait", "cancel", "exit", "exited"}
  BY ShutdownAssumption DEF DInv, TypeOK
<1>2. main = "wait" => Len(rest) > 0
  BY <1>1 DEF DInv, Left, Freers
<1>3. Count(main, peers, rest, waited) \in Nat
  <2> DEFINE x == Len(peers) * (MaxWait + 2)  y == Len(rest) * (MaxWait + 2)
             z == (Len(rest) - 1) * (MaxWait + 2)
  <2>1. x \in Nat /\ y \in Nat /\ (main = "wait" => z \in Nat /\ y = z + (MaxWait + 2))
    BY <1>1, <1>2, PerPeer
  <2> HIDE DEF x, y, z
  <2>2. main = "wait" => y + 2 - waited \in Nat
    BY <1>1, <2>1
  <2>3. /\ x + 5 \in Nat /\ x + 4 \in Nat /\ y + 3 \in Nat
    BY <2>1
  <2>4. Count(main, peers, rest, waited) =
          CASE main = "poll" -> x + 5 [] main = "close" -> x + 4 [] main = "destroy" -> y + 3
            [] main = "wait" -> y + 2 - waited [] main = "cancel" -> 2 [] main = "exit" -> 1
            [] main = "exited" -> 0
    BY DEF Count, x, y
  <2> QED
    BY <1>1, <2>2, <2>3, <2>4
<1> QED
  BY <1>3, ToDoIsCount

\* A step that brings the main thread from a count of a to one of b, or is none of its own.
Nearer ==
  /\ ToDo' \in 0..ToDo
  /\ <<main, rest, waited>>' # <<main, rest, waited>> => ToDo' < ToDo

\* The steps that change no list: on the way to close_vpnd, the waiting and the end.
LEMMA OtherSteps ==
  ASSUME DInv, UNCHANGED <<peers, rest>>,
         \/ main = "poll" /\ main' = "close"
         \/ DestroyAlive \/ Wait \/ FreeKeys
         \/ main = "cancel" /\ main' \in {"exit", "exited"}
         \/ main = "exit" /\ main' = "exited"
  PROVE  Nearer
<1> DEFINE x == Len(peers) * (MaxWait + 2)  y == Len(rest) * (MaxWait + 2)
<1>1. /\ peers \in Seq(Peer) /\ rest \in Seq(Peer) /\ waited \in 0..MaxWait
      /\ MaxWait \in Nat
  BY ShutdownAssumption DEF DInv, TypeOK
<1>2. x \in Nat /\ y \in Nat
  BY <1>1, PerPeer
<1>3. main = "wait" => y >= MaxWait + 2
  <2>1. main = "wait" => Len(rest) > 0
    BY <1>1 DEF DInv, Left, Freers
  <2> QED
    BY <1>1, <2>1, PerPeer
<1>4. CASE main = "poll" /\ main' = "close"
  <2>1. ToDo = x + 5 /\ ToDo' = x + 4
    BY <1>4, ToDoIsCount DEF Count
  <2> HIDE DEF x
  <2> QED
    BY <1>2, <2>1 DEF Nearer
<1>5. CASE DestroyAlive
  <2>1. ToDo = y + 3 /\ ToDo' = y + 2 - 0
    BY <1>5, ToDoIsCount DEF Count, DestroyAlive, Main
  <2> HIDE DEF y
  <2> QED
    BY <1>2, <2>1 DEF Nearer
<1>6. CASE Wait
  <2>1. ToDo = y + 2 - waited /\ ToDo' = y + 2 - (waited + 1) /\ main = "wait" /\ waited < MaxWait
    BY <1>6, ToDoIsCount DEF Count, Wait, Main
  <2> HIDE DEF y
  <2> QED
    BY <1>1, <1>2, <1>3, <2>1 DEF Nearer
<1>7. CASE FreeKeys
  <2>1. ToDo = y + 3 /\ ToDo' = 2
    BY <1>7, ToDoIsCount DEF Count, FreeKeys, Main
  <2> HIDE DEF y
  <2> QED
    BY <1>2, <2>1 DEF Nearer
<1>8. CASE \/ main = "cancel" /\ main' \in {"exit", "exited"}
           \/ main = "exit" /\ main' = "exited"
  <2>1. ToDo \in Nat /\ ToDo' \in Nat /\ ToDo' < ToDo
    BY <1>8, ToDoIsCount DEF Count
  <2> QED
    BY <2>1 DEF Nearer
<1> QED
  BY <1>4, <1>5, <1>6, <1>7, <1>8

\* close_vpnd takes the list over; DestroyDead and WaitEnds take a peer off it.
LEMMA ListSteps ==
  ASSUME DInv, close_vpnd \/ DestroyDead \/ WaitEnds
  PROVE  Nearer
<1> DEFINE y == Len(rest) * (MaxWait + 2)  z == Len(Tail(rest)) * (MaxWait + 2)
           x == Len(peers) * (MaxWait + 2)
<1>1. /\ peers \in Seq(Peer) /\ rest \in Seq(Peer) /\ waited \in 0..MaxWait
      /\ MaxWait \in Nat
  BY ShutdownAssumption DEF DInv, TypeOK
<1>2. CASE close_vpnd
  <2>1. ToDo = x + 4 /\ ToDo' = x + 3
    BY <1>2, ToDoIsCount DEF Count, close_vpnd, Main
  <2>2. x \in Nat
    BY <1>1, PerPeer
  <2> HIDE DEF x
  <2> QED
    BY <2>1, <2>2 DEF Nearer
<1>3. CASE DestroyDead \/ WaitEnds
  <2>1. /\ rest # <<>> /\ rest' = Tail(rest) /\ main' = "destroy" /\ waited' = waited
        /\ main \in {"destroy", "wait"}
    BY <1>3 DEF DInv, Left, Freers, DestroyDead, WaitEnds, Main, Free
  <2>2. Len(rest) \in Nat \ {0} /\ Len(Tail(rest)) = Len(rest) - 1
    BY <1>1, <2>1
  <2>3. z \in Nat /\ y \in Nat /\ y = z + (MaxWait + 2)
    BY <2>2, PerPeer
  <2>4. ToDo' = z + 3
    BY <2>1, ToDoIsCount DEF Count
  <2>5. ToDo = IF main = "destroy" THEN y + 3 ELSE y + 2 - waited
    BY <2>1, ToDoIsCount DEF Count
  <2> HIDE DEF y, z
  <2>6. ToDo \in Nat /\ ToDo' \in Nat /\ ToDo' < ToDo
    BY <1>1, <2>3, <2>4, <2>5
  <2> QED
    BY <2>6 DEF Nearer
<1> QED
  BY <1>2, <1>3

LEMMA NearerStep ==
  ASSUME DInv, [DaemonNext]_dvars, boot = "up", ~listening
  PROVE  Nearer
<1>1. ~CommandLine /\ ~Loading /\ ~Starting /\ ~Connecting
  BY DEF CommandLine, Option, OptionExits, EndOptions, Loading, Detach, ForkFails, LoadPrivkey,
     LoadPubkey, LoadKeyFails, LoadTrustedKeys, tuntap_open, tuntap_open_fails, ExecuteScript,
     Starting, StartTun, Bind, Serve, Connecting, ConnectFails, Connect, Boot
<1>2. CASE UNCHANGED <<main, peers, rest, waited>>
  BY <1>2, Elsewhere DEF Nearer
<1>3. CASE InterruptDaemon
  BY <1>3, <1>2 DEF InterruptDaemon, Interrupt
<1>4. CASE JoinEnds \/ ExitFailed
  BY <1>4, OtherSteps DEF JoinEnds, ExitFailed, Main
<1>5. CASE ServerLoop
  BY <1>5, OtherSteps DEF ServerLoop, PollInterrupted, LoopEnds, Accept, Main
<1>6. CASE Closing
  <2>1. CASE close_vpnd \/ DestroyDead \/ WaitEnds
    BY <2>1, ListSteps
  <2>2. CASE DestroyAlive \/ Wait \/ FreeKeys
    BY <2>2, OtherSteps DEF DestroyAlive, Wait, FreeKeys
  <2>3. CASE CancelTun \/ Exit
    BY <2>3, OtherSteps DEF CancelTun, Exit, Main
  <2> QED
    BY <1>6, <2>1, <2>2, <2>3 DEF Closing
<1>7. CASE (Handler \/ TunSent \/ TunEnds) /\ UNCHANGED boots
  BY <1>7, <1>2 DEF Handler, BroadcastClose, HandlerEnds, TunSent, TunEnds
<1>8. ASSUME NEW p \in Peer, Threads(p) \/ ((RemoteCloses(p) \/ TunSends(p)) /\ UNCHANGED boots)
      PROVE  Nearer
  BY <1>8, <1>2 DEF Threads, ConnDies, ConnExits, RemoteCloses, TunSends
<1>9. CASE UNCHANGED dvars
  BY <1>9, <1>2 DEF dvars, vars
<1> QED
  BY <1>1, <1>3, <1>4, <1>5, <1>6, <1>7, <1>8, <1>9 DEF DaemonNext

\* Once the sockets are closed the main thread is on its way out: no interrupt, no other
\* thread and no remote daemon can put it back or hold it up for more than the seconds
\* that destroy_peer waits for each peer.
THEOREM Ends == DaemonSpec => EndsInTime
<1>1. ASSUME DInv, [DaemonNext]_dvars
      PROVE  [boot = "up" /\ ~listening =>
                /\ ToDo' \in 0..ToDo
                /\ <<main, rest, waited>>' # <<main, rest, waited>> => ToDo' < ToDo]_dvars
  BY <1>1, NearerStep DEF Nearer
<1> QED
  BY <1>1, DaemonInvariance, PTL DEF DaemonSpec, EndsInTime
=============================================================================
