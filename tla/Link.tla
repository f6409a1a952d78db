-------------------------------- MODULE Link --------------------------------
(***************************************************************************)
(* What one direction of a connection between two daemons promises to the  *)
(* code above it (send_data_to_peer at one end, receive_frame and          *)
(* process_frame at the other): frames arrive whole, once, in the order in *)
(* which they were sent, until a CLOSE frame; each frame arrives if the    *)
(* connection lasts.                                                       *)
(***************************************************************************)
EXTENDS Naturals, Sequences

CONSTANTS
  Frame,  \* the frames
  Close   \* those that end the connection

VARIABLES
  sent,     \* the frames sent so far, in order
  received  \* the frames received so far, in order

vars == <<sent, received>>

Init == sent = <<>> /\ received = <<>>

Put(f) ==
  /\ sent' = Append(sent, f)
  /\ UNCHANGED received

\* Nothing is received after a CLOSE.
Get ==
  /\ Len(received) < Len(sent)
  /\ \A i \in 1..Len(received) : received[i] \notin Close
  /\ received' = Append(received, sent[Len(received) + 1])
  /\ UNCHANGED sent

Next == Get \/ \E f \in Frame : Put(f)

Spec == Init /\ [][Next]_vars

FairSpec == Spec /\ WF_vars(Get)

\* What has been received is the beginning of what has been sent, and a CLOSE is its end.
InOrder ==
  /\ Len(received) <= Len(sent)
  /\ \A i \in 1..Len(received) : received[i] = sent[i]
  /\ \A i \in 1..Len(received) : received[i] \in Close => i = Len(received)
=============================================================================
