-------------------------------- MODULE Fifo --------------------------------
(***************************************************************************)
(* What an interrupt queue (devices/intq.c) promises: a first-in first-out *)
(* buffer of INTQ_BUFSIZE - 1 bytes that loses and invents nothing.        *)
(***************************************************************************)
EXTENDS Naturals, Sequences

CONSTANTS Byte, INTQ_BUFSIZE

VARIABLE contents

Init == contents = <<>>

Put(b) ==
  /\ Len(contents) < INTQ_BUFSIZE - 1
  /\ contents' = Append(contents, b)

Get ==
  /\ contents # <<>>
  /\ contents' = Tail(contents)

Next == Get \/ \E b \in Byte : Put(b)

Spec == Init /\ [][Next]_contents
=============================================================================
