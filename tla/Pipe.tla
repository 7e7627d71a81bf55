-------------------------------- MODULE Pipe --------------------------------
(***************************************************************************)
(* blob's pipe: a bounded queue of writes between one producer and one     *)
(* consumer.  Either end may leave first: CloseWrite ends the stream with  *)
(* an error or cleanly, CloseRead releases the producer.  The two checks   *)
(* of the closed channel in Write and Read make one step: a close between  *)
(* them is the same as a close after it.                                   *)
(***************************************************************************)
EXTENDS Naturals, Sequences

CONSTANTS Slots, NoErr

VARIABLE pipe

NewPipe == [q |-> <<>>, ended |-> FALSE, werr |-> NoErr, rclosed |-> FALSE]

Write(chunk) ==
  /\ ~pipe.rclosed
  /\ ~pipe.ended
  /\ Len(pipe.q) < Slots
  /\ pipe' = [pipe EXCEPT !.q = Append(@, chunk)]

\* Write returns io.ErrClosedPipe.
WriteRefused ==
  /\ pipe.rclosed
  /\ UNCHANGED pipe

CloseWrite(err) ==
  /\ ~pipe.ended
  /\ pipe' = [pipe EXCEPT !.ended = TRUE, !.werr = err]

Read(chunk) ==
  /\ ~pipe.rclosed
  /\ pipe.q # <<>>
  /\ chunk = Head(pipe.q)
  /\ pipe' = [pipe EXCEPT !.q = Tail(@)]

\* Read returns what CloseWrite was given; NoErr stands for io.EOF.
ReadEnd(err) ==
  /\ ~pipe.rclosed
  /\ pipe.q = <<>>
  /\ pipe.ended
  /\ err = pipe.werr
  /\ UNCHANGED pipe

\* Read returns io.ErrClosedPipe.
ReadRefused ==
  /\ pipe.rclosed
  /\ UNCHANGED pipe

CloseRead == pipe' = [pipe EXCEPT !.rclosed = TRUE]

=============================================================================
