-------------------------------- MODULE Pipe --------------------------------
(***************************************************************************)
(* What a tunnelled connection promises to its two ends: two independent   *)
(* directions, each an ordered, loss-free stream whose end is seen only    *)
(* after all of its data.  A connection may break off at any time: then a  *)
(* direction simply makes no further step, so a reader has got a prefix    *)
(* and no end of stream.                                                   *)
(***************************************************************************)
EXTENDS Naturals, Sequences

CONSTANTS Dirs   \* the directions of all connections

VARIABLES sent,  \* number of chunks written so far
          got,   \* the chunks read so far, named by their position
          fin,   \* the writer has closed its side
          eof    \* the reader has seen the end of the stream

vars == <<sent, got, fin, eof>>

Init ==
    /\ sent = [d \in Dirs |-> 0]
    /\ got = [d \in Dirs |-> <<>>]
    /\ fin = [d \in Dirs |-> FALSE]
    /\ eof = [d \in Dirs |-> FALSE]

Write(d) ==
    /\ ~fin[d]
    /\ sent' = [sent EXCEPT ![d] = @ + 1]
    /\ UNCHANGED <<got, fin, eof>>

CloseWrite(d) ==
    /\ fin' = [fin EXCEPT ![d] = TRUE]
    /\ UNCHANGED <<sent, got, eof>>

Read(d) ==
    /\ ~eof[d]
    /\ Len(got[d]) < sent[d]
    /\ got' = [got EXCEPT ![d] = Append(@, Len(@) + 1)]
    /\ UNCHANGED <<sent, fin, eof>>

ReadEOF(d) ==
    /\ fin[d]
    /\ Len(got[d]) = sent[d]
    /\ eof' = [eof EXCEPT ![d] = TRUE]
    /\ UNCHANGED <<sent, got, fin>>

Next == \E d \in Dirs : Write(d) \/ CloseWrite(d) \/ Read(d) \/ ReadEOF(d)

Spec == Init /\ [][Next]_vars
=============================================================================
