----------------------------- MODULE ByteStream -----------------------------
(***************************************************************************)
(* What a TCP receiver promises its application: the bytes the peer wrote, *)
(* each once and in order, and then the end of the stream.                 *)
(***************************************************************************)
EXTENDS Naturals, Sequences

CONSTANT Stream         \* what the peer writes before it closes

VARIABLES delivered,    \* the bytes passed to the receive callback so far
          eof           \* the callback was called with a NULL pbuf

vars == <<delivered, eof>>

Init == delivered = <<>> /\ eof = FALSE

\* One call of tcp_input() passes some bytes, the end of the stream, or both.
Pass ==
  /\ ~eof
  /\ \E k \in Len(delivered)..Len(Stream) :
       /\ delivered' = SubSeq(Stream, 1, k)
       /\ eof' \in {FALSE, k = Len(Stream)}

Spec == Init /\ [][Pass]_vars
=============================================================================
