------------------------------ MODULE ByteQueue ------------------------------
(***************************************************************************)
(* What a connection's buffer promises: bytes come out in the order they   *)
(* went in, none lost, none twice.  Buffer implements this.                *)
(***************************************************************************)
EXTENDS Sequences, Integers

VARIABLE content

\* Bytes are put at the end: nothing that was there changes.
Push ==
    /\ Len(content') >= Len(content)
    /\ SubSeq(content', 1, Len(content)) = content

\* Bytes are taken from the front.
Pop == \E n \in 0..Len(content) : content' = SubSeq(content, n + 1, Len(content))

Init == content = <<>>

Next == Push \/ Pop

Spec == Init /\ [][Next]_content
=============================================================================
