--------------------------- MODULE SequenceFilter ---------------------------
(* Array.filter, of the server's, the editor's and the extension's code.     *)
EXTENDS Naturals, Sequences

\* Array.filter: the members that are in S, in order.  SelectSeq, written as a
\* recursive function so that theorems can be proved about it.
Only(seq, S) ==
    LET upTo[i \in 0..Len(seq)] ==
            IF i = 0 THEN <<>>
            ELSE IF seq[i] \in S THEN Append(upTo[i - 1], seq[i]) ELSE upTo[i - 1]
    IN upTo[Len(seq)]
=============================================================================
