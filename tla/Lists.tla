------------------------------- MODULE Lists -------------------------------
(* The doubly linked lists of the code, as sequences.                      *)
EXTENDS Naturals, Sequences

(* A list after the nodes of S have been unlinked from it.                 *)
Without(s, S) ==
    LET kept[i \in 0 .. Len(s)] ==
          IF i = 0 THEN <<>>
          ELSE IF s[i] \in S THEN kept[i - 1] ELSE Append(kept[i - 1], s[i])
    IN  kept[Len(s)]
=============================================================================
