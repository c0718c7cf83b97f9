------------------------------ MODULE Sublists ------------------------------
(***************************************************************************)
(* The part of a sequence that is of one kind, for the properties of the   *)
(* queues and streams on which messages of several kinds meet.             *)
(***************************************************************************)
EXTENDS Naturals, Sequences

(* The elements of s that are in T, in their order.                        *)
Only(s, T) ==
    LET upTo[n \in 0..Len(s)] ==
            IF n = 0 THEN <<>>
            ELSE IF s[n] \in T THEN Append(upTo[n - 1], s[n])
                               ELSE upTo[n - 1]
    IN upTo[Len(s)]
=============================================================================
