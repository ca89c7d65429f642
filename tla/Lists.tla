------------------------------- MODULE Lists --------------------------------
(***************************************************************************)
(* Array.filter, which the pages and the routes use where an order must    *)
(* survive: the messages of the chat, the reports of a group, the steps    *)
(* of a bug report.                                                        *)
(***************************************************************************)
EXTENDS Naturals, Sequences

\* The elements of a sequence that are in keep.
Sifted(s, keep) ==
    LET upTo[n \in 0..Len(s)] == IF n = 0 THEN << >>
                                 ELSE IF s[n] \in keep THEN Append(upTo[n - 1], s[n])
                                 ELSE upTo[n - 1]
    IN  upTo[Len(s)]

=============================================================================
