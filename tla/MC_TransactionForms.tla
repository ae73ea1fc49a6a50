------------------------- MODULE MC_TransactionForms -------------------------
(* Two calls, of one form or of two; halves of 0 to 2, one amount that needs
   the high half and one that does not.  Numbers tell the amounts 0, 1 and 2
   apart, and of the rest each two neighbours share one: a withdrawal of 3 from
   a low half of 2 passes. *)
EXTENDS TransactionForms

CONSTANTS r1, r2
MCRuns == {r1, r2}
MCValues == {1, 3}
MCBase == 3
MCShift == 4
MCPrecision == 2
MCDouble == [n \in Comparable |-> IF n < MCPrecision THEN n
                                  ELSE MCPrecision + (n - MCPrecision) \div 2]
MCMaxLoads == 1
=============================================================================
