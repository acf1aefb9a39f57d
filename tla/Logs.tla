---------------------------------- MODULE Logs ----------------------------------
(***************************************************************************)
(* Sequences that only grow, the log of a peer above all, and what is      *)
(* read out of them: the entries at some positions, in order.  (SelectSeq  *)
(* would do as well, but nothing can be proved about an operator that      *)
(* takes another one.)                                                     *)
(***************************************************************************)
EXTENDS Naturals, Sequences

\* The elements of s at the positions in I, in order.
At(s, I) ==
    LET upto[n \in 0 .. Len(s)] ==
            IF n = 0 THEN <<>>
            ELSE IF n \in I THEN Append(upto[n - 1], s[n]) ELSE upto[n - 1]
    IN  upto[Len(s)]

\* The first and the last of some positions.
Earliest(I) == CHOOSE i \in I : \A j \in I : i <= j
Latest(I) == CHOOSE i \in I : \A j \in I : j <= i

\* Where a log has entries of an action, and these entries.
Positions(log, action) == {i \in DOMAIN log : log[i].action = action}
Matching(log, action) == At(log, Positions(log, action))

\* The elements of s that are not in X, in order.
Dropping(s, X) == At(s, {i \in DOMAIN s : s[i] \notin X})

\* The sequences in ss, one behind the other.
Joined(ss) ==
    LET upto[n \in 0 .. Len(ss)] == IF n = 0 THEN <<>> ELSE upto[n - 1] \o ss[n]
    IN  upto[Len(ss)]
===============================================================================
