---------------------------- MODULE MCRegAccess ----------------------------
(***************************************************************************)
(* RegAccess for TLC, with one bit to the byte: a register is told from    *)
(* its neighbours, and its bytes from each other, by which of them are     *)
(* set.  The requests have every mode, every size and one size code that   *)
(* is corrected, and begin in the BAR, at its last register, past its end, *)
(* or at an offset that is no multiple of the size.  Two name a BAR the    *)
(* board does not have and an index the arrays do not have.                *)
(***************************************************************************)
EXTENDS RegAccess, TLC

First == [k \in 0 .. 3 |-> IF k = 0 THEN Bits ELSE {}]

Request(m, s, a, c, d) ==
  [mode |-> m, size |-> s, bar |-> "mapped", offset |-> a, count |-> c,
   data |-> d, mask |-> IF m \in BitModes THEN First ELSE Ones]

MCRequests ==
  { Request("read", RW_D32, 0, 2, Ones),   Request("read", RW_D16, 4, 2, Ones),
    Request("read", RW_D8, 6, 2, Ones),    Request("read", RW_D8, 8, 1, Ones),
    Request("locked_read", 3, 0, 1, Ones), Request("other", RW_D16, 0, 1, Ones),
    Request("write", RW_D32, 0, 1, Ones),  Request("write", RW_D32, 2, 1, Ones),
    Request("set_bits", RW_D16, 0, 2, Ones),
    Request("set_bits", 3, 0, 1, [k \in 0 .. 3 |-> {}]),
    Request("swap_bits", RW_D8, 0, 1, Ones),
    [Request("write", RW_D32, 0, 1, Ones) EXCEPT !.bar = "absent"],
    [Request("read", RW_D8, 1, 1, Ones) EXCEPT !.bar = "outside"] }

Symmetry == Permutations(Threads)
=============================================================================
