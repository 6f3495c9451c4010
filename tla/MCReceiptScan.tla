---------------------------- MODULE MCReceiptScan ----------------------------
(* A photo with a receipt at its edge and a speck. *)
EXTENDS ReceiptScan

MCPhoto ==
  {[w |-> 40, h |-> 20,
    blobs |-> << [x0 |-> 20, y0 |-> 1, x1 |-> 39, y1 |-> 19, area |-> 300],
                 [x0 |-> 0, y0 |-> 0, x1 |-> 1, y1 |-> 1, area |-> 3] >>]}
MCDrags == {30}
Tasks == Permutations(Task)
=============================================================================
