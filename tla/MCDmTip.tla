-------------------------------- MODULE MCDmTip --------------------------------
(****************************************************************************)
(* Small instances of DmTip.  The tasks are interchangeable, which is sound   *)
(* for the safety properties that are checked.                              *)
(****************************************************************************)
EXTENDS DmTip, TLC

CONSTANTS one, two

AnyTask == Permutations(Task)

(****************************************************************************)
(* Of the generations only two things matter to any step: whether a task's    *)
(* is still what Peek shows, and how far the conversation's entry lags behind *)
(* the watermark (an entry that is not there counts on from the watermark, as *)
(* one that does not lag).                                                  *)
(****************************************************************************)
Relative ==
    <<msg, tip, stamps, counters, history,
      IF entry = 0 THEN 0 ELSE mark - entry,
      [t \in Task |-> [task[t] EXCEPT !.gen = IF @ = Peek THEN 1 ELSE 0]]>>
================================================================================
