----------------------------- MODULE CallStack ------------------------------
(***************************************************************************)
(* What the stack operations promise a program: a last-in first-out list   *)
(* of words.  Call leaves the address of the next instruction on it, Ret   *)
(* resumes at the word on top, Push and Pop move one word, and no other    *)
(* instruction changes it.  Where there is no room the machine stops and   *)
(* the words already stored stay as they are.                              *)
(***************************************************************************)
EXTENDS Integers, Sequences, SequencesExt

CONSTANT Capacity     \* words the memory below the initial sp has room for

VARIABLES stack, pc, up

vars == <<stack, pc, up>>

CallLength == 3       \* bytes of a CALL instruction

Init == stack = <<>> /\ up = TRUE

\* One word more on top of the others.
Grown == Len(stack) < Capacity /\ Len(stack') = Len(stack) + 1 /\ IsPrefix(stack, stack')
Shrunk == stack # <<>> /\ stack' = Front(stack)

Call   == Grown /\ Last(stack') = pc + CallLength
Return == Shrunk /\ pc' = Last(stack)
Push   == Grown /\ pc' = pc + 1
Pop    == Shrunk /\ pc' = pc + 1
Local  == stack' = stack /\ pc' # pc

Next ==
  /\ up
  /\ \/ up' = TRUE /\ (Call \/ Return \/ Push \/ Pop \/ Local)
     \/ up' = FALSE /\ stack' = stack

Spec == Init /\ [][Next]_vars
=============================================================================
