------------------------------ MODULE AddrSpace ------------------------------
(***************************************************************************)
(* What the memory hooks promise port/: a process's address space maps     *)
(* each virtual address to the frame last put there, until it is emptied.  *)
(***************************************************************************)
CONSTANTS Proc, VA, Frame, Nil

VARIABLE maps   \* maps[p][va]: the frame p sees at va, or Nil

Unmapped == [va \in VA |-> Nil]

Init == maps = [p \in Proc |-> Unmapped]

Put(p, va, f) == maps' = [maps EXCEPT ![p][va] = f]
Empty(p) == maps' = [maps EXCEPT ![p] = Unmapped]

Next ==
  \E p \in Proc : Empty(p) \/ \E va \in VA, f \in Frame : Put(p, va, f)

Spec == Init /\ [][Next]_maps
=============================================================================
