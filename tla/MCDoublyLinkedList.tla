------------------------- MODULE MCDoublyLinkedList -------------------------
(* DoublyLinkedList with two lists and three members.  Members and data are *)
(* interchangeable.                                                         *)
EXTENDS DoublyLinkedList

Symmetry == Permutations(Node) \cup Permutations(Data) \cup Permutations(List)
=============================================================================
