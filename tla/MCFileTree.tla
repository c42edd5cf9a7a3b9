---------------------------- MODULE MCFileTree ----------------------------
(***************************************************************************)
(* A file of at most NBlocks blocks: on a volume of its own with clusters  *)
(* of one block or of two; and, with clusters of one block, on a volume in *)
(* pieces with all extent blocks free, on one where other files leave two  *)
(* (a leaf and its duplicate, but no leaf more), and on one where they     *)
(* leave three (a tree of two leaves, but no duplicate), until they go.    *)
(***************************************************************************)
EXTENDS FileTree

ExtentBlocks == 1..7
Alone(n) == [bpc |-> n, eb |-> {}, clu |-> {}]
Shared(n, clu) == [bpc |-> 1, eb |-> (n + 1)..7, clu |-> clu]
EmptyVolume == {Alone(1)}
AllVolumes == {Alone(1), Alone(2)} \cup {Shared(n, {2, 4}) : n \in {2, 3, 7}}
===========================================================================
