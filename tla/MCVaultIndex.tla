---------------------------- MODULE MCVaultIndex ----------------------------
(***************************************************************************)
(* Small instances of VaultIndex for TLC.                                  *)
(*                                                                         *)
(* Three paths: 1 and 3 are one file name in two folders, 2 is another     *)
(* note, next to 1.  Text "b" links to note 10 and has two chunks, text    *)
(* "a" links nowhere and has one.                                          *)
(***************************************************************************)
EXTENDS VaultIndex, TLC

AnyThread == Permutations(Threads)

ThreeFolders == [p \in 1..3 |-> IF p = 3 THEN 2 ELSE 1]
ThreeNames == [p \in 1..3 |-> IF p = 2 THEN 20 ELSE 10]
TwoNames == [p \in 1..2 |-> 10 * p]
OneFolder == [p \in 1..2 |-> 1]
FolderEach == [p \in 1..2 |-> p]
SameName == [p \in 1..2 |-> 10]

TextLinks == [c \in {"a", "b"} |-> IF c = "b" THEN {10} ELSE {}]
TextChunks == [c \in {"a", "b"} |-> IF c = "b" THEN 2 ELSE 1]

=============================================================================
