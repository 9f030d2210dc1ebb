---------------------------- MODULE MCFlashcards ----------------------------
(***************************************************************************)
(* Small instances of Flashcards for TLC.                                  *)
(***************************************************************************)
EXTENDS Flashcards
=============================================================================
