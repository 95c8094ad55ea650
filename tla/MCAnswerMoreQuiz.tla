--------------------------- MODULE MCAnswerMoreQuiz ---------------------------
(***************************************************************************)
(* AnswerMoreQuiz over the catalogs of MCCatalogs.                          *)
(***************************************************************************)
EXTENDS AnswerMoreQuiz, MCCatalogs

ASSUME OneLevelAssumption == \A c \in Catalogs : OneLevel(c)
=============================================================================
