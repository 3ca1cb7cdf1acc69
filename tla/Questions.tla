------------------------------ MODULE Questions ------------------------------
(***************************************************************************)
(* A behaviour of an algorithm: it is asked one question, and its steps     *)
(* make the answer.                                                         *)
(***************************************************************************)
CONSTANT None   \* there is no answer yet

VARIABLES question, answer

Asked(about) == question.about = about
Answered(about) == question.about = about /\ answer # None
=============================================================================
