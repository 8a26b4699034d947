------------------------------- MODULE MCObjects -------------------------------
(* One object, whose children come and go.                                    *)
EXTENDS Objects
===============================================================================
