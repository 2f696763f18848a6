----------------------------- MODULE MCWebControl ------------------------------
(* Small instances of WebControl for TLC.                                      *)
EXTENDS WebControl, TLC

Colleagues == Permutations(Admins) \cup Permutations(Codes)

\* Two lists and two templates for one mask to change between.
Small == [masks |-> 1, lists |-> 2, templates |-> 2, options |-> 2]
===============================================================================
