------------------------------- MODULE MCCompose -------------------------------
(* Compose for TLC: the customer begins with a draft that has its groups.      *)
EXTENDS Compose

Complete == [status |-> "draft", body |-> "short", media |-> FALSE, delay |-> 1, repeat |-> 0,
             start |-> "none", groups |-> {1, 2}]
MCBegun == {Complete}
===============================================================================
