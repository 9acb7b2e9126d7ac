------------------------------ MODULE MCServer ------------------------------
(***************************************************************************)
(* Constants of Server for TLC: one environment that is complete, with its *)
(* numbers left to their defaults, and one without a database name.        *)
(***************************************************************************)
EXTENDS Server

Complete == [user |-> "text", name |-> "text",
             rate |-> "unset", fragmentation |-> "number", ttl |-> "unset"]

MCEnvironments == {Complete, [Complete EXCEPT !.name = "unset"], [Complete EXCEPT !.rate = "text"]}
=============================================================================
