---------------------------- MODULE MCWebClient ----------------------------
(* Instances of WebClient for TLC. *)
EXTENDS WebClient, TLC

CONSTANTS ann, bob, mon, tue, c1, c2

(* The server's schedules list another day than the examples. *)
Tuesdays == {{tue}}

(* The examples: the first week with monday, as in the program. *)
OneWeek == [w \in Weeks |-> IF w = 10 THEN [of |-> Demo, days |-> {mon}] ELSE None]

Alike == Permutations({ann, bob}) \cup Permutations({c1, c2})
=============================================================================
