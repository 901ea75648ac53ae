-------------------------- MODULE MCResponseStream --------------------------
(* TLC instances of ResponseStream.                                        *)
EXTENDS ResponseStream

NoTimeout == Absent

(* A small message; one that is two small segments; a large one; a large   *)
(* one between small segments; a large one made only of small segments.    *)
AllBodies == {<<1>>, <<1, 1>>, <<3>>, <<1, 3, 1>>, <<2, 2>>}

(* Clients that ask for nothing, for less than the floor, for something in *)
(* range and for more than the cap.                                        *)
AllAsserted == {Absent, 0, 2, 9}
=============================================================================
