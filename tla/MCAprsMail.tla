---- MODULE MCAprsMail ----
(* Two radios with lines of their own, one of which gets mail, and an AIRC *)
(* station with mail.                                                      *)
EXTENDS AprsMail

CONSTANTS a, b, c

Three == {a, b, c}
OnlyB == {b}
Radio2 == {a, c}
Mail == a :> 3 @@ b :> 1 @@ c :> 1
Said == a :> 2 @@ c :> 1
FourOfEach == 0..4
Few == {n \in FourOfEach \X FourOfEach : n[1] * n[2] <= 1}
====
