-------------------------- MODULE MCAnnotationStore -------------------------
(* AnnotationStore with two commands of one analyzer and one of another.   *)
EXTENDS AnnotationStore, TLC

CONSTANTS s1, s2, s3, x, y

TwoAndOne == {s1 :> x @@ s2 :> x @@ s3 :> y}
=============================================================================
