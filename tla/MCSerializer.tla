---------------------------- MODULE MCSerializer ----------------------------
(* The serializer for TLC. *)
EXTENDS Serializer

(* The number after those of the types that players send. *)
NextNumber == 6
=============================================================================
