--------------------------- MODULE MessageFields ---------------------------
(***************************************************************************)
(* How the tables of WorldMessages and AmazonMessages are written.          *)
(***************************************************************************)
EXTENDS Integers, Sequences, TLC

\* A field as the serializer has it: a test of its has-bit, or a loop.
Required(number, name) == [number |-> number, name |-> name, rule |-> "required"]
Optional(number, name) == [number |-> number, name |-> name, rule |-> "optional"]
Repeated(number, name) == [number |-> number, name |-> name, rule |-> "repeated"]
=============================================================================
