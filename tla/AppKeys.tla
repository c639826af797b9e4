------------------------------ MODULE AppKeys ------------------------------
(***************************************************************************)
(* The public keys of the board and how the kernel asks for them: one by   *)
(* one, with no count to go by.                                            *)
(***************************************************************************)
EXTENDS Integers, Sequences

\* public_keys, by the ids of their owners.
public_keys == <<"RhnmvxQ8D4tlh02L8693", "162ZEPiD33bF1T8diV0t">>
KeyTotal == Len(public_keys)
Known == {public_keys[n] : n \in 1..KeyTotal}
Nobody == ""

\* Mutant: the first key's index is 1.
sys_get_public_key_from_1(index) ==
  IF index \in 1..KeyTotal THEN [result |-> 0, id |-> public_keys[index]]
  ELSE [result |-> -1, id |-> Nobody]

\* A key by its index, counted from 0; past the end an empty one, and -1.
sys_get_public_key(index) ==
  IF index < KeyTotal THEN [result |-> 0, id |-> public_keys[index + 1]]
  ELSE [result |-> -1, id |-> Nobody]

=============================================================================
