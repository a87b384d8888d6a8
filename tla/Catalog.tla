------------------------------ MODULE Catalog ------------------------------
(***************************************************************************)
(* What loading content promises to the rest of the system: every scenario *)
(* code has a history of versions that only grows, and the last one is the *)
(* one on offer.  Training relies on it: PublishNext of SessionStore is a  *)
(* step of this specification.                                             *)
(***************************************************************************)
EXTENDS Sequences

CONSTANTS
  Code,         \* scenario codes
  Text          \* contents of scenario files

VARIABLE
  published     \* published[c]: the contents of the versions of c, in order

Init == published = [c \in Code |-> <<>>]

Publish(c, text) == published' = [published EXCEPT ![c] = Append(@, text)]

Next == \E c \in Code, text \in Text : Publish(c, text)

Spec == Init /\ [][Next]_published

=============================================================================
