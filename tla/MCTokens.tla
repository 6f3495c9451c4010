------------------------------ MODULE MCTokens ------------------------------
(***************************************************************************)
(* Two addresses, two clients and four tokens: two sessions of one address *)
(* side by side, or one that is rotated, reused and followed by another    *)
(* login.                                                                  *)
(***************************************************************************)
EXTENDS Tokens, TLC

\* Nothing tells token ids, addresses or clients apart.
Symmetry == Permutations(Jti) \union Permutations(Email) \union Permutations(Client)
=============================================================================
