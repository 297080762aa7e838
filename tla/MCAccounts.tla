----------------------------- MODULE MCAccounts -----------------------------
(* Accounts for TLC; the model values and bounds are in the cfgs.          *)
EXTENDS Accounts, TLC

(* Ids, passwords, tokens and handlers are interchangeable.                *)
Symmetry == Permutations(Users) \cup Permutations(Passwords)
            \cup Permutations(Tokens) \cup Permutations(Handlers)
=============================================================================
