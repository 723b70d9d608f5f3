--------------------------- MODULE MCUserAccounts ---------------------------
(* Model-checking instance of UserAccounts.  Strings are sequences over   *)
(* the characters "a", "b" and ":"; Admin stands for "admin".             *)
EXTENDS UserAccounts, TLC

MCNames == {<<>>, <<"a">>, <<"b">>}
MCPasswords == {<<>>, <<"a">>, <<":">>}
MCAdmin == <<"a">>

ClientSymmetry == Permutations(Clients)

\* The answers are never read by a later step.
AccountsView == <<users, nextId, upc, req, read, lastPw>>

=============================================================================
