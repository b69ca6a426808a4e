------------------------------ MODULE MCAccounts ------------------------------
(* Instances of Accounts for TLC.                                          *)
EXTENDS Accounts, TLC

Interchangeable == Permutations(Users) \cup Permutations(Sessions)
                     \cup Permutations(Logins)

(* Users and service accounts have nothing in common but the filter, which *)
(* tells them apart first: TLC looks at the one or the other.              *)
OneKind == \/ \A a \in Accounts : account[a].tokens = 0
           \/ \A s \in Sessions : session[s] = NewSession
=============================================================================
