----------------------------- MODULE MCAccounts -----------------------------
(* Small instances of Accounts. *)
EXTENDS Accounts, TLC

CONSTANTS a1, a2, o1, i1

\* Two spellings of one name, and two others.
MCNames == {"ada", "Ada", "bob", "eve"}
MCLower == [n \in MCNames |-> IF n = "Ada" THEN "ada" ELSE n]

Member(n, role) ==
    [name |-> n, role |-> role, active |-> TRUE, enrolled |-> TRUE, mustChange |-> FALSE,
     password |-> TRUE, ldap |-> None, sub |-> None, org |-> o1]

\* Setup beside directory logins; changes of the accounts; single sign-on beside them.
MCMixes == {{"setup_page", "setup", "ldap"}, {"create", "ldap"}, {"create", "role"},
            {"role", "reactivate", "deactivate"}, {"reset", "role"}, {"link", "callback", "unlink"}, {"login", "callback", "link"}}

\* A superadmin and an admin; where they take the role from each other, two superadmins;
\* where accounts are made and given roles, one has a name that exists in two spellings.
MCStaff ==
    [m \in MCMixes |-> [u \in People |->
        IF u = a1 THEN Member(IF m = {"create", "role"} THEN "Ada" ELSE "bob", "superadmin")
        ELSE Member("eve", IF m = {"role", "reactivate", "deactivate"} THEN "superadmin" ELSE "admin")]]

\* An account takes two to sign in once it is made: the authenticator and a new password.
MCMaxTurns ==
    [m \in MCMixes |-> IF m \in {{"create", "ldap"}, {"role", "reactivate", "deactivate"}} THEN 1 ELSE 2]

Symmetry == Permutations(Requests)
=============================================================================
