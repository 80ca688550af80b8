----------------------------- MODULE MCReporter -----------------------------
(* Small instances of Reporter. *)
EXTENDS Reporter, TLC

CONSTANTS c1, c2

\* The reporter of one case in several tabs, beside its deletion or closing; links
\* between two.
MCMixes == {[kinds |-> {"sign_in", "reply", "logout"}, cases |-> {c1}, most |-> 4, time |-> 0],
            [kinds |-> {"sign_in", "reply", "logout", "delete"}, cases |-> {c1}, most |-> 3, time |-> 2],
            [kinds |-> {"sign_in", "view", "logout", "delete"}, cases |-> {c1}, most |-> 3, time |-> 2],
            [kinds |-> {"reply", "close"}, cases |-> {c1}, most |-> 3, time |-> 2],
            [kinds |-> {"link", "unlink", "delete"}, cases |-> {c1, c2}, most |-> 3, time |-> 2]}

Symmetry == Permutations(Requests)
=============================================================================
