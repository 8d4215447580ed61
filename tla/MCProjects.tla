----------------------------- MODULE MCProjects -----------------------------
(* Projects and Sessions with one known user and three requests.  Her hash has *)
(* no zero byte, or one that tells p2 from her password, or one that does not.  *)
EXTENDS Projects, TLC

CONSTANTS e1, e2, p1, p2, r1, r2, r3

OneUser == {<<[email |-> e1, pass |-> p1, like |-> l]>> : l \in {{}, {p1}, {p1, p2}}}

Do(kind, email, pass) == [kind |-> kind, email |-> email, pass |-> pass]

Login    == Do("login", e1, p1)
Wrong    == Do("login", e1, p2)
Register == Do("register", e2, p2)
Twice    == Do("register", e2, p1)
Again    == Do("register", e1, p2)
OAuth    == Do("oauth", e1, p1)
Use(task) == Do(task, e1, p1)

\* A user logs in and uses the token twice, at the same time; logins, right and
\* wrong, and registrations run into each other and into a use, and so do two
\* registrations of one email with different passwords.
MCPlans ==
    {r1 :> Login @@ r2 :> Use(a) @@ r3 :> Use(b) : a \in {"create", "save", "upload"}, b \in Task} \cup
    {r1 :> j @@ r2 :> k @@ r3 :> Use("upload") :
        j \in {Register, Again}, k \in {Login, Wrong, OAuth}} \cup
    {r1 :> Register @@ r2 :> Twice @@ r3 :> Use("user")}
=============================================================================
