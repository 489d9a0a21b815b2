----------------------------- MODULE UsersService -----------------------------
(***************************************************************************)
(* src/users/application/services/users.service.ts                         *)
(*                                                                         *)
(* The in-memory user table.  It is an array of objects that only grows;   *)
(* callers hold references to its elements across awaits, so a reference   *)
(* is the element's index and 0 is `undefined`.  The methods return        *)
(* already resolved promises: the lookup or the write happens at the call, *)
(* the caller goes on in a later step.  name, role and department do not   *)
(* influence any flow modelled here and are left out.                      *)
(***************************************************************************)
EXTENDS Clients, SequencesExt

CONSTANT Secrets        \* the plain texts clients know as passwords

ASSUME SeedAssumption == /\ {"aureo", "bueno"} \subseteq Emails
                         /\ {"aureopass", "buenopass"} \subseteq Secrets

VARIABLE users

\* A stored password is a legacy plain text or an argon2 hash of a secret.
Password   == [hashed : BOOLEAN, secret : Secrets]
Legacy(s)  == [hashed |-> FALSE, secret |-> s]
Hashed(s)  == [hashed |-> TRUE,  secret |-> s]
NoPassword == [hashed |-> FALSE]

User == [id : Nat, email : Emails, password : Password]

SeedUsers ==
    << [id |-> 0, email |-> "aureo", password |-> Legacy("aureopass")],
       [id |-> 1, email |-> "bueno", password |-> Legacy("buenopass")] >>

UsersInit == users = SeedUsers

\* users.find(item => item.email === email): the first match, or undefined.
FindByEmail(email) == SelectInSeq(users, LAMBDA u : u.email = email)

\* users.find(item => item.id === id)
FindOne(id) == SelectInSeq(users, LAMBDA u : u.id = id)

\* push({ id: last id + 1, ...input }); nothing makes the email unique.
Create(email, password) ==
    users' = Append(users,
                    [id |-> IF users = <<>> THEN 0 ELSE users[Len(users)].id + 1,
                     email |-> email, password |-> password])

\* user.password = password, when there is such a user.
UpdatePassword(id, password) ==
    users' = IF FindOne(id) = 0 THEN users
             ELSE [users EXCEPT ![FindOne(id)].password = password]

UsersTypeOK == users \in Seq(User)
==============================================================================
