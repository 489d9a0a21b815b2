---------------------------- MODULE MCAuthService ----------------------------
(* Instances of AuthService for TLC: who calls what, in each of the runs. *)
EXTENDS AuthService, TLC

MCEmails    == {"aureo", "Aureo ", "bueno", "carla", "nobody"}
MCCanonical == [e \in MCEmails |-> IF e = "Aureo " THEN "aureo" ELSE e]
MCSecrets   == {"aureopass", "buenopass", "carlapass", "new", "wrong"}
MCIPs       == {"ip1", "ip2"}
MCAgents    == {"ua1"}

Base == [op |-> "login", email |-> "aureo", ip |-> "ip1", ua |-> "ua1",
         password |-> "wrong", newPassword |-> "new", userId |-> 0]

LoginAs(email, password, ip) ==
    [Base EXCEPT !.email = email, !.password = password, !.ip = ip]
SignUpAs(email)    == [Base EXCEPT !.op = "signUp", !.email = email, !.password = "carlapass"]
ForgotFor(email)   == [Base EXCEPT !.op = "forgot", !.email = email]
ResetFor(email, p) == [Base EXCEPT !.op = "reset", !.email = email, !.newPassword = p]
ChangeTo(old, new) == [Base EXCEPT !.op = "change", !.password = old, !.newPassword = new]
RefreshCall        == [Base EXCEPT !.op = "refresh"]
LogoutCall         == [Base EXCEPT !.op = "logout"]

(* Good and bad logins, the same email in two spellings, two addresses. *)
LockoutCalls == {LoginAs("aureo", "aureopass", "ip1"), LoginAs("aureo", "wrong", "ip1"),
                 LoginAs("Aureo ", "wrong", "ip2"), LoginAs("bueno", "buenopass", "ip2"),
                 LoginAs("nobody", "wrong", "ip1")}

SessionCalls == {LoginAs("aureo", "aureopass", "ip1"), LoginAs("carla", "carlapass", "ip1"),
                 SignUpAs("carla"), SignUpAs("Aureo "), RefreshCall, LogoutCall}

PasswordCalls == {LoginAs("aureo", "aureopass", "ip1"), LoginAs("aureo", "new", "ip1"),
                  ForgotFor("Aureo "), ResetFor("aureo", "new"),
                  ChangeTo("aureopass", "new"), ChangeTo("new", "new")}

AllCalls == LockoutCalls \cup SessionCalls \cup PasswordCalls \cup {ForgotFor("nobody")}

RequestSymmetry == Permutations(Requests)
==============================================================================
