---------------------------- MODULE MCShieldAuth ----------------------------
(* An instance of ShieldAuth for TLC: who calls which service. *)
EXTENDS ShieldAuth, TLC

MCEmails    == {"aureo", "Aureo ", "bueno", "carla"}
MCCanonical == [e \in MCEmails |-> IF e = "Aureo " THEN "aureo" ELSE e]
MCSecrets   == {"aureopass", "buenopass", "new"}
MCIPs       == {"ip1"}
MCAgents    == {"ua1"}

ACall(op, email, password, newPassword) ==
    [op |-> op, email |-> email, ip |-> "ip1", ua |-> "ua1",
     password |-> password, newPassword |-> newPassword, userId |-> 2]

AnInviteCall(op) == [op |-> op, email |-> "carla", password |-> "new"]

(* One newcomer signs up, is invited, or both; a seeded user resets.       *)
MCCalls == {ACall("login", "carla", "new", "new"), ACall("signUp", "carla", "new", "new"),
            ACall("forgot", "Aureo ", "new", "new"), ACall("reset", "aureo", "new", "new"),
            ACall("change", "carla", "new", "aureopass"),
            ACall("refresh", "carla", "new", "new")}

MCInviteCalls == {AnInviteCall(op) : op \in {"invite", "complete"}}
==============================================================================
