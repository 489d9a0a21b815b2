------------------------- MODULE MCInviteUserService -------------------------
(* Instances of InviteUserService for TLC: who calls what. *)
EXTENDS InviteUserService, TLC

MCEmails    == {"aureo", "bueno", "carla", "Carla ", "dora"}
MCCanonical == [e \in MCEmails |-> IF e = "Carla " THEN "carla" ELSE e]
MCSecrets   == {"aureopass", "buenopass", "new"}
MCIPs       == {"ip1"}
MCAgents    == {"ua1"}

ACall(op, email) == [op |-> op, email |-> email, password |-> "new"]

(* Two people are invited, one of them under two spellings. *)
InviteCalls == {ACall("invite", "carla"), ACall("resend", "Carla "),
                ACall("validate", "carla"), ACall("cancel", "carla"),
                ACall("complete", "Carla "),
                ACall("invite", "dora"), ACall("complete", "dora")}

RequestSymmetry == Permutations(Requests)
==============================================================================
