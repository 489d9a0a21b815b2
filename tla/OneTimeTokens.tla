---------------------------- MODULE OneTimeTokens ----------------------------
(***************************************************************************)
(* What the one-time tokens mailed to people promise, whatever the service *)
(* that mails them: password reset links (AuthService) and invites         *)
(* (InviteUserService).  Tokens are numbered in the order of their issue.  *)
(* To issue a token supersedes the earlier ones of the same subject; a     *)
(* token stops being active once and for all; all are lost together when   *)
(* the process restarts.                                                   *)
(***************************************************************************)
EXTENDS Naturals, Sequences

VARIABLES
    issued,     \* the subject of every token issued, oldest first
    active      \* the numbers of the tokens that can still be used
tokenVars == <<issued, active>>

TokensInit == issued = <<>> /\ active = {}

Issue == /\ \E s \in {issued'[i] : i \in DOMAIN issued'} : issued' = Append(issued, s)
         /\ active' = {i \in active : issued[i] # issued'[Len(issued')]}
                        \cup {Len(issued')}

Withdraw == /\ \E i \in active : active' = active \ {i}
            /\ UNCHANGED issued

LoseAll == issued' = <<>> /\ active' = {}

TokensNext == Issue \/ Withdraw \/ LoseAll

TokensSpec == TokensInit /\ [][TokensNext]_tokenVars
==============================================================================
