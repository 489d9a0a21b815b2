------------------------- MODULE PasswordResetTokens -------------------------
(***************************************************************************)
(* The password reset tokens of AuthService.  The array only grows, and    *)
(* every entry carries 32 fresh random bytes, so an entry is named by its  *)
(* index: presenting the text of a token is presenting its index, and 0    *)
(* stands for any text that is no token of this process.                   *)
(***************************************************************************)
EXTENDS Clients, Sequences, Clock

CONSTANT ResetTtl       \* RESET_PASSWORD_EXPIRES_HOURS, in ticks

ASSUME ResetTtlAssumption == ResetTtl \in Nat \ {0}

VARIABLE passwordResetTokens

ResetToken == [userId : Nat, email : Emails, expires : Nat, active : BOOLEAN]

ResetsInit == passwordResetTokens = <<>>

Deactivated(tokens, userId) ==
    [i \in DOMAIN tokens |->
        IF tokens[i].userId = userId THEN [tokens[i] EXCEPT !.active = FALSE]
                                     ELSE tokens[i]]

\* Mutant: the tokens stay as they are.
LeavePasswordResets(userId) == UNCHANGED passwordResetTokens

\* deactivateActivePasswordResetsForUser
DeactivateActivePasswordResets(userId) ==
    passwordResetTokens' = Deactivated(passwordResetTokens, userId)

\* Mutant: earlier tokens are not superseded.
IssueAnotherPasswordReset(userId, email) ==
    passwordResetTokens' = Append(passwordResetTokens,
        [userId |-> userId, email |-> email, expires |-> now + ResetTtl,
         active |-> TRUE])

\* forgotPassword: deactivate, then push newPasswordResetToken(user).
IssuePasswordReset(userId, email) ==
    passwordResetTokens' = Append(Deactivated(passwordResetTokens, userId),
        [userId |-> userId, email |-> email, expires |-> now + ResetTtl,
         active |-> TRUE])

\* passwordResetTokens.find(...) by owner, email and token text.
ResetTokenMatches(i, userId, email) ==
    /\ i \in DOMAIN passwordResetTokens
    /\ passwordResetTokens[i].userId = userId
    /\ passwordResetTokens[i].email = email

ResetExpired(i) == passwordResetTokens[i].expires <= now

ResetsTypeOK == passwordResetTokens \in Seq(ResetToken)
==============================================================================
