-------------------------- MODULE MCNotificationOutbox --------------------------
\* NotificationOutbox for TLC: a threat alert for Telegram, a password reset, and
\* a second reset of the same account.
EXTENDS NotificationOutbox, TLC

CONSTANTS threat, reset, renewed

MCDeadline == (threat :> 3) @@ (reset :> 2)
MCLongDeadline == (threat :> 4) @@ (reset :> 3)
MCResetDeadline == (reset :> 2) @@ (renewed :> 3)
MCAccount == reset :> "account"
MCOneAccount == (reset :> "account") @@ (renewed :> "account")
MCSymmetry == Permutations(Workers)
================================================================================
