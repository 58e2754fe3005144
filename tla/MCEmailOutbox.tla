--------------------------- MODULE MCEmailOutbox ---------------------------
\* Two mails of one school and one of another, or one of a school and one of a platform
\* account.
EXTENDS EmailOutbox, TLC

CONSTANTS Large, Small      \* the two schools

MCOneSchool == (1 :> Large @@ 2 :> Large)

MCPlatformMail == (1 :> Large @@ 2 :> Platform)
=============================================================================
