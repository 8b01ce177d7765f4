---------------------------- MODULE MCHttpSession ----------------------------
EXTENDS HttpSession, TLC
CONSTANTS w, s

MCKindsOf == (w :> {"expect", "close", "unread"}) @@ (s :> {"large"})
==============================================================================
