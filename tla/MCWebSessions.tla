--------------------------- MODULE MCWebSessions ---------------------------
(* Two tabs of one browser: two requests in one, one in the other.         *)
EXTENDS WebSessions, TLC
CONSTANTS a1, a2, b1, tabA, tabB
Ownership == (a1 :> tabA) @@ (a2 :> tabA) @@ (b1 :> tabB)
Asks == (a1 :> {"get", "login", "register"}) @@ (a2 :> {"get", "logout"})
        @@ (b1 :> {"get", "post"})
=============================================================================
