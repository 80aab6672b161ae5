--------------------------- MODULE SessionRegister ---------------------------
(***************************************************************************)
(* What the session pointer of one platform admin promises, with no login, *)
(* no request and no database in sight.  At most one session is current;   *)
(* a session that has been replaced or cleared is retired for good.        *)
(*                                                                         *)
(* AuthService and PasswordReset are shown to implement this register.     *)
(***************************************************************************)
CONSTANTS
    Sessions,   \* identifiers a session can be issued under
    NoSession   \* the pointer of an admin who is logged out

VARIABLES
    current,    \* the session whose tokens validate, or NoSession
    retired     \* the sessions that were current once and no longer are

registerVars == <<current, retired>>

Init ==
    /\ current = NoSession
    /\ retired = {}

Leaving == {current} \ {NoSession}

(* A session never seen before becomes the current one. *)
Issue(s) ==
    /\ s \notin retired \cup {current, NoSession}
    /\ current' = s
    /\ retired' = retired \cup Leaving

(* The pointer is cleared: nobody is logged in. *)
Revoke ==
    /\ current' = NoSession
    /\ retired' = retired \cup Leaving

Next == Revoke \/ \E s \in Sessions : Issue(s)

Spec == Init /\ [][Next]_registerVars

=============================================================================
