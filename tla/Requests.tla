------------------------------- MODULE Requests -------------------------------
(***************************************************************************)
(* What a controller is given once the middlewares are through             *)
(* (config/passport.ts, middlewares/isAdmin.ts, the checks of DTOs and     *)
(* path parameters): who sent the request, whether the routes of admins    *)
(* are open to him, and whether what he sent is well formed.               *)
(***************************************************************************)

CONSTANT Guest  \* nobody: the JWT check let no user through

Requests(users) == [user : users \cup {Guest}, admin : BOOLEAN, valid : BOOLEAN]

SignedIn(q)   == q.user # Guest
WellFormed(q) == SignedIn(q) /\ q.valid
ByAdmin(q)    == WellFormed(q) /\ q.admin
=============================================================================
