-------------------------------- MODULE MCAccess --------------------------------
(* The instance of Access for TLC.                                         *)
EXTENDS Access, TLC

CONSTANTS r1, r2

MCRoles == {1, 2}

MCRoleRows == [k \in MCRoles |-> IF k = 1 THEN [code |-> "SYSTEM_ADMIN", system |-> TRUE]
                                          ELSE [code |-> "STAFF", system |-> FALSE]]

MCLaterRows == [code : {"MANAGER"}, system : BOOLEAN]

Named(name) == CHOOSE h \in DOMAIN Handlers : Handlers[h].name = name

\* Logout, which is for system roles only, or all handlers.
MCAsked == [s \in {"sessions", "routes"} |->
              IF s = "sessions" THEN {Named("logout")}
                                ELSE {h \in DOMAIN Handlers : ~ Handlers[h].public}]

MCSymmetry == Permutations(Requests)
=============================================================================
