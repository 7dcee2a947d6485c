----------------------------- MODULE AccessControl -----------------------------
(***************************************************************************)
(* The roles of the users and what a facade's decorator makes of them.     *)
(***************************************************************************)
EXTENDS Naturals

RoleHierarchy == [CREATOR |-> 1, SI_PARTNER |-> 2, FIELD_ENGINEER |-> 3,
                  FACTORY_MANAGER |-> 4, SYSTEM_ADMIN |-> 5]

HasPermission(role, required) == RoleHierarchy[role] >= RoleHierarchy[required]

================================================================================
