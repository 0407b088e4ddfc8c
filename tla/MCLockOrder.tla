---------------------------- MODULE MCLockOrder ----------------------------
EXTENDS LockOrder, TLC

CONSTANTS u1, u2, t1, r1, r2
MCUsers == {u1, u2}
MCRoles == {r1, r2}
MCOwner == t1 :> u1
AccountOps == {"refresh", "login", "change_password", "reset_password", "forgot_password",
               "change_email", "verify_change_email", "delete_user"}
RoleOps == {"update_role", "delete_role", "change_roles"}
InvitationOps == {"delete_role", "invite", "resend_invite", "accept_invite", "delete_user"}
MCFamilies == {AccountOps, RoleOps, InvitationOps}
==============================================================================
