----------------------------- MODULE UserTable -----------------------------
(***************************************************************************)
(* The users of one organisation: what the account handlers write and the  *)
(* session handlers read.  Of a user's roles only super_admin is kept: it  *)
(* is the one the guards ask for, and no endpoint grants it.               *)
(***************************************************************************)
EXTENDS FiniteSets, Tables

CONSTANTS
    Users,      \* the users of the organisation
    Founders    \* those who hold super_admin when the history starts

ASSUME UsersAssumption == IsFiniteSet(Users) /\ Founders \subseteq Users

VARIABLE users

UserStatus == {"invited", "active", "disabled"}
User       == [status: UserStatus, super: BOOLEAN]

SuperAdmins       == {u \in Users : users[u].super}
ActiveSuperAdmins == {u \in SuperAdmins : users[u].status = "active"}

SetStatus(u, status) == users' = [users EXCEPT ![u].status = status]

UsersInit ==
    /\ users \in [Users -> User]
    /\ SuperAdmins = Founders
    /\ \A u \in Founders : users[u].status = "active"
=============================================================================
