-------------------------------- MODULE Reach --------------------------------
(***************************************************************************)
(* How far a caller reaches: which rows of their organisation they see and *)
(* act on, and why no others.                                              *)
(*                                                                         *)
(* Within the organisation (rbac/caller-scope.service.ts) manager maps     *)
(* each employee to the one they report to, or to none; live are those not *)
(* deleted.  A role grants the permission asked for at a scope, or does    *)
(* not grant it at all; sign-up and the roles page store no other scopes   *)
(* than team and global.                                                   *)
(*                                                                         *)
(* Across organisations (tenant/prisma-tenant.extension.ts) an extension   *)
(* of the client rewrites the top level of a query before the database     *)
(* sees it.  A row has the organisation it is of and a key unique within   *)
(* it; a query names a key and an organisation, or leaves either Unbound,  *)
(* and so does the data it writes.                                         *)
(***************************************************************************)
EXTENDS Integers, FiniteSets

CONSTANTS
    Nobody,     \* no manager, no employee record, no grant
    MaxDepth,   \* how deep the walk goes, 10 in the code
    Unbound     \* a query or its data name no such value

ASSUME ReachAssumption == MaxDepth \in Nat

(* The breadth-first walk: each level, the live employees who report to    *)
(* the last one and were not met before.                                   *)
TeamEmployeeIds(boss, manager, live) ==
    LET walk[depth \in 0 .. MaxDepth] ==
            IF depth = 0 THEN [all |-> {boss}, frontier |-> {boss}]
            ELSE LET last == walk[depth - 1]
                     new  == {e \in live : manager[e] \in last.frontier} \ last.all
                 IN  [all |-> last.all \union new, frontier |-> new]
    IN  walk[MaxDepth].all

Rank == [team |-> 2, global |-> 3]

(* The highest scope of a user's roles. *)
ScopeFor(grants) ==
    LET held == grants \ {Nobody}
    IN  IF held = {} THEN Nobody
        ELSE CHOOSE scope \in held : \A other \in held : Rank[scope] >= Rank[other]

(* teamFilterFor: which employees' rows a list shows; none of them when    *)
(* the caller has no record of their own.                                  *)
TeamFilterFor(me, grants, manager, live) ==
    IF ScopeFor(grants) # "team" THEN DOMAIN manager
    ELSE IF me \notin live THEN {}
    ELSE TeamEmployeeIds(me, manager, live)

CanActOnEmployee(me, grants, target, manager, live) ==
    ScopeFor(grants) = "team" =>
        me \in live /\ target \in TeamEmployeeIds(me, manager, live)

(* The permission guard lets nobody in whose roles do not grant it.        *)
Lists(me, grants, manager, live) ==
    IF grants \subseteq {Nobody} THEN {} ELSE TeamFilterFor(me, grants, manager, live)

ActsOn(me, grants, manager, live) ==
    {e \in DOMAIN manager : grants \ {Nobody} # {} /\ CanActOnEmployee(me, grants, e, manager, live)}

-----------------------------------------------------------------------------
(* The rewriting of queries. *)

Reads   == {"findUnique", "findMany", "count"}
Mutates == {"updateMany", "deleteMany"}
Creates == {"create", "createMany"}

Scoped(q, context) == context # Unbound /\ q.model \notin {"Permission", "Organization"}

AssertWhereOrgMatches(where, org) == where.org \in {Unbound, org}

\* mutant: only what a caller names is checked, nothing is added
WithCallersWhere(where, org) == where

WithTenantWhere(where, org) == [where EXCEPT !.org = org]

(* What the caller's data says wins over the context. *)
WithTenantData(data, org) == IF data.org = Unbound THEN [data EXCEPT !.org = org] ELSE data

(* TenantBoundaryViolation *)
Violates(q, context) ==
    /\ Scoped(q, context) /\ q.op \in Reads \union Mutates \union {"upsert"}
    /\ ~AssertWhereOrgMatches(q.where, context)

AllOperations(q, context) ==
    CASE ~Scoped(q, context)             -> q
      [] q.op \in Reads \union Mutates   -> [q EXCEPT !.where = WithTenantWhere(@, context)]
      [] q.op \in Creates                -> [q EXCEPT !.data = WithTenantData(@, context)]
      [] q.op = "upsert"                 -> [q EXCEPT !.where = WithTenantWhere(@, context),
                                                      !.data = WithTenantData(@, context)]
      [] OTHER                           -> q

(* The context is the caller's organisation; public routes have none.      *)
ContextOf(user) == IF user = Unbound THEN Unbound ELSE user.organization

-----------------------------------------------------------------------------
(* The database. *)

Matched(table, where) ==
    {row \in table : /\ where.key \in {Unbound, row.key} /\ where.org \in {Unbound, row.org}}

(* The rows a query answers with and the table after it; an update marks   *)
(* its rows.                                                               *)
Execute(q, table) ==
    LET found   == Matched(table, q.where)
        marked  == (table \ found) \union {[row EXCEPT !.mark = TRUE] : row \in found}
        new     == [key |-> q.data.key, org |-> q.data.org, mark |-> TRUE]
        created == IF \E row \in table : row.key = new.key /\ row.org = new.org
                   THEN [read |-> {}, table |-> table]
                   ELSE [read |-> {new}, table |-> table \union {new}]
    IN  CASE q.op \in Reads          -> [read |-> found, table |-> table]
          [] q.op = "updateMany"     -> [read |-> {}, table |-> marked]
          [] q.op = "deleteMany"     -> [read |-> {}, table |-> table \ found]
          [] q.op \in Creates        -> created
          [] q.op = "upsert" /\ found # {} -> [read |-> found, table |-> marked]
          [] OTHER                   -> created
=============================================================================
