------------------------------- MODULE Access -------------------------------
(***************************************************************************)
(* Who may call what: the accounts of services/users.py as administrators  *)
(* edit them (gateway/routers/admin/users.py), the session_context row in  *)
(* which a record is mirrored for the data plane, the tokens that carry a  *)
(* copy of the record for as long as they last (services/admin_session.py, *)
(* gateway/routers/auth.py), and the way of a tools/call through           *)
(* AuthMiddleware, RbacMiddleware and AuthorizationService, which reads    *)
(* the tool catalog and a tool policy that every replica caches.           *)
(*                                                                         *)
(* One tenant under auth_mode hs256.  An administrator's request is about  *)
(* a record, by its id; its row and its tokens know it by its address,     *)
(* which a deleted record frees.  Every await is a boundary between steps. *)
(***************************************************************************)
EXTENDS Naturals, FiniteSets

CONSTANTS
  Addresses,
  Presets,    \* kinds of account that are made: demo, team, viewer, root
  Edits,      \* what administrators do to accounts: Changes, and delete
  Editors,    \* administrators' requests, one after the other each
  Setters,    \* requests that set the tool policy, one after the other each
  Calls,      \* tools/call requests, one after the other each
  Replicas,   \* gateway processes
  Tools,
  Catalogs,   \* what the tool catalog may hold: for every tool its action and scopes
  Policies,   \* disabled tools and allowlists that the tenant may have
  BasicAuth,  \* mcp_basic_auth_enabled
  MaxEdits,   \* bound on edits of accounts
  MaxChanges, \* bound on these, catalog syncs, policy changes and failing writes together
  MaxHeld     \* bound on tokens in circulation

Roles == [demo   |-> {"tool:invoke"},
          team   |-> {"tool:invoke"},
          viewer |-> {"viewer", "tool:read"},
          root   |-> {"admin", "platform-admin"}]
\* What a PATCH may set.
Changes == {"disable", "enable", "viewer", "root", "scopes", "password"}
Actions == {"read", "write", "unset"}
Scopes == {"server:*"} \cup UNION {c[t].scopes : c \in Catalogs, t \in Tools}

ASSUME AccessAssumption ==
  /\ Presets \subseteq DOMAIN Roles /\ Edits \subseteq Changes \cup {"delete"}
  /\ BasicAuth \in BOOLEAN /\ {MaxEdits, MaxChanges, MaxHeld} \subseteq Nat
  /\ Catalogs \subseteq [Tools -> [action : Actions, scopes : SUBSET Scopes]]

VARIABLES
  catalog,   \* the tenant's tool_catalog
  users,     \* the users collection
  ctx,       \* the session_context collection
  held,      \* tokens in circulation
  policy,    \* disabled tools and allowlist in the tenant's control document
  cache,     \* _policy_cache of every replica
  edit,      \* where every editor is
  put,       \* where every setter is
  call,      \* where every call is
  edits, changes,
  torn,      \* history: accounts whose last edits overlapped, or broke off
  safe,      \* history: team accounts as created, on the catalog as it was then
  shut       \* history: replicas where a disabled tool is known to be disabled

stores == <<catalog, users, ctx, held, policy, cache>>
counts == <<edits, changes>>
history == <<torn, safe, shut>>
accessVars == <<stores, edit, put, call, counts, history>>

OpenPolicy == [off |-> {}, only |-> {}]
NoAccount == [exists |-> FALSE, id |-> 0, roles |-> {}, scopes |-> {}, active |-> FALSE]
NoRow == [exists |-> FALSE, roles |-> {}, active |-> FALSE]
NoEdit == [pc |-> "idle", user |-> "none", id |-> 0, root |-> FALSE, op |-> "none",
           doc |-> NoAccount, alone |-> FALSE, clean |-> FALSE]
NoCall == [pc |-> "idle", user |-> "none", roles |-> {}, scopes |-> {}, tool |-> "none",
           at |-> "none", doc |-> [action |-> "none", scopes |-> {}], policy |-> OpenPolicy]
NoPut == [pc |-> "idle", at |-> "none", policy |-> OpenPolicy]
NoPolicy == [live |-> FALSE, policy |-> OpenPolicy]

-----------------------------------------------------------------------------
(* Scopes that are derived from the catalog                                *)

\* _is_readonly_tool: what cannot be classified is unsafe.
ReadOnly(tool) == tool.action = "read" \/ (tool.action = "unset" /\ "readonly" \in tool.scopes)

\* Not that for a server, should a tool ask for one.
ScopesOf(S) == (UNION {catalog[t].scopes : t \in S}) \ {"server:*"}

DeriveDemo == {"server:*"} \cup ScopesOf(Tools)

\* Mutant: a scope that a writer shares is granted all the same.
DeriveShared == {"server:*"} \cup ScopesOf({t \in Tools : ReadOnly(catalog[t])})

DeriveSafe == {"server:*"} \cup (ScopesOf({t \in Tools : ReadOnly(catalog[t])})
                                  \ ScopesOf({t \in Tools : ~ReadOnly(catalog[t])}))

Made(p, id) == [exists |-> TRUE, id |-> id, active |-> TRUE, roles |-> Roles[p],
                scopes |-> CASE p = "team" -> DeriveSafe [] p = "root" -> {} [] OTHER -> DeriveDemo]
Row(doc) == [exists |-> doc.exists, roles |-> doc.roles, active |-> doc.active]

\* Accounts made earlier, each one mirrored, or none.
AccessInit ==
  /\ catalog \in Catalogs
  /\ users \in [Addresses -> {NoAccount} \cup {Made(p, 0) : p \in Presets}]
  /\ ctx = [u \in Addresses |-> Row(users[u])]
  /\ held = {} /\ policy = OpenPolicy /\ cache = [p \in Replicas |-> NoPolicy]
  /\ edit = [a \in Editors |-> NoEdit] /\ put = [s \in Setters |-> NoPut] /\ call = [c \in Calls |-> NoCall]
  /\ edits = 0 /\ changes = 0
  /\ torn = {} /\ safe = {u \in Addresses : users[u] = Made("team", 0)} /\ shut = Replicas

-----------------------------------------------------------------------------
(* Editing accounts                                                        *)

Writing(a) == edit[a].pc \in {"reread", "sync", "clear"}
Busy(u) == \E a \in Editors : Writing(a) /\ edit[a].user = u
Event == changes < MaxChanges /\ changes' = changes + 1 /\ UNCHANGED edits
Edit == /\ edits < MaxEdits /\ edits' = edits + 1
        /\ changes < MaxChanges /\ changes' = changes + 1

\* The record an edit is about is there still.
Found(a) == LET doc == users[edit[a].user] IN doc.exists /\ doc.id = edit[a].id

\* An edit that begins to write while another has not finished spoils both; so does one
\* that finds nothing to write to and goes on.
Begins(a, entry, found) ==
  edit' = [b \in Editors |->
    IF b = a THEN [entry EXCEPT !.alone = found /\ ~Busy(entry.user)]
    ELSE [edit[b] EXCEPT !.alone = @ /\ ~(Writing(b) /\ edit[b].user = entry.user)]]
Ends(a) == edit' = [edit EXCEPT ![a] = NoEdit]
Settles(a) == torn' = IF edit[a].alone THEN torn \ {edit[a].user} ELSE torn \cup {edit[a].user}

\* Mutant: what is granted is not looked at.
AssignAny(root, roles) == TRUE

\* _assert_can_assign_roles: a tenant's own administrator makes no platform administrator.
MayAssign(root, roles) == root \/ "platform-admin" \notin roles

\* The presets read the catalog first; a plain POST /users, of which the administrator is
\* an example, does not.  An id is as good as any that nobody else has.
CreateUser(a, u, p, root) ==
  /\ edit[a].pc = "idle" /\ Edit
  /\ MayAssign(root, Roles[p])
  /\ edit' = [edit EXCEPT ![a] = [NoEdit EXCEPT
       !.pc = "insert", !.user = u, !.id = edits', !.root = root,
       !.clean = (p = "team"), !.doc = Made(p, edits')]]
  /\ UNCHANGED <<stores, put, call, history>>

Known(u) == u \in {k.user : k \in held} \cup {call[c].user : c \in Calls}

\* create_user; an address that is taken is refused.
Insert(a) ==
  LET e == edit[a] IN
  /\ e.pc = "insert"
  /\ IF users[e.user].exists
       THEN Ends(a) /\ UNCHANGED <<users, safe>>
       ELSE /\ users' = [users EXCEPT ![e.user] = e.doc]
            /\ Begins(a, [NoEdit EXCEPT !.pc = "sync", !.user = e.user, !.doc = e.doc], TRUE)
            /\ safe' = safe \cup {x \in {e.user} : e.clean /\ ~Known(x) /\ ctx[x] = NoRow /\ ~Busy(x)}
  /\ UNCHANGED <<catalog, ctx, held, policy, cache, put, call, counts, torn, shut>>

\* A new password changes nothing that is modelled.
Changed(doc, op) ==
  CASE op = "disable" -> [doc EXCEPT !.active = FALSE]
    [] op = "enable" -> [doc EXCEPT !.active = TRUE]
    [] op \in {"viewer", "root"} -> [doc EXCEPT !.roles = Roles[op]]
    [] op = "scopes" -> [doc EXCEPT !.scopes = DeriveDemo]
    [] OTHER -> doc

\* _load_managed_user: nor does one manage a platform administrator.
Load(a, u, root, op) ==
  /\ edit[a].pc = "idle" /\ Edit
  /\ users[u].exists
  /\ root \/ "platform-admin" \notin users[u].roles
  /\ MayAssign(root, IF op = "root" THEN Roles.root ELSE {})
  /\ edit' = [edit EXCEPT ![a] = [NoEdit EXCEPT
       !.pc = IF op = "delete" THEN "find" ELSE "write", !.user = u, !.id = users[u].id,
       !.root = root, !.op = op,
       !.doc = [NoAccount EXCEPT !.roles = users[u].roles \cap {"platform-admin"}]]]
  /\ UNCHANGED <<stores, put, call, history>>

\* update_user: the update ...
Write(a) ==
  LET e == edit[a] IN
  /\ e.pc = "write"
  /\ IF Found(a)
       THEN /\ users' = [users EXCEPT ![e.user] = Changed(@, e.op)]
            /\ Begins(a, [NoEdit EXCEPT !.pc = "reread", !.user = e.user, !.id = e.id], TRUE)
            /\ safe' = safe \ {x \in {e.user} : e.op \in {"viewer", "root", "scopes"}}
       ELSE Ends(a) /\ UNCHANGED <<users, safe>>
  /\ UNCHANGED <<catalog, ctx, held, policy, cache, put, call, counts, torn, shut>>

\* ... and the document read again, which is what the caller mirrors.
Reread(a) ==
  LET u == edit[a].user IN
  /\ edit[a].pc = "reread"
  /\ IF Found(a)
       THEN edit' = [edit EXCEPT ![a].pc = "sync", ![a].id = 0, ![a].doc = users[u]] /\ UNCHANGED torn
       ELSE Ends(a) /\ torn' = torn \cup {u}
  /\ UNCHANGED <<stores, put, call, counts, safe, shut>>

\* Mutant: the row keeps the status it has.
SyncRoles(a) ==
  LET u == edit[a].user  doc == edit[a].doc IN
  /\ edit[a].pc = "sync"
  /\ ctx' = [ctx EXCEPT ![u] = [exists |-> TRUE, roles |-> doc.roles, active |-> @.active \/ ~@.exists]]
  /\ Ends(a) /\ Settles(a)
  /\ UNCHANGED <<catalog, users, held, policy, cache, put, call, counts, safe, shut>>

\* sync_session_context
Sync(a) ==
  LET u == edit[a].user  doc == edit[a].doc IN
  /\ edit[a].pc = "sync"
  /\ ctx' = [ctx EXCEPT ![u] = Row(doc)]
  /\ Ends(a) /\ Settles(a)
  /\ UNCHANGED <<catalog, users, held, policy, cache, put, call, counts, safe, shut>>

\* delete_user reads the record, ...
Find(a) ==
  /\ edit[a].pc = "find"
  /\ IF Found(a) THEN edit' = [edit EXCEPT ![a].pc = "remove"] ELSE Ends(a)
  /\ UNCHANGED <<stores, put, call, counts, history>>

\* ... removes it, if nobody else has since, ...
Remove(a) ==
  LET e == edit[a] IN
  /\ e.pc = "remove"
  /\ Begins(a, [NoEdit EXCEPT !.pc = "clear", !.user = e.user], Found(a))
  /\ users' = IF Found(a) THEN [users EXCEPT ![e.user] = NoAccount] ELSE users
  /\ safe' = IF Found(a) THEN safe \ {e.user} ELSE safe
  /\ UNCHANGED <<catalog, ctx, held, policy, cache, put, call, counts, torn, shut>>

\* ... and clears the row of its address, whoever has that by now.
Clear(a) ==
  /\ edit[a].pc = "clear"
  /\ ctx' = [ctx EXCEPT ![edit[a].user] = NoRow]
  /\ Ends(a) /\ Settles(a)
  /\ UNCHANGED <<catalog, users, held, policy, cache, put, call, counts, safe, shut>>

\* A write fails, or the process dies: the account and its row differ from then on.
Breaks(a) ==
  /\ Writing(a) /\ Event
  /\ Ends(a)
  /\ torn' = torn \cup {edit[a].user}
  /\ UNCHANGED <<stores, put, call, safe, shut>>

-----------------------------------------------------------------------------
(* Tokens, which outlast everything here                                   *)

Hold(k) == held' = held \cup {k} /\ Cardinality(held \cup {k}) <= MaxHeld
Bearer(u) == [form |-> "bearer", user |-> u, roles |-> users[u].roles, scopes |-> users[u].scopes]
SessionToken(u) == [form |-> "session", user |-> u, roles |-> users[u].roles, scopes |-> {}]

\* POST /auth/token and the console's login: authenticate wants an active account.
Login(u) ==
  /\ users[u].exists /\ users[u].active
  /\ Hold(Bearer(u)) \/ Hold(SessionToken(u))
  /\ UNCHANGED <<catalog, users, ctx, policy, cache, edit, put, call, counts, history>>

\* POST /admin/users/{id}/token does not ask for the status.
MintToken(u) ==
  /\ users[u].exists
  /\ Hold(Bearer(u))
  /\ UNCHANGED <<catalog, users, ctx, policy, cache, edit, put, call, counts, history>>

-----------------------------------------------------------------------------
(* A tools/call                                                            *)

\* RbacMiddleware: the row decides on the status and adds its roles; no row, no check.
Gate(c, u, roles, scopes) ==
  LET row == ctx[u]
      all == roles \cup row.roles
  IN call' = [call EXCEPT ![c] =
       IF (row.exists /\ ~row.active) \/ all \cap {"admin", "tool:invoke", "tool:read"} = {}
         THEN NoCall
         ELSE [NoCall EXCEPT !.pc = "tool", !.user = u, !.roles = all, !.scopes = scopes]]

\* AuthMiddleware reads a token without waiting for anything, so this is one step.  A
\* session has no scopes; without a role for the console it is read again as a bearer token,
\* which it is where one secret signs both (the default).
Admit(c, k) ==
  /\ call[c].pc \in {"idle", "ran"}
  /\ Gate(c, k.user, k.roles, k.scopes)
  /\ UNCHANGED <<stores, edit, put, counts, history>>

\* HTTP Basic reads the account first.
Authenticate(c, u) ==
  /\ call[c].pc \in {"idle", "ran"}
  /\ BasicAuth /\ users[u].exists /\ users[u].active
  /\ call' = [call EXCEPT ![c] = [NoCall EXCEPT !.pc = "rbac", !.user = u, !.roles = users[u].roles]]
  /\ UNCHANGED <<stores, edit, put, counts, history>>

AdmitBasic(c) ==
  /\ call[c].pc = "rbac"
  /\ Gate(c, call[c].user, call[c].roles, {})
  /\ UNCHANGED <<stores, edit, put, counts, history>>

\* AuthorizationService.get_tool; what is called, and by which replica, is settled from
\* the start, but nothing has asked before.
GetTool(c, t, p) ==
  /\ call[c].pc = "tool"
  /\ call' = [call EXCEPT ![c].pc = "policy", ![c].tool = t, ![c].at = p, ![c].doc = catalog[t]]
  /\ UNCHANGED <<stores, edit, put, counts, history>>

\* Mutant: an administrator may call what is disabled.
AllowAdmins(c, pol) ==
  LET k == call[c] IN
  \/ "admin" \in k.roles
  \/ /\ k.tool \notin pol.off /\ "tool:invoke" \in k.roles
     /\ pol.only = {} \/ k.tool \in pol.only
     /\ "server:*" \in k.scopes
     /\ k.doc.scopes = {} \/ k.doc.scopes \cap k.scopes # {}

\* authorize_tool_call, once tool and policy are read.  That a tool is disabled goes
\* before everything, the administrator's override included; a tool that asks for no
\* scope is open to whoever may invoke on its server.
Allowed(c, pol) ==
  LET k == call[c] IN
  /\ k.tool \notin pol.off
  /\ \/ "admin" \in k.roles
     \/ /\ "tool:invoke" \in k.roles
        /\ pol.only = {} \/ k.tool \in pol.only
        /\ "server:*" \in k.scopes
        /\ k.doc.scopes = {} \/ k.doc.scopes \cap k.scopes # {}

\* The call is refused, or runs; what becomes of it then is ToolCall's.
Decide(c, pol) == call' = [call EXCEPT ![c] = [NoCall EXCEPT !.pc = IF Allowed(c, pol) THEN "ran" ELSE "idle"]]

\* get_tool_policy: from the replica's cache while that lasts, ...
CachedPolicy(c) ==
  /\ call[c].pc = "policy" /\ cache[call[c].at].live
  /\ Decide(c, cache[call[c].at].policy)
  /\ UNCHANGED <<stores, edit, put, counts, history>>

\* ... else from the tenant's document, ...
ReadPolicy(c) ==
  /\ call[c].pc = "policy" /\ ~cache[call[c].at].live
  /\ call' = [call EXCEPT ![c].pc = "store", ![c].policy = policy]
  /\ UNCHANGED <<stores, edit, put, counts, history>>

\* ... which goes into the cache whatever has got there since.
StorePolicy(c) ==
  /\ call[c].pc = "store"
  /\ cache' = [cache EXCEPT ![call[c].at] = [live |-> TRUE, policy |-> call[c].policy]]
  /\ Decide(c, call[c].policy)
  /\ UNCHANGED <<catalog, users, ctx, held, policy, edit, put, counts, history>>

-----------------------------------------------------------------------------
(* The catalog and the policy                                              *)

\* The registry rewrites the catalog from the servers; nobody derives scopes again.
SyncCatalog(new) ==
  /\ Event
  /\ new # catalog /\ catalog' = new
  /\ edit' = [a \in Editors |-> [edit[a] EXCEPT !.clean = FALSE]]
  /\ safe' = {}
  /\ UNCHANGED <<users, ctx, held, policy, cache, put, call, torn, shut>>

Reading(p) == \/ \E c \in Calls : call[c].pc = "store" /\ call[c].at = p
              \/ \E s \in Setters : put[s].pc = "store" /\ put[s].at = p

\* set_tool_enabled and set_tool_policy write the document, ...
SetPolicy(s, p, new) ==
  /\ put[s].pc = "idle" /\ Event
  /\ new # policy /\ policy' = new
  /\ put' = [put EXCEPT ![s] = [pc |-> "store", at |-> p, policy |-> new]]
  /\ shut' = IF new.off \subseteq policy.off THEN shut
             ELSE {q \in shut : ~cache[q].live /\ ~Reading(q)}
  /\ UNCHANGED <<catalog, users, ctx, held, cache, edit, call, torn, safe>>

\* ... and then the cache of their own replica, whatever the document says by then.
StorePut(s) ==
  LET p == put[s].at IN
  /\ put[s].pc = "store"
  /\ cache' = [cache EXCEPT ![p] = [live |-> TRUE, policy |-> put[s].policy]]
  /\ put' = [put EXCEPT ![s] = NoPut]
  /\ UNCHANGED <<catalog, users, ctx, held, policy, edit, call, counts, torn, safe>>
  /\ shut' = shut \cup {q \in {p} : put[s].policy = policy /\ ~Reading(q)'}

\* An entry runs out.  From then on the replica knows what the document says, unless
\* somebody who has an older document is yet to store it.
CacheExpires(p) ==
  /\ cache[p].live
  /\ cache' = [cache EXCEPT ![p] = NoPolicy]
  /\ shut' = shut \cup {q \in {p} : ~Reading(p)}
  /\ UNCHANGED <<catalog, users, ctx, held, policy, edit, put, call, counts, torn, safe>>

-----------------------------------------------------------------------------
EditStep(a) == \/ Insert(a) \/ Write(a) \/ Reread(a) \/ Sync(a) \/ Find(a) \/ Remove(a) \/ Clear(a)
               \/ Breaks(a)
               \/ \E u \in Addresses, root \in BOOLEAN :
                    \/ \E p \in Presets : CreateUser(a, u, p, root)
                    \/ \E op \in Edits : Load(a, u, root, op)
TokenStep(u) == Login(u) \/ MintToken(u)
CallStep(c) == \/ \E k \in held : Admit(c, k)
               \/ \E u \in Addresses : Authenticate(c, u)
               \/ \E t \in Tools, p \in Replicas : GetTool(c, t, p)
               \/ AdmitBasic(c) \/ CachedPolicy(c) \/ ReadPolicy(c) \/ StorePolicy(c)
PolicyStep == \/ \E new \in Catalogs : SyncCatalog(new)
              \/ \E p \in Replicas : CacheExpires(p)
              \/ \E s \in Setters : StorePut(s)
              \/ \E s \in Setters, p \in Replicas, new \in Policies : SetPolicy(s, p, new)

AccessNext == \/ \E a \in Editors : EditStep(a)
              \/ \E u \in Addresses : TokenStep(u)
              \/ \E c \in Calls : CallStep(c)
              \/ PolicyStep

AccessSpec == AccessInit /\ [][AccessNext]_accessVars

-----------------------------------------------------------------------------
(* Properties                                                              *)

Runs(c) == call[c].pc # "ran" /\ call'[c].pc = "ran"

\* The account kill-switch of rbac.py: once an account is disabled and nobody is
\* writing it, no token of it gets through, however long it lasts; only edits that
\* overlapped, or one that broke off, leave the row out of step with the account.
KillSwitchHolds ==
  [][\A c \in Calls : (call[c].pc # "tool" /\ call'[c].pc = "tool") =>
        LET u == call'[c].user IN
        (users[u].exists /\ ~users[u].active) => (u \in torn \/ Busy(u))]_accessVars

\* A team account runs only read-only tools while the catalog is the one its scopes
\* were derived from, except a tool that asks for no scope at all, or for the one that
\* every preset has.
TeamRunsReadOnly ==
  [][\A c \in Calls : (Runs(c) /\ call[c].user \in safe) =>
        LET doc == call[c].doc IN
        ReadOnly(doc) \/ doc.scopes = {} \/ "server:*" \in doc.scopes]_accessVars

\* A disabled tool is out of service for everybody, administrators included: where
\* it was disabled as soon as that request is through, elsewhere when the cached policy
\* has run out.  A read of the policy that was under way, or another request that sets
\* it, puts an older one back for one more lifetime.
DisabledToolIsOut ==
  [][\A c \in Calls : (Runs(c) /\ call[c].at \in shut) => call[c].tool \notin policy.off]_accessVars

\* Only a platform administrator changes a platform administrator's account, or makes
\* one, unless the account became one between the check and the change.
PlatformAccountsGuarded ==
  [][\A a \in Editors :
        LET u == edit[a].user IN
        (edit[a].pc \in {"insert", "write", "remove"} /\ edit'[a].pc # edit[a].pc /\ ~edit[a].root) =>
          IF "platform-admin" \in users[u].roles
            THEN users'[u] = users[u] \/ "platform-admin" \notin edit[a].doc.roles
            ELSE "platform-admin" \notin users'[u].roles]_accessVars
=============================================================================
