--------------------------- MODULE RuntimeConfig ---------------------------
(***************************************************************************)
(* The runtime configuration: a table of sections, a cache of it, and the  *)
(* settings the running parts of the server work with.  An update          *)
(* validates, prepares, saves, sets the cache and commits under a lock; its*)
(* change hooks run after the lock is released.  The request may be        *)
(* dropped at an await, and the process may be restarted.                  *)
(***************************************************************************)
EXTENDS Integers, FiniteSets

CONSTANTS Request,    \* requests that update the configuration
          Secret,     \* secrets of the Google client
          Keep,       \* the placeholder that stands for the stored secret
          NoSecret,   \* no secret
          Address,    \* public addresses: issuer and redirect URIs
          NoAddress,  \* none configured
          Input,      \* what an update may ask for: some sections' new values
          NoRequest,  \* nobody holds the update lock
          MaxUpdates  \* bound: updates begun

\* The sections that decide who can sign in, one whose commit awaits (llm) and
\* one that only has a hook (general, for locale, MCP and security as well).
Section == {"auth", "google", "email", "passkey", "setup", "general", "llm"}

AuthSettings == [off : BOOLEAN, password : BOOLEAN,
                 address : Address \cup {NoAddress}]
GoogleSettings == [on : BOOLEAN, secret : Secret \cup {NoSecret, Keep}]

\* Sections a preparation of the sign-in settings reacts to, and those with a hook.
SignIn == {"auth", "google", "email", "passkey", "setup"}
Hooked == {"google", "email", "setup", "general"}

ASSUME RequestAssumption == NoRequest \notin Request /\ MaxUpdates \in Nat
ASSUME SecretAssumption == Keep \notin Secret \cup {NoSecret}
ASSUME InputAssumption ==
  \A p \in Input : /\ DOMAIN p \subseteq Section /\ DOMAIN p # {}
                   /\ "auth" \in DOMAIN p => p["auth"] \in AuthSettings
                   /\ "google" \in DOMAIN p => p["google"] \in GoogleSettings
                   /\ \A x \in DOMAIN p \ {"auth", "google"} : p[x] \in BOOLEAN
                   /\ "setup" \in DOMAIN p => p["setup"]

VARIABLES updates,    \* bound: updates begun
          stored,     \* the configurations table
          frontend,   \* the address of the frontend client in its table
          passkeys,   \* does an administrator have a passkey?
          env,        \* is MASTER_PASSWORD in the environment?
          up,         \* is the server running?
          cache,      \* the manager's copy of the sections
          running,    \* what the sign-in service, the syncers and the worker use
          lock,       \* who holds the update lock
          pc,         \* where each request is
          patch,      \* its sections' new values
          client,     \* the Google client it has prepared
          todo,       \* sections whose hook it still has to run
          heard,      \* what its current hook has read of the cache
          \* History:
          abandoned,  \* a request was dropped, or failed, after changing something
          overlapped, \* a lock was taken while another request's hooks were due
          checked,    \* env when the configuration was saved
          sound,      \* what was saved is what had been validated
          removed,    \* an administrator's passkey was removed
          keeping     \* requests that keep Google's secret, which nobody has changed since

memory == <<cache, running, lock, pc, patch, client, todo, heard>>
vars == <<updates, stored, frontend, passkeys, env, up, memory, abandoned, overlapped,
          checked, sound, removed, keeping>>

NoPatch == [x \in {} |-> FALSE]
NoHook == {}

-----------------------------------------------------------------------------
\* What the sections mean.

\* apply_patch, and what an upsert of the patch's sections makes of the table.
Apply(p, s) == [x \in Section |-> IF x \in DOMAIN p THEN p[x] ELSE s[x]]

Password(s, e) == e \/ s["auth"].password

\* Sections::oauth_enabled
OAuth(s) == s["google"].on \/ s["email"] \/ s["passkey"]

\* Sections::disable_all_auth
Open(s, e) == s["auth"].off \/ (~s["setup"] /\ ~Password(s, e))

ClientOf(g) == IF g.on THEN g.secret ELSE NoSecret

\* What the running parts hold after a start.
Targets == Section \cup {"client"}
Run(s, e) ==
  [t \in Targets |->
     CASE t = "auth" -> [open |-> Open(s, e), password |-> Password(s, e),
                         oauth |-> OAuth(s), address |-> s["auth"].address]
       [] t = "client" -> ClientOf(s["google"])
       [] OTHER -> s[t]]

\* validate_runtime_config
Valid(s, e) ==
  s["setup"] => /\ Password(s, e) \/ OAuth(s)
                /\ OAuth(s) => s["auth"].address # NoAddress

\* normalize_auth_settings and validate_webauthn need an issuer.
Preparable(s) == OAuth(s) => s["auth"].address # NoAddress

\* A start goes through.
Startable(s, e) == Valid(s, e) /\ Preparable(s)

\* validate_auth_prospective up to the query for a passkey.
Accepts(s, e) ==
  \/ s["auth"].off
  \/ (Password(s, e) \/ OAuth(s)) /\ Valid(s, e)

\* Mutant: the query for a passkey is left out.
PasskeyOnlyUnchecked(s, e) == FALSE

PasskeyOnly(s, e) ==
  /\ ~s["auth"].off
  /\ s["setup"] /\ ~Password(s, e) /\ ~s["google"].on /\ ~s["email"]
  /\ s["passkey"]

\* Mutant: the secret is not looked up.
ResolveNothing(p, s) ==
  [x \in DOMAIN p |-> IF x = "google" /\ p[x].secret = Keep
                        THEN [p[x] EXCEPT !.secret = NoSecret] ELSE p[x]]

\* preserve_secret
Resolve(p, s) ==
  [x \in DOMAIN p |-> IF x = "google" /\ p[x].secret = Keep
                        THEN [p[x] EXCEPT !.secret = s["google"].secret]
                        ELSE p[x]]

Prospective(r) == Apply(patch[r], cache)
SignInTouched(r) == DOMAIN patch[r] \cap SignIn # {}

-----------------------------------------------------------------------------
Fresh ==
  [x \in Section |->
     CASE x = "auth" -> [off |-> FALSE, password |-> FALSE, address |-> NoAddress]
       [] x = "google" -> [on |-> FALSE, secret |-> NoSecret]
       [] OTHER -> FALSE]

Init ==
  /\ updates = 0
  /\ stored = Fresh /\ cache = Fresh /\ running = Run(Fresh, FALSE)
  /\ frontend = NoAddress /\ passkeys = FALSE /\ env = FALSE /\ up = TRUE
  /\ lock = NoRequest /\ pc = [r \in Request |-> "idle"]
  /\ patch = [r \in Request |-> NoPatch]
  /\ client = [r \in Request |-> NoSecret]
  /\ todo = [r \in Request |-> {}] /\ heard = [r \in Request |-> NoHook]
  /\ abandoned = FALSE /\ overlapped = FALSE /\ checked = FALSE
  /\ sound = TRUE /\ removed = FALSE /\ keeping = {}

Idle(r) == /\ pc' = [pc EXCEPT ![r] = "idle"]
           /\ patch' = [patch EXCEPT ![r] = NoPatch]
           /\ client' = [client EXCEPT ![r] = NoSecret]

\* The resolver: the placeholder of a secret becomes the secret in the cache.
Begin(r, p) ==
  /\ up /\ pc[r] = "idle" /\ updates < MaxUpdates
  /\ updates' = updates + 1
  /\ pc' = [pc EXCEPT ![r] = "waiting"]
  /\ patch' = [patch EXCEPT ![r] = Resolve(p, cache)]
  /\ keeping' = IF /\ "google" \in DOMAIN p /\ p["google"].secret = Keep
                   /\ cache["google"] = stored["google"]
                  THEN keeping \cup {r} ELSE keeping \ {r}
  /\ UNCHANGED <<stored, frontend, passkeys, env, up, cache, running, lock,
                 client, todo, heard, abandoned, overlapped, checked, sound, removed>>

\* The lock is taken and the prospective sections are validated; the cache
\* changes only under the lock, so they stay the same.
Lock(r) ==
  /\ pc[r] = "waiting" /\ lock = NoRequest
  /\ LET next == Prospective(r) IN
       \/ /\ Accepts(next, env)
          /\ lock' = r
          /\ pc' = [pc EXCEPT ![r] = IF PasskeyOnly(next, env) THEN "check" ELSE "prepare"]
          /\ overlapped' = (overlapped \/ \E q \in Request : todo[q] # {})
          /\ UNCHANGED <<patch, client>>
       \/ ~Accepts(next, env) /\ Idle(r) /\ UNCHANGED <<lock, overlapped>>
  /\ UNCHANGED <<updates, stored, frontend, passkeys, env, up, cache, running, todo,
                 heard, abandoned, checked, sound, removed, keeping>>

\* admin_passkey_exists
Check(r) ==
  /\ pc[r] = "check"
  /\ \/ passkeys /\ pc' = [pc EXCEPT ![r] = "prepare"] /\ UNCHANGED <<lock, patch, client>>
     \/ ~passkeys /\ Idle(r) /\ lock' = NoRequest
  /\ UNCHANGED <<updates, stored, frontend, passkeys, env, up, cache, running, todo, heard,
                 abandoned, overlapped, checked, sound, removed, keeping>>

\* prepare_webauthn_settings and prepare_auth_settings: the frontend client is
\* written at once, the Google client is made from the settings in force.
Prepare(r) ==
  /\ pc[r] = "prepare"
  /\ pc' = [pc EXCEPT ![r] = "save"]
  /\ IF SignInTouched(r)
       THEN /\ Preparable(Prospective(r))
            /\ frontend' = Prospective(r)["auth"].address
            /\ client' = [client EXCEPT ![r] = ClientOf(running["google"])]
       ELSE UNCHANGED <<frontend, client>>
  /\ UNCHANGED <<updates, stored, passkeys, env, up, cache, running, lock, patch, todo, heard,
                 abandoned, overlapped, checked, sound, removed, keeping>>

\* save_sections: one transaction, which returns all sections.
Save(r) ==
  /\ pc[r] = "save"
  /\ stored' = Apply(patch[r], stored)
  /\ pc' = [pc EXCEPT ![r] = "saved"]
  /\ checked' = env
  /\ sound' = (stored' = Prospective(r))
  /\ keeping' = IF "google" \in DOMAIN patch[r] THEN keeping \cap {r} ELSE keeping
  /\ UNCHANGED <<updates, frontend, passkeys, env, up, cache, running, lock, patch, client,
                 todo, heard, abandoned, overlapped, removed>>

\* The cache becomes what the transaction returned; no other update has run
\* since.  The sign-in commits do not await, the LLM's does.
CommitSignIn(r) ==
  [t \in Targets |->
     CASE SignInTouched(r) /\ t = "auth" -> Run(Prospective(r), env)["auth"]
       [] SignInTouched(r) /\ t = "client" -> client[r]
       [] t = "passkey" /\ DOMAIN patch[r] \cap {"auth", "passkey"} # {} ->
            Prospective(r)["passkey"]
       [] OTHER -> running[t]]

\* The lock is released and the hooks are due.
Release(r) ==
  /\ lock' = NoRequest
  /\ todo' = [todo EXCEPT ![r] = DOMAIN patch[r] \cap Hooked]
  /\ pc' = [pc EXCEPT ![r] = IF DOMAIN patch[r] \cap Hooked = {} THEN "idle" ELSE "hooks"]
  /\ patch' = [patch EXCEPT ![r] = NoPatch]
  /\ client' = [client EXCEPT ![r] = NoSecret]

Commit(r) ==
  /\ pc[r] = "saved"
  /\ cache' = stored
  /\ running' = CommitSignIn(r)
  /\ IF "llm" \in DOMAIN patch[r]
       THEN /\ pc' = [pc EXCEPT ![r] = "llm"]
            /\ UNCHANGED <<lock, todo, patch, client>>
       ELSE Release(r)
  /\ UNCHANGED <<updates, stored, frontend, passkeys, env, up, heard, abandoned, overlapped,
                 checked, sound, removed, keeping>>

CommitLlm(r) ==
  /\ pc[r] = "llm"
  /\ running' = [running EXCEPT !["llm"] = patch[r]["llm"]]
  /\ Release(r)
  /\ UNCHANGED <<updates, stored, frontend, passkeys, env, up, cache, heard, abandoned,
                 overlapped, checked, sound, removed, keeping>>

\* on_change: each hook reads the cache and then writes its target.
HookRead(r, x) ==
  /\ pc[r] = "hooks" /\ heard[r] = NoHook /\ x \in todo[r]
  /\ heard' = [heard EXCEPT ![r] = {<<x, cache[x]>>}]
  /\ UNCHANGED <<updates, stored, frontend, passkeys, env, up, cache, running, lock, pc, patch,
                 client, todo, abandoned, overlapped, checked, sound, removed, keeping>>

\* Mutant: the client stays as it was prepared.
HeardSettings(t, x, v) == IF t = x THEN v ELSE running[t]

\* update_google_settings makes a client as well.
Heard(t, x, v) ==
  CASE t = x -> v
    [] t = "client" /\ x = "google" -> ClientOf(v)
    [] OTHER -> running[t]

HookWrite(r) ==
  /\ \E h \in heard[r] :
       /\ running' = [t \in Targets |-> Heard(t, h[1], h[2])]
       /\ todo' = [todo EXCEPT ![r] = @ \ {h[1]}]
       /\ pc' = [pc EXCEPT ![r] = IF todo[r] = {h[1]} THEN "idle" ELSE "hooks"]
  /\ heard' = [heard EXCEPT ![r] = NoHook]
  /\ UNCHANGED <<updates, stored, frontend, passkeys, env, up, cache, lock, patch, client,
                 abandoned, overlapped, checked, sound, removed, keeping>>

\* An error, or the request is dropped, before the sections are saved: the
\* lock is released, the frontend client stays as prepared.
Fail(r) ==
  /\ pc[r] \in {"waiting", "check", "prepare", "save"}
  /\ Idle(r)
  /\ lock' = IF lock = r THEN NoRequest ELSE lock
  /\ abandoned' = (abandoned \/ (pc[r] = "save" /\ SignInTouched(r)))
  /\ UNCHANGED <<updates, stored, frontend, passkeys, env, up, cache, running, todo, heard,
                 overlapped, checked, sound, removed, keeping>>

\* Mutant: the lock outlives the request.
DropKeepsLock(r) ==
  /\ pc[r] \in {"saved", "llm"}
  /\ Idle(r)
  /\ abandoned' = TRUE
  /\ UNCHANGED <<updates, stored, frontend, passkeys, env, up, cache, running, lock, todo, heard,
                 overlapped, checked, sound, removed, keeping>>

\* The request is dropped after its transaction has committed, or while it
\* waits for the categorizer's lock: its hooks never run.
Drop(r) ==
  /\ pc[r] \in {"saved", "llm"}
  /\ Idle(r)
  /\ lock' = NoRequest
  /\ abandoned' = TRUE
  /\ UNCHANGED <<updates, stored, frontend, passkeys, env, up, cache, running, todo, heard,
                 overlapped, checked, sound, removed, keeping>>

\* A passkey is registered with the running service; one is deleted, or its
\* owner stops being an administrator: no update lock, no check.
AddPasskey ==
  /\ up /\ running["passkey"] /\ ~passkeys
  /\ passkeys' = TRUE
  /\ UNCHANGED <<updates, stored, frontend, env, up, memory, abandoned, overlapped, checked,
                 sound, removed, keeping>>

RemovePasskey ==
  /\ up /\ passkeys
  /\ passkeys' = FALSE /\ removed' = TRUE
  /\ UNCHANGED <<updates, stored, frontend, env, up, memory, abandoned, overlapped, checked,
                 sound, keeping>>

\* The process ends, and is started with or without MASTER_PASSWORD.
Restart(e) ==
  /\ env' = e
  /\ up' = Startable(stored, e)
  /\ frontend' = IF up' THEN stored["auth"].address ELSE frontend
  /\ cache' = stored /\ running' = Run(stored, e)
  /\ lock' = NoRequest /\ pc' = [r \in Request |-> "idle"]
  /\ patch' = [r \in Request |-> NoPatch] /\ client' = [r \in Request |-> NoSecret]
  /\ todo' = [r \in Request |-> {}] /\ heard' = [r \in Request |-> NoHook]
  /\ abandoned' = FALSE /\ overlapped' = FALSE
  /\ UNCHANGED <<updates, stored, passkeys, checked, sound, removed, keeping>>

Steps(r) == \/ Lock(r) \/ Check(r) \/ Prepare(r) \/ Save(r) \/ Commit(r)
            \/ CommitLlm(r) \/ (\E x \in Section : HookRead(r, x)) \/ HookWrite(r)

Next ==
  \/ \E r \in Request : (\E p \in Input : Begin(r, p)) \/ Steps(r) \/ Fail(r) \/ Drop(r)
  \/ AddPasskey \/ RemovePasskey
  \/ \E e \in BOOLEAN : Restart(e)

Spec == Init /\ [][Next]_vars

-----------------------------------------------------------------------------
Value(x) == CASE x = "auth" -> AuthSettings
              [] x = "google" -> GoogleSettings
              [] OTHER -> BOOLEAN

IsSettings(s) == s = [x \in Section |-> s[x]] /\ \A x \in Section : s[x] \in Value(x)

\* The variables hold what their types say, and the lock is held by the one
\* request that is between validating and releasing it (update_sections).
TypeOK ==
  /\ updates \in 0..MaxUpdates
  /\ IsSettings(stored) /\ IsSettings(cache)
  /\ frontend \in Address \cup {NoAddress}
  /\ {passkeys, env, up, abandoned, overlapped, checked, sound, removed} \subseteq BOOLEAN
  /\ lock \in Request \cup {NoRequest} /\ keeping \subseteq Request
  /\ DOMAIN running = Targets
  /\ DOMAIN patch = Request /\ DOMAIN client = Request /\ DOMAIN heard = Request
  /\ todo \in [Request -> SUBSET Hooked]
  /\ pc \in [Request -> {"idle", "waiting", "check", "prepare", "save", "saved",
                         "llm", "hooks"}]
  /\ \A r \in Request : lock = r <=>
       pc[r] \in {"check", "prepare", "save", "saved", "llm"}

\* When no update is under way and none was dropped, failed after preparing or
\* overlapped another one's hooks, then the cache, the frontend client and
\* everything the running parts use are what a restart would make of the table.
Settled ==
  (/\ up /\ ~abandoned /\ ~overlapped /\ lock = NoRequest
   /\ \A r \in Request : todo[r] = {})
    => /\ cache = stored
       /\ frontend = stored["auth"].address
       /\ running = Run(stored, env)

\* A completed configuration that is not open to all can be started again, and
\* leaves somebody a way to sign in, with the environment it was saved under:
\* unless it was validated against a stale cache, or the administrators' passkeys
\* have been removed.
SomebodyCanSignIn ==
  (sound /\ stored["setup"] /\ ~stored["auth"].off)
    => /\ Startable(stored, checked)
       /\ \/ Password(stored, checked) \/ stored["google"].on \/ stored["email"]
          \/ stored["passkey"] /\ (passkeys \/ removed)

\* What an update commits under the lock, the sign-in service, WebAuthn and the
\* categorizer, settles with the table, the cache and the frontend client as soon
\* as the lock is free, however the hooks of several updates overlap: nothing is
\* left to a hook that decides who can sign in.
Committed == Targets \ (Hooked \cup {"client"})
CommittedSettled ==
  (up /\ ~abandoned /\ lock = NoRequest)
    => /\ cache = stored
       /\ frontend = stored["auth"].address
       /\ \A t \in Committed : running[t] = Run(stored, env)[t]

\* The sections are saved as they were validated, unless some request was dropped
\* after its transaction and has left an old cache behind: validation works on the
\* cache, save_sections on the table.
SavedAsValidated == [][\A r \in Request : Save(r) => sound' \/ abandoned]_vars

\* Restarted by the service manager, nothing in its environment changed.
Unattended == Next /\ env' = env
UnattendedSpec == Init /\ [][Unattended]_vars

\* Docs: "Restart=on-failure brings the service back after an unexpected exit."
\* (docs/install.md 116)
ComesBack == up

\* Saving the placeholder preserves the current secret, unless Google's section
\* was saved after the request had looked the secret up, or while it did.
SecretPreserved ==
  [][\A r \in Request : Save(r) /\ r \in keeping
       => stored'["google"].secret = stored["google"].secret]_vars

=============================================================================
