------------------------ MODULE RuntimeConfigProofs ------------------------
(***************************************************************************)
(* What the runtime configuration promises, for any number of requests,    *)
(* inputs, addresses and secrets.                                          *)
(***************************************************************************)
EXTENDS RuntimeConfig, TLAPS

States == {"idle", "waiting", "check", "prepare", "save", "saved", "llm", "hooks"}
Holding == {"check", "prepare", "save", "saved", "llm"}

\* A request's patch has values of its sections' types, a hook reads only while
\* it is due, and the running parts are a function.
IsPatch(p) == DOMAIN p \subseteq Section /\ \A x \in DOMAIN p : p[x] \in Value(x)
Patches == \A r \in Request : IsPatch(patch[r])
Hears == \A r \in Request : heard[r] # {} => pc[r] = "hooks"

\* What is not among the sections: the lock, the steps, the patches.
Shape ==
  /\ pc \in [Request -> States] /\ todo \in [Request -> SUBSET Hooked]
  /\ DOMAIN patch = Request /\ DOMAIN client = Request /\ DOMAIN heard = Request
  /\ lock \in Request \cup {NoRequest} /\ \A q \in Request : lock = q <=> pc[q] \in Holding
  /\ Patches /\ Hears

Facts ==
  /\ {passkeys, env, up, abandoned, overlapped, checked, sound, removed} \subseteq BOOLEAN
  /\ updates \in 0..MaxUpdates /\ keeping \subseteq Request

Settings ==
  /\ IsSettings(stored) /\ IsSettings(cache) /\ frontend \in Address \cup {NoAddress}
  /\ running = [t \in Targets |-> running[t]]

TInv == Shape /\ Facts /\ Settings

LEMMA TypeParts == TInv => TypeOK
<1>1. DOMAIN [t \in Targets |-> running[t]] = Targets
  OBVIOUS
<1> QED BY <1>1 DEF TInv, TypeOK, Shape, Facts, Settings, States, Holding

-----------------------------------------------------------------------------
LEMMA ApplyType ==
  ASSUME NEW p, NEW s, IsPatch(p), IsSettings(s)
  PROVE  IsSettings(Apply(p, s)) /\ Apply(p, s)["auth"].address \in Address \cup {NoAddress}
<1>1. ASSUME NEW x \in Section
      PROVE  Apply(p, s)[x] \in Value(x)
  <2>1. Apply(p, s)[x] = IF x \in DOMAIN p THEN p[x] ELSE s[x]
    BY DEF Apply
  <2> QED BY <2>1 DEF IsPatch, IsSettings
<1>2. Apply(p, s) = [x \in Section |-> Apply(p, s)[x]]
  BY DEF Apply
<1>3. Value("auth") = AuthSettings /\ "auth" \in Section
  BY DEF Value, Section
<1>4. IsSettings(Apply(p, s))
  BY ONLY <1>1, <1>2, Zenon DEF IsSettings
<1>5. Apply(p, s)["auth"] \in AuthSettings
  BY <1>1, <1>3
<1>6. Apply(p, s)["auth"].address \in Address \cup {NoAddress}
  BY <1>5 DEF AuthSettings
<1> QED BY <1>4, <1>6

LEMMA ResolveType ==
  ASSUME NEW p \in Input, NEW s, IsSettings(s)
  PROVE  IsPatch(Resolve(p, s))
<1>1. /\ DOMAIN p \subseteq Section
      /\ "auth" \in DOMAIN p => p["auth"] \in AuthSettings
      /\ "google" \in DOMAIN p => p["google"] \in GoogleSettings
      /\ \A x \in DOMAIN p \ {"auth", "google"} : p[x] \in BOOLEAN
  BY InputAssumption
<1>2. s["google"] \in GoogleSettings
  BY DEF IsSettings, Value, Section
<1>3. DOMAIN Resolve(p, s) = DOMAIN p
  BY DEF Resolve
<1>4. ASSUME NEW x \in DOMAIN p
      PROVE  Resolve(p, s)[x] \in Value(x)
  <2>1. CASE x = "google"
    <3>1. p[x] \in GoogleSettings
      BY <1>1, <2>1
    <3>2. [p[x] EXCEPT !.secret = s["google"].secret] \in GoogleSettings
      BY <1>2, <3>1 DEF GoogleSettings
    <3> QED BY <2>1, <3>1, <3>2 DEF Resolve, Value
  <2>2. CASE x = "auth"
    BY <1>1, <2>2 DEF Resolve, Value
  <2>3. CASE x # "google" /\ x # "auth"
    BY <1>1, <2>3 DEF Resolve, Value
  <2> QED BY <2>1, <2>2, <2>3
<1> QED BY <1>1, <1>3, <1>4 DEF IsPatch

LEMMA NoPatchType == IsPatch(NoPatch)
BY DEF IsPatch, NoPatch

LEMMA FreshType == IsSettings(Fresh)
<1>1. \A x \in Section : Fresh[x] \in Value(x)
  BY DEF Fresh, Value, AuthSettings, GoogleSettings, Section
<1> QED BY <1>1 DEF IsSettings, Fresh

\* The request that moves is the only one whose state and patch change.
LEMMA Alone ==
  ASSUME TInv, NEW r \in Request, NEW s \in States, NEW p,
         pc' = [pc EXCEPT ![r] = s], patch' = [patch EXCEPT ![r] = p],
         IsPatch(p), heard' = heard, s # "hooks" => heard[r] = {}
  PROVE  /\ pc' \in [Request -> States] /\ DOMAIN patch' = Request
         /\ DOMAIN heard' = Request /\ Patches' /\ Hears'
<1>1. /\ pc \in [Request -> States] /\ DOMAIN patch = Request /\ DOMAIN heard = Request
      /\ Patches /\ Hears
  BY DEF TInv, Shape, Facts, Settings, States
<1>2. \A q \in Request : patch'[q] = IF q = r THEN p ELSE patch[q]
  BY <1>1
<1> QED BY <1>1, <1>2 DEF Patches, Hears

\* The lock's part of the type: who holds it is between validating and releasing.
LEMMA LockKept ==
  ASSUME TInv, NEW r \in Request, NEW s \in States, pc' = [pc EXCEPT ![r] = s],
         \/ lock' = lock /\ (pc[r] \in Holding <=> s \in Holding)
         \/ lock' = NoRequest /\ pc[r] \in Holding /\ s \notin Holding
         \/ lock' = r /\ lock = NoRequest /\ s \in Holding
  PROVE  /\ lock' \in Request \cup {NoRequest}
         /\ \A q \in Request : lock' = q <=> pc'[q] \in Holding
<1>1. /\ pc \in [Request -> States] /\ lock \in Request \cup {NoRequest}
      /\ \A q \in Request : lock = q <=> pc[q] \in Holding
      /\ NoRequest \notin Request
  BY RequestAssumption DEF TInv, Shape, Facts, Settings, States, Holding
<1>2. \A q \in Request : pc'[q] = IF q = r THEN s ELSE pc[q]
  BY <1>1
<1> QED BY <1>1, <1>2

-----------------------------------------------------------------------------
LEMMA ProspectiveType ==
  ASSUME TInv, NEW r \in Request
  PROVE  /\ IsPatch(patch[r]) /\ IsSettings(Prospective(r))
         /\ Prospective(r)["auth"].address \in Address \cup {NoAddress}
<1>1. IsPatch(patch[r]) /\ IsSettings(cache)
  BY DEF TInv, Shape, Settings, Patches
<1> QED BY <1>1, ApplyType DEF Prospective

LEMMA IdleShape ==
  ASSUME TInv, NEW r \in Request, Idle(r), heard' = heard, todo' = todo,
         pc[r] # "hooks",
         \/ lock' = lock /\ pc[r] \notin Holding
         \/ lock' = NoRequest /\ pc[r] \in Holding
  PROVE  Shape'
<1>1. /\ pc' = [pc EXCEPT ![r] = "idle"] /\ patch' = [patch EXCEPT ![r] = NoPatch]
      /\ client' = [client EXCEPT ![r] = NoSecret] /\ "idle" \in States \ Holding
  BY DEF Idle, States, Holding
<1>2. heard[r] = {} /\ DOMAIN client = Request /\ todo \in [Request -> SUBSET Hooked]
  BY DEF TInv, Shape, Facts, Settings, Hears
<1>3. DOMAIN client' = Request
  BY <1>1, <1>2
<1>4. /\ pc' \in [Request -> States] /\ DOMAIN patch' = Request
      /\ DOMAIN heard' = Request /\ Patches' /\ Hears'
  BY <1>1, <1>2, Alone, NoPatchType
<1>5. /\ lock' \in Request \cup {NoRequest}
      /\ \A q \in Request : lock' = q <=> pc'[q] \in Holding
  BY <1>1, LockKept
<1> QED BY <1>2, <1>3, <1>4, <1>5 DEF Shape

\* A request moves on with the same patch.
LEMMA MoveShape ==
  ASSUME TInv, NEW r \in Request, NEW s \in States \ {"hooks"}, pc[r] # "hooks",
         pc' = [pc EXCEPT ![r] = s], heard' = heard, todo' = todo, patch' = patch,
         DOMAIN client' = Request,
         \/ lock' = lock /\ (pc[r] \in Holding <=> s \in Holding)
         \/ lock' = r /\ lock = NoRequest /\ s \in Holding
  PROVE  Shape'
<1>1. heard[r] = {} /\ todo \in [Request -> SUBSET Hooked] /\ DOMAIN patch = Request
      /\ DOMAIN heard = Request /\ Patches /\ Hears /\ pc \in [Request -> States]
  BY DEF TInv, Shape, Hears
<1>2. pc' \in [Request -> States] /\ Hears' /\ Patches'
  BY <1>1 DEF Hears, Patches
<1>3. /\ lock' \in Request \cup {NoRequest}
      /\ \A q \in Request : lock' = q <=> pc'[q] \in Holding
  BY LockKept
<1> QED BY <1>1, <1>2, <1>3 DEF Shape

LEMMA ReleaseShape ==
  ASSUME TInv, NEW r \in Request, pc[r] \in {"saved", "llm"}, Release(r), heard' = heard
  PROVE  Shape'
<1>1. PICK s \in {"idle", "hooks"} : pc' = [pc EXCEPT ![r] = s]
  BY DEF Release
<1>2. /\ lock' = NoRequest /\ todo' = [todo EXCEPT ![r] = DOMAIN patch[r] \cap Hooked]
      /\ patch' = [patch EXCEPT ![r] = NoPatch] /\ client' = [client EXCEPT ![r] = NoSecret]
      /\ s \in States \ Holding /\ pc[r] \in Holding
  BY <1>1 DEF Release, States, Holding
<1>3. heard[r] = {} /\ DOMAIN client = Request /\ todo \in [Request -> SUBSET Hooked]
  BY DEF TInv, Shape, Facts, Settings, Hears
<1>4. DOMAIN client' = Request /\ todo' \in [Request -> SUBSET Hooked]
  BY <1>2, <1>3
<1>5. /\ pc' \in [Request -> States] /\ DOMAIN patch' = Request
      /\ DOMAIN heard' = Request /\ Patches' /\ Hears'
  BY <1>1, <1>2, <1>3, Alone, NoPatchType
<1>6. /\ lock' \in Request \cup {NoRequest}
      /\ \A q \in Request : lock' = q <=> pc'[q] \in Holding
  BY <1>1, <1>2, LockKept
<1> QED BY <1>4, <1>5, <1>6 DEF Shape

LEMMA BeginType ==
  ASSUME TInv, NEW r \in Request, NEW p \in Input, Begin(r, p)
  PROVE  TInv'
<1>1. /\ pc[r] = "idle" /\ pc' = [pc EXCEPT ![r] = "waiting"]
      /\ patch' = [patch EXCEPT ![r] = Resolve(p, cache)]
      /\ UNCHANGED <<lock, todo, heard, client>> /\ "waiting" \in States \ Holding
      /\ "idle" \notin Holding /\ IsSettings(cache)
  BY DEF Begin, States, Holding, TInv, Shape, Facts, Settings
<1>2. heard[r] = {} /\ DOMAIN client = Request /\ todo \in [Request -> SUBSET Hooked]
  BY <1>1 DEF TInv, Shape, Facts, Settings, Hears
<1>3. /\ pc' \in [Request -> States] /\ DOMAIN patch' = Request
      /\ DOMAIN heard' = Request /\ Patches' /\ Hears'
  BY <1>1, <1>2, Alone, ResolveType
<1>4. /\ lock' \in Request \cup {NoRequest}
      /\ \A q \in Request : lock' = q <=> pc'[q] \in Holding
  BY <1>1, LockKept
<1>5. Shape'
  BY <1>1, <1>2, <1>3, <1>4 DEF Shape
<1>6. Facts'
  <2>1. updates' \in 0..MaxUpdates
    BY RequestAssumption DEF Begin, TInv, Shape, Facts, Settings
  <2>2. keeping' \subseteq Request
    BY DEF Begin, TInv, Shape, Facts, Settings
  <2> QED BY <2>1, <2>2 DEF Begin, TInv, Facts
<1>7. Settings'
  BY DEF Begin, TInv, Settings, IsSettings
<1> QED BY <1>5, <1>6, <1>7 DEF TInv

LEMMA LockType ==
  ASSUME TInv, NEW r \in Request, Lock(r)
  PROVE  TInv'
<1>1. /\ pc[r] = "waiting" /\ lock = NoRequest /\ UNCHANGED <<todo, heard>>
      /\ "waiting" \notin Holding /\ pc[r] # "hooks"
  BY DEF Lock, Holding
<1>2. Shape'
  <2>1. CASE lock' = r /\ UNCHANGED <<patch, client>>
             /\ \E s \in {"check", "prepare"} : pc' = [pc EXCEPT ![r] = s]
    <3>1. PICK s \in {"check", "prepare"} : pc' = [pc EXCEPT ![r] = s]
      BY <2>1
    <3>2. s \in States \ {"hooks"} /\ s \in Holding /\ DOMAIN client' = Request
      BY <2>1 DEF States, Holding, TInv, Shape
    <3> QED BY <1>1, <2>1, <3>1, <3>2, MoveShape
  <2>2. CASE Idle(r) /\ lock' = lock
    BY <1>1, <2>2, IdleShape
  <2> QED BY <2>1, <2>2 DEF Lock
<1>3. Facts'
  BY DEF Lock, TInv, Facts
<1>4. Settings'
  BY DEF Lock, TInv, Settings, IsSettings
<1> QED BY <1>2, <1>3, <1>4 DEF TInv

LEMMA CheckType ==
  ASSUME TInv, NEW r \in Request, Check(r)
  PROVE  TInv'
<1>1. /\ pc[r] = "check" /\ UNCHANGED <<todo, heard>>
      /\ "check" \in Holding /\ "prepare" \in Holding \cap States /\ pc[r] # "hooks"
  BY DEF Check, Holding, States
<1>2. Shape'
  <2>1. CASE pc' = [pc EXCEPT ![r] = "prepare"] /\ UNCHANGED <<lock, patch, client>>
    <3>1. DOMAIN client' = Request
      BY <2>1 DEF TInv, Shape
    <3> QED BY <1>1, <2>1, <3>1, MoveShape
  <2>2. CASE Idle(r) /\ lock' = NoRequest
    BY <1>1, <2>2, IdleShape
  <2> QED BY <2>1, <2>2 DEF Check
<1>3. Facts' /\ Settings'
  BY DEF Check, TInv, Facts, Settings, IsSettings
<1> QED BY <1>2, <1>3 DEF TInv

LEMMA PrepareType ==
  ASSUME TInv, NEW r \in Request, Prepare(r)
  PROVE  TInv'
<1>1. /\ pc[r] = "prepare" /\ UNCHANGED <<todo, heard, lock, patch>>
      /\ pc' = [pc EXCEPT ![r] = "save"]
      /\ "prepare" \in Holding /\ "save" \in Holding \cap States /\ pc[r] # "hooks"
  BY DEF Prepare, Holding, States
<1>2. DOMAIN client' = Request
  BY DEF Prepare, TInv, Shape
<1>3. Shape'
  BY <1>1, <1>2, MoveShape
<1>4. frontend' \in Address \cup {NoAddress}
  BY ProspectiveType DEF Prepare, TInv, Settings
<1>5. Facts' /\ Settings'
  BY <1>4 DEF Prepare, TInv, Facts, Settings, IsSettings
<1> QED BY <1>3, <1>5 DEF TInv

LEMMA SaveType ==
  ASSUME TInv, NEW r \in Request, Save(r)
  PROVE  TInv'
<1>1. /\ pc[r] = "save" /\ UNCHANGED <<todo, heard, lock, patch, client>>
      /\ pc' = [pc EXCEPT ![r] = "saved"]
      /\ "save" \in Holding /\ "saved" \in Holding \cap States /\ pc[r] # "hooks"
  BY DEF Save, Holding, States
<1>2. Shape'
  BY <1>1, MoveShape DEF TInv, Shape
<1>3. IsPatch(patch[r]) /\ IsSettings(stored) /\ stored' = Apply(patch[r], stored)
  BY DEF Save, TInv, Shape, Patches, Settings
<1>4. IsSettings(stored')
  BY <1>3, ApplyType
<1>5. Facts'
  BY DEF Save, TInv, Facts
<1>6. Settings'
  BY <1>4 DEF Save, TInv, Settings, IsSettings
<1> QED BY <1>2, <1>5, <1>6 DEF TInv

LEMMA CommitType ==
  ASSUME TInv, NEW r \in Request, Commit(r)
  PROVE  TInv'
<1>1. pc[r] = "saved" /\ heard' = heard
  BY DEF Commit
<1>2. Shape'
  <2>1. CASE "llm" \in DOMAIN patch[r]
    <3>1. /\ pc' = [pc EXCEPT ![r] = "llm"] /\ UNCHANGED <<lock, todo, patch, client>>
          /\ "saved" \in Holding /\ "llm" \in Holding \cap States /\ DOMAIN client' = Request
      BY <2>1 DEF Commit, Holding, States, TInv, Shape
    <3> QED BY <1>1, <3>1, MoveShape
  <2>2. CASE Release(r)
    BY <1>1, <2>2, ReleaseShape
  <2> QED BY <2>1, <2>2 DEF Commit
<1>3. running' = [t \in Targets |-> running'[t]]
  BY DEF Commit, CommitSignIn
<1>4. Facts' /\ Settings'
  BY <1>3 DEF Commit, TInv, Facts, Settings, IsSettings
<1> QED BY <1>2, <1>4 DEF TInv

LEMMA CommitLlmType ==
  ASSUME TInv, NEW r \in Request, CommitLlm(r)
  PROVE  TInv'
<1>1. Shape'
  BY ReleaseShape DEF CommitLlm
<1>2. running' = [t \in Targets |-> running'[t]]
  BY DEF CommitLlm, TInv, Settings
<1>3. Facts' /\ Settings'
  BY <1>2 DEF CommitLlm, TInv, Facts, Settings, IsSettings
<1> QED BY <1>1, <1>3 DEF TInv

LEMMA HookType ==
  ASSUME TInv, NEW r \in Request, (\E x \in Section : HookRead(r, x)) \/ HookWrite(r)
  PROVE  TInv'
<1>1. Shape'
  <2>1. CASE \E x \in Section : HookRead(r, x)
    BY <2>1 DEF HookRead, TInv, Shape, Hears, Patches
  <2>2. CASE HookWrite(r)
    <3>1. PICK h \in heard[r] :
            /\ todo' = [todo EXCEPT ![r] = @ \ {h[1]}]
            /\ pc' = [pc EXCEPT ![r] = IF todo[r] = {h[1]} THEN "idle" ELSE "hooks"]
      BY <2>2 DEF HookWrite
    <3>2. /\ UNCHANGED <<lock, patch, client>> /\ heard' = [heard EXCEPT ![r] = NoHook]
          /\ pc[r] = "hooks"
      BY <2>2, <3>1 DEF HookWrite, TInv, Shape, Hears
    <3>3. /\ todo' \in [Request -> SUBSET Hooked] /\ DOMAIN heard' = Request
      BY <3>1, <3>2 DEF TInv, Shape
    <3>4. pc' \in [Request -> States] /\ \A q \in Request : pc'[q] \in Holding <=> pc[q] \in Holding
      BY <3>1, <3>2 DEF TInv, Shape, States, Holding
    <3>5. Hears' /\ Patches'
      BY <3>1, <3>2 DEF TInv, Shape, Hears, Patches, NoHook
    <3> QED BY <3>2, <3>3, <3>4, <3>5 DEF TInv, Shape
  <2> QED BY <2>1, <2>2
<1>2. running' = [t \in Targets |-> running'[t]]
  BY DEF HookRead, HookWrite, TInv, Settings
<1>3. Facts' /\ Settings'
  BY <1>2 DEF HookRead, HookWrite, TInv, Facts, Settings, IsSettings
<1> QED BY <1>1, <1>3 DEF TInv

LEMMA EndType ==
  ASSUME TInv, NEW r \in Request, Fail(r) \/ Drop(r)
  PROVE  TInv'
<1>1. Shape'
  <2>1. Idle(r) /\ UNCHANGED <<heard, todo>> /\ pc[r] # "hooks"
    BY DEF Fail, Drop
  <2>2. \/ lock' = lock /\ pc[r] \notin Holding
        \/ lock' = NoRequest /\ pc[r] \in Holding
    BY DEF Fail, Drop, Holding, TInv, Shape
  <2> QED BY <2>1, <2>2, IdleShape
<1>2. Facts' /\ Settings'
  BY DEF Fail, Drop, TInv, Facts, Settings, IsSettings
<1> QED BY <1>1, <1>2 DEF TInv

LEMMA WorldType ==
  ASSUME TInv, AddPasskey \/ RemovePasskey \/ \E e \in BOOLEAN : Restart(e)
  PROVE  TInv'
<1>1. CASE AddPasskey \/ RemovePasskey
  BY <1>1 DEF AddPasskey, RemovePasskey, memory, TInv, Shape, Facts, Settings, Hears, Patches,
              IsSettings
<1>2. CASE \E e \in BOOLEAN : Restart(e)
  <2>1. PICK e \in BOOLEAN : Restart(e)
    BY <1>2
  <2>2. Facts'
    BY <2>1 DEF Restart, TInv, Facts, Startable, Valid, Preparable
  <2>3. Shape'
    BY <2>1, NoPatchType, RequestAssumption
       DEF Restart, Shape, States, Holding, Patches, Hears, NoHook
  <2>4. stored["auth"].address \in Address \cup {NoAddress}
    BY DEF TInv, Settings, IsSettings, Section, Value, AuthSettings
  <2>5. running' = [t \in Targets |-> running'[t]]
    BY <2>1 DEF Restart, Run
  <2>6. Settings'
    BY <2>1, <2>4, <2>5 DEF Restart, TInv, Settings, IsSettings
  <2> QED BY <2>2, <2>3, <2>6 DEF TInv
<1> QED BY <1>1, <1>2

LEMMA TypeNext == TInv /\ [Next]_vars => TInv'
<1> SUFFICES ASSUME TInv, [Next]_vars PROVE TInv'
  OBVIOUS
<1>1. CASE UNCHANGED vars
  BY <1>1 DEF vars, memory, TInv, Shape, Facts, Settings, Hears, Patches, IsSettings
<1>2. CASE Next
  BY <1>2, BeginType, LockType, CheckType, PrepareType, SaveType, CommitType, CommitLlmType,
     HookType, EndType, WorldType DEF Next, Steps
<1> QED BY <1>1, <1>2

LEMMA TypeInit == Init => TInv
<1> SUFFICES ASSUME Init PROVE TInv
  OBVIOUS
<1>1. Shape
  BY NoPatchType, RequestAssumption DEF Init, Shape, States, Holding, Patches, Hears, NoHook
<1>2. Facts
  <2>1. {passkeys, env, up, abandoned, overlapped, checked, sound, removed} \subseteq BOOLEAN
    BY DEF Init
  <2>2. updates \in 0..MaxUpdates
    BY RequestAssumption DEF Init
  <2>3. keeping \subseteq Request
    BY DEF Init
  <2> QED BY <2>1, <2>2, <2>3 DEF Facts
<1>3. Settings
  BY FreshType DEF Init, Settings, Run
<1> QED BY <1>1, <1>2, <1>3 DEF TInv

\* The type invariant; with it, that one request at a time is between the
\* validation of its update and the release of the lock.
THEOREM TypeCorrect == Spec => []TypeOK
BY TypeInit, TypeNext, TypeParts, PTL DEF Spec

-----------------------------------------------------------------------------
\* Until it has saved, a request that keeps Google's secret has the stored one in
\* its patch.
Keeps ==
  \A r \in keeping : pc[r] \in {"waiting", "check", "prepare", "save"}
    => /\ "google" \in DOMAIN patch[r]
       /\ patch[r]["google"].secret = stored["google"].secret

KInv == TInv /\ Keeps

LEMMA KeepsNext == KInv /\ [Next]_vars => KInv'
<1> SUFFICES ASSUME KInv, [Next]_vars PROVE KInv'
  OBVIOUS
<1>1. TInv' /\ TInv
  BY TypeNext DEF KInv
<1>2. /\ pc \in [Request -> States] /\ DOMAIN patch = Request /\ keeping \subseteq Request
      /\ Keeps
  BY <1>1 DEF TInv, Shape, Facts, KInv
<1>3. ASSUME NEW r \in Request, NEW p \in Input, Begin(r, p)
      PROVE  Keeps'
  <2>1. \A q \in Request \ {r} : pc'[q] = pc[q] /\ patch'[q] = patch[q]
    BY <1>2, <1>3 DEF Begin
  <2>2. stored' = stored /\ keeping' \subseteq keeping \cup {r} /\ patch'[r] = Resolve(p, cache)
    BY <1>2, <1>3 DEF Begin
  <2>3. CASE r \in keeping'
    <3>1. /\ "google" \in DOMAIN p /\ p["google"].secret = Keep
          /\ cache["google"] = stored["google"]
      BY <1>3, <2>3 DEF Begin
    <3>2. p["google"] \in GoogleSettings
      BY <3>1, InputAssumption
    <3>3. "google" \in DOMAIN Resolve(p, cache)
          /\ Resolve(p, cache)["google"] = [p["google"] EXCEPT !.secret = cache["google"].secret]
      BY <3>1 DEF Resolve
    <3>4. Resolve(p, cache)["google"].secret = stored["google"].secret
      BY <3>1, <3>2, <3>3 DEF GoogleSettings
    <3> QED BY <1>2, <2>1, <2>2, <3>3, <3>4 DEF Keeps
  <2>4. CASE r \notin keeping'
    BY <1>2, <2>1, <2>2, <2>4 DEF Keeps
  <2> QED BY <2>3, <2>4
<1>4. ASSUME NEW r \in Request, Save(r)
      PROVE  Keeps'
  <2>1. /\ pc'[r] = "saved" /\ patch' = patch /\ stored' = Apply(patch[r], stored)
        /\ \A q \in Request \ {r} : pc'[q] = pc[q]
        /\ keeping' = IF "google" \in DOMAIN patch[r] THEN keeping \cap {r} ELSE keeping
    BY <1>2, <1>4 DEF Save
  <2>2. CASE "google" \in DOMAIN patch[r]
    BY <2>1, <2>2 DEF Keeps
  <2>3. CASE "google" \notin DOMAIN patch[r]
    <3>1. stored'["google"] = stored["google"]
      BY <2>1, <2>3 DEF Apply, Section
    <3> QED BY <1>2, <2>1, <2>3, <3>1 DEF Keeps
  <2> QED BY <2>2, <2>3
<1>5. ASSUME UNCHANGED <<stored, keeping>>,
             \A r \in Request :
               \/ pc'[r] \notin {"waiting", "check", "prepare", "save"}
               \/ /\ pc[r] \in {"waiting", "check", "prepare", "save"}
                  /\ patch'[r] = patch[r]
      PROVE  Keeps'
  BY <1>2, <1>5 DEF Keeps
<1>6. ASSUME NEW r \in Request, Steps(r) \/ Fail(r) \/ Drop(r), ~Save(r)
      PROVE  Keeps'
  <2>1. UNCHANGED <<stored, keeping>>
    BY <1>6 DEF Steps, Lock, Check, Prepare, Commit, CommitLlm, HookRead, HookWrite, Fail, Drop
  <2>2. CASE Lock(r) \/ Check(r) \/ Prepare(r) \/ Fail(r) \/ Drop(r)
    <3>1. ASSUME NEW q \in Request
          PROVE  \/ pc'[q] \notin {"waiting", "check", "prepare", "save"}
                 \/ /\ pc[q] \in {"waiting", "check", "prepare", "save"}
                    /\ patch'[q] = patch[q]
      BY <1>2, <2>2 DEF Lock, Check, Prepare, Fail, Drop, Idle
    <3> QED BY <1>5, <2>1, <3>1
  <2>3. CASE Commit(r) \/ CommitLlm(r)
    <3>1. ASSUME NEW q \in Request
          PROVE  \/ pc'[q] \notin {"waiting", "check", "prepare", "save"}
                 \/ /\ pc[q] \in {"waiting", "check", "prepare", "save"}
                    /\ patch'[q] = patch[q]
      BY <1>2, <2>3 DEF Commit, CommitLlm, Release
    <3> QED BY <1>5, <2>1, <3>1
  <2>4. CASE (\E x \in Section : HookRead(r, x)) \/ HookWrite(r)
    <3>1. ASSUME NEW q \in Request
          PROVE  \/ pc'[q] \notin {"waiting", "check", "prepare", "save"}
                 \/ /\ pc[q] \in {"waiting", "check", "prepare", "save"}
                    /\ patch'[q] = patch[q]
      BY <1>2, <2>4 DEF HookRead, HookWrite
    <3> QED BY <1>5, <2>1, <3>1
  <2> QED BY <1>6, <2>2, <2>3, <2>4 DEF Steps
<1>7. ASSUME AddPasskey \/ RemovePasskey \/ (\E e \in BOOLEAN : Restart(e)) \/ UNCHANGED vars
      PROVE  Keeps'
  <2>1. UNCHANGED <<stored, keeping>>
        /\ (UNCHANGED <<pc, patch>> \/ \A r \in Request : pc'[r] = "idle")
    BY <1>7 DEF AddPasskey, RemovePasskey, Restart, memory, vars
  <2> QED BY <1>5, <2>1
<1> QED BY <1>1, <1>3, <1>4, <1>6, <1>7 DEF KInv, Next

\* The placeholder that a form sends back keeps Google's secret, however updates
\* of other sections interleave.
THEOREM SecretsAreKept == Spec => SecretPreserved
<1>1. Init => KInv
  BY TypeInit DEF Init, KInv, Keeps
<1>2. KInv /\ [Next]_vars
        => [\A r \in Request : Save(r) /\ r \in keeping
              => stored'["google"].secret = stored["google"].secret]_vars
  <2> SUFFICES ASSUME KInv, NEW r \in Request, Save(r), r \in keeping
               PROVE  stored'["google"].secret = stored["google"].secret
    OBVIOUS
  <2>1. /\ "google" \in DOMAIN patch[r]
        /\ patch[r]["google"].secret = stored["google"].secret
        /\ stored' = Apply(patch[r], stored)
    BY DEF Save, KInv, Keeps
  <2>2. stored'["google"] = patch[r]["google"]
    BY <2>1 DEF Apply, Section
  <2> QED BY <2>1, <2>2
<1> QED BY <1>1, <1>2, KeepsNext, PTL DEF Spec, SecretPreserved

-----------------------------------------------------------------------------
\* What validation lets through under the lock stays valid until it is saved: the
\* cache does not change, and a removed passkey is on record.
Signs(s, e) ==
  (s["setup"] /\ ~s["auth"].off)
    => /\ Startable(s, e)
       /\ \/ Password(s, e) \/ s["google"].on \/ s["email"]
          \/ s["passkey"] /\ (passkeys \/ removed)

Validated ==
  \A r \in Request :
    /\ pc[r] \in {"check", "prepare", "save"} => Accepts(Prospective(r), env)
    /\ pc[r] \in {"prepare", "save"} /\ PasskeyOnly(Prospective(r), env)
         => passkeys \/ removed

VInv == TInv /\ Validated /\ (sound => Signs(stored, checked))

LEMMA AcceptedSigns ==
  ASSUME NEW s, NEW e, Accepts(s, e), PasskeyOnly(s, e) => passkeys \/ removed
  PROVE  Signs(s, e)
BY DEF Accepts, PasskeyOnly, Signs, Startable, Valid, Preparable, OAuth

\* No request but the holder of the lock has been validated.
LEMMA OneHolder ==
  ASSUME TInv, NEW r \in Request, NEW q \in Request,
         pc[r] \in Holding, pc[q] \in Holding
  PROVE  q = r
BY DEF TInv, Shape

LEMMA ValidatedNext == VInv /\ [Next]_vars => VInv'
<1> SUFFICES ASSUME VInv, [Next]_vars PROVE VInv'
  OBVIOUS
<1>1. TInv' /\ TInv
  BY TypeNext DEF VInv
<1>2. /\ pc \in [Request -> States] /\ DOMAIN patch = Request /\ Validated
      /\ sound => Signs(stored, checked)
  BY <1>1 DEF TInv, Shape, VInv
\* Steps that neither save nor restart, and after which nobody new is validated.
<1>3. ASSUME UNCHANGED <<stored, checked, sound, env>>,
             passkeys \/ removed => passkeys' \/ removed',
             \A r \in Request :
               \/ pc'[r] \notin {"check", "prepare", "save"}
               \/ /\ patch'[r] = patch[r] /\ cache' = cache
                  /\ \/ pc'[r] = pc[r]
                     \/ pc[r] = "prepare" /\ pc'[r] = "save"
      PROVE  VInv'
  <2>1. Validated'
    <3> SUFFICES ASSUME NEW r \in Request, pc'[r] \in {"check", "prepare", "save"}
                 PROVE  /\ Accepts(Prospective(r)', env)
                        /\ pc'[r] \in {"prepare", "save"} /\ PasskeyOnly(Prospective(r)', env)
                             => passkeys' \/ removed'
      BY <1>3 DEF Validated
    <3>1. Prospective(r)' = Prospective(r) /\ pc[r] \in {"check", "prepare", "save"}
          /\ (pc'[r] \in {"prepare", "save"} => pc[r] \in {"prepare", "save"})
      BY <1>3 DEF Prospective
    <3> QED BY <1>2, <1>3, <3>1 DEF Validated
  <2>2. sound' => Signs(stored, checked)'
    BY <1>2, <1>3 DEF Signs
  <2> QED BY <1>1, <2>1, <2>2 DEF VInv
<1>4. ASSUME NEW r \in Request, Lock(r)
      PROVE  VInv'
  <2>1. /\ UNCHANGED <<stored, checked, sound, env, passkeys, removed, cache>>
        /\ \A q \in Request \ {r} : pc'[q] = pc[q] /\ patch'[q] = patch[q]
        /\ \/ pc'[r] = "idle"
           \/ /\ patch'[r] = patch[r] /\ Accepts(Prospective(r), env)
              /\ pc'[r] = IF PasskeyOnly(Prospective(r), env) THEN "check" ELSE "prepare"
    BY <1>2, <1>4 DEF Lock, Idle
  <2>2. \A q \in Request : patch'[q] = patch[q] => Prospective(q)' = Prospective(q)
    BY <2>1 DEF Prospective
  <2>3. Validated'
    BY <1>2, <2>1, <2>2 DEF Validated
  <2>4. sound' => Signs(stored, checked)'
    BY <1>2, <2>1 DEF Signs
  <2> QED BY <1>1, <2>3, <2>4 DEF VInv
<1>5. ASSUME NEW r \in Request, Check(r)
      PROVE  VInv'
  <2>1. /\ UNCHANGED <<stored, checked, sound, env, passkeys, removed, cache>>
        /\ \A q \in Request \ {r} : pc'[q] = pc[q] /\ patch'[q] = patch[q]
        /\ pc[r] = "check"
        /\ \/ pc'[r] = "idle"
           \/ patch'[r] = patch[r] /\ passkeys /\ pc'[r] = "prepare"
    BY <1>2, <1>5 DEF Check, Idle
  <2>2. \A q \in Request : patch'[q] = patch[q] => Prospective(q)' = Prospective(q)
    BY <2>1 DEF Prospective
  <2>3. Validated'
    BY <1>2, <2>1, <2>2 DEF Validated
  <2>4. sound' => Signs(stored, checked)'
    BY <1>2, <2>1 DEF Signs
  <2> QED BY <1>1, <2>3, <2>4 DEF VInv
<1>6. ASSUME NEW r \in Request, Save(r)
      PROVE  VInv'
  <2>1. /\ UNCHANGED <<env, passkeys, removed, cache, patch>>
        /\ checked' = env /\ sound' = (stored' = Prospective(r))
        /\ pc[r] = "save" /\ pc'[r] = "saved"
        /\ \A q \in Request \ {r} : pc'[q] = pc[q]
    BY <1>2, <1>6 DEF Save
  <2>2. Signs(Prospective(r), env)
    BY <1>2, <2>1, AcceptedSigns DEF Validated
  <2>3. sound' => Signs(stored, checked)'
    BY <2>1, <2>2 DEF Signs
  <2>4. \A q \in Request : Prospective(q)' = Prospective(q)
    BY <2>1 DEF Prospective
  <2>5. Validated'
    BY <1>2, <2>1, <2>4 DEF Validated
  <2> QED BY <1>1, <2>3, <2>5 DEF VInv
<1>7. ASSUME NEW r \in Request, Commit(r) \/ CommitLlm(r)
      PROVE  VInv'
  <2>1. /\ UNCHANGED <<stored, checked, sound, env, passkeys, removed>>
        /\ pc[r] \in Holding /\ pc'[r] \notin {"check", "prepare", "save"}
        /\ \A q \in Request \ {r} : pc'[q] = pc[q]
    BY <1>2, <1>7 DEF Commit, CommitLlm, Release, Holding
  <2>2. \A q \in Request : pc'[q] \notin {"check", "prepare", "save"}
    BY <1>1, <2>1, OneHolder DEF Holding
  <2> QED BY <1>3, <2>1, <2>2
<1>8. ASSUME NEW r \in Request, Prepare(r)
      PROVE  VInv'
  <2>1. /\ UNCHANGED <<stored, checked, sound, env, passkeys, removed, cache, patch>>
        /\ pc[r] = "prepare" /\ pc'[r] = "save"
        /\ \A q \in Request \ {r} : pc'[q] = pc[q]
    BY <1>2, <1>8 DEF Prepare
  <2> QED BY <1>3, <2>1
<1>9. ASSUME NEW r \in Request, Fail(r) \/ Drop(r) \/ \E p \in Input : Begin(r, p)
      PROVE  VInv'
  <2>1. /\ UNCHANGED <<stored, checked, sound, env, passkeys, removed, cache>>
        /\ pc'[r] \notin {"check", "prepare", "save"}
        /\ \A q \in Request \ {r} : pc'[q] = pc[q] /\ patch'[q] = patch[q]
    BY <1>2, <1>9 DEF Fail, Drop, Begin, Idle
  <2> QED BY <1>3, <2>1
<1>10. ASSUME NEW r \in Request, (\E x \in Section : HookRead(r, x)) \/ HookWrite(r)
       PROVE  VInv'
  <2>1. /\ UNCHANGED <<stored, checked, sound, env, passkeys, removed, cache, patch>>
        /\ \A q \in Request : pc'[q] = pc[q] \/ pc'[q] \in {"idle", "hooks"}
    BY <1>2, <1>10 DEF HookRead, HookWrite
  <2> QED BY <1>3, <2>1
<1>11. ASSUME AddPasskey \/ RemovePasskey \/ UNCHANGED vars
       PROVE  VInv'
  <2>1. /\ UNCHANGED <<stored, checked, sound, env, cache, patch, pc>>
        /\ passkeys \/ removed => passkeys' \/ removed'
    BY <1>11 DEF AddPasskey, RemovePasskey, vars, memory
  <2> QED BY <1>3, <2>1
<1>12. ASSUME NEW e \in BOOLEAN, Restart(e)
       PROVE  VInv'
  <2>1. /\ UNCHANGED <<stored, checked, sound, passkeys, removed>>
        /\ \A q \in Request : pc'[q] = "idle"
    BY <1>12 DEF Restart
  <2>2. Validated' /\ (sound' => Signs(stored, checked)')
    BY <1>2, <2>1 DEF Validated, Signs
  <2> QED BY <1>1, <2>2 DEF VInv
<1> QED BY <1>4, <1>5, <1>6, <1>7, <1>8, <1>9, <1>10, <1>11, <1>12 DEF Next, Steps

\* Nobody locks everybody out: a completed configuration that was validated
\* against what it was merged into starts, and has a way to sign in.
THEOREM NobodyIsLockedOut == Spec => []SomebodyCanSignIn
<1>1. Init => VInv
  <2>1. Init => ~stored["setup"]
    BY DEF Init, Fresh, Section
  <2>2. Init => Validated
    BY DEF Init, Validated
  <2> QED BY <2>1, <2>2, TypeInit DEF VInv, Signs
<1>2. VInv => SomebodyCanSignIn
  BY DEF VInv, Signs, SomebodyCanSignIn
<1> QED BY <1>1, <1>2, ValidatedNext, PTL DEF Spec

-----------------------------------------------------------------------------
\* While nothing has gone wrong the cache, the frontend client and the running
\* parts differ from the table only by what the update under way still owes.
Regular == up /\ ~abandoned /\ ~overlapped

Preparing(r) == pc[r] = "save" /\ SignInTouched(r)

\* The table is one save ahead of the cache, the frontend client one preparation
\* ahead of the table.
CacheFollows ==
  /\ (\A r \in Request : pc[r] # "saved") => cache = stored
  /\ \A r \in Request : pc[r] = "saved" => stored = Apply(patch[r], cache)

FrontendFollows ==
  /\ (\A r \in Request : ~Preparing(r)) => frontend = stored["auth"].address
  /\ \A r \in Request : Preparing(r) => frontend = Prospective(r)["auth"].address

\* The prepared Google client is the one in force.
ClientPrepared ==
  \A r \in Request : pc[r] \in {"save", "saved"} /\ SignInTouched(r)
     => client[r] = ClientOf(cache["google"])

\* Hooks are due only when nobody holds the lock, and read what is in the cache.
HooksAlone ==
  /\ lock # NoRequest => \A r \in Request : todo[r] = {} /\ heard[r] = {}
  /\ \A r \in Request : \A h \in heard[r] : h[1] \in todo[r] /\ h[2] = cache[h[1]]

\* Sections whose running parts are not up to date, and with Google its client.
Late(r) == IF pc[r] = "llm" THEN (DOMAIN patch[r] \cap Hooked) \cup {"llm"} ELSE todo[r]
Owed(t) == \E r \in Request : t \in Late(r) \/ (t = "client" /\ "google" \in Late(r))

LlmPatch ==
  \A r \in Request : pc[r] = "llm"
    => "llm" \in DOMAIN patch[r] /\ patch[r]["llm"] = cache["llm"]

RunningFollows == \A t \in Targets : Owed(t) \/ running[t] = Run(cache, env)[t]

Follows == /\ CacheFollows /\ FrontendFollows /\ ClientPrepared /\ HooksAlone /\ LlmPatch
           /\ RunningFollows

FInv == TInv /\ (Regular => Follows)

-----------------------------------------------------------------------------
LEMMA RunAt ==
  ASSUME NEW s, NEW e
  PROVE  /\ Run(s, e)["client"] = ClientOf(s["google"])
         /\ \A t \in Section \ {"auth"} : Run(s, e)[t] = s[t]
         /\ Run(s, e)["auth"] = [open |-> Open(s, e), password |-> Password(s, e),
                                 oauth |-> OAuth(s), address |-> s["auth"].address]
<1>1. \A t \in Section \ {"auth"} : t # "client"
  BY DEF Section
<1>2. "auth" \in Targets /\ "client" \in Targets /\ Section \subseteq Targets
  BY DEF Targets, Section
<1>3. Run(s, e)["client"] = ClientOf(s["google"])
  BY <1>2 DEF Run
<1>4. Run(s, e)["auth"] = [open |-> Open(s, e), password |-> Password(s, e),
                           oauth |-> OAuth(s), address |-> s["auth"].address]
  BY <1>2 DEF Run
<1>5. ASSUME NEW t \in Section \ {"auth"}
      PROVE  Run(s, e)[t] = s[t]
  BY <1>1, <1>2 DEF Run
<1> QED BY <1>3, <1>4, <1>5

\* What the sign-in service makes of sections depends on its own only.
LEMMA RunSame ==
  ASSUME NEW s, NEW u, NEW e, \A x \in SignIn : s[x] = u[x]
  PROVE  Run(s, e)["auth"] = Run(u, e)["auth"]
<1>1. /\ s["auth"] = u["auth"] /\ s["google"] = u["google"] /\ s["email"] = u["email"]
      /\ s["passkey"] = u["passkey"] /\ s["setup"] = u["setup"]
  BY DEF SignIn
<1>2. Open(s, e) = Open(u, e) /\ Password(s, e) = Password(u, e) /\ OAuth(s) = OAuth(u)
  BY <1>1 DEF Open, Password, OAuth
<1>3. Run(s, e)["auth"] = [open |-> Open(s, e), password |-> Password(s, e),
                           oauth |-> OAuth(s), address |-> s["auth"].address]
  BY ONLY RunAt
<1>4. Run(u, e)["auth"] = [open |-> Open(u, e), password |-> Password(u, e),
                           oauth |-> OAuth(u), address |-> u["auth"].address]
  BY ONLY RunAt
<1> QED BY ONLY <1>1, <1>2, <1>3, <1>4, Zenon

\* Under the lock and before the commit everything runs on the cache.
LEMMA AllRun ==
  ASSUME TInv, Follows, NEW r \in Request,
         pc[r] \in {"check", "prepare", "save", "saved"}, NEW t \in Targets
  PROVE  running[t] = Run(cache, env)[t]
<1>1. lock # NoRequest /\ \A q \in Request : pc[q] \in Holding => q = r
  <2>1. lock = r
    BY DEF TInv, Shape, Holding
  <2> QED BY <2>1, RequestAssumption, OneHolder DEF Holding
<1>2. \A q \in Request : Late(q) = {}
  BY <1>1 DEF Late, Follows, HooksAlone, Holding
<1> QED BY <1>2 DEF Follows, RunningFollows, Owed

\* A step changes a request's progress only, and not whether it prepares, has
\* saved or owes anything.
LEMMA QuietStep ==
  ASSUME TInv, Regular' => Regular, Follows \/ ~Regular, TInv',
         UNCHANGED <<stored, frontend, env, cache, running>>,
         Regular' /\ lock' # NoRequest
           => \A r \in Request : todo'[r] = {} /\ heard'[r] = {},
         \A r \in Request :
           /\ todo'[r] = todo[r] /\ (heard'[r] # {} => heard'[r] = heard[r])
           /\ \/ pc'[r] \notin {"save", "saved", "llm"}
              \/ pc'[r] = pc[r] /\ patch'[r] = patch[r] /\ client'[r] = client[r]
           /\ pc[r] \in {"saved", "llm"} => pc'[r] = pc[r]
           /\ Preparing(r) => pc'[r] = pc[r] \/ ~Regular'
  PROVE  FInv'
<1> SUFFICES ASSUME Regular', Follows PROVE Follows'
  BY DEF FInv
<1>1. \A r \in Request : Preparing(r)' <=> Preparing(r)
  BY DEF Preparing, SignInTouched
<1>2. \A r \in Request : pc'[r] = "saved" <=> pc[r] = "saved"
  OBVIOUS
<1>3. CacheFollows'
  BY <1>2 DEF Follows, CacheFollows
<1>4. FrontendFollows'
  BY <1>1 DEF Follows, FrontendFollows, Preparing, Prospective
<1>5. ClientPrepared' /\ LlmPatch'
  BY DEF Follows, ClientPrepared, LlmPatch, SignInTouched
<1>6. HooksAlone'
  BY DEF Follows, HooksAlone
<1>7. RunningFollows'
  BY DEF Follows, RunningFollows, Owed, Late
<1> QED BY <1>3, <1>4, <1>5, <1>6, <1>7 DEF Follows

LEMMA FQuiet ==
  ASSUME FInv, TInv', NEW r \in Request,
         \/ Lock(r) \/ Check(r) \/ Fail(r) \/ Drop(r) \/ \E p \in Input : Begin(r, p)
  PROVE  FInv'
<1>1. TInv /\ (Follows \/ ~Regular)
  BY DEF FInv
<1>2. /\ pc \in [Request -> States] /\ DOMAIN patch = Request /\ DOMAIN client = Request
      /\ {abandoned, overlapped} \subseteq BOOLEAN
  BY <1>1 DEF TInv, Shape, Facts
<1>3. CASE Drop(r)
  BY <1>3 DEF Drop, FInv, Regular
<1>4. /\ pc[r] \in {"idle", "waiting", "check", "prepare", "save"} /\ (pc[r] = "save" => Fail(r))
      /\ pc'[r] \in {"idle", "waiting", "check", "prepare"}
      /\ UNCHANGED <<stored, frontend, env, cache, running, todo, heard>>
      /\ \A q \in Request \ {r} : /\ pc'[q] = pc[q] /\ patch'[q] = patch[q]
                                  /\ client'[q] = client[q]
      \/ Drop(r)
  BY <1>2 DEF Lock, Check, Fail, Begin, Idle
<1>5. ASSUME ~Drop(r) PROVE Regular' => Regular
  <2>1. CASE Lock(r)
    BY <1>2, <2>1 DEF Lock, Regular
  <2>2. CASE Fail(r)
    BY <1>2, <2>2 DEF Fail, Regular
  <2>3. CASE Check(r) \/ \E p \in Input : Begin(r, p)
    BY <2>3 DEF Check, Begin, Regular
  <2> QED BY <1>5, <2>1, <2>2, <2>3
<1>6. ASSUME ~Drop(r), Regular', lock' # NoRequest
      PROVE  \A q \in Request : todo'[q] = {} /\ heard'[q] = {}
  <2>1. Follows /\ UNCHANGED <<todo, heard>>
    BY <1>1, <1>4, <1>5, <1>6
  <2>2. HooksAlone
    BY <2>1 DEF Follows
  <2>3. CASE Lock(r) /\ lock = NoRequest
    <3>1. lock' = r => \A q \in Request : todo[q] = {}
      BY <1>6, <2>3 DEF Lock, Regular
    <3>2. \A q \in Request : todo[q] = {}
      BY <1>6, <2>3, <3>1 DEF Lock
    <3>3. \A q \in Request : heard[q] = {}
      BY <2>2, <3>2 DEF HooksAlone
    <3> QED BY <2>1, <3>2, <3>3
  <2>4. CASE lock # NoRequest
    BY <2>1, <2>2, <2>4 DEF HooksAlone
  <2>5. Lock(r) => lock = NoRequest
    BY DEF Lock
  <2>6. Check(r) \/ Fail(r) \/ (\E p \in Input : Begin(r, p)) => lock # NoRequest
    BY <1>6 DEF Check, Fail, Begin
  <2> QED BY <1>6, <2>3, <2>4, <2>5, <2>6
<1>7. ASSUME ~Drop(r), NEW q \in Request, Preparing(q)
      PROVE  pc'[q] = pc[q] \/ ~Regular'
  <2>1. CASE q = r
    <3>1. pc[r] = "save" /\ SignInTouched(r) /\ Fail(r)
      BY <1>4, <1>7, <2>1 DEF Preparing
    <3> QED BY <1>2, <3>1 DEF Fail, Regular
  <2> QED BY <1>4, <1>7, <2>1
<1>8. CASE ~Drop(r)
  <2>1. \A q \in Request :
           /\ todo'[q] = todo[q] /\ (heard'[q] # {} => heard'[q] = heard[q])
           /\ \/ pc'[q] \notin {"save", "saved", "llm"}
              \/ pc'[q] = pc[q] /\ patch'[q] = patch[q] /\ client'[q] = client[q]
           /\ pc[q] \in {"saved", "llm"} => pc'[q] = pc[q]
    BY <1>4, <1>8
  <2>2. UNCHANGED <<stored, frontend, env, cache, running>>
    BY <1>4, <1>8
  <2> QED BY <1>1, <1>5, <1>6, <1>7, <1>8, <2>1, <2>2, QuietStep
<1> QED BY <1>3, <1>8

LEMMA FPrepare ==
  ASSUME FInv, TInv', NEW r \in Request, Prepare(r)
  PROVE  FInv'
<1> SUFFICES ASSUME Regular' PROVE Follows'
  BY DEF FInv
<1>1. TInv /\ Follows
  BY DEF FInv, Prepare, Regular
<1>2. /\ pc[r] = "prepare" /\ pc'[r] = "save"
      /\ \A q \in Request \ {r} : pc'[q] = pc[q] /\ pc[q] \notin Holding /\ client'[q] = client[q]
      /\ UNCHANGED <<stored, env, cache, running, lock, patch, todo, heard>>
  <2>1. pc \in [Request -> States] /\ DOMAIN client = Request /\ pc[r] = "prepare"
    BY <1>1 DEF TInv, Shape, Prepare
  <2>2. \A q \in Request \ {r} : pc[q] \notin Holding
    BY <1>1, <2>1, OneHolder DEF Holding
  <2> QED BY <2>1, <2>2 DEF Prepare
<1>3. \A q \in Request : pc[q] \notin {"save", "saved", "llm"}
  BY <1>2 DEF Holding
<1>4. \A q \in Request : q # r => pc'[q] \notin {"save", "saved", "llm"}
  BY <1>2, <1>3
<1>5. cache' = stored' /\ frontend = stored["auth"].address
  BY <1>1, <1>2, <1>3 DEF Follows, CacheFollows, FrontendFollows, Preparing
<1>6. CacheFollows'
  BY <1>2, <1>4, <1>5 DEF CacheFollows
<1>7. running["google"] = cache["google"]
  <2>1. running["google"] = Run(cache, env)["google"]
    BY <1>1, <1>2, AllRun DEF Targets, Section
  <2>2. \A t \in Section \ {"auth"} : Run(cache, env)[t] = cache[t]
    BY ONLY RunAt
  <2>3. "google" \in Section \ {"auth"}
    BY DEF Section
  <2>4. Run(cache, env)["google"] = cache["google"]
    BY ONLY <2>2, <2>3, Zenon
  <2> QED BY ONLY <2>1, <2>4, Zenon
<1>8. Prospective(r)' = Prospective(r) /\ SignInTouched(r)' = SignInTouched(r)
  BY <1>2 DEF Prospective, SignInTouched
<1>9. FrontendFollows'
  <2>1. CASE SignInTouched(r)
    BY <1>2, <1>4, <1>8, <2>1 DEF Prepare, FrontendFollows, Preparing
  <2>2. CASE ~SignInTouched(r)
    BY <1>2, <1>4, <1>5, <1>8, <2>2 DEF Prepare, FrontendFollows, Preparing
  <2> QED BY <2>1, <2>2
<1>10. ClientPrepared'
  <2>1. SignInTouched(r) => client'[r] = ClientOf(cache["google"])
    BY <1>1, <1>7 DEF Prepare, TInv, Shape
  <2> QED BY <1>2, <1>4, <1>8, <2>1 DEF ClientPrepared
<1>11. HooksAlone'
  BY <1>1, <1>2 DEF Follows, HooksAlone
<1>12. LlmPatch'
  BY <1>2, <1>4 DEF LlmPatch
<1>13. RunningFollows'
  <2>1. \A q \in Request : Late(q)' = Late(q)
    BY <1>2, <1>3, <1>4 DEF Late
  <2> QED BY <1>1, <1>2, <2>1 DEF Follows, RunningFollows, Owed
<1> QED BY <1>6, <1>9, <1>10, <1>11, <1>12, <1>13 DEF Follows

LEMMA FSave ==
  ASSUME FInv, TInv', NEW r \in Request, Save(r)
  PROVE  FInv'
<1> SUFFICES ASSUME Regular' PROVE Follows'
  BY DEF FInv
<1>1. TInv /\ Follows
  BY DEF FInv, Save, Regular
<1>2. /\ pc[r] = "save" /\ pc'[r] = "saved" /\ stored' = Apply(patch[r], stored)
      /\ \A q \in Request \ {r} : pc'[q] = pc[q] /\ pc[q] \notin Holding
      /\ UNCHANGED <<frontend, env, cache, running, lock, patch, client, todo, heard>>
  <2>1. pc \in [Request -> States] /\ pc[r] = "save"
    BY <1>1 DEF TInv, Shape, Save
  <2>2. \A q \in Request \ {r} : pc[q] \notin Holding
    BY <1>1, <2>1, OneHolder DEF Holding
  <2> QED BY <2>1, <2>2 DEF Save
<1>3. \A q \in Request : q # r => pc[q] \notin {"save", "saved", "llm"} /\ pc'[q] = pc[q]
  BY <1>2 DEF Holding
<1>4. cache = stored
  BY <1>1, <1>2, <1>3 DEF Follows, CacheFollows
<1>5. stored' = Prospective(r)
  BY <1>2, <1>4 DEF Prospective
<1>6. CacheFollows'
  BY <1>2, <1>3, <1>5 DEF CacheFollows, Prospective
<1>7. frontend = stored'["auth"].address
  <2>1. CASE SignInTouched(r)
    <3>1. Preparing(r)
      BY <1>2, <2>1 DEF Preparing
    <3> QED BY <1>1, <1>5, <3>1 DEF Follows, FrontendFollows
  <2>2. CASE ~SignInTouched(r)
    <3>1. \A q \in Request : ~Preparing(q)
      BY <1>2, <1>3, <2>2 DEF Preparing
    <3>2. frontend = stored["auth"].address
      BY <1>1, <3>1 DEF Follows, FrontendFollows
    <3>3. stored'["auth"] = stored["auth"]
      BY <1>2, <2>2 DEF SignInTouched, SignIn, Apply, Section
    <3> QED BY <3>2, <3>3
  <2> QED BY <2>1, <2>2
<1>8. FrontendFollows'
  BY <1>2, <1>3, <1>7 DEF FrontendFollows, Preparing
<1>9. ClientPrepared'
  BY <1>1, <1>2, <1>3 DEF Follows, ClientPrepared, SignInTouched
<1>10. HooksAlone'
  BY <1>1, <1>2 DEF Follows, HooksAlone
<1>11. LlmPatch'
  BY <1>2, <1>3 DEF LlmPatch
<1>12. RunningFollows'
  <2>1. \A q \in Request : Late(q)' = Late(q)
    BY <1>2, <1>3 DEF Late
  <2> QED BY <1>1, <1>2, <2>1 DEF Follows, RunningFollows, Owed
<1> QED BY <1>6, <1>8, <1>9, <1>10, <1>11, <1>12 DEF Follows

-----------------------------------------------------------------------------
\* What the commits of the sign-in sections leave is due from a hook or the LLM.
LEMMA CommitRuns ==
  ASSUME TInv, Follows, NEW r \in Request, pc[r] = "saved", NEW t \in Targets,
         t \notin DOMAIN patch[r] \cap (Hooked \cup {"llm"}),
         t = "client" => "google" \notin DOMAIN patch[r]
  PROVE  CommitSignIn(r)[t] = Run(Prospective(r), env)[t]
<1> DEFINE s == Prospective(r)
<1>1. \A x \in Targets : running[x] = Run(cache, env)[x]
  BY AllRun
<1>2. \A x \in Section : s[x] = IF x \in DOMAIN patch[r] THEN patch[r][x] ELSE cache[x]
  BY DEF Prospective, Apply
<1>3. /\ Run(s, env)["client"] = ClientOf(s["google"])
      /\ \A x \in Section \ {"auth"} : Run(s, env)[x] = s[x]
  BY ONLY RunAt
<1>4. /\ Run(cache, env)["client"] = ClientOf(cache["google"])
      /\ \A x \in Section \ {"auth"} : Run(cache, env)[x] = cache[x]
  BY ONLY RunAt
<1>5. "auth" \in Targets /\ "client" \in Targets /\ "client" \notin Section
      /\ SignIn \subseteq Section /\ "google" \in SignIn /\ "passkey" \in Section \ {"auth"}
  BY DEF Targets, Section, SignIn
<1>6. CASE t = "auth"
  <2>1. CASE SignInTouched(r)
    <3>1. CommitSignIn(r)[t] = Run(s, env)["auth"]
      BY <1>5, <1>6, <2>1 DEF CommitSignIn
    <3> QED BY ONLY <1>6, <3>1, Zenon
  <2>2. CASE ~SignInTouched(r)
    <3>1. \A x \in SignIn : s[x] = cache[x]
      BY <1>2, <1>5, <2>2 DEF SignInTouched
    <3>2. Run(s, env)["auth"] = Run(cache, env)["auth"]
      <4> HIDE DEF s
      <4> QED BY ONLY <3>1, RunSame
    <3>3. CommitSignIn(r)[t] = running["auth"]
      BY <1>5, <1>6, <2>2 DEF CommitSignIn
    <3>4. running["auth"] = Run(cache, env)["auth"]
      BY ONLY <1>1, <1>5, Zenon
    <3> QED BY ONLY <1>6, <3>2, <3>3, <3>4, Zenon
  <2> QED BY <2>1, <2>2
<1>7. CASE t = "client"
  <2>1. s["google"] = cache["google"]
    BY <1>2, <1>5, <1>7
  <2>2. CommitSignIn(r)[t] = ClientOf(cache["google"])
    <3>1. CASE SignInTouched(r)
      <4>1. client[r] = ClientOf(cache["google"])
        BY <3>1 DEF Follows, ClientPrepared
      <4>2. CommitSignIn(r)[t] = client[r]
        BY <1>5, <1>7, <3>1 DEF CommitSignIn
      <4> QED BY ONLY <4>1, <4>2, Zenon
    <3>2. CASE ~SignInTouched(r)
      <4>1. CommitSignIn(r)[t] = running["client"]
        BY <1>5, <1>7, <3>2 DEF CommitSignIn
      <4>2. running["client"] = Run(cache, env)["client"]
        BY ONLY <1>1, <1>5, Zenon
      <4> QED BY ONLY <1>4, <4>1, <4>2, Zenon
    <3> QED BY <3>1, <3>2
  <2>3. Run(s, env)["client"] = ClientOf(cache["google"])
    BY ONLY <1>3, <2>1, Zenon
  <2> QED BY ONLY <1>7, <2>2, <2>3, Zenon
<1>8. CASE t \in Section \ {"auth"}
  <2>1. Run(s, env)[t] = s[t]
    BY ONLY <1>3, <1>8, Zenon
  <2>2. running[t] = cache[t]
    <3>1. running[t] = Run(cache, env)[t]
      BY ONLY <1>1, t \in Targets, Zenon
    <3>2. Run(cache, env)[t] = cache[t]
      BY ONLY <1>4, <1>8, Zenon
    <3> QED BY ONLY <3>1, <3>2, Zenon
  <2>3. CommitSignIn(r)[t] = s[t]
    <3>1. t # "auth" /\ t # "client"
      BY <1>5, <1>8
    <3>2. CASE t = "passkey" /\ DOMAIN patch[r] \cap {"auth", "passkey"} # {}
      BY <3>1, <3>2 DEF CommitSignIn
    <3>3. CASE ~(t = "passkey" /\ DOMAIN patch[r] \cap {"auth", "passkey"} # {})
      <4>1. CommitSignIn(r)[t] = running[t]
        BY <3>1, <3>3 DEF CommitSignIn
      <4>2. t \notin DOMAIN patch[r]
        BY <1>8, <3>3 DEF Section, Hooked, SignIn
      <4>3. s[t] = cache[t]
        BY <1>2, <1>8, <4>2
      <4> QED BY ONLY <2>2, <4>1, <4>3, Zenon
    <3> QED BY <3>2, <3>3
  <2> QED BY ONLY <2>1, <2>3, Zenon
<1> QED BY <1>6, <1>7, <1>8 DEF Targets

\* Once the lock is released nothing but hooks is left.
LEMMA FreeFollows ==
  ASSUME lock' = NoRequest, cache' = stored', frontend' = stored'["auth"].address,
         \A q \in Request : pc'[q] \notin {"save", "saved", "llm"} /\ heard'[q] = {}
  PROVE  CacheFollows' /\ FrontendFollows' /\ ClientPrepared' /\ HooksAlone' /\ LlmPatch'
<1>1. CacheFollows' /\ FrontendFollows'
  BY DEF CacheFollows, FrontendFollows, Preparing
<1>2. ClientPrepared' /\ HooksAlone' /\ LlmPatch'
  BY DEF ClientPrepared, HooksAlone, LlmPatch
<1> QED BY <1>1, <1>2

\* What the holder of the lock has done so far, and that it is alone.
LEMMA HolderAlone ==
  ASSUME TInv, Follows, NEW r \in Request, pc[r] \in {"saved", "llm"}
  PROVE  /\ lock = r /\ lock # NoRequest
         /\ \A q \in Request : todo[q] = {} /\ heard[q] = {}
         /\ \A q \in Request \ {r} : pc[q] \notin Holding
         /\ frontend = stored["auth"].address
         /\ pc[r] = "saved" => stored = Prospective(r)
         /\ pc[r] = "llm" => cache = stored
<1>1. lock = r /\ pc[r] \in Holding
  BY DEF TInv, Shape, Holding
<1>2. lock # NoRequest
  BY <1>1, RequestAssumption
<1>3. \A q \in Request \ {r} : pc[q] \notin Holding
  BY <1>1, OneHolder
<1>4. \A q \in Request : ~Preparing(q)
  BY <1>3 DEF Preparing, Holding
<1>5. frontend = stored["auth"].address
  BY <1>4 DEF Follows, FrontendFollows
<1>6. pc[r] = "saved" => stored = Prospective(r)
  BY DEF Follows, CacheFollows, Prospective
<1>7. pc[r] = "llm" => cache = stored
  BY <1>3 DEF Follows, CacheFollows, Holding
<1> QED BY <1>1, <1>2, <1>3, <1>5, <1>6, <1>7 DEF Follows, HooksAlone

LEMMA FCommit ==
  ASSUME FInv, TInv', NEW r \in Request, Commit(r)
  PROVE  FInv'
<1> SUFFICES ASSUME Regular' PROVE Follows'
  BY DEF FInv
<1>1. TInv /\ Follows
  BY DEF FInv, Commit, Regular
<1>2. /\ pc \in [Request -> States] /\ DOMAIN patch = Request
      /\ todo \in [Request -> SUBSET Hooked] /\ pc[r] = "saved"
  BY <1>1 DEF TInv, Shape, Commit
<1>3. /\ lock = r /\ lock # NoRequest
      /\ \A q \in Request : todo[q] = {} /\ heard[q] = {}
      /\ \A q \in Request \ {r} : pc[q] \notin Holding
      /\ frontend = stored["auth"].address /\ stored = Prospective(r)
  BY <1>1, <1>2, HolderAlone
<1>4. /\ cache' = Prospective(r) /\ running' = CommitSignIn(r)
      /\ UNCHANGED <<stored, env, frontend, heard>>
  BY <1>3 DEF Commit
<1>5. \A q \in Request \ {r} : pc'[q] = pc[q]
  BY <1>2 DEF Commit, Release
<1>6. pc'[r] \in {"llm", "idle", "hooks"} /\ \A q \in Request : pc'[q] \notin {"save", "saved"}
  <2>1. pc'[r] \in {"llm", "idle", "hooks"}
    BY <1>2 DEF Commit, Release
  <2> QED BY <1>3, <1>5, <2>1 DEF Holding
<1>7. /\ CacheFollows' /\ FrontendFollows' /\ ClientPrepared'
  BY <1>3, <1>4, <1>6 DEF CacheFollows, FrontendFollows, ClientPrepared, Preparing
<1>8. HooksAlone'
  <2>1. CASE todo' = todo
    BY <1>3, <1>4, <2>1 DEF HooksAlone
  <2>2. CASE lock' = NoRequest
    BY <1>3, <1>4, <2>2 DEF HooksAlone
  <2> QED BY <2>1, <2>2 DEF Commit, Release
<1>9. LlmPatch'
  <2>1. \A q \in Request : pc'[q] = "llm" => q = r
    BY <1>3, <1>5 DEF Holding
  <2>2. pc'[r] = "llm" => "llm" \in DOMAIN patch[r] /\ patch' = patch
    BY <1>2 DEF Commit, Release
  <2>3. "llm" \in DOMAIN patch[r] => cache'["llm"] = patch[r]["llm"]
    BY <1>4 DEF Prospective, Apply, Section
  <2> QED BY <2>1, <2>2, <2>3 DEF LlmPatch
<1>10. Late(r)' = DOMAIN patch[r] \cap (Hooked \cup {"llm"})
  <2>1. CASE "llm" \in DOMAIN patch[r]
    <3>1. pc'[r] = "llm" /\ patch' = patch
      BY <1>2, <2>1 DEF Commit
    <3> QED BY <2>1, <3>1 DEF Late
  <2>2. CASE "llm" \notin DOMAIN patch[r]
    <3>1. pc'[r] # "llm" /\ todo'[r] = DOMAIN patch[r] \cap Hooked
      BY <1>2, <2>2 DEF Commit, Release
    <3> QED BY <2>2, <3>1 DEF Late
  <2> QED BY <2>1, <2>2
<1>11. RunningFollows'
  <2> SUFFICES ASSUME NEW t \in Targets, ~Owed(t)'
               PROVE  running'[t] = Run(cache', env')[t]
    BY DEF RunningFollows
  <2>1. /\ t \notin DOMAIN patch[r] \cap (Hooked \cup {"llm"})
        /\ t = "client" => "google" \notin DOMAIN patch[r]
    BY <1>10 DEF Owed, Hooked
  <2>2. CommitSignIn(r)[t] = Run(Prospective(r), env)[t]
    BY <1>1, <1>2, <2>1, CommitRuns
  <2> QED BY ONLY <1>4, <2>2, Zenon
<1> QED BY <1>7, <1>8, <1>9, <1>11 DEF Follows

LEMMA FCommitLlm ==
  ASSUME FInv, TInv', NEW r \in Request, CommitLlm(r)
  PROVE  FInv'
<1> SUFFICES ASSUME Regular' PROVE Follows'
  BY DEF FInv
<1>1. TInv /\ Follows
  BY DEF FInv, CommitLlm, Regular
<1>2. /\ pc \in [Request -> States] /\ pc[r] = "llm" /\ todo \in [Request -> SUBSET Hooked]
      /\ running = [t \in Targets |-> running[t]]
  BY <1>1 DEF TInv, Shape, Settings, CommitLlm
<1>3. /\ \A q \in Request : todo[q] = {} /\ heard[q] = {}
      /\ \A q \in Request \ {r} : pc[q] \notin Holding
      /\ frontend = stored["auth"].address /\ cache = stored
  BY <1>1, <1>2, HolderAlone
<1>4. /\ UNCHANGED <<stored, env, frontend, heard, cache>> /\ lock' = NoRequest
      /\ running' = [running EXCEPT !["llm"] = patch[r]["llm"]]
      /\ todo'[r] = DOMAIN patch[r] \cap Hooked
      /\ pc'[r] \in {"idle", "hooks"} /\ \A q \in Request \ {r} : pc'[q] = pc[q]
  BY <1>2 DEF CommitLlm, Release
<1>5. \A q \in Request : pc'[q] \notin {"save", "saved", "llm"} /\ heard'[q] = {}
  BY <1>3, <1>4 DEF Holding
<1>6. CacheFollows' /\ FrontendFollows' /\ ClientPrepared' /\ HooksAlone' /\ LlmPatch'
  BY <1>3, <1>4, <1>5, FreeFollows
<1>7. RunningFollows'
  <2> SUFFICES ASSUME NEW t \in Targets, ~Owed(t)'
               PROVE  running'[t] = Run(cache', env')[t]
    BY DEF RunningFollows
  <2>1. CASE t = "llm"
    <3>1. patch[r]["llm"] = cache["llm"]
      BY <1>1, <1>2 DEF Follows, LlmPatch
    <3>2. running'["llm"] = cache["llm"]
      BY <1>2, <1>4, <2>1, <3>1
    <3>3. \A x \in Section \ {"auth"} : Run(cache, env)[x] = cache[x]
      BY ONLY RunAt
    <3>4. "llm" \in Section \ {"auth"}
      BY DEF Section
    <3>5. Run(cache, env)["llm"] = cache["llm"]
      BY ONLY <3>3, <3>4, Zenon
    <3> QED BY ONLY <1>4, <2>1, <3>2, <3>5, Zenon
  <2>2. CASE t # "llm"
    <3>1. running'[t] = running[t]
      BY <1>2, <1>4, <2>2
    <3>2. ~Owed(t)
      <4>1. \A q \in Request : Late(q) \subseteq Late(q)' \cup {"llm"}
        BY <1>2, <1>3, <1>4, <1>5 DEF Late, Holding
      <4> QED BY <2>2, <4>1 DEF Owed
    <3>3. running[t] = Run(cache, env)[t]
      BY <1>1, <3>2 DEF Follows, RunningFollows
    <3> QED BY ONLY <1>4, <3>1, <3>3, Zenon
  <2> QED BY <2>1, <2>2
<1> QED BY <1>6, <1>7 DEF Follows

LEMMA FHookRead ==
  ASSUME FInv, TInv', NEW r \in Request, NEW x \in Section, HookRead(r, x)
  PROVE  FInv'
<1> SUFFICES ASSUME Regular' PROVE Follows'
  BY DEF FInv
<1>1. TInv /\ Follows
  BY DEF FInv, HookRead, Regular
<1>2. /\ DOMAIN heard = Request /\ heard' = [heard EXCEPT ![r] = {<<x, cache[x]>>}]
      /\ x \in todo[r]
      /\ UNCHANGED <<stored, frontend, env, cache, running, lock, pc, patch, client, todo>>
  BY <1>1 DEF TInv, Shape, HookRead
<1>3. HooksAlone'
  <2>1. lock = NoRequest
    BY <1>1, <1>2 DEF Follows, HooksAlone
  <2>2. ASSUME NEW q \in Request, NEW h \in heard'[q]
        PROVE  h[1] \in todo[q] /\ h[2] = cache[h[1]]
    BY <1>1, <1>2, <2>2 DEF Follows, HooksAlone
  <2> QED BY <1>2, <2>1, <2>2 DEF HooksAlone
<1>4. CacheFollows' /\ FrontendFollows' /\ ClientPrepared' /\ LlmPatch'
  BY <1>1, <1>2 DEF Follows, CacheFollows, FrontendFollows, ClientPrepared, LlmPatch,
                    Preparing, SignInTouched, Prospective
<1>5. RunningFollows'
  BY <1>1, <1>2 DEF Follows, RunningFollows, Owed, Late
<1> QED BY <1>3, <1>4, <1>5 DEF Follows

LEMMA FHookWrite ==
  ASSUME FInv, TInv', NEW r \in Request, HookWrite(r)
  PROVE  FInv'
<1> SUFFICES ASSUME Regular' PROVE Follows'
  BY DEF FInv
<1>1. TInv /\ Follows
  BY DEF FInv, HookWrite, Regular
<1>2. PICK h \in heard[r] :
        /\ running' = [t \in Targets |-> Heard(t, h[1], h[2])]
        /\ todo' = [todo EXCEPT ![r] = @ \ {h[1]}]
        /\ pc' = [pc EXCEPT ![r] = IF todo[r] = {h[1]} THEN "idle" ELSE "hooks"]
  BY DEF HookWrite
<1>3. /\ pc \in [Request -> States] /\ todo \in [Request -> SUBSET Hooked]
      /\ DOMAIN heard = Request /\ pc[r] = "hooks" /\ heard' = [heard EXCEPT ![r] = {}]
      /\ UNCHANGED <<stored, frontend, env, cache, lock, patch, client>>
  BY <1>1, <1>2 DEF TInv, Shape, Hears, HookWrite, NoHook
<1>4. h[1] \in todo[r] /\ h[2] = cache[h[1]] /\ lock = NoRequest
  BY <1>1, <1>2 DEF Follows, HooksAlone
<1>5. \A q \in Request : pc[q] \notin Holding
  BY <1>1, <1>4, RequestAssumption DEF TInv, Shape
<1>6. /\ pc'[r] \in {"idle", "hooks"} /\ todo'[r] = todo[r] \ {h[1]} /\ heard'[r] = {}
      /\ \A q \in Request \ {r} : pc'[q] = pc[q] /\ todo'[q] = todo[q] /\ heard'[q] = heard[q]
  BY <1>2, <1>3
<1>7. \A q \in Request : pc'[q] \notin {"save", "saved", "llm"}
                         /\ pc[q] \notin {"save", "saved", "llm"}
  BY <1>5, <1>6 DEF Holding
<1>8. CacheFollows' /\ FrontendFollows' /\ ClientPrepared' /\ LlmPatch'
  BY <1>1, <1>3, <1>7 DEF Follows, CacheFollows, FrontendFollows, ClientPrepared, LlmPatch,
                          Preparing
<1>9. HooksAlone'
  <2>1. ASSUME NEW q \in Request, NEW g \in heard'[q]
        PROVE  g[1] \in todo'[q] /\ g[2] = cache'[g[1]]
    <3>1. q # r
      BY <1>6, <2>1
    <3> QED BY <1>1, <1>3, <1>6, <2>1, <3>1 DEF Follows, HooksAlone
  <2> QED BY <1>3, <1>4, <2>1 DEF HooksAlone
<1>10. RunningFollows'
  <2> SUFFICES ASSUME NEW t \in Targets, ~Owed(t)'
               PROVE  running'[t] = Run(cache', env')[t]
    BY DEF RunningFollows
  <2>1. /\ Run(cache, env)["client"] = ClientOf(cache["google"])
        /\ \A x \in Section \ {"auth"} : Run(cache, env)[x] = cache[x]
    BY ONLY RunAt
  <2>2. h[1] \in Section \ {"auth"} /\ "client" \notin Section
    BY <1>3, <1>4 DEF Hooked, Section
  <2>3. running'[t] = Heard(t, h[1], h[2])
    BY <1>2
  <2>4. CASE t = h[1]
    <3>1. running'[t] = cache[t]
      BY <1>4, <2>3, <2>4 DEF Heard
    <3>2. Run(cache, env)[t] = cache[t]
      BY ONLY <2>1, <2>2, <2>4, Zenon
    <3> QED BY ONLY <1>3, <3>1, <3>2, Zenon
  <2>5. CASE t = "client" /\ h[1] = "google"
    <3>1. running'[t] = ClientOf(cache["google"])
      BY <1>4, <2>3, <2>5 DEF Heard
    <3> QED BY ONLY <1>3, <2>1, <2>5, <3>1, Zenon
  <2>6. CASE t # h[1] /\ ~(t = "client" /\ h[1] = "google")
    <3>1. running'[t] = running[t]
      BY <2>3, <2>6 DEF Heard
    <3>2. ~Owed(t)
      <4>1. \A q \in Request : Late(q) \subseteq Late(q)' \cup {h[1]}
        BY <1>6, <1>7 DEF Late
      <4> QED BY <2>6, <4>1 DEF Owed
    <3>3. running[t] = Run(cache, env)[t]
      BY <1>1, <3>2 DEF Follows, RunningFollows
    <3> QED BY ONLY <1>3, <3>1, <3>3, Zenon
  <2> QED BY <2>4, <2>5, <2>6
<1> QED BY <1>8, <1>9, <1>10 DEF Follows

LEMMA FRestart ==
  ASSUME TInv', NEW e \in BOOLEAN, Restart(e)
  PROVE  FInv'
<1> SUFFICES ASSUME Regular' PROVE Follows'
  BY DEF FInv
<1>1. /\ cache' = stored' /\ running' = Run(stored, e) /\ env' = e /\ lock' = NoRequest
      /\ frontend' = stored'["auth"].address
      /\ \A q \in Request : /\ pc'[q] \notin {"save", "saved", "llm"}
                            /\ todo'[q] = {} /\ heard'[q] = {}
  BY DEF Restart, Regular, NoHook
<1>2. CacheFollows' /\ FrontendFollows' /\ ClientPrepared' /\ HooksAlone' /\ LlmPatch'
  BY <1>1, FreeFollows
<1>3. RunningFollows'
  <2>1. stored' = stored
    BY DEF Restart
  <2>2. running' = Run(cache', env')
    BY ONLY <1>1, <2>1, Zenon
  <2> QED BY ONLY <2>2, Zenon DEF RunningFollows
<1> QED BY <1>2, <1>3 DEF Follows

LEMMA FInit == Init => FInv
<1> SUFFICES ASSUME Init PROVE FInv
  OBVIOUS
<1>1. TInv
  BY TypeInit
<1>2. /\ cache = stored /\ running = Run(stored, FALSE) /\ env = FALSE /\ lock = NoRequest
      /\ \A q \in Request : pc[q] = "idle" /\ todo[q] = {} /\ heard[q] = {}
  BY DEF Init, NoHook
<1>3. frontend = stored["auth"].address
  BY DEF Init, Fresh, Section
<1>4. CacheFollows /\ FrontendFollows /\ ClientPrepared /\ HooksAlone /\ LlmPatch
  BY <1>2, <1>3 DEF CacheFollows, FrontendFollows, ClientPrepared, HooksAlone, LlmPatch,
                    Preparing
<1>5. RunningFollows
  <2>1. running = Run(cache, env)
    BY ONLY <1>2, Zenon
  <2> QED BY ONLY <2>1, Zenon DEF RunningFollows
<1> QED BY <1>1, <1>4, <1>5 DEF FInv, Follows

LEMMA FNext == FInv /\ [Next]_vars => FInv'
<1> SUFFICES ASSUME FInv, [Next]_vars PROVE FInv'
  OBVIOUS
<1>1. TInv'
  BY TypeNext DEF FInv
<1>2. ASSUME NEW r \in Request,
             Lock(r) \/ Check(r) \/ Fail(r) \/ Drop(r) \/ \E p \in Input : Begin(r, p)
      PROVE  FInv'
  BY <1>1, <1>2, FQuiet
<1>3. ASSUME NEW r \in Request, Prepare(r) \/ Save(r) \/ Commit(r) \/ CommitLlm(r)
      PROVE  FInv'
  BY <1>1, <1>3, FPrepare, FSave, FCommit, FCommitLlm
<1>4. ASSUME NEW r \in Request, (\E x \in Section : HookRead(r, x)) \/ HookWrite(r)
      PROVE  FInv'
  BY <1>1, <1>4, FHookRead, FHookWrite
<1>5. ASSUME NEW e \in BOOLEAN, Restart(e) PROVE FInv'
  BY <1>1, <1>5, FRestart
<1>6. ASSUME AddPasskey \/ RemovePasskey \/ UNCHANGED vars
      PROVE  FInv'
  <2>1. UNCHANGED <<stored, frontend, env, up, memory, abandoned, overlapped>>
    BY <1>6 DEF AddPasskey, RemovePasskey, vars
  <2>2. UNCHANGED <<stored, frontend, env, cache, running, lock, pc, patch, client, todo, heard>>
    BY <2>1 DEF memory
  <2>3. Regular' => Regular
    BY <2>1 DEF Regular
  <2>4. Follows => Follows'
    BY <2>2 DEF Follows, CacheFollows, FrontendFollows, ClientPrepared, HooksAlone, LlmPatch,
                RunningFollows, Owed, Late, Preparing, SignInTouched, Prospective
  <2> QED BY <1>1, <2>3, <2>4 DEF FInv
<1> QED BY <1>2, <1>3, <1>4, <1>5, <1>6 DEF Next, Steps

\* When nothing is owed the table, the cache, the frontend client and the running
\* parts agree: what an update changed has reached everything that uses it.
THEOREM UpdatesSettle == Spec => []Settled
<1>1. FInv => Settled
  <2> SUFFICES ASSUME FInv, up, ~abandoned, ~overlapped, lock = NoRequest,
                      \A r \in Request : todo[r] = {}
               PROVE  /\ cache = stored /\ frontend = stored["auth"].address
                      /\ running = Run(stored, env)
    BY DEF Settled
  <2>1. TInv /\ Follows
    BY DEF FInv, Regular
  <2>2. \A r \in Request : pc[r] \notin Holding
    BY <2>1, RequestAssumption DEF TInv, Shape
  <2>3. cache = stored
    BY <2>1, <2>2 DEF Follows, CacheFollows, Holding
  <2>4. frontend = stored["auth"].address
    BY <2>1, <2>2 DEF Follows, FrontendFollows, Preparing, Holding
  <2>5. \A t \in Targets : ~Owed(t)
    BY <2>2 DEF Owed, Late, Holding
  <2>6. \A t \in Targets : running[t] = Run(cache, env)[t]
    BY <2>1, <2>5 DEF Follows, RunningFollows
  <2>7. running = [t \in Targets |-> running[t]]
    BY <2>1 DEF TInv, Settings
  <2>8. Run(cache, env) = [t \in Targets |-> Run(cache, env)[t]]
    BY DEF Run
  <2>9. running = Run(cache, env)
    BY ONLY <2>6, <2>7, <2>8, Zenon
  <2> QED BY ONLY <2>3, <2>4, <2>9, Zenon
<1> QED BY <1>1, FInit, FNext, PTL DEF Spec

-----------------------------------------------------------------------------
\* What is committed under the lock does not depend on hooks: the same relation
\* to the table without the exemption for overlapping hooks, for the parts that
\* no hook writes.
HeardHooked == \A r \in Request : \A h \in heard[r] : h[1] \in Hooked

CommittedFollows ==
  \A t \in Committed :
    \/ t = "llm" /\ \E r \in Request : pc[r] = "llm"
    \/ running[t] = Run(cache, env)[t]

LockFollows == FrontendFollows /\ LlmPatch /\ CommittedFollows

LInv == /\ TInv /\ HeardHooked
        /\ ~abandoned => CacheFollows
        /\ up /\ ~abandoned => LockFollows

LEMMA CommittedParts == Committed = {"auth", "passkey", "llm"}
BY DEF Committed, Targets, Section, Hooked

\* A step of one request that neither prepares, saves, commits nor runs a hook,
\* or a step of nobody.
LEMMA LQuiet ==
  ASSUME LInv, TInv', HeardHooked',
         UNCHANGED <<stored, frontend, env, cache, running>>,
         ~abandoned' => ~abandoned, up' => up,
         ~abandoned' =>
           \A r \in Request :
             /\ \/ pc'[r] \notin {"save", "saved", "llm"}
                \/ pc'[r] = pc[r] /\ patch'[r] = patch[r]
             /\ pc[r] \in {"saved", "llm"} \/ Preparing(r) => pc'[r] = pc[r]
  PROVE  LInv'
<1>1. CASE abandoned'
  BY <1>1 DEF LInv
<1>2. CASE ~abandoned'
  <2>1. \A r \in Request : /\ Preparing(r)' <=> Preparing(r)
                           /\ pc'[r] = "saved" <=> pc[r] = "saved"
                           /\ pc'[r] = "llm" <=> pc[r] = "llm"
    BY <1>2 DEF Preparing, SignInTouched
  <2>2. CacheFollows'
    BY <1>2, <2>1 DEF LInv, CacheFollows
  <2>3. ASSUME up' PROVE LockFollows'
    <3>1. LockFollows
      BY <1>2, <2>3 DEF LInv
    <3>2. FrontendFollows'
      BY <1>2, <2>1, <3>1 DEF LockFollows, FrontendFollows, Preparing, Prospective
    <3>3. LlmPatch'
      BY <1>2, <2>1, <3>1 DEF LockFollows, LlmPatch
    <3>4. CommittedFollows'
      BY <2>1, <3>1 DEF LockFollows, CommittedFollows
    <3> QED BY <3>2, <3>3, <3>4 DEF LockFollows
  <2> QED BY <2>2, <2>3 DEF LInv
<1> QED BY <1>1, <1>2

LEMMA LSteps ==
  ASSUME LInv, TInv', NEW r \in Request,
         \/ Lock(r) \/ Check(r) \/ Fail(r) \/ Drop(r) \/ \E p \in Input : Begin(r, p)
  PROVE  LInv'
<1>1. /\ pc \in [Request -> States] /\ DOMAIN patch = Request /\ abandoned \in BOOLEAN
  BY DEF LInv, TInv, Shape, Facts
<1>2. /\ UNCHANGED <<stored, frontend, env, cache, running, heard, up>>
      /\ HeardHooked'
  BY DEF Lock, Check, Fail, Drop, Begin, LInv, HeardHooked
<1>3. ~abandoned' => ~abandoned
  BY DEF Lock, Check, Fail, Drop, Begin
<1>4. ASSUME ~abandoned'
      PROVE  /\ pc[r] \notin {"saved", "llm"} /\ ~Preparing(r)
             /\ pc'[r] \in {"idle", "waiting", "check", "prepare"}
             /\ \A q \in Request \ {r} : pc'[q] = pc[q] /\ patch'[q] = patch[q]
  <2>1. CASE Fail(r)
    <3>1. ~(pc[r] = "save" /\ SignInTouched(r))
      BY <1>4, <2>1 DEF Fail
    <3> QED BY <1>1, <2>1, <3>1 DEF Fail, Idle, Preparing
  <2>2. CASE ~Fail(r)
    <3>1. ~Drop(r)
      BY <1>4 DEF Drop
    <3> QED BY <1>1, <2>2, <3>1 DEF Lock, Check, Begin, Idle, Preparing
  <2> QED BY <2>1, <2>2
<1>5. ~abandoned' =>
           \A q \in Request :
             /\ \/ pc'[q] \notin {"save", "saved", "llm"}
                \/ pc'[q] = pc[q] /\ patch'[q] = patch[q]
             /\ pc[q] \in {"saved", "llm"} \/ Preparing(q) => pc'[q] = pc[q]
  BY <1>4
<1> QED BY <1>2, <1>3, <1>5, LQuiet

LEMMA LPrepare ==
  ASSUME LInv, TInv', NEW r \in Request, Prepare(r)
  PROVE  LInv'
<1>1. /\ TInv /\ pc \in [Request -> States] /\ pc[r] = "prepare"
  BY DEF LInv, TInv, Shape, Prepare
<1>2. /\ pc'[r] = "save"
      /\ \A q \in Request \ {r} : pc'[q] = pc[q] /\ pc[q] \notin Holding
      /\ UNCHANGED <<stored, env, cache, running, patch, heard, up, abandoned>>
  BY <1>1, OneHolder DEF Prepare, Holding
<1>3. \A q \in Request : /\ pc[q] \notin {"save", "saved", "llm"}
                         /\ q # r => pc'[q] \notin {"save", "saved", "llm"}
  BY <1>1, <1>2 DEF Holding
<1>4. HeardHooked' /\ (~abandoned' => CacheFollows')
  BY <1>2, <1>3 DEF LInv, HeardHooked, CacheFollows
<1>5. ASSUME up', ~abandoned' PROVE LockFollows'
  <2>1. LockFollows
    BY <1>2, <1>5 DEF LInv
  <2>2. Prospective(r)' = Prospective(r) /\ SignInTouched(r)' = SignInTouched(r)
    BY <1>2 DEF Prospective, SignInTouched
  <2>3. frontend = stored["auth"].address
    BY <1>3, <2>1 DEF LockFollows, FrontendFollows, Preparing
  <2>4. FrontendFollows'
    BY <1>2, <1>3, <2>2, <2>3 DEF Prepare, FrontendFollows, Preparing
  <2>5. LlmPatch'
    BY <1>2, <1>3 DEF LlmPatch
  <2>6. CommittedFollows'
    BY <1>2, <1>3, <2>1 DEF LockFollows, CommittedFollows
  <2> QED BY <2>4, <2>5, <2>6 DEF LockFollows
<1> QED BY <1>4, <1>5 DEF LInv

\* The cache is the table when a request saves, as long as none was dropped.
LEMMA SavedIsValidated ==
  ASSUME LInv, NEW r \in Request, pc[r] = "save", ~abandoned
  PROVE  cache = stored
<1>1. \A q \in Request : pc[q] # "saved"
  BY OneHolder DEF LInv, Holding
<1> QED BY <1>1 DEF LInv, CacheFollows

LEMMA LSave ==
  ASSUME LInv, TInv', NEW r \in Request, Save(r)
  PROVE  LInv'
<1>1. /\ TInv /\ pc \in [Request -> States] /\ pc[r] = "save"
  BY DEF LInv, TInv, Shape, Save
<1>2. /\ pc'[r] = "saved" /\ stored' = Apply(patch[r], stored)
      /\ \A q \in Request \ {r} : pc'[q] = pc[q] /\ pc[q] \notin Holding
      /\ UNCHANGED <<frontend, env, cache, running, patch, heard, up, abandoned>>
  BY <1>1, OneHolder DEF Save, Holding
<1>3. \A q \in Request : q # r => pc[q] \notin {"save", "saved", "llm"} /\ pc'[q] = pc[q]
  BY <1>2 DEF Holding
<1>4. ~abandoned => stored' = Prospective(r)
  BY <1>1, <1>2, SavedIsValidated DEF Prospective
<1>5. HeardHooked' /\ (~abandoned' => CacheFollows')
  BY <1>2, <1>3, <1>4 DEF LInv, HeardHooked, CacheFollows, Prospective
<1>6. ASSUME up', ~abandoned' PROVE LockFollows'
  <2>1. LockFollows
    BY <1>2, <1>6 DEF LInv
  <2>2. frontend = stored'["auth"].address
    <3>1. CASE SignInTouched(r)
      BY <1>1, <1>2, <1>4, <1>6, <2>1, <3>1 DEF LockFollows, FrontendFollows, Preparing
    <3>2. CASE ~SignInTouched(r)
      <4>1. frontend = stored["auth"].address
        BY <1>3, <2>1, <3>2 DEF LockFollows, FrontendFollows, Preparing
      <4>2. stored'["auth"] = stored["auth"]
        BY <1>2, <3>2 DEF SignInTouched, SignIn, Apply, Section
      <4> QED BY <4>1, <4>2
    <3> QED BY <3>1, <3>2
  <2>3. FrontendFollows'
    BY <1>2, <1>3, <2>2 DEF FrontendFollows, Preparing
  <2>4. LlmPatch'
    BY <1>2, <1>3 DEF LlmPatch
  <2>5. CommittedFollows'
    BY <1>1, <1>2, <1>3, <2>1 DEF LockFollows, CommittedFollows
  <2> QED BY <2>3, <2>4, <2>5 DEF LockFollows
<1> QED BY <1>5, <1>6 DEF LInv

\* The commits under the lock leave the sign-in service and WebAuthn as a restart
\* would, and the categorizer too unless its commit is still to come.
LEMMA CommittedRuns ==
  ASSUME NEW r \in Request, NEW t \in Committed,
         t = "llm" => "llm" \notin DOMAIN patch[r],
         \A x \in Committed : running[x] = Run(cache, env)[x]
  PROVE  CommitSignIn(r)[t] = Run(Prospective(r), env)[t]
<1> DEFINE s == Prospective(r)
<1>1. \A x \in Section : s[x] = IF x \in DOMAIN patch[r] THEN patch[r][x] ELSE cache[x]
  BY DEF Prospective, Apply
<1>2. \A x \in Section \ {"auth"} : Run(s, env)[x] = s[x]
  BY ONLY RunAt
<1>3. \A x \in Section \ {"auth"} : Run(cache, env)[x] = cache[x]
  BY ONLY RunAt
<1>4. "auth" \in Targets /\ SignIn \subseteq Section
      /\ {"passkey", "llm"} \subseteq (Section \cap Targets) \ {"auth", "client"}
  BY DEF Targets, Section, SignIn
<1>5. CASE t = "auth"
  <2>1. CASE SignInTouched(r)
    <3>1. CommitSignIn(r)[t] = Run(s, env)["auth"]
      BY <1>4, <1>5, <2>1 DEF CommitSignIn
    <3> QED BY ONLY <1>5, <3>1, Zenon
  <2>2. CASE ~SignInTouched(r)
    <3>1. \A x \in SignIn : s[x] = cache[x]
      BY <1>1, <1>4, <2>2 DEF SignInTouched
    <3>2. Run(s, env)["auth"] = Run(cache, env)["auth"]
      <4> HIDE DEF s
      <4> QED BY ONLY <3>1, RunSame
    <3>3. CommitSignIn(r)[t] = running[t]
      BY <1>4, <1>5, <2>2 DEF CommitSignIn
    <3>4. running[t] = Run(cache, env)[t]
      OBVIOUS
    <3> QED BY ONLY <1>5, <3>2, <3>3, <3>4, Zenon
  <2> QED BY <2>1, <2>2
<1>6. ASSUME t \in Section \ {"auth"}, t \in Targets, t # "client"
      PROVE  CommitSignIn(r)[t] = s[t] => CommitSignIn(r)[t] = Run(s, env)[t]
  <2>1. Run(s, env)[t] = s[t]
    BY ONLY <1>2, <1>6, Zenon
  <2> QED BY ONLY <2>1, Zenon
<1>7. ASSUME t \in Section \ {"auth"}, t \notin DOMAIN patch[r]
      PROVE  running[t] = s[t]
  <2>1. Run(cache, env)[t] = cache[t]
    BY ONLY <1>3, <1>7, Zenon
  <2>2. s[t] = cache[t]
    BY <1>1, <1>7
  <2>3. running[t] = Run(cache, env)[t]
    OBVIOUS
  <2> QED BY ONLY <2>1, <2>2, <2>3, Zenon
<1>8. CASE t = "passkey"
  <2>1. CASE DOMAIN patch[r] \cap {"auth", "passkey"} # {}
    <3>1. CommitSignIn(r)[t] = s[t]
      BY <1>4, <1>8, <2>1 DEF CommitSignIn
    <3> QED BY <1>4, <1>6, <1>8, <3>1
  <2>2. CASE DOMAIN patch[r] \cap {"auth", "passkey"} = {}
    <3>1. CommitSignIn(r)[t] = running[t]
      BY <1>4, <1>8, <2>2 DEF CommitSignIn
    <3>2. running[t] = s[t]
      BY <1>4, <1>7, <1>8, <2>2
    <3> QED BY <1>4, <1>6, <1>8, <3>1, <3>2
  <2> QED BY <2>1, <2>2
<1>9. CASE t = "llm"
  <2>1. CommitSignIn(r)[t] = running[t]
    BY <1>4, <1>9 DEF CommitSignIn
  <2>2. running[t] = s[t]
    BY <1>4, <1>7, <1>9
  <2> QED BY <1>4, <1>6, <1>9, <2>1, <2>2
<1> QED BY <1>5, <1>8, <1>9, CommittedParts

LEMMA LCommit ==
  ASSUME LInv, TInv', NEW r \in Request, Commit(r)
  PROVE  LInv'
<1>1. /\ TInv /\ pc \in [Request -> States] /\ DOMAIN patch = Request /\ pc[r] = "saved"
  BY DEF LInv, TInv, Shape, Commit
<1>2. /\ \A q \in Request \ {r} : pc'[q] = pc[q] /\ pc[q] \notin Holding
      /\ cache' = stored /\ running' = CommitSignIn(r)
      /\ UNCHANGED <<stored, env, frontend, heard, up, abandoned>>
      /\ pc'[r] \in {"llm", "idle", "hooks"}
      /\ pc'[r] = "llm" => "llm" \in DOMAIN patch[r] /\ patch' = patch
      /\ "llm" \in DOMAIN patch[r] => pc'[r] = "llm"
  BY <1>1, OneHolder DEF Commit, Release, Holding
<1>3. \A q \in Request : /\ pc'[q] \notin {"save", "saved"}
                         /\ pc'[q] = "llm" => q = r
                         /\ pc[q] \notin {"save", "llm"}
  BY <1>1, <1>2 DEF Holding
<1>4. HeardHooked' /\ CacheFollows'
  BY <1>2, <1>3 DEF LInv, HeardHooked, CacheFollows
<1>5. ASSUME up', ~abandoned' PROVE LockFollows'
  <2>1. LockFollows /\ cache' = Prospective(r)
    BY <1>1, <1>2, <1>5 DEF LInv, CacheFollows, Prospective
  <2>2. FrontendFollows'
    BY <1>2, <1>3, <2>1 DEF LockFollows, FrontendFollows, Preparing
  <2>3. LlmPatch'
    BY <1>2, <1>3, <2>1 DEF LlmPatch, Prospective, Apply, Section
  <2>4. \A x \in Committed : running[x] = Run(cache, env)[x]
    BY <1>3, <2>1 DEF LockFollows, CommittedFollows
  <2>5. ASSUME NEW t \in Committed,
               ~(t = "llm" /\ \E q \in Request : pc'[q] = "llm")
        PROVE  running'[t] = Run(cache', env')[t]
    <3>1. t = "llm" => "llm" \notin DOMAIN patch[r]
      BY <1>2, <2>5
    <3>2. CommitSignIn(r)[t] = Run(Prospective(r), env)[t]
      BY <2>4, <3>1, CommittedRuns
    <3> QED BY ONLY <1>2, <2>1, <3>2, Zenon
  <2>6. CommittedFollows'
    BY <2>5 DEF CommittedFollows
  <2> QED BY <2>2, <2>3, <2>6 DEF LockFollows
<1> QED BY <1>4, <1>5 DEF LInv

LEMMA LCommitLlm ==
  ASSUME LInv, TInv', NEW r \in Request, CommitLlm(r)
  PROVE  LInv'
<1>1. /\ TInv /\ pc \in [Request -> States] /\ pc[r] = "llm"
      /\ running = [t \in Targets |-> running[t]]
  BY DEF LInv, TInv, Shape, Settings, CommitLlm
<1>2. /\ \A q \in Request \ {r} : pc'[q] = pc[q] /\ pc[q] \notin Holding
      /\ running' = [running EXCEPT !["llm"] = patch[r]["llm"]]
      /\ UNCHANGED <<stored, env, frontend, cache, heard, up, abandoned>>
      /\ pc'[r] \in {"idle", "hooks"}
  BY <1>1, OneHolder DEF CommitLlm, Release, Holding
<1>3. \A q \in Request : /\ pc'[q] \notin {"save", "saved", "llm"}
                         /\ pc[q] \notin {"save", "saved"}
  BY <1>1, <1>2 DEF Holding
<1>4. HeardHooked' /\ (~abandoned' => CacheFollows')
  BY <1>2, <1>3 DEF LInv, HeardHooked, CacheFollows
<1>5. ASSUME up', ~abandoned' PROVE LockFollows'
  <2>1. LockFollows
    BY <1>2, <1>5 DEF LInv
  <2>2. FrontendFollows' /\ LlmPatch'
    BY <1>2, <1>3, <2>1 DEF LockFollows, FrontendFollows, LlmPatch, Preparing
  <2>3. ASSUME NEW t \in Committed
        PROVE  running'[t] = Run(cache', env')[t]
    <3>1. CASE t = "llm"
      <4>1. running'["llm"] = cache["llm"]
        BY <1>1, <1>2, <2>1 DEF LockFollows, LlmPatch, Targets, Section
      <4>2. \A x \in Section \ {"auth"} : Run(cache, env)[x] = cache[x]
        BY ONLY RunAt
      <4>3. "llm" \in Section \ {"auth"}
        BY DEF Section
      <4>4. Run(cache, env)["llm"] = cache["llm"]
        BY ONLY <4>2, <4>3, Zenon
      <4> QED BY ONLY <1>2, <3>1, <4>1, <4>4, Zenon
    <3>2. CASE t # "llm"
      <4>1. running'[t] = running[t]
        BY <1>1, <1>2, <3>2 DEF Committed
      <4>2. running[t] = Run(cache, env)[t]
        BY <2>1, <3>2 DEF LockFollows, CommittedFollows
      <4> QED BY ONLY <1>2, <4>1, <4>2, Zenon
    <3> QED BY <3>1, <3>2
  <2>4. CommittedFollows'
    BY <2>3 DEF CommittedFollows
  <2> QED BY <2>2, <2>4 DEF LockFollows
<1> QED BY <1>4, <1>5 DEF LInv

\* A hook reads and writes the parts that hooks write.
LEMMA LHook ==
  ASSUME LInv, TInv', NEW r \in Request,
         (\E x \in Section : HookRead(r, x)) \/ HookWrite(r)
  PROVE  LInv'
<1>1. /\ TInv /\ pc \in [Request -> States] /\ DOMAIN heard = Request
      /\ todo \in [Request -> SUBSET Hooked] /\ HeardHooked /\ Hears
  BY DEF LInv, TInv, Shape
<1>2. CASE \E x \in Section : HookRead(r, x)
  <2>1. PICK x \in Section : HookRead(r, x)
    BY <1>2
  <2>2. HeardHooked'
    BY <1>1, <2>1 DEF HookRead, HeardHooked
  <2> QED BY <2>1, <2>2, LQuiet DEF HookRead
<1>3. CASE HookWrite(r)
  <2>1. PICK h \in heard[r] :
          /\ running' = [t \in Targets |-> Heard(t, h[1], h[2])]
          /\ pc' = [pc EXCEPT ![r] = IF todo[r] = {h[1]} THEN "idle" ELSE "hooks"]
    BY <1>3 DEF HookWrite
  <2>2. /\ UNCHANGED <<stored, frontend, env, cache, patch, up, abandoned>>
        /\ pc[r] = "hooks" /\ pc'[r] \in {"idle", "hooks"}
        /\ \A q \in Request \ {r} : pc'[q] = pc[q]
        /\ heard' = [heard EXCEPT ![r] = {}] /\ h[1] \in Hooked
    BY <1>1, <1>3, <2>1 DEF HookWrite, NoHook, Hears, HeardHooked
  <2>3. HeardHooked'
    BY <1>1, <2>2 DEF HeardHooked
  <2>4. \A t \in Committed : running'[t] = running[t]
    BY <2>1, <2>2 DEF Heard, Committed
  <2>5. ~abandoned' => CacheFollows'
    BY <2>2 DEF LInv, CacheFollows
  <2>6. ASSUME up', ~abandoned' PROVE LockFollows'
    <3>1. LockFollows
      BY <2>2, <2>6 DEF LInv
    <3>2. FrontendFollows' /\ LlmPatch'
      BY <2>2, <3>1 DEF LockFollows, FrontendFollows, LlmPatch, Preparing,
                        SignInTouched, Prospective
    <3>3. CommittedFollows'
      BY <2>2, <2>4, <3>1 DEF LockFollows, CommittedFollows
    <3> QED BY <3>2, <3>3 DEF LockFollows
  <2> QED BY <2>3, <2>5, <2>6 DEF LInv
<1> QED BY <1>2, <1>3

LEMMA LStart ==
  ASSUME TInv, cache = stored, \A t \in Targets : running[t] = Run(cache, env)[t],
         up => frontend = stored["auth"].address,
         \A q \in Request : pc[q] = "idle" /\ heard[q] = {}
  PROVE  LInv
BY DEF LInv, HeardHooked, CacheFollows, LockFollows, FrontendFollows, LlmPatch,
       CommittedFollows, Committed, Preparing

LEMMA LInit == Init => LInv
<1> SUFFICES ASSUME Init PROVE LInv
  OBVIOUS
<1>1. TInv /\ FInv
  BY TypeInit, FInit
<1>2. /\ cache = stored /\ running = Run(cache, env)
      /\ \A q \in Request : pc[q] = "idle" /\ heard[q] = {}
  BY DEF Init, NoHook
<1>3. frontend = stored["auth"].address
  BY DEF Init, Fresh, Section
<1>4. \A t \in Targets : running[t] = Run(cache, env)[t]
  BY ONLY <1>2, Zenon
<1> QED BY <1>1, <1>2, <1>3, <1>4, LStart

LEMMA LRestart ==
  ASSUME TInv', NEW e \in BOOLEAN, Restart(e)
  PROVE  LInv'
<1>1. /\ cache' = stored' /\ running' = Run(stored, e) /\ env' = e /\ stored' = stored
      /\ up' => frontend' = stored'["auth"].address
      /\ \A q \in Request : pc'[q] = "idle" /\ heard'[q] = {}
  BY DEF Restart, NoHook
<1>2. \A t \in Targets : running'[t] = Run(cache', env')[t]
  BY ONLY <1>1, Zenon
<1> QED BY <1>1, <1>2
    DEF LInv, HeardHooked, CacheFollows, LockFollows, FrontendFollows, LlmPatch,
        CommittedFollows, Committed, Preparing

LEMMA LNext == LInv /\ [Next]_vars => LInv'
<1> SUFFICES ASSUME LInv, [Next]_vars PROVE LInv'
  OBVIOUS
<1>1. TInv'
  BY TypeNext DEF LInv
<1>2. ASSUME NEW r \in Request,
             Lock(r) \/ Check(r) \/ Fail(r) \/ Drop(r) \/ \E p \in Input : Begin(r, p)
      PROVE  LInv'
  BY <1>1, <1>2, LSteps
<1>3. ASSUME NEW r \in Request, Prepare(r) \/ Save(r) \/ Commit(r) \/ CommitLlm(r)
      PROVE  LInv'
  BY <1>1, <1>3, LPrepare, LSave, LCommit, LCommitLlm
<1>4. ASSUME NEW r \in Request, (\E x \in Section : HookRead(r, x)) \/ HookWrite(r)
      PROVE  LInv'
  BY <1>1, <1>4, LHook
<1>5. ASSUME NEW e \in BOOLEAN, Restart(e) PROVE LInv'
  BY <1>1, <1>5, LRestart
<1>6. ASSUME AddPasskey \/ RemovePasskey \/ UNCHANGED vars
      PROVE  LInv'
  <2>1. UNCHANGED <<stored, frontend, env, up, memory, abandoned>>
    BY <1>6 DEF AddPasskey, RemovePasskey, vars
  <2>2. UNCHANGED <<stored, frontend, env, up, cache, running, pc, patch, heard, abandoned>>
    BY <2>1 DEF memory
  <2> QED BY <1>1, <2>2, LQuiet DEF LInv, HeardHooked
<1> QED BY <1>2, <1>3, <1>4, <1>5, <1>6 DEF Next, Steps

\* What decides who can sign in is settled when the lock is free, however the
\* hooks of several updates overlap (update_sections, commit_auth_settings).
THEOREM CommittedPartsSettle == Spec => []CommittedSettled
<1>1. LInv => CommittedSettled
  <2> SUFFICES ASSUME LInv, up, ~abandoned, lock = NoRequest
               PROVE  /\ cache = stored /\ frontend = stored["auth"].address
                      /\ \A t \in Committed : running[t] = Run(stored, env)[t]
    BY DEF CommittedSettled
  <2>1. TInv /\ LockFollows /\ CacheFollows
    BY DEF LInv
  <2>2. \A r \in Request : pc[r] \notin Holding
    BY <2>1, RequestAssumption DEF TInv, Shape
  <2>3. cache = stored
    BY <2>1, <2>2 DEF CacheFollows, Holding
  <2>4. frontend = stored["auth"].address
    BY <2>1, <2>2 DEF LockFollows, FrontendFollows, Preparing, Holding
  <2>5. \A t \in Committed : running[t] = Run(cache, env)[t]
    BY <2>1, <2>2 DEF LockFollows, CommittedFollows, Holding
  <2> QED BY ONLY <2>3, <2>4, <2>5, Zenon
<1> QED BY <1>1, LInit, LNext, PTL DEF Spec

\* What is saved is what was validated, unless a dropped request has left an old
\* cache behind (validate_runtime_config reads the cache, save_sections the table).
THEOREM SavesAreValidated == Spec => SavedAsValidated
<1>1. ASSUME LInv, NEW r \in Request, Save(r)
      PROVE  sound' \/ abandoned
  <2>1. CASE abandoned
    BY <2>1
  <2>2. CASE ~abandoned
    <3>1. cache = stored
      BY <1>1, <2>2, SavedIsValidated DEF Save
    <3> QED BY <1>1, <3>1 DEF Save, Prospective
  <2> QED BY <2>1, <2>2
<1>2. LInv /\ [Next]_vars => [\A r \in Request : Save(r) => sound' \/ abandoned]_vars
  BY <1>1
<1> QED BY <1>2, LInit, LNext, PTL DEF Spec, SavedAsValidated

=============================================================================
