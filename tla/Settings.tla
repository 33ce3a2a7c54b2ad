------------------------------ MODULE Settings ------------------------------
(***************************************************************************)
(* The settings store behind the web panel: the protected layer and the    *)
(* editable files of a deployment, the configuration the panel keeps in    *)
(* memory, and the request threads that publish groups of updates (editor, *)
(* first-run wizard, network wizard, Discord wizard).                      *)
(*                                                                         *)
(* A file is a function from the keys it sets to their values.  Of texts   *)
(* only their class matters: "reserved" holds a character with a meaning   *)
(* in PalWorldSettings.ini, "control" a control character, "separator" a   *)
(* Unicode line separator, at which the reader of a file breaks a line and *)
(* its writer does not, "surrogate" half of a pair, which is text to the   *)
(* schema and cannot be encoded.  Steps of publishing and of rolling back  *)
(* may fail, at most MaxFaults times; the panel may be killed MaxCrashes   *)
(* times.                                                                  *)
(***************************************************************************)
EXTENDS Naturals

CONSTANTS
  Threads,    \* request threads of the panel
  Names,      \* server names
  Times,      \* backup schedules other than "off"
  Passwords,  \* passwords a user enters; "" is a public server
  Spelling,   \* other spellings of a value, and the one that is written
  Counts,     \* values of MAX_PLAYERS within its limits
  Edits,      \* what a user asks of the editor: key -> value
  Tokens,     \* tokens a user gives the Discord wizard
  Bases,      \* protected layers: what the root's own files set
  MaxFaults, MaxCrashes, None

Files  == {"caretaker", "server", "secrets"}
KeysOf == [caretaker |-> {"time", "on", "done", "bind"}, server |-> {"name", "players", "channel"},
           secrets |-> {"pass", "panel", "token"}]
Keys   == KeysOf["caretaker"] \cup KeysOf["server"] \cup KeysOf["secrets"]
FileOf == [k \in Keys |-> IF k \in KeysOf["caretaker"] THEN "caretaker"
                          ELSE IF k \in KeysOf["server"] THEN "server" ELSE "secrets"]
AllKeys   == Keys \cup {"admin", "passwordless"}   \* two are the root's own
EditKeys  == {"name", "players", "time"}            \* the panel's editor shows three
Schedules == Times \cup {"off"}
Binds     == {"local", "lan"}
AllNames     == Names \cup {b["name"] : b \in Bases}
                  \cup {e["name"] : e \in {x \in Edits : "name" \in DOMAIN x}}
AllPasswords == Passwords \cup {b["pass"] : b \in Bases} \cup {""}
Nothing      == [k \in {} |-> ""]
Over(f, g)   == [k \in DOMAIN f \cup DOMAIN g |-> IF k \in DOMAIN f THEN f[k] ELSE g[k]]

ASSUME ThreadAssumption == None \notin Threads
ASSUME BoundAssumption  == MaxFaults \in Nat /\ MaxCrashes \in Nat
ASSUME BaseAssumption   == Bases \subseteq [AllKeys -> STRING]

VARIABLES
  base,      \* the protected layer
  disk,      \* the editable files
  cache,     \* WebDependencies.config
  up,        \* the panel listens
  lock,      \* the thread that owns the operation lock, or None
  pc,        \* where each thread is
  stale,     \* the password a network request read before it took the lock
  kind,      \* what the owner of the lock is doing
  new, old,  \* the group it publishes, and what the files held
  todo,      \* files still to be written
  attempted, \* files to be rolled back on a failure
  torn,      \* a rollback failed, or a kill left a group in part or unread (history)
  cut,       \* an exception that the store does not catch left part of a group (history)
  missed,    \* the panel has not read what it published last (history)
  wins,      \* first-run wizards that succeeded, up to 2 (history)
  faults, crashes

tx   == <<kind, new, old, todo, attempted>>
vars == <<base, disk, cache, up, lock, pc, stale, tx, torn, cut, missed, wins, faults, crashes>>

\* load_config: the editable files over the protected layer.
Effective(d) == [k \in DOMAIN base |-> IF k \in Keys /\ k \in DOMAIN d[FileOf[k]]
                                        THEN d[FileOf[k]][k] ELSE base[k]]

Placeholder(v) == v \in {"", "CHANGE_ME"}

\* _web_auth_password
AuthPassword(c) ==
  IF c["passwordless"] = "true" /\ c["bind"] = "local" /\ c["panel"] = "" THEN ""
  ELSE IF ~Placeholder(c["panel"]) THEN c["panel"]
  ELSE IF ~Placeholder(c["admin"]) THEN c["admin"] ELSE ""

\* Mutant: the wizard knows its work by the password alone.
OnboardedByPassword(c) == ~Placeholder(c["pass"])

\* The first-run wizard has nothing left to do.
Onboarded(c) == c["done"] = "true" \/ ~Placeholder(c["pass"])

Init == /\ base \in Bases /\ disk = [f \in Files |-> Nothing]
        /\ cache = base /\ up = FALSE /\ lock = None
        /\ pc = [t \in Threads |-> "idle"]
        /\ stale = [t \in Threads |-> ""]
        /\ kind = "none" /\ new = Nothing /\ old = Nothing /\ todo = {} /\ attempted = {}
        /\ torn = FALSE /\ cut = FALSE /\ missed = FALSE /\ wins = 0 /\ faults = 0 /\ crashes = 0

Fault == faults < MaxFaults /\ faults' = faults + 1

-----------------------------------------------------------------------------
(* The schema, for the panel and for the scripts.                          *)

Normalized(k, v) == IF k = "time" /\ v \in DOMAIN Spelling THEN Spelling[v] ELSE v

IsSchedule(v) == Normalized("time", v) \in Schedules

\* Mutant: a text may hold what is reserved in the game's own file.
IsAnyText(v) == v \notin {"", "control"}

\* _string, for the server's name
IsText(v) == v \notin {"", "control", "reserved"}

\* validate_ini_password
IsPassword(v) == v \notin {"control", "reserved"}

\* normalize_value
Accepted(k, v) == CASE k = "time"    -> IsSchedule(v)
                    [] k = "players" -> v \in Counts
                    [] OTHER         -> IsText(v)

\* validate_edit: the keys of the editor, each with a value of its kind.
IsEdit(values) == \A k \in DOMAIN values : k \in EditKeys /\ Accepted(k, values[k])

IsBoolean(v) == v \in {"true", "false"}

\* _validate_core and the typed settings
CoreValid(c) == /\ \A k \in {"on", "done", "passwordless"} : IsBoolean(c[k])
                /\ \A k \in EditKeys : Accepted(k, c[k])
                /\ c["bind"] \in Binds /\ c["channel"] \in {"", "*", "set"}

\* load_env and _parse_value can read every line of the editable files.
Readable(d) == \A f \in Files : \A k \in DOMAIN d[f] : d[f][k] # "separator"

\* load_config succeeds.
Loads(d) == Readable(d) /\ CoreValid(Effective(d))

\* validate_config of the scripts, to whom the key that only the Windows launcher declares is
\* unknown, and who look at names and passwords later.
ScriptsValid(c) == /\ c["passwordless"] = "false" /\ IsBoolean(c["on"]) /\ IsBoolean(c["done"])
                   /\ c["players"] \in Counts /\ IsSchedule(c["time"])
                   /\ c["bind"] \in Binds /\ c["channel"] \in {"", "*", "set"}

\* preflight_values
Preflight(c) == /\ ScriptsValid(c) /\ ~Placeholder(c["admin"]) /\ c["admin"] # "reserved"
                /\ c["pass"] \notin {"CHANGE_ME", "reserved"} /\ c["name"] \notin {"", "reserved"}

\* The scripts read the same layers with a parser of their own before each start of the game,
\* and refuse to render its settings otherwise.
Startable(d) == Readable(d) /\ Preflight(Effective(d))

-----------------------------------------------------------------------------
(* The groups of updates.                                                  *)

\* "Keep it synchronized whenever the editable schedule changes"
WithSwitch(u) == IF "time" \in DOMAIN u
                 THEN Over([on |-> IF u["time"] = "off" THEN "false" ELSE "true"], u) ELSE u

\* Mutant: every file of the group is given all of it.
ByFileWhole(u) == [f \in {FileOf[k] : k \in DOMAIN u} |-> u]

\* Updates by key, as updates by file.
ByFile(u) == [f \in {FileOf[k] : k \in DOMAIN u} |->
                [k \in {j \in DOMAIN u : FileOf[j] = f} |-> u[k]]]

\* SettingsStore.preview: what the request changes of the configuration on disk.
Changed(values, c) == [k \in {j \in DOMAIN values : Normalized(j, values[j]) # c[j]} |->
                         Normalized(k, values[k])]

\* The panel's own password, replaced by the game's while it is a template's.
PanelUpdate(c, pass) ==
  IF Placeholder(IF c["panel"] # "" THEN c["panel"] ELSE c["admin"])
     \/ (c["passwordless"] = "true" /\ c["panel"] = "")
  THEN [panel |-> pass] ELSE Nothing

\* SettingsStore.complete_onboarding
Chosen(name, time, pass, bind) ==
  WithSwitch([time |-> time, done |-> "true", bind |-> bind, name |-> name, pass |-> pass])
Wizard(c, name, time, pass, bind) ==
  Over(Chosen(name, Normalized("time", time), pass, bind), PanelUpdate(c, pass))

LanRefused(c, pass, bind) == bind = "lan" /\ pass = "" /\ PanelUpdate(c, pass) # Nothing

Discord(token) == [token |-> token, channel |-> "set"]

\* Every group some request can ask for.
Edited(e, K) == WithSwitch([k \in K \cap DOMAIN e |-> Normalized(k, e[k])])
Groups == {ByFile(Edited(e, K)) : e \in Edits, K \in SUBSET EditKeys}
            \cup {ByFile(Discord(x)) : x \in Tokens}
            \cup {ByFile(Over(Chosen(n, s, p, b), x)) :
                     n \in AllNames, s \in Schedules, p \in AllPasswords, b \in Binds,
                     x \in {Nothing} \cup [panel : AllPasswords]}

\* "surrogates not allowed"
Encodable(u) == \A k \in DOMAIN u : u[k] # "surrogate"
Whole(g)     == \A f \in DOMAIN g : Encodable(g[f])
Part(g, F)   == [f \in F |-> g[f]]

\* What can be published of them: all of one, or some of the other files of one that cannot be
\* encoded as a whole.
Publishable == {g \in Groups : Whole(g)}
Parts == UNION {{Part(g, F) : F \in SUBSET {f \in DOMAIN g : Encodable(g[f])}} :
                  g \in {h \in Groups : ~Whole(h)}}

\* The wizards write the flag that they are done first, the other groups end with its file.
Place == [caretaker |-> 1, server |-> 2, secrets |-> 3]
Before(f, g) == IF kind \in {"onboard", "network"} THEN Place[f] <= Place[g] ELSE Place[g] <= Place[f]

-----------------------------------------------------------------------------
(* Requests.                                                               *)

\* What a thread publishes under the lock; the network wizard's values come from the panel's
\* own copy, and its password from before the lock.
Requests(t) ==
  IF pc[t] = "netlock"
  THEN [kind : {"network"}, name : {cache["name"]}, pass : {stale[t]}, bind : Binds,
        time : {IF cache["on"] = "true" THEN cache["time"] ELSE "off"}]
  ELSE [kind : {"apply"}, values : Edits] \cup [kind : {"discord"}, token : Tokens] \cup
       [kind : {"onboard"}, name : Names, pass : Passwords, bind : Binds, time : Schedules]

\* A POST arrives; only the network wizard looks at anything before it asks for the lock.
Arrive(t) == /\ up /\ pc[t] = "idle"
             /\ \E l \in {"lock", "read"} : pc' = [pc EXCEPT ![t] = l]
             /\ UNCHANGED <<base, disk, cache, up, lock, stale, tx, torn, cut, missed, wins, faults, crashes>>

\* password = self.config.values.get("SERVER_PASSWORD")
ReadPassword(t) == /\ pc[t] = "read"
                   /\ stale' = [stale EXCEPT ![t] = cache["pass"]]
                   /\ pc' = [pc EXCEPT ![t] = "check"]
                   /\ UNCHANGED <<base, disk, cache, up, lock, tx, torn, cut, missed, wins, faults, crashes>>

\* if self.onboarding_payload()["required"]: raise
CheckOnboarded(t) == /\ pc[t] = "check"
                     /\ pc' = [pc EXCEPT ![t] = IF Onboarded(cache) THEN "netlock" ELSE "idle"]
                     /\ stale' = IF Onboarded(cache) THEN stale ELSE [stale EXCEPT ![t] = ""]
                     /\ UNCHANGED <<base, disk, cache, up, lock, tx, torn, cut, missed, wins, faults, crashes>>

Waiting(t) == pc[t] \in {"lock", "netlock"}
Leave(t)   == /\ pc' = [pc EXCEPT ![t] = "idle"] /\ stale' = [stale EXCEPT ![t] = ""]
              /\ kind' = "none" /\ new' = Nothing /\ old' = Nothing /\ todo' = {} /\ attempted' = {}

\* OperationLockBusy: another thread, or another program, has the lock.
Busy(t) == /\ Waiting(t)
           /\ pc' = [pc EXCEPT ![t] = "idle"] /\ stale' = [stale EXCEPT ![t] = ""]
           /\ UNCHANGED <<base, disk, cache, up, lock, tx, torn, cut, missed, wins, faults, crashes>>

\* What a request is refused for: the Discord wizard alone does not read the files first.
Refused(r) == LET c == Effective(disk) IN
  \/ r.kind # "discord" /\ ~Loads(disk)
  \/ r.kind = "apply" /\ ~IsEdit(r.values)
  \/ r.kind = "onboard" /\ Onboarded(c)
  \/ r.kind \in {"onboard", "network"} /\ ( \/ ~IsText(r.name) \/ ~IsPassword(r.pass)
                                           \/ ~IsSchedule(r.time) \/ LanRefused(c, r.pass, r.bind))

\* The group of updates a request asks for.
Group(r, c) == CASE r.kind = "apply"   -> WithSwitch(Changed(r.values, c))
                 [] r.kind = "discord" -> Discord(r.token)
                 [] OTHER              -> Wizard(c, r.name, r.time, r.pass, r.bind)

\* The lock is taken and the files are read; a refused or empty change releases it at once.
Enter(t) ==
  /\ Waiting(t) /\ lock = None
  /\ \E r \in Requests(t) : LET c == Effective(disk) IN
       \/ /\ Refused(r) \/ Group(r, c) = Nothing
          /\ IF Refused(r) THEN UNCHANGED <<cache, missed>> ELSE cache' = c /\ missed' = FALSE
          /\ Leave(t) /\ UNCHANGED lock
       \/ /\ ~Refused(r) /\ Group(r, c) # Nothing
          /\ lock' = t /\ pc' = [pc EXCEPT ![t] = "backup"] /\ stale' = [stale EXCEPT ![t] = ""]
          /\ kind' = r.kind /\ new' = ByFile(Group(r, c)) /\ todo' = DOMAIN new'
          /\ old' = disk /\ attempted' = {}
          /\ UNCHANGED <<cache, missed>>
  /\ UNCHANGED <<base, disk, up, torn, cut, wins, faults, crashes>>

-----------------------------------------------------------------------------
(* SettingsStore._publish_editable                                         *)

\* Targets are examined and the originals copied to a directory of their own.
BackUp(t) == /\ pc[t] = "backup"
             /\ \/ /\ pc' = [pc EXCEPT ![t] = "write"]
                   /\ UNCHANGED <<lock, stale, tx, faults>>
                \/ Fault /\ Leave(t) /\ lock' = None
             /\ UNCHANGED <<base, disk, cache, up, torn, cut, missed, wins, crashes>>

\* Mutant: a file is remembered for the rollback once it has been replaced.
AttemptedAfter(f, ok) == IF ok THEN attempted \cup {f} ELSE attempted

\* attempted.append(path) comes before the write.
Attempted(f, ok) == attempted \cup {f}

\* _render_updates: the keys of the group replace or follow those the file had.
Rendered(f) == Over(new[f], old[f])

\* UnicodeEncodeError, while the file is rendered: "except (OSError, SettingsPersistenceError,
\* ConfigError)" lets it pass, and nothing is rolled back.
Escapes(f) == ~Encodable(new[f])

\* _atomic_write of the next file; it fails before the replacement or after it, when the
\* directory cannot be synchronized.
WriteFile(t) ==
  /\ pc[t] = "write"
  /\ \E f \in todo :
       LET written == [disk EXCEPT ![f] = Rendered(f)] IN
       /\ \A g \in todo : Before(f, g)
       /\ \/ /\ ~Escapes(f) /\ disk' = written /\ attempted' = Attempted(f, TRUE) /\ todo' = todo \ {f}
             /\ pc' = [pc EXCEPT ![t] = IF todo \ {f} = {} THEN "verify" ELSE "write"]
             /\ UNCHANGED <<lock, stale, kind, new, old, cut, missed, faults>>
          \/ /\ ~Escapes(f) /\ Fault /\ disk' \in {disk, written} /\ attempted' = Attempted(f, FALSE)
             /\ pc' = [pc EXCEPT ![t] = "undo"] /\ UNCHANGED <<lock, stale, kind, new, old, todo, cut, missed>>
          \/ /\ Escapes(f) /\ Leave(t) /\ lock' = None
             /\ cut' = (cut \/ disk # old) /\ missed' = (missed \/ disk # old)
             /\ UNCHANGED <<disk, faults>>
  /\ UNCHANGED <<base, cache, up, torn, wins, crashes>>

\* Mutant: the Discord wizard's result is not kept.
KeptUnlessDiscord(d) == IF kind = "discord" THEN cache ELSE Effective(d)

\* self.config = the store's current()
Kept(d) == Effective(d)

\* "A post-write config parse is part of the transaction, not an optional follow-up"
Verified == Loads(disk)

\* The files are parsed again, and once more for the panel's own copy; then the lock is released
\* and the request answered.
Verify(t) == /\ pc[t] = "verify"
             /\ \/ /\ Verified /\ Leave(t) /\ lock' = None
                   /\ \/ /\ cache' = Kept(disk) /\ missed' = FALSE
                         /\ wins' = IF kind = "onboard" /\ wins < 2 THEN wins + 1 ELSE wins
                         /\ UNCHANGED faults
                      \/ Fault /\ missed' = TRUE /\ UNCHANGED <<cache, wins>>
                \/ /\ (~Verified /\ UNCHANGED faults) \/ Fault
                   /\ pc' = [pc EXCEPT ![t] = "undo"]
                   /\ UNCHANGED <<lock, cache, missed, stale, tx, wins>>
             /\ UNCHANGED <<base, disk, up, torn, cut, crashes>>

\* The except clause, last file first; what cannot be restored is passed over.
UndoFile(t) ==
  /\ pc[t] = "undo"
  /\ \E f \in attempted :
       /\ \A g \in attempted : Before(g, f)
       /\ \/ disk' = [disk EXCEPT ![f] = old[f]] /\ UNCHANGED <<torn, faults>>
          \/ Fault /\ UNCHANGED disk /\ torn' = (torn \/ disk[f] # old[f])
       /\ attempted' = attempted \ {f}
  /\ UNCHANGED <<base, cache, up, lock, pc, stale, kind, new, old, todo, cut, missed, wins, crashes>>

Undone(t) == /\ pc[t] = "undo" /\ attempted = {} /\ Leave(t) /\ lock' = None
             /\ UNCHANGED <<base, disk, cache, up, torn, cut, missed, wins, faults, crashes>>

-----------------------------------------------------------------------------
(* The panel's process.                                                    *)

\* The files of the group are neither all as before nor all as wanted and readable.
Complete == disk = [f \in Files |-> IF f \in DOMAIN new THEN Rendered(f) ELSE old[f]]
Partial  == lock # None /\ disk # old /\ ~(Complete /\ Loads(disk))

Crash == /\ up /\ crashes < MaxCrashes /\ crashes' = crashes + 1
         /\ up' = FALSE /\ cache' = base /\ missed' = FALSE /\ lock' = None
         /\ torn' = (torn \/ Partial)
         /\ pc' = [t \in Threads |-> "idle"] /\ stale' = [t \in Threads |-> ""]
         /\ kind' = "none" /\ new' = Nothing /\ old' = Nothing /\ todo' = {} /\ attempted' = {}
         /\ UNCHANGED <<base, disk, cut, wins, faults>>

\* WebServer.__init__: a listener that is not on the loopback needs a credential.
CanListen(c) == c["bind"] = "local" \/ AuthPassword(c) # ""

Restart == /\ ~up /\ Loads(disk) /\ CanListen(Effective(disk))
           /\ up' = TRUE /\ cache' = Effective(disk) /\ missed' = FALSE
           /\ UNCHANGED <<base, disk, lock, pc, stale, tx, torn, cut, wins, faults, crashes>>

-----------------------------------------------------------------------------

Request(t) == \/ Arrive(t) \/ ReadPassword(t) \/ CheckOnboarded(t) \/ Busy(t) \/ Enter(t)
              \/ BackUp(t) \/ WriteFile(t) \/ Verify(t) \/ UndoFile(t) \/ Undone(t)

Next == (\E t \in Threads : Request(t)) \/ Crash \/ Restart

Spec == Init /\ [][Next]_vars

-----------------------------------------------------------------------------
(* Correctness.                                                            *)

Labels == {"idle", "read", "check", "lock", "netlock", "backup", "write", "verify", "undo"}

\* What the panel can have written under each key.
Written(k) == CASE k = "time" -> Schedules [] k = "on" -> {"true", "false"} [] k = "done" -> {"true"}
                [] k = "bind" -> Binds [] k = "name" -> AllNames [] k = "players" -> Counts
                [] k = "channel" -> {"set"} [] k = "token" -> Tokens [] OTHER -> AllPasswords

IsContent(f, c) == /\ DOMAIN c \subseteq KeysOf[f]
                   /\ \A k \in DOMAIN c : c[k] \in Written(k)
IsLayer(d)      == /\ d = [f \in Files |-> d[f]]
                   /\ \A f \in Files : IsContent(f, d[f])

TypeOK ==
  /\ base \in Bases /\ IsLayer(disk) /\ lock \in Threads \cup {None}
  /\ lock # None => IsLayer(old)
  /\ DOMAIN cache = AllKeys /\ cache["name"] \in AllNames /\ cache["pass"] \in AllPasswords
  /\ up \in BOOLEAN /\ pc \in [Threads -> Labels] /\ stale \in [Threads -> AllPasswords]
  /\ kind \in {"none", "apply", "discord", "onboard", "network"}
  /\ DOMAIN new \subseteq Files /\ \A f \in DOMAIN new : IsContent(f, new[f])
  /\ todo \subseteq Files /\ attempted \subseteq Files
  /\ torn \in BOOLEAN /\ cut \in BOOLEAN /\ missed \in BOOLEAN /\ wins \in 0..2
  /\ faults \in 0..MaxFaults /\ crashes \in 0..MaxCrashes

\* "so a browser save cannot publish a value which the renderer must reject": if the game could
\* be started with what root configured, it still can after any request, whole or rolled back, and
\* after one that was cut short if the panel itself can read what it left.
StaysStartable == /\ lock = None /\ ~torn /\ Startable([f \in Files |-> Nothing]) /\ (cut => Loads(disk))
                  => Startable(disk)

\* "拒絕重複提交": the first-run wizard succeeds at most once, through concurrent submissions,
\* failures and restarts.
WizardOnce == wins < 2

\* What the panel believes is what is on disk whenever no group is being published, unless it
\* has not read the last one it published.
CacheCurrent == up /\ lock = None /\ ~torn /\ ~missed => cache = Effective(disk)

\* The files as they count: a group that is being published does not yet.
Published == IF lock # None THEN old ELSE disk

\* The store has the effect of one that publishes a group at once, until a rollback fails or the
\* panel dies in the middle of one; of a group that cannot be encoded it publishes a part.
Atomic == INSTANCE AtomicSettings WITH
            conf    <- Published,
            Updates <- Publishable
ImplementsAtomic == Atomic!Spec

-----------------------------------------------------------------------------
(* Known not to hold: with this formula as its INVARIANT a run shows how.  *)

\* "a copied release template never leaves the local management UI protected by CHANGE_ME
\* text": once the first-run wizard has been through, the panel's password is nobody's template.
TemplateReplaced == lock = None /\ ~torn /\ Effective(disk)["done"] = "true"
                      => Effective(disk)["panel"] # "CHANGE_ME"

\* The panel can be started again after it was killed: a value that its own reader refuses is on
\* disk until the transaction has read the files back.
AlwaysLoads == faults = 0 /\ lock = None => Loads(disk)

\* "a failure while replacing any later file restores all earlier files": every group as a whole.
AtomicWhole == INSTANCE AtomicSettings WITH
                 conf    <- Published,
                 Updates <- Publishable,
                 cut     <- FALSE
ImplementsWhole == AtomicWhole!Spec
=============================================================================
