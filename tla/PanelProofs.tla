---------------------------- MODULE PanelProofs ----------------------------
(***************************************************************************)
(* Proofs about what the web panel writes: the settings store, for any     *)
(* number of request threads, any protected layers, names and passwords,   *)
(* and any number of faults and kills; and, at the end, the world          *)
(* registry, for every set of names, every choice of base ports and        *)
(* stride, and any number of faults and restarts.                          *)
(***************************************************************************)
EXTENDS Settings, Registry, TLAPS

-----------------------------------------------------------------------------
(* The inductive invariant of the settings store.                          *)

\* The labels of a thread that publishes a group.
Working == {"backup", "write", "verify", "undo"}

\* Only the owner of the lock publishes, and only while the panel runs.
LockScoped == /\ \A t \in Threads : pc[t] \in Working => lock = t
              /\ lock # None => up /\ pc[lock] \in Working
              /\ kind # "none" => lock # None
              /\ \A t \in Threads : pc[t] # "idle" => up

\* Between a group's first file and its last: what was attempted may be new, the rest is old,
\* and what a rollback could not restore is known to be torn.
Flight == lock # None =>
  /\ new \in Groups /\ attempted \cup todo \subseteq DOMAIN new
  /\ \A f \in Files \ DOMAIN new : disk[f] = old[f]
  /\ \A f \in DOMAIN new : disk[f] \in {old[f], Rendered(f)}
  /\ \A f \in Files \ attempted : disk[f] = old[f] \/ torn
  /\ pc[lock] # "undo" => /\ DOMAIN new \subseteq attempted \cup todo
                          /\ \A f \in attempted : disk[f] = Rendered(f)
  /\ pc[lock] = "backup" => attempted = {}
  /\ pc[lock] = "verify" => todo = {}

\* Once the first-run wizard has succeeded its flag is on disk, and a wizard under way is the first.
HasFlag(d) == "done" \in DOMAIN d["caretaker"]
Flagged == /\ wins < 2
           /\ wins > 0 => HasFlag(disk) /\ HasFlag(Published)
           /\ kind = "onboard" => wins = 0 /\ "caretaker" \in DOMAIN new /\ HasFlag(new)

\* The panel's own copy is of the files as they count.
CacheFollows == up /\ ~torn /\ ~missed => cache = Effective(Published)

IInv == TypeOK /\ LockScoped /\ Flight /\ Flagged /\ CacheFollows

\* What was published can be encoded.
Encoded == \A f \in Files : Encodable(disk[f]) /\ (lock # None => Encodable(old[f]))

\* If the root's own files let the game start, no template's password is about to be published.
Blank == [f \in Files |-> Nothing]
Clean == /\ cache["pass"] # "CHANGE_ME" /\ \A t \in Threads : stale[t] # "CHANGE_ME"
         /\ lock # None /\ "secrets" \in DOMAIN new /\ "pass" \in DOMAIN new["secrets"]
              => new["secrets"]["pass"] \notin {"CHANGE_ME", "reserved"}
Presented(d) == Effective(d)["pass"] \notin {"CHANGE_ME", "reserved"}
Presentable == Startable(Blank) /\ ~torn => /\ Presented(Published) /\ Clean
                                            /\ (cut => Loads(Published)) => Startable(Published)

-----------------------------------------------------------------------------
(* Facts about the layers.                                                 *)

\* Each key belongs to one file.
LEMMA KeyFile == /\ \A k \in Keys : FileOf[k] \in Files
                 /\ \A k \in Keys, f \in Files : k \in KeysOf[f] <=> FileOf[k] = f
                 /\ \A f \in Files : KeysOf[f] \subseteq Keys
BY DEF FileOf, Files, Keys, KeysOf

\* What a lookup through the layers gives.
LEMMA Lookup ==
  ASSUME base \in Bases, NEW d
  PROVE  /\ DOMAIN Effective(d) = AllKeys /\ DOMAIN base = AllKeys
         /\ \A k \in Keys : Effective(d)[k] = IF k \in DOMAIN d[FileOf[k]] THEN d[FileOf[k]][k] ELSE base[k]
         /\ \A k \in AllKeys \ Keys : Effective(d)[k] = base[k]
<1>1. DOMAIN base = AllKeys
  BY BaseAssumption
<1> QED
  BY <1>1 DEF Effective, AllKeys

\* The name and the password of the layers are among those that were ever given.
LEMMA EffectiveTyped ==
  ASSUME base \in Bases, NEW d, IsLayer(d)
  PROVE  /\ DOMAIN Effective(d) = AllKeys
         /\ Effective(d)["name"] \in AllNames /\ Effective(d)["pass"] \in AllPasswords
<1>1. /\ "name" \in Keys /\ FileOf["name"] \in Files /\ Written("name") = AllNames
      /\ "pass" \in Keys /\ FileOf["pass"] \in Files /\ Written("pass") = AllPasswords
  BY KeyFile DEF Keys, KeysOf, Written
<1>2. base["name"] \in AllNames /\ base["pass"] \in AllPasswords
  BY DEF AllNames, AllPasswords
<1> QED
  BY <1>1, <1>2, Lookup DEF IsLayer, IsContent

\* A flag on disk is what the panel reads.
LEMMA FlagSeen ==
  ASSUME base \in Bases, NEW d, IsLayer(d), HasFlag(d)
  PROVE  Effective(d)["done"] = "true"
<1>1. "done" \in Keys /\ FileOf["done"] = "caretaker" /\ "caretaker" \in Files /\ Written("done") = {"true"}
  BY DEF Keys, KeysOf, FileOf, Files, Written
<1> QED
  BY <1>1, Lookup DEF IsLayer, IsContent, HasFlag

\* An update laid over a file's content is content of that file.
LEMMA OverIsContent ==
  ASSUME NEW f \in Files, NEW u, NEW c, IsContent(f, u), IsContent(f, c)
  PROVE  IsContent(f, Over(u, c))
BY DEF IsContent, Over

\* The group of a set of updates holds each of them, in the file of its key, and nothing else.
LEMMA ByFileHolds ==
  ASSUME NEW u, DOMAIN u \subseteq Keys, \A k \in DOMAIN u : u[k] \in Written(k)
  PROVE  /\ DOMAIN ByFile(u) \subseteq Files
         /\ \A f \in DOMAIN ByFile(u) : IsContent(f, ByFile(u)[f])
         /\ \A k \in DOMAIN u : /\ FileOf[k] \in DOMAIN ByFile(u)
                                /\ k \in DOMAIN ByFile(u)[FileOf[k]]
         /\ \A f \in DOMAIN ByFile(u) : \A k \in DOMAIN ByFile(u)[f] :
              k \in DOMAIN u /\ ByFile(u)[f][k] = u[k]
<1>1. DOMAIN ByFile(u) = {FileOf[k] : k \in DOMAIN u}
  BY DEF ByFile
<1>2. ASSUME NEW f \in DOMAIN ByFile(u)
      PROVE  /\ DOMAIN ByFile(u)[f] = {j \in DOMAIN u : FileOf[j] = f}
             /\ \A k \in DOMAIN ByFile(u)[f] : ByFile(u)[f][k] = u[k]
  BY DEF ByFile
<1>3. DOMAIN ByFile(u) \subseteq Files
  BY <1>1, KeyFile
<1>4. ASSUME NEW f \in DOMAIN ByFile(u) PROVE IsContent(f, ByFile(u)[f])
  <2>1. ASSUME NEW k \in DOMAIN ByFile(u)[f] PROVE k \in KeysOf[f]
    <3>1. k \in Keys /\ FileOf[k] = f /\ f \in Files
      BY <1>2, <1>3
    <3> QED
      BY <3>1, KeyFile
  <2>2. \A k \in DOMAIN ByFile(u)[f] : ByFile(u)[f][k] \in Written(k)
    BY <1>2
  <2> QED
    BY <2>1, <2>2 DEF IsContent
<1>5. ASSUME NEW k \in DOMAIN u
      PROVE  FileOf[k] \in DOMAIN ByFile(u) /\ k \in DOMAIN ByFile(u)[FileOf[k]]
  <2>1. FileOf[k] \in DOMAIN ByFile(u)
    BY <1>1
  <2> QED
    BY <1>2, <2>1
<1> QED
  BY <1>2, <1>3, <1>4, <1>5

-----------------------------------------------------------------------------
(* Facts about the requests.                                               *)

\* What a wizard asks for.
LEMMA WizardUpdates ==
  ASSUME NEW c, NEW n \in AllNames, NEW s, Normalized("time", s) \in Schedules,
         NEW p \in AllPasswords, NEW b \in Binds
  PROVE  LET u == Wizard(c, n, s, p, b) IN
         /\ DOMAIN u \subseteq Keys /\ \A k \in DOMAIN u : u[k] \in Written(k)
         /\ "done" \in DOMAIN u /\ "pass" \in DOMAIN u /\ u["pass"] = p
         /\ ByFile(u) \in Groups
<1> DEFINE v == Normalized("time", s)
           w == Chosen(n, v, p, b)
           x == PanelUpdate(c, p)
<1>1. x \in {Nothing} \cup [panel : AllPasswords]
  BY DEF PanelUpdate
<1>2. /\ DOMAIN w = {"time", "on", "done", "bind", "name", "pass"}
      /\ w["time"] = v /\ w["on"] \in {"true", "false"} /\ w["done"] = "true" /\ w["bind"] = b
      /\ w["name"] = n /\ w["pass"] = p
  BY DEF Chosen, WithSwitch, Over
<1>3. DOMAIN x \subseteq {"panel"} /\ \A k \in DOMAIN x : x[k] \in AllPasswords
  BY <1>1 DEF Nothing
<1>4. Wizard(c, n, s, p, b) = Over(w, x)
  BY DEF Wizard
<1>5. ByFile(Over(w, x)) \in Groups
  BY <1>1 DEF Groups
<1> HIDE DEF v, w, x
<1>6. /\ DOMAIN Over(w, x) = DOMAIN w \cup DOMAIN x
      /\ \A k \in DOMAIN w : Over(w, x)[k] = w[k]
      /\ \A k \in DOMAIN x \ DOMAIN w : Over(w, x)[k] = x[k]
  BY DEF Over
<1>7. ASSUME NEW k \in DOMAIN Over(w, x) PROVE k \in Keys /\ Over(w, x)[k] \in Written(k)
  <2>1. CASE k \in DOMAIN w
    BY <1>2, <1>6, <2>1 DEF Written, Keys, KeysOf, v
  <2>2. CASE k \in DOMAIN x \ DOMAIN w
    BY <1>2, <1>3, <1>6, <2>2 DEF Written, Keys, KeysOf
  <2> QED
    BY <1>6, <1>7, <2>1, <2>2
<1> QED
  BY <1>2, <1>4, <1>5, <1>6, <1>7

\* What the editor asks for.
LEMMA EditUpdates ==
  ASSUME NEW c, NEW e \in Edits, IsEdit(e)
  PROVE  LET u == WithSwitch(Changed(e, c)) IN
         /\ DOMAIN u \subseteq Keys /\ \A k \in DOMAIN u : u[k] \in Written(k)
         /\ {"pass", "done", "bind", "panel"} \cap DOMAIN u = {} /\ ByFile(u) \in Groups
<1> DEFINE K == {j \in DOMAIN e : Normalized(j, e[j]) # c[j]}
           v == [k \in K |-> Normalized(k, e[k])]
<1>1. K \subseteq EditKeys /\ K = K \cap DOMAIN e
  BY DEF IsEdit
<1>2. Changed(e, c) = v /\ WithSwitch(v) = Edited(e, K)
  BY <1>1 DEF Changed, Edited
<1>3. ByFile(WithSwitch(v)) \in Groups
  BY <1>1, <1>2 DEF Groups
<1>4. ASSUME NEW k \in K PROVE k \in EditKeys /\ v[k] \in Written(k)
  <2>1. k \in EditKeys /\ Accepted(k, e[k])
    BY <1>1 DEF IsEdit
  <2>2. CASE k = "time"
    BY <2>1, <2>2 DEF Accepted, IsSchedule, Written
  <2>3. CASE k = "players"
    BY <2>1, <2>3 DEF Accepted, Normalized, Written
  <2>4. CASE k = "name"
    <3>1. e \in {x \in Edits : "name" \in DOMAIN x}
      BY <2>4
    <3>2. e["name"] \in AllNames
      BY <3>1 DEF AllNames
    <3> QED
      BY <2>1, <2>4, <3>2 DEF Normalized, Written
  <2> QED
    BY <2>1, <2>2, <2>3, <2>4 DEF EditKeys
<1>5. DOMAIN v = K
  OBVIOUS
<1> HIDE DEF K, v
<1>6. CASE "time" \notin K
  <2>1. WithSwitch(v) = v
    BY <1>5, <1>6 DEF WithSwitch
  <2> QED
    BY <1>2, <1>3, <1>4, <1>5, <2>1 DEF EditKeys, Keys, KeysOf
<1>7. CASE "time" \in K
  <2>1. PICK b \in {"true", "false"} : WithSwitch(v) = Over([on |-> b], v)
    BY <1>5, <1>7 DEF WithSwitch
  <2>2. /\ DOMAIN Over([on |-> b], v) = {"on"} \cup K
        /\ Over([on |-> b], v)["on"] = b
        /\ \A k \in K \ {"on"} : Over([on |-> b], v)[k] = v[k]
    BY <1>5 DEF Over
  <2>3. \A k \in {"on"} \cup K : k \in Keys /\ k \notin {"pass", "done", "bind", "panel"} /\ Over([on |-> b], v)[k] \in Written(k)
    BY <1>4, <2>2 DEF EditKeys, Keys, KeysOf, Written
  <2> QED
    BY <1>2, <1>3, <2>1, <2>2, <2>3
<1> QED
  BY <1>6, <1>7

\* What the Discord wizard asks for.
LEMMA DiscordUpdates ==
  ASSUME NEW x \in Tokens
  PROVE  LET u == Discord(x) IN
         /\ DOMAIN u \subseteq Keys /\ \A k \in DOMAIN u : u[k] \in Written(k)
         /\ {"pass", "done", "bind", "panel"} \cap DOMAIN u = {} /\ ByFile(u) \in Groups
<1>1. ByFile(Discord(x)) \in Groups
  BY DEF Groups
<1> QED
  BY <1>1 DEF Discord, Written, Keys, KeysOf

\* The fields of a request: an edit, a token, or what a wizard was given or had in memory.
LEMMA RequestFields ==
  ASSUME TypeOK, NEW t \in Threads, NEW r \in Requests(t)
  PROVE  /\ r.kind \in {"apply", "discord", "onboard", "network"}
         /\ r.kind = "apply" => r.values \in Edits
         /\ r.kind = "discord" => r.token \in Tokens
         /\ r.kind \in {"onboard", "network"} =>
              r.name \in AllNames /\ r.pass \in AllPasswords /\ r.bind \in Binds
         /\ r.kind = "onboard" => r.pass \in Passwords
         /\ r.kind = "network" => r.pass = stale[t]
<1>1. CASE pc[t] = "netlock"
  BY <1>1 DEF Requests, TypeOK
<1>2. CASE pc[t] # "netlock"
  BY <1>2 DEF Requests, AllNames, AllPasswords
<1> QED
  BY <1>1, <1>2

\* A request that is not refused asks for a group of well-formed updates.
LEMMA GroupUpdates ==
  ASSUME TypeOK, NEW t \in Threads, NEW r \in Requests(t), ~Refused(r)
  PROVE  LET u == Group(r, Effective(disk)) IN
         /\ DOMAIN u \subseteq Keys /\ \A k \in DOMAIN u : u[k] \in Written(k)
         /\ ByFile(u) \in Groups
         /\ r.kind = "onboard" => "done" \in DOMAIN u
         /\ "pass" \in DOMAIN u => u["pass"] = r.pass /\ r.kind \in {"onboard", "network"} /\ IsPassword(r.pass)
<1> DEFINE c == Effective(disk)
<1>1. CASE r.kind = "apply"
  <2>1. r.values \in Edits /\ IsEdit(r.values) /\ Group(r, c) = WithSwitch(Changed(r.values, c))
    BY <1>1, RequestFields DEF Refused, Group
  <2> QED
    BY <1>1, <2>1, EditUpdates
<1>2. CASE r.kind = "discord"
  <2>1. r.token \in Tokens /\ Group(r, c) = Discord(r.token)
    BY <1>2, RequestFields DEF Group
  <2> QED
    BY <1>2, <2>1, DiscordUpdates
<1>3. CASE r.kind \in {"onboard", "network"}
  <2>1. /\ r.name \in AllNames /\ r.pass \in AllPasswords /\ r.bind \in Binds
        /\ Normalized("time", r.time) \in Schedules /\ IsPassword(r.pass)
        /\ Group(r, c) = Wizard(c, r.name, r.time, r.pass, r.bind)
    BY <1>3, RequestFields DEF Refused, Group, IsSchedule
  <2> QED
    BY <1>3, <2>1, WizardUpdates
<1> QED
  BY <1>1, <1>2, <1>3, RequestFields

-----------------------------------------------------------------------------
(* The steps of a thread that does not own the lock.                       *)

\* No file, no lock and no transaction changes, and a thread outside the lock stays outside.
Quiet(t) == /\ up /\ pc[t] \notin Working /\ pc'[t] \notin Working
            /\ \A s \in Threads \ {t} : pc'[s] = pc[s]
            /\ UNCHANGED <<base, disk, cache, up, lock, tx, torn, cut, missed, wins, faults, crashes>>

LEMMA QuietKeeps ==
  ASSUME IInv, NEW t \in Threads, Quiet(t), TypeOK'
  PROVE  IInv'
<1> USE DEF Quiet, IInv, tx
<1>1. LockScoped'
  BY DEF LockScoped, TypeOK
<1>2. lock # None => lock \in Threads /\ pc'[lock] = pc[lock]
  BY DEF LockScoped, TypeOK
<1>3. Flight'
  BY <1>2 DEF Flight, Rendered
<1>4. Flagged'
  BY DEF Flagged, HasFlag, Published
<1>5. CacheFollows'
  BY DEF CacheFollows, Effective, Published
<1> QED
  BY <1>1, <1>3, <1>4, <1>5

LEMMA ArriveKeeps == ASSUME IInv, NEW t \in Threads, Arrive(t) PROVE IInv'
<1>1. Quiet(t)
  BY DEF Arrive, Quiet, Working, IInv, TypeOK, LockScoped
<1>2. TypeOK'
  BY DEF Arrive, IInv, TypeOK, Labels, tx, IsLayer, IsContent
<1> QED
  BY <1>1, <1>2, QuietKeeps

LEMMA ReadPasswordKeeps == ASSUME IInv, NEW t \in Threads, ReadPassword(t) PROVE IInv'
<1>1. Quiet(t)
  BY DEF ReadPassword, Quiet, Working, IInv, TypeOK, LockScoped
<1>2. TypeOK'
  BY DEF ReadPassword, IInv, TypeOK, Labels, tx, IsLayer, IsContent
<1> QED
  BY <1>1, <1>2, QuietKeeps

LEMMA CheckOnboardedKeeps == ASSUME IInv, NEW t \in Threads, CheckOnboarded(t) PROVE IInv'
<1>1. Quiet(t)
  BY DEF CheckOnboarded, Quiet, Working, IInv, TypeOK, LockScoped
<1>2. TypeOK'
  BY DEF CheckOnboarded, IInv, TypeOK, Labels, tx, IsLayer, IsContent, AllPasswords
<1> QED
  BY <1>1, <1>2, QuietKeeps

LEMMA BusyKeeps == ASSUME IInv, NEW t \in Threads, Busy(t) PROVE IInv'
<1>1. Quiet(t)
  BY DEF Busy, Waiting, Quiet, Working, IInv, TypeOK, LockScoped
<1>2. TypeOK'
  BY DEF Busy, IInv, TypeOK, Labels, tx, IsLayer, IsContent, AllPasswords
<1> QED
  BY <1>1, <1>2, QuietKeeps

-----------------------------------------------------------------------------
(* The lock is taken, or given back.                                       *)

\* Whoever leaves holds no group any more.
LEMMA LeaveTypes ==
  ASSUME TypeOK, NEW t \in Threads, Leave(t)
  PROVE  /\ pc' \in [Threads -> Labels] /\ stale' \in [Threads -> AllPasswords]
         /\ kind' = "none" /\ new' = Nothing /\ DOMAIN new' = {} /\ todo' = {} /\ attempted' = {}
         /\ pc'[t] = "idle" /\ \A s \in Threads \ {t} : pc'[s] = pc[s]
BY DEF Leave, TypeOK, Labels, AllPasswords, Nothing

\* A group published or given up leaves every part of the invariant about groups vacuous.
LEMMA ReleaseKeeps ==
  ASSUME IInv, NEW t \in Threads, Leave(t), lock' = None, lock \in {None, t},
         UNCHANGED <<base, disk, up, crashes>>,
         torn' \in BOOLEAN, cut' \in BOOLEAN, missed' \in BOOLEAN, faults' \in 0..MaxFaults,
         DOMAIN cache' = AllKeys, cache'["name"] \in AllNames, cache'["pass"] \in AllPasswords,
         wins' \in 0..1, wins' > 0 => HasFlag(disk),
         up /\ ~torn' /\ ~missed' => cache' = Effective(disk)
  PROVE  IInv'
<1>1. TypeOK'
  BY LeaveTypes DEF IInv, TypeOK, IsLayer, IsContent
<1>2. LockScoped'
  BY LeaveTypes DEF IInv, LockScoped, Working
<1>3. Flight' /\ Flagged'
  <2>1. kind' = "none" /\ lock' = None /\ disk' = disk /\ Published' = disk
    BY LeaveTypes DEF Published, IInv
  <2> QED
    BY <2>1 DEF Flight, Flagged, HasFlag
<1>4. CacheFollows'
  BY DEF CacheFollows, Published, Effective
<1> QED
  BY <1>1, <1>2, <1>3, <1>4 DEF IInv

\* A refused or empty request changes no file; the others begin with the files as they are.
LEMMA EnterKeeps == ASSUME IInv, NEW t \in Threads, Enter(t) PROVE IInv'
<1> DEFINE c == Effective(disk)
<1>a. /\ lock = None /\ pc[t] \in {"lock", "netlock"} /\ base \in Bases /\ IsLayer(disk) /\ TypeOK
      /\ UNCHANGED <<base, disk, up, torn, cut, wins, faults, crashes>>
  <2>1. lock = None /\ Waiting(t) /\ UNCHANGED <<base, disk, up, torn, cut, wins, faults, crashes>>
    BY DEF Enter
  <2> QED
    BY <2>1 DEF Waiting, IInv, TypeOK
<1>b. DOMAIN c = AllKeys /\ c["name"] \in AllNames /\ c["pass"] \in AllPasswords
  BY <1>a, EffectiveTyped
<1> HIDE DEF c
<1>0. /\ lock = None /\ pc[t] \in {"lock", "netlock"} /\ base \in Bases /\ IsLayer(disk)
      /\ UNCHANGED <<base, disk, up, torn, cut, wins, faults, crashes>>
      /\ DOMAIN c = AllKeys /\ c["name"] \in AllNames /\ c["pass"] \in AllPasswords
  BY <1>a, <1>b
<1>1. PICK r \in Requests(t) :
       \/ /\ Refused(r) \/ Group(r, c) = Nothing
          /\ IF Refused(r) THEN UNCHANGED <<cache, missed>> ELSE cache' = c /\ missed' = FALSE
          /\ Leave(t) /\ UNCHANGED lock
       \/ /\ ~Refused(r) /\ Group(r, c) # Nothing
          /\ lock' = t /\ pc' = [pc EXCEPT ![t] = "backup"] /\ stale' = [stale EXCEPT ![t] = ""]
          /\ kind' = r.kind /\ new' = ByFile(Group(r, c)) /\ todo' = DOMAIN new'
          /\ old' = disk /\ attempted' = {}
          /\ UNCHANGED <<cache, missed>>
  BY DEF Enter, c
<1>2. CASE Leave(t) /\ UNCHANGED lock
  <2>1. UNCHANGED <<cache, missed>> \/ (cache' = c /\ missed' = FALSE)
    BY <1>1, <1>2
  <2>2. wins' \in 0..1 /\ (wins' > 0 => HasFlag(disk))
    BY <1>0 DEF IInv, TypeOK, Flagged
  <2>3. up /\ ~torn' /\ ~missed' => cache' = Effective(disk)
    BY <1>0, <2>1 DEF IInv, CacheFollows, Published, c
  <2> QED
    BY <1>0, <1>2, <2>1, <2>2, <2>3, ReleaseKeeps DEF IInv, TypeOK
<1>3. CASE /\ ~Refused(r)
           /\ lock' = t /\ pc' = [pc EXCEPT ![t] = "backup"] /\ stale' = [stale EXCEPT ![t] = ""]
           /\ kind' = r.kind /\ new' = ByFile(Group(r, c)) /\ todo' = DOMAIN new'
           /\ old' = disk /\ attempted' = {}
           /\ UNCHANGED <<cache, missed>>
  <2> DEFINE u == Group(r, c)
  <2>1. /\ DOMAIN u \subseteq Keys /\ \A k \in DOMAIN u : u[k] \in Written(k)
        /\ ByFile(u) \in Groups /\ (r.kind = "onboard" => "done" \in DOMAIN u)
    BY <1>3, GroupUpdates DEF IInv, c
  <2>2. /\ DOMAIN new' \subseteq Files /\ \A f \in DOMAIN new' : IsContent(f, new'[f])
        /\ new' \in Groups
        /\ r.kind = "onboard" => "caretaker" \in DOMAIN new' /\ "done" \in DOMAIN new'["caretaker"]
    <3>1. FileOf["done"] = "caretaker"
      BY DEF FileOf, Keys, KeysOf
    <3>2. new' = ByFile(u)
      BY <1>3
    <3> HIDE DEF u
    <3> QED
      BY <2>1, <3>1, <3>2, ByFileHolds
  <2> HIDE DEF u
  <2>3. r.kind \in {"apply", "discord", "onboard", "network"} /\ t # None
    BY RequestFields, ThreadAssumption DEF IInv
  <2>4. TypeOK'
    BY <1>0, <1>3, <2>2, <2>3 DEF IInv, TypeOK, Labels, AllPasswords, IsLayer, IsContent
  <2>5. LockScoped'
    <3>1. up
      BY <1>0 DEF IInv, LockScoped
    <3>2. pc'[t] = "backup" /\ \A s \in Threads \ {t} : pc'[s] = pc[s] /\ pc[s] \notin Working
      BY <1>0, <1>3, ThreadAssumption DEF IInv, LockScoped, TypeOK
    <3> QED
      BY <1>0, <1>3, <2>3, <3>1, <3>2 DEF LockScoped, Working
  <2>6. Flight'
    BY <1>0, <1>3, <2>2, <2>3 DEF Flight, IInv, TypeOK, Working
  <2>7. Flagged'
    <3>1. r.kind = "onboard" => ~HasFlag(disk)
      BY <1>0, <1>3, FlagSeen DEF Refused, Onboarded
    <3>2. disk' = disk /\ Published' = disk /\ kind' = r.kind /\ wins' = wins
      BY <1>0, <1>3, <2>3 DEF Published
    <3> QED
      BY <2>2, <3>1, <3>2 DEF Flagged, IInv, TypeOK, HasFlag
  <2>8. CacheFollows'
    BY <1>0, <1>3, <2>3 DEF CacheFollows, IInv, Published, Effective
  <2> QED
    BY <2>4, <2>5, <2>6, <2>7, <2>8 DEF IInv
<1> QED
  BY <1>1, <1>2, <1>3

-----------------------------------------------------------------------------
(* Publication and rollback.                                               *)

\* A step of the owner that leaves the transaction's bookkeeping to be checked.
Owning(t) == /\ pc[t] \in Working /\ pc'[t] \in Working
             /\ \A s \in Threads \ {t} : pc'[s] = pc[s]
             /\ UNCHANGED <<base, cache, up, lock, stale, kind, new, old, cut, missed, wins, crashes>>

\* What is in a file while a group is being published is content of that file.
LEMMA FlightTyped ==
  ASSUME IInv, lock # None, NEW f \in DOMAIN new
  PROVE  f \in Files /\ IsContent(f, Rendered(f)) /\ IsContent(f, old[f])
BY OverIsContent DEF IInv, TypeOK, IsLayer, Rendered

\* The flag of a first-run wizard that succeeded survives every write and every rollback.
LEMMA FlagStays ==
  ASSUME IInv, lock # None, \A f \in Files : disk'[f] \in {disk[f], old[f], Rendered(f)},
         \A f \in Files \ DOMAIN new : disk'[f] = disk[f],
         UNCHANGED <<lock, old, new, kind, wins>>
  PROVE  Flagged'
<1>1. Published = old /\ Published' = old
  BY DEF Published
<1>2. HasFlag(disk) /\ HasFlag(old) => HasFlag(disk')
  BY DEF HasFlag, Rendered, Over, Files
<1> QED
  BY <1>1, <1>2 DEF IInv, Flagged

LEMMA OwnerIs == ASSUME IInv, NEW t \in Threads, pc[t] \in Working
                 PROVE  lock = t /\ lock # None /\ up
BY ThreadAssumption DEF IInv, LockScoped

\* The owner goes on.
LEMMA OwningKeeps ==
  ASSUME IInv, NEW t \in Threads, Owning(t), TypeOK', Flight', Flagged', torn => torn'
  PROVE  IInv'
<1>0. lock = t /\ lock # None /\ up
  BY OwnerIs DEF Owning
<1>1. LockScoped'
  BY <1>0 DEF Owning, IInv, LockScoped
<1>2. Published' = Published /\ Effective(Published)' = Effective(Published)
  BY <1>0 DEF Owning, Published, Effective
<1>3. CacheFollows'
  BY <1>2 DEF Owning, IInv, TypeOK, CacheFollows
<1> QED
  BY <1>1, <1>3 DEF IInv

LEMMA BackUpKeeps == ASSUME IInv, NEW t \in Threads, BackUp(t) PROVE IInv'
<1>0. lock = t /\ lock # None /\ up /\ pc[t] = "backup" /\ pc[t] \in Working
  BY OwnerIs DEF BackUp, Working
<1>1. CASE pc' = [pc EXCEPT ![t] = "write"] /\ UNCHANGED <<lock, stale, tx, faults>>
  <2>0. UNCHANGED <<base, disk, cache, up, torn, cut, missed, wins, crashes, kind, new, old, todo, attempted, lock, stale, faults>>
    BY <1>1 DEF BackUp, tx
  <2>1. TypeOK'
    BY <1>1, <2>0 DEF IInv, TypeOK, Labels, IsLayer, IsContent
  <2>2. Owning(t)
    BY <1>0, <1>1, <2>0 DEF Owning, Working, IInv, TypeOK
  <2>3. Flight'
    BY <1>0, <1>1, <2>0 DEF IInv, TypeOK, Flight, Rendered
  <2>4. Flagged'
    BY <1>0, <2>0 DEF IInv, Flagged, HasFlag, Published
  <2> QED
    BY <2>0, <2>1, <2>2, <2>3, <2>4, OwningKeeps
<1>2. CASE Fault /\ Leave(t) /\ lock' = None
  <2>0. UNCHANGED <<base, disk, cache, up, torn, cut, missed, wins, crashes>> /\ faults' \in 0..MaxFaults
    BY <1>2, BoundAssumption DEF BackUp, Fault, IInv, TypeOK
  <2>1. ~torn => disk = old
    BY <1>0 DEF IInv, Flight, TypeOK, IsLayer
  <2> QED
    BY <1>0, <1>2, <2>0, <2>1, ReleaseKeeps DEF IInv, TypeOK, Flagged, CacheFollows, Published
<1> QED
  BY <1>1, <1>2 DEF BackUp

LEMMA WriteFileKeeps == ASSUME IInv, NEW t \in Threads, WriteFile(t) PROVE IInv'
<1>0. lock = t /\ lock # None /\ up /\ pc[t] = "write" /\ pc[t] \in Working
  BY OwnerIs DEF WriteFile, Working
<1>1. PICK f \in todo :
       \/ /\ disk' = [disk EXCEPT ![f] = Rendered(f)] /\ attempted' = attempted \cup {f}
          /\ todo' = todo \ {f}
          /\ pc' = [pc EXCEPT ![t] = IF todo \ {f} = {} THEN "verify" ELSE "write"]
          /\ UNCHANGED <<lock, stale, kind, new, old, cut, missed, faults>>
       \/ /\ Fault /\ disk' \in {disk, [disk EXCEPT ![f] = Rendered(f)]}
          /\ attempted' = attempted \cup {f} /\ pc' = [pc EXCEPT ![t] = "undo"]
          /\ UNCHANGED <<lock, stale, kind, new, old, todo, cut, missed>>
       \/ /\ Leave(t) /\ lock' = None /\ UNCHANGED <<disk, faults>>
          /\ cut' = (cut \/ disk # old) /\ missed' = (missed \/ disk # old)
  BY DEF WriteFile, Attempted
<1>2. UNCHANGED <<base, cache, up, torn, wins, crashes>>
  BY DEF WriteFile
<1>3. ASSUME /\ UNCHANGED <<lock, stale, kind, new, old, cut, missed>>
             /\ \/ /\ disk' = [disk EXCEPT ![f] = Rendered(f)] /\ attempted' = attempted \cup {f}
                   /\ todo' = todo \ {f}
                   /\ pc' = [pc EXCEPT ![t] = IF todo \ {f} = {} THEN "verify" ELSE "write"]
                   /\ UNCHANGED faults
                \/ /\ Fault /\ disk' \in {disk, [disk EXCEPT ![f] = Rendered(f)]}
                   /\ attempted' = attempted \cup {f} /\ pc' = [pc EXCEPT ![t] = "undo"]
                   /\ UNCHANGED todo
      PROVE  IInv'
  <2>3. f \in DOMAIN new /\ f \in Files /\ IsContent(f, Rendered(f)) /\ Rendered(f)' = Rendered(f)
    BY <1>0, <1>3, FlightTyped DEF IInv, Flight, Rendered
  <2>4. disk' = [g \in Files |-> disk'[g]] /\ \A g \in Files : disk'[g] = IF g = f /\ disk' # disk THEN Rendered(f) ELSE disk[g]
    BY <1>3, <2>3 DEF IInv, TypeOK, IsLayer
  <2>5. TypeOK'
    <3>1. IsLayer(disk')
      BY <2>3, <2>4 DEF IInv, TypeOK, IsLayer
    <3>2. faults' \in 0..MaxFaults
      BY <1>3, BoundAssumption DEF IInv, TypeOK, Fault
    <3> QED
      BY <1>2, <1>3, <2>3, <3>1, <3>2 DEF IInv, TypeOK, Labels, IsLayer, IsContent
  <2>6. Owning(t)
    BY <1>0, <1>2, <1>3 DEF Owning, Working, IInv, TypeOK
  <2>7. Flight'
    <3>1. \A g \in Files : Rendered(g)' = Rendered(g)
      BY <1>3 DEF Rendered
    <3> QED
      BY <1>0, <1>2, <1>3, <2>3, <2>4, <3>1 DEF IInv, TypeOK, Flight
  <2>8. Flagged'
    BY <1>0, <1>2, <1>3, <2>3, <2>4, FlagStays DEF IInv, Flight
  <2> QED
    BY <1>2, <2>5, <2>6, <2>7, <2>8, OwningKeeps
<1>4. CASE /\ Leave(t) /\ lock' = None /\ UNCHANGED <<disk, faults>>
           /\ cut' = (cut \/ disk # old) /\ missed' = (missed \/ disk # old)
  <2>1. cut' \in BOOLEAN /\ missed' \in BOOLEAN /\ (~missed' => ~missed /\ disk = old)
    BY <1>4, Zenon DEF IInv, TypeOK
  <2>2. wins' \in 0..1 /\ (wins' > 0 => HasFlag(disk))
    BY <1>2 DEF IInv, TypeOK, Flagged
  <2>3. up /\ ~torn' /\ ~missed' => cache' = Effective(disk)
    BY <1>0, <1>2, <2>1 DEF IInv, CacheFollows, Published
  <2> QED
    BY <1>0, <1>2, <1>4, <2>1, <2>2, <2>3, ReleaseKeeps DEF IInv, TypeOK
<1> QED
  BY <1>1, <1>3, <1>4

\* What is verified is the whole group.
LEMMA VerifiedIsWhole ==
  ASSUME IInv, NEW t \in Threads, pc[t] = "verify"
  PROVE  /\ lock = t /\ lock # None /\ up
         /\ \A f \in DOMAIN new : disk[f] = Rendered(f)
         /\ disk = [f \in Files |-> IF f \in DOMAIN new THEN Rendered(f) ELSE old[f]]
         /\ kind = "onboard" => HasFlag(disk)
<1>1. lock = t /\ lock # None /\ up
  BY OwnerIs DEF Working
<1>2. \A f \in DOMAIN new : disk[f] = Rendered(f)
  BY <1>1 DEF IInv, Flight
<1>3. disk = [f \in Files |-> IF f \in DOMAIN new THEN Rendered(f) ELSE old[f]]
  <2>1. disk = [f \in Files |-> disk[f]] /\ \A f \in Files \ DOMAIN new : disk[f] = old[f]
    BY <1>1 DEF IInv, TypeOK, IsLayer, Flight
  <2> QED
    BY <1>2, <2>1
<1>4. kind = "onboard" => HasFlag(disk)
  BY <1>2 DEF IInv, Flagged, HasFlag, Rendered, Over
<1> QED
  BY <1>1, <1>2, <1>3, <1>4

LEMMA VerifyKeeps == ASSUME IInv, NEW t \in Threads, Verify(t) PROVE IInv'
<1>0. /\ lock = t /\ lock # None /\ up /\ pc[t] = "verify" /\ pc[t] \in Working
      /\ kind = "onboard" => HasFlag(disk)
  BY VerifiedIsWhole DEF Verify, Working
<1>1. UNCHANGED <<base, disk, up, torn, cut, crashes>> /\ faults' \in 0..MaxFaults
  BY BoundAssumption DEF Verify, Fault, IInv, TypeOK
<1>2. CASE /\ Leave(t) /\ lock' = None /\ cache' = Kept(disk) /\ missed' = FALSE
           /\ wins' = IF kind = "onboard" /\ wins < 2 THEN wins + 1 ELSE wins
  <2>1. /\ DOMAIN cache' = AllKeys /\ cache'["name"] \in AllNames /\ cache'["pass"] \in AllPasswords
        /\ cache' = Effective(disk)
    BY <1>2, EffectiveTyped DEF IInv, TypeOK, Kept
  <2>2. wins' \in 0..1 /\ (wins' > 0 => HasFlag(disk))
    BY <1>0, <1>2 DEF IInv, TypeOK, Flagged
  <2> QED
    BY <1>0, <1>1, <1>2, <2>1, <2>2, ReleaseKeeps DEF IInv, TypeOK
<1>3. CASE Leave(t) /\ lock' = None /\ missed' = TRUE /\ UNCHANGED <<cache, wins>>
  <2>1. wins' \in 0..1 /\ (wins' > 0 => HasFlag(disk))
    BY <1>3 DEF IInv, TypeOK, Flagged
  <2> QED
    BY <1>0, <1>1, <1>3, <2>1, ReleaseKeeps DEF IInv, TypeOK
<1>4. CASE pc' = [pc EXCEPT ![t] = "undo"] /\ UNCHANGED <<lock, cache, missed, stale, tx, wins>>
  <2>0. UNCHANGED <<lock, cache, missed, stale, kind, new, old, todo, attempted, wins>>
    BY <1>4 DEF tx
  <2>1. TypeOK'
    BY <1>1, <1>4, <2>0 DEF IInv, TypeOK, Labels, IsLayer, IsContent
  <2>2. Owning(t)
    BY <1>0, <1>1, <1>4, <2>0 DEF Owning, Working, IInv, TypeOK
  <2>3. Flight'
    BY <1>0, <1>1, <1>4, <2>0 DEF IInv, TypeOK, Flight, Rendered
  <2>4. Flagged'
    BY <1>0, <1>1, <2>0 DEF IInv, Flagged, HasFlag, Published
  <2> QED
    BY <1>1, <2>1, <2>2, <2>3, <2>4, OwningKeeps
<1> QED
  BY <1>2, <1>3, <1>4 DEF Verify

LEMMA UndoFileKeeps == ASSUME IInv, NEW t \in Threads, UndoFile(t) PROVE IInv'
<1>0. lock = t /\ lock # None /\ up /\ pc[t] = "undo" /\ pc[t] \in Working
  BY OwnerIs DEF UndoFile, Working
<1>1. PICK f \in attempted :
       /\ \/ disk' = [disk EXCEPT ![f] = old[f]] /\ UNCHANGED <<torn, faults>>
          \/ Fault /\ UNCHANGED disk /\ torn' = (torn \/ disk[f] # old[f])
       /\ attempted' = attempted \ {f}
  BY DEF UndoFile
<1>2. UNCHANGED <<base, cache, up, lock, pc, stale, kind, new, old, todo, cut, missed, wins, crashes>>
  BY DEF UndoFile
<1>3. f \in DOMAIN new /\ f \in Files /\ IsContent(f, old[f])
  BY <1>0, FlightTyped DEF IInv, Flight
<1>4. /\ disk' = [g \in Files |-> disk'[g]]
      /\ \A g \in Files \ {f} : disk'[g] = disk[g]
      /\ disk'[f] = old[f] \/ (disk' = disk /\ torn' = (torn \/ disk[f] # old[f]))
  BY <1>1, <1>3 DEF IInv, TypeOK, IsLayer
<1>5. TypeOK'
  <2>1. IsLayer(disk')
    <3>1. \A g \in Files : IsContent(g, disk'[g])
      BY <1>3, <1>4 DEF IInv, TypeOK, IsLayer
    <3> QED
      BY <1>4, <3>1 DEF IsLayer
  <2>2. faults' \in 0..MaxFaults
    BY <1>1, BoundAssumption DEF IInv, TypeOK, Fault
  <2>3. torn' \in BOOLEAN
    BY <1>1, Zenon DEF IInv, TypeOK
  <2> QED
    BY <1>1, <1>2, <2>1, <2>2, <2>3 DEF IInv, TypeOK, Labels, IsLayer, IsContent
<1>6. Owning(t)
  BY <1>0, <1>2 DEF Owning
<1>7. Flight'
  <2>1. \A g \in Files : Rendered(g)' = Rendered(g)
    BY <1>2 DEF Rendered
  <2>2. torn => torn'
    BY <1>1
  <2> QED
    BY <1>0, <1>1, <1>2, <1>3, <1>4, <2>1, <2>2 DEF IInv, TypeOK, Flight
<1>8. Flagged'
  <2>1. \A g \in Files : disk'[g] \in {disk[g], old[g], Rendered(g)}
    BY <1>3, <1>4
  <2>2. \A g \in Files \ DOMAIN new : disk'[g] = disk[g]
    BY <1>3, <1>4
  <2> QED
    BY <1>0, <1>2, <2>1, <2>2, FlagStays
<1> QED
  <2>1. torn => torn'
    BY <1>1, Zenon
  <2> QED
    BY <1>5, <1>6, <1>7, <1>8, <2>1, OwningKeeps

\* A rollback that is through has put every file back, or is known to be torn.
LEMMA UndoneKeeps == ASSUME IInv, NEW t \in Threads, Undone(t) PROVE IInv'
<1>0. lock = t /\ lock # None /\ up
  BY OwnerIs DEF Undone, Working
<1>1. /\ attempted = {} /\ Leave(t) /\ lock' = None
      /\ UNCHANGED <<base, disk, cache, up, torn, cut, missed, wins, faults, crashes>>
  BY DEF Undone
<1>2. ~torn => disk = old
  BY <1>0, <1>1 DEF IInv, Flight, TypeOK, IsLayer
<1> QED
  BY <1>0, <1>1, <1>2, ReleaseKeeps DEF IInv, TypeOK, Flagged, CacheFollows, Published

-----------------------------------------------------------------------------
(* The panel's process.                                                    *)

LEMMA CrashKeeps == ASSUME IInv, Crash PROVE IInv'
<1>0. /\ UNCHANGED <<base, disk, cut, wins, faults>> /\ up' = FALSE /\ cache' = base /\ missed' = FALSE
      /\ lock' = None /\ torn' = (torn \/ Partial) /\ kind' = "none"
      /\ new' = Nothing /\ old' = Nothing /\ todo' = {} /\ attempted' = {}
      /\ pc' = [t \in Threads |-> "idle"] /\ stale' = [t \in Threads |-> ""]
      /\ crashes < MaxCrashes /\ crashes' = crashes + 1
  BY DEF Crash
<1>1. TypeOK'
  <2>1. base \in Bases /\ IsLayer(disk)
    BY DEF IInv, TypeOK
  <2>2. DOMAIN base = AllKeys /\ base["name"] \in AllNames /\ base["pass"] \in AllPasswords
    BY <2>1, BaseAssumption DEF AllNames, AllPasswords
  <2>3. crashes' \in 0..MaxCrashes /\ torn' \in BOOLEAN /\ DOMAIN new' = {}
    <3>1. torn' \in BOOLEAN
      BY <1>0, Zenon DEF IInv, TypeOK
    <3>2. crashes' \in 0..MaxCrashes
      <4>1. crashes < MaxCrashes /\ crashes' = crashes + 1
        BY <1>0
      <4> QED
        BY <4>1, BoundAssumption DEF IInv, TypeOK
    <3>3. DOMAIN new' = {}
      BY <1>0 DEF Nothing
    <3> QED
      BY <3>1, <3>2, <3>3
  <2> QED
    BY <1>0, <2>1, <2>2, <2>3 DEF IInv, TypeOK, Labels, AllPasswords, IsLayer, IsContent
<1>2. LockScoped'
  BY <1>0 DEF LockScoped, Working
<1>3. Flight' /\ CacheFollows'
  BY <1>0 DEF Flight, CacheFollows
<1>4. Flagged'
  BY <1>0 DEF Flagged, Published, HasFlag, IInv
<1> QED
  BY <1>1, <1>2, <1>3, <1>4 DEF IInv

LEMMA RestartKeeps == ASSUME IInv, Restart PROVE IInv'
<1>0. /\ UNCHANGED <<base, disk, lock, pc, stale, kind, new, old, todo, attempted, torn, cut, wins, faults, crashes>>
      /\ ~up /\ up' = TRUE /\ cache' = Effective(disk) /\ missed' = FALSE
  BY DEF Restart, tx
<1>1. lock = None
  BY <1>0 DEF IInv, LockScoped
<1>2. TypeOK'
  <2>1. DOMAIN cache' = AllKeys /\ cache'["name"] \in AllNames /\ cache'["pass"] \in AllPasswords
    BY <1>0, EffectiveTyped DEF IInv, TypeOK
  <2> QED
    BY <1>0, <2>1 DEF IInv, TypeOK, Labels, IsLayer, IsContent
<1>3. LockScoped'
  BY <1>0, <1>1 DEF IInv, LockScoped
<1>4. Flight' /\ Flagged'
  BY <1>0, <1>1 DEF IInv, Flight, Flagged, HasFlag, Published
<1>5. CacheFollows'
  BY <1>0, <1>1 DEF CacheFollows, Published, Effective
<1> QED
  BY <1>2, <1>3, <1>4, <1>5 DEF IInv

-----------------------------------------------------------------------------
(* The invariant holds.                                                    *)

LEMMA Initially == Init => IInv
<1> SUFFICES ASSUME Init PROVE IInv
  OBVIOUS
<1>1. base \in Bases /\ DOMAIN base = AllKeys /\ base["name"] \in AllNames /\ base["pass"] \in AllPasswords
  BY BaseAssumption DEF Init, AllNames, AllPasswords
<1>2. IsLayer(disk)
  BY DEF Init, IsLayer, IsContent, Nothing, Files
<1>0. wins = 0 /\ faults = 0 /\ crashes = 0 /\ kind = "none"
  BY DEF Init
<1>3. TypeOK
  <2>1. DOMAIN new = {}
    BY DEF Init, Nothing
  <2>2. stale \in [Threads -> AllPasswords] /\ pc \in [Threads -> Labels]
    BY DEF Init, AllPasswords, Labels
  <2>3. faults \in 0..MaxFaults /\ crashes \in 0..MaxCrashes /\ wins \in 0..2
    BY <1>0, BoundAssumption
  <2> QED
    BY <1>1, <1>2, <2>1, <2>2, <2>3 DEF Init, TypeOK
<1>4. LockScoped /\ Flight /\ CacheFollows
  BY DEF Init, LockScoped, Flight, CacheFollows, Working
<1>5. Flagged
  BY <1>0 DEF Flagged
<1> QED
  BY <1>3, <1>4, <1>5 DEF IInv

LEMMA Stuttering == IInv /\ UNCHANGED vars => IInv'
<1> SUFFICES ASSUME IInv, UNCHANGED vars PROVE IInv'
  OBVIOUS
<1>0. UNCHANGED <<base, disk, cache, up, lock, pc, stale, kind, new, old, todo, attempted, torn, cut, missed, wins,
                  faults, crashes>>
  BY DEF vars, tx
<1>1. TypeOK' /\ LockScoped' /\ CacheFollows'
  BY <1>0 DEF IInv, TypeOK, IsLayer, IsContent, LockScoped, CacheFollows, Published, Effective
<1>2. Flight' /\ Flagged'
  BY <1>0 DEF IInv, Flight, Flagged, HasFlag, Published, Rendered
<1> QED
  BY <1>1, <1>2 DEF IInv

\* No step of a request thread, of the panel's process or of a kill breaks the invariant.
THEOREM Inductive == IInv /\ [Next]_vars => IInv'
<1> SUFFICES ASSUME IInv, [Next]_vars PROVE IInv'
  OBVIOUS
<1>1. ASSUME NEW t \in Threads, Request(t) PROVE IInv'
  BY <1>1, ArriveKeeps, ReadPasswordKeeps, CheckOnboardedKeeps, BusyKeeps, EnterKeeps, BackUpKeeps,
     WriteFileKeeps, VerifyKeeps, UndoFileKeeps, UndoneKeeps DEF Request
<1>2. CASE Crash
  BY <1>2, CrashKeeps
<1>3. CASE Restart
  BY <1>3, RestartKeeps
<1>4. CASE UNCHANGED vars
  BY <1>4, Stuttering
<1> QED
  BY <1>1, <1>2, <1>3, <1>4 DEF Next

THEOREM Invariant == Spec => []IInv
<1> QED
  BY Initially, Inductive, PTL DEF Spec

\* TypeOK: of the panel's memory, the protected layer and the files, under every interleaving
\* of request threads, failures and kills.
THEOREM TypeCorrect == Spec => []TypeOK
<1>1. IInv => TypeOK
  BY DEF IInv
<1> QED
  BY <1>1, Invariant, PTL

\* WizardOnce: complete_onboarding succeeds at most once.
THEOREM WizardFirst == Spec => []WizardOnce
<1>1. IInv => WizardOnce
  BY DEF IInv, Flagged, WizardOnce
<1> QED
  BY <1>1, Invariant, PTL

\* CacheCurrent: while no group is being published WebDependencies.config is what current()
\* would read, unless the panel has not read what it published last: the parse that follows the
\* verification failed, or the group was cut short.
THEOREM CacheIsCurrent == Spec => []CacheCurrent
<1>1. IInv => CacheCurrent
  BY DEF IInv, CacheFollows, CacheCurrent, Published
<1> QED
  BY <1>1, Invariant, PTL

-----------------------------------------------------------------------------
(* What cannot be encoded never gets into a file.                          *)

\* What a step leaves in a file was there, is put back there, or has been encoded.
LEMMA EncodedStep ==
  ASSUME IInv, Encoded, [Next]_vars
  PROVE  Encoded'
<1>1. ASSUME NEW t \in Threads, Arrive(t) \/ ReadPassword(t) \/ CheckOnboarded(t) \/ Busy(t)
      PROVE  UNCHANGED <<lock, old, disk>>
  BY <1>1 DEF Arrive, ReadPassword, CheckOnboarded, Busy, tx
<1>2. ASSUME NEW t \in Threads, Enter(t)
      PROVE  disk' = disk /\ (lock' = None \/ old' = disk)
  BY <1>2 DEF Enter
<1>3. ASSUME NEW t \in Threads, BackUp(t) \/ Verify(t) \/ Undone(t)
      PROVE  disk' = disk /\ (UNCHANGED <<lock, old>> \/ lock' = None)
  BY <1>3 DEF BackUp, Verify, Undone, tx
<1>4. ASSUME NEW t \in Threads, WriteFile(t) PROVE Encoded'
  <2>1. lock # None /\ lock \in Threads
    BY <1>4, OwnerIs DEF WriteFile, Working, IInv, TypeOK
  <2>2. CASE disk' = disk /\ lock' = None
    BY <2>2 DEF Encoded
  <2>3. ASSUME NEW f \in todo, ~Escapes(f), UNCHANGED <<lock, old>>,
               disk' \in {disk, [disk EXCEPT ![f] = Rendered(f)]}
        PROVE  Encoded'
    <3>1. f \in Files /\ f \in DOMAIN new /\ disk = [g \in Files |-> disk[g]]
      BY <2>1 DEF IInv, TypeOK, IsLayer, Flight
    <3>2. Encodable(Rendered(f))
      BY <2>1, <2>3, <3>1 DEF Escapes, Encodable, Encoded, Rendered, Over
    <3>3. \A g \in Files : disk'[g] \in {disk[g], Rendered(f)}
      BY <2>3, <3>1
    <3> QED
      BY <2>1, <2>3, <3>2, <3>3 DEF Encoded
  <2> QED
    BY <1>4, <2>2, <2>3 DEF WriteFile
<1>5. ASSUME NEW t \in Threads, UndoFile(t) PROVE Encoded'
  <2>1. lock # None /\ UNCHANGED <<lock, old>>
    BY <1>5, OwnerIs DEF UndoFile, Working
  <2>2. \A g \in Files : disk'[g] \in {disk[g], old[g]}
    BY <1>5 DEF UndoFile, IInv, TypeOK, IsLayer
  <2> QED
    BY <2>1, <2>2 DEF Encoded
<1>6. CASE Crash \/ Restart \/ UNCHANGED vars
  <2>1. disk' = disk /\ (UNCHANGED <<lock, old>> \/ lock' = None)
    BY <1>6 DEF Crash, Restart, vars, tx
  <2> QED
    BY <2>1 DEF Encoded
<1> QED
  BY <1>1, <1>2, <1>3, <1>4, <1>5, <1>6 DEF Next, Request, Encoded

\* The writer and its rollback put nothing on disk that is not text.
LEMMA AlwaysEncoded == Spec => []Encoded
<1>1. Init => Encoded
  BY DEF Init, Encoded, Encodable, Nothing
<1> QED
  BY <1>1, EncodedStep, Invariant, PTL DEF Spec

-----------------------------------------------------------------------------
(* The files as they count.                                                *)

\* The files after a group.
Laid(d, g) == [f \in Files |-> IF f \in DOMAIN g THEN Over(g[f], d[f]) ELSE d[f]]

\* A group has come into force: it is on disk as a whole and was readable.
Committed == /\ lock # None /\ new \in Publishable /\ Loads(disk) /\ UNCHANGED cut
             /\ Published' = disk /\ disk = Laid(old, new)

\* A group has been cut short: some of its files are on disk, and that is known.
CutOff == /\ lock # None /\ disk # old /\ ~torn /\ Part(new, attempted) \in Parts /\ cut'
          /\ Published' = disk /\ disk = Laid(old, Part(new, attempted))

\* What is on disk as a whole can be published.
LEMMA WholeIsPublishable ==
  ASSUME IInv, Encoded, lock # None,
         disk = [f \in Files |-> IF f \in DOMAIN new THEN Rendered(f) ELSE old[f]]
  PROVE  new \in Publishable /\ disk = Laid(old, new)
<1>1. ASSUME NEW f \in DOMAIN new PROVE Encodable(new[f])
  <2>1. f \in Files /\ disk[f] = Over(new[f], old[f]) /\ Encodable(disk[f])
    BY DEF IInv, TypeOK, Rendered, Encoded
  <2> QED
    BY <2>1 DEF Encodable, Over
<1>2. disk = Laid(old, new)
  BY DEF Laid, Rendered
<1> QED
  BY <1>1, <1>2 DEF Publishable, Whole, IInv, Flight

\* What an exception that passes through leaves: the files that were written before it.
LEMMA EscapeCuts ==
  ASSUME IInv, Encoded, NEW t \in Threads, WriteFile(t), lock' = None, ~torn
  PROVE  (disk = old /\ cut' = cut /\ Published' = Published) \/ CutOff
<1>0. lock = t /\ lock # None /\ pc[lock] = "write"
  BY OwnerIs DEF WriteFile, Working
<1>1. PICK f \in todo : Escapes(f) /\ disk' = disk /\ cut' = (cut \/ disk # old)
  BY <1>0 DEF WriteFile
<1>2. Published' = disk /\ Published = old
  BY <1>0, <1>1 DEF Published
<1>3. CASE disk = old
  BY <1>1, <1>2, <1>3 DEF IInv, TypeOK
<1>4. CASE disk # old
  <2>1. /\ attempted \subseteq DOMAIN new /\ DOMAIN new \subseteq Files /\ f \in DOMAIN new /\ new \in Groups
        /\ \A g \in attempted : disk[g] = Over(new[g], old[g])
        /\ \A g \in Files \ attempted : disk[g] = old[g]
        /\ disk = [g \in Files |-> disk[g]]
    BY <1>0 DEF IInv, TypeOK, IsLayer, Flight, Rendered
  <2>2. \A g \in attempted : Encodable(new[g])
    BY <2>1 DEF Encoded, Encodable, Over
  <2>3. ~Whole(new)
    BY <1>1, <2>1 DEF Escapes, Whole
  <2>4. Part(new, attempted) \in Parts
    BY <2>1, <2>2, <2>3 DEF Parts
  <2>5. disk = Laid(old, Part(new, attempted))
    BY <2>1 DEF Laid, Part
  <2>6. cut'
    BY <1>1, <1>4
  <2> QED
    BY <1>0, <1>2, <1>4, <2>4, <2>5, <2>6 DEF CutOff
<1> QED
  BY <1>3, <1>4

\* Whatever a step does, the files as they count stay, or become one whole group newer, or a group
\* is known to have been cut short, or the disk is known to be torn.
LEMMA PublishedStep ==
  ASSUME IInv, Encoded, [Next]_vars
  PROVE  /\ base' = base /\ (torn => torn') /\ (cut => cut')
         /\ torn' \/ (Published' = Published /\ cut' = cut) \/ Committed \/ CutOff
<1>1. ASSUME NEW t \in Threads, Arrive(t) \/ ReadPassword(t) \/ CheckOnboarded(t) \/ Busy(t)
      PROVE  UNCHANGED <<base, torn, cut, lock, old, disk>>
  BY <1>1 DEF Arrive, ReadPassword, CheckOnboarded, Busy, tx
<1>2. ASSUME NEW t \in Threads, Enter(t)
      PROVE  UNCHANGED <<base, torn, cut, disk>> /\ lock = None /\ (lock' = None \/ old' = disk)
  BY <1>2 DEF Enter
<1>3. ASSUME NEW t \in Threads, BackUp(t)
      PROVE  UNCHANGED <<base, torn, cut, disk>> /\ (UNCHANGED <<lock, old>> \/ (lock' = None /\ (torn \/ disk = old)))
  <2>1. lock = t /\ lock # None /\ pc[lock] = "backup"
    BY <1>3, OwnerIs DEF BackUp, Working
  <2>2. torn \/ disk = old
    BY <2>1 DEF IInv, Flight, TypeOK, IsLayer
  <2> QED
    BY <1>3, <2>2 DEF BackUp, tx
<1>4. ASSUME NEW t \in Threads, WriteFile(t)
      PROVE  /\ UNCHANGED <<base, torn>> /\ (cut => cut')
             /\ \/ UNCHANGED <<lock, old, cut>> /\ lock # None
                \/ torn \/ (Published' = Published /\ cut' = cut) \/ CutOff
  <2>1. UNCHANGED <<base, torn>> /\ lock # None
    BY <1>4, OwnerIs DEF WriteFile, Working
  <2>2. UNCHANGED <<lock, old, cut>> \/ (lock' = None /\ cut' = (cut \/ disk # old))
    BY <1>4 DEF WriteFile
  <2>3. cut => cut'
    BY <2>2, Zenon
  <2> QED
    BY <1>4, <2>1, <2>2, <2>3, EscapeCuts
<1>5. ASSUME NEW t \in Threads, Verify(t)
      PROVE  UNCHANGED <<base, torn, cut, disk>> /\ (UNCHANGED <<lock, old>> \/ Committed)
  <2>1. /\ lock # None /\ UNCHANGED <<base, torn, cut, disk>> /\ new \in Publishable
        /\ disk = Laid(old, new)
    BY <1>5, VerifiedIsWhole, WholeIsPublishable DEF Verify
  <2>2. CASE Verified /\ lock' = None
    BY <2>1, <2>2 DEF Verified, Committed, Published
  <2>3. CASE UNCHANGED <<lock, tx>>
    BY <2>1, <2>3 DEF tx
  <2> QED
    BY <1>5, <2>1, <2>2, <2>3 DEF Verify
<1>6. ASSUME NEW t \in Threads, UndoFile(t)
      PROVE  UNCHANGED <<base, lock, old, cut>> /\ lock # None /\ (torn => torn')
  <2>1. torn => torn'
    BY <1>6, Zenon DEF UndoFile
  <2> QED
    BY <1>6, <2>1, OwnerIs DEF UndoFile, Working
<1>7. ASSUME NEW t \in Threads, Undone(t)
      PROVE  UNCHANGED <<base, torn, cut, disk>> /\ lock' = None /\ lock # None /\ (torn \/ disk = old)
  <2>1. lock = t /\ lock # None /\ attempted = {}
    BY <1>7, OwnerIs DEF Undone, Working
  <2>2. torn \/ disk = old
    BY <2>1 DEF IInv, Flight, TypeOK, IsLayer
  <2> QED
    BY <1>7, <2>1, <2>2 DEF Undone
<1>8. CASE Crash
  <2>1. UNCHANGED <<base, disk, cut>> /\ lock' = None /\ torn' = (torn \/ Partial)
    BY <1>8 DEF Crash
  <2>2. (torn => torn') /\ (Partial => torn')
    BY <2>1, Zenon
  <2>3. lock # None /\ disk # old /\ ~Partial => Complete /\ Loads(disk)
    BY Zenon DEF Partial
  <2>4. lock # None /\ Complete => new \in Publishable /\ disk = Laid(old, new)
    BY WholeIsPublishable DEF Complete
  <2> QED
    BY <2>1, <2>2, <2>3, <2>4 DEF Published, Committed
<1>9. CASE Restart \/ UNCHANGED vars
  BY <1>9 DEF Restart, vars, tx, Published
<1> QED
  BY <1>1, <1>2, <1>3, <1>4, <1>5, <1>6, <1>7, <1>8, <1>9 DEF Next, Request, Published

-----------------------------------------------------------------------------
(* The game can still be started.                                          *)

\* What the panel's own parser accepts the scripts refuse for the root's keys and passwords alone.
LEMMA StartableAfter ==
  ASSUME base \in Bases, NEW d, Startable(Blank), Loads(d), Presented(d)
  PROVE  Startable(d)
<1>1. /\ Effective(d)["admin"] = Effective(Blank)["admin"]
      /\ Effective(d)["passwordless"] = Effective(Blank)["passwordless"]
  BY Lookup DEF AllKeys, Keys, KeysOf
<1>2. CoreValid(Effective(d)) /\ Readable(d)
  BY DEF Loads
<1>3. /\ Effective(d)["name"] \notin {"", "reserved"} /\ IsSchedule(Effective(d)["time"])
      /\ Effective(d)["players"] \in Counts
  BY <1>2 DEF CoreValid, EditKeys, Accepted, IsText
<1>4. Preflight(Effective(Blank))
  BY DEF Startable
<1> QED
  BY <1>1, <1>2, <1>3, <1>4 DEF Startable, Preflight, ScriptsValid, CoreValid, Presented

\* The password while a group is on its way is the group's, or the one before it.
LEMMA PassAfter ==
  ASSUME IInv, Presented(old), Clean, lock # None
  PROVE  Presented(disk)
<1>1. "pass" \in Keys /\ FileOf["pass"] = "secrets" /\ "secrets" \in Files
  BY DEF Keys, KeysOf, FileOf, Files
<1>2. base \in Bases
  BY DEF IInv, TypeOK
<1>3. CASE disk["secrets"] = old["secrets"]
  BY <1>1, <1>2, <1>3, Lookup DEF Presented
<1>4. CASE "secrets" \in DOMAIN new /\ disk["secrets"] = Over(new["secrets"], old["secrets"])
  <2>2. CASE "pass" \in DOMAIN new["secrets"]
    BY <1>1, <1>2, <1>4, <2>2, Lookup DEF Over, Clean, Presented
  <2>3. CASE "pass" \notin DOMAIN new["secrets"]
    BY <1>1, <1>2, <1>4, <2>3, Lookup DEF Over, Presented
  <2> QED
    BY <2>2, <2>3
<1> QED
  BY <1>1, <1>3, <1>4 DEF IInv, Flight, Rendered

\* A request puts no template's password into a group, unless a user typed it.
LEMMA CleanEnter ==
  ASSUME "CHANGE_ME" \notin Passwords, IInv, NEW t \in Threads, Enter(t),
         Presented(Published), Clean
  PROVE  Clean'
<1> DEFINE c == Effective(disk)
<1>0. lock = None /\ Published = disk /\ c["pass"] \notin {"CHANGE_ME", "reserved"}
  BY DEF Enter, Published, Presented
<1> HIDE DEF c
<1>1. PICK r \in Requests(t) :
       \/ /\ Refused(r) \/ Group(r, c) = Nothing
          /\ IF Refused(r) THEN UNCHANGED <<cache, missed>> ELSE cache' = c /\ missed' = FALSE
          /\ Leave(t) /\ UNCHANGED lock
       \/ /\ ~Refused(r) /\ Group(r, c) # Nothing
          /\ lock' = t /\ pc' = [pc EXCEPT ![t] = "backup"] /\ stale' = [stale EXCEPT ![t] = ""]
          /\ kind' = r.kind /\ new' = ByFile(Group(r, c)) /\ todo' = DOMAIN new'
          /\ old' = disk /\ attempted' = {}
          /\ UNCHANGED <<cache, missed>>
  BY DEF Enter, c
<1>2. cache'["pass"] # "CHANGE_ME"
  BY <1>0, <1>1 DEF Clean
<1>3. \A s \in Threads : stale'[s] # "CHANGE_ME"
  <2>1. stale' = [stale EXCEPT ![t] = ""]
    BY <1>1 DEF Leave
  <2> QED
    BY <2>1 DEF Clean, IInv, TypeOK
<1>4. CASE Leave(t) /\ UNCHANGED lock
  BY <1>0, <1>2, <1>3, <1>4 DEF Clean
<1>5. CASE ~Refused(r) /\ new' = ByFile(Group(r, c))
  <2> DEFINE u == Group(r, c)
  <2>1. /\ DOMAIN u \subseteq Keys /\ \A k \in DOMAIN u : u[k] \in Written(k)
        /\ "pass" \in DOMAIN u => u["pass"] = r.pass /\ r.kind \in {"onboard", "network"} /\ IsPassword(r.pass)
    BY <1>5, GroupUpdates DEF IInv, c
  <2>2. r.kind \in {"onboard", "network"} => r.pass # "CHANGE_ME"
    BY RequestFields DEF IInv, Clean
  <2>3. "pass" \in DOMAIN u => u["pass"] \notin {"CHANGE_ME", "reserved"}
    BY <2>1, <2>2 DEF IsPassword
  <2>4. new' = ByFile(u)
    BY <1>5
  <2> HIDE DEF u
  <2>5. "secrets" \in DOMAIN new' /\ "pass" \in DOMAIN new'["secrets"]
          => "pass" \in DOMAIN u /\ new'["secrets"]["pass"] = u["pass"]
    BY <2>1, <2>4, ByFileHolds
  <2> QED
    BY <1>2, <1>3, <2>3, <2>5 DEF Clean
<1> QED
  BY <1>1, <1>4, <1>5

LEMMA CleanStep ==
  ASSUME "CHANGE_ME" \notin Passwords, IInv, [Next]_vars,
         Startable(Blank), Presented(Published), Clean
  PROVE  Clean'
<1> USE DEF IInv, TypeOK
<1>1. ASSUME NEW t \in Threads, Arrive(t) \/ ReadPassword(t) \/ CheckOnboarded(t) \/ Busy(t)
      PROVE  Clean'
  <2>1. UNCHANGED <<cache, lock, new>>
    BY <1>1 DEF Arrive, ReadPassword, CheckOnboarded, Busy, tx
  <2>2. stale' \in {stale, [stale EXCEPT ![t] = cache["pass"]], [stale EXCEPT ![t] = ""]}
    BY <1>1 DEF Arrive, ReadPassword, CheckOnboarded, Busy
  <2> QED
    BY <2>1, <2>2 DEF Clean
<1>2. ASSUME NEW t \in Threads, BackUp(t) \/ Undone(t) PROVE Clean'
  <2>1. UNCHANGED cache /\ (UNCHANGED <<lock, new, stale>> \/ (lock' = None /\ stale' = [stale EXCEPT ![t] = ""]))
    BY <1>2 DEF BackUp, Undone, Leave, tx
  <2> QED
    BY <2>1 DEF Clean
<1>3. ASSUME NEW t \in Threads, WriteFile(t) \/ UndoFile(t) PROVE Clean'
  <2>1. UNCHANGED cache /\ (UNCHANGED <<lock, new, stale>> \/ (lock' = None /\ stale' = [stale EXCEPT ![t] = ""]))
    BY <1>3 DEF WriteFile, UndoFile, Leave
  <2> QED
    BY <2>1 DEF Clean
<1>4. ASSUME NEW t \in Threads, Verify(t) PROVE Clean'
  <2>1. Effective(disk)["pass"] # "CHANGE_ME"
    BY <1>4, VerifiedIsWhole, PassAfter DEF Verify, Published, Presented
  <2>2. CASE Leave(t) /\ lock' = None /\ cache' \in {cache, Effective(disk)}
    <3>1. stale' = [stale EXCEPT ![t] = ""]
      BY <2>2 DEF Leave
    <3> QED
      BY <2>1, <2>2, <3>1 DEF Clean
  <2>3. CASE UNCHANGED <<lock, cache, stale, tx>>
    BY <2>3 DEF Clean, tx
  <2> QED
    BY <1>4, <2>2, <2>3 DEF Verify, Kept
<1>5. CASE Crash
  <2>1. cache' = base /\ lock' = None /\ stale' = [s \in Threads |-> ""]
    BY <1>5 DEF Crash
  <2>2. "pass" \in Keys /\ FileOf["pass"] \in Files /\ "pass" \notin DOMAIN Blank[FileOf["pass"]]
    BY KeyFile DEF Blank, Nothing, Keys, KeysOf
  <2>3. base["pass"] = Effective(Blank)["pass"]
    BY <2>2, Lookup
  <2>4. base["pass"] # "CHANGE_ME"
    BY <2>3 DEF Startable, Preflight
  <2> QED
    BY <2>1, <2>4 DEF Clean
<1>6. CASE Restart
  <2>1. cache' = Effective(disk) /\ UNCHANGED <<lock, new, stale>> /\ lock = None
    BY <1>6 DEF Restart, tx, LockScoped
  <2>2. Effective(disk)["pass"] # "CHANGE_ME"
    BY <2>1 DEF Published, Presented
  <2> QED
    BY <2>1, <2>2 DEF Clean
<1>7. CASE UNCHANGED vars
  BY <1>7 DEF vars, tx, Clean
<1> QED
  BY <1>1, <1>2, <1>3, <1>4, <1>5, <1>6, <1>7, CleanEnter DEF Next, Request

LEMMA PresentableKeeps ==
  ASSUME "CHANGE_ME" \notin Passwords, IInv, Encoded, Presentable, [Next]_vars
  PROVE  Presentable'
<1>1. /\ base' = base /\ (torn => torn') /\ (cut => cut')
      /\ torn' \/ (Published' = Published /\ cut' = cut) \/ Committed \/ CutOff
  BY PublishedStep
<1> SUFFICES ASSUME Startable(Blank), ~torn, ~torn'
             PROVE  /\ Presented(Published)' /\ Clean'
                    /\ (cut => Loads(Published))' => Startable(Published)'
  BY <1>1 DEF Presentable, Startable, Effective, Blank
<1>3. Presented(Published) /\ Clean /\ ((cut => Loads(Published)) => Startable(Published))
  BY DEF Presentable
<1>4. CASE Published' = Published /\ cut' = cut
  <2>1. Effective(Published)' = Effective(Published)
    BY <1>1, <1>4 DEF Effective
  <2> QED
    BY <1>3, <1>4, <2>1, CleanStep DEF Startable, Presented, Loads
<1>5. CASE Committed \/ CutOff
  <2>1. Published' = disk /\ Effective(Published)' = Effective(disk) /\ lock # None
    BY <1>1, <1>5 DEF Committed, CutOff, Effective
  <2>2. Presented(disk)
    BY <1>3, <2>1, PassAfter DEF Published
  <2>3. Loads(disk) => Startable(disk)
    BY <2>2, StartableAfter DEF IInv, TypeOK
  <2>4. /\ Presented(Published)' = Presented(disk) /\ Startable(Published)' = Startable(disk)
        /\ Loads(Published)' = Loads(disk)
    BY <2>1 DEF Presented, Startable, Loads
  <2>5. (cut => Loads(Published))' => Loads(disk)
    BY <1>5, <2>4 DEF Committed, CutOff
  <2> QED
    BY <1>3, <2>2, <2>3, <2>4, <2>5, CleanStep
<1> QED
  BY <1>1, <1>4, <1>5

\* StaysStartable: a request that succeeds, one that is rolled back, and one that is cut short if
\* load_config can still read what it left, leaves the scripts able to render the game's settings if
\* root's own files did, as long as no user gives the first-run
\* wizard the template's text for a password (complete_onboarding would take it).
THEOREM AlwaysStartable ==
  ASSUME "CHANGE_ME" \notin Passwords
  PROVE  Spec => []StaysStartable
<1>1. Init => Presentable
  <2> SUFFICES ASSUME Init, Startable(Blank) PROVE Startable(Published) /\ Presented(Published) /\ Clean
    BY DEF Presentable
  <2>1. Published = Blank /\ lock = None /\ cache = base /\ base \in Bases /\ stale = [t \in Threads |-> ""]
    BY DEF Init, Published, Blank
  <2>2. "pass" \in Keys /\ FileOf["pass"] \in Files /\ "pass" \notin DOMAIN Blank[FileOf["pass"]]
    BY KeyFile DEF Blank, Nothing, Keys, KeysOf
  <2>3. base["pass"] = Effective(Blank)["pass"]
    BY <2>1, <2>2, Lookup
  <2>4. base["pass"] # "CHANGE_ME" /\ Presented(Blank)
    BY <2>3 DEF Startable, Preflight, Presented
  <2> QED
    BY <2>1, <2>4 DEF Clean
<1>2. IInv /\ Encoded /\ Presentable /\ [Next]_vars => Presentable'
  BY PresentableKeeps
<1>3. Presentable => StaysStartable
  BY DEF Presentable, StaysStartable, Published, Blank
<1> QED
  BY <1>1, <1>2, <1>3, Invariant, AlwaysEncoded, PTL DEF Spec

-----------------------------------------------------------------------------
(* Refinement.                                                             *)

\* Every step is a whole group, one cut short, a tear, or nothing, to the atomic store.
LEMMA StepsRefine ==
  IInv /\ Encoded /\ [Next]_vars => [Atomic!Commit \/ Atomic!CutShort \/ Atomic!Tear]_(Atomic!vars)
<1> SUFFICES ASSUME IInv, Encoded, [Next]_vars
             PROVE  [Atomic!Commit \/ Atomic!CutShort \/ Atomic!Tear]_(Atomic!vars)
  OBVIOUS
<1>1. (torn => torn') /\ (torn' \/ (Published' = Published /\ cut' = cut) \/ Committed \/ CutOff)
  BY PublishedStep
<1>2. torn \in BOOLEAN /\ torn' \in BOOLEAN /\ cut \in BOOLEAN /\ cut' \in BOOLEAN
  BY Inductive DEF IInv, TypeOK
<1>3. CASE torn'
  BY <1>2, <1>3 DEF Atomic!Tear
<1>4. CASE ~torn' /\ Published' = Published /\ cut' = cut
  BY <1>1, <1>2, <1>4 DEF Atomic!vars
<1>5. CASE ~torn' /\ Published' # Published /\ Committed
  <2>1. Published' = Atomic!Merged(Published, new)
    BY <1>5 DEF Committed, Published, Laid, Atomic!Merged, Atomic!Over, Over
  <2>2. ~torn /\ torn' = torn /\ cut' = cut /\ new \in Publishable
    BY <1>1, <1>2, <1>5 DEF Committed
  <2> QED
    BY <1>5, <2>1, <2>2 DEF Atomic!Commit
<1>6. CASE ~torn' /\ CutOff
  <2>1. Published' = Atomic!Merged(Published, Part(new, attempted))
    BY <1>6 DEF CutOff, Published, Laid, Atomic!Merged, Atomic!Over, Over
  <2>2. ~torn /\ torn' = torn /\ cut' = TRUE /\ Published' # Published /\ Part(new, attempted) \in Parts
    BY <1>1, <1>2, <1>6 DEF CutOff, Published
  <2> QED
    BY <1>6, <2>1, <2>2 DEF Atomic!CutShort
<1>7. CASE ~torn' /\ Published' = Published /\ Committed
  BY <1>1, <1>2, <1>7 DEF Committed, Atomic!vars
<1> QED
  BY <1>1, <1>3, <1>4, <1>5, <1>6, <1>7

\* ImplementsAtomic: to its callers _publish_editable is a store that changes a whole group of
\* updates at once, until a rollback fails or a kill falls into the middle of a group, except that
\* a group with a text that cannot be encoded leaves the files written before that one.
THEOREM GroupsAreAtomic == Spec => ImplementsAtomic
<1>1. Init => Atomic!Init
  BY DEF Init, Atomic!Init
<1> QED
  BY <1>1, Invariant, AlwaysEncoded, StepsRefine, PTL DEF Spec, ImplementsAtomic, Atomic!Spec

\* The panel's users give it only what can be encoded.
OnlyText == \A k \in Keys : "surrogate" \notin Written(k)

LEMMA NothingCutStep ==
  ASSUME OnlyText, IInv, [Next]_vars, ~cut
  PROVE  ~cut'
<1>1. ASSUME NEW t \in Threads, WriteFile(t) PROVE cut' = cut
  <2>1. lock # None
    BY <1>1, OwnerIs DEF WriteFile, Working
  <2>2. ASSUME NEW f \in todo PROVE ~Escapes(f)
    <3>1. f \in DOMAIN new /\ f \in Files /\ IsContent(f, new[f])
      BY <2>1 DEF IInv, TypeOK, Flight
    <3> QED
      BY <3>1, KeyFile DEF IsContent, Escapes, Encodable, OnlyText
  <2> QED
    BY <1>1, <2>2 DEF WriteFile
<1>2. ASSUME NEW t \in Threads, Request(t), ~WriteFile(t) PROVE cut' = cut
  BY <1>2 DEF Request, Arrive, ReadPassword, CheckOnboarded, Busy, Enter, BackUp, Verify, UndoFile, Undone
<1> QED
  BY <1>1, <1>2 DEF Next, Crash, Restart, vars

\* ImplementsWhole, which the code does not keep in general, holds as long as nobody gives the panel
\* a text that cannot be encoded: the exception that passes the except clause of _publish_editable
\* is all that can leave a part of a group, short of a failed rollback and a kill.
THEOREM GroupsAreWhole ==
  ASSUME OnlyText
  PROVE  Spec => ImplementsWhole
<1>1. Init => ~cut /\ AtomicWhole!Init
  BY DEF Init, AtomicWhole!Init
<1>2. IInv /\ ~cut /\ [Next]_vars => ~cut'
  BY NothingCutStep
<1>3. IInv /\ Encoded /\ ~cut /\ ~cut' /\ [Next]_vars
        => [AtomicWhole!Commit \/ AtomicWhole!CutShort \/ AtomicWhole!Tear]_(AtomicWhole!vars)
  <2> SUFFICES ASSUME IInv, Encoded, ~cut, ~cut', [Next]_vars
               PROVE  [AtomicWhole!Commit \/ AtomicWhole!CutShort \/ AtomicWhole!Tear]_(AtomicWhole!vars)
    OBVIOUS
  <2>1. [Atomic!Commit \/ Atomic!CutShort \/ Atomic!Tear]_(Atomic!vars)
    BY StepsRefine
  <2>2. CASE Atomic!Commit
    BY <2>2 DEF Atomic!Commit, AtomicWhole!Commit, Atomic!Merged, AtomicWhole!Merged, Atomic!Over, AtomicWhole!Over
  <2>3. CASE Atomic!CutShort
    BY <2>3 DEF Atomic!CutShort
  <2>4. CASE Atomic!Tear
    BY <2>4 DEF Atomic!Tear, AtomicWhole!Tear
  <2>5. CASE UNCHANGED Atomic!vars
    BY <2>5 DEF Atomic!vars, AtomicWhole!vars
  <2> QED
    BY <2>1, <2>2, <2>3, <2>4, <2>5
<1> QED
  BY <1>1, <1>2, <1>3, Invariant, AlwaysEncoded, PTL DEF Spec, ImplementsWhole, AtomicWhole!Spec

-----------------------------------------------------------------------------
(* A finished request leaves files the panel itself can read.              *)

\* AlwaysLoads, for every number of faults and kills, until a group is torn or cut short.
LoadsAgain == lock = None /\ ~torn /\ ~cut /\ Loads(Blank) => Loads(disk)

LEMMA LoadsStep ==
  ASSUME IInv, Encoded, [Next]_vars, ~torn /\ ~cut /\ Loads(Blank) => Loads(Published)
  PROVE  (~torn /\ ~cut /\ Loads(Blank) => Loads(Published))'
<1>1. /\ base' = base /\ (torn => torn') /\ (cut => cut')
      /\ torn' \/ Published' = Published \/ Committed \/ cut'
  BY PublishedStep DEF CutOff
<1>2. Effective(Blank)' = Effective(Blank)
  BY <1>1 DEF Effective, Blank
<1> SUFFICES ASSUME Loads(Blank), ~torn, ~torn', ~cut, ~cut' PROVE Loads(Published)'
  BY <1>1, <1>2 DEF Loads, Blank
<1>3. ASSUME Published' = Published PROVE Loads(Published)'
  <2>1. Effective(Published)' = Effective(Published)
    BY <1>1, <1>3 DEF Effective
  <2> QED
    BY <1>3, <2>1 DEF Loads
<1>4. ASSUME Committed PROVE Loads(Published)'
  <2>1. Published' = disk /\ Effective(Published)' = Effective(disk) /\ Loads(disk)
    BY <1>1, <1>4 DEF Committed, Effective
  <2> QED
    BY <2>1 DEF Loads
<1> QED
  BY <1>1, <1>3, <1>4

\* If the panel could read the root's own files it can read them with everything that was ever
\* published, "A post-write config parse is part of the transaction": only a kill before that
\* parse, a rollback that failed or a group cut short can leave what load_config refuses.
THEOREM ReadBack == Spec => []LoadsAgain
<1> DEFINE Inv == ~torn /\ ~cut /\ Loads(Blank) => Loads(Published)
<1>1. Init => Inv
  BY DEF Init, Published, Blank
<1>2. IInv /\ Encoded /\ Inv /\ [Next]_vars => Inv'
  BY LoadsStep
<1>3. Inv => LoadsAgain
  BY DEF LoadsAgain, Published
<1> HIDE DEF Inv
<1> QED
  BY <1>1, <1>2, <1>3, Invariant, AlwaysEncoded, PTL DEF Spec

-----------------------------------------------------------------------------
(* Requests that are answered one at a time.                               *)

\* After the wizard no password is a template's, and the panel may listen where it is told to.
Trusted(c) == /\ c["done"] = "true" => c["panel"] # "CHANGE_ME" /\ c["pass"] # "CHANGE_ME"
              /\ CanListen(c)

OneThread == \A s, t \in Threads : s = t

\* With one thread what a network request read before the lock is what the panel still holds.
Replaced == ~torn /\ ~cut =>
  /\ Trusted(Effective(Published)) /\ Trusted(cache)
  /\ \A t \in Threads : pc[t] = "check" => stale[t] = cache["pass"]
  /\ \A t \in Threads : pc[t] = "netlock" => stale[t] # "CHANGE_ME"
  /\ lock # None => Trusted(Effective(Laid(old, new)))

\* What a lookup finds once a group lies over the files.
LEMMA LaidLookup ==
  ASSUME base \in Bases, NEW d, NEW u, DOMAIN u \subseteq Keys,
         \A k \in DOMAIN u : u[k] \in Written(k)
  PROVE  /\ DOMAIN Effective(Laid(d, ByFile(u))) = AllKeys /\ DOMAIN Effective(d) = AllKeys
         /\ \A k \in AllKeys : Effective(Laid(d, ByFile(u)))[k]
                                 = IF k \in DOMAIN u THEN u[k] ELSE Effective(d)[k]
<1> DEFINE g == ByFile(u)
<1>1. /\ \A k \in DOMAIN u : FileOf[k] \in DOMAIN g /\ k \in DOMAIN g[FileOf[k]]
      /\ \A f \in DOMAIN g : \A k \in DOMAIN g[f] : k \in DOMAIN u /\ g[f][k] = u[k]
  BY ByFileHolds
<1> HIDE DEF g
<1>2. ASSUME NEW k \in Keys
      PROVE  Effective(Laid(d, g))[k] = IF k \in DOMAIN u THEN u[k] ELSE Effective(d)[k]
  <2> DEFINE f == FileOf[k]
  <2>1. f \in Files /\ Laid(d, g)[f] = IF f \in DOMAIN g THEN Over(g[f], d[f]) ELSE d[f]
    BY KeyFile DEF Laid
  <2>2. /\ Effective(Laid(d, g))[k] = IF k \in DOMAIN Laid(d, g)[f] THEN Laid(d, g)[f][k] ELSE base[k]
        /\ Effective(d)[k] = IF k \in DOMAIN d[f] THEN d[f][k] ELSE base[k]
    BY Lookup
  <2>3. CASE k \in DOMAIN u
    <3>1. f \in DOMAIN g /\ k \in DOMAIN g[f] /\ g[f][k] = u[k]
      BY <1>1, <2>3
    <3> HIDE DEF f
    <3> QED
      BY <2>1, <2>2, <2>3, <3>1 DEF Over
  <2>4. CASE k \notin DOMAIN u
    <3>1. f \in DOMAIN g => k \notin DOMAIN g[f]
      BY <1>1, <2>4
    <3> HIDE DEF f
    <3>2. k \in DOMAIN Laid(d, g)[f] <=> k \in DOMAIN d[f]
      BY <2>1, <3>1 DEF Over
    <3>3. k \in DOMAIN d[f] => Laid(d, g)[f][k] = d[f][k]
      BY <2>1, <3>1 DEF Over
    <3> QED
      BY <2>2, <2>4, <3>2, <3>3
  <2> QED
    BY <2>3, <2>4
<1>3. \A k \in AllKeys \ Keys : Effective(Laid(d, g))[k] = Effective(d)[k] /\ k \notin DOMAIN u
  BY Lookup
<1> QED
  BY <1>2, <1>3, Lookup DEF AllKeys, g

\* A first-run or network wizard that is given a password of a user's own leaves a configuration
\* that may be trusted.
LEMMA WizardTrusted ==
  ASSUME NEW c, NEW n, NEW s, NEW p, NEW b \in Binds, p # "CHANGE_ME", ~LanRefused(c, p, b),
         NEW e,
         \A k \in AllKeys : e[k] = IF k \in DOMAIN Wizard(c, n, s, p, b)
                                   THEN Wizard(c, n, s, p, b)[k] ELSE c[k]
  PROVE  Trusted(e)
<1> DEFINE w == Chosen(n, Normalized("time", s), p, b)
           x == PanelUpdate(c, p)
<1>1. /\ DOMAIN w = {"time", "on", "done", "bind", "name", "pass"}
      /\ w["done"] = "true" /\ w["bind"] = b /\ w["pass"] = p
  BY DEF Chosen, WithSwitch, Over
<1>2. \/ x = [panel |-> p]
      \/ x = Nothing /\ ~Placeholder(IF c["panel"] # "" THEN c["panel"] ELSE c["admin"])
  BY DEF PanelUpdate
<1>3. Wizard(c, n, s, p, b) = Over(w, x)
  BY DEF Wizard
<1>4. b = "lan" /\ x = [panel |-> p] => p # ""
  <2>1. x = [panel |-> p] => x # Nothing
    <3>1. "panel" \in DOMAIN [panel |-> p] /\ "panel" \notin DOMAIN Nothing
      BY DEF Nothing
    <3> HIDE DEF x
    <3> QED
      BY <3>1
  <2> QED
    BY <2>1 DEF LanRefused
<1> HIDE DEF w, x
<1>5. /\ e["done"] = "true" /\ e["bind"] = b /\ e["pass"] = p /\ e["admin"] = c["admin"]
      /\ x = [panel |-> p] => e["panel"] = p
      /\ x = Nothing => e["panel"] = c["panel"]
  <2>1. {"done", "bind", "pass", "admin", "panel"} \subseteq AllKeys
    BY DEF AllKeys, Keys, KeysOf
  <2>2. /\ DOMAIN Over(w, x) = DOMAIN w \cup DOMAIN x
        /\ \A k \in DOMAIN w : Over(w, x)[k] = w[k]
        /\ \A k \in DOMAIN x \ DOMAIN w : Over(w, x)[k] = x[k]
    BY DEF Over
  <2>3. x = [panel |-> p] => DOMAIN x = {"panel"} /\ x["panel"] = p
    OBVIOUS
  <2>4. x = Nothing => DOMAIN x = {}
    BY DEF Nothing
  <2>5. \A k \in AllKeys : e[k] = IF k \in DOMAIN w \cup DOMAIN x THEN Over(w, x)[k] ELSE c[k]
    BY <1>3, <2>2
  <2>6. e["done"] = "true" /\ e["bind"] = b /\ e["pass"] = p
    BY <1>1, <2>1, <2>2, <2>5
  <2>7. x = [panel |-> p] => e["panel"] = p
    BY <1>1, <2>1, <2>2, <2>3, <2>5
  <2>8. x = Nothing => e["panel"] = c["panel"]
    BY <1>1, <2>1, <2>4, <2>5
  <2>9. e["admin"] = c["admin"]
    BY <1>1, <1>2, <2>1, <2>3, <2>4, <2>5
  <2> QED
    BY <2>6, <2>7, <2>8, <2>9
<1> QED
  BY <1>2, <1>4, <1>5 DEF Trusted, CanListen, AuthPassword, Placeholder, Binds

\* What any request publishes may be trusted if what was there may be, and its password.
LEMMA GroupTrusted ==
  ASSUME IInv, NEW t \in Threads, NEW r \in Requests(t), ~Refused(r),
         r.kind \in {"onboard", "network"} => r.pass # "CHANGE_ME", Trusted(Effective(disk))
  PROVE  Trusted(Effective(Laid(disk, ByFile(Group(r, Effective(disk))))))
<1> DEFINE c == Effective(disk)
           u == Group(r, c)
           e == Effective(Laid(disk, ByFile(u)))
<1>0. base \in Bases /\ TypeOK
  BY DEF IInv, TypeOK
<1>1. DOMAIN u \subseteq Keys /\ \A k \in DOMAIN u : u[k] \in Written(k)
  BY <1>0, GroupUpdates
<1>2. \A k \in AllKeys : e[k] = IF k \in DOMAIN u THEN u[k] ELSE c[k]
  <2> HIDE DEF u
  <2> QED
    BY <1>0, <1>1, LaidLookup
<1>3. r.kind \in {"apply", "discord", "onboard", "network"}
  BY <1>0, RequestFields
<1>4. CASE r.kind \in {"apply", "discord"}
  <2>1. {"pass", "done", "bind", "panel"} \cap DOMAIN u = {}
    <3>1. CASE r.kind = "apply"
      <4>1. r.values \in Edits /\ IsEdit(r.values) /\ u = WithSwitch(Changed(r.values, c))
        BY <1>0, <3>1, RequestFields DEF Refused, Group
      <4> QED
        BY <4>1, EditUpdates
    <3>2. CASE r.kind = "discord"
      <4>1. r.token \in Tokens /\ u = Discord(r.token)
        BY <1>0, <3>2, RequestFields DEF Group
      <4> QED
        BY <4>1, DiscordUpdates
    <3> QED
      BY <1>4, <3>1, <3>2
  <2>2. "admin" \notin DOMAIN u /\ "passwordless" \notin DOMAIN u
    BY <1>1 DEF Keys, KeysOf
  <2> HIDE DEF u, e, c
  <2>3. \A k \in {"pass", "done", "bind", "panel", "admin", "passwordless"} : e[k] = c[k]
    BY <1>2, <2>1, <2>2 DEF AllKeys, Keys, KeysOf
  <2>4. Trusted(c)
    BY DEF c
  <2>5. Trusted(e)
    BY <2>3, <2>4 DEF Trusted, CanListen, AuthPassword
  <2> QED
    BY <2>5 DEF e, u, c
<1>5. CASE r.kind \in {"onboard", "network"}
  <2>1. /\ r.bind \in Binds /\ ~LanRefused(c, r.pass, r.bind)
        /\ u = Wizard(c, r.name, r.time, r.pass, r.bind)
    BY <1>0, <1>5, RequestFields DEF Refused, Group
  <2> HIDE DEF u, e, c
  <2>2. Trusted(e)
    BY <1>2, <1>5, <2>1, WizardTrusted
  <2> QED
    BY <2>2 DEF e, u, c
<1> QED
  BY <1>3, <1>4, <1>5

\* Entering, with what a network request has brought from before the lock.
LEMMA ReplacedEnter ==
  ASSUME OneThread, "CHANGE_ME" \notin Passwords, IInv, NEW t \in Threads, Enter(t), ~torn, ~cut, Replaced
  PROVE  Replaced'
<1> DEFINE c == Effective(disk)
<1>0. /\ lock = None /\ Published = disk /\ Trusted(c) /\ Trusted(cache) /\ pc[t] \in {"lock", "netlock"}
      /\ UNCHANGED <<base, disk, up, torn, cut, wins, faults, crashes>>
  BY DEF Enter, Published, Replaced, Waiting
<1> HIDE DEF c
<1>1. PICK r \in Requests(t) :
       \/ /\ Refused(r) \/ Group(r, c) = Nothing
          /\ IF Refused(r) THEN UNCHANGED <<cache, missed>> ELSE cache' = c /\ missed' = FALSE
          /\ Leave(t) /\ UNCHANGED lock
       \/ /\ ~Refused(r) /\ Group(r, c) # Nothing
          /\ lock' = t /\ pc' = [pc EXCEPT ![t] = "backup"] /\ stale' = [stale EXCEPT ![t] = ""]
          /\ kind' = r.kind /\ new' = ByFile(Group(r, c)) /\ todo' = DOMAIN new'
          /\ old' = disk /\ attempted' = {}
          /\ UNCHANGED <<cache, missed>>
  BY DEF Enter, c
<1>2. Trusted(cache')
  BY <1>0, <1>1
<1>3. Published' = disk /\ Trusted(Effective(Published)')
  BY <1>0, <1>1 DEF Published, Effective, c
<1>4. \A s \in Threads : pc'[s] \notin {"check", "netlock"}
  <2>1. pc' \in {[pc EXCEPT ![t] = "idle"], [pc EXCEPT ![t] = "backup"]}
    BY <1>1 DEF Leave
  <2> QED
    BY <2>1 DEF OneThread, IInv, TypeOK
<1>5. lock' # None => Trusted(Effective(Laid(old, new))')
  <2> SUFFICES ASSUME lock' # None PROVE Trusted(Effective(Laid(old, new))')
    OBVIOUS
  <2>1. ~Refused(r) /\ old' = disk /\ new' = ByFile(Group(r, c))
    BY <1>0, <1>1
  <2>2. r.kind \in {"onboard", "network"} => r.pass # "CHANGE_ME"
    <3>1. CASE pc[t] = "netlock"
      BY <3>1 DEF Requests, Replaced
    <3>2. CASE pc[t] = "lock"
      BY <3>2 DEF Requests
    <3> QED
      BY <1>0, <3>1, <3>2
  <2>3. Trusted(Effective(Laid(disk, ByFile(Group(r, c)))))
    BY <1>0, <2>1, <2>2, GroupTrusted DEF c
  <2>4. Effective(Laid(old, new))' = Effective(Laid(disk, ByFile(Group(r, c))))
    BY <1>0, <2>1 DEF Effective, Laid
  <2> QED
    BY <2>3, <2>4
<1> QED
  BY <1>2, <1>3, <1>4, <1>5 DEF Replaced

LEMMA ReplacedKeeps ==
  ASSUME OneThread, "CHANGE_ME" \notin Passwords, \A b \in Bases : Trusted(b),
         IInv, Encoded, [Next]_vars, Replaced
  PROVE  Replaced'
<1>0. /\ base' = base /\ (torn => torn') /\ (cut => cut')
      /\ torn' \/ Published' = Published \/ Committed \/ cut'
  BY PublishedStep DEF CutOff
<1> SUFFICES ASSUME ~torn, ~torn', ~cut, ~cut' PROVE Replaced'
  BY <1>0 DEF Replaced
<1>1. /\ Trusted(Effective(Published)) /\ Trusted(cache)
      /\ lock # None => Trusted(Effective(Laid(old, new)))
  BY DEF Replaced
<1>2. Trusted(Effective(Published)')
  <2>1. ASSUME Published' = Published PROVE Trusted(Effective(Published)')
    <3>1. Effective(Published)' = Effective(Published)
      BY <1>0, <2>1 DEF Effective
    <3> QED
      BY <1>1, <3>1
  <2>2. ASSUME Committed PROVE Trusted(Effective(Published)')
    <3>1. Published' = Laid(old, new)
      BY <2>2 DEF Committed
    <3>2. Effective(Published)' = Effective(Laid(old, new))
      BY <1>0, <3>1 DEF Effective
    <3> QED
      BY <1>1, <2>2, <3>2 DEF Committed
  <2> QED
    BY <1>0, <2>1, <2>2
<1>3. UNCHANGED <<lock, old, new>> => (lock # None => Trusted(Effective(Laid(old, new))))'
  <2>1. UNCHANGED <<lock, old, new>> => Effective(Laid(old, new))' = Effective(Laid(old, new))
    BY <1>0 DEF Effective, Laid
  <2> QED
    BY <1>1, <2>1
<1> USE DEF IInv, TypeOK
<1>4. ASSUME NEW t \in Threads, Arrive(t) \/ ReadPassword(t) \/ CheckOnboarded(t) \/ Busy(t)
      PROVE  Replaced'
  <2>1. UNCHANGED <<cache, lock, old, new>>
    BY <1>4 DEF Arrive, ReadPassword, CheckOnboarded, Busy, tx
  <2>2. /\ pc'[t] = "check" => stale'[t] = cache["pass"]
        /\ pc'[t] = "netlock" => stale'[t] # "CHANGE_ME"
    <3>1. CASE Arrive(t)
      BY <3>1 DEF Arrive
    <3>2. CASE ReadPassword(t)
      BY <3>2 DEF ReadPassword
    <3>3. CASE CheckOnboarded(t)
      <4>1. pc[t] = "check" => stale[t] = cache["pass"]
        BY DEF Replaced
      <4>2. Onboarded(cache) => cache["pass"] # "CHANGE_ME"
        BY <1>1 DEF Onboarded, Trusted, Placeholder
      <4> QED
        BY <3>3, <4>1, <4>2 DEF CheckOnboarded
    <3>4. CASE Busy(t)
      BY <3>4 DEF Busy
    <3> QED
      BY <1>4, <3>1, <3>2, <3>3, <3>4
  <2> QED
    BY <1>1, <1>2, <1>3, <2>1, <2>2 DEF Replaced, OneThread
<1>5. ASSUME NEW t \in Threads, BackUp(t) \/ Undone(t) \/ WriteFile(t) \/ UndoFile(t) PROVE Replaced'
  <2>1. /\ UNCHANGED cache /\ (UNCHANGED <<lock, old, new>> \/ lock' = None)
        /\ pc'[t] \notin {"check", "netlock"}
    BY <1>5 DEF BackUp, Undone, WriteFile, UndoFile, Leave, tx
  <2> QED
    BY <1>1, <1>2, <1>3, <2>1 DEF Replaced, OneThread
<1>6. ASSUME NEW t \in Threads, Verify(t) PROVE Replaced'
  <2>1. lock # None /\ disk = Laid(old, new)
    BY <1>6, VerifiedIsWhole DEF Verify, Laid, Rendered
  <2>2. Trusted(Effective(disk))
    BY <1>1, <2>1
  <2>3. /\ cache' \in {cache, Effective(disk)} /\ (UNCHANGED <<lock, old, new>> \/ lock' = None)
        /\ pc'[t] \notin {"check", "netlock"}
    BY <1>6 DEF Verify, Leave, tx, Kept
  <2> QED
    BY <1>1, <1>2, <1>3, <2>2, <2>3 DEF Replaced, OneThread
<1>7. CASE Crash
  <2>1. cache' = base /\ lock' = None /\ pc' = [t \in Threads |-> "idle"]
    BY <1>7 DEF Crash
  <2> QED
    BY <1>2, <2>1 DEF Replaced
<1>8. CASE Restart
  <2>1. /\ cache' = Effective(disk) /\ UNCHANGED <<lock, old, new, pc, stale>> /\ lock = None
        /\ \A t \in Threads : pc[t] = "idle"
    BY <1>8 DEF Restart, tx, LockScoped
  <2> QED
    BY <1>1, <1>2, <2>1 DEF Replaced, Published
<1>9. CASE UNCHANGED vars
  <2>1. UNCHANGED <<cache, lock, old, new, pc, stale>>
    BY <1>9 DEF vars, tx
  <2> QED
    BY <1>1, <1>2, <1>3, <2>1 DEF Replaced
<1> QED
  BY <1>4, <1>5, <1>6, <1>7, <1>8, <1>9, ReplacedEnter DEF Next, Request

\* What the race costs the panel: a start-up that is refused for want of a credential.
MayListen == lock = None /\ ~torn => CanListen(Effective(disk))

\* TemplateReplaced and the start of the panel, which the code does not keep in general, hold
\* when requests are answered one at a time: configure_network's read of the password before
\* the lock is all that breaks them, short of a group that is torn or cut short.  The root's own
\* files must not break them at the outset, and no user may give the template's text for a password.
THEOREM OneAtATime ==
  ASSUME OneThread, "CHANGE_ME" \notin Passwords, \A b \in Bases : Trusted(b)
  PROVE  Spec => [](~cut => TemplateReplaced /\ MayListen)
<1>1. Init => Replaced
  <2> SUFFICES ASSUME Init PROVE Replaced
    OBVIOUS
  <2>1. Published = Blank /\ lock = None /\ cache = base /\ base \in Bases /\ pc = [t \in Threads |-> "idle"]
    BY DEF Init, Published, Blank
  <2>2. DOMAIN base = AllKeys
    BY <2>1, BaseAssumption
  <2>3. \A k \in AllKeys : Effective(Blank)[k] = base[k]
    <3>1. \A k \in Keys : k \notin DOMAIN Blank[FileOf[k]]
      BY KeyFile DEF Blank, Nothing
    <3> QED
      BY <2>1, <3>1, Lookup
  <2>4. Trusted(Effective(Blank))
    <3>1. Trusted(base)
      BY <2>1
    <3> QED
      BY <2>3, <3>1 DEF Trusted, CanListen, AuthPassword, AllKeys, Keys, KeysOf
  <2> QED
    BY <2>1, <2>4 DEF Replaced
<1>2. IInv /\ Encoded /\ Replaced /\ [Next]_vars => Replaced'
  BY ReplacedKeeps
<1>3. Replaced => (~cut => TemplateReplaced /\ MayListen)
  BY DEF Replaced, Trusted, TemplateReplaced, MayListen, Published
<1> QED
  BY <1>1, <1>2, <1>3, Invariant, AlwaysEncoded, PTL DEF Spec

-----------------------------------------------------------------------------
(* The world registry.                                                     *)

\* What a process holds in memory selects one of its own worlds, or none.
CopyListed == \A p \in running : copies[p].default \in DOMAIN copies[p].worlds \cup {Unnamed}

\* A world being made has directories of its own, is not in the panel's registry, and its
\* number is free there: nobody else touches the panel's copy meanwhile.
MakingScoped == making # Nobody =>
                  /\ "web" \in running
                  /\ making \in DOMAIN dirs /\ dirs[making] = slot
                  /\ making \notin DOMAIN made
                  /\ making \notin DOMAIN copies["web"].worlds
                  /\ Free(slot, copies["web"].worlds)

RegistryInv == /\ RegistryTypeOK /\ SelectionListed /\ PortsDisjoint /\ MadeIsKept
               /\ CopyListed /\ MakingScoped

-----------------------------------------------------------------------------
(* Facts about the registry.                                               *)

\* Number 0, the existing world's own ports, is in range.
LEMMA ZeroInRange == 0 \in Numbers
<1>1. \A b \in Base : b + Stride * 0 = b /\ b <= MaxPort
  BY PortAssumption
<1> QED
  BY <1>1, PortAssumption DEF Numbers, Ports

\* The ports of a number that is free are disjoint from those of each registered world.
LEMMA WithFree ==
  ASSUME NEW worlds, NEW n, NEW i, Disjoint(worlds), Free(i, worlds), n \notin DOMAIN worlds
  PROVE  Disjoint(With(worlds, n, i))
<1> SUFFICES ASSUME NEW v \in DOMAIN worlds \cup {n}, NEW w \in DOMAIN worlds \cup {n}, v # w
             PROVE  Ports(With(worlds, n, i)[v]) \cap Ports(With(worlds, n, i)[w]) = {}
  BY DEF Disjoint, With
<1>1. CASE v # n /\ w # n
  BY <1>1 DEF Disjoint, With
<1>2. CASE v = n \/ w = n
  BY <1>2 DEF Free, With
<1> QED
  BY <1>1, <1>2

\* A registry with one more world is a registry.
LEMMA WithIsRegistry ==
  ASSUME NEW r, IsRegistry(r), NEW n \in Worlds, NEW i \in Numbers
  PROVE  IsRegistry([r EXCEPT !.worlds = With(@, n, i)])
BY DEF IsRegistry, With

\* A registry with another of the worlds as its default, or none, is a registry.
LEMMA DefaultIsRegistry ==
  ASSUME NEW r, IsRegistry(r), NEW n \in Worlds \cup {Unnamed}
  PROVE  IsRegistry([r EXCEPT !.default = n])
BY DEF IsRegistry

\* The registries a process may start from.
LEMMA FirstRegistries ==
  /\ IsRegistry(NoFile) /\ Disjoint(NoFile.worlds)
  /\ IsRegistry(InitialState) /\ Disjoint(InitialState.worlds)
  /\ InitialState.default \in DOMAIN InitialState.worlds
BY ZeroInRange DEF IsRegistry, Disjoint, NoFile, InitialState, Worlds

-----------------------------------------------------------------------------
(* The inductive invariant of the registry.                                *)

LEMMA RegistryInitially == RegistryInit => RegistryInv
<1> SUFFICES ASSUME RegistryInit PROVE RegistryInv
  OBVIOUS
<1>1. RegistryTypeOK
  BY FirstRegistries, ZeroInRange, FailureAssumption DEF RegistryInit, RegistryTypeOK
<1>2. SelectionListed /\ CopyListed /\ MakingScoped /\ MadeIsKept
  BY DEF RegistryInit, SelectionListed, CopyListed, MakingScoped, MadeIsKept
<1>3. PortsDisjoint
  BY FirstRegistries DEF RegistryInit, PortsDisjoint
<1> QED
  BY <1>1, <1>2, <1>3 DEF RegistryInv

\* A process reads the registry, or writes the first one.
LEMMA StartStep ==
  ASSUME RegistryInv, NEW p \in Procs, Start(p)
  PROVE  RegistryInv'
<1> DEFINE r == IF file = NoFile THEN InitialState ELSE file
<1>0. /\ p \notin running /\ running' = running \cup {p} /\ copies' = [copies EXCEPT ![p] = r] /\ file' = r
      /\ UNCHANGED <<making, slot, dirs, made, failures, restarts>> /\ DOMAIN copies = Procs
  BY DEF RegistryInv, RegistryTypeOK, Start
<1>1. IsRegistry(r) /\ Disjoint(r.worlds) /\ r.default \in DOMAIN r.worlds \cup {Unnamed}
  BY FirstRegistries DEF RegistryInv, RegistryTypeOK, SelectionListed, PortsDisjoint
<1> HIDE DEF r
<1>2. RegistryTypeOK'
  BY <1>0, <1>1 DEF RegistryInv, RegistryTypeOK
<1>3. SelectionListed' /\ CopyListed'
  BY <1>0, <1>1 DEF RegistryInv, SelectionListed, CopyListed
<1>4. PortsDisjoint'
  BY <1>0, <1>1 DEF RegistryInv, PortsDisjoint
<1>5. MadeIsKept'
  BY <1>0 DEF RegistryInv, MadeIsKept
<1>6. MakingScoped'
  BY <1>0 DEF RegistryInv, MakingScoped, Free
<1> QED
  BY <1>2, <1>3, <1>4, <1>5, <1>6 DEF RegistryInv

\* A process ends.
LEMMA DieStep == ASSUME RegistryInv, NEW p \in Procs, Die(p) PROVE RegistryInv'
<1>1. RegistryTypeOK'
  BY ZeroInRange, FailureAssumption DEF RegistryInv, RegistryTypeOK, Die
<1>2. SelectionListed' /\ CopyListed' /\ PortsDisjoint' /\ MadeIsKept'
  BY DEF RegistryInv, Die, SelectionListed, CopyListed, PortsDisjoint, MadeIsKept
<1>3. MakingScoped'
  BY DEF RegistryInv, Die, MakingScoped, Free
<1> QED
  BY <1>1, <1>2, <1>3 DEF RegistryInv

\* The panel begins to make a world: the name and the number are new.
LEMMA CreateStep ==
  ASSUME RegistryInv, NEW n \in WorldNames, Create(n)
  PROVE  RegistryInv'
<1>1. PICK i \in 0..MaxPort : /\ NextSlot(i, copies["web"].worlds) /\ InRange(i)
                              /\ dirs' = With(dirs, n, i)
                              /\ \/ making' = n /\ slot' = i /\ UNCHANGED failures
                                 \/ Failure /\ UNCHANGED <<making, slot>>
  BY DEF Create
<1>2. /\ "web" \in running /\ making = Nobody /\ NewName(n)
      /\ UNCHANGED <<file, running, copies, made, restarts>> /\ i \in Numbers
  BY <1>1 DEF Create, InRange, Numbers
<1>3. RegistryTypeOK'
  BY <1>1, <1>2, FailureAssumption DEF RegistryInv, RegistryTypeOK, With, Failure
<1>4. SelectionListed' /\ CopyListed' /\ PortsDisjoint'
  BY <1>2 DEF RegistryInv, SelectionListed, CopyListed, PortsDisjoint
<1>5. MadeIsKept'
  BY <1>1, <1>2 DEF RegistryInv, MadeIsKept, With, NewName
<1>6. MakingScoped'
  BY <1>1, <1>2 DEF RegistryInv, MadeIsKept, MakingScoped, With, NewName, NextSlot, Free
<1> QED
  BY <1>3, <1>4, <1>5, <1>6 DEF RegistryInv

\* The world enters the registry, or its directories are removed again.
LEMMA FinishStep == ASSUME RegistryInv, Finish PROVE RegistryInv'
<1> DEFINE more == [copies["web"] EXCEPT !.worlds = With(@, making, slot)]
<1>0. /\ making # Nobody /\ making' = Nobody /\ slot' = 0 /\ UNCHANGED <<running, restarts>>
      /\ making \in WorldNames /\ slot \in Numbers /\ DOMAIN copies = Procs /\ "web" \in Procs
      /\ IsRegistry(copies["web"]) /\ "web" \in running
  BY DEF RegistryInv, RegistryTypeOK, Finish, MakingScoped, Procs
<1>1. /\ IsRegistry(more) /\ more.default = copies["web"].default
      /\ more.worlds = With(copies["web"].worlds, making, slot)
      /\ Disjoint(more.worlds) /\ more.default \in DOMAIN more.worlds \cup {Unnamed}
  <2>1. IsRegistry(more)
    BY <1>0, WithIsRegistry DEF Worlds
  <2>2. more.default = copies["web"].default /\ more.worlds = With(copies["web"].worlds, making, slot)
    BY <1>0 DEF IsRegistry
  <2>3. Disjoint(With(copies["web"].worlds, making, slot))
    BY <1>0, WithFree DEF RegistryInv, PortsDisjoint, MakingScoped
  <2>4. copies["web"].default \in DOMAIN copies["web"].worlds \cup {Unnamed}
    BY <1>0 DEF RegistryInv, CopyListed
  <2> QED
    BY <2>1, <2>2, <2>3, <2>4 DEF With
<1>2. CASE /\ Failure /\ dirs' = Cleanup /\ UNCHANGED <<file, copies, made>>
  <2>1. RegistryTypeOK'
    BY <1>0, <1>2, ZeroInRange, FailureAssumption DEF RegistryInv, RegistryTypeOK, Failure,
       Cleanup, Without
  <2>2. SelectionListed' /\ CopyListed' /\ PortsDisjoint'
    BY <1>0, <1>2 DEF RegistryInv, SelectionListed, CopyListed, PortsDisjoint
  <2>3. MadeIsKept' /\ MakingScoped'
    BY <1>0, <1>2 DEF RegistryInv, MadeIsKept, MakingScoped, Cleanup, Without
  <2> QED
    BY <2>1, <2>2, <2>3 DEF RegistryInv
<1>3. CASE /\ copies' = [copies EXCEPT !["web"] = more]
           /\ file' = more /\ made' = With(made, making, slot) /\ UNCHANGED <<dirs, failures>>
  <2> HIDE DEF more
  <2>1. RegistryTypeOK'
    BY <1>0, <1>1, <1>3, ZeroInRange DEF RegistryInv, RegistryTypeOK, With
  <2>2. SelectionListed' /\ CopyListed'
    BY <1>0, <1>1, <1>3 DEF RegistryInv, SelectionListed, CopyListed
  <2>3. PortsDisjoint'
    BY <1>0, <1>1, <1>3 DEF RegistryInv, PortsDisjoint
  <2>4. MadeIsKept' /\ MakingScoped'
    BY <1>0, <1>3 DEF RegistryInv, MadeIsKept, MakingScoped, With
  <2> QED
    BY <2>1, <2>2, <2>3, <2>4 DEF RegistryInv
<1>4. CASE /\ copies' = [copies EXCEPT !["web"] = more]
           /\ Failure /\ dirs' = Cleanup /\ UNCHANGED <<file, made>>
  <2> HIDE DEF more
  <2>1. RegistryTypeOK'
    BY <1>0, <1>1, <1>4, ZeroInRange, FailureAssumption DEF RegistryInv, RegistryTypeOK, Failure,
       Cleanup, Without
  <2>2. SelectionListed' /\ CopyListed'
    BY <1>0, <1>1, <1>4 DEF RegistryInv, SelectionListed, CopyListed
  <2>3. PortsDisjoint'
    BY <1>0, <1>1, <1>4 DEF RegistryInv, PortsDisjoint
  <2>4. MadeIsKept' /\ MakingScoped'
    BY <1>0, <1>4 DEF RegistryInv, MadeIsKept, MakingScoped, Cleanup, Without
  <2> QED
    BY <2>1, <2>2, <2>3, <2>4 DEF RegistryInv
<1>5. copies' = [copies EXCEPT !["web"].worlds = With(@, making, slot)]
        => copies' = [copies EXCEPT !["web"] = more] /\ copies'["web"] = more
  BY <1>0
<1> QED
  BY <1>2, <1>3, <1>4, <1>5 DEF Finish, Save

\* A process selects one of the worlds it knows, or the empty name.
LEMMA SetDefaultStep ==
  ASSUME RegistryInv, NEW p \in Procs, NEW n \in Worlds \cup {Unnamed}, SetDefault(p, n)
  PROVE  RegistryInv'
<1> DEFINE r == [copies[p] EXCEPT !.default = n]
<1>0. /\ p \in running /\ n \in DOMAIN copies[p].worlds \cup {Unnamed} /\ (p = "web" => making = Nobody)
      /\ copies' = [copies EXCEPT ![p] = r]
      /\ \/ file' = r /\ UNCHANGED failures
         \/ Failure /\ UNCHANGED file
      /\ UNCHANGED <<running, making, slot, dirs, made, restarts>>
      /\ DOMAIN copies = Procs /\ IsRegistry(copies[p])
  BY DEF RegistryInv, RegistryTypeOK, SetDefault, Known, Save
<1>1. /\ IsRegistry(r) /\ r.default = n /\ r.worlds = copies[p].worlds
      /\ Disjoint(r.worlds) /\ r.default \in DOMAIN r.worlds \cup {Unnamed}
  <2>1. IsRegistry(r)
    BY <1>0, DefaultIsRegistry
  <2>2. r.default = n /\ r.worlds = copies[p].worlds
    BY <1>0 DEF IsRegistry
  <2> QED
    BY <1>0, <2>1, <2>2 DEF RegistryInv, PortsDisjoint
<1> HIDE DEF r
<1>2. RegistryTypeOK'
  BY <1>0, <1>1, FailureAssumption DEF RegistryInv, RegistryTypeOK, Failure
<1>3. SelectionListed' /\ CopyListed'
  BY <1>0, <1>1 DEF RegistryInv, SelectionListed, CopyListed
<1>4. PortsDisjoint'
  BY <1>0, <1>1 DEF RegistryInv, PortsDisjoint
<1>5. MadeIsKept'
  BY <1>0 DEF RegistryInv, MadeIsKept
<1>6. MakingScoped'
  BY <1>0 DEF RegistryInv, MakingScoped, Free
<1> QED
  BY <1>2, <1>3, <1>4, <1>5, <1>6 DEF RegistryInv

LEMMA RegistryInductive ==
  RegistryInv /\ [RegistryNext]_registryVars => RegistryInv'
<1> SUFFICES ASSUME RegistryInv, [RegistryNext]_registryVars PROVE RegistryInv'
  OBVIOUS
<1>1. CASE UNCHANGED registryVars
  BY <1>1 DEF RegistryInv, registryVars, RegistryTypeOK, SelectionListed, PortsDisjoint, MadeIsKept,
     CopyListed, MakingScoped, Free
<1>2. ASSUME NEW p \in Procs, Start(p) PROVE RegistryInv'
  BY <1>2, StartStep
<1>3. ASSUME NEW p \in Procs, Die(p) PROVE RegistryInv'
  BY <1>3, DieStep
<1>4. ASSUME NEW p \in Procs, NEW n \in Worlds \cup {Unnamed}, SetDefault(p, n) PROVE RegistryInv'
  BY <1>4, SetDefaultStep
<1>5. ASSUME NEW n \in WorldNames, Create(n) PROVE RegistryInv'
  BY <1>5, CreateStep
<1>6. CASE Finish
  BY <1>6, FinishStep
<1> QED
  BY <1>1, <1>2, <1>3, <1>4, <1>5, <1>6 DEF RegistryNext

\* The inductive invariant holds in every reachable state of the registry.
THEOREM RegistryInvariant == RegistrySpec => []RegistryInv
BY RegistryInitially, RegistryInductive, PTL DEF RegistrySpec

-----------------------------------------------------------------------------
(* The properties of the registry.                                         *)

\* The registry, the copies in memory and the bookkeeping keep their types.
THEOREM RegistryTypeCorrect == RegistrySpec => []RegistryTypeOK
<1>1. RegistryInv => RegistryTypeOK
  BY DEF RegistryInv
<1> QED
  BY <1>1, RegistryInvariant, PTL

\* SelectionListed: set_default stores the name of a world of the registry it saves, or the empty
\* name, whatever the other process has saved in between.
THEOREM RegistrySelects == RegistrySpec => []SelectionListed
<1>1. RegistryInv => SelectionListed
  BY DEF RegistryInv
<1> QED
  BY <1>1, RegistryInvariant, PTL

\* No registry, on disk or in memory, ever holds two worlds with a port in common.
THEOREM RegistryDisjoint == RegistrySpec => []PortsDisjoint
<1>1. RegistryInv => PortsDisjoint
  BY DEF RegistryInv
<1> QED
  BY <1>1, RegistryInvariant, PTL

\* A world that create returned keeps its directories and its ports.
THEOREM RegistryKept == RegistrySpec => []MadeIsKept
<1>1. RegistryInv => MadeIsKept
  BY DEF RegistryInv
<1> QED
  BY <1>1, RegistryInvariant, PTL

-----------------------------------------------------------------------------
(* A registry that is always read back.                                    *)

\* Nobody selects the empty name.
AlwaysNamed == \A p \in Procs : ~SetDefault(p, Unnamed)

\* What is on disk, and what a process would save, can be loaded.
Selected == Loadable /\ \A p \in running : Selects(copies[p])

LEMMA SelectedKeeps ==
  ASSUME RegistryInv, Selected, [RegistryNext]_registryVars, [AlwaysNamed]_registryVars
  PROVE  Selected'
<1>0. DOMAIN copies = Procs /\ \A p \in Procs : IsRegistry(copies[p])
  BY DEF RegistryInv, RegistryTypeOK
<1>1. CASE UNCHANGED registryVars
  BY <1>1 DEF Selected, registryVars, Loadable, Selects
<1>2. ASSUME NEW p \in Procs, Start(p) PROVE Selected'
  <2>1. /\ running' = running \cup {p} /\ copies' = [copies EXCEPT ![p] = file']
        /\ file' = IF file = NoFile THEN InitialState ELSE file
    BY <1>0, <1>2 DEF Start
  <2>2. Selects(file')
    BY <2>1, FirstRegistries DEF Selected, Loadable, Selects
  <2> QED
    BY <1>0, <2>1, <2>2 DEF Selected, Loadable, Selects
<1>3. ASSUME NEW p \in Procs, Die(p) PROVE Selected'
  BY <1>3 DEF Die, Selected, Loadable, Selects
<1>4. ASSUME NEW n \in WorldNames, Create(n) PROVE Selected'
  BY <1>4 DEF Create, Selected, Loadable, Selects
<1>5. CASE Finish
  <2>1. "web" \in running /\ "web" \in Procs
    BY <1>5 DEF RegistryInv, MakingScoped, Finish, Procs
  <2>2. CASE UNCHANGED <<file, copies>>
    BY <1>5, <2>2 DEF Finish, Selected, Loadable, Selects
  <2>3. CASE copies' = [copies EXCEPT !["web"].worlds = With(@, making, slot)]
    <3>1. Selects(copies'["web"])
      BY <1>0, <2>1, <2>3 DEF Selected, Selects, IsRegistry, With
    <3>2. file' \in {file, copies'["web"]} /\ running' = running
      BY <1>5, <2>3 DEF Finish, Save
    <3>3. \A q \in Procs \ {"web"} : copies'[q] = copies[q]
      BY <1>0, <2>3
    <3>4. running \subseteq Procs
      BY DEF RegistryInv, RegistryTypeOK
    <3>5. \A q \in running : Selects(copies'[q])
      BY <3>1, <3>3, <3>4 DEF Selected
    <3>6. file' = NoFile \/ Selects(file')
      BY <3>1, <3>2 DEF Selected, Loadable
    <3> QED
      BY <3>2, <3>5, <3>6 DEF Selected, Loadable, Selects
  <2> QED
    BY <1>5, <2>2, <2>3 DEF Finish
<1>6. ASSUME NEW p \in Procs, NEW n \in Worlds \cup {Unnamed}, SetDefault(p, n), AlwaysNamed
      PROVE  Selected'
  <2>1. n \in Known(p) /\ p \in running /\ running' = running
    BY <1>6 DEF AlwaysNamed, SetDefault
  <2>2. copies' = [copies EXCEPT ![p].default = n] /\ file' \in {file, copies'[p]}
    BY <1>6 DEF SetDefault, Save
  <2>3. Selects(copies'[p])
    BY <1>0, <2>1, <2>2 DEF IsRegistry, Selects, Known
  <2>4. \A q \in Procs \ {p} : copies'[q] = copies[q]
    BY <1>0, <2>2
  <2>5. running \subseteq Procs
    BY DEF RegistryInv, RegistryTypeOK
  <2>6. \A q \in running : Selects(copies'[q])
    BY <2>3, <2>4, <2>5 DEF Selected
  <2>7. file' = NoFile \/ Selects(file')
    BY <2>2, <2>3 DEF Selected, Loadable
  <2> QED
    BY <2>1, <2>6, <2>7 DEF Selected, Loadable, Selects
<1> QED
  BY <1>1, <1>2, <1>3, <1>4, <1>5, <1>6 DEF RegistryNext

\* Loadable, which the code does not keep in general, holds as long as nobody selects the empty name,
\* whoever saves, fails to save, or is restarted: the lookup of "name or self.default_world" in
\* set_default is all that lets a registry be saved that _load refuses.
THEOREM RegistryLoadable == RegistrySpec /\ [][AlwaysNamed]_registryVars => []Loadable
<1>1. RegistryInit => Selected
  BY DEF RegistryInit, Selected, Loadable
<1>2. RegistryInv /\ Selected /\ [RegistryNext]_registryVars /\ [AlwaysNamed]_registryVars => Selected'
  BY SelectedKeeps
<1>3. Selected => Loadable
  BY DEF Selected
<1> QED
  BY <1>1, <1>2, <1>3, RegistryInvariant, PTL DEF RegistrySpec

-----------------------------------------------------------------------------
(* A registry from which nothing is lost.                                  *)

\* The bot saves a copy that knows every world in the file.
BotIsCurrent == \A n \in Worlds \cup {Unnamed} : SetDefault("bot", n) => DOMAIN file.worlds \subseteq Known("bot")

\* What was made is on disk, and the panel knows of it.
Listed == /\ DOMAIN made \subseteq DOMAIN file.worlds
          /\ "web" \in running => DOMAIN made \subseteq Known("web")

LEMMA ListedKeeps ==
  ASSUME RegistryInv, Listed, [RegistryNext]_registryVars, [BotIsCurrent]_registryVars
  PROVE  Listed'
<1>1. CASE UNCHANGED registryVars
  BY <1>1 DEF Listed, registryVars, Known
<1>2. ASSUME NEW p \in Procs, Start(p) PROVE Listed'
  <2>1. DOMAIN copies = Procs /\ "web" \in Procs
    BY DEF RegistryInv, RegistryTypeOK, Procs
  <2>2. /\ file' = IF file = NoFile THEN InitialState ELSE file
        /\ copies' = [copies EXCEPT ![p] = file'] /\ running' = running \cup {p} /\ made' = made
    BY <1>2, <2>1 DEF Start
  <2>3. DOMAIN made \subseteq DOMAIN file'.worlds
    BY <2>2 DEF Listed, NoFile
  <2> QED
    BY <2>1, <2>2, <2>3 DEF Listed, Known
<1>3. ASSUME NEW p \in Procs, Die(p) PROVE Listed'
  BY <1>3 DEF Die, Listed, Known
<1>4. ASSUME NEW n \in WorldNames, Create(n) PROVE Listed'
  BY <1>4 DEF Create, Listed, Known
<1>5. CASE Finish
  <2>1. "web" \in running /\ "web" \in DOMAIN copies /\ IsRegistry(copies["web"])
    BY <1>5 DEF RegistryInv, RegistryTypeOK, MakingScoped, Finish, Procs
  <2>2. DOMAIN With(copies["web"].worlds, making, slot) = Known("web") \cup {making}
    BY DEF With, Known
  <2>3. CASE UNCHANGED <<file, copies, made>>
    BY <1>5, <2>3 DEF Finish, Listed, Known
  <2>4. CASE copies' = [copies EXCEPT !["web"].worlds = With(@, making, slot)]
    <3>1. copies'["web"].worlds = With(copies["web"].worlds, making, slot)
      BY <2>1, <2>4 DEF IsRegistry
    <3>2. Known("web")' = Known("web") \cup {making}
      BY <2>2, <3>1 DEF Known
    <3>3. DOMAIN With(made, making, slot) = DOMAIN made \cup {making}
      BY DEF With
    <3> QED
      BY <1>5, <2>1, <3>1, <3>2, <3>3 DEF Finish, Save, Listed, Known
  <2> QED
    BY <1>5, <2>3, <2>4 DEF Finish
<1>6. ASSUME NEW p \in Procs, NEW n \in Worlds \cup {Unnamed}, SetDefault(p, n) PROVE Listed'
  <2>1. DOMAIN copies = Procs /\ IsRegistry(copies[p]) /\ p \in running /\ running' = running /\ made' = made
    BY <1>6 DEF RegistryInv, RegistryTypeOK, SetDefault
  <2>2. \A q \in Procs : copies'[q].worlds = copies[q].worlds
    BY <1>6, <2>1 DEF SetDefault, IsRegistry
  <2>3. file' = file \/ file' = copies'[p]
    BY <1>6 DEF SetDefault, Save
  <2>4. CASE p = "web"
    BY <2>1, <2>2, <2>3, <2>4 DEF Listed, Known
  <2>5. CASE p = "bot"
    <3>1. UNCHANGED registryVars \/ DOMAIN file.worlds \subseteq Known("bot")
      BY <1>6, <2>5 DEF BotIsCurrent
    <3> QED
      BY <1>1, <2>1, <2>2, <2>3, <2>5, <3>1 DEF Listed, Known, Procs
  <2> QED
    BY <2>4, <2>5 DEF Procs
<1> QED
  BY <1>1, <1>2, <1>3, <1>4, <1>5, <1>6 DEF RegistryNext

\* MadeIsRegistered, which the code does not keep in general, holds as long as the bot never
\* saves a copy older than the file: failing saves, restarts and the panel's own saves lose nothing.
THEOREM RegistryComplete == RegistrySpec /\ [][BotIsCurrent]_registryVars => []MadeIsRegistered
<1>1. RegistryInit => Listed
  BY DEF RegistryInit, Listed
<1>2. RegistryInv /\ Listed /\ [RegistryNext]_registryVars /\ [BotIsCurrent]_registryVars => Listed'
  BY ListedKeeps
<1>3. Listed => MadeIsRegistered
  BY DEF Listed, MadeIsRegistered
<1> QED
  BY <1>1, <1>2, <1>3, RegistryInvariant, PTL DEF RegistrySpec
=============================================================================
