------------------------------ MODULE Registry ------------------------------
(***************************************************************************)
(* The world registry (worlds.json) and the processes that manage it: the  *)
(* web panel, which creates worlds, and the Discord bot, which selects     *)
(* them.  Each reads the file once, at its start, answers from its own     *)
(* copy, and saves the whole of that copy.                                 *)
(*                                                                         *)
(* A registry is [default, worlds]; a world is known by its number, which  *)
(* gives its three ports.  Writing may fail at most MaxFailures times and  *)
(* each process may be restarted, at most MaxRestarts times in all.        *)
(*                                                                         *)
(* The names differ from those of Settings, the panel's other files: what  *)
(* is proved of the two is in one module, PanelProofs.                     *)
(***************************************************************************)
EXTENDS Naturals

CONSTANTS
  WorldNames, \* names a user may give to a world
  Default,    \* the world of the existing installation
  Base,       \* its three ports
  Stride,     \* what _next_ports adds
  MaxPort,    \* 65535
  MaxFailures, MaxRestarts

Nobody  == "nobody"
Unnamed == ""      \* the empty name, which no world can have

ASSUME NameAssumption    == /\ Default \notin WorldNames /\ Nobody \notin WorldNames
                            /\ Unnamed \notin WorldNames \cup {Default}
ASSUME PortAssumption    == Base \subseteq Nat /\ Stride \in Nat \ {0} /\ MaxPort \in Nat
                            /\ \A b \in Base : b <= MaxPort
ASSUME FailureAssumption == MaxFailures \in Nat /\ MaxRestarts \in Nat

Procs  == {"web", "bot"}
Worlds == WorldNames \cup {Default}

VARIABLES
  file,     \* worlds.json, or NoFile
  running,  \* the processes that run
  copies,   \* what each holds in memory
  making,   \* the world the panel is creating, or Nobody
  slot,     \* the number chosen for it
  dirs,     \* the worlds with a configuration directory: name -> number
  made,     \* the worlds create returned: name -> number (history)
  failures, restarts

registryVars == <<file, running, copies, making, slot, dirs, made, failures, restarts>>

Ports(i)  == {b + Stride * i : b \in Base}
NoFile    == [default |-> Default, worlds |-> <<>>]

\* WorldManager._initial_state
InitialState == [default |-> Default, worlds |-> [w \in {Default} |-> 0]]

Failure == failures < MaxFailures /\ failures' = failures + 1

\* A function without one of its arguments.
Without(f, x) == [y \in DOMAIN f \ {x} |-> f[y]]
\* A function with one more argument, or a new value for it.
With(f, x, v) == [y \in DOMAIN f \cup {x} |-> IF y = x THEN v ELSE f[y]]

RegistryInit == /\ file = NoFile /\ running = {} /\ copies = [p \in Procs |-> NoFile]
                /\ making = Nobody /\ slot = 0 /\ dirs = [w \in {} |-> 0] /\ made = [w \in {} |-> 0]
                /\ failures = 0 /\ restarts = 0

-----------------------------------------------------------------------------
(* WorldManager.__init__: the registry is read, or written for the first   *)
(* time.                                                                   *)

\* What _load accepts, "world registry is invalid" otherwise: the bot does not start then, and the
\* panel goes on without a registry.
Selects(state) == state.default \in DOMAIN state.worlds

Start(p) == /\ p \notin running /\ (file = NoFile \/ Selects(file)) /\ running' = running \cup {p}
            /\ copies' = [copies EXCEPT ![p] = IF file = NoFile THEN InitialState ELSE file]
            /\ file' = copies'[p]
            /\ UNCHANGED <<making, slot, dirs, made, failures, restarts>>

\* A process ends, at any time; a half-made world keeps its directories.
Die(p) == /\ p \in running /\ restarts < MaxRestarts /\ restarts' = restarts + 1
          /\ running' = running \ {p}
          /\ making' = IF p = "web" THEN Nobody ELSE making
          /\ slot' = IF p = "web" THEN 0 ELSE slot
          /\ UNCHANGED <<file, copies, dirs, made, failures>>

\* _save: a temporary file takes the place of the registry.
Save(state) == file' = state

-----------------------------------------------------------------------------
(* WorldManager.create, under the manager's own lock.                      *)

Free(i, worlds) == \A w \in DOMAIN worlds : Ports(i) \cap Ports(worlds[w]) = {}

\* Mutant: the number after the last one is taken, whatever its ports.
NextToLast(i, worlds) == /\ \A w \in DOMAIN worlds : i > worlds[w]
                         /\ \E w \in DOMAIN worlds : i = worlds[w] + 1

\* _next_ports: the first number whose ports are all free.
NextSlot(i, worlds) == Free(i, worlds) /\ \A j \in 0..i - 1 : ~Free(j, worlds)

\* Mutant: one of the three ports is looked at.
InRangeLowest(i) == \E b \in Ports(i) : b <= MaxPort

\* "沒有可用的世界連接埠"
InRange(i) == \A b \in Ports(i) : b <= MaxPort

\* Mutant: only the registry is asked whether a name is in use.
NewToRegistry(n) == n \notin DOMAIN copies["web"].worlds

\* "世界名稱已存在", "世界目錄已存在"
NewName(n) == n \notin DOMAIN copies["web"].worlds /\ n \notin DOMAIN dirs

\* The checks pass and the directories are made; a name or a port refused changes nothing, and
\* the directories made before one that cannot be made stay.
Create(n) == /\ "web" \in running /\ making = Nobody /\ NewName(n)
             /\ \E i \in 0..MaxPort : /\ NextSlot(i, copies["web"].worlds) /\ InRange(i)
                                      /\ dirs' = With(dirs, n, i)
                                      /\ \/ making' = n /\ slot' = i /\ UNCHANGED failures
                                         \/ Failure /\ UNCHANGED <<making, slot>>
             /\ UNCHANGED <<file, running, copies, made, restarts>>

\* except Exception: shutil.rmtree
Cleanup == Without(dirs, making)

\* The server is copied and the configuration written and read back; then the world enters the
\* process's registry and the registry is saved.
Finish ==
  /\ making # Nobody /\ making' = Nobody /\ slot' = 0
  /\ \/ Failure /\ dirs' = Cleanup /\ UNCHANGED <<file, copies, made>>
     \/ /\ copies' = [copies EXCEPT !["web"].worlds = With(@, making, slot)]
        /\ \/ Save(copies'["web"]) /\ made' = With(made, making, slot) /\ UNCHANGED <<dirs, failures>>
           \/ Failure /\ dirs' = Cleanup /\ UNCHANGED <<file, made>>
  /\ UNCHANGED <<running, restarts>>

-----------------------------------------------------------------------------
(* WorldManager.set_default, from either process; in the panel it waits    *)
(* for a world that is being made.                                         *)

\* Mutant: any name is taken.
Nameable(p) == Worlds

\* The worlds a process knows.
Known(p) == DOMAIN copies[p].worlds

\* self.world(name) looks up "name or self.default_world", but what is stored is the name.
SetDefault(p, n) ==
  /\ p \in running /\ (p = "web" => making = Nobody)
  /\ (IF n = Unnamed THEN copies[p].default ELSE n) \in Known(p)
  /\ copies' = [copies EXCEPT ![p].default = n]
  /\ \/ Save(copies'[p]) /\ UNCHANGED failures
     \/ Failure /\ UNCHANGED file
  /\ UNCHANGED <<running, making, slot, dirs, made, restarts>>

-----------------------------------------------------------------------------

RegistryNext == \/ \E p \in Procs : Start(p) \/ Die(p) \/ (\E n \in Worlds \cup {Unnamed} : SetDefault(p, n))
                \/ (\E n \in WorldNames : Create(n)) \/ Finish

RegistrySpec == RegistryInit /\ [][RegistryNext]_registryVars

-----------------------------------------------------------------------------
(* Correctness.                                                            *)

Numbers == {i \in 0..MaxPort : \A b \in Ports(i) : b <= MaxPort}

IsRegistry(r) == /\ DOMAIN r = {"default", "worlds"} /\ r.default \in Worlds \cup {Unnamed}
                 /\ DOMAIN r.worlds \subseteq Worlds /\ \A w \in DOMAIN r.worlds : r.worlds[w] \in Numbers

RegistryTypeOK ==
  /\ IsRegistry(file) /\ running \subseteq Procs
  /\ DOMAIN copies = Procs /\ \A p \in Procs : IsRegistry(copies[p])
  /\ making \in WorldNames \cup {Nobody} /\ slot \in Numbers
  /\ DOMAIN dirs \subseteq WorldNames /\ \A w \in DOMAIN dirs : dirs[w] \in Numbers
  /\ DOMAIN made \subseteq WorldNames /\ \A w \in DOMAIN made : made[w] \in Numbers
  /\ failures \in 0..MaxFailures /\ restarts \in 0..MaxRestarts

\* The registry never selects a world that it lacks, whoever saved it last: no save carries the
\* choice of one process into the list of the other.
SelectionListed == file # NoFile => file.default \in DOMAIN file.worlds \cup {Unnamed}

\* No two worlds of a registry share a port, in the file or in a process, though each process
\* saves over the other and a save may fail.
Disjoint(worlds) == \A v, w \in DOMAIN worlds : v # w => Ports(worlds[v]) \cap Ports(worlds[w]) = {}
PortsDisjoint == Disjoint(file.worlds) /\ \A p \in running : Disjoint(copies[p].worlds)

\* A world that create returned keeps its configuration, with the ports it was given, through
\* every later failure, restart and attempt to create it again.
MadeIsKept == \A n \in DOMAIN made : n \in DOMAIN dirs /\ dirs[n] = made[n]

-----------------------------------------------------------------------------
(* Known not to hold: with this formula as its INVARIANT a run shows how.  *)

\* "Persistent multi-world registry": what create returned stays in the registry.
MadeIsRegistered == \A n \in DOMAIN made : n \in DOMAIN file.worlds

\* A process that starts accepts the registry that another, or itself, has saved.
Loadable == file # NoFile => Selects(file)
=============================================================================
