------------------------------ MODULE Machine --------------------------------
(***************************************************************************)
(* One machine: the kernel module from insmod to rmmod                     *)
(* (src/src/main_module.c, hello_init and hello_exit), its four /proc      *)
(* files, the scripts that load and unload it and the programs that run    *)
(* beside it (scripts/lifenet_start, scripts/lifenet_stop), with packets   *)
(* arriving and leaving between any two steps.                             *)
(***************************************************************************)
EXTENDS PathReport, Sequences

CONSTANTS
  Session,      \* session ids of the packets that arrive
  Daemons,      \* the programs lifenet_start starts
  Lines,        \* entries that fit in the page of a reader of /proc/wdl
  Plans         \* what a behaviour may do: scripts run, packets received, and
                \* the programs that are started

ProcFile == {"wdl", "rxstats", "txstats", "distance"}
Lists == {"stat", "distance"}
Stage == {"top", "busy"}

ASSUME MachineAssumption ==
  /\ Session \subseteq Nat /\ Lines \subseteq Nat \ {0}
  /\ Plans \subseteq [scripts : Nat, packets : Nat, programs : SUBSET Daemons]

VARIABLES
  module,     \* "absent", "starting", "live", "bare" (loaded without a device),
              \* "leaving" (hello_exit) or "stuck" (died inside hello_init)
  step,       \* where hello_init or hello_exit stands
  onExit,     \* what the module is once hello_exit has returned
  device,     \* device_name: "found", "missing" or "unnamed"
  listening,  \* manifold_ptype is registered
  hooked,     \* the driver's transmit function is wdl_hard_start_xmit
  served,     \* /proc entries of this instance of the module
  leftover,   \* /proc entries of an instance that is gone
  lists,      \* stat_head and distance_head where they are not NULL
  dangling,   \* those whose entries hello_exit has freed
  faults,     \* history: what went wrong in the kernel
  running,    \* copies of each program, about to look at lsmod or at work
  script,     \* "idle", "start", "loading" or "stop"
  plan

machineVars == <<module, step, onExit, device, listening, hooked, served, leftover,
                 lists, dangling, faults, running, script, plan>>
kernelVars == <<module, step, onExit, device, listening, hooked, served, leftover,
                lists, dangling, faults>>
userVars == <<running, script, plan>>
vars == <<pathVars, machineVars>>

Init ==
  /\ PathInit
  /\ module = "absent" /\ step = "none" /\ onExit = "absent" /\ device = "found"
  /\ listening = FALSE /\ hooked = FALSE /\ served = {} /\ leftover = {}
  /\ lists = {} /\ dangling = {} /\ faults = {}
  /\ running = [d \in Daemons |-> [s \in Stage |-> 0]]
  /\ script = "idle" /\ plan \in Plans

Up == cpu # "panic"
\* d, the network device: the readers of the /proc files ask for it first.
Known == device = "found" /\ module \in {"live", "leaving"}
\* A process runs only when no read of /proc/wdl is inside the kernel.
Scheduled == cpu = "idle"

------------------------------------------------------------------------------
(* Packets, and what a handler or a reader does to a list                  *)

\* The list l is walked, and gets an entry if add holds.
Walk(l, add) ==
  /\ lists' = IF add THEN lists \cup {l} ELSE lists
  /\ faults' = faults
       \cup (IF l \in dangling THEN {"freed list"} ELSE {})
       \cup (IF module = "absent" THEN {"unloaded code"} ELSE {})

\* wdl_handle_recieve, as far as other parts of the machine notice
Receive ==
  /\ Up /\ listening /\ plan.packets > 0
  /\ plan' = [plan EXCEPT !.packets = @ - 1]
  /\ Walk("stat", TRUE)
  /\ \E p \in Path, s \in Session : CountPacket(p, s) \/ CountWhileFreeing(p, s)
  /\ UNCHANGED <<module, step, onExit, device, listening, hooked, served, leftover,
                 dangling, running, script>>

\* wdl_hard_start_xmit
Transmit ==
  /\ Up /\ hooked
  /\ Walk("stat", TRUE)
  /\ UNCHANGED <<pathVars, module, step, onExit, device, listening, hooked, served,
                 leftover, dangling, userVars>>

\* rxstats_read and txstats_read
ReadStats == IF Known THEN Walk("stat", FALSE) ELSE UNCHANGED <<lists, faults>>

\* distance_read
ReadDistances == IF Known THEN Walk("distance", FALSE) ELSE UNCHANGED <<lists, faults>>

------------------------------------------------------------------------------
(* hello_init                                                              *)

\* insmod: the module's memory is new, and it listens from the start.
Insmod(name) ==
  /\ module = "absent"
  /\ module' = "starting" /\ step' = "wdl" /\ device' = name
  /\ onExit' = "absent" /\ listening' = TRUE
  /\ lists' = {} /\ dangling' = {}
  /\ list' = NoPaths /\ resumed' = FALSE /\ printed' = {} /\ freed' = {}
  /\ count' = 0 /\ leaked' = 0
  /\ UNCHANGED <<cpu, noted, reported, hooked, served, leftover, faults>>

NextStep(file) ==
  [wdl |-> "rxstats", rxstats |-> "txstats", txstats |-> "distance",
   distance |-> "device"][file]

\* create_proc_entry; without memory for it hello_exit arms a timer that was
\* never initialised, and insmod dies there.
CreateEntry(file) ==
  /\ Scheduled /\ module = "starting" /\ step = file
  /\ \/ served' = served \cup {file} /\ step' = NextStep(file)
        /\ UNCHANGED <<module, faults>>
     \/ module' = "stuck" /\ faults' = faults \cup {"no timer"}
        /\ UNCHANGED <<served, step>>
  /\ UNCHANGED <<pathVars, onExit, device, listening, hooked, leftover, lists,
                 dangling, userVars>>

\* The end of hello_init.  Without a name the module stays loaded after its own
\* hello_exit; a missing device is dereferenced after it.
TakeDevice ==
  /\ Scheduled /\ module = "starting" /\ step = "device"
  /\ IF device = "found"
     THEN module' = "live" /\ hooked' = TRUE /\ step' = "none" /\ UNCHANGED onExit
     ELSE /\ module' = "leaving" /\ step' = "unhook" /\ UNCHANGED hooked
          /\ onExit' = IF device = "unnamed" THEN "bare" ELSE "stuck"
  /\ UNCHANGED <<pathVars, device, listening, served, leftover, lists, dangling,
                 faults, userVars>>

------------------------------------------------------------------------------
(* hello_exit                                                              *)

Exit(from, to) == Scheduled /\ module = "leaving" /\ step = from /\ step' = to

\* Mutant: the driver keeps the module's transmit function
ExitKeepsHook ==
  /\ Exit("unhook", "deaf")
  /\ UNCHANGED <<pathVars, module, onExit, device, listening, hooked, served,
                 leftover, lists, dangling, faults, userVars>>

\* The timer is stopped and the driver gets its transmit function back.
ExitUnhook ==
  /\ Exit("unhook", "deaf")
  /\ hooked' = FALSE
  /\ UNCHANGED <<pathVars, module, onExit, device, listening, served, leftover,
                 lists, dangling, faults, userVars>>

\* dev_remove_pack
ExitDeaf ==
  /\ Exit("deaf", "files")
  /\ listening' = FALSE
  /\ UNCHANGED <<pathVars, module, onExit, device, hooked, served, leftover, lists,
                 dangling, faults, userVars>>

\* remove_proc_entry for three of the four files
ExitFiles ==
  /\ Exit("files", "free distances")
  /\ served' = served \ {"wdl", "rxstats", "txstats"}
  /\ UNCHANGED <<pathVars, module, onExit, device, listening, hooked, leftover, lists,
                 dangling, faults, userVars>>

\* The loops leave the heads of the lists as they are: a second hello_exit of
\* the same instance finds them again.  The path list is not freed.
FreeList(l) ==
  /\ dangling' = dangling \cup ({l} \cap lists)
  /\ faults' = IF l \in dangling THEN faults \cup {"double free"} ELSE faults
  /\ UNCHANGED <<pathVars, onExit, device, listening, hooked, lists, userVars>>

\* free_entire_distance_list
ExitFreeDistances ==
  /\ Exit("free distances", "free stats")
  /\ FreeList("distance")
  /\ UNCHANGED <<module, served, leftover>>

\* free_entire_stat_list
ExitFreeStats ==
  /\ Exit("free stats", "return")
  /\ FreeList("stat")
  /\ UNCHANGED <<module, served, leftover>>

\* To rmmod, which takes the code away, or back to hello_init
ExitReturn ==
  /\ Exit("return", "none")
  /\ module' = onExit
  /\ faults' = IF onExit = "stuck" THEN faults \cup {"no device"} ELSE faults
  /\ IF onExit = "absent"
     THEN leftover' = leftover \cup served /\ served' = {}
     ELSE UNCHANGED <<leftover, served>>
  /\ UNCHANGED <<pathVars, onExit, device, listening, hooked, lists, dangling, userVars>>

------------------------------------------------------------------------------
(* lifenet_start and lifenet_stop                                          *)

\* Both begin with rmmod, which a module that is not there or is stuck refuses.
RunScript(kind) ==
  /\ Scheduled /\ script = "idle" /\ plan.scripts > 0
  /\ script' = kind
  /\ plan' = [plan EXCEPT !.scripts = @ - 1]
  /\ IF module \in {"live", "bare"}
     THEN module' = "leaving" /\ step' = "unhook" /\ onExit' = "absent"
     ELSE UNCHANGED <<module, step, onExit>>
  /\ UNCHANGED <<pathVars, device, listening, hooked, served, leftover, lists,
                 dangling, faults, running>>

ScriptInsmod ==
  /\ Scheduled /\ script = "start"
  /\ \/ /\ \E name \in {"found", "missing", "unnamed"} : Insmod(name)
        /\ script' = "loading"
     \/ /\ module = "stuck" /\ script' = "idle"
        /\ UNCHANGED <<pathVars, kernelVars>>
  /\ UNCHANGED <<running, plan>>

\* An insmod that prints nothing is taken for a success; programs that still
\* run since an earlier start are not looked for.
ScriptLaunch ==
  /\ Scheduled /\ script = "loading" /\ module \in {"live", "bare", "stuck"}
  /\ script' = "idle"
  /\ running' = IF module = "stuck" THEN running
                ELSE [d \in Daemons |-> IF d \in plan.programs
                                        THEN [running[d] EXCEPT !["top"] = @ + 1]
                                        ELSE running[d]]
  /\ UNCHANGED <<pathVars, kernelVars, plan>>

ScriptKill ==
  /\ Scheduled /\ script = "stop" /\ module \in {"absent", "stuck"}
  /\ script' = "idle"
  /\ running' = [d \in Daemons |->
       IF d \in {"inject", "sniff"} THEN [s \in Stage |-> 0] ELSE running[d]]
  /\ UNCHANGED <<pathVars, kernelVars, plan>>

------------------------------------------------------------------------------
(* The programs beside the module                                          *)

Moves(d, from, to) ==
  running' = [running EXCEPT ![d][from] = @ - 1, ![d][to] = @ + 1]
Dies(d, from) == running' = [running EXCEPT ![d][from] = @ - 1]

\* Mutant: the loop does not ask lsmod
NeverAsks(d) == d \in Daemons

\* lsmod | grep manifold
Continues(d) == module # "absent"

CheckLsmod(d) ==
  /\ Scheduled /\ running[d]["top"] > 0
  /\ IF Continues(d) THEN Moves(d, "top", "busy") ELSE Dies(d, "top")
  /\ UNCHANGED <<pathVars, kernelVars, script, plan>>

\* pathtracelogger wakes up and reads one page of /proc/wdl.
LogPaths ==
  /\ Scheduled /\ running["pathtracelogger"]["busy"] > 0
  /\ Moves("pathtracelogger", "busy", "top")
  /\ IF "wdl" \in served /\ Known THEN \E n \in Lines : ReadPage(n) ELSE UNCHANGED pathVars
  /\ UNCHANGED <<kernelVars, script, plan>>

\* What /proc/distance leads to is gone: its list, or the module's code.
StaleEntry ==
  \/ Known /\ "distance" \in served /\ "distance" \in dangling
  \/ "distance" \in leftover \ served

\* commandlistener copies /proc/distance, the file that hello_exit forgets: it
\* shows a list that is already freed, or calls code that is no longer there.
CopyDistances ==
  /\ Scheduled /\ running["commandlistener"]["busy"] > 0
  /\ Moves("commandlistener", "busy", "top")
  /\ IF StaleEntry
     THEN faults' = faults \cup {"leftover entry"} /\ UNCHANGED lists
     ELSE IF "distance" \in served THEN ReadDistances ELSE UNCHANGED <<lists, faults>>
  /\ UNCHANGED <<pathVars, module, step, onExit, device, listening, hooked, served,
                 leftover, dangling, script, plan>>

\* inject reads /proc/rxstats and /proc/txstats and ends if it cannot.
PackStats ==
  /\ Scheduled /\ running["inject"]["busy"] > 0
  /\ IF "txstats" \in served
     THEN Moves("inject", "busy", "top") /\ ReadStats
     ELSE Dies("inject", "busy") /\ UNCHANGED <<lists, faults>>
  /\ UNCHANGED <<pathVars, module, step, onExit, device, listening, hooked, served,
                 leftover, dangling, script, plan>>

\* sniff writes a distance to /proc/wdl (add_or_update_entry).
WriteDistance ==
  /\ Scheduled /\ running["sniff"]["busy"] > 0
  /\ Moves("sniff", "busy", "top")
  /\ IF "wdl" \in served THEN Walk("distance", TRUE) ELSE UNCHANGED <<lists, faults>>
  /\ UNCHANGED <<pathVars, module, step, onExit, device, listening, hooked, served,
                 leftover, dangling, script, plan>>

Work(d) ==
  \/ d = "pathtracelogger" /\ LogPaths
  \/ d = "commandlistener" /\ CopyDistances
  \/ d = "inject" /\ PackStats
  \/ d = "sniff" /\ WriteDistance

Free == (FreeNext \/ FreeDone) /\ UNCHANGED machineVars

Next ==
  \/ Receive \/ Transmit \/ Free
  \/ \E file \in ProcFile : CreateEntry(file)
  \/ TakeDevice \/ ExitUnhook \/ ExitDeaf \/ ExitFiles
  \/ ExitFreeDistances \/ ExitFreeStats \/ ExitReturn
  \/ \E kind \in {"start", "stop"} : RunScript(kind)
  \/ ScriptInsmod \/ ScriptLaunch \/ ScriptKill
  \/ \E d \in Daemons : CheckLsmod(d) \/ Work(d)

\* A program that can run is run at last, and a read in the kernel returns.
Fairness ==
  /\ WF_vars(Free)
  /\ \A d \in Daemons : WF_vars(CheckLsmod(d)) /\ WF_vars(Work(d))

Spec == Init /\ [][Next]_vars /\ Fairness

------------------------------------------------------------------------------
TypeOK ==
  /\ PathTypeOK
  /\ module \in {"absent", "starting", "live", "bare", "leaving", "stuck"}
  /\ step \in ProcFile \cup {"none", "device", "unhook", "deaf", "files", "free distances",
                               "free stats", "return"}
  /\ onExit \in {"absent", "bare", "stuck"}
  /\ device \in {"found", "missing", "unnamed"}
  /\ listening \in BOOLEAN /\ hooked \in BOOLEAN
  /\ served \subseteq ProcFile /\ leftover \subseteq ProcFile
  /\ lists \subseteq Lists /\ dangling \subseteq Lists
  /\ faults \subseteq {"freed list", "unloaded code", "no timer", "no device",
                       "double free", "leftover entry"}
  /\ running \in [Daemons -> [Stage -> Nat]]
  /\ script \in {"idle", "start", "loading", "stop"}
  /\ plan \in [scripts : Nat, packets : Nat, programs : SUBSET Daemons]

(***************************************************************************)
(* hello_exit frees the lists only when nothing that it takes away can     *)
(* reach them: whatever packets and readers do between its steps, and in   *)
(* whatever way the module was loaded before, no packet handler, transmit  *)
(* or reader of an entry it removes walks a freed list or runs code that   *)
(* was unloaded (main_module.c, 684-716).  /proc/distance, which it leaves *)
(* behind, does lead a reader into both: StaleEntry, recorded as a fault   *)
(* of its own and excepted here, as are the faults of the failed loads.    *)
(***************************************************************************)
UnloadIsSafe == faults \cap {"freed list", "unloaded code"} = {}

(***************************************************************************)
(* When the module stays unloaded, every program that was started beside   *)
(* it ends, the copies of earlier starts too                               *)
(* (path_trace_logger.c, 63; CommandListener/main.c, 28; inject.c, 70).    *)
(***************************************************************************)
DaemonsEnd ==
  <>[](module = "absent") => \A d \in Daemons : <>[](\A s \in Stage : running[d][s] = 0)
==============================================================================
