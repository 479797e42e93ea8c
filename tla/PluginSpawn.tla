---------------------------- MODULE PluginSpawn ----------------------------
(***************************************************************************)
(* Who holds which pipe: spawnPlugin of client.cpp, called by the threads  *)
(* of one frontend, and the processes it forks.                            *)
(*                                                                         *)
(* Two ends of pipes matter.  A plugin exits when nobody holds the write   *)
(* end of its stdin any more, and launch returns when nobody holds the     *)
(* write end of the pipe that reports a failed exec.  fork copies every    *)
(* descriptor of the frontend, exec drops those marked close-on-exec, and  *)
(* a process that ends drops them all.  Rust's Command creates its pipes   *)
(* with the mark, which Cloexec stands for.                                *)
(***************************************************************************)
EXTENDS Naturals, FiniteSets

CONSTANTS
  Launches,    \* the plugins launched, one CaptureClient each
  Frontend,    \* the process that launches them
  Styles       \* the kinds of frontend there are, see style

ASSUME SpawnAssumption ==
  /\ Frontend \notin Launches
  /\ Styles \subseteq {"rust", "sequential", "concurrent"}

VARIABLES
  style,     \* Rust, or C++ with launches one at a time or on many threads
  launcher,  \* where the thread launching each plugin is
  plugin,    \* the process of each plugin
  held,      \* the write ends each process holds
  marked,    \* those of them that are close-on-exec
  alive      \* the frontend process has not died

vars == <<style, launcher, plugin, held, marked, alive>>

Concurrent == style # "sequential"
Cloexec == style = "rust"

Processes == Launches \cup {Frontend}
Stdin(l) == <<"stdin", l>>
Err(l)   == <<"err", l>>
WriteEnds == {Stdin(l) : l \in Launches} \cup {Err(l) : l \in Launches}

InProgress == {"stdinpipe", "errpipe", "marked", "forked", "reading"}

TypeOK ==
  /\ style \in Styles
  /\ launcher \in [Launches -> InProgress \cup {"idle", "launched", "failed", "shut"}]
  /\ plugin \in [Launches -> {"none", "forked", "running", "unexecuted", "exited"}]
  /\ held \in [Processes -> SUBSET WriteEnds]
  /\ \A p \in Processes : marked[p] \subseteq held[p]
  /\ alive \in BOOLEAN

Init ==
  /\ style \in Styles
  /\ launcher = [l \in Launches |-> "idle"]
  /\ plugin = [l \in Launches |-> "none"]
  /\ held = [p \in Processes |-> {}]
  /\ marked = [p \in Processes |-> {}]
  /\ alive = TRUE

-----------------------------------------------------------------------------
(* One call of spawnPlugin, on the launching thread.                       *)

Steps(l, from, to) ==
  /\ alive
  /\ launcher[l] = from
  /\ launcher' = [launcher EXCEPT ![l] = to]

Opens(end) ==
  /\ held' = [held EXCEPT ![Frontend] = @ \cup {end}]
  /\ marked' = IF Cloexec THEN [marked EXCEPT ![Frontend] = @ \cup {end}] ELSE marked

(* The frontend drops a write end, and with it the mark.                   *)
Closes(end) ==
  /\ held' = [held EXCEPT ![Frontend] = @ \ {end}]
  /\ marked' = [marked EXCEPT ![Frontend] = @ \ {end}]

StdinPipe(l) ==
  /\ Concurrent \/ \A m \in Launches : launcher[m] \notin InProgress
  /\ Steps(l, "idle", "stdinpipe")
  /\ Opens(Stdin(l))
  /\ UNCHANGED <<style, plugin, alive>>

ErrPipe(l) ==
  /\ Steps(l, "stdinpipe", "errpipe")
  /\ Opens(Err(l))
  /\ UNCHANGED <<style, plugin, alive>>

(* Variant: the throw is missing and the call goes on.                     *)
ErrPipeFailsGoesOn(l) ==
  /\ Steps(l, "stdinpipe", "errpipe")
  /\ Closes(Stdin(l))
  /\ UNCHANGED <<style, plugin, alive>>

(* The second pipe cannot be made: the first is closed.                    *)
ErrPipeFails(l) ==
  /\ Steps(l, "stdinpipe", "failed")
  /\ Closes(Stdin(l))
  /\ UNCHANGED <<style, plugin, alive>>

MarkErrPipe(l) ==
  /\ Steps(l, "errpipe", "marked")
  /\ marked' = [marked EXCEPT ![Frontend] = @ \cup {Err(l)}]
  /\ UNCHANGED <<style, plugin, held, alive>>

(* The child has every descriptor the frontend has at this moment.         *)
Fork(l) ==
  /\ Steps(l, "marked", "forked")
  /\ plugin' = [plugin EXCEPT ![l] = "forked"]
  /\ held' = [held EXCEPT ![l] = held[Frontend]]
  /\ marked' = [marked EXCEPT ![l] = marked[Frontend]]
  /\ UNCHANGED <<style, alive>>

(* Variant: the parent keeps its copy of the error pipe's write end.       *)
ParentKeepsErr(l) ==
  /\ Steps(l, "forked", "reading")
  /\ UNCHANGED <<style, plugin, held, marked, alive>>

ParentCloses(l) ==
  /\ Steps(l, "forked", "reading")
  /\ Closes(Err(l))
  /\ UNCHANGED <<style, plugin, alive>>

(* fork fails: the throw of spawnPlugin closes both pipes.                 *)
ForkFails(l) ==
  /\ Steps(l, "marked", "failed")
  /\ held' = [held EXCEPT ![Frontend] = @ \ {Stdin(l), Err(l)}]
  /\ marked' = [marked EXCEPT ![Frontend] = @ \ {Stdin(l), Err(l)}]
  /\ UNCHANGED <<style, plugin, alive>>

(* read returns 0: no process has the write end any more.                  *)
LaunchSucceeds(l) ==
  /\ plugin[l] # "unexecuted"
  /\ \A p \in Processes : Err(l) \notin held[p]
  /\ Steps(l, "reading", "launched")
  /\ UNCHANGED <<style, plugin, held, marked, alive>>

(* read returns the errno of a failed exec.                                *)
LaunchFails(l) ==
  /\ plugin[l] = "unexecuted"
  /\ Steps(l, "reading", "failed")
  /\ plugin' = [plugin EXCEPT ![l] = "exited"]
  /\ Closes(Stdin(l))
  /\ UNCHANGED <<style, alive>>

-----------------------------------------------------------------------------
(* The client of a launched plugin.                                        *)

(* terminate: close stdin, kill, reap.                                     *)
Terminate(l) ==
  /\ Steps(l, "launched", "shut")
  /\ plugin' = [plugin EXCEPT ![l] = "exited"]
  /\ held' = [held EXCEPT ![Frontend] = @ \ {Stdin(l)}, ![l] = {}]
  /\ marked' = [marked EXCEPT ![Frontend] = @ \ {Stdin(l)}, ![l] = {}]
  /\ UNCHANGED <<style, alive>>

FrontendDies ==
  /\ alive
  /\ alive' = FALSE
  /\ held' = [held EXCEPT ![Frontend] = {}]
  /\ marked' = [marked EXCEPT ![Frontend] = {}]
  /\ UNCHANGED <<style, launcher, plugin>>

-----------------------------------------------------------------------------
(* The child, and the plugin it becomes.                                   *)

Ends(l, state) ==
  /\ plugin' = [plugin EXCEPT ![l] = state]
  /\ held' = [held EXCEPT ![l] = {}]
  /\ marked' = [marked EXCEPT ![l] = {}]
  /\ UNCHANGED <<style, launcher, alive>>

(* Variant: the child does not close its copy of its own stdin's end.      *)
ExecKeepsStdin(l) ==
  /\ plugin[l] = "forked"
  /\ plugin' = [plugin EXCEPT ![l] = "running"]
  /\ held' = [held EXCEPT ![l] = @ \ marked[l]]
  /\ marked' = [marked EXCEPT ![l] = {}]
  /\ UNCHANGED <<style, launcher, alive>>

Exec(l) ==
  /\ plugin[l] = "forked"
  /\ plugin' = [plugin EXCEPT ![l] = "running"]
  /\ held' = [held EXCEPT ![l] = @ \ (marked[l] \cup {Stdin(l)})]
  /\ marked' = [marked EXCEPT ![l] = {}]
  /\ UNCHANGED <<style, launcher, alive>>

(* execvp fails: the errno goes into the pipe and the child is gone.       *)
ExecFails(l) == plugin[l] = "forked" /\ Ends(l, "unexecuted")

(* exit_on_stdin_eof.                                                      *)
ExitOnStdinEof(l) ==
  /\ plugin[l] = "running"
  /\ \A p \in Processes : Stdin(l) \notin held[p]
  /\ Ends(l, "exited")

(* The plugin ends for a reason of its own.                                *)
PluginExits(l) == plugin[l] = "running" /\ Ends(l, "exited")

-----------------------------------------------------------------------------
LaunchStep(l) ==
  \/ ErrPipe(l) \/ ErrPipeFails(l) \/ MarkErrPipe(l) \/ Fork(l) \/ ForkFails(l)
  \/ ParentCloses(l)
  \/ LaunchSucceeds(l) \/ LaunchFails(l)

ChildStep(l) == Exec(l) \/ ExecFails(l) \/ ExitOnStdinEof(l)

Next ==
  \/ \E l \in Launches :
       StdinPipe(l) \/ LaunchStep(l) \/ Terminate(l) \/ ChildStep(l) \/ PluginExits(l)
  \/ FrontendDies

(* Threads and processes run; no launch has to begin, nobody has to die.   *)
Spec ==
  /\ Init /\ [][Next]_vars
  /\ \A l \in Launches : WF_vars(LaunchStep(l)) /\ WF_vars(ChildStep(l))

-----------------------------------------------------------------------------
(* No plugin outlives its frontend: the OS closes the frontend's end of    *)
(* the pipe and the plugin exits on EOF (client.h:83-84, client.rs:55-56). *)
NoOrphans ==
  ~alive ~> \A l \in Launches : plugin[l] \in {"none", "unexecuted", "exited"}

(* launch returns once it has forked: the child runs or has reported why   *)
(* not (client.cpp:55-56).                                                 *)
LaunchReturns ==
  \A l \in Launches :
    launcher[l] = "reading" ~> launcher[l] # "reading" \/ ~alive

(* What NoOrphans rests on: the running plugins cannot keep each other     *)
(* alive, there is always one whose stdin none of the others holds.        *)
NoEmbrace ==
  \A S \in SUBSET {l \in Launches : plugin[l] = "running"} :
    S # {} => \E l \in S : \A m \in S : Stdin(l) \notin held[m]

=============================================================================
