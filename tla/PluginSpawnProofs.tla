------------------------- MODULE PluginSpawnProofs -------------------------
(***************************************************************************)
(* Theorems about PluginSpawn, for any number of launches: running plugins *)
(* cannot keep each other alive.  Pipes that are close-on-exec from birth, *)
(* as Rust's are, leave a plugin no descriptor of another launch.  Without *)
(* the mark it is the launches being one at a time that matters: nobody    *)
(* holds the stdin of the plugin that was launched last.                   *)
(***************************************************************************)
EXTENDS PluginSpawn, TLAPS

-----------------------------------------------------------------------------
(* Pipes that are close-on-exec from birth.                                *)

(* Everything a process holds is close-on-exec, and a running plugin holds *)
(* nothing.                                                                *)
AllMarked ==
  /\ style = "rust"
  /\ plugin \in [Launches -> {"none", "forked", "running", "unexecuted", "exited"}]
  /\ held \in [Processes -> SUBSET WriteEnds]
  /\ marked \in [Processes -> SUBSET WriteEnds]
  /\ \A p \in Processes : held[p] \subseteq marked[p]
  /\ \A l \in Launches : plugin[l] = "running" => held[l] = {}

(* The two kinds of process are apart, and the ends of a launch are ends.  *)
LEMMA Kinds ==
  /\ Frontend \in Processes /\ Launches \subseteq Processes
  /\ Frontend \notin Launches
  /\ \A l \in Launches : Stdin(l) \in WriteEnds /\ Err(l) \in WriteEnds
BY SpawnAssumption DEF Processes, WriteEnds

(* A pipe that the frontend makes is marked.                               *)
LEMMA OpensKeeps ==
  ASSUME AllMarked, NEW end \in WriteEnds, Opens(end), UNCHANGED <<style, plugin>>
  PROVE  AllMarked'
<1>1. /\ held' = [held EXCEPT ![Frontend] = @ \cup {end}]
      /\ marked' = [marked EXCEPT ![Frontend] = @ \cup {end}]
  BY DEF AllMarked, Opens, Cloexec
<1> QED
  BY <1>1, Kinds DEF AllMarked

(* An end that the frontend closes is neither held nor marked.             *)
LEMMA ClosesKeeps ==
  ASSUME AllMarked, NEW end, Closes(end), style' = style,
         \/ plugin' = plugin
         \/ \E l \in Launches : plugin' = [plugin EXCEPT ![l] = "exited"]
  PROVE  AllMarked'
BY Kinds DEF AllMarked, Closes

(* The frontend's steps in spawnPlugin.                                    *)
LEMMA LaunchKeeps ==
  ASSUME AllMarked, NEW l \in Launches, StdinPipe(l) \/ LaunchStep(l)
  PROVE  AllMarked'
<1>1. CASE StdinPipe(l)
  BY <1>1, OpensKeeps, Kinds DEF StdinPipe
<1>2. CASE ErrPipe(l)
  BY <1>2, OpensKeeps, Kinds DEF ErrPipe
<1>3. CASE ErrPipeFails(l)
  BY <1>3, ClosesKeeps DEF ErrPipeFails
<1>4. CASE MarkErrPipe(l)
  BY <1>4, Kinds DEF MarkErrPipe, AllMarked
<1>5. CASE Fork(l)
  BY <1>5, Kinds DEF Fork, AllMarked
<1>6. CASE ForkFails(l)
  BY <1>6, Kinds DEF ForkFails, AllMarked
<1>7. CASE ParentCloses(l)
  BY <1>7, ClosesKeeps DEF ParentCloses
<1>8. CASE LaunchSucceeds(l)
  BY <1>8 DEF LaunchSucceeds, AllMarked
<1>9. CASE LaunchFails(l)
  BY <1>9, ClosesKeeps DEF LaunchFails
<1> QED
  BY <1>1, <1>2, <1>3, <1>4, <1>5, <1>6, <1>7, <1>8, <1>9 DEF LaunchStep

(* A process that ends drops everything.                                   *)
LEMMA EndsKeeps ==
  ASSUME AllMarked, NEW l \in Launches,
         Ends(l, "unexecuted") \/ Ends(l, "exited")
  PROVE  AllMarked'
BY Kinds DEF Ends, AllMarked

(* The child's steps, and the ends of processes.                           *)
LEMMA OthersKeep ==
  ASSUME AllMarked,
         \/ \E l \in Launches : Terminate(l) \/ ChildStep(l) \/ PluginExits(l)
         \/ FrontendDies
  PROVE  AllMarked'
<1>1. ASSUME NEW l \in Launches, Terminate(l) PROVE AllMarked'
  BY <1>1, Kinds DEF Terminate, AllMarked
<1>2. ASSUME NEW l \in Launches, Exec(l) PROVE AllMarked'
  BY <1>2, Kinds DEF Exec, AllMarked
<1>3. ASSUME NEW l \in Launches, ExecFails(l) \/ ExitOnStdinEof(l) \/ PluginExits(l)
      PROVE  AllMarked'
  BY <1>3, EndsKeeps DEF ExecFails, ExitOnStdinEof, PluginExits
<1>4. CASE FrontendDies
  BY <1>4, Kinds DEF FrontendDies, AllMarked
<1> QED
  BY <1>1, <1>2, <1>3, <1>4 DEF ChildStep

-----------------------------------------------------------------------------
(* Launches one at a time.                                                 *)

(* What is known of the places a launch goes through.                      *)
Places ==
  /\ style = "sequential"
  /\ alive \in BOOLEAN
  /\ launcher \in [Launches -> InProgress \cup {"idle", "launched", "failed", "shut"}]
  /\ plugin \in [Launches -> {"none", "forked", "running", "unexecuted", "exited"}]
  /\ held \in [Processes -> SUBSET WriteEnds]

(* No two launches are in progress.                                        *)
OneAtATime ==
  \A l, m \in Launches :
    launcher[l] \in InProgress /\ launcher[m] \in InProgress => l = m

(* A child that has not called exec keeps its launch waiting.              *)
ForkedIsAwaited ==
  \A l \in Launches :
    /\ alive /\ launcher[l] \in {"errpipe", "marked"} => Err(l) \in held[Frontend]
    /\ plugin[l] = "forked" =>
         /\ Err(l) \in held[l]
         /\ alive => launcher[l] \in {"forked", "reading"}

(* Until exec, no other plugin has the stdin end of a launch.              *)
NewestIsFree ==
  \A l \in Launches :
    /\ alive /\ launcher[l] = "idle" => Stdin(l) \notin held[Frontend]
    /\ (alive /\ launcher[l] \in InProgress \cup {"idle"}) \/ plugin[l] = "forked"
         => \A m \in Launches \ {l} : Stdin(l) \notin held[m]

OneByOne == Places /\ OneAtATime /\ ForkedIsAwaited /\ NewestIsFree /\ NoEmbrace

(* NoEmbrace is kept by all that lets no plugin run and gives none more.   *)
LEMMA ShrinksKeeps ==
  ASSUME NoEmbrace,
         \A l \in Launches : plugin'[l] = "running" =>
           plugin[l] = "running" /\ held'[l] \subseteq held[l]
  PROVE  NoEmbrace'
<1>1. SUFFICES ASSUME NEW S \in SUBSET {l \in Launches : plugin'[l] = "running"},
                      S # {}
               PROVE  \E l \in S : \A m \in S : Stdin(l) \notin held'[m]
  BY DEF NoEmbrace, Stdin
<1>2. S \in SUBSET {l \in Launches : plugin[l] = "running"}
  BY <1>1
<1>3. PICK l \in S : \A m \in S : Stdin(l) \notin held[m]
  BY <1>1, <1>2 DEF NoEmbrace
<1>4. \A m \in S : held'[m] \subseteq held[m]
  BY <1>1
<1> QED
  BY <1>1, <1>3, <1>4

(* The ends of pipes differ.                                               *)
LEMMA EndsDiffer ==
  /\ \A l, m \in Launches : Stdin(l) # Err(m)
  /\ \A l, m \in Launches : l # m => Stdin(l) # Stdin(m) /\ Err(l) # Err(m)
BY DEF Stdin, Err

(* The step from one place to another moves one launch only.               *)
LEMMA StepsOne ==
  ASSUME Places, NEW l \in Launches, NEW from, NEW to, Steps(l, from, to)
  PROVE  /\ alive /\ launcher[l] = from /\ launcher'[l] = to
         /\ \A m \in Launches \ {l} : launcher'[m] = launcher[m]
BY DEF Places, Steps

(* The steps before fork.                                                  *)
LEMMA PipesKeep ==
  ASSUME OneByOne, NEW l \in Launches, StdinPipe(l) \/ ErrPipe(l) \/ MarkErrPipe(l)
  PROVE  OneByOne'
<1> USE Kinds, EndsDiffer DEF OneByOne, InProgress
<1>1. CASE StdinPipe(l)
  <2>1. /\ alive /\ launcher[l] = "idle" /\ launcher'[l] = "stdinpipe"
        /\ \A m \in Launches \ {l} : launcher'[m] = launcher[m]
        /\ \A m \in Launches : launcher[m] \notin InProgress
        /\ held' = [held EXCEPT ![Frontend] = @ \cup {Stdin(l)}]
        /\ UNCHANGED <<style, plugin, alive>>
    BY <1>1, StepsOne DEF StdinPipe, Opens, Places, Concurrent
  <2>2. Places'
    BY <1>1, <2>1 DEF Places, StdinPipe, Steps
  <2>3. held'[Frontend] = held[Frontend] \cup {Stdin(l)}
        /\ \A m \in Launches : held'[m] = held[m]
    BY <2>1 DEF Places
  <2>4. OneAtATime'
    BY <2>1 DEF OneAtATime
  <2>5. ForkedIsAwaited'
    BY <2>1, <2>3 DEF ForkedIsAwaited
  <2>6. NewestIsFree'
    BY <2>1, <2>3 DEF NewestIsFree
  <2>7. NoEmbrace'
    BY <2>1, <2>3, ShrinksKeeps
  <2> QED
    BY <2>2, <2>4, <2>5, <2>6, <2>7
<1>2. CASE ErrPipe(l)
  <2>1. /\ alive /\ launcher[l] = "stdinpipe" /\ launcher'[l] = "errpipe"
        /\ \A m \in Launches \ {l} : launcher'[m] = launcher[m]
        /\ held' = [held EXCEPT ![Frontend] = @ \cup {Err(l)}]
        /\ UNCHANGED <<style, plugin, alive>>
    BY <1>2, StepsOne DEF ErrPipe, Opens
  <2>2. Places'
    BY <1>2, <2>1 DEF Places, ErrPipe, Steps
  <2>3. held'[Frontend] = held[Frontend] \cup {Err(l)}
        /\ \A m \in Launches : held'[m] = held[m]
    BY <2>1 DEF Places
  <2>4. OneAtATime'
    BY <2>1 DEF OneAtATime
  <2>5. ForkedIsAwaited'
    BY <2>1, <2>3 DEF ForkedIsAwaited
  <2>6. NewestIsFree'
    BY <2>1, <2>3 DEF NewestIsFree
  <2>7. NoEmbrace'
    BY <2>1, <2>3, ShrinksKeeps
  <2> QED
    BY <2>2, <2>4, <2>5, <2>6, <2>7
<1>3. CASE MarkErrPipe(l)
  <2>1. /\ alive /\ launcher[l] = "errpipe" /\ launcher'[l] = "marked"
        /\ \A m \in Launches \ {l} : launcher'[m] = launcher[m]
        /\ UNCHANGED <<style, plugin, alive, held>>
    BY <1>3, StepsOne DEF MarkErrPipe
  <2>2. Places'
    BY <1>3, <2>1 DEF Places, MarkErrPipe, Steps
  <2>3. OneAtATime' /\ ForkedIsAwaited' /\ NewestIsFree'
    BY <2>1 DEF OneAtATime, ForkedIsAwaited, NewestIsFree
  <2>4. NoEmbrace'
    BY <2>1, ShrinksKeeps
  <2> QED
    BY <2>2, <2>3, <2>4
<1> QED
  BY <1>1, <1>2, <1>3

(* The child gets all the frontend holds, among it no stdin end of a       *)
(* launch that is still to come.                                           *)
LEMMA ForkKeeps ==
  ASSUME OneByOne, NEW l \in Launches, Fork(l)
  PROVE  OneByOne'
<1> USE Kinds, EndsDiffer DEF OneByOne, InProgress
<1>1. /\ alive /\ launcher[l] = "marked" /\ launcher'[l] = "forked"
      /\ \A m \in Launches \ {l} : launcher'[m] = launcher[m]
      /\ held' = [held EXCEPT ![l] = held[Frontend]]
      /\ plugin' = [plugin EXCEPT ![l] = "forked"]
      /\ UNCHANGED <<style, alive>>
  BY StepsOne DEF Fork
<1>2. Places'
  BY <1>1 DEF Places, Fork, Steps
<1>3. /\ held'[Frontend] = held[Frontend] /\ held'[l] = held[Frontend]
      /\ plugin'[l] = "forked"
      /\ \A m \in Launches \ {l} : held'[m] = held[m] /\ plugin'[m] = plugin[m]
  BY <1>1 DEF Places
<1>4. OneAtATime'
  BY <1>1 DEF OneAtATime
<1>5. ForkedIsAwaited'
  BY <1>1, <1>3 DEF ForkedIsAwaited
<1>6. \A m \in Launches \ {l} :
        launcher[m] \notin InProgress /\ plugin[m] # "forked"
  BY <1>1 DEF OneAtATime, ForkedIsAwaited
<1>7. NewestIsFree'
  <2>1. ASSUME NEW m \in Launches \ {l} PROVE Stdin(l) \notin held'[m]
    <3>1. alive /\ launcher[l] \in InProgress
      BY <1>1
    <3>2. Stdin(l) \notin held[m]
      BY <3>1 DEF NewestIsFree
    <3> QED
      BY <1>3, <3>2
  <2>2. ASSUME NEW k \in Launches \ {l}, launcher[k] = "idle"
        PROVE  /\ Stdin(k) \notin held'[Frontend]
               /\ \A m \in Launches \ {k} : Stdin(k) \notin held'[m]
    <3>1. /\ Stdin(k) \notin held[Frontend]
          /\ \A m \in Launches \ {k} : Stdin(k) \notin held[m]
      BY <1>1, <2>2 DEF NewestIsFree
    <3>2. ASSUME NEW m \in Launches \ {k} PROVE Stdin(k) \notin held'[m]
      BY <1>3, <3>1
    <3> QED
      BY <1>3, <3>1, <3>2
  <2> QED
    BY <1>1, <1>3, <1>6, <2>1, <2>2 DEF NewestIsFree
<1>8. NoEmbrace'
  BY <1>3, ShrinksKeeps
<1> QED
  BY <1>2, <1>4, <1>5, <1>7, <1>8

(* Steps after which every process holds at most what it held, no launch   *)
(* has begun, no child is new and none runs that did not.                  *)
LEMMA DropsKeep ==
  ASSUME OneByOne, Places',
         alive' => alive,
         \A m \in Launches :
           /\ launcher'[m] = "idle" => launcher[m] = "idle"
           /\ launcher'[m] \in InProgress => launcher[m] \in InProgress
           /\ launcher'[m] \in {"errpipe", "marked"} => launcher'[m] = launcher[m]
           /\ plugin'[m] = "running" => plugin[m] = "running"
           /\ plugin'[m] = "forked" =>
                /\ plugin[m] = "forked" /\ held'[m] = held[m]
                /\ alive' /\ launcher[m] \in {"forked", "reading"}
                     => launcher'[m] \in {"forked", "reading"},
         \A p \in Processes : held'[p] \subseteq held[p],
         \A m \in Launches : alive' /\ launcher'[m] \in {"errpipe", "marked"}
           => Err(m) \in held'[Frontend]
  PROVE  OneByOne'
<1> USE Kinds DEF OneByOne
<1>1. OneAtATime'
  BY DEF OneAtATime
<1>2. ForkedIsAwaited'
  BY DEF ForkedIsAwaited, Err
<1>3. NewestIsFree'
  <2>1. ASSUME NEW l \in Launches, alive', launcher'[l] = "idle"
        PROVE  Stdin(l) \notin held'[Frontend]
    BY <2>1 DEF NewestIsFree
  <2>2. ASSUME NEW l \in Launches,
               \/ alive' /\ launcher'[l] \in InProgress \cup {"idle"}
               \/ plugin'[l] = "forked",
               NEW m \in Launches \ {l}
        PROVE  Stdin(l) \notin held'[m]
    <3>1. \/ alive /\ launcher[l] \in InProgress \cup {"idle"}
          \/ plugin[l] = "forked"
      BY <2>2
    <3>2. Stdin(l) \notin held[m]
      BY <3>1 DEF NewestIsFree
    <3> QED
      BY <3>2
  <2> QED
    BY <2>1, <2>2 DEF NewestIsFree, Stdin, InProgress
<1>4. NoEmbrace'
  BY ShrinksKeeps
<1> QED
  BY <1>1, <1>2, <1>3, <1>4

(* The steps that close an end or read the error pipe.                     *)
LEMMA ReadsKeep ==
  ASSUME OneByOne, NEW l \in Launches,
         ErrPipeFails(l) \/ ParentCloses(l) \/ ForkFails(l)
           \/ LaunchSucceeds(l) \/ LaunchFails(l)
  PROVE  OneByOne'
<1> USE Kinds, EndsDiffer DEF OneByOne
<1>1. /\ alive /\ alive' = alive /\ style' = style
      /\ \A m \in Launches \ {l} : launcher'[m] = launcher[m]
      /\ \/ launcher[l] = "stdinpipe" /\ launcher'[l] = "failed"
         \/ launcher[l] = "forked" /\ launcher'[l] = "reading"
         \/ launcher[l] = "marked" /\ launcher'[l] = "failed"
         \/ /\ launcher[l] = "reading" /\ launcher'[l] \in {"launched", "failed"}
            /\ plugin[l] # "forked"
  <2>1. CASE ErrPipeFails(l)
    BY <2>1, StepsOne DEF ErrPipeFails
  <2>2. CASE ParentCloses(l)
    BY <2>2, StepsOne DEF ParentCloses
  <2>3. CASE ForkFails(l)
    BY <2>3, StepsOne DEF ForkFails
  <2>4. CASE LaunchSucceeds(l)
    BY <2>4, StepsOne DEF LaunchSucceeds, ForkedIsAwaited
  <2>5. CASE LaunchFails(l)
    BY <2>5, StepsOne DEF LaunchFails
  <2> QED
    BY <2>1, <2>2, <2>3, <2>4, <2>5
<1>2. /\ plugin' \in [Launches -> {"none", "forked", "running", "unexecuted", "exited"}]
      /\ \A m \in Launches : plugin'[m] = plugin[m] \/ plugin'[m] = "exited"
  BY DEF ErrPipeFails, ParentCloses, ForkFails, LaunchSucceeds, LaunchFails, Places
<1>3. /\ held' \in [Processes -> SUBSET WriteEnds]
      /\ held'[Frontend] \subseteq held[Frontend]
      /\ \A m \in Launches : held'[m] = held[m]
      /\ \A m \in Launches \ {l} : Err(m) \in held[Frontend] => Err(m) \in held'[Frontend]
  BY DEF ErrPipeFails, ParentCloses, ForkFails, LaunchSucceeds, LaunchFails, Places,
         Closes
<1>4. launcher' \in [Launches -> InProgress \cup {"idle", "launched", "failed", "shut"}]
  BY DEF ErrPipeFails, ParentCloses, ForkFails, LaunchSucceeds, LaunchFails, Places,
         Steps, InProgress
<1>5. Places'
  BY <1>1, <1>2, <1>3, <1>4 DEF Places
<1>6. ASSUME NEW m \in Launches
      PROVE  /\ launcher'[m] = "idle" => launcher[m] = "idle"
             /\ launcher'[m] \in InProgress => launcher[m] \in InProgress
             /\ launcher'[m] \in {"errpipe", "marked"} =>
                  launcher'[m] = launcher[m] /\ m # l
             /\ plugin'[m] = "running" => plugin[m] = "running"
             /\ plugin'[m] = "forked" =>
                  /\ plugin[m] = "forked" /\ held'[m] = held[m]
                  /\ alive' /\ launcher[m] \in {"forked", "reading"}
                       => launcher'[m] \in {"forked", "reading"}
  BY <1>1, <1>2, <1>3 DEF InProgress
<1>7. \A m \in Launches : alive' /\ launcher'[m] \in {"errpipe", "marked"}
        => Err(m) \in held'[Frontend]
  BY <1>1, <1>3, <1>6 DEF ForkedIsAwaited
<1>8. \A p \in Processes : held'[p] \subseteq held[p]
  BY <1>3 DEF Processes
<1> QED
  BY <1>1, <1>5, <1>6, <1>7, <1>8, DropsKeep

(* The ends of processes.                                                  *)
LEMMA DeathsKeep ==
  ASSUME OneByOne,
         \/ \E l \in Launches :
              Terminate(l) \/ ExecFails(l) \/ ExitOnStdinEof(l) \/ PluginExits(l)
         \/ FrontendDies
  PROVE  OneByOne'
<1> USE Kinds, EndsDiffer DEF OneByOne
<1>1. ASSUME NEW l \in Launches, Terminate(l) PROVE OneByOne'
  <2>1. /\ alive' = alive /\ style' = style
        /\ launcher[l] = "launched" /\ launcher'[l] = "shut"
        /\ \A m \in Launches \ {l} : launcher'[m] = launcher[m]
        /\ plugin' = [plugin EXCEPT ![l] = "exited"]
        /\ held' = [held EXCEPT ![Frontend] = @ \ {Stdin(l)}, ![l] = {}]
    BY <1>1, StepsOne DEF Terminate
  <2>2. Places'
    BY <1>1, <2>1 DEF Terminate, Steps, Places
  <2>3. /\ plugin'[l] = "exited" /\ held'[l] = {}
        /\ held'[Frontend] = held[Frontend] \ {Stdin(l)}
        /\ \A m \in Launches \ {l} : plugin'[m] = plugin[m] /\ held'[m] = held[m]
    BY <2>1 DEF Places
  <2>4. \A m \in Launches : alive' /\ launcher'[m] \in {"errpipe", "marked"}
          => Err(m) \in held'[Frontend]
    BY <2>1, <2>3 DEF ForkedIsAwaited
  <2>5. \A p \in Processes : held'[p] \subseteq held[p]
    BY <2>3 DEF Processes
  <2> QED
    BY <2>1, <2>2, <2>3, <2>4, <2>5, DropsKeep DEF InProgress
<1>2. ASSUME NEW l \in Launches, ExecFails(l) \/ ExitOnStdinEof(l) \/ PluginExits(l)
      PROVE  OneByOne'
  <2>1. /\ UNCHANGED <<style, launcher, alive>>
        /\ \E state \in {"unexecuted", "exited"} : plugin' = [plugin EXCEPT ![l] = state]
        /\ held' = [held EXCEPT ![l] = {}]
    BY <1>2 DEF ExecFails, ExitOnStdinEof, PluginExits, Ends
  <2>2. Places'
    BY <2>1 DEF Places
  <2>3. /\ plugin'[l] \in {"unexecuted", "exited"} /\ held'[l] = {}
        /\ held'[Frontend] = held[Frontend]
        /\ \A m \in Launches \ {l} : plugin'[m] = plugin[m] /\ held'[m] = held[m]
    BY <2>1 DEF Places
  <2>4. \A m \in Launches : alive' /\ launcher'[m] \in {"errpipe", "marked"}
          => Err(m) \in held'[Frontend]
    BY <2>1, <2>3 DEF ForkedIsAwaited
  <2>5. \A p \in Processes : held'[p] \subseteq held[p]
    BY <2>3 DEF Processes
  <2> QED
    BY <2>1, <2>2, <2>3, <2>4, <2>5, DropsKeep
<1>3. CASE FrontendDies
  <2>1. /\ UNCHANGED <<style, launcher, plugin>> /\ ~alive' /\ alive' \in BOOLEAN
        /\ held' = [held EXCEPT ![Frontend] = {}]
    BY <1>3 DEF FrontendDies
  <2>2. Places'
    BY <2>1 DEF Places
  <2>3. /\ held'[Frontend] = {}
        /\ \A m \in Launches : held'[m] = held[m]
    BY <2>1 DEF Places
  <2>4. \A p \in Processes : held'[p] \subseteq held[p]
    BY <2>3 DEF Processes
  <2> QED
    BY <2>1, <2>2, <2>3, <2>4, DropsKeep
<1> QED
  BY <1>1, <1>2, <1>3

(* The new plugin is the one whose stdin end nobody has.                   *)
LEMMA ExecKeeps ==
  ASSUME OneByOne, NEW l \in Launches, Exec(l)
  PROVE  OneByOne'
<1> USE Kinds, EndsDiffer DEF OneByOne
<1>1. /\ plugin[l] = "forked"
      /\ UNCHANGED <<style, launcher, alive>>
      /\ plugin' = [plugin EXCEPT ![l] = "running"]
      /\ held' = [held EXCEPT ![l] = @ \ (marked[l] \cup {Stdin(l)})]
  BY DEF Exec
<1>2. Places'
  BY <1>1 DEF Places
<1>3. /\ plugin'[l] = "running" /\ held'[l] \subseteq held[l] /\ Stdin(l) \notin held'[l]
      /\ held'[Frontend] = held[Frontend]
      /\ \A m \in Launches \ {l} : plugin'[m] = plugin[m] /\ held'[m] = held[m]
  BY <1>1 DEF Places
<1>4. OneAtATime'
  BY <1>1 DEF OneAtATime
<1>5. ForkedIsAwaited'
  BY <1>1, <1>3 DEF ForkedIsAwaited
<1>6. NewestIsFree'
  BY <1>1, <1>3 DEF NewestIsFree
<1>7. \A m \in Launches : Stdin(l) \notin held'[m]
  BY <1>1, <1>3 DEF NewestIsFree
<1>8. ASSUME NEW S \in SUBSET {m \in Launches : plugin'[m] = "running"}, S # {}
      PROVE  \E k \in S : \A m \in S : Stdin(k) \notin held'[m]
  <2>1. CASE l \in S
    BY <1>7, <2>1
  <2>2. CASE l \notin S
    <3>1. S \in SUBSET {m \in Launches : plugin[m] = "running"}
      BY <1>3, <2>2
    <3>2. PICK k \in S : \A m \in S : Stdin(k) \notin held[m]
      BY <1>8, <3>1 DEF NoEmbrace
    <3>3. \A m \in S : held'[m] = held[m]
      BY <1>3, <2>2
    <3> QED
      BY <3>2, <3>3
  <2> QED
    BY <2>1, <2>2
<1>9. NoEmbrace'
  BY <1>8 DEF NoEmbrace, Stdin
<1> QED
  BY <1>2, <1>4, <1>5, <1>6, <1>9

-----------------------------------------------------------------------------
(* NoEmbrace: among any running plugins there is one whose stdin none of   *)
(* them holds, if the launches are made one at a time or the pipes are     *)
(* close-on-exec from birth, for any number of launches.                   *)
THEOREM PluginsLetGo ==
  ASSUME Styles \subseteq {"sequential", "rust"}
  PROVE  Spec => []NoEmbrace
<1> DEFINE IInv == AllMarked \/ OneByOne
<1>1. Init => IInv
  <2>1. ASSUME Init, style = "rust" PROVE AllMarked
    BY <2>1, Kinds DEF Init, AllMarked
  <2>2. ASSUME Init, style = "sequential" PROVE OneByOne
    <3>1. Places /\ OneAtATime /\ ForkedIsAwaited /\ NewestIsFree
      BY <2>2, Kinds DEF Init, Places, OneAtATime, ForkedIsAwaited, NewestIsFree,
                         InProgress
    <3>2. {l \in Launches : plugin[l] = "running"} = {}
      BY <2>2 DEF Init
    <3> QED
      BY <3>1, <3>2 DEF OneByOne, NoEmbrace
  <2> QED
    BY <2>1, <2>2 DEF Init
<1>2. IInv /\ [Next]_vars => IInv'
  <2>1. AllMarked /\ UNCHANGED vars => AllMarked'
    BY DEF AllMarked, vars
  <2>2. AllMarked /\ Next => AllMarked'
    BY LaunchKeeps, OthersKeep DEF Next
  <2>3. ASSUME OneByOne, UNCHANGED vars PROVE OneByOne'
    <3>1. Places' /\ OneAtATime'
      BY <2>3 DEF OneByOne, Places, OneAtATime, vars
    <3>2. ForkedIsAwaited' /\ NewestIsFree'
      BY <2>3 DEF OneByOne, ForkedIsAwaited, NewestIsFree, Stdin, Err, vars
    <3>3. NoEmbrace'
      BY <2>3, ShrinksKeeps DEF OneByOne, vars
    <3> QED
      BY <3>1, <3>2, <3>3 DEF OneByOne
  <2>4. OneByOne /\ Next => OneByOne'
    BY PipesKeep, ForkKeeps, ReadsKeep, DeathsKeep, ExecKeeps
       DEF Next, LaunchStep, ChildStep
  <2> QED
    BY <2>1, <2>2, <2>3, <2>4
<1>3. IInv => NoEmbrace
  BY DEF AllMarked, OneByOne, NoEmbrace
<1> QED
  BY <1>1, <1>2, <1>3, PTL DEF Spec

-----------------------------------------------------------------------------
(* Types, for every kind of frontend.                                      *)

(* What is marked is held: the error pipe is marked while the frontend has *)
(* its write end.  The frontend also has the stdin of every plugin whose   *)
(* client is not closed.                                                   *)
ErrIsHeld ==
  \A l \in Launches :
    alive /\ launcher[l] \in {"errpipe", "marked"} => Err(l) \in held[Frontend]

StdinIsHeld ==
  \A l \in Launches :
    alive /\ launcher[l] \in InProgress \cup {"launched"} => Stdin(l) \in held[Frontend]

Typed ==
  /\ TypeOK /\ marked \in [Processes -> SUBSET WriteEnds]
  /\ ErrIsHeld /\ StdinIsHeld

(* The two ends of a launch are different from each other and from those   *)
(* of every other launch.                                                  *)
LEMMA EndsApart ==
  \A l, m \in Launches :
    /\ Stdin(l) # Err(m)
    /\ l # m => Stdin(l) # Stdin(m) /\ Err(l) # Err(m)
BY DEF Stdin, Err

(* A step of a launching thread is a step of that launch alone.            *)
LEMMA LauncherType ==
  ASSUME Typed, NEW l \in Launches, NEW from,
         NEW to \in InProgress \cup {"idle", "launched", "failed", "shut"},
         Steps(l, from, to)
  PROVE  /\ launcher' \in [Launches -> InProgress \cup {"idle", "launched", "failed", "shut"}]
         /\ launcher[l] = from /\ launcher'[l] = to /\ alive
         /\ \A m \in Launches \ {l} : launcher'[m] = launcher[m]
BY DEF Typed, TypeOK, Steps

(* Opening an end of a launch that did not have it.                        *)
LEMMA OpensType ==
  ASSUME Typed, NEW l \in Launches, NEW end \in {Stdin(l), Err(l)}, Opens(end)
  PROVE  /\ held' \in [Processes -> SUBSET WriteEnds]
         /\ marked' \in [Processes -> SUBSET WriteEnds]
         /\ \A p \in Processes : marked'[p] \subseteq held'[p]
         /\ held'[Frontend] = held[Frontend] \cup {end}
<1>1. end \in WriteEnds
  BY Kinds
<1>2. CASE Cloexec
  BY <1>1, <1>2, Kinds DEF Opens, Typed, TypeOK
<1>3. CASE ~Cloexec
  BY <1>1, <1>3, Kinds DEF Opens, Typed, TypeOK
<1> QED
  BY <1>2, <1>3

(* Closing some of the frontend's ends.                                    *)
LEMMA ClosesType ==
  ASSUME Typed, NEW S,
         held' = [held EXCEPT ![Frontend] = @ \ S],
         marked' = [marked EXCEPT ![Frontend] = @ \ S]
  PROVE  /\ held' \in [Processes -> SUBSET WriteEnds]
         /\ marked' \in [Processes -> SUBSET WriteEnds]
         /\ \A p \in Processes : marked'[p] \subseteq held'[p]
         /\ held'[Frontend] = held[Frontend] \ S
BY Kinds DEF Typed, TypeOK

(* Closing ends of its own is all right for a launch that will not need    *)
(* them any more.                                                          *)
LEMMA ClosingKeeps ==
  ASSUME Typed, NEW l \in Launches, NEW from, NEW to \in {"reading", "failed"},
         Steps(l, from, to), UNCHANGED style,
         plugin' \in [Launches -> {"none", "forked", "running", "unexecuted", "exited"}],
         NEW S \in SUBSET {Stdin(l), Err(l)},
         to = "failed" \/ (from = "forked" /\ Stdin(l) \notin S),
         held' = [held EXCEPT ![Frontend] = @ \ S],
         marked' = [marked EXCEPT ![Frontend] = @ \ S],
         alive' = alive
  PROVE  Typed'
<1>1. /\ launcher' \in [Launches -> InProgress \cup {"idle", "launched", "failed", "shut"}]
      /\ launcher[l] = from /\ launcher'[l] = to /\ alive
      /\ \A m \in Launches \ {l} : launcher'[m] = launcher[m]
  BY LauncherType DEF InProgress
<1>2. /\ held' \in [Processes -> SUBSET WriteEnds]
      /\ marked' \in [Processes -> SUBSET WriteEnds]
      /\ \A p \in Processes : marked'[p] \subseteq held'[p]
      /\ held'[Frontend] = held[Frontend] \ S
  BY ClosesType
<1>3. \A m \in Launches \ {l} : Stdin(m) \notin S /\ Err(m) \notin S
  BY EndsApart
<1>4. TypeOK'
  BY <1>1, <1>2 DEF Typed, TypeOK
<1>5. ErrIsHeld'
  BY <1>1, <1>2, <1>3 DEF Typed, ErrIsHeld, Err
<1>6. to = "reading" => Stdin(l) \in held'[Frontend]
  BY <1>1, <1>2 DEF Typed, StdinIsHeld, InProgress
<1>7. StdinIsHeld'
  BY <1>1, <1>2, <1>3, <1>6 DEF Typed, StdinIsHeld, InProgress, Stdin
<1> QED
  BY <1>2, <1>4, <1>5, <1>7 DEF Typed

(* The same for a launch that has failed, which keeps nothing.             *)
LEMMA FailingKeeps ==
  ASSUME Typed, NEW l \in Launches, NEW from, Steps(l, from, "failed"), UNCHANGED style,
         plugin' \in [Launches -> {"none", "forked", "running", "unexecuted", "exited"}],
         NEW S \in SUBSET {Stdin(l), Err(l)},
         held' = [held EXCEPT ![Frontend] = @ \ S],
         marked' = [marked EXCEPT ![Frontend] = @ \ S],
         alive' = alive
  PROVE  Typed'
<1> DEFINE to == "failed"
<1>1. to \in {"reading", "failed"} /\ Steps(l, from, to)
  OBVIOUS
<1>2. to = "failed" \/ (from = "forked" /\ Stdin(l) \notin S)
  OBVIOUS
<1> HIDE DEF to
<1> QED
  BY <1>1, <1>2, ClosingKeeps

(* The frontend's own steps.                                               *)
LEMMA LaunchType ==
  ASSUME Typed, NEW l \in Launches, StdinPipe(l) \/ LaunchStep(l)
  PROVE  Typed'
<1>a. style' = style /\ alive' = alive /\ style \in Styles /\ alive \in BOOLEAN
  BY DEF StdinPipe, LaunchStep, ErrPipe, ErrPipeFails, MarkErrPipe, Fork, ForkFails,
     ParentCloses, LaunchSucceeds, LaunchFails, Steps, Typed, TypeOK
<1>b. /\ \A m \in Launches : Stdin(m) \in WriteEnds /\ Err(m) \in WriteEnds
      /\ Frontend \in Processes /\ l \in Processes /\ Frontend # l
  BY Kinds
<1>c. plugin \in [Launches -> {"none", "forked", "running", "unexecuted", "exited"}]
  BY DEF Typed, TypeOK
<1>1. CASE StdinPipe(l)
  <2>1. Steps(l, "idle", "stdinpipe") /\ Opens(Stdin(l)) /\ UNCHANGED plugin
    BY <1>1 DEF StdinPipe
  <2> QED
    BY <1>a, <2>1, LauncherType, OpensType, EndsApart
       DEF Typed, TypeOK, ErrIsHeld, StdinIsHeld, InProgress
<1>2. CASE ErrPipe(l)
  <2>1. Steps(l, "stdinpipe", "errpipe") /\ Opens(Err(l)) /\ UNCHANGED plugin
    BY <1>2 DEF ErrPipe
  <2> QED
    BY <1>a, <2>1, LauncherType, OpensType, EndsApart
       DEF Typed, TypeOK, ErrIsHeld, StdinIsHeld, InProgress
<1>3. CASE ErrPipeFails(l)
  <2>1. /\ Steps(l, "stdinpipe", "failed") /\ UNCHANGED plugin
        /\ held' = [held EXCEPT ![Frontend] = @ \ {Stdin(l)}]
        /\ marked' = [marked EXCEPT ![Frontend] = @ \ {Stdin(l)}]
    BY <1>3 DEF ErrPipeFails, Closes
  <2>2. {Stdin(l)} \in SUBSET {Stdin(l), Err(l)}
    OBVIOUS
  <2> QED
    BY <1>a, <1>c, <2>1, <2>2, FailingKeeps
<1>4. CASE MarkErrPipe(l)
  <2>1. /\ Steps(l, "errpipe", "marked") /\ UNCHANGED <<plugin, held>>
        /\ marked' = [marked EXCEPT ![Frontend] = @ \cup {Err(l)}]
    BY <1>4 DEF MarkErrPipe
  <2>2. Err(l) \in held[Frontend]
    BY <2>1, LauncherType DEF ErrIsHeld, Typed, InProgress
  <2> QED
    BY <1>a, <1>b, <2>1, <2>2, LauncherType
       DEF Typed, TypeOK, ErrIsHeld, StdinIsHeld, InProgress
<1>5. CASE Fork(l)
  <2>1. /\ Steps(l, "marked", "forked")
        /\ plugin' = [plugin EXCEPT ![l] = "forked"]
        /\ held' = [held EXCEPT ![l] = held[Frontend]]
        /\ marked' = [marked EXCEPT ![l] = marked[Frontend]]
    BY <1>5 DEF Fork
  <2> QED
    BY <1>a, <1>b, <2>1, LauncherType
       DEF Typed, TypeOK, ErrIsHeld, StdinIsHeld, InProgress
<1>6. CASE ForkFails(l)
  <2>1. /\ Steps(l, "marked", "failed") /\ UNCHANGED plugin
        /\ held' = [held EXCEPT ![Frontend] = @ \ {Stdin(l), Err(l)}]
        /\ marked' = [marked EXCEPT ![Frontend] = @ \ {Stdin(l), Err(l)}]
    BY <1>6 DEF ForkFails
  <2>2. {Stdin(l), Err(l)} \in SUBSET {Stdin(l), Err(l)}
    OBVIOUS
  <2> QED
    BY <1>a, <1>c, <2>1, <2>2, FailingKeeps
<1>7. CASE ParentCloses(l)
  <2>1. /\ Steps(l, "forked", "reading") /\ UNCHANGED plugin
        /\ held' = [held EXCEPT ![Frontend] = @ \ {Err(l)}]
        /\ marked' = [marked EXCEPT ![Frontend] = @ \ {Err(l)}]
    BY <1>7 DEF ParentCloses, Closes
  <2>2. {Err(l)} \in SUBSET {Stdin(l), Err(l)} /\ Stdin(l) \notin {Err(l)}
    BY EndsApart
  <2> QED
    BY <1>a, <1>c, <2>1, <2>2, ClosingKeeps
<1>8. CASE LaunchSucceeds(l)
  <2>1. Steps(l, "reading", "launched") /\ UNCHANGED <<plugin, held, marked>>
    BY <1>8 DEF LaunchSucceeds
  <2> QED
    BY <1>a, <2>1, LauncherType
       DEF Typed, TypeOK, ErrIsHeld, StdinIsHeld, InProgress
<1>9. CASE LaunchFails(l)
  <2>1. /\ Steps(l, "reading", "failed")
        /\ plugin' = [plugin EXCEPT ![l] = "exited"]
        /\ held' = [held EXCEPT ![Frontend] = @ \ {Stdin(l)}]
        /\ marked' = [marked EXCEPT ![Frontend] = @ \ {Stdin(l)}]
    BY <1>9 DEF LaunchFails, Closes
  <2>2. /\ {Stdin(l)} \in SUBSET {Stdin(l), Err(l)}
        /\ plugin' \in [Launches -> {"none", "forked", "running", "unexecuted", "exited"}]
    BY <1>c, <2>1
  <2> QED
    BY <1>a, <1>c, <2>1, <2>2, FailingKeeps
<1> QED
  BY <1>1, <1>2, <1>3, <1>4, <1>5, <1>6, <1>7, <1>8, <1>9 DEF LaunchStep

(* The other processes' steps, and the ends of both.                       *)
LEMMA OthersType ==
  ASSUME Typed, NEW l \in Launches,
         Terminate(l) \/ ChildStep(l) \/ PluginExits(l) \/ FrontendDies
  PROVE  Typed'
<1> USE DEF Typed
<1>b. /\ \A m \in Launches : Stdin(m) \in WriteEnds /\ Err(m) \in WriteEnds
      /\ Frontend \in Processes /\ l \in Processes /\ Frontend # l
  BY Kinds
<1>1. CASE Terminate(l)
  <2>1. /\ Steps(l, "launched", "shut") /\ UNCHANGED <<style, alive>>
        /\ plugin' = [plugin EXCEPT ![l] = "exited"]
        /\ held' = [held EXCEPT ![Frontend] = @ \ {Stdin(l)}, ![l] = {}]
        /\ marked' = [marked EXCEPT ![Frontend] = @ \ {Stdin(l)}, ![l] = {}]
    BY <1>1 DEF Terminate
  <2>2. /\ launcher' \in [Launches -> InProgress \cup {"idle", "launched", "failed", "shut"}]
        /\ launcher'[l] = "shut"
        /\ \A m \in Launches \ {l} : launcher'[m] = launcher[m]
    BY <2>1, LauncherType
  <2>3. TypeOK' /\ marked' \in [Processes -> SUBSET WriteEnds]
    BY <1>b, <2>1, <2>2 DEF TypeOK
  <2>4. held'[Frontend] = held[Frontend] \ {Stdin(l)}
    BY <1>b, <2>1 DEF TypeOK
  <2> QED
    BY <2>1, <2>2, <2>3, <2>4, EndsApart DEF ErrIsHeld, StdinIsHeld, InProgress
<1>2. ASSUME NEW state \in {"unexecuted", "exited"}, Ends(l, state) PROVE Typed'
  BY <1>b, <1>2 DEF Ends, TypeOK, ErrIsHeld, StdinIsHeld
<1>3. CASE Exec(l)
  BY <1>b, <1>3 DEF Exec, TypeOK, ErrIsHeld, StdinIsHeld
<1>4. CASE FrontendDies
  BY <1>b, <1>4 DEF FrontendDies, TypeOK, ErrIsHeld, StdinIsHeld
<1> QED
  BY <1>1, <1>2, <1>3, <1>4 DEF ChildStep, ExecFails, ExitOnStdinEof, PluginExits

(* Every reachable state is well typed, whatever the kind of frontend.     *)
LEMMA TypedInvariant == Spec => []Typed
<1>1. Init => Typed
  BY Kinds DEF Init, Typed, TypeOK, ErrIsHeld, StdinIsHeld, InProgress
<1>2. Typed /\ [Next]_vars => Typed'
  <2>1. Typed /\ UNCHANGED vars => Typed'
    BY DEF Typed, TypeOK, ErrIsHeld, StdinIsHeld, vars, Stdin, Err
  <2>2. ASSUME Typed, FrontendDies PROVE Typed'
    BY <2>2, Kinds DEF FrontendDies, Typed, TypeOK, ErrIsHeld, StdinIsHeld
  <2> QED
    BY <2>1, <2>2, LaunchType, OthersType DEF Next
<1> QED
  BY <1>1, <1>2, PTL DEF Spec

(* TypeOK, which says that a mark belongs to a descriptor that is held,    *)
(* for any launches and every kind of frontend (client.cpp:62-92).         *)
THEOREM TypeCorrect == Spec => []TypeOK
<1>1. Typed => TypeOK
  BY DEF Typed
<1> QED
  BY <1>1, TypedInvariant, PTL

(* There is no plugin before its launch has begun.                         *)
IdleHasNone == \A l \in Launches : launcher[l] = "idle" => plugin[l] = "none"

LEMMA IdleInvariant == Spec => []IdleHasNone
<1>1. Init => IdleHasNone
  BY DEF Init, IdleHasNone
<1>2. Typed /\ IdleHasNone /\ [Next]_vars => IdleHasNone'
  <2> SUFFICES ASSUME Typed, IdleHasNone, [Next]_vars PROVE IdleHasNone'
    OBVIOUS
  <2> USE DEF IdleHasNone
  <2>1. CASE UNCHANGED vars
    BY <2>1 DEF vars
  <2>2. CASE FrontendDies
    BY <2>2 DEF FrontendDies
  <2>3. ASSUME NEW l \in Launches, StdinPipe(l) \/ LaunchStep(l) \/ Terminate(l)
        PROVE  IdleHasNone'
    <3>1. /\ launcher'[l] # "idle"
          /\ \A m \in Launches \ {l} : launcher'[m] = launcher[m]
      BY <2>3 DEF Typed, TypeOK, Steps, StdinPipe, LaunchStep, ErrPipe, ErrPipeFails,
                  MarkErrPipe, Fork, ForkFails, ParentCloses, LaunchSucceeds,
                  LaunchFails, Terminate
    <3>2. \A m \in Launches \ {l} : plugin'[m] = plugin[m]
      BY <2>3 DEF Typed, TypeOK, StdinPipe, LaunchStep, ErrPipe, ErrPipeFails,
                  MarkErrPipe, Fork, ForkFails, ParentCloses, LaunchSucceeds,
                  LaunchFails, Terminate
    <3> QED
      BY <3>1, <3>2
  <2>4. ASSUME NEW l \in Launches, ChildStep(l) \/ PluginExits(l)
        PROVE  IdleHasNone'
    <3>1. plugin[l] # "none" /\ launcher' = launcher
      BY <2>4 DEF ChildStep, Exec, ExecFails, ExitOnStdinEof, PluginExits, Ends
    <3>2. \A m \in Launches \ {l} : plugin'[m] = plugin[m]
      BY <2>4 DEF Typed, TypeOK, ChildStep, Exec, ExecFails, ExitOnStdinEof, PluginExits,
                  Ends
    <3> QED
      BY <3>1, <3>2
  <2> QED
    BY <2>1, <2>2, <2>3, <2>4 DEF Next
<1> QED
  BY <1>1, <1>2, TypedInvariant, PTL DEF Spec

(* A plugin's stdin comes to its end only after its client was closed, its *)
(* launch has failed or the frontend has died, however many launches copy  *)
(* each other's descriptors (client.cpp:195-207, server/mod.rs:170).        *)
THEOREM EofIsMeant ==
  Spec => [][\A l \in Launches :
               ExitOnStdinEof(l) => ~alive \/ launcher[l] \in {"failed", "shut"}]_vars
<1>1. Typed /\ IdleHasNone => \A l \in Launches :
        ExitOnStdinEof(l) => ~alive \/ launcher[l] \in {"failed", "shut"}
  BY Kinds DEF Typed, TypeOK, StdinIsHeld, IdleHasNone, ExitOnStdinEof
<1> QED
  BY <1>1, TypedInvariant, IdleInvariant, PTL

=============================================================================
