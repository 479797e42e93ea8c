----------------------------- MODULE Endpoints -----------------------------
(***************************************************************************)
(* The runtime directories of transport.rs and transport.cpp: one per      *)
(* launch, under a base directory all frontends of a user share, named by  *)
(* a short tag.  A launch tries tags from a first one upwards until mkdir  *)
(* makes a directory, listens on two sockets in it, and removes it all     *)
(* when its client goes.  A frontend that crashes removes nothing.         *)
(*                                                                         *)
(* The file system is external: mkdir makes a directory that is not there  *)
(* and fails otherwise, rmdir removes an empty one.  nng unlinks the path  *)
(* of a socket it closes.                                                  *)
(***************************************************************************)
EXTENDS Naturals, FiniteSets

CONSTANTS
  Launches,  \* every launch of every frontend; each has one Endpoints
  None,      \* no launch
  NTags,     \* tags wrap here, 2^16 in the code
  Attempts   \* tags a launch tries, 64 in the code

ASSUME EndpointsAssumption ==
  /\ None \notin Launches
  /\ NTags \in Nat \ {0}
  /\ Attempts \in 1 .. NTags

VARIABLES
  lang,    \* the library of each launch
  long,    \* the base directory is too long for a socket's path
  state,   \* where each launch is
  tag,     \* the tag it tries or has
  tries,   \* how many tags were taken
  dir,     \* which launch made the directory of a tag, or None
  socket,  \* which launch listens on a path, or None
  made     \* the launches that have made a directory

vars == <<lang, long, state, tag, tries, dir, socket, made>>

Tags == 0 .. NTags - 1
Names == {"ctl", "evt"}

(* Between mkdir and rmdir.                                                *)
Holding == {"checking", "open", "control", "listening", "closing", "unlinking",
            "removing"}
Final == {"full", "refused", "closed", "crashed"}

TypeOK ==
  /\ lang \in [Launches -> {"rust", "cpp"}]
  /\ long \in BOOLEAN
  /\ state \in [Launches -> {"idle", "making"} \cup Holding \cup Final]
  /\ tag \in [Launches -> Tags]
  /\ tries \in [Launches -> 0 .. Attempts]
  /\ dir \in [Tags -> Launches \cup {None}]
  /\ socket \in [Tags \X Names -> Launches \cup {None}]
  /\ made \in SUBSET Launches

Init ==
  /\ lang \in [Launches -> {"rust", "cpp"}]
  /\ long \in BOOLEAN
  /\ state = [l \in Launches |-> "idle"]
  /\ tag = [l \in Launches |-> 0]
  /\ tries = [l \in Launches |-> 0]
  /\ dir = [t \in Tags |-> None]
  /\ socket = [p \in Tags \X Names |-> None]
  /\ made = {}

-----------------------------------------------------------------------------
Steps(l, from, to) ==
  /\ state[l] = from
  /\ state' = [state EXCEPT ![l] = to]

(* The first tag is the clock's and the process's low bits.                *)
Begin(l) ==
  /\ Steps(l, "idle", "making")
  /\ \E t \in Tags : tag' = [tag EXCEPT ![l] = t]
  /\ UNCHANGED <<lang, long, tries, dir, socket, made>>

(* Variant: a recursive create, which accepts a directory that is there.   *)
MakeDirExisting(l) ==
  /\ tries[l] < Attempts
  /\ Steps(l, "making", "checking")
  /\ dir' = [dir EXCEPT ![tag[l]] = l]
  /\ made' = made \cup {l}
  /\ UNCHANGED <<lang, long, tag, tries, socket>>

MakeDir(l) ==
  /\ tries[l] < Attempts
  /\ dir[tag[l]] = None
  /\ Steps(l, "making", "checking")
  /\ dir' = [dir EXCEPT ![tag[l]] = l]
  /\ made' = made \cup {l}
  /\ UNCHANGED <<lang, long, tag, tries, socket>>

(* Variant: the same tag is tried again.                                   *)
DirExistsSameTag(l) ==
  /\ tries[l] < Attempts
  /\ dir[tag[l]] # None
  /\ Steps(l, "making", "making")
  /\ tries' = [tries EXCEPT ![l] = @ + 1]
  /\ UNCHANGED <<lang, long, tag, dir, socket, made>>

(* Variant: the tag does not wrap.                                         *)
DirExistsUnwrapped(l) ==
  /\ tries[l] < Attempts
  /\ dir[tag[l]] # None
  /\ Steps(l, "making", "making")
  /\ tag' = [tag EXCEPT ![l] = @ + 1]
  /\ tries' = [tries EXCEPT ![l] = @ + 1]
  /\ UNCHANGED <<lang, long, dir, socket, made>>

(* EEXIST: on to the next tag.                                             *)
DirExists(l) ==
  /\ tries[l] < Attempts
  /\ dir[tag[l]] # None
  /\ Steps(l, "making", "making")
  /\ tag' = [tag EXCEPT ![l] = (@ + 1) % NTags]
  /\ tries' = [tries EXCEPT ![l] = @ + 1]
  /\ UNCHANGED <<lang, long, dir, socket, made>>

(* No free runtime directory.                                              *)
GiveUp(l) ==
  /\ tries[l] = Attempts
  /\ Steps(l, "making", "full")
  /\ UNCHANGED <<lang, long, tag, tries, dir, socket, made>>

(* Any other error of mkdir, or of making the base directory.              *)
MakeDirFails(l) ==
  /\ Steps(l, "making", "refused")
  /\ UNCHANGED <<lang, long, tag, tries, dir, socket, made>>

(* Variant: nobody removes the directory.                                  *)
PathTooLongKept(l) ==
  /\ long
  /\ Steps(l, "checking", "refused")
  /\ UNCHANGED <<lang, long, tag, tries, dir, socket, made>>

(* check_sun_path fails.  C++ removes the directory; in Rust there is no   *)
(* Endpoints yet whose drop would.                                         *)
PathTooLong(l) ==
  /\ long
  /\ Steps(l, "checking", "refused")
  /\ dir' = IF lang[l] = "cpp" THEN [dir EXCEPT ![tag[l]] = None] ELSE dir
  /\ UNCHANGED <<lang, long, tag, tries, socket, made>>

PathFits(l) ==
  /\ ~long
  /\ Steps(l, "checking", "open")
  /\ UNCHANGED <<lang, long, tag, tries, dir, socket, made>>

Listens(l, name) == socket' = [socket EXCEPT ![<<tag[l], name>>] = l]

ListenControl(l) ==
  /\ Steps(l, "open", "control")
  /\ Listens(l, "ctl")
  /\ UNCHANGED <<lang, long, tag, tries, dir, made>>

ListenEvents(l) ==
  /\ Steps(l, "control", "listening")
  /\ Listens(l, "evt")
  /\ UNCHANGED <<lang, long, tag, tries, dir, made>>

-----------------------------------------------------------------------------
(* The end of a client, or of a launch that fails.  Both languages close   *)
(* the sockets first and remove the directory last.                        *)

Unlinks(l, names) ==
  socket' = [p \in Tags \X Names |->
               IF p[1] = tag[l] /\ p[2] \in names THEN None ELSE socket[p]]

(* nng unlinks the path of a socket it closes.  Which is first depends on  *)
(* the language and on whether a client or a failed launch goes.           *)
CloseFirst(l) ==
  /\ \E from \in {"open", "control", "listening"} : Steps(l, from, "closing")
  /\ \E name \in Names : Unlinks(l, {name})
  /\ UNCHANGED <<lang, long, tag, tries, dir, made>>

CloseSecond(l) ==
  /\ Steps(l, "closing", "unlinking")
  /\ Unlinks(l, Names)
  /\ UNCHANGED <<lang, long, tag, tries, dir, made>>

(* Whatever is left in the directory.                                      *)
RemoveFiles(l) ==
  /\ Steps(l, "unlinking", "removing")
  /\ Unlinks(l, Names)
  /\ UNCHANGED <<lang, long, tag, tries, dir, made>>

RemoveDir(l) ==
  /\ Steps(l, "removing", "closed")
  /\ dir' = IF \A n \in Names : socket[<<tag[l], n>>] = None
              THEN [dir EXCEPT ![tag[l]] = None] ELSE dir
  /\ UNCHANGED <<lang, long, tag, tries, socket, made>>

(* The frontend is gone, at any point.                                     *)
Crash(l) ==
  /\ \E from \in {"making"} \cup Holding : Steps(l, from, "crashed")
  /\ UNCHANGED <<lang, long, tag, tries, dir, socket, made>>

-----------------------------------------------------------------------------
Allocate(l) ==
  \/ Begin(l)
  \/ MakeDir(l) \/ DirExists(l) \/ GiveUp(l) \/ MakeDirFails(l)
  \/ PathTooLong(l) \/ PathFits(l)

Remove(l) == CloseFirst(l) \/ CloseSecond(l) \/ RemoveFiles(l) \/ RemoveDir(l)

Next ==
  \E l \in Launches :
    Allocate(l) \/ ListenControl(l) \/ ListenEvents(l) \/ Remove(l) \/ Crash(l)

Spec == Init /\ [][Next]_vars

-----------------------------------------------------------------------------
(* A plugin dials the frontend that launched it: while a launch listens,   *)
(* the two paths in its directory are its own, whatever other launches     *)
(* make, remove or leave behind (transport.rs:63-66, transport.rs:109).    *)
SocketsAreOwn ==
  \A l \in Launches :
    state[l] = "listening" =>
      dir[tag[l]] = l /\ \A n \in Names : socket[<<tag[l], n>>] = l

(* A directory outlives its launch only when the frontend crashed or, in   *)
(* Rust, when the path was too long (transport.rs:63, transport.cpp:184).  *)
NothingLeft ==
  \A t \in Tags : dir[t] # None =>
    \/ state[dir[t]] \in Holding \cup {"crashed"}
    \/ state[dir[t]] = "refused" /\ long /\ lang[dir[t]] = "rust"

(* A launch gives up only if as many others as it has attempts have made   *)
(* directories, however they come and go during its search                 *)
(* (transport.rs:84-92).                                                   *)
FullOnlyIfCrowded ==
  \A l \in Launches :
    state[l] = "full" => Cardinality(made \ {l}) >= Attempts

=============================================================================
