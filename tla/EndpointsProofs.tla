-------------------------- MODULE EndpointsProofs --------------------------
(***************************************************************************)
(* Theorems about Endpoints, for any launches, any number of tags and any  *)
(* number of attempts.  What every part of the proof comes back to is that *)
(* the launch that made a directory is the only one that touches what is   *)
(* in it, until it has removed it or crashed.                              *)
(***************************************************************************)
EXTENDS Endpoints, FiniteSetTheorems, TLAPS

-----------------------------------------------------------------------------
(* Type correctness.                                                       *)

(* The next tag is a tag.                                                  *)
LEMMA NextTag == \A t \in Tags : (t + 1) % NTags \in Tags
BY EndpointsAssumption DEF Tags

(* The initial state has its types.                                        *)
LEMMA InitType == Init => TypeOK
<1> SUFFICES ASSUME Init PROVE TypeOK
  OBVIOUS
<1>1. 0 \in Tags /\ 0 \in 0 .. Attempts
  BY EndpointsAssumption DEF Tags
<1> QED
  BY <1>1 DEF Init, TypeOK

(* A step of one launch keeps the types.                                   *)
LEMMA StepType ==
  ASSUME TypeOK, NEW l \in Launches,
         Allocate(l) \/ ListenControl(l) \/ ListenEvents(l) \/ Remove(l) \/ Crash(l)
  PROVE  TypeOK'
<1> USE DEF TypeOK, Steps, Holding, Final
<1>1. CASE Begin(l)
  BY <1>1 DEF Begin
<1>2. CASE MakeDir(l)
  BY <1>2 DEF MakeDir
<1>3. CASE DirExists(l)
  <2>1. (tag[l] + 1) % NTags \in Tags
    BY NextTag
  <2>2. tries[l] + 1 \in 0 .. Attempts
    BY <1>3, EndpointsAssumption DEF DirExists
  <2> QED
    BY <1>3, <2>1, <2>2 DEF DirExists
<1>4. CASE GiveUp(l) \/ MakeDirFails(l)
  BY <1>4 DEF GiveUp, MakeDirFails
<1>5. CASE PathTooLong(l)
  BY <1>5 DEF PathTooLong
<1>6. CASE PathFits(l)
  BY <1>6 DEF PathFits
<1>7. CASE ListenControl(l) \/ ListenEvents(l)
  <2>1. ASSUME NEW name \in Names, Listens(l, name)
        PROVE  socket' \in [Tags \X Names -> Launches \cup {None}]
    BY <2>1 DEF Listens
  <2>2. "ctl" \in Names /\ "evt" \in Names
    BY DEF Names
  <2>3. CASE ListenControl(l)
    <3>1. socket' \in [Tags \X Names -> Launches \cup {None}]
      BY <2>1, <2>2, <2>3 DEF ListenControl
    <3> QED
      BY <2>3, <3>1 DEF ListenControl
  <2>4. CASE ListenEvents(l)
    <3>1. socket' \in [Tags \X Names -> Launches \cup {None}]
      BY <2>1, <2>2, <2>4 DEF ListenEvents
    <3> QED
      BY <2>4, <3>1 DEF ListenEvents
  <2> QED
    BY <1>7, <2>3, <2>4
<1>8. CASE CloseFirst(l)
  BY <1>8 DEF CloseFirst, Unlinks
<1>9. CASE CloseSecond(l) \/ RemoveFiles(l)
  BY <1>9 DEF CloseSecond, RemoveFiles, Unlinks
<1>10. CASE RemoveDir(l)
  BY <1>10 DEF RemoveDir
<1>11. CASE Crash(l)
  BY <1>11 DEF Crash
<1> QED
  BY <1>1, <1>2, <1>3, <1>4, <1>5, <1>6, <1>7, <1>8, <1>9, <1>10, <1>11
     DEF Allocate, Remove

(* TypeOK, for every number of tags and of attempts.                       *)
THEOREM TypeCorrect == Spec => []TypeOK
<1>1. TypeOK /\ [Next]_vars => TypeOK'
  <2>1. TypeOK /\ UNCHANGED vars => TypeOK'
    BY DEF TypeOK, vars
  <2> QED
    BY <2>1, StepType DEF Next
<1> QED
  BY InitType, <1>1, PTL DEF Spec

-----------------------------------------------------------------------------
(* The inductive invariant.                                                *)

(* A launch between mkdir and rmdir has the directory of its tag.          *)
DirIsOwn == \A l \in Launches : state[l] \in Holding => dir[tag[l]] = l

(* A launch is at the tag of the directory that it made.                   *)
TagIsDirs == \A t \in Tags : dir[t] # None => tag[dir[t]] = t

(* What a launch has listened on, and has not closed, is its own.          *)
SocketsHeld ==
  \A l \in Launches :
    /\ state[l] \in {"control", "listening"} => socket[<<tag[l], "ctl">>] = l
    /\ state[l] = "listening" => socket[<<tag[l], "evt">>] = l

(* No file is left in a directory that is about to be removed.             *)
Emptied ==
  \A l \in Launches :
    state[l] = "removing" => \A n \in Names : socket[<<tag[l], n>>] = None

IInv == TypeOK /\ DirIsOwn /\ TagIsDirs /\ SocketsHeld /\ Emptied /\ NothingLeft

(* Two launches that hold directories are at different tags.               *)
LEMMA TagsDiffer ==
  ASSUME DirIsOwn, NEW l \in Launches, NEW m \in Launches, l # m,
         state[l] \in Holding, state[m] \in Holding
  PROVE  tag[l] # tag[m]
BY DEF DirIsOwn

(* The step from one place to another moves one launch only.               *)
LEMMA StepsOne ==
  ASSUME TypeOK, NEW l \in Launches, NEW from, NEW to, Steps(l, from, to)
  PROVE  /\ state[l] = from /\ state'[l] = to
         /\ \A m \in Launches \ {l} : state'[m] = state[m]
BY DEF TypeOK, Steps

(* Before mkdir: no directory is the launch's, so its tag may change.      *)
LEMMA MakingKeeps ==
  ASSUME IInv, NEW l \in Launches,
         Begin(l) \/ DirExists(l) \/ GiveUp(l) \/ MakeDirFails(l)
  PROVE  IInv'
<1> USE DEF IInv
<1>1. TypeOK'
  BY StepType DEF Allocate
<1>2. /\ state[l] \in {"idle", "making"}
      /\ state'[l] \in {"making", "full", "refused"}
      /\ \A m \in Launches \ {l} : state'[m] = state[m] /\ tag'[m] = tag[m]
      /\ UNCHANGED <<lang, long, dir, socket>>
  BY StepsOne DEF Begin, DirExists, GiveUp, MakeDirFails, TypeOK
<1>3. \A t \in Tags : dir[t] # l
  BY <1>2, EndpointsAssumption DEF NothingLeft, Holding
<1>4. DirIsOwn' /\ SocketsHeld' /\ Emptied'
  BY <1>2 DEF DirIsOwn, SocketsHeld, Emptied, Holding
<1>5. \A t \in Tags : dir[t] # None => dir[t] \in Launches \ {l}
  BY <1>3 DEF TypeOK
<1>6. TagIsDirs' /\ NothingLeft'
  BY <1>2, <1>5 DEF TagIsDirs, NothingLeft
<1> QED
  BY <1>1, <1>4, <1>6

(* mkdir made the directory, which was not there.                          *)
LEMMA MakeDirKeeps ==
  ASSUME IInv, NEW l \in Launches, MakeDir(l)
  PROVE  IInv'
<1> USE DEF IInv
<1>1. TypeOK'
  BY StepType DEF Allocate
<1>2. /\ state[l] = "making" /\ state'[l] = "checking"
      /\ \A m \in Launches \ {l} : state'[m] = state[m]
      /\ dir[tag[l]] = None /\ dir'[tag[l]] = l
      /\ \A t \in Tags \ {tag[l]} : dir'[t] = dir[t]
      /\ UNCHANGED <<lang, long, tag, socket>>
  BY StepsOne DEF MakeDir, TypeOK
<1>3. \A m \in Launches : tag[m] \in Tags
  BY DEF TypeOK
<1>4. DirIsOwn'
  BY <1>2, <1>3, EndpointsAssumption DEF DirIsOwn
<1>5. SocketsHeld' /\ Emptied'
  BY <1>2 DEF SocketsHeld, Emptied
<1>6. ASSUME NEW t \in Tags, dir'[t] # None
      PROVE  /\ tag'[dir'[t]] = t
             /\ \/ state'[dir'[t]] \in Holding \cup {"crashed"}
                \/ state'[dir'[t]] = "refused" /\ long' /\ lang'[dir'[t]] = "rust"
  <2>1. CASE t = tag[l]
    BY <1>2, <2>1 DEF Holding
  <2>2. CASE t # tag[l]
    <3>1. dir'[t] = dir[t] /\ dir[t] \in Launches
      BY <1>2, <1>6, <2>2 DEF TypeOK
    <3>2. dir[t] # l
      BY <1>2, <2>2, <1>6, <3>1 DEF TagIsDirs
    <3> QED
      BY <1>2, <1>6, <3>1, <3>2 DEF TagIsDirs, NothingLeft
  <2> QED
    BY <2>1, <2>2
<1> QED
  BY <1>1, <1>4, <1>5, <1>6 DEF TagIsDirs, NothingLeft

(* The directory goes, or stays behind with the state that says why.       *)
LEMMA DirGoes ==
  ASSUME IInv, NEW l \in Launches, PathTooLong(l) \/ RemoveDir(l)
  PROVE  IInv'
<1> USE DEF IInv
<1>1. TypeOK'
  BY StepType DEF Allocate, Remove
<1>2. /\ state[l] \in Holding /\ state'[l] \in {"refused", "closed"}
      /\ \A m \in Launches \ {l} : state'[m] = state[m]
      /\ UNCHANGED <<lang, long, tag, socket>>
  BY StepsOne DEF PathTooLong, RemoveDir, Holding
<1>3. tag[l] \in Tags /\ dir[tag[l]] = l /\ l # None
  BY <1>2, EndpointsAssumption DEF DirIsOwn, TypeOK
<1>4. \/ dir' = [dir EXCEPT ![tag[l]] = None]
      \/ dir' = dir /\ state'[l] = "refused" /\ long /\ lang[l] = "rust"
  <2>1. CASE PathTooLong(l)
    BY <2>1, StepsOne DEF PathTooLong, TypeOK
  <2>2. CASE RemoveDir(l)
    <3>1. \A n \in Names : socket[<<tag[l], n>>] = None
      BY <2>2, StepsOne DEF RemoveDir, Emptied
    <3> QED
      BY <2>2, <3>1 DEF RemoveDir
  <2> QED
    BY <2>1, <2>2
<1>5. /\ \A t \in Tags \ {tag[l]} : dir'[t] = dir[t]
      /\ dir'[tag[l]] = None \/ (dir'[tag[l]] = l /\ state'[l] = "refused" /\ long
                                   /\ lang[l] = "rust")
  BY <1>3, <1>4 DEF TypeOK
<1>6. ASSUME NEW m \in Launches, state'[m] \in Holding PROVE dir'[tag'[m]] = m
  <2>1. m # l /\ state[m] \in Holding
    BY <1>2, <1>6 DEF Holding
  <2>2. tag[m] # tag[l] /\ tag[m] \in Tags
    BY <1>2, <2>1, TagsDiffer DEF TypeOK
  <2> QED
    BY <1>2, <1>5, <2>1, <2>2 DEF DirIsOwn
<1>7. SocketsHeld' /\ Emptied'
  BY <1>2 DEF SocketsHeld, Emptied
<1>8. ASSUME NEW t \in Tags, dir'[t] # None
      PROVE  /\ tag'[dir'[t]] = t
             /\ \/ state'[dir'[t]] \in Holding \cup {"crashed"}
                \/ state'[dir'[t]] = "refused" /\ long' /\ lang'[dir'[t]] = "rust"
  <2>1. CASE t = tag[l]
    BY <1>2, <1>5, <1>8, <2>1
  <2>2. CASE t # tag[l]
    <3>1. dir'[t] = dir[t] /\ dir[t] \in Launches
      BY <1>5, <1>8, <2>2 DEF TypeOK
    <3>2. dir[t] # l
      BY <1>3, <1>8, <2>2, <3>1 DEF TagIsDirs
    <3> QED
      BY <1>2, <1>8, <3>1, <3>2 DEF TagIsDirs, NothingLeft
  <2> QED
    BY <2>1, <2>2
<1> QED
  BY <1>1, <1>6, <1>7, <1>8 DEF DirIsOwn, TagIsDirs, NothingLeft

(* Listening and closing touch the launch's own directory only, and a      *)
(* crash touches nothing.                                                  *)
LEMMA HoldingKeeps ==
  ASSUME IInv, NEW l \in Launches,
         PathFits(l) \/ ListenControl(l) \/ ListenEvents(l) \/ CloseFirst(l)
           \/ CloseSecond(l) \/ RemoveFiles(l) \/ Crash(l)
  PROVE  IInv'
<1> USE DEF IInv
<1>1. TypeOK'
  BY StepType DEF Allocate, Remove
<1>2. /\ \/ state[l] \in Holding /\ state'[l] \in Holding
         \/ state[l] \in {"making"} \cup Holding /\ state'[l] = "crashed"
      /\ \A m \in Launches \ {l} : state'[m] = state[m]
      /\ UNCHANGED <<lang, long, tag, dir>>
  BY StepsOne DEF PathFits, ListenControl, ListenEvents, CloseFirst, CloseSecond,
                  RemoveFiles, Crash, Holding
<1>3. DirIsOwn'
  BY <1>2 DEF DirIsOwn, Holding
<1>4. TagIsDirs'
  BY <1>2 DEF TagIsDirs
<1>5. NothingLeft'
  <2>1. \A t \in Tags : dir[t] # None => dir[t] \in Launches
    BY DEF TypeOK
  <2>2. state'[l] \in Holding \cup {"crashed"}
    BY <1>2
  <2> QED
    BY <1>2, <2>1, <2>2 DEF NothingLeft
<1>6. ASSUME NEW m \in Launches \ {l}, state[m] \in Holding, NEW n \in Names
      PROVE  socket'[<<tag[m], n>>] = socket[<<tag[m], n>>]
  <2>1. CASE Crash(l)
    BY <2>1 DEF Crash
  <2>2. CASE ~Crash(l)
    <3>1. state[l] \in Holding
      BY <2>2, StepsOne DEF PathFits, ListenControl, ListenEvents, CloseFirst,
                            CloseSecond, RemoveFiles, Holding
    <3>2. tag[m] # tag[l] /\ <<tag[m], n>> \in Tags \X Names
      BY <1>6, <3>1, TagsDiffer DEF TypeOK
    <3> QED
      BY <2>2, <3>2 DEF PathFits, ListenControl, ListenEvents, CloseFirst, CloseSecond,
                        RemoveFiles, Listens, Unlinks, TypeOK
  <2> QED
    BY <2>1, <2>2
<1>7. \A n \in Names : <<tag[l], n>> \in Tags \X Names
  BY DEF TypeOK
<1>8. /\ state'[l] \in {"control", "listening"} => socket'[<<tag[l], "ctl">>] = l
      /\ state'[l] = "listening" => socket'[<<tag[l], "evt">>] = l
  <2>1. CASE ListenControl(l)
    BY <1>7, <2>1, StepsOne DEF ListenControl, Listens, TypeOK, Names
  <2>2. CASE ListenEvents(l)
    <3>1. /\ socket[<<tag[l], "ctl">>] = l
          /\ socket' = [socket EXCEPT ![<<tag[l], "evt">>] = l]
      BY <2>2, StepsOne DEF ListenEvents, Listens, SocketsHeld
    <3> QED
      BY <1>7, <3>1 DEF TypeOK, Names
  <2>3. CASE ~ListenControl(l) /\ ~ListenEvents(l)
    BY <2>3, StepsOne DEF PathFits, CloseFirst, CloseSecond, RemoveFiles, Crash
  <2> QED
    BY <2>1, <2>2, <2>3
<1>9. state'[l] = "removing" => \A n \in Names : socket'[<<tag[l], n>>] = None
  <2>1. CASE RemoveFiles(l)
    BY <1>7, <2>1 DEF RemoveFiles, Unlinks
  <2>2. CASE ~RemoveFiles(l)
    BY <2>2, StepsOne DEF PathFits, ListenControl, ListenEvents, CloseFirst,
                          CloseSecond, Crash
  <2> QED
    BY <2>1, <2>2
<1>10. SocketsHeld'
  BY <1>2, <1>6, <1>8 DEF SocketsHeld, Holding, Names
<1>11. Emptied'
  BY <1>2, <1>6, <1>9 DEF Emptied, Holding
<1> QED
  BY <1>1, <1>3, <1>4, <1>5, <1>10, <1>11

-----------------------------------------------------------------------------
(* The theorems.                                                           *)

(* The invariant is inductive.                                             *)
THEOREM Inductive == Spec => []IInv
<1>1. Init => IInv
  <2>1. ASSUME Init
        PROVE  DirIsOwn /\ TagIsDirs /\ SocketsHeld /\ Emptied /\ NothingLeft
    BY <2>1 DEF Init, DirIsOwn, TagIsDirs, SocketsHeld, Emptied, NothingLeft, Holding
  <2> QED
    BY <2>1, InitType DEF IInv
<1>2. IInv /\ [Next]_vars => IInv'
  <2>1. IInv /\ UNCHANGED vars => IInv'
    BY DEF IInv, TypeOK, DirIsOwn, TagIsDirs, SocketsHeld, Emptied, NothingLeft, vars
  <2>2. ASSUME IInv, NEW l \in Launches,
               Allocate(l) \/ ListenControl(l) \/ ListenEvents(l) \/ Remove(l) \/ Crash(l)
        PROVE  IInv'
    BY <2>2, MakingKeeps, MakeDirKeeps, DirGoes, HoldingKeeps DEF Allocate, Remove
  <2> QED
    BY <2>1, <2>2 DEF Next
<1> QED
  BY <1>1, <1>2, PTL DEF Spec

(* SocketsAreOwn: whoever dials a launch's paths reaches that launch, for  *)
(* any number of frontends, tags and crashes.                              *)
THEOREM PathsAreOwn == Spec => []SocketsAreOwn
<1>1. IInv => SocketsAreOwn
  BY DEF IInv, DirIsOwn, SocketsHeld, SocketsAreOwn, Holding, Names
<1> QED
  BY Inductive, <1>1, PTL

(* NothingLeft: only a crash, or in Rust a path that is too long, leaves a *)
(* directory behind.                                                       *)
THEOREM LeavesNothing == Spec => []NothingLeft
<1>1. IInv => NothingLeft
  BY DEF IInv
<1> QED
  BY Inductive, <1>1, PTL

-----------------------------------------------------------------------------
(* Why a launch that gives up has met a crowd.  Every tag it tried was     *)
(* taken by a launch that made a directory there, and that launch stays at *)
(* the tag even after it has removed the directory.  Different tags have   *)
(* different launches, and no tag is tried twice before all were.          *)

(* The tag k tries before t.                                               *)
Back(t, k) == IF k <= t THEN t - k ELSE t + NTags - k

(* Whoever has made a directory has done with looking for one.             *)
MadeIsDone == \A m \in made : state[m] \notin {"idle", "making", "full"}

DirsAreMade == \A t \in Tags : dir[t] # None => dir[t] \in made

TriesCount ==
  \A l \in Launches :
    /\ state[l] = "idle" => tries[l] = 0
    /\ state[l] = "full" => tries[l] = Attempts

TriedAreTaken ==
  \A l \in Launches :
    state[l] \in {"making", "full"} =>
      \A k \in 1 .. tries[l] : \E m \in made : tag[m] = Back(tag[l], k)

Crowd ==
  IsFiniteSet(made) /\ MadeIsDone /\ DirsAreMade /\ TriesCount /\ TriedAreTaken

(* One tag further, the tags tried before are one further back.            *)
LEMMA BackAgain ==
  ASSUME NEW t \in Tags, NEW k \in Nat \ {0}, k <= Attempts
  PROVE  Back((t + 1) % NTags, k) = IF k = 1 THEN t ELSE Back(t, k - 1)
<1> DEFINE u == (t + 1) % NTags
<1>1. t \in Nat /\ NTags \in Nat /\ t < NTags /\ Attempts \in Nat /\ Attempts <= NTags
  BY EndpointsAssumption DEF Tags
<1>2. u = IF t = NTags - 1 THEN 0 ELSE t + 1
  BY <1>1
<1> HIDE DEF u
<1>3. CASE t = NTags - 1
  <2>1. Back(u, k) = NTags - k
    BY <1>1, <1>2, <1>3 DEF Back
  <2>2. k # 1 => Back(t, k - 1) = NTags - k
    BY <1>1, <1>3 DEF Back
  <2> QED
    BY <1>1, <1>3, <2>1, <2>2 DEF u
<1>4. CASE t # NTags - 1
  <2>1. Back(u, k) = IF k <= t + 1 THEN t + 1 - k ELSE t + 1 + NTags - k
    BY <1>1, <1>2, <1>4 DEF Back
  <2>2. k # 1 => Back(t, k - 1) = IF k <= t + 1 THEN t + 1 - k ELSE t + 1 + NTags - k
    BY <1>1 DEF Back
  <2>3. k = 1 => Back(u, k) = t
    BY <1>1, <2>1
  <2> QED
    BY <2>1, <2>2, <2>3 DEF u
<1> QED
  BY <1>3, <1>4

(* The tags tried are all different.                                       *)
LEMMA BackDiffers ==
  ASSUME NEW t \in Tags, NEW j \in 1 .. Attempts, NEW k \in 1 .. Attempts, j # k
  PROVE  Back(t, j) # Back(t, k)
BY EndpointsAssumption DEF Back, Tags

(* The launch whose step it is, and what the others keep.                  *)
LEMMA CrowdStep ==
  ASSUME IInv, Crowd, NEW l \in Launches,
         Allocate(l) \/ ListenControl(l) \/ ListenEvents(l) \/ Remove(l) \/ Crash(l)
  PROVE  Crowd'
<1> USE DEF IInv
<1>a. /\ l \in Launches /\ tag[l] \in Tags /\ tries[l] \in 0 .. Attempts /\ l # None
      /\ made \subseteq Launches
  BY EndpointsAssumption DEF TypeOK
<1>1. CASE Begin(l) \/ DirExists(l)
  <2>1. /\ state[l] \in {"idle", "making"} /\ state'[l] = "making"
        /\ \A m \in Launches \ {l} : state'[m] = state[m] /\ tag'[m] = tag[m]
                                       /\ tries'[m] = tries[m]
        /\ UNCHANGED <<dir, made>>
    BY <1>1, StepsOne DEF Begin, DirExists, TypeOK
  <2>2. l \notin made
    BY <2>1 DEF Crowd, MadeIsDone
  <2>3. IsFiniteSet(made') /\ MadeIsDone' /\ DirsAreMade' /\ TriesCount'
    BY <1>a, <2>1, <2>2 DEF Crowd, MadeIsDone, DirsAreMade, TriesCount
  <2>4. \A m \in made : tag'[m] = tag[m]
    BY <1>a, <2>1, <2>2
  <2>5. ASSUME NEW k \in 1 .. tries'[l] PROVE \E m \in made : tag[m] = Back(tag'[l], k)
    <3>1. CASE Begin(l)
      <4>1. tries'[l] = 0
        BY <1>a, <3>1, StepsOne DEF Begin, Crowd, TriesCount
      <4> QED
        BY <2>5, <4>1
    <3>2. CASE DirExists(l)
      <4>1. /\ state[l] = "making" /\ dir[tag[l]] # None /\ tries[l] < Attempts
            /\ tag'[l] = (tag[l] + 1) % NTags /\ tries'[l] = tries[l] + 1
        BY <1>a, <3>2, StepsOne DEF DirExists, TypeOK
      <4>2. k \in Nat \ {0} /\ k <= tries[l] + 1 /\ k <= Attempts
        BY <1>a, <2>5, <4>1, EndpointsAssumption
      <4>3. Back(tag'[l], k) = IF k = 1 THEN tag[l] ELSE Back(tag[l], k - 1)
        BY <1>a, <4>1, <4>2, BackAgain
      <4>4. CASE k = 1
        <5>1. dir[tag[l]] \in made /\ tag[dir[tag[l]]] = tag[l]
          BY <1>a, <4>1 DEF Crowd, DirsAreMade, TagIsDirs
        <5> QED
          BY <4>3, <4>4, <5>1
      <4>5. CASE k # 1
        <5>1. k - 1 \in 1 .. tries[l]
          BY <1>a, <4>2, <4>5, EndpointsAssumption
        <5> QED
          BY <4>1, <4>3, <4>5, <5>1 DEF Crowd, TriedAreTaken
      <4> QED
        BY <4>4, <4>5
    <3> QED
      BY <1>1, <3>1, <3>2
  <2>6. ASSUME NEW n \in Launches, state'[n] \in {"making", "full"},
               NEW k \in 1 .. tries'[n]
        PROVE  \E m \in made' : tag'[m] = Back(tag'[n], k)
    <3>1. CASE n = l
      BY <2>1, <2>4, <2>5, <2>6, <3>1
    <3>2. CASE n # l
      BY <2>1, <2>4, <2>6, <3>2 DEF Crowd, TriedAreTaken
    <3> QED
      BY <3>1, <3>2
  <2> QED
    BY <2>3, <2>6 DEF Crowd, TriedAreTaken
<1>2. CASE MakeDir(l)
  <2>1. /\ state[l] = "making" /\ state'[l] = "checking"
        /\ \A m \in Launches \ {l} : state'[m] = state[m]
        /\ dir' = [dir EXCEPT ![tag[l]] = l] /\ made' = made \cup {l}
        /\ UNCHANGED <<tag, tries>>
    BY <1>2, StepsOne DEF MakeDir
  <2>2. IsFiniteSet(made')
    BY <2>1, FS_AddElement DEF Crowd
  <2>3. MadeIsDone' /\ TriesCount'
    BY <1>a, <2>1 DEF Crowd, MadeIsDone, TriesCount
  <2>4. DirsAreMade'
    BY <2>1 DEF Crowd, DirsAreMade, TypeOK
  <2>5. TriedAreTaken'
    BY <2>1 DEF Crowd, TriedAreTaken
  <2> QED
    BY <2>2, <2>3, <2>4, <2>5 DEF Crowd
<1>3. CASE GiveUp(l)
  <2>1. /\ state[l] = "making" /\ state'[l] = "full" /\ tries[l] = Attempts
        /\ \A m \in Launches \ {l} : state'[m] = state[m]
        /\ UNCHANGED <<tag, tries, dir, made>>
    BY <1>3, StepsOne DEF GiveUp
  <2>2. l \notin made
    BY <2>1 DEF Crowd, MadeIsDone
  <2>3. IsFiniteSet(made') /\ MadeIsDone' /\ DirsAreMade' /\ TriesCount'
    BY <1>a, <2>1, <2>2 DEF Crowd, MadeIsDone, DirsAreMade, TriesCount
  <2>4. TriedAreTaken'
    BY <2>1 DEF Crowd, TriedAreTaken, Back
  <2> QED
    BY <2>3, <2>4 DEF Crowd
<1>4. CASE ~(Begin(l) \/ DirExists(l) \/ MakeDir(l) \/ GiveUp(l))
  <2>1. /\ state'[l] \notin {"idle", "making", "full"}
        /\ \A m \in Launches \ {l} : state'[m] = state[m]
        /\ UNCHANGED <<tag, tries, made>>
    BY <1>4, StepsOne DEF Allocate, MakeDirFails, PathTooLong, PathFits, ListenControl,
       ListenEvents, Remove, CloseFirst, CloseSecond, RemoveFiles, RemoveDir, Crash,
       Holding
  <2>2. dir' = dir \/ dir' = [dir EXCEPT ![tag[l]] = None]
    BY <1>4 DEF Allocate, MakeDirFails, PathTooLong, PathFits, ListenControl,
       ListenEvents, Remove, CloseFirst, CloseSecond, RemoveFiles, RemoveDir, Crash
  <2>3. IsFiniteSet(made') /\ MadeIsDone' /\ TriesCount'
    BY <1>a, <2>1 DEF Crowd, MadeIsDone, TriesCount
  <2>4. DirsAreMade'
    BY <1>a, <2>1, <2>2 DEF Crowd, DirsAreMade, TypeOK
  <2>5. TriedAreTaken'
    BY <2>1 DEF Crowd, TriedAreTaken, Back
  <2> QED
    BY <2>3, <2>4, <2>5 DEF Crowd
<1> QED
  BY <1>1, <1>2, <1>3, <1>4

LEMMA CrowdInvariant == Spec => []Crowd
<1>1. Init => Crowd
  <2> SUFFICES ASSUME Init PROVE Crowd
    OBVIOUS
  <2>1. IsFiniteSet(made)
    BY FS_EmptySet DEF Init
  <2>2. MadeIsDone /\ DirsAreMade /\ TriesCount /\ TriedAreTaken
    BY DEF Init, MadeIsDone, DirsAreMade, TriesCount, TriedAreTaken
  <2> QED
    BY <2>1, <2>2 DEF Crowd
<1>2. IInv /\ Crowd /\ [Next]_vars => Crowd'
  <2>1. Crowd /\ UNCHANGED vars => Crowd'
    BY DEF Crowd, MadeIsDone, DirsAreMade, TriesCount, TriedAreTaken, Back, vars
  <2> QED
    BY <2>1, CrowdStep DEF Next
<1> QED
  BY <1>1, <1>2, Inductive, PTL DEF Spec

(* FullOnlyIfCrowded: a launch that reports no free runtime directory has  *)
(* met as many other launches as it has attempts, for any number of tags   *)
(* not below that of the attempts, wherever in the tags its search began   *)
(* (transport.rs:84-92).                                                   *)
THEOREM GivesUpInACrowd == Spec => []FullOnlyIfCrowded
<1>1. IInv /\ Crowd => FullOnlyIfCrowded
  <2> SUFFICES ASSUME IInv, Crowd, NEW l \in Launches, state[l] = "full"
               PROVE  Cardinality(made \ {l}) >= Attempts
    BY DEF FullOnlyIfCrowded
  <2>1. tries[l] = Attempts /\ tag[l] \in Tags /\ l \notin made
    BY DEF IInv, TypeOK, Crowd, TriesCount, MadeIsDone
  <2>2. \A k \in 1 .. Attempts : \E m \in made : tag[m] = Back(tag[l], k)
    BY <2>1 DEF Crowd, TriedAreTaken
  <2> DEFINE met == [k \in 1 .. Attempts |->
                       CHOOSE m \in made : tag[m] = Back(tag[l], k)]
  <2>3. \A k \in 1 .. Attempts : met[k] \in made /\ tag[met[k]] = Back(tag[l], k)
    BY <2>2
  <2> HIDE DEF met
  <2>4. \A j, k \in 1 .. Attempts : met[j] = met[k] => j = k
    BY <2>1, <2>3, BackDiffers
  <2>5. met \in [1 .. Attempts -> made \ {l}]
    <3>1. met = [k \in 1 .. Attempts |-> met[k]]
      BY DEF met
    <3> QED
      BY <2>1, <2>3, <3>1
  <2>6. met \in Injection(1 .. Attempts, made \ {l})
    BY <2>4, <2>5 DEF Injection, IsInjective
  <2>7. IsFiniteSet(made \ {l})
    BY FS_RemoveElement DEF Crowd
  <2>8. Cardinality(1 .. Attempts) <= Cardinality(made \ {l})
    BY <2>6, <2>7, FS_Injection
  <2>9. Cardinality(1 .. Attempts) = Attempts
    BY FS_Interval, EndpointsAssumption
  <2> QED
    BY <2>7, <2>8, <2>9, FS_CardinalityType, EndpointsAssumption
<1> QED
  BY <1>1, Inductive, CrowdInvariant, PTL

=============================================================================
