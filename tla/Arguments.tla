----------------------------- MODULE Arguments -----------------------------
(***************************************************************************)
(* The command line of a plugin, from the frontend to the plugin:          *)
(* resolve_argv (manifest.rs) makes the program and its first arguments    *)
(* out of the manifest, CaptureClient::launch (client.rs) appends the      *)
(* device and the two sockets, and Args::parse (server/args.rs) reads it.  *)
(*                                                                         *)
(* A string is the sequence of its words between equals signs: "--x=a=b"   *)
(* is <<"--x", "a", "b">>.  What a word looks like is given by the sets.   *)
(***************************************************************************)
EXTENDS Naturals, Sequences

CONSTANTS
  Slashed,   \* words with a slash in them
  Rooted,    \* words that start with a slash
  Scripts,   \* words that end in .py
  PluginDir, \* the directory of the manifest
  Python     \* the interpreter

ASSUME ArgumentsAssumption ==
  /\ Rooted \subseteq Slashed
  /\ {PluginDir, Python} \subseteq Rooted

Flags == {"--device", "--control", "--events"}

Rejected == [ok |-> FALSE]
Accepted(args) == [ok |-> TRUE, args |-> args]

-----------------------------------------------------------------------------
LooksLikePath(string) ==
  \/ \E i \in DOMAIN string : string[i] \in Slashed
  \/ string[Len(string)] \in Scripts

(* One token of the manifest's run.                                        *)
Resolve(string) ==
  CASE string = <<"{python}">> -> <<Python>>
    [] LooksLikePath(string) /\ string[1] \notin Rooted ->
         <<PluginDir \o "/" \o string[1]>> \o Tail(string)
    [] OTHER -> string

ResolveArgv(run) == [i \in DOMAIN run |-> Resolve(run[i])]

-----------------------------------------------------------------------------
(* Variant: the two sockets are passed the other way round.                *)
LaunchSocketsSwapped(argv, device, control, events) ==
  IF argv = <<>> THEN Rejected
  ELSE Accepted(argv \o << <<"--device">>, device, <<"--control">>, events,
                           <<"--events">>, control >>)

(* What is spawned: argv, the device and the two sockets, each value as an *)
(* argument of its own.                                                    *)
Launch(argv, device, control, events) ==
  IF argv = <<>> THEN Rejected
  ELSE Accepted(argv \o << <<"--device">>, device, <<"--control">>, control,
                           <<"--events">>, events >>)

-----------------------------------------------------------------------------
(* Variant: the argument is split at every equals sign.                    *)
InlineValueOneWord(string) == <<string[2]>>

(* The value an argument of the form --flag=value carries: what follows    *)
(* the first equals sign.                                                  *)
InlineValue(string) == Tail(string)

(* A flag takes its value from its own string or from the next one.        *)
Inline(args, i) == Len(args[i]) > 1
Place(args, i) == IF Inline(args, i) THEN i ELSE i + 1
Value(args, i) == IF Inline(args, i) THEN InlineValue(args[i]) ELSE args[i + 1]

(* No string is without words.                                             *)
None == <<>>
EmptySlots == [flag \in Flags |-> None]

(* What the arguments from position at on leave in the slots: the last     *)
(* value of a flag is the one that counts.                                 *)
ParseFrom(args, at) ==
  LET n == Len(args)
      from[i \in 1 .. n + 1] ==
        IF i = n + 1 THEN Accepted(EmptySlots)
        ELSE LET flag == args[i][1]
                 next == Place(args, i) + 1
             IN  IF flag \notin Flags \/ next > n + 1 \/ ~from[next].ok THEN Rejected
                 ELSE Accepted([from[next].args EXCEPT
                                  ![flag] = IF @ = None THEN Value(args, i) ELSE @])
  IN  from[at]

Parse(args) ==
  LET all == ParseFrom(args, 1) IN
  IF all.ok /\ \A flag \in Flags : all.args[flag] # None THEN all ELSE Rejected

=============================================================================
