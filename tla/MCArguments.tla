---------------------------- MODULE MCArguments ----------------------------
(***************************************************************************)
(* Every run of a manifest up to MaxTokens tokens, with every device.      *)
(***************************************************************************)
EXTENDS Arguments

CONSTANT MaxTokens  \* bound: tokens in run

VARIABLES run, device

Control == <<"ipc:///t/control">>
Events  == <<"ipc:///t/events">>

Devices == { <<"demo://0">>, <<"usb://04b4:8613/2.14">>, <<"file:///a?b", "c", "d">> }

Tokens ==
  { <<"{python}">>, <<"./plugin">>, <<"plugin.py">>, <<"/usr/bin/plugin">>, <<"-v">>,
    <<"--device">>, <<"--device", "demo://1">>, <<"--events", "a", "b">> }

ManifestInit == run = <<>> /\ device \in Devices

AddToken ==
  /\ Len(run) < MaxTokens
  /\ \E token \in Tokens : run' = Append(run, token)
  /\ UNCHANGED device

ManifestSpec == ManifestInit /\ [][AddToken]_<<run, device>>

-----------------------------------------------------------------------------
Asked ==
  Accepted([flag \in Flags |-> CASE flag = "--device"  -> device
                                [] flag = "--control" -> Control
                                [] flag = "--events"  -> Events])

Spawned == Launch(ResolveArgv(run), device, Control, Events)

(* A plugin that starts at all drives the device the frontend launched it  *)
(* for and dials its two sockets, whatever arguments the manifest adds and *)
(* whatever equals signs the URL has; a manifest that only names a program *)
(* always starts it (client.rs:38-56, args.rs:24-50).                      *)
LaunchIsUnderstood ==
  Spawned.ok =>
    LET read == Parse(Tail(Spawned.args)) IN
    /\ read.ok => read = Asked
    /\ Len(run) = 1 => read.ok

(* After a command line that is complete, --flag=value and --flag value    *)
(* mean the same: that value, whole, in place of the one the flag had      *)
(* (args.rs:23-45).                                                        *)
NotationsAgree ==
  LET line == run \o Tail(Launch(<<device>>, device, Control, Events).args)
      read == Parse(line)
  IN  read.ok =>
        \A flag \in Flags, value \in Devices :
          LET again == Accepted([read.args EXCEPT ![flag] = value]) IN
          /\ Parse(line \o << <<flag>> \o value >>) = again
          /\ Parse(line \o << <<flag>>, value >>) = again

=============================================================================
