SPECIFICATION ManifestSpec
CONSTANTS
  Slashed = {"./plugin", "/usr/bin/plugin", "demo://0", "demo://1", "usb://04b4:8613/2.14", "file:///a?b", "ipc:///t/control", "ipc:///t/events", "/p", "/usr/bin/python"}
  Rooted = {"/usr/bin/plugin", "/p", "/usr/bin/python"}
  Scripts = {"plugin.py"}
  PluginDir = "/p"
  Python = "/usr/bin/python"
  MaxTokens = 3
CHECK_DEADLOCK FALSE
INVARIANTS
  LaunchIsUnderstood
  NotationsAgree
