\* Scripts of up to two commands that write up to three lines to each stream, too long for the Scanner or not.
CONSTANTS
  Streams = {stdout, stderr}
  Scripts <- MCScripts
  PipeSize = 1
  MaxCommands = 2
SPECIFICATION MSpec
INVARIANTS
  ShellEndsWithCall
  OutputIsPrefix
PROPERTIES
  CommandReturns
