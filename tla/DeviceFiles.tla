---------------------------- MODULE DeviceFiles ----------------------------
(***************************************************************************)
(* The queues behind /dev: trace events, and what programs print and read. *)
(* A trace event is written to the first entry of devfs_list, whatever it  *)
(* is, from any context; everyone else finds the queues by the names of    *)
(* sos_config, through the file systems of sysfs_list.  The order of two   *)
(* tables and four names, in three files, must agree.                      *)
(***************************************************************************)
EXTENDS DevFs, Sequences, SequencesExt

CONSTANTS
  Table,       \* the names of devfs_list, in its order
  Mounts,      \* sysfs_list, in its order
  Files,       \* the names in sos_config.fs, as sequences of components
  Queues,      \* the entries of the table that are queues
  QueueSize    \* bound: frames or bytes in a queue

ASSUME FilesAssumption ==
  /\ Len(Table) > 0 /\ Queues \subseteq Range(Table)
  /\ QueueSize \in Nat \ {0}

VARIABLES
  queue,   \* what each queue holds
  unread   \* the kinds written since a reader last found nothing

fileVars == <<vars, queue, unread>>

Kinds == {"event", "output", "input"}

\* A path is served by the first file system mounted above it.
FileSystem(path) == SelectInSeq(Mounts, LAMBDA m : IsPrefix(m.path, path))

\* The device a path opens, or Nobody.
Device(path) ==
  LET m == Mounts[FileSystem(path)]
  IN IF /\ m.driver = "devfs"
        /\ Len(path) = Len(m.path) + 1
        /\ Last(path) \in Range(Table)
     THEN Last(path)
     ELSE Nobody

\* A full queue takes no more; a device that is no queue keeps nothing.
Put(device, kind) ==
  /\ unread' = unread \cup {kind}
  /\ queue' = [q \in Queues |->
                 IF q = device /\ Len(queue[q]) < QueueSize
                 THEN Append(queue[q], kind)
                 ELSE queue[q]]

\* The device a reader of each kind has opened.
Source ==
  [event |-> Device(Files.trace_dev), output |-> Device(Files.stdout_dev),
   input |-> Device(Files.stdin_dev)]

\* board_trace_event and debug_trace_event: a thread or a fault handler.
TraceEvent == Put(Table[1], "event")

Printed == {Device(Files.stdout_dev), Device(Files.stderr_dev)}

\* A program prints, to stdout or stderr; the host types.
Output == \E device \in Printed : Put(device, "output")
Input == Put(Source.input, "input")

Held(kind) == IF Source[kind] \in Queues THEN queue[Source[kind]] ELSE <<>>

\* The debugger reads events, the host output, a program input.
Fetch(kind) ==
  /\ Held(kind) # <<>>
  /\ queue' = [queue EXCEPT ![Source[kind]] = Tail(@)]
  /\ unread' = IF Len(Held(kind)) = 1 THEN unread \ {kind} ELSE unread

FilesInit == Init /\ queue = [q \in Queues |-> <<>>] /\ unread = {}

FilesNext ==
  \/ Next /\ UNCHANGED <<queue, unread>>
  \/ (TraceEvent \/ Output \/ Input \/ \E kind \in Kinds : Fetch(kind)) /\ UNCHANGED vars

FilesSpec == FilesInit /\ [][FilesNext]_fileVars

(***************************************************************************)
(* A reader whose file is empty has missed nothing: as long as an event, a *)
(* line of output or of input is unread, the file its reader opens has     *)
(* something to read, wherever the writer put it.                          *)
(***************************************************************************)
NothingStrays == \A kind \in unread : Held(kind) # <<>>

(***************************************************************************)
(* A reader never gets what was meant for another: no program reads its    *)
(* own output or an event, and no event is printed.                        *)
(***************************************************************************)
StreamsApart ==
  \A kind \in Kinds : \A n \in DOMAIN Held(kind) : Held(kind)[n] = kind

=============================================================================
